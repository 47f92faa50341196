\* Two deployments of a repository with two branches and four commits, one
\* patch of the branch, one failure; list and delete requests carry two keys at a time.
SPECIFICATION Spec
CONSTANTS
  Jobs = {j1, j2}
  Branches = {b1, b2}
  FirstBranch = b1
  Commits = {1, 2, 3, 4}
  Keys = {1, 2, 3}
  IndexKey = 2
  Repo <- MCRepo
  OutputDir = "dist"
  Tools = {"npm", "yarn"}
  PageSize = 2
  MaxPatches = 1
  MaxFaults = 1
SYMMETRY Symmetry
INVARIANTS
  TypeOK
  UndisturbedSyncIsExact
  BrokenSyncKeepsOldFiles
  SharedFilesSurvive
  PushIsDeployed
PROPERTIES
  SiteNeverGoesBack
  PipelineAdvances
CHECK_DEADLOCK FALSE
