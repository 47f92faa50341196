\* Two deployments or deletions overlap around one or two applications, one
\* request that saves a connection and one that creates an application, with
\* one change at AWS or one failed call or crash; apart from them one request
\* that creates an application and two deployments that clone it.
SPECIFICATION MCSpec
CONSTANTS
  r1 = r1
  r2 = r2
  r3 = r3
  x = x
  y = y
  i1 = i1
  i2 = i2
  Roles = {r1, r2, r3}
  HomeOf <- MCHomeOf
  Externals = {short, x, y}
  Short = {short}
  Local = FALSE
  Apps = {a1, a2}
  Repos = {repo}
  Branches = {main, dev}
  Savers = {s1}
  Creators = {c1}
  Jobs = {j1, j2}
  None = None
  FirstTrust <- MCFirstTrust
  MaxChanges = 1
  MaxFaults = 1
  Repositories = {1, 2}
  PageSize = 1
  Installations = {i1, i2}
  NoInstallation = NoInstallation
  Applicants = {p1}
  Runs = {d1}
  FirstGrants <- MCFirstGrants
  MaxGrantChanges = 1
  MaxRestarts = 1
SYMMETRY Symmetry
INVARIANTS
  TypeOK
  OneAccountIsNeverRefused
  GoneAppHasNoBucket
  OneInstallationSuffices
PROPERTY ImplementsRegistry
CHECK_DEADLOCK FALSE
