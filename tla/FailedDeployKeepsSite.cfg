\* Expected to fail: a deployment that fails to build leaves the placeholder page.
SPECIFICATION Spec
CONSTANTS
  Jobs = {j1, j2}
  Patches = {p1}
  Names = {n1, n2}
  Settings = {s1, s2}
  None = None
  MaxDists = 2
  MaxFaults = 0
INVARIANTS
  FailedDeployKeepsSite
CHECK_DEADLOCK FALSE
