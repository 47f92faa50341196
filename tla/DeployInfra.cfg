\* Safety with faults: two deployments, one patch and one deletion at any time,
\* one failed call or crash.
SPECIFICATION Spec
CONSTANTS
  Jobs = {j1, j2}
  Patches = {p1}
  Names = {n1, n2}
  Settings = {s1, s2}
  None = None
  MaxDists = 2
  MaxFaults = 1
SYMMETRY Symmetry
INVARIANTS
  TypeOK
  UndisturbedDeployHeals
  EverythingRecorded
PROPERTY OrderlyWritesKeepFields
CHECK_DEADLOCK FALSE
