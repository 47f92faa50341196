\* Expected to fail: after a rename, uploads go to a bucket nobody serves.
SPECIFICATION Spec
CONSTANTS
  Jobs = {j1, j2}
  Patches = {p1}
  Names = {n1, n2}
  Settings = {s1, s2}
  None = None
  MaxDists = 2
  MaxFaults = 0
INVARIANTS
  ServesWhatItUploads
CHECK_DEADLOCK FALSE
