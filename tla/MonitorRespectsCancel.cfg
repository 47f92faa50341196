\* Expected to fail: the monitor overwrites a cancel that lands between its read and its write.
SPECIFICATION Spec
CONSTANTS
  Apps = {a1}
  NoApp = NoApp
  Requests = {r1, r2}
  MaxDeployments = 2
  MaxFaults = 0
PROPERTIES
  MonitorRespectsCancel
CHECK_DEADLOCK FALSE
