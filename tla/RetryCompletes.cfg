\* Expected to fail without any fault: the deletion of one application ends the
\* request that had claimed the delivery for another, and the retry finds it claimed.
SPECIFICATION Spec
CONSTANTS
  MaxApp = 2
  Branches = {b1}
  Off = Off
  Deliveries = {d1}
  Handlers = {h1}
  MaxFaults = 0
INVARIANTS
  RetryCompletes
