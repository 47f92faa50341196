\* Safety, refinement and liveness: one application, two deployments, two
\* requests at a time, one failed database call or crash.  No symmetry: TLC
\* may not use it with a liveness property.
SPECIFICATION FairSpec
CONSTANTS
  Apps = {a1}
  NoApp = NoApp
  Requests = {r1, r2}
  MaxDeployments = 2
  MaxFaults = 1
INVARIANTS
  TypeOK
  StartedAtMostOnce
  StatusNeverAhead
  LiveRowHasOwner
PROPERTIES
  FinishTimeSurvives
  ImplementsRecord
  QueuedSettles
CHECK_DEADLOCK FALSE
