\* Two requests about two deployments, two retries, two failures.
SPECIFICATION FairSpec
CONSTANTS
  Requests = {r1, r2}
  Deployments = {d1, d2}
  None = None
  ProviderRetries = 2
  MaxFaults = 2
INVARIANTS
  TypeOK
  LogTellsWhatHappened
  AnswerIsOnRecord
  PaidTextSurvives
  OnlyLateRowsRemain
PROPERTIES
  EveryRequestEnds
CHECK_DEADLOCK FALSE
