\* Safety with faults, and liveness without: two applications, one delivery
\* repeated without bound by two handlers, two failed calls or crashes.
\* Following another branch is the same as following none, so one branch is enough.
SPECIFICATION FairSpec
CONSTANTS
  MaxApp = 2
  Branches = {b1}
  Off = Off
  Deliveries = {d1}
  Handlers = {h1, h2}
  MaxFaults = 2
INVARIANTS
  TypeOK
  AtMostOneDeployment
  ClaimsAreBacked
PROPERTIES
  ImplementsDeliveryOnce
  ClaimLeadsToDeployment
