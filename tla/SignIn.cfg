\* Three sign-ins from the browsers of two accounts, one change of address,
\* one failure.
SPECIFICATION Spec
CONSTANTS
  a1 = a1
  a2 = a2
  b1 = b1
  b2 = b2
  Accounts = {a1, a2}
  Browsers = {b1, b2}
  AccountOf <- MCAccountOf
  Emails = {e1, e2}
  NoEmail = NoEmail
  MaxAttempts = 3
  MaxMoves = 1
  MaxFaults = 1
SYMMETRY Symmetry
INVARIANTS
  TypeOK
  OneUserPerAccount
  TokenNamesIdentity
  LockoutHasACause
  RetryHasACause
PROPERTY ImplementsAccountBook
CHECK_DEADLOCK FALSE
