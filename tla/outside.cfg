SPECIFICATION Spec
CONSTANTS
  Faults = 2
  Logins = {1, 2}
  Withdrawals = {1, 2}
  MaxToken = 3
  None = None
  Puts = {1, 2}
  MaxSize = 3
  Limit = 2
  Purchases = {1, 2, 3, 4}
  Batch = 3
  JobFaults = 1
INVARIANTS
  TypeOK
  PageTellsTheTruth
  TokensGoWithTheUser
  ObjectsHold
PROPERTY
  WhatIsDueComes
CHECK_DEADLOCK FALSE
