SPECIFICATION Spec
CONSTANTS
  None = None
  Accounts = {a1, a2}
  Restricted = {a1}
  Devices = {d1}
  Sessions = {s1, s2}
  MaxUser = 3
  MaxToken = 2
SYMMETRY Symmetry
INVARIANTS
  TypeOK
  AccountsHold
PROPERTY
  NothingTooEarly
CHECK_DEADLOCK FALSE
