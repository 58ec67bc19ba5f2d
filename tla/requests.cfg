SPECIFICATION Spec
CONSTANTS
  None = None
  NoKey = NoKey
  Requests = {p1, p2}
  Base = 3
  Items = {1, 2, 3}
  Groups = {11, 12}
  Filled = {1, 2, 11}
  FilledIn <- MCFilledIn
  Width = 1
  MaxWrites = 2
  Rows = {1, 2, 3, 4}
  Limit = 2
  Instants = 3
  Grain = 2
  Persons = {u}
  Parcels = {d}
  Friends = {u}
  SenderOf <- MCSenderOf
  DailyLimit = 1
  Window = 2
  Retention = 2
  MaxNow = 3
  MaxKey = 2
  Faults = 1
  MaxWhole = 2
  MaxDigits = 3
SYMMETRY Symmetry
INVARIANTS
  TypeOK
  DrawerOrderHolds
  MovesLand
  ReadsShowAll
  ReportsHold
  VerdictsHaveCauses
CHECK_DEADLOCK FALSE
