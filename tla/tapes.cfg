SPECIFICATION Spec
CONSTANTS
  None = None
  Author = alice
  Users = {alice, bob, carol}
  Recordings = {r1}
  Paid = {r1}
  Owner <- MCOwner
  Stock = 2
  Groups = {g1}
  Sessions = {s1, s2}
  MaxToken = 2
SYMMETRY Symmetry
INVARIANTS
  TypeOK
  ChecksHold
  FilesFollowRows
PROPERTIES
  TapesStay
CHECK_DEADLOCK FALSE
