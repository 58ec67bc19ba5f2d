SPECIFICATION FairSpec
CONSTANTS
  None = None
  Sessions = {s1, s2}
  Users = {u, v}
  Serial = {u}
  Marks = {"plain", "marked"}
INVARIANTS
  TypeOK
  BlockSuppresses
  OnlyKnownDeadlocks
PROPERTIES
  ListsAndBlocksStay
  SessionsFinish
