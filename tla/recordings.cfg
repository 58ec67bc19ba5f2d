SPECIFICATION Spec
CONSTANTS
  None = None
  Recordings = {r1}
  Sessions = {s1, s2}
  Workers = {w1, w2}
  Jobs = {j1, j2}
  Attempts = 2
  StallLimit = 1
SYMMETRY Symmetry
INVARIANTS
  TypeOK
  FilesFollowStatus
  ConversionsHold
PROPERTY
  ReadyStays
CHECK_DEADLOCK FALSE
