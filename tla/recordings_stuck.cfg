SPECIFICATION FairSpec
CONSTANTS
  None = None
  Recordings = {r1}
  Sessions = {s1}
  Workers = {w1}
  Jobs = {j1}
  Attempts = 2
  StallLimit = 1
PROPERTY
  ProcessingEnds
CHECK_DEADLOCK FALSE
