SPECIFICATION FairSpec
CONSTANTS
  None = None
  Purchase = purchase
  Send = send
  Claim = claim
  Op <- MCOp
  Sessions = {s1, s2}
  Keys = {purchase, claim}
  Bodies = {b1, b2}
  Expiring = {purchase, claim}
INVARIANTS
  TypeOK
  RunsHold
PROPERTIES
  StoredAnswerStays
  PendingSettles
