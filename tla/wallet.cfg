SPECIFICATION Spec
CONSTANTS
  None = None
  TapePack = tapes
  DrawerPack = drawer
  Price <- MCPrice
  Tapes <- MCTapes
  Slots <- MCSlots
  PackCredits <- MCPackCredits
  AdUser <- MCAdUser
  Sessions = {s1, s2, s3}
  Users = {1, 2}
  Leavers = {1}
  Products = {tapes, drawer}
  GiftAmounts = {1}
  Keys = {k1, k2}
  Receipts = {}
  PlayReceipts = {}
  AdCallbacks = {t1, t2}
  SignupGift = 1
  AdReward = 1
  AdDailyLimit = 1
  MaxDay = 1
SYMMETRY Symmetry
INVARIANTS
  AdRewardsHold
  TypeOK
  LedgerChain
  KeyMovesCreditsOnce
PROPERTY
  KeepsTheBook
CHECK_DEADLOCK FALSE
