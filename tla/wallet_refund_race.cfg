SPECIFICATION Spec
CONSTANTS
  None = None
  TapePack = tapes
  DrawerPack = drawer
  Price <- MCPrice
  Tapes <- MCTapes
  Slots <- MCSlots
  PackCredits <- MCPackCredits
  AdUser <- MCAdUser
  Sessions = {s1, s2}
  Users = {1}
  Leavers = {}
  Products = {}
  GiftAmounts = {}
  Keys = {}
  Receipts = {r1}
  PlayReceipts = {}
  AdCallbacks = {}
  SignupGift = 0
  AdReward = 1
  AdDailyLimit = 1
  MaxDay = 0
INVARIANT
  AnsweredRefundIsSettled
CHECK_DEADLOCK FALSE
