SPECIFICATION FairSpec
CONSTANTS
  None = None
  TapePack = tapes
  DrawerPack = drawer
  Price <- MCPrice
  Tapes <- MCTapes
  Slots <- MCSlots
  PackCredits <- MCPackCredits
  AdUser <- MCAdUser
  Sessions = {s1, s2}
  Users = {1, 2}
  Leavers = {1, 2}
  Products = {tapes}
  GiftAmounts = {1}
  Keys = {k1}
  Receipts = {r1}
  PlayReceipts = {r1}
  AdCallbacks = {t1}
  SignupGift = 0
  AdReward = 1
  AdDailyLimit = 1
  MaxDay = 0
INVARIANTS
  ReceiptsHold
  OnlyWithdrawAndRefundDeadlock
PROPERTIES
  KeepsTheBook
 SessionsFinish
CHECK_DEADLOCK FALSE
