------------------------------- MODULE Wallet -------------------------------
(***************************************************************************)
(* Credits: the balance users.credits, the append-only credit_ledger, and  *)
(* every operation that moves credits -- sign-up gift, shop purchase, gift *)
(* between users, in-app purchase, store refund, ad reward, withdrawal.    *)
(*                                                                         *)
(* Each handler is one PostgreSQL transaction at READ COMMITTED, run by a  *)
(* session of the server.  A transaction is modelled statement by          *)
(* statement wherever another session can come between: it takes row locks *)
(* as it goes, keeps what it wrote to itself (rows), and publishes it when *)
(* it commits.  Any session may crash, which rolls its transaction back.   *)
(*                                                                         *)
(* Row locks.  An exclusive lock on a users row is taken by UPDATE, by     *)
(* DELETE and by SELECT ... FOR UPDATE.  The weaker KEY SHARE lock that a  *)
(* foreign-key check takes is modelled in the one place where the session  *)
(* does not hold the exclusive lock anyway: between the INSERT of an       *)
(* iap_purchases row and the UPDATE of its user (see KeyShare).            *)
(***************************************************************************)
EXTENDS Integers, Sequences, FiniteSets, WaitGraph

CONSTANTS
  Sessions,      \* concurrent request handlers of the server
  Users,         \* users.id; numbers, because gift() locks in id order
  Leavers,       \* the users that may withdraw (bound)
  Products,      \* shop products
  Price,         \* credits a product costs
  Tapes,         \* tapes a product adds (0 for a drawer extension)
  Slots,         \* drawer slots a product adds (0 for tapes)
  GiftAmounts,   \* GIFT_AMOUNTS
  Keys,          \* Idempotency-Key values a client may send
  Receipts,      \* store transactions: (store, transaction_id)
  PlayReceipts,  \* those of Google Play, the others are of the App Store
  PackCredits,   \* credits of the pack a receipt was paid for
  AdCallbacks,   \* AdMob transaction ids
  AdUser,        \* the user an AdMob callback is signed for
  SignupGift, AdReward, AdDailyLimit,
  MaxDay,        \* last day of the model (bound)
  None           \* SQL NULL

ASSUME UsersAssumption ==
  /\ Users \subseteq Nat
  /\ Leavers \subseteq Users
  /\ None \notin Users \cup Receipts \cup Products \cup AdCallbacks \cup Sessions

ASSUME PricesAssumption ==
  /\ GiftAmounts \subseteq Nat \ {0}
  /\ Price \in [Products -> Nat \ {0}]
  /\ Tapes \in [Products -> Nat]
  /\ Slots \in [Products -> Nat]
  /\ PackCredits \in [Receipts -> Nat \ {0}]
  /\ AdUser \in [AdCallbacks -> Users]
  /\ PlayReceipts \subseteq Receipts
  /\ SignupGift \in Nat
  /\ AdReward \in Nat \ {0}
  /\ AdDailyLimit \in Nat
  /\ MaxDay \in Nat

VARIABLES
  status,     \* users: "new" (no row yet), "active", "gone" (row deleted)
  credits,    \* users.credits
  ledger,     \* credit_ledger rows of a user, oldest first
  goods,      \* tape_inventory (all types together) and users.drawer_cap
  purchases,  \* iap_purchases, status "absent" when there is no row
  adDate,     \* ad_rewards.reward_date, NoDate when there is no row
  store,      \* what the store says of a receipt
  events,     \* billing_events: refund notifications recorded
  acked,      \* refund notifications answered with 200
  day,        \* the date in Korea
  grants,     \* history: how many times a receipt was paid out
  purged,     \* history: receipts whose expired record was deleted
  sess,       \* what each session is doing, and its local variables
  rows,       \* ledger rows a session has written and not yet committed
  userLock,   \* holder of the exclusive lock on a users row
  rcptLock    \* holder of the lock on an iap_purchases row

userVars  == <<status, credits, ledger, goods>>
storeVars == <<store, events, acked, grants, purged>>
lockVars  == <<rows, userLock, rcptLock>>
vars == <<status, credits, ledger, goods, purchases, adDate, store, events,
          acked, day, grants, purged, sess, rows, userLock, rcptLock>>

-----------------------------------------------------------------------------
(* Rows of the tables. *)

NoDate == 0 - 1
DefaultDrawerCap == 12

Kinds == {"signup_gift", "ad_reward", "iap", "tape_purchase",
          "drawer_expand", "gift_sent", "gift_received", "refund"}

NoKey == <<"none">>
ClientKey(k)    == <<"client", k>>
IapKey(r)       == <<"iap", r>>
RefundKey(r)    == <<"refund", r>>
AdKey(t)        == <<"ad", t>>
LedgerKeys == {NoKey} \cup {ClientKey(k) : k \in Keys}
                \cup {IapKey(r) : r \in Receipts}
                \cup {RefundKey(r) : r \in Receipts}
                \cup {AdKey(t) : t \in AdCallbacks}

Row == [delta : Int, balanceAfter : Nat, kind : Kinds, key : LedgerKeys,
        ref : Users \cup Receipts \cup Products \cup {None}]

NoRow == [delta |-> 0, balanceAfter |-> 0, kind |-> "none", key |-> NoKey,
          ref |-> None]
NoRows == [u \in Users |-> NoRow]

Purchase == [status : {"absent", "granted", "refunded"},
             owner : Users \cup {None}, unrecovered : Nat,
             consumed : BOOLEAN]
NoPurchase == [status |-> "absent", owner |-> None, unrecovered |-> 0,
               consumed |-> FALSE]

PCs == {"idle", "bought",
        "gift-first", "gift-second", "gift-debit", "gift-credit",
        "gift-commit", "iap-insert", "iap-apply", "iap-commit", "consume",
        "refund-lock", "refund-user", "refund-apply", "refund-mark",
        "ad-check", "ad-insert", "ad-commit", "withdraw"}

Session == [pc : PCs, user : Users \cup {None}, peer : Users \cup {None},
            key : LedgerKeys, amount : Nat,
            item : Receipts \cup Products \cup AdCallbacks \cup {None},
            day : 0 .. MaxDay]

Task(pc, user, peer, key, amount, item) ==
  [pc |-> pc, user |-> user, peer |-> peer, key |-> key, amount |-> amount,
   item |-> item, day |-> 0]
Idle == Task("idle", None, None, NoKey, 0, None)

TypeOK ==
  /\ status \in [Users -> {"new", "active", "gone"}]
  /\ credits \in [Users -> Nat]
  /\ ledger \in [Users -> Seq(Row)]
  /\ goods \in [Users -> [tapes : Nat, drawer : Nat]]
  /\ purchases \in [Receipts -> Purchase]
  /\ adDate \in [AdCallbacks -> (0 .. MaxDay) \cup {NoDate}]
  /\ store \in [Receipts -> {"paid", "refunded"}]
  /\ events \subseteq Receipts
  /\ acked \subseteq Receipts
  /\ day \in 0 .. MaxDay
  /\ grants \in [Receipts -> Nat]
  /\ purged \subseteq Receipts
  /\ sess \in [Sessions -> Session]
  /\ rows \in [Sessions -> [Users -> Row \cup {NoRow}]]
  /\ userLock \in [Users -> Sessions \cup {None}]
  /\ rcptLock \in [Receipts -> Sessions \cup {None}]

Init ==
  /\ status = [u \in Users |-> "new"]
  /\ credits = [u \in Users |-> 0]
  /\ ledger = [u \in Users |-> <<>>]
  /\ goods = [u \in Users |-> [tapes |-> 0, drawer |-> DefaultDrawerCap]]
  /\ purchases = [r \in Receipts |-> NoPurchase]
  /\ adDate = [t \in AdCallbacks |-> NoDate]
  /\ store = [r \in Receipts |-> "paid"]
  /\ events = {} /\ acked = {} /\ day = 0
  /\ grants = [r \in Receipts |-> 0]
  /\ purged = {}
  /\ sess = [p \in Sessions |-> Idle]
  /\ rows = [p \in Sessions |-> NoRows]
  /\ userLock = [u \in Users |-> None]
  /\ rcptLock = [r \in Receipts |-> None]

-----------------------------------------------------------------------------
(* Transactions. *)

At(p, pc) == sess[p].pc = pc
Goto(p, pc) == sess' = [sess EXCEPT ![p].pc = pc]
Start(p, s) == At(p, "idle") /\ sess' = [sess EXCEPT ![p] = s]

(* Sessions that inserted a purchase of user u and did not commit: the     *)
(* foreign-key check holds KEY SHARE on the users row, which conflicts     *)
(* with FOR UPDATE and DELETE and not with the UPDATE of apply().          *)
KeyShare(u) == {q \in Sessions : At(q, "iap-apply") /\ sess[q].user = u}

(* Sessions whose exclusive lock is that of an UPDATE of credits, with     *)
(* which KEY SHARE does not conflict.                                      *)
OnlyUpdates(q) == sess[q].pc \in {"bought", "iap-commit"}

(* SELECT ... FROM users WHERE id = u FOR UPDATE, or DELETE. *)
LockUser(p, u) ==
  /\ userLock[u] = None
  /\ KeyShare(u) \subseteq {p}
  /\ userLock' = [userLock EXCEPT ![u] = p]

\* Mutant: balance read and written without the row lock of the UPDATE.
UnlockedAlways(p, u) == p \in Sessions /\ u \in Users

Unlocked(p, u) == userLock[u] \in {None, p}

\* Mutant: an UPDATE without "AND credits + :delta >= 0".
AcceptsOverdraft(u, delta, key) ==
  /\ status[u] = "active" /\ delta \in Int
  /\ key # NoKey => \A i \in DOMAIN ledger[u] : ledger[u][i].key # key

\* Mutant: a ledger without UQ_credit_ledger_user_idempotency.
AcceptsKeyAgain(u, delta, key) ==
  status[u] = "active" /\ credits[u] + delta >= 0 /\ key \in LedgerKeys

(* The conditional UPDATE finds the row and the INSERT meets no UNIQUE     *)
(* (user_id, idempotency_key) violation; SQL NULL keys never collide.      *)
Accepts(u, delta, key) ==
  /\ status[u] = "active"
  /\ credits[u] + delta >= 0
  /\ key # NoKey => \A i \in DOMAIN ledger[u] : ledger[u][i].key # key

(* WalletService.apply: UPDATE users ... RETURNING credits, then INSERT    *)
(* the ledger row; neither is visible to others before the commit.         *)
Apply(p, u, delta, kind, key, ref) ==
  /\ Unlocked(p, u)
  /\ Accepts(u, delta, key)
  /\ userLock' = [userLock EXCEPT ![u] = p]
  /\ rows' = [rows EXCEPT ![p][u] =
                [delta |-> delta, balanceAfter |-> credits[u] + delta,
                 kind |-> kind, key |-> key, ref |-> ref]]

\* Mutant: a transaction left open, whose locks on users are never released.
ReleaseNoUser(p) ==
  /\ UNCHANGED userLock
  /\ rcptLock' = [r \in Receipts |-> IF rcptLock[r] = p THEN None
                                                        ELSE rcptLock[r]]
  /\ rows' = [rows EXCEPT ![p] = NoRows]

Release(p) ==
  /\ userLock' = [u \in Users |-> IF userLock[u] = p THEN None
                                                     ELSE userLock[u]]
  /\ rcptLock' = [r \in Receipts |-> IF rcptLock[r] = p THEN None
                                                        ELSE rcptLock[r]]
  /\ rows' = [rows EXCEPT ![p] = NoRows]

Commit(p) ==
  /\ credits' = [u \in Users |-> IF rows[p][u] = NoRow THEN credits[u]
                                 ELSE rows[p][u].balanceAfter]
  /\ ledger' = [u \in Users |-> IF rows[p][u] = NoRow THEN ledger[u]
                                ELSE Append(ledger[u], rows[p][u])]
  /\ Release(p)

Rollback(p) ==
  /\ Release(p)
  /\ sess' = [sess EXCEPT ![p] = Idle]
  /\ UNCHANGED <<status, credits, ledger, goods, purchases, adDate, store,
                 events, acked, day, grants, purged>>

-----------------------------------------------------------------------------
(* Sign-up: the users row is new, so nobody contends for it. *)

SignUp(u) ==
  /\ status[u] = "new"
  /\ status' = [status EXCEPT ![u] = "active"]
  /\ IF SignupGift > 0
     THEN /\ credits' = [credits EXCEPT ![u] = SignupGift]
          /\ ledger' = [ledger EXCEPT ![u] =
               <<[delta |-> SignupGift, balanceAfter |-> SignupGift,
                  kind |-> "signup_gift", key |-> NoKey, ref |-> None]>>]
     ELSE UNCHANGED <<credits, ledger>>
  /\ UNCHANGED <<goods, purchases, adDate, storeVars, day, sess, lockVars>>

-----------------------------------------------------------------------------
(* ShopService.purchase *)

PurchaseApply(p, u, g, k) ==
  /\ Start(p, Task("bought", u, None, ClientKey(k), 0, g))
  /\ Apply(p, u, 0 - Price[g],
           IF Slots[g] = 0 THEN "tape_purchase" ELSE "drawer_expand",
           ClientKey(k), g)
  /\ UNCHANGED <<userVars, purchases, adDate, storeVars, day, rcptLock>>

PurchaseCommit(p) ==
  /\ At(p, "bought")
  /\ Commit(p)
  /\ LET u == sess[p].user
         g == sess[p].item
     IN  goods' = [goods EXCEPT ![u] = [tapes |-> @.tapes + Tapes[g],
                                        drawer |-> @.drawer + Slots[g]]]
  /\ sess' = [sess EXCEPT ![p] = Idle]
  /\ UNCHANGED <<status, purchases, adDate, storeVars, day>>

-----------------------------------------------------------------------------
(* WalletService.gift.  That the two are friends and that neither blocks   *)
(* the other is read before any lock is taken, so it says nothing about    *)
(* the moment of the commit: here the check may pass for any two users.    *)

\* Mutant: the sender is locked first.
SenderFirst(p) == <<sess[p].user, sess[p].peer>>

InIdOrder(p) == IF sess[p].user < sess[p].peer
                THEN <<sess[p].user, sess[p].peer>>
                ELSE <<sess[p].peer, sess[p].user>>
First(p)  == InIdOrder(p)[1]
Second(p) == InIdOrder(p)[2]

GiftCheck(p, a, b, n, k) ==
  /\ a # b
  /\ status[a] = "active" /\ status[b] = "active"
  /\ Start(p, Task("gift-first", a, b, ClientKey(k), n, None))
  /\ UNCHANGED <<userVars, purchases, adDate, storeVars, day, lockVars>>

GiftLockFirst(p) ==
  /\ At(p, "gift-first")
  /\ status[First(p)] = "active"
  /\ LockUser(p, First(p))
  /\ Goto(p, "gift-second")
  /\ UNCHANGED <<userVars, purchases, adDate, storeVars, day, rows, rcptLock>>

GiftLockSecond(p) ==
  /\ At(p, "gift-second")
  /\ status[Second(p)] = "active"
  /\ LockUser(p, Second(p))
  /\ Goto(p, "gift-debit")
  /\ UNCHANGED <<userVars, purchases, adDate, storeVars, day, rows, rcptLock>>

\* Mutant: the debit commits before the credit begins.
GiftDebitAlone(p) ==
  LET a == sess[p].user
      n == sess[p].amount
  IN  /\ At(p, "gift-debit")
      /\ Accepts(a, 0 - n, sess[p].key)
      /\ credits' = [credits EXCEPT ![a] = @ - n]
      /\ ledger' = [ledger EXCEPT ![a] = Append(@,
           [delta |-> 0 - n, balanceAfter |-> credits[a] - n,
            kind |-> "gift_sent", key |-> sess[p].key, ref |-> sess[p].peer])]
      /\ Goto(p, "gift-credit")
      /\ UNCHANGED <<status, goods, purchases, adDate, storeVars, day, lockVars>>

GiftDebit(p) ==
  /\ At(p, "gift-debit")
  /\ Apply(p, sess[p].user, 0 - sess[p].amount, "gift_sent", sess[p].key,
           sess[p].peer)
  /\ Goto(p, "gift-credit")
  /\ UNCHANGED <<userVars, purchases, adDate, storeVars, day, rcptLock>>

GiftCredit(p) ==
  /\ At(p, "gift-credit")
  /\ Apply(p, sess[p].peer, sess[p].amount, "gift_received", sess[p].key,
           sess[p].user)
  /\ Goto(p, "gift-commit")
  /\ UNCHANGED <<userVars, purchases, adDate, storeVars, day, rcptLock>>

GiftCommit(p) ==
  /\ At(p, "gift-commit")
  /\ Commit(p)
  /\ sess' = [sess EXCEPT ![p] = Idle]
  /\ UNCHANGED <<status, goods, purchases, adDate, storeVars, day>>

-----------------------------------------------------------------------------
(* BillingService.verifyIap *)

(* The answer of the store is read before the transaction begins.  Google  *)
(* Play is asked; the App Store is not: the client brings a signed         *)
(* transaction, which may be from before the refund.                       *)
IapVerify(p, u, r) ==
  /\ status[u] = "active"
  /\ r \in PlayReceipts => store[r] = "paid"
  /\ Start(p, Task("iap-insert", u, None, NoKey, 0, r))
  /\ UNCHANGED <<userVars, purchases, adDate, storeVars, day, lockVars>>

(* INSERT ... ON CONFLICT DO NOTHING waits for an uncommitted row with the *)
(* same key.  A committed one ends the transaction: RECEIPT_ALREADY_USED   *)
(* for another user; for its owner alreadyProcessed, and the Play purchase *)
(* is consumed (again).                                                    *)
\* Mutant: SELECT, then a plain INSERT without the UNIQUE constraint.
IapInsertUnguarded(p) ==
  LET u == sess[p].user
      r == sess[p].item
  IN  /\ At(p, "iap-insert")
      /\ purchases[r].status = "absent" /\ status[u] = "active"
      /\ rcptLock' = [rcptLock EXCEPT ![r] = p]
      /\ Goto(p, "iap-apply")
      /\ UNCHANGED <<userVars, purchases, adDate, storeVars, day, rows,
                     userLock>>

IapInsert(p) ==
  LET u == sess[p].user
      r == sess[p].item
  IN  /\ At(p, "iap-insert")
      /\ \/ /\ purchases[r].status = "absent"
            /\ rcptLock[r] = None
            /\ status[u] = "active"
            /\ userLock[u] # None => OnlyUpdates(userLock[u])
            /\ rcptLock' = [rcptLock EXCEPT ![r] = p]
            /\ Goto(p, "iap-apply")
         \/ /\ purchases[r].status # "absent"
            /\ sess' = [sess EXCEPT ![p] =
                  IF purchases[r].owner = u /\ r \in PlayReceipts
                  THEN [@ EXCEPT !.pc = "consume"] ELSE Idle]
            /\ UNCHANGED rcptLock
      /\ UNCHANGED <<userVars, purchases, adDate, storeVars, day, rows,
                     userLock>>

IapApply(p) ==
  LET r == sess[p].item
  IN  /\ At(p, "iap-apply")
      /\ Apply(p, sess[p].user, PackCredits[r], "iap", IapKey(r), r)
      /\ Goto(p, "iap-commit")
      /\ UNCHANGED <<userVars, purchases, adDate, storeVars, day, rcptLock>>

IapCommit(p) ==
  LET r == sess[p].item
  IN  /\ At(p, "iap-commit")
      /\ Commit(p)
      /\ purchases' = [purchases EXCEPT ![r] =
            [NoPurchase EXCEPT !.status = "granted", !.owner = sess[p].user]]
      /\ grants' = [grants EXCEPT ![r] = @ + 1]
      /\ sess' = [sess EXCEPT ![p] = IF r \in PlayReceipts
                    THEN [@ EXCEPT !.pc = "consume"] ELSE Idle]
      /\ UNCHANGED <<status, goods, adDate, store, events, acked, day, purged>>

MarkConsumed(r) ==
  purchases' = [purchases EXCEPT ![r].consumed =
                  @ \/ purchases[r].status # "absent"]

(* consumePlay after the commit; a failure is logged and forgotten. *)
ConsumePlay(p) ==
  LET r == sess[p].item
  IN  /\ At(p, "consume")
      /\ \/ rcptLock[r] = None /\ MarkConsumed(r)
         \/ UNCHANGED purchases
      /\ sess' = [sess EXCEPT ![p] = Idle]
      /\ UNCHANGED <<userVars, adDate, storeVars, day, lockVars>>

(* Hourly job: retryPlayConsumes, for one of the purchases it found.  The  *)
(* UPDATE that follows does not look at the status again.                  *)
RetryPlayConsume(p, r) ==
  /\ r \in PlayReceipts
  /\ purchases[r].status = "granted"
  /\ ~purchases[r].consumed
  /\ Start(p, Task("consume", None, None, NoKey, 0, r))
  /\ UNCHANGED <<userVars, purchases, adDate, storeVars, day, lockVars>>

(* Hourly job: purgeExpiredPaymentRecords.  Five years are any time.  It   *)
(* deletes the purchase if its user is gone, and the notification, which   *)
(* may be younger than the purchase.  Once per receipt (bound).            *)
PurgeExpiredPaymentRecord(r) ==
  /\ r \notin purged
  /\ purchases[r].status # "absent"
  /\ purchases[r].owner = None
  /\ rcptLock[r] = None
  /\ purchases' = [purchases EXCEPT ![r] = NoPurchase]
  /\ events' \in {events, events \ {r}}
  /\ purged' = purged \cup {r}
  /\ UNCHANGED <<userVars, adDate, store, acked, grants, day, sess, lockVars>>

-----------------------------------------------------------------------------
(* Refunds: handleAppleNotification, handlePlayRtdn, refund *)

(* The store refunds the buyer and notifies until it is answered with 200, *)
(* and may notify again after that.                                        *)
StoreRefund(r) ==
  /\ store[r] = "paid"
  /\ store' = [store EXCEPT ![r] = "refunded"]
  /\ UNCHANGED <<userVars, purchases, adDate, events, acked, grants, purged,
                 day, sess, lockVars>>

RefundNotified(p, r) ==
  /\ store[r] = "refunded"
  /\ Start(p, Task("refund-lock", None, None, NoKey, 0, r))
  /\ events' = events \cup {r}
  /\ UNCHANGED <<userVars, purchases, adDate, store, acked, grants, purged,
                 day, lockVars>>

\* Mutant: the purchase is read without FOR UPDATE.
RefundRead(p) ==
  LET r == sess[p].item
  IN  /\ At(p, "refund-lock")
      /\ purchases[r].status = "granted"
      /\ sess' = [sess EXCEPT ![p].pc = IF purchases[r].owner = None
                                        THEN "refund-mark" ELSE "refund-user",
                              ![p].user = purchases[r].owner]
      /\ UNCHANGED <<userVars, purchases, adDate, storeVars, day, lockVars>>

(* SELECT ... FOR UPDATE sees committed rows only: it does not wait for a  *)
(* purchase that is being inserted, it finds nothing and answers 200.      *)
RefundLock(p) ==
  LET r == sess[p].item
  IN  /\ At(p, "refund-lock")
      /\ \/ /\ purchases[r].status = "absent"
            /\ sess' = [sess EXCEPT ![p] = Idle]
            /\ acked' = acked \cup {r}
            /\ UNCHANGED rcptLock
         \/ /\ purchases[r].status = "refunded"
            /\ rcptLock[r] = None
            /\ sess' = [sess EXCEPT ![p] = Idle]
            /\ acked' = acked \cup {r}
            /\ UNCHANGED rcptLock
         \/ /\ purchases[r].status = "granted"
            /\ rcptLock[r] = None
            /\ rcptLock' = [rcptLock EXCEPT ![r] = p]
            /\ sess' = [sess EXCEPT ![p].pc = IF purchases[r].owner = None
                                              THEN "refund-mark"
                                              ELSE "refund-user",
                                    ![p].user = purchases[r].owner]
            /\ UNCHANGED acked
      /\ UNCHANGED <<userVars, purchases, adDate, store, events, grants,
                     purged, day, rows, userLock>>

RefundLockUser(p) ==
  LET u == sess[p].user
      r == sess[p].item
      recovered == IF credits[u] < PackCredits[r] THEN credits[u]
                                                  ELSE PackCredits[r]
  IN  /\ At(p, "refund-user")
      /\ LockUser(p, u)
      /\ sess' = [sess EXCEPT ![p].pc = IF recovered > 0 THEN "refund-apply"
                                                         ELSE "refund-mark",
                              ![p].amount = recovered]
      /\ UNCHANGED <<userVars, purchases, adDate, storeVars, day, rows,
                     rcptLock>>

RefundApply(p) ==
  LET r == sess[p].item
  IN  /\ At(p, "refund-apply")
      /\ Apply(p, sess[p].user, 0 - sess[p].amount, "refund", RefundKey(r), r)
      /\ Goto(p, "refund-mark")
      /\ UNCHANGED <<userVars, purchases, adDate, storeVars, day, rcptLock>>

RefundMark(p) ==
  LET r == sess[p].item
  IN  /\ At(p, "refund-mark")
      /\ Commit(p)
      /\ purchases' = [purchases EXCEPT ![r].status = "refunded",
              ![r].unrecovered = PackCredits[r] - sess[p].amount]
      /\ acked' = acked \cup {r}
      /\ sess' = [sess EXCEPT ![p] = Idle]
      /\ UNCHANGED <<status, goods, adDate, store, events, grants, purged, day>>

-----------------------------------------------------------------------------
(* WalletService.grantAdReward, on the AdMob callback *)

\* Mutant: the user is read without FOR UPDATE.
AdRead(p, t) ==
  /\ status[AdUser[t]] = "active"
  /\ Start(p, Task("ad-check", AdUser[t], None, NoKey, 0, t))
  /\ UNCHANGED <<userVars, purchases, adDate, storeVars, day, lockVars>>

AdLock(p, t) ==
  LET u == AdUser[t]
  IN  /\ status[u] = "active"
      /\ LockUser(p, u)
      /\ Start(p, Task("ad-check", u, None, NoKey, 0, t))
      /\ UNCHANGED <<userVars, purchases, adDate, storeVars, day, rows,
                     rcptLock>>

AdRewardsOn(u, d) ==
  {t \in AdCallbacks : AdUser[t] = u /\ adDate[t] = d}

(* existsBy and adRewardsToday; "duplicate" and "limit" commit nothing.    *)
AdCheck(p) ==
  LET u == sess[p].user
      t == sess[p].item
  IN  /\ At(p, "ad-check")
      /\ IF /\ adDate[t] = NoDate
            /\ Cardinality(AdRewardsOn(u, day)) < AdDailyLimit
         THEN Goto(p, "ad-insert") /\ UNCHANGED lockVars
         ELSE Release(p) /\ sess' = [sess EXCEPT ![p] = Idle]
      /\ UNCHANGED <<userVars, purchases, adDate, storeVars, day>>

(* reward_date is a second reading of the clock, then apply(). *)
AdInsert(p) ==
  LET u == sess[p].user
      t == sess[p].item
  IN  /\ At(p, "ad-insert")
      /\ Apply(p, u, AdReward, "ad_reward", AdKey(t), None)
      /\ sess' = [sess EXCEPT ![p].pc = "ad-commit", ![p].day = day]
      /\ UNCHANGED <<userVars, purchases, adDate, storeVars, day, rcptLock>>

AdCommit(p) ==
  /\ At(p, "ad-commit")
  /\ Commit(p)
  /\ adDate' = [adDate EXCEPT ![sess[p].item] = sess[p].day]
  /\ sess' = [sess EXCEPT ![p] = Idle]
  /\ UNCHANGED <<status, goods, purchases, storeVars, day>>

Midnight ==
  /\ day < MaxDay
  /\ day' = day + 1
  /\ UNCHANGED <<userVars, purchases, adDate, storeVars, sess, lockVars>>

-----------------------------------------------------------------------------
(* UsersService.withdraw: DELETE FROM users, its cascades, and             *)
(* ON DELETE SET NULL on iap_purchases, which locks each of those rows.    *)

PurchasesOf(u) == {r \in Receipts : purchases[r].owner = u}

WithdrawDelete(p, u) ==
  /\ u \in Leavers
  /\ status[u] = "active"
  /\ LockUser(p, u)
  /\ Start(p, Task("withdraw", u, None, NoKey, 0, None))
  /\ UNCHANGED <<userVars, purchases, adDate, storeVars, day, rows, rcptLock>>

WithdrawSetNull(p, r) ==
  /\ At(p, "withdraw")
  /\ r \in PurchasesOf(sess[p].user)
  /\ rcptLock[r] = None
  /\ rcptLock' = [rcptLock EXCEPT ![r] = p]
  /\ UNCHANGED <<userVars, purchases, adDate, storeVars, day, sess, rows,
                 userLock>>

WithdrawCommit(p) ==
  LET u == sess[p].user
  IN  /\ At(p, "withdraw")
      /\ \A r \in PurchasesOf(u) : rcptLock[r] = p
      /\ status' = [status EXCEPT ![u] = "gone"]
      /\ credits' = [credits EXCEPT ![u] = 0]
      /\ ledger' = [ledger EXCEPT ![u] = <<>>]
      /\ goods' = [goods EXCEPT ![u] = [tapes |-> 0, drawer |-> 0]]
      /\ purchases' = [r \in Receipts |-> IF r \in PurchasesOf(u)
                         THEN [purchases[r] EXCEPT !.owner = None]
                         ELSE purchases[r]]
      /\ adDate' = [t \in AdCallbacks |-> IF AdUser[t] = u THEN NoDate
                                                           ELSE adDate[t]]
      /\ Release(p)
      /\ sess' = [sess EXCEPT ![p] = Idle]
      /\ UNCHANGED <<storeVars, day>>

-----------------------------------------------------------------------------
(* Failures *)

Refused(p, u, delta, key) == Unlocked(p, u) /\ ~Accepts(u, delta, key)

(* The next statement of the session throws: USER_NOT_FOUND (a foreign-key *)
(* violation for iap), INSUFFICIENT_CREDITS, or the UNIQUE of the ledger.  *)
Fails(p) ==
  LET s == sess[p] IN
  \/ s.pc = "gift-first" /\ status[First(p)] = "gone"
  \/ s.pc = "gift-second" /\ status[Second(p)] = "gone"
  \/ s.pc = "gift-debit" /\ Refused(p, s.user, 0 - s.amount, s.key)
  \/ s.pc = "gift-credit" /\ Refused(p, s.peer, s.amount, s.key)
  \/ s.pc = "iap-insert" /\ purchases[s.item].status = "absent"
       /\ rcptLock[s.item] = None /\ status[s.user] = "gone"
  \/ s.pc = "iap-apply"
       /\ Refused(p, s.user, PackCredits[s.item], IapKey(s.item))
  \/ s.pc = "refund-apply"
       /\ Refused(p, s.user, 0 - s.amount, RefundKey(s.item))
  \/ s.pc = "ad-insert" /\ Refused(p, s.user, AdReward, AdKey(s.item))

Fail(p) == Fails(p) /\ Rollback(p)

(* The server process dies or the connection is lost. *)
Crash(p) == ~At(p, "idle") /\ Rollback(p)

(* Sessions holding a lock that the next statement of p waits for. *)
UserHolders(u) == ({userLock[u]} \ {None}) \cup KeyShare(u)

Blockers(p) ==
  LET s == sess[p]
      held == CASE s.pc = "gift-first"  -> UserHolders(First(p))
                [] s.pc = "gift-second" -> UserHolders(Second(p))
                [] s.pc = "iap-insert"  ->
                     IF purchases[s.item].status # "absent" THEN {}
                     ELSE {rcptLock[s.item]}
                          \cup {q \in {userLock[s.user]} \ {None} :
                                  ~OnlyUpdates(q)}
                [] s.pc = "iap-apply"   -> {userLock[s.user]}
                [] s.pc = "consume"     -> {rcptLock[s.item]}
                [] s.pc = "refund-lock" ->
                     IF purchases[s.item].status = "absent" THEN {}
                     ELSE {rcptLock[s.item]}
                [] s.pc = "refund-user" -> UserHolders(s.user)
                [] s.pc = "withdraw"    ->
                     {rcptLock[r] : r \in PurchasesOf(s.user)}
                [] OTHER -> {}
  IN  held \ {None, p}

Deadlocked(S) == Cycle(S, [p \in Sessions |-> Blockers(p)])

(* PostgreSQL rolls back one transaction of a cycle. *)
DeadlockVictim(p) ==
  /\ \E S \in SUBSET Sessions : p \in S /\ Deadlocked(S)
  /\ Rollback(p)

-----------------------------------------------------------------------------

Begin(p) ==
  \/ \E u \in Users, g \in Products, k \in Keys : PurchaseApply(p, u, g, k)
  \/ \E a, b \in Users, n \in GiftAmounts, k \in Keys : GiftCheck(p, a, b, n, k)
  \/ \E u \in Users, r \in Receipts : IapVerify(p, u, r)
  \/ \E r \in Receipts : RetryPlayConsume(p, r) \/ RefundNotified(p, r)
  \/ \E t \in AdCallbacks : AdLock(p, t)
  \/ \E u \in Users : WithdrawDelete(p, u)

Continue(p) ==
  \/ PurchaseCommit(p)
  \/ GiftLockFirst(p) \/ GiftLockSecond(p)
  \/ GiftDebit(p) \/ GiftCredit(p) \/ GiftCommit(p)
  \/ IapInsert(p) \/ IapApply(p) \/ IapCommit(p) \/ ConsumePlay(p)
  \/ RefundLock(p) \/ RefundLockUser(p) \/ RefundApply(p) \/ RefundMark(p)
  \/ AdCheck(p) \/ AdInsert(p) \/ AdCommit(p)
  \/ \E r \in Receipts : WithdrawSetNull(p, r)
  \/ WithdrawCommit(p)
  \/ Fail(p)

Next ==
  \/ \E p \in Sessions : Begin(p) \/ Continue(p) \/ Crash(p) \/ DeadlockVictim(p)
  \/ \E u \in Users : SignUp(u)
  \/ \E r \in Receipts : StoreRefund(r) \/ PurgeExpiredPaymentRecord(r)
  \/ Midnight

Spec == Init /\ [][Next]_vars

(* A waiting session gets its lock in turn (PostgreSQL queues waiters), a  *)
(* session that can go on does, and a deadlock is detected.  Nothing       *)
(* obliges a client, the store or the clock to do anything.                *)
Fairness ==
  /\ \A p \in Sessions : SF_vars(Continue(p))
  /\ WF_vars(\E p \in Sessions : DeadlockVictim(p))

FairSpec == Spec /\ Fairness

-----------------------------------------------------------------------------
(* Properties *)

(* The ledger explains the balance: it is the balance_after of the last    *)
(* row, and each row's balance_after is the one before plus its delta.  No *)
(* two transactions may both start from the same balance (apply's UPDATE   *)
(* and RETURNING, FOR UPDATE in gift, refund and grantAdReward).           *)
BalanceBefore(u, i) == IF i = 1 THEN 0 ELSE ledger[u][i - 1].balanceAfter
LedgerChain ==
  \A u \in Users :
    /\ credits[u] = BalanceBefore(u, Len(ledger[u]) + 1)
    /\ \A i \in DOMAIN ledger[u] :
         ledger[u][i].balanceAfter = BalanceBefore(u, i) + ledger[u][i].delta

(* A client that retries with its key, a store callback or an AdMob        *)
(* callback that comes again, moves a user's credits once, whatever the    *)
(* sessions that handle the copies do (UQ_credit_ledger_user_idempotency). *)
KeyMovesCreditsOnce ==
  \A u \in Users : \A i, j \in DOMAIN ledger[u] :
    i # j /\ ledger[u][i].key = ledger[u][j].key => ledger[u][i].key = NoKey

(* A store transaction is paid out once, to one user, for as long as its   *)
(* record is kept -- also when the buyer withdraws, when two users submit  *)
(* the same receipt at once, and when a crash interrupts the first.        *)
ReceiptPaidOnce ==
  \A r \in Receipts : grants[r] <= IF r \in purged THEN 2 ELSE 1

HasRow(u, key) == \E i \in DOMAIN ledger[u] : ledger[u][i].key = key

(* The payment record and its user's ledger agree: a granted purchase has  *)
(* its iap row and no refund row; a refunded one has taken back all but    *)
(* unrecovered_credits, and left something only by emptying the balance.   *)
PurchaseMatchesLedger ==
  \A r \in Receipts :
    LET o == purchases[r].owner
        lost == purchases[r].unrecovered
    IN  o # None =>
          /\ status[o] = "active"
          /\ HasRow(o, IapKey(r))
          /\ HasRow(o, RefundKey(r)) <=>
               purchases[r].status = "refunded" /\ lost < PackCredits[r]
          /\ \A i \in DOMAIN ledger[o] : ledger[o][i].key = RefundKey(r) =>
               /\ ledger[o][i].delta = lost - PackCredits[r]
               /\ lost > 0 => ledger[o][i].balanceAfter = 0

(* refund() computes what it can take back under the lock on the user, so  *)
(* its deduction is never refused for lack of credits.                     *)
RefundNeverRefused ==
  \A p \in Sessions : At(p, "refund-apply") =>
    Accepts(sess[p].user, 0 - sess[p].amount, RefundKey(sess[p].item))

(* A receipt is worth its credits once: it is paid to one user, what that  *)
(* user's ledger says of it is what its record says, and a refund takes    *)
(* what is there, though payment, refund, spending and withdrawal overlap. *)
ReceiptsHold == ReceiptPaidOnce /\ PurchaseMatchesLedger /\ RefundNeverRefused

(* At most AD_DAILY_LIMIT rewards a day in Korea, though the date is read  *)
(* once to count and again to insert, and callbacks come concurrently.     *)
AdDailyLimitHolds ==
  \A u \in Users, d \in 0 .. MaxDay :
    Cardinality(AdRewardsOn(u, d)) <= AdDailyLimit

(* ad_rewards and the ledger agree on which callbacks were paid. *)
AdRewardsMatchLedger ==
  \A t \in AdCallbacks :
    adDate[t] # NoDate <=> HasRow(AdUser[t], AdKey(t))

(* A watched ad is paid once and within the limit of the day. *)
AdRewardsHold == AdDailyLimitHolds /\ AdRewardsMatchLedger

(* Gifts lock in id order, so that users who give to each other do not     *)
(* deadlock; the one cycle the handlers can form is a withdrawal, which    *)
(* locks the user and then the purchases, against a refund, which locks    *)
(* the purchase and then its user.                                         *)
OnlyWithdrawAndRefundDeadlock ==
  \A S \in SUBSET Sessions : Deadlocked(S) =>
    \E p, q \in S : S = {p, q} /\ At(p, "withdraw") /\ At(q, "refund-user")

(* Every request ends: none waits for ever for a lock. *)
SessionsFinish == \A p \in Sessions : ~At(p, "idle") ~> At(p, "idle")

(* docs/api.md, refund policy: of a refunded charge the credits are taken  *)
(* back within the balance.  So once the store's notification has been     *)
(* answered, and nobody is working on the receipt, no purchase of it       *)
(* stands as granted.                                                      *)
AnsweredRefundIsSettled ==
  \A r \in acked :
    (\A p \in Sessions : sess[p].item # r) => purchases[r].status # "granted"

(* Wallet implements CreditBook: a purchase row that is granted is a       *)
(* receipt that was paid out, a refunded one was taken back.               *)
BookReceipt ==
  [r \in Receipts |-> CASE purchases[r].status = "absent"  -> "unpaid"
                        [] purchases[r].status = "granted" -> "paid"
                        [] OTHER                           -> "taken back"]
BookBuyer == [r \in Receipts |-> purchases[r].owner]
BookRewarded == {t \in AdCallbacks : adDate[t] # NoDate}

Book == INSTANCE CreditBook WITH
          member <- status, receipt <- BookReceipt, buyer <- BookBuyer,
          rewarded <- BookRewarded, FirstDrawer <- DefaultDrawerCap

(* Whatever sessions do at once, crash in or repeat, the balances, the     *)
(* goods and the receipts change by whole deeds only: a gift leaves one    *)
(* user and reaches the other in one step, the price and the delivery of   *)
(* a purchase are one, a receipt is paid to one user once and taken back   *)
(* once, as far as the balance goes.                                       *)
KeepsTheBook == Book!Spec

=============================================================================
