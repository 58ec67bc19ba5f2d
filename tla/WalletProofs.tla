---------------------------- MODULE WalletProofs ----------------------------
(***************************************************************************)
(* For every number of users, sessions, receipts and callbacks, and all    *)
(* prices, whatever is interleaved, rolled back and deleted: no balance is *)
(* negative and the ledger explains each; a key moves credits once, a      *)
(* receipt is paid out once and taken back once, ads are paid within the   *)
(* limit of a day; Wallet implements CreditBook; and one kind of deadlock  *)
(* is the only one.                                                        *)
(*                                                                         *)
(* The invariants build on one another: IInv says what a session that has  *)
(* written a ledger row holds, KInv adds the keys, TxInv what the session  *)
(* has read and written besides, so that its commit is known as a whole.   *)
(***************************************************************************)
EXTENDS Wallet, FiniteSetTheorems, TLAPS

(* What the local variables of a session hold, by its program counter. *)
Local(s) ==
  /\ s.pc = "bought" => s.user \in Users /\ s.item \in Products
  /\ s.pc \in {"gift-first", "gift-second", "gift-debit", "gift-credit",
               "gift-commit"} => s.user \in Users /\ s.peer \in Users
  /\ s.pc \in {"iap-insert", "iap-apply", "iap-commit"} =>
       s.user \in Users /\ s.item \in Receipts
  /\ s.pc = "consume" => s.item \in Receipts
  /\ s.pc \in {"refund-lock", "refund-user", "refund-apply", "refund-mark"} =>
       s.item \in Receipts /\ s.amount <= PackCredits[s.item]
  /\ s.pc \in {"refund-user", "refund-apply"} => s.user \in Users
  /\ s.pc \in {"ad-check", "ad-insert", "ad-commit"} =>
       s.user \in Users /\ s.item \in AdCallbacks
  /\ s.pc = "withdraw" => s.user \in Users

LocalsOK == \A p \in Sessions : Local(sess[p])

(* A withdrawal holds the lock on the user it is deleting. *)
WithdrawHolds ==
  \A p \in Sessions : At(p, "withdraw") => userLock[sess[p].user] = p

(* A session that has written a ledger row holds the lock on the user, and *)
(* the row continues from the balance that everybody else still sees.      *)
RowsHeld ==
  \A p \in Sessions, u \in Users : rows[p][u] # NoRow =>
    /\ userLock[u] = p
    /\ status[u] = "active"
    /\ rows[p][u].balanceAfter = credits[u] + rows[p][u].delta

IInv == TypeOK /\ LocalsOK /\ WithdrawHolds /\ RowsHeld /\ LedgerChain

-----------------------------------------------------------------------------
(* The building blocks of the handlers. *)

LEMMA AppendFacts ==
  ASSUME NEW S, NEW s \in Seq(S), NEW e \in S
  PROVE  /\ Append(s, e) \in Seq(S)
         /\ Len(s) \in Nat
         /\ Len(Append(s, e)) = Len(s) + 1
         /\ DOMAIN Append(s, e) = 1 .. Len(s) + 1
         /\ DOMAIN s = 1 .. Len(s)
         /\ Append(s, e)[Len(s) + 1] = e
         /\ \A i \in 1 .. Len(s) : Append(s, e)[i] = s[i]
  OBVIOUS

LEMMA NoRowNotRow == NoRow \notin Row
  BY DEF NoRow, Row, Kinds

LEMMA ApplyEffect ==
  ASSUME TypeOK, RowsHeld, NEW p \in Sessions, NEW u \in Users,
         NEW delta \in Int, NEW kind \in Kinds, NEW key \in LedgerKeys,
         NEW ref \in Users \cup Receipts \cup Products \cup {None},
         Apply(p, u, delta, kind, key, ref),
         status' = status, credits' = credits
  PROVE  /\ userLock' \in [Users -> Sessions \cup {None}]
         /\ rows' \in [Sessions -> [Users -> Row \cup {NoRow}]]
         /\ RowsHeld'
         /\ \A v \in Users, q \in Sessions :
              userLock[v] = q => userLock'[v] = q
  <1> DEFINE row == [delta |-> delta, balanceAfter |-> credits[u] + delta,
                     kind |-> kind, key |-> key, ref |-> ref]
  <1>1. row \in Row
    BY DEF Apply, Accepts, Row, TypeOK
  <1>2. rows' = [rows EXCEPT ![p][u] = row] /\ userLock[u] \in {None, p}
        /\ userLock' = [userLock EXCEPT ![u] = p] /\ status[u] = "active"
    BY DEF Apply, Accepts, Unlocked
  <1>3. rows' \in [Sessions -> [Users -> Row \cup {NoRow}]]
    BY <1>1, <1>2 DEF TypeOK
  <1>4. userLock' \in [Users -> Sessions \cup {None}]
    BY <1>2 DEF TypeOK
  <1>5. None \notin Sessions
    BY UsersAssumption
  <1>6. RowsHeld'
    <2> SUFFICES ASSUME NEW q \in Sessions, NEW v \in Users,
                        rows'[q][v] # NoRow
                 PROVE  /\ userLock'[v] = q
                        /\ status'[v] = "active"
                        /\ rows'[q][v].balanceAfter
                             = credits'[v] + rows'[q][v].delta
      BY DEF RowsHeld
    <2>1. CASE q = p /\ v = u
      <3>1. rows'[q][v] = row
        BY <1>2, <2>1 DEF TypeOK
      <3> QED BY <1>2, <2>1, <3>1 DEF TypeOK
    <2>2. CASE ~(q = p /\ v = u)
      <3>1. rows'[q][v] = rows[q][v]
        <4>1. ledger[u] \in Seq(Row)
          BY DEF TypeOK
        <4> QED BY <1>2, <2>2, <4>1, AppendFacts
      <3>2. userLock[v] = q /\ status[v] = "active"
            /\ rows[q][v].balanceAfter = credits[v] + rows[q][v].delta
        BY <3>1 DEF RowsHeld
      <3> QED BY <1>2, <1>5, <2>2, <3>1, <3>2 DEF TypeOK
    <2> QED BY <2>1, <2>2
  <1> QED BY <1>2, <1>3, <1>4, <1>5, <1>6 DEF TypeOK

LEMMA ReleaseEffect ==
  ASSUME TypeOK, NEW p \in Sessions, Release(p)
  PROVE  /\ userLock' \in [Users -> Sessions \cup {None}]
         /\ rcptLock' \in [Receipts -> Sessions \cup {None}]
         /\ rows' \in [Sessions -> [Users -> Row \cup {NoRow}]]
         /\ rows'[p] = NoRows
         /\ \A q \in Sessions : q # p => rows'[q] = rows[q]
         /\ \A u \in Users, q \in Sessions :
              q # p /\ userLock[u] = q => userLock'[u] = q
  <1>1. NoRows \in [Users -> Row \cup {NoRow}]
    BY DEF NoRows
  <1> QED BY <1>1 DEF Release, TypeOK

LEMMA CommitEffect ==
  ASSUME TypeOK, RowsHeld, LedgerChain, NEW p \in Sessions, Commit(p),
         status' = status
  PROVE  /\ credits' \in [Users -> Nat]
         /\ ledger' \in [Users -> Seq(Row)]
         /\ userLock' \in [Users -> Sessions \cup {None}]
         /\ rcptLock' \in [Receipts -> Sessions \cup {None}]
         /\ rows' \in [Sessions -> [Users -> Row \cup {NoRow}]]
         /\ LedgerChain'
         /\ RowsHeld'
         /\ \A u \in Users, q \in Sessions :
              q # p /\ userLock[u] = q => userLock'[u] = q
  <1>1. Release(p)
    BY DEF Commit
  <1>2. ASSUME NEW u \in Users, rows[p][u] # NoRow
        PROVE  /\ rows[p][u] \in Row
               /\ credits'[u] = rows[p][u].balanceAfter
               /\ ledger'[u] = Append(ledger[u], rows[p][u])
               /\ credits'[u] = credits[u] + rows[p][u].delta
    BY <1>2 DEF TypeOK, RowsHeld, Commit
  <1>3. ASSUME NEW u \in Users, rows[p][u] = NoRow
        PROVE  credits'[u] = credits[u] /\ ledger'[u] = ledger[u]
    BY <1>3 DEF Commit
  <1>4. credits' \in [Users -> Nat]
    BY <1>2, <1>3 DEF TypeOK, Commit, Row
  <1>5. ledger' \in [Users -> Seq(Row)]
    <2> SUFFICES ASSUME NEW u \in Users PROVE ledger'[u] \in Seq(Row)
      BY DEF Commit
    <2>1. CASE rows[p][u] = NoRow
      BY <1>3, <2>1 DEF TypeOK
    <2>2. CASE rows[p][u] # NoRow
      <3>1. ledger[u] \in Seq(Row)
        BY DEF TypeOK
      <3>2. /\ rows[p][u] \in Row
            /\ ledger'[u] = Append(ledger[u], rows[p][u])
        BY <1>2, <2>2
      <3> QED BY <3>1, <3>2, AppendFacts
    <2> QED BY <2>1, <2>2
  <1>6. LedgerChain'
    <2> SUFFICES ASSUME NEW u \in Users
          PROVE  /\ credits'[u] = BalanceBefore(u, Len(ledger[u]) + 1)'
                 /\ \A i \in DOMAIN ledger'[u] :
                      ledger'[u][i].balanceAfter
                        = BalanceBefore(u, i)' + ledger'[u][i].delta
      BY DEF LedgerChain
    <2>1. CASE rows[p][u] = NoRow
      BY <1>3, <2>1 DEF LedgerChain, BalanceBefore
    <2>2. CASE rows[p][u] # NoRow
      <3> DEFINE n == Len(ledger[u])
      <3>1. /\ ledger[u] \in Seq(Row) /\ n \in Nat
            /\ rows[p][u] \in Row
            /\ ledger'[u] = Append(ledger[u], rows[p][u])
            /\ Len(ledger'[u]) = n + 1
            /\ DOMAIN ledger'[u] = 1 .. n + 1
            /\ ledger'[u][n + 1] = rows[p][u]
            /\ \A i \in 1 .. n : ledger'[u][i] = ledger[u][i]
        <4>1. ledger[u] \in Seq(Row)
          BY DEF TypeOK
        <4> QED BY <1>2, <2>2, <4>1, AppendFacts
      <3>2. credits[u] = BalanceBefore(u, n + 1)
        BY DEF LedgerChain
      <3>3. \A i \in 1 .. n + 1 : BalanceBefore(u, i)' = BalanceBefore(u, i)
        BY <3>1 DEF BalanceBefore
      <3>4. credits'[u] = BalanceBefore(u, Len(ledger[u]) + 1)'
        BY <1>2, <2>2, <3>1 DEF BalanceBefore
      <3>5. ASSUME NEW i \in DOMAIN ledger'[u]
            PROVE  ledger'[u][i].balanceAfter
                     = BalanceBefore(u, i)' + ledger'[u][i].delta
        <4>1. CASE i = n + 1
          BY <1>2, <2>2, <3>1, <3>2, <3>3, <4>1
        <4>2. CASE i \in 1 .. n
          BY <3>1, <3>3, <4>2 DEF LedgerChain
        <4> QED BY <3>1, <3>5, <4>1, <4>2
      <3> QED BY <3>4, <3>5
    <2> QED BY <2>1, <2>2
  <1>7. RowsHeld'
    <2> SUFFICES ASSUME NEW q \in Sessions, NEW u \in Users,
                        rows'[q][u] # NoRow
                 PROVE  /\ userLock'[u] = q
                        /\ status'[u] = "active"
                        /\ rows'[q][u].balanceAfter
                             = credits'[u] + rows'[q][u].delta
      BY DEF RowsHeld
    <2>1. q # p /\ rows'[q] = rows[q]
      BY <1>1, ReleaseEffect DEF NoRows
    <2>2. userLock[u] = q /\ rows[p][u] = NoRow
      BY <2>1 DEF RowsHeld
    <2> QED BY <1>1, <1>3, <2>1, <2>2, ReleaseEffect DEF RowsHeld
  <1> QED BY <1>1, <1>4, <1>5, <1>6, <1>7, ReleaseEffect

-----------------------------------------------------------------------------
(* What a step leaves alone. *)

LEMMA SessionsKept ==
  ASSUME TypeOK, LocalsOK, WithdrawHolds, NEW p \in Sessions, NEW s \in Session,
         Local(s), sess' = [sess EXCEPT ![p] = s],
         s.pc = "withdraw" => userLock'[s.user] = p,
         \A u \in Users, q \in Sessions :
           q # p /\ userLock[u] = q => userLock'[u] = q
  PROVE  /\ sess' \in [Sessions -> Session]
         /\ LocalsOK'
         /\ WithdrawHolds'
  <1>1. sess' \in [Sessions -> Session]
    BY DEF TypeOK
  <1>2. \A q \in Sessions : sess'[q] = IF q = p THEN s ELSE sess[q]
    BY DEF TypeOK
  <1>3. LocalsOK'
    BY <1>2 DEF LocalsOK, Local
  <1>4. WithdrawHolds'
    BY <1>2 DEF WithdrawHolds, At, LocalsOK, Local
  <1> QED BY <1>1, <1>3, <1>4

(* The balances, the ledgers and the uncommitted rows stay, and so do the  *)
(* locks on users. *)
LEMMA BalancesKept ==
  ASSUME TypeOK, RowsHeld, LedgerChain, UNCHANGED <<credits, ledger, status, rows>>,
         \A u \in Users, q \in Sessions :
           userLock[u] = q => userLock'[u] = q
  PROVE  RowsHeld' /\ LedgerChain'
  BY DEF RowsHeld, LedgerChain, BalanceBefore

LEMMA LockUserEffect ==
  ASSUME TypeOK, NEW p \in Sessions, NEW u \in Users, LockUser(p, u)
  PROVE  /\ userLock' \in [Users -> Sessions \cup {None}]
         /\ userLock'[u] = p
         /\ \A v \in Users, q \in Sessions :
              userLock[v] = q => userLock'[v] = q
  BY UsersAssumption DEF LockUser, TypeOK

LEMMA RollbackOK ==
  ASSUME IInv, NEW p \in Sessions, Release(p), sess' = [sess EXCEPT ![p] = Idle],
         UNCHANGED <<status, credits, ledger, goods, purchases, adDate, store,
                     events, acked, day, grants, purged>>
  PROVE  IInv'
  <1>1. Idle \in Session /\ Local(Idle) /\ Idle.pc # "withdraw"
    BY PricesAssumption DEF Idle, Task, Session, PCs, Local, LedgerKeys
  <1>2. sess' \in [Sessions -> Session] /\ LocalsOK' /\ WithdrawHolds'
    BY <1>1, ReleaseEffect, SessionsKept DEF IInv
  <1>3. TypeOK'
    BY <1>2, ReleaseEffect DEF IInv, TypeOK
  <1>4. RowsHeld'
    BY ReleaseEffect DEF IInv, RowsHeld, NoRows
  <1>5. LedgerChain'
    BY DEF IInv, LedgerChain, BalanceBefore
  <1> QED BY <1>2, <1>3, <1>4, <1>5 DEF IInv

(* The tables that the ledger and the locks do not concern keep their      *)
(* types. *)
OthersTyped ==
  /\ goods \in [Users -> [tapes : Nat, drawer : Nat]]
  /\ purchases \in [Receipts -> Purchase]
  /\ adDate \in [AdCallbacks -> (0 .. MaxDay) \cup {NoDate}]
  /\ store \in [Receipts -> {"paid", "refunded"}]
  /\ events \subseteq Receipts
  /\ acked \subseteq Receipts
  /\ day \in 0 .. MaxDay
  /\ grants \in [Receipts -> Nat]
  /\ purged \subseteq Receipts

LEMMA QuietStep ==
  ASSUME IInv, NEW p \in Sessions, NEW s \in Session, Local(s),
         sess' = [sess EXCEPT ![p] = s],
         UNCHANGED <<status, credits, ledger, rows>>, OthersTyped',
         userLock' \in [Users -> Sessions \cup {None}],
         rcptLock' \in [Receipts -> Sessions \cup {None}],
         s.pc = "withdraw" => userLock'[s.user] = p,
         \A u \in Users, q \in Sessions :
           userLock[u] = q => userLock'[u] = q
  PROVE  IInv'
  <1>1. sess' \in [Sessions -> Session] /\ LocalsOK' /\ WithdrawHolds'
    BY SessionsKept DEF IInv
  <1>2. RowsHeld' /\ LedgerChain'
    BY BalancesKept DEF IInv
  <1>3. TypeOK'
    BY <1>1 DEF IInv, TypeOK, OthersTyped
  <1> QED BY <1>1, <1>2, <1>3 DEF IInv

LEMMA ApplyStep ==
  ASSUME IInv, NEW p \in Sessions, NEW s \in Session, Local(s),
         s.pc # "withdraw", sess' = [sess EXCEPT ![p] = s],
         NEW u \in Users, NEW delta \in Int, NEW kind \in Kinds,
         NEW key \in LedgerKeys,
         NEW ref \in Users \cup Receipts \cup Products \cup {None},
         Apply(p, u, delta, kind, key, ref),
         UNCHANGED <<userVars, purchases, adDate, storeVars, day, rcptLock>>
  PROVE  IInv'
  <1>1. /\ userLock' \in [Users -> Sessions \cup {None}]
        /\ rows' \in [Sessions -> [Users -> Row \cup {NoRow}]]
        /\ RowsHeld'
        /\ \A v \in Users, q \in Sessions :
             userLock[v] = q => userLock'[v] = q
    BY ApplyEffect DEF IInv, userVars
  <1>2. sess' \in [Sessions -> Session] /\ LocalsOK' /\ WithdrawHolds'
    <2>1. \A v \in Users, q \in Sessions :
            q # p /\ userLock[v] = q => userLock'[v] = q
      BY <1>1
    <2> QED BY <2>1, SessionsKept DEF IInv
  <1>3. TypeOK'
    BY <1>1, <1>2 DEF IInv, TypeOK, userVars, storeVars
  <1>4. LedgerChain'
    BY DEF IInv, LedgerChain, BalanceBefore, userVars
  <1> QED BY <1>1, <1>2, <1>3, <1>4 DEF IInv

LEMMA CommitStep ==
  ASSUME IInv, NEW p \in Sessions, NEW s \in Session, Local(s),
         s.pc # "withdraw", sess' = [sess EXCEPT ![p] = s],
         Commit(p), status' = status, OthersTyped'
  PROVE  IInv'
  <1>1. sess' \in [Sessions -> Session] /\ LocalsOK' /\ WithdrawHolds'
    BY CommitEffect, SessionsKept DEF IInv
  <1>2. TypeOK'
    BY <1>1, CommitEffect DEF IInv, TypeOK, OthersTyped
  <1> QED BY <1>1, <1>2, CommitEffect DEF IInv

LEMMA IdleOK == Idle \in Session /\ Local(Idle) /\ Idle.pc # "withdraw"
  BY PricesAssumption DEF Idle, Task, Session, PCs, Local, LedgerKeys

-----------------------------------------------------------------------------
(* Every step of a session preserves the invariant. *)

LEMMA PurchaseSteps ==
  ASSUME IInv, NEW p \in Sessions,
         \/ \E u \in Users, g \in Products, k \in Keys :
              PurchaseApply(p, u, g, k)
         \/ PurchaseCommit(p)
  PROVE  IInv'
  <1>1. ASSUME NEW u \in Users, NEW g \in Products, NEW k \in Keys,
               PurchaseApply(p, u, g, k)
        PROVE  IInv'
    <2> DEFINE s == Task("bought", u, None, ClientKey(k), 0, g)
               kind == IF Slots[g] = 0 THEN "tape_purchase"
                                       ELSE "drawer_expand"
    <2>1. s \in Session /\ Local(s) /\ s.pc # "withdraw"
      BY PricesAssumption DEF Task, Session, PCs, Local, LedgerKeys
    <2>2. /\ 0 - Price[g] \in Int /\ kind \in Kinds
          /\ ClientKey(k) \in LedgerKeys
      BY PricesAssumption DEF Kinds, LedgerKeys
    <2>3. /\ sess' = [sess EXCEPT ![p] = s]
          /\ Apply(p, u, 0 - Price[g], kind, ClientKey(k), g)
          /\ UNCHANGED <<userVars, purchases, adDate, storeVars, day, rcptLock>>
      BY <1>1 DEF PurchaseApply, Start
    <2> HIDE DEF s, kind
    <2> QED BY <2>1, <2>2, <2>3, ApplyStep
  <1>2. ASSUME PurchaseCommit(p) PROVE IInv'
    <2>1. sess[p].user \in Users /\ sess[p].item \in Products
      BY <1>2 DEF PurchaseCommit, At, IInv, LocalsOK, Local
    <2>2. \A g \in Products : Tapes[g] \in Nat /\ Slots[g] \in Nat
      BY PricesAssumption
    <2>3. goods' \in [Users -> [tapes : Nat, drawer : Nat]]
      <3> DEFINE u == sess[p].user
                 g == sess[p].item
                 new == [tapes |-> goods[u].tapes + Tapes[g],
                         drawer |-> goods[u].drawer + Slots[g]]
      <3>1. goods \in [Users -> [tapes : Nat, drawer : Nat]]
        BY DEF IInv, TypeOK
      <3>2. goods' = [goods EXCEPT ![u] = new]
        BY <1>2, <2>1, <3>1 DEF PurchaseCommit
      <3>3. new \in [tapes : Nat, drawer : Nat]
        BY <2>1, <2>2, <3>1
      <3> QED BY <3>1, <3>2, <3>3
    <2>4. OthersTyped'
      BY <1>2, <2>3 DEF PurchaseCommit, OthersTyped, IInv, TypeOK, storeVars
    <2> QED BY <1>2, <2>4, IdleOK, CommitStep DEF PurchaseCommit
  <1> QED BY <1>1, <1>2

LEMMA GiftSteps ==
  ASSUME IInv, NEW p \in Sessions,
         \/ \E a, b \in Users, n \in GiftAmounts, k \in Keys :
              GiftCheck(p, a, b, n, k)
         \/ GiftLockFirst(p) \/ GiftLockSecond(p)
         \/ GiftDebit(p) \/ GiftCredit(p) \/ GiftCommit(p)
  PROVE  IInv'
  <1> DEFINE goto(pc) == [sess[p] EXCEPT !.pc = pc]
  <1>1. sess \in [Sessions -> Session] /\ Local(sess[p])
    BY DEF IInv, TypeOK, LocalsOK
  <1>2. ASSUME NEW a \in Users, NEW b \in Users, NEW n \in GiftAmounts,
               NEW k \in Keys, GiftCheck(p, a, b, n, k)
        PROVE  IInv'
    <2> DEFINE s == Task("gift-first", a, b, ClientKey(k), n, None)
    <2>1. s \in Session /\ Local(s) /\ s.pc # "withdraw"
      BY PricesAssumption DEF Task, Session, PCs, Local, LedgerKeys
    <2>2. /\ sess' = [sess EXCEPT ![p] = s]
          /\ UNCHANGED <<userVars, purchases, adDate, storeVars, day, lockVars>>
      BY <1>2 DEF GiftCheck, Start
    <2>3. OthersTyped'
      BY <2>2 DEF OthersTyped, IInv, TypeOK, userVars, storeVars
    <2>4. userLock' \in [Users -> Sessions \cup {None}]
          /\ rcptLock' \in [Receipts -> Sessions \cup {None}]
      BY <2>2 DEF IInv, TypeOK, lockVars
    <2> HIDE DEF s
    <2> QED BY <2>1, <2>2, <2>3, <2>4, QuietStep DEF userVars, lockVars
  <1>3. ASSUME NEW u \in Users, NEW pc \in {"gift-second", "gift-debit"},
               sess[p].user \in Users, sess[p].peer \in Users,
               LockUser(p, u), Goto(p, pc),
               UNCHANGED <<userVars, purchases, adDate, storeVars, day, rows,
                           rcptLock>>
        PROVE  IInv'
    <2>1. /\ goto(pc) \in Session /\ Local(goto(pc))
          /\ goto(pc).pc # "withdraw"
      BY <1>1, <1>3 DEF Session, PCs, Local
    <2>2. sess' = [sess EXCEPT ![p] = goto(pc)]
      BY <1>1, <1>3 DEF Goto
    <2>3. OthersTyped'
      BY <1>3 DEF OthersTyped, IInv, TypeOK, userVars, storeVars
    <2>4. /\ userLock' \in [Users -> Sessions \cup {None}]
          /\ \A v \in Users, q \in Sessions :
               userLock[v] = q => userLock'[v] = q
      BY <1>3, LockUserEffect DEF IInv
    <2>5. rcptLock' \in [Receipts -> Sessions \cup {None}]
      BY <1>3 DEF IInv, TypeOK
    <2> HIDE DEF goto
    <2> QED BY <1>3, <2>1, <2>2, <2>3, <2>4, <2>5, QuietStep DEF userVars
  <1>4. ASSUME GiftLockFirst(p) \/ GiftLockSecond(p) PROVE IInv'
    <2>1. sess[p].user \in Users /\ sess[p].peer \in Users
      BY <1>1, <1>4 DEF GiftLockFirst, GiftLockSecond, At, Local
    <2>2. First(p) \in Users /\ Second(p) \in Users
      BY <2>1 DEF First, Second, InIdOrder
    <2> QED BY <1>3, <1>4, <2>1, <2>2 DEF GiftLockFirst, GiftLockSecond
  <1>5. ASSUME GiftDebit(p) \/ GiftCredit(p) PROVE IInv'
    <2>1. /\ sess[p].user \in Users /\ sess[p].peer \in Users
          /\ sess[p].amount \in Nat /\ sess[p].key \in LedgerKeys
      BY <1>1, <1>5 DEF GiftDebit, GiftCredit, At, Local, Session
    <2>2. ASSUME NEW pc \in {"gift-credit", "gift-commit"}
          PROVE  /\ goto(pc) \in Session /\ Local(goto(pc))
                 /\ goto(pc).pc # "withdraw"
                 /\ Goto(p, pc) => sess' = [sess EXCEPT ![p] = goto(pc)]
      BY <1>1, <2>1 DEF Session, PCs, Local, Goto
    <2>3. 0 - sess[p].amount \in Int /\ sess[p].amount \in Int
      BY <2>1
    <2>4. "gift_sent" \in Kinds /\ "gift_received" \in Kinds
      BY DEF Kinds
    <2> HIDE DEF goto
    <2>5. CASE GiftDebit(p)
      BY <2>1, <2>2, <2>3, <2>4, <2>5, ApplyStep DEF GiftDebit
    <2>6. CASE GiftCredit(p)
      BY <2>1, <2>2, <2>3, <2>4, <2>6, ApplyStep DEF GiftCredit
    <2> QED BY <1>5, <2>5, <2>6
  <1>6. ASSUME GiftCommit(p) PROVE IInv'
    <2>1. OthersTyped'
      BY <1>6 DEF GiftCommit, OthersTyped, IInv, TypeOK, storeVars
    <2> QED BY <1>6, <2>1, IdleOK, CommitStep DEF GiftCommit
  <1> QED BY <1>2, <1>4, <1>5, <1>6

LEMMA IapSteps ==
  ASSUME IInv, NEW p \in Sessions,
         \/ \E u \in Users, r \in Receipts : IapVerify(p, u, r)
         \/ \E r \in Receipts : RetryPlayConsume(p, r)
         \/ IapInsert(p) \/ IapApply(p) \/ IapCommit(p) \/ ConsumePlay(p)
  PROVE  IInv'
  <1> DEFINE r == sess[p].item
             goto(pc) == [sess[p] EXCEPT !.pc = pc]
  <1>1. /\ sess \in [Sessions -> Session] /\ Local(sess[p])
        /\ userLock \in [Users -> Sessions \cup {None}]
        /\ rcptLock \in [Receipts -> Sessions \cup {None}]
        /\ purchases \in [Receipts -> Purchase]
        /\ OthersTyped
    BY DEF IInv, TypeOK, LocalsOK, OthersTyped
  <1>2. \A x \in Receipts : PackCredits[x] \in Nat \ {0}
    BY PricesAssumption
  <1>3. ASSUME NEW u \in Users, NEW x \in Receipts, IapVerify(p, u, x)
        PROVE  IInv'
    <2> DEFINE s == Task("iap-insert", u, None, NoKey, 0, x)
    <2>1. s \in Session /\ Local(s) /\ s.pc # "withdraw"
      BY PricesAssumption DEF Task, Session, PCs, Local, LedgerKeys
    <2>2. /\ sess' = [sess EXCEPT ![p] = s]
          /\ UNCHANGED <<userVars, purchases, adDate, storeVars, day, lockVars>>
      BY <1>3 DEF IapVerify, Start
    <2>3. OthersTyped'
      BY <1>1, <2>2 DEF OthersTyped, userVars, storeVars
    <2> HIDE DEF s
    <2> QED BY <1>1, <2>1, <2>2, <2>3, QuietStep DEF userVars, lockVars
  <1>10. ASSUME NEW x \in Receipts, RetryPlayConsume(p, x) PROVE IInv'
    <2> DEFINE s == Task("consume", None, None, NoKey, 0, x)
    <2>1. s \in Session /\ Local(s) /\ s.pc # "withdraw"
      BY PricesAssumption DEF Task, Session, PCs, Local, LedgerKeys
    <2>2. /\ sess' = [sess EXCEPT ![p] = s]
          /\ UNCHANGED <<userVars, purchases, adDate, storeVars, day, lockVars>>
      BY <1>10 DEF RetryPlayConsume, Start
    <2>3. OthersTyped'
      BY <1>1, <2>2 DEF OthersTyped, userVars, storeVars
    <2> HIDE DEF s
    <2> QED BY <1>1, <2>1, <2>2, <2>3, QuietStep DEF userVars, lockVars
  <1>4. ASSUME NEW pc \in {"iap-apply", "iap-commit", "consume"},
               sess[p].user \in Users, r \in Receipts
        PROVE  /\ goto(pc) \in Session /\ Local(goto(pc))
               /\ goto(pc).pc # "withdraw"
               /\ Goto(p, pc) => sess' = [sess EXCEPT ![p] = goto(pc)]
    BY <1>1, <1>4 DEF Session, PCs, Local, Goto
  <1>5. ASSUME IapInsert(p) \/ IapApply(p) \/ IapCommit(p)
        PROVE  sess[p].user \in Users /\ r \in Receipts
    BY <1>1, <1>5 DEF IapInsert, IapApply, IapCommit, At, Local
  <1>6. ASSUME IapInsert(p) PROVE IInv'
    <2>1. sess[p].user \in Users /\ r \in Receipts
      BY <1>5, <1>6
    <2>2. /\ UNCHANGED <<userVars, purchases, adDate, storeVars, day, rows,
                         userLock>>
          /\ rcptLock' \in [Receipts -> Sessions \cup {None}]
      BY <1>1, <1>6, <2>1 DEF IapInsert
    <2>3. OthersTyped'
      BY <1>1, <2>2 DEF OthersTyped, userVars, storeVars
    <2>4. \/ sess' = [sess EXCEPT ![p] = goto("iap-apply")]
          \/ sess' = [sess EXCEPT ![p] = goto("consume")]
          \/ sess' = [sess EXCEPT ![p] = Idle]
      BY <1>1, <1>6 DEF IapInsert, Goto
    <2>5. PICK s \in Session : /\ Local(s) /\ s.pc # "withdraw"
                               /\ sess' = [sess EXCEPT ![p] = s]
      BY <1>4, <2>1, <2>4, IdleOK
    <2> QED BY <1>1, <2>2, <2>3, <2>5, QuietStep DEF userVars
  <1>7. ASSUME IapApply(p) PROVE IInv'
    <2>1. sess[p].user \in Users /\ r \in Receipts
      BY <1>5, <1>7
    <2>2. /\ PackCredits[r] \in Int /\ "iap" \in Kinds
          /\ IapKey(r) \in LedgerKeys
      BY <1>2, <2>1 DEF Kinds, LedgerKeys
    <2>3. /\ Apply(p, sess[p].user, PackCredits[r], "iap", IapKey(r), r)
          /\ sess' = [sess EXCEPT ![p] = goto("iap-commit")]
          /\ UNCHANGED <<userVars, purchases, adDate, storeVars, day, rcptLock>>
      BY <1>4, <1>7, <2>1 DEF IapApply
    <2>4. goto("iap-commit") \in Session /\ Local(goto("iap-commit"))
          /\ goto("iap-commit").pc # "withdraw"
      BY <1>4, <2>1
    <2> HIDE DEF r, goto
    <2> QED BY <2>1, <2>2, <2>3, <2>4, ApplyStep
  <1>8. ASSUME IapCommit(p) PROVE IInv'
    <2>1. sess[p].user \in Users /\ r \in Receipts
      BY <1>5, <1>8
    <2>2. PICK s \in Session : /\ Local(s) /\ s.pc # "withdraw"
                               /\ sess' = [sess EXCEPT ![p] = s]
      <3>1. \/ sess' = [sess EXCEPT ![p] = goto("consume")]
            \/ sess' = [sess EXCEPT ![p] = Idle]
        BY <1>1, <1>8 DEF IapCommit
      <3> QED BY <1>4, <2>1, <3>1, IdleOK
    <2>3. purchases' \in [Receipts -> Purchase]
      BY <1>1, <1>8, <2>1 DEF IapCommit, Purchase, NoPurchase
    <2>4. grants' \in [Receipts -> Nat]
      BY <1>1, <1>8, <2>1 DEF IapCommit, OthersTyped
    <2>5. OthersTyped'
      BY <1>1, <1>8, <2>3, <2>4 DEF IapCommit, OthersTyped
    <2>6. Commit(p) /\ status' = status
      BY <1>8 DEF IapCommit
    <2> QED BY <2>2, <2>5, <2>6, CommitStep
  <1>9. ASSUME ConsumePlay(p) PROVE IInv'
    <2>1. r \in Receipts
      BY <1>1, <1>9 DEF ConsumePlay, At, Local
    <2>2. purchases' \in [Receipts -> Purchase]
      <3> DEFINE new == [purchases[r] EXCEPT
                           !.consumed = @ \/ purchases[r].status # "absent"]
      <3>1. \/ purchases' = [purchases EXCEPT ![r] = new]
            \/ purchases' = purchases
        BY <1>1, <1>9, <2>1 DEF ConsumePlay, MarkConsumed
      <3>2. new \in Purchase
        BY <1>1, <2>1 DEF Purchase
      <3> QED BY <1>1, <2>1, <3>1, <3>2
    <2>3. OthersTyped'
      BY <1>1, <1>9, <2>2 DEF ConsumePlay, OthersTyped, userVars, storeVars
    <2>4. /\ sess' = [sess EXCEPT ![p] = Idle]
          /\ UNCHANGED <<userVars, lockVars>>
      BY <1>9 DEF ConsumePlay
    <2> QED BY <1>1, <2>3, <2>4, IdleOK, QuietStep DEF userVars, lockVars
  <1> QED BY <1>3, <1>6, <1>7, <1>8, <1>9, <1>10

LEMMA RefundSteps ==
  ASSUME IInv, NEW p \in Sessions,
         \/ \E r \in Receipts : RefundNotified(p, r)
         \/ RefundLock(p) \/ RefundLockUser(p) \/ RefundApply(p)
         \/ RefundMark(p)
  PROVE  IInv'
  <1> DEFINE r == sess[p].item
  <1>1. /\ sess \in [Sessions -> Session] /\ Local(sess[p])
        /\ credits \in [Users -> Nat]
        /\ userLock \in [Users -> Sessions \cup {None}]
        /\ rcptLock \in [Receipts -> Sessions \cup {None}]
        /\ purchases \in [Receipts -> Purchase]
        /\ OthersTyped
    BY DEF IInv, TypeOK, LocalsOK, OthersTyped
  <1>2. \A x \in Receipts : PackCredits[x] \in Nat \ {0}
    BY PricesAssumption
  <1>3. ASSUME NEW x \in Receipts, RefundNotified(p, x) PROVE IInv'
    <2> DEFINE s == Task("refund-lock", None, None, NoKey, 0, x)
    <2>1. s \in Session /\ Local(s) /\ s.pc # "withdraw"
      BY <1>2, PricesAssumption DEF Task, Session, PCs, Local, LedgerKeys
    <2>2. sess' = [sess EXCEPT ![p] = s] /\ UNCHANGED <<userVars, lockVars>>
      BY <1>3 DEF RefundNotified, Start
    <2>3. OthersTyped'
      BY <1>1, <1>3 DEF RefundNotified, OthersTyped, userVars
    <2> HIDE DEF s
    <2> QED BY <1>1, <2>1, <2>2, <2>3, QuietStep DEF userVars, lockVars
  <1>4. ASSUME RefundLock(p) \/ RefundLockUser(p) \/ RefundApply(p)
                 \/ RefundMark(p)
        PROVE  /\ r \in Receipts /\ sess[p].amount \in Nat
               /\ sess[p].amount <= PackCredits[r]
               /\ RefundLockUser(p) \/ RefundApply(p) => sess[p].user \in Users
    BY <1>1, <1>4 DEF RefundLock, RefundLockUser, RefundApply, RefundMark, At,
                      Local, Session
  <1>5. ASSUME RefundLock(p) PROVE IInv'
    <2> DEFINE s == [sess[p] EXCEPT
                       !.pc = IF purchases[r].owner = None THEN "refund-mark"
                                                           ELSE "refund-user",
                       !.user = purchases[r].owner]
    <2>1. r \in Receipts /\ sess[p].amount <= PackCredits[r]
      BY <1>4, <1>5
    <2>2. purchases[r].owner \in Users \cup {None}
      BY <1>1, <2>1 DEF Purchase
    <2>3. s \in Session /\ Local(s) /\ s.pc # "withdraw"
      BY <1>1, <2>1, <2>2 DEF Session, PCs, Local
    <2>4. /\ UNCHANGED <<userVars, purchases, adDate, store, events, grants,
                         purged, day, rows, userLock>>
          /\ rcptLock' \in [Receipts -> Sessions \cup {None}]
          /\ acked' \subseteq acked \cup {r}
      BY <1>1, <1>5 DEF RefundLock
    <2>5. OthersTyped'
      BY <1>1, <2>1, <2>4 DEF OthersTyped, userVars
    <2>6. sess' = [sess EXCEPT ![p] = s] \/ sess' = [sess EXCEPT ![p] = Idle]
      BY <1>1, <1>5 DEF RefundLock
    <2>7. PICK t \in Session : /\ Local(t) /\ t.pc # "withdraw"
                               /\ sess' = [sess EXCEPT ![p] = t]
      BY <2>3, <2>6, IdleOK
    <2> QED BY <1>1, <2>4, <2>5, <2>7, QuietStep DEF userVars
  <1>6. ASSUME RefundLockUser(p) PROVE IInv'
    <2> DEFINE u == sess[p].user
               recovered == IF credits[u] < PackCredits[r] THEN credits[u]
                                                           ELSE PackCredits[r]
               s == [sess[p] EXCEPT
                       !.pc = IF recovered > 0 THEN "refund-apply"
                                               ELSE "refund-mark",
                       !.amount = recovered]
    <2>1. r \in Receipts /\ u \in Users
      BY <1>4, <1>6
    <2>2. recovered \in Nat /\ recovered <= PackCredits[r]
      BY <1>1, <1>2, <2>1
    <2>3. /\ sess' = [sess EXCEPT ![p] = s]
          /\ LockUser(p, u)
          /\ UNCHANGED <<userVars, purchases, adDate, storeVars, day, rows,
                         rcptLock>>
      BY <1>1, <1>6 DEF RefundLockUser
    <2>4. s \in Session /\ Local(s) /\ s.pc # "withdraw"
      <3> HIDE DEF recovered
      <3> QED BY <1>1, <2>1, <2>2 DEF Session, PCs, Local
    <2>5. OthersTyped'
      BY <1>1, <2>3 DEF OthersTyped, userVars, storeVars
    <2>6. /\ userLock' \in [Users -> Sessions \cup {None}]
          /\ \A v \in Users, q \in Sessions :
               userLock[v] = q => userLock'[v] = q
      BY <2>1, <2>3, LockUserEffect DEF IInv
    <2> HIDE DEF s
    <2> QED BY <1>1, <2>3, <2>4, <2>5, <2>6, QuietStep DEF userVars
  <1>7. ASSUME RefundApply(p) PROVE IInv'
    <2> DEFINE s == [sess[p] EXCEPT !.pc = "refund-mark"]
    <2>1. /\ r \in Receipts /\ sess[p].user \in Users
          /\ sess[p].amount <= PackCredits[r]
      BY <1>4, <1>7
    <2>2. s \in Session /\ Local(s) /\ s.pc # "withdraw"
      BY <1>1, <2>1 DEF Session, PCs, Local
    <2>3. /\ 0 - sess[p].amount \in Int /\ "refund" \in Kinds
          /\ RefundKey(r) \in LedgerKeys
      BY <1>4, <1>7 DEF Kinds, LedgerKeys
    <2>4. /\ Apply(p, sess[p].user, 0 - sess[p].amount, "refund",
                   RefundKey(r), r)
          /\ sess' = [sess EXCEPT ![p] = s]
          /\ UNCHANGED <<userVars, purchases, adDate, storeVars, day, rcptLock>>
      BY <1>1, <1>7 DEF RefundApply, Goto
    <2> HIDE DEF r, s
    <2> QED BY <2>1, <2>2, <2>3, <2>4, ApplyStep
  <1>8. ASSUME RefundMark(p) PROVE IInv'
    <2>1. /\ r \in Receipts /\ sess[p].amount \in Nat
          /\ sess[p].amount <= PackCredits[r]
      BY <1>4, <1>8
    <2>2. PackCredits[r] - sess[p].amount \in Nat
      BY <1>2, <2>1
    <2>3. purchases' \in [Receipts -> Purchase]
      <3> DEFINE lost == PackCredits[r] - sess[p].amount
                 new == [purchases[r] EXCEPT !.status = "refunded",
                                             !.unrecovered = lost]
      <3>1. purchases' = [purchases EXCEPT ![r] = new]
        BY <1>1, <1>8, <2>1 DEF RefundMark
      <3>2. new \in Purchase
        BY <1>1, <2>1, <2>2 DEF Purchase
      <3> QED BY <1>1, <2>1, <3>1, <3>2
    <2>4. OthersTyped'
      BY <1>1, <1>8, <2>1, <2>3 DEF RefundMark, OthersTyped
    <2>5. Commit(p) /\ status' = status /\ sess' = [sess EXCEPT ![p] = Idle]
      BY <1>8 DEF RefundMark
    <2> QED BY <2>4, <2>5, IdleOK, CommitStep
  <1> QED BY <1>3, <1>5, <1>6, <1>7, <1>8

LEMMA AdSteps ==
  ASSUME IInv, NEW p \in Sessions,
         \/ \E t \in AdCallbacks : AdLock(p, t)
         \/ AdCheck(p) \/ AdInsert(p) \/ AdCommit(p)
  PROVE  IInv'
  <1> DEFINE t == sess[p].item
  <1>1. /\ sess \in [Sessions -> Session] /\ Local(sess[p])
        /\ userLock \in [Users -> Sessions \cup {None}]
        /\ rcptLock \in [Receipts -> Sessions \cup {None}]
        /\ day \in 0 .. MaxDay
        /\ OthersTyped
    BY DEF IInv, TypeOK, LocalsOK, OthersTyped
  <1>2. ASSUME NEW x \in AdCallbacks, AdLock(p, x) PROVE IInv'
    <2> DEFINE u == AdUser[x]
               s == Task("ad-check", u, None, NoKey, 0, x)
    <2>1. u \in Users
      BY PricesAssumption
    <2>2. s \in Session /\ Local(s) /\ s.pc # "withdraw"
      BY <2>1, PricesAssumption DEF Task, Session, PCs, Local, LedgerKeys
    <2>3. /\ sess' = [sess EXCEPT ![p] = s]
          /\ LockUser(p, u)
          /\ UNCHANGED <<userVars, purchases, adDate, storeVars, day, rows,
                         rcptLock>>
      BY <1>2 DEF AdLock, Start
    <2>4. OthersTyped'
      BY <1>1, <2>3 DEF OthersTyped, userVars, storeVars
    <2>5. /\ userLock' \in [Users -> Sessions \cup {None}]
          /\ \A v \in Users, q \in Sessions :
               userLock[v] = q => userLock'[v] = q
      BY <2>1, <2>3, LockUserEffect DEF IInv
    <2> HIDE DEF u, s
    <2> QED BY <1>1, <2>2, <2>3, <2>4, <2>5, QuietStep DEF userVars
  <1>3. ASSUME AdCheck(p) \/ AdInsert(p) \/ AdCommit(p)
        PROVE  sess[p].user \in Users /\ t \in AdCallbacks
    BY <1>1, <1>3 DEF AdCheck, AdInsert, AdCommit, At, Local
  <1>4. ASSUME AdCheck(p), Goto(p, "ad-insert"), UNCHANGED lockVars PROVE IInv'
    <2> DEFINE s == [sess[p] EXCEPT !.pc = "ad-insert"]
    <2>1. s \in Session /\ Local(s) /\ s.pc # "withdraw"
      BY <1>1, <1>3, <1>4 DEF Session, PCs, Local
    <2>2. /\ sess' = [sess EXCEPT ![p] = s]
          /\ UNCHANGED <<userVars, purchases, adDate, storeVars, day>>
      BY <1>1, <1>4 DEF AdCheck, Goto
    <2>3. OthersTyped'
      BY <1>1, <2>2 DEF OthersTyped, userVars, storeVars
    <2> HIDE DEF s
    <2> QED BY <1>1, <1>4, <2>1, <2>2, <2>3, QuietStep DEF userVars, lockVars
  <1>5. ASSUME AdCheck(p), Release(p), sess' = [sess EXCEPT ![p] = Idle]
        PROVE  IInv'
    BY <1>5, RollbackOK DEF AdCheck, userVars, storeVars
  <1>6. ASSUME AdInsert(p) PROVE IInv'
    <2> DEFINE s == [sess[p] EXCEPT !.pc = "ad-commit", !.day = day]
    <2>1. sess[p].user \in Users /\ t \in AdCallbacks
      BY <1>3, <1>6
    <2>2. s \in Session /\ Local(s) /\ s.pc # "withdraw"
      BY <1>1, <2>1 DEF Session, PCs, Local
    <2>3. /\ AdReward \in Int /\ "ad_reward" \in Kinds
          /\ AdKey(t) \in LedgerKeys
      BY <2>1, PricesAssumption DEF Kinds, LedgerKeys
    <2>4. /\ Apply(p, sess[p].user, AdReward, "ad_reward", AdKey(t), None)
          /\ sess' = [sess EXCEPT ![p] = s]
          /\ UNCHANGED <<userVars, purchases, adDate, storeVars, day, rcptLock>>
      BY <1>1, <1>6 DEF AdInsert
    <2> HIDE DEF t, s
    <2> QED BY <2>1, <2>2, <2>3, <2>4, ApplyStep
  <1>7. ASSUME AdCommit(p) PROVE IInv'
    <2>1. t \in AdCallbacks
      BY <1>3, <1>7
    <2>2. adDate' \in [AdCallbacks -> (0 .. MaxDay) \cup {NoDate}]
      BY <1>1, <1>7, <2>1 DEF AdCommit, OthersTyped, Session
    <2>3. OthersTyped'
      BY <1>1, <1>7, <2>2 DEF AdCommit, OthersTyped, storeVars
    <2>4. Commit(p) /\ status' = status /\ sess' = [sess EXCEPT ![p] = Idle]
      BY <1>7 DEF AdCommit
    <2> QED BY <2>3, <2>4, IdleOK, CommitStep
  <1>8. AdCheck(p) => \/ Goto(p, "ad-insert") /\ UNCHANGED lockVars
                      \/ Release(p) /\ sess' = [sess EXCEPT ![p] = Idle]
    BY DEF AdCheck
  <1> QED BY <1>2, <1>4, <1>5, <1>6, <1>7, <1>8

LEMMA WithdrawSteps ==
  ASSUME IInv, NEW p \in Sessions,
         \/ \E u \in Users : WithdrawDelete(p, u)
         \/ \E r \in Receipts : WithdrawSetNull(p, r)
         \/ WithdrawCommit(p)
  PROVE  IInv'
  <1>1. /\ sess \in [Sessions -> Session] /\ Local(sess[p])
        /\ userLock \in [Users -> Sessions \cup {None}]
        /\ rcptLock \in [Receipts -> Sessions \cup {None}]
        /\ OthersTyped /\ WithdrawHolds
    BY DEF IInv, TypeOK, LocalsOK, OthersTyped
  <1>2. ASSUME NEW u \in Users, WithdrawDelete(p, u) PROVE IInv'
    <2> DEFINE s == Task("withdraw", u, None, NoKey, 0, None)
    <2>1. s \in Session /\ Local(s) /\ s.user = u
      BY PricesAssumption DEF Task, Session, PCs, Local, LedgerKeys
    <2>2. /\ sess' = [sess EXCEPT ![p] = s]
          /\ LockUser(p, u)
          /\ UNCHANGED <<userVars, purchases, adDate, storeVars, day, rows,
                         rcptLock>>
      BY <1>2 DEF WithdrawDelete, Start
    <2>3. OthersTyped'
      BY <1>1, <2>2 DEF OthersTyped, userVars, storeVars
    <2>4. /\ userLock' \in [Users -> Sessions \cup {None}]
          /\ userLock'[u] = p
          /\ \A v \in Users, q \in Sessions :
               userLock[v] = q => userLock'[v] = q
      BY <2>2, LockUserEffect DEF IInv
    <2> HIDE DEF s
    <2> QED BY <1>1, <2>1, <2>2, <2>3, <2>4, QuietStep DEF userVars
  <1>3. ASSUME NEW r \in Receipts, WithdrawSetNull(p, r) PROVE IInv'
    <2>1. /\ sess' = [sess EXCEPT ![p] = sess[p]]
          /\ sess[p] \in Session
          /\ userLock'[sess[p].user] = p
      BY <1>1, <1>3 DEF WithdrawSetNull, WithdrawHolds
    <2>2. /\ UNCHANGED <<userVars, purchases, adDate, storeVars, day, rows,
                         userLock>>
          /\ rcptLock' \in [Receipts -> Sessions \cup {None}]
      BY <1>1, <1>3 DEF WithdrawSetNull
    <2>3. OthersTyped'
      BY <1>1, <2>2 DEF OthersTyped, userVars, storeVars
    <2> QED BY <1>1, <2>1, <2>2, <2>3, QuietStep DEF userVars
  <1>4. ASSUME WithdrawCommit(p) PROVE IInv'
    <2> DEFINE u == sess[p].user
    <2>1. /\ u \in Users /\ userLock[u] = p
          /\ Release(p) /\ sess' = [sess EXCEPT ![p] = Idle]
          /\ status' = [status EXCEPT ![u] = "gone"]
          /\ credits' = [credits EXCEPT ![u] = 0]
          /\ ledger' = [ledger EXCEPT ![u] = <<>>]
      BY <1>1, <1>4 DEF WithdrawCommit, WithdrawHolds, At, Local
    <2>2. /\ status \in [Users -> {"new", "active", "gone"}]
          /\ credits \in [Users -> Nat]
          /\ ledger \in [Users -> Seq(Row)]
          /\ <<>> \in Seq(Row) /\ Len(<<>>) = 0 /\ DOMAIN <<>> = {}
      BY DEF IInv, TypeOK
    <2>3. /\ status' \in [Users -> {"new", "active", "gone"}]
          /\ credits' \in [Users -> Nat]
          /\ ledger' \in [Users -> Seq(Row)]
      BY <2>1, <2>2
    <2>4. /\ goods' \in [Users -> [tapes : Nat, drawer : Nat]]
          /\ adDate' \in [AdCallbacks -> (0 .. MaxDay) \cup {NoDate}]
      BY <1>1, <1>4, <2>1 DEF WithdrawCommit, OthersTyped
    <2>5. purchases' \in [Receipts -> Purchase]
      <3>1. \A r \in Receipts :
              /\ purchases[r] \in Purchase
              /\ [purchases[r] EXCEPT !.owner = None] \in Purchase
        BY <1>1 DEF OthersTyped, Purchase
      <3>2. purchases' = [r \in Receipts |-> IF r \in PurchasesOf(u)
                            THEN [purchases[r] EXCEPT !.owner = None]
                            ELSE purchases[r]]
        BY <1>4 DEF WithdrawCommit
      <3> QED BY <3>1, <3>2
    <2>6. /\ userLock' \in [Users -> Sessions \cup {None}]
          /\ rcptLock' \in [Receipts -> Sessions \cup {None}]
          /\ rows' \in [Sessions -> [Users -> Row \cup {NoRow}]]
          /\ rows'[p] = NoRows
          /\ \A q \in Sessions : q # p => rows'[q] = rows[q]
          /\ \A v \in Users, q \in Sessions :
               q # p /\ userLock[v] = q => userLock'[v] = q
      BY <2>1, ReleaseEffect DEF IInv
    <2>7. sess' \in [Sessions -> Session] /\ LocalsOK' /\ WithdrawHolds'
      BY <2>1, <2>6, IdleOK, SessionsKept DEF IInv
    <2>8. /\ OthersTyped' /\ UNCHANGED <<storeVars, day>>
      BY <1>1, <1>4, <2>4, <2>5 DEF WithdrawCommit, OthersTyped, storeVars
    <2>9. TypeOK'
      BY <2>3, <2>6, <2>7, <2>8 DEF TypeOK, OthersTyped
    <2>10. RowsHeld'
      <3> SUFFICES ASSUME NEW q \in Sessions, NEW v \in Users,
                          rows'[q][v] # NoRow
                   PROVE  /\ userLock'[v] = q
                          /\ status'[v] = "active"
                          /\ rows'[q][v].balanceAfter
                               = credits'[v] + rows'[q][v].delta
        BY DEF RowsHeld
      <3>1. q # p /\ rows'[q] = rows[q]
        BY <2>6 DEF NoRows
      <3>2. /\ userLock[v] = q /\ status[v] = "active"
            /\ rows[q][v].balanceAfter = credits[v] + rows[q][v].delta
        BY <3>1 DEF IInv, RowsHeld
      <3>3. v # u
        BY <2>1, <3>1, <3>2
      <3> QED BY <2>1, <2>2, <2>6, <3>1, <3>2, <3>3
    <2>11. LedgerChain'
      <3> SUFFICES ASSUME NEW v \in Users
            PROVE  /\ credits'[v] = BalanceBefore(v, Len(ledger[v]) + 1)'
                   /\ \A i \in DOMAIN ledger'[v] :
                        ledger'[v][i].balanceAfter
                          = BalanceBefore(v, i)' + ledger'[v][i].delta
        BY DEF LedgerChain
      <3>1. CASE v = u
        <4>1. credits'[v] = 0 /\ ledger'[v] = <<>>
          BY <2>1, <2>2, <3>1
        <4> QED BY <2>2, <4>1 DEF BalanceBefore
      <3>2. CASE v # u
        <4>1. credits'[v] = credits[v] /\ ledger'[v] = ledger[v]
          BY <2>1, <2>2, <3>2
        <4> QED BY <4>1 DEF IInv, LedgerChain, BalanceBefore
      <3> QED BY <3>1, <3>2
    <2> QED BY <2>7, <2>9, <2>10, <2>11 DEF IInv
  <1> QED BY <1>2, <1>3, <1>4

LEMMA OtherSteps ==
  ASSUME IInv,
         \/ \E u \in Users : SignUp(u)
         \/ \E r \in Receipts : StoreRefund(r) \/ PurgeExpiredPaymentRecord(r)
         \/ Midnight
         \/ UNCHANGED vars
  PROVE  IInv'
  <1>1. OthersTyped
    BY DEF IInv, TypeOK, OthersTyped
  <1>2. ASSUME NEW u \in Users, SignUp(u) PROVE IInv'
    <2> DEFINE row == [delta |-> SignupGift, balanceAfter |-> SignupGift,
                       kind |-> "signup_gift", key |-> NoKey, ref |-> None]
    <2>1. /\ status \in [Users -> {"new", "active", "gone"}]
          /\ credits \in [Users -> Nat]
          /\ ledger \in [Users -> Seq(Row)]
          /\ status[u] = "new"
          /\ status' = [status EXCEPT ![u] = "active"]
      BY <1>2 DEF SignUp, IInv, TypeOK
    <2>2. /\ row \in Row /\ <<row>> \in Seq(Row)
          /\ Len(<<row>>) = 1 /\ DOMAIN <<row>> = {1} /\ <<row>>[1] = row
      BY PricesAssumption DEF Row, Kinds, LedgerKeys
    <2>3. /\ row.balanceAfter = SignupGift /\ row.delta = SignupGift
          /\ SignupGift \in Nat
      BY PricesAssumption
    <2>4. \/ UNCHANGED <<credits, ledger>>
          \/ /\ credits' = [credits EXCEPT ![u] = SignupGift]
             /\ ledger' = [ledger EXCEPT ![u] = <<row>>]
      BY <1>2 DEF SignUp
    <2> HIDE DEF row
    <2>5. /\ status' \in [Users -> {"new", "active", "gone"}]
          /\ credits' \in [Users -> Nat]
          /\ ledger' \in [Users -> Seq(Row)]
      BY <2>1, <2>2, <2>3, <2>4
    <2>6. UNCHANGED <<goods, purchases, adDate, storeVars, day, sess, lockVars>>
      BY <1>2 DEF SignUp
    <2>7. TypeOK'
      BY <2>5, <2>6 DEF IInv, TypeOK, storeVars, lockVars
    <2>8. LocalsOK' /\ WithdrawHolds'
      BY <2>6 DEF IInv, LocalsOK, WithdrawHolds, At, lockVars
    <2>9. RowsHeld'
      BY <2>1, <2>4, <2>6 DEF IInv, RowsHeld, lockVars
    <2>10. LedgerChain'
      <3> SUFFICES ASSUME NEW v \in Users
            PROVE  /\ credits'[v] = BalanceBefore(v, Len(ledger[v]) + 1)'
                   /\ \A i \in DOMAIN ledger'[v] :
                        ledger'[v][i].balanceAfter
                          = BalanceBefore(v, i)' + ledger'[v][i].delta
        BY DEF LedgerChain
      <3>1. CASE credits'[v] = credits[v] /\ ledger'[v] = ledger[v]
        BY <3>1 DEF IInv, LedgerChain, BalanceBefore
      <3>2. CASE credits'[v] = SignupGift /\ ledger'[v] = <<row>>
        BY <2>2, <2>3, <3>2 DEF BalanceBefore
      <3> QED BY <2>1, <2>4, <3>1, <3>2
    <2> QED BY <2>7, <2>8, <2>9, <2>10 DEF IInv
  <1>3. ASSUME UNCHANGED <<userVars, lockVars, sess>>, OthersTyped'
        PROVE  IInv'
    <2>1. TypeOK'
      BY <1>3 DEF IInv, TypeOK, OthersTyped, userVars, lockVars
    <2>2. LocalsOK' /\ WithdrawHolds'
      BY <1>3 DEF IInv, LocalsOK, WithdrawHolds, At, lockVars
    <2>3. RowsHeld' /\ LedgerChain'
      BY <1>3, BalancesKept DEF IInv, userVars, lockVars
    <2> QED BY <2>1, <2>2, <2>3 DEF IInv
  <1>4. ASSUME NEW r \in Receipts,
               StoreRefund(r) \/ PurgeExpiredPaymentRecord(r)
        PROVE  UNCHANGED <<userVars, lockVars, sess>> /\ OthersTyped'
    <2>1. CASE StoreRefund(r)
      BY <1>1, <2>1 DEF StoreRefund, OthersTyped, userVars
    <2>2. CASE PurgeExpiredPaymentRecord(r)
      <3>1. NoPurchase \in Purchase
        BY DEF NoPurchase, Purchase
      <3>2. purchases' \in [Receipts -> Purchase]
        BY <1>1, <2>2, <3>1 DEF PurgeExpiredPaymentRecord, OthersTyped
      <3> QED BY <1>1, <2>2, <3>2 DEF PurgeExpiredPaymentRecord, OthersTyped,
                                      userVars
    <2> QED BY <1>4, <2>1, <2>2
  <1>5. ASSUME Midnight PROVE UNCHANGED <<userVars, lockVars, sess>> /\ OthersTyped'
    <2>1. day' \in 0 .. MaxDay
      BY <1>1, <1>5, PricesAssumption DEF Midnight, OthersTyped
    <2> QED BY <1>1, <1>5, <2>1 DEF Midnight, OthersTyped, userVars, storeVars
  <1>6. ASSUME UNCHANGED vars
        PROVE  UNCHANGED <<userVars, lockVars, sess>> /\ OthersTyped'
    BY <1>1, <1>6 DEF vars, userVars, lockVars, OthersTyped
  <1> QED BY <1>2, <1>3, <1>4, <1>5, <1>6

-----------------------------------------------------------------------------

LEMMA InitOK == Init => IInv
  <1> SUFFICES ASSUME Init PROVE IInv
    OBVIOUS
  <1>1. NoRows \in [Users -> Row \cup {NoRow}]
    BY DEF NoRows
  <1>2. NoPurchase \in Purchase /\ DefaultDrawerCap \in Nat
    BY DEF NoPurchase, Purchase, DefaultDrawerCap
  <1>3. <<>> \in Seq(Row) /\ Len(<<>>) = 0 /\ DOMAIN <<>> = {}
    OBVIOUS
  <1>4. TypeOK
    BY <1>1, <1>2, <1>3, IdleOK, PricesAssumption DEF Init, TypeOK
  <1>5. LocalsOK /\ WithdrawHolds
    BY IdleOK DEF Init, LocalsOK, WithdrawHolds, At
  <1>6. RowsHeld
    BY DEF Init, RowsHeld, NoRows
  <1>7. LedgerChain
    BY <1>3 DEF Init, LedgerChain, BalanceBefore
  <1> QED BY <1>4, <1>5, <1>6, <1>7 DEF IInv

LEMMA NextOK == IInv /\ [Next]_vars => IInv'
  <1> SUFFICES ASSUME IInv, [Next]_vars PROVE IInv'
    OBVIOUS
  <1>1. ASSUME NEW p \in Sessions, Begin(p) PROVE IInv'
    BY <1>1, PurchaseSteps, GiftSteps, IapSteps, RefundSteps, AdSteps,
       WithdrawSteps DEF Begin
  <1>2. ASSUME NEW p \in Sessions, Rollback(p) PROVE IInv'
    BY <1>2, RollbackOK DEF Rollback
  <1>3. ASSUME NEW p \in Sessions, Continue(p) PROVE IInv'
    BY <1>2, <1>3, PurchaseSteps, GiftSteps, IapSteps, RefundSteps, AdSteps,
       WithdrawSteps DEF Continue, Fail
  <1>4. ASSUME NEW p \in Sessions, Crash(p) \/ DeadlockVictim(p) PROVE IInv'
    BY <1>2, <1>4 DEF Crash, DeadlockVictim
  <1> QED BY <1>1, <1>3, <1>4, OtherSteps DEF Next

LEMMA Inductive == Spec => []IInv
  BY InitOK, NextOK, PTL DEF Spec

(* Every variable keeps its type.  credits \in [Users -> Nat] says that no *)
(* interleaving of purchases, gifts, refunds and crashes makes a balance   *)
(* negative.                                                               *)
THEOREM Typing == Spec => []TypeOK
  <1>1. IInv => TypeOK
    BY DEF IInv
  <1> QED BY <1>1, Inductive, PTL

(* The ledger explains the balance: no two transactions start from the     *)
(* same balance, and none writes a row without moving users.credits.       *)
THEOREM BalancesExplained == Spec => []LedgerChain
  <1>1. IInv => LedgerChain
    BY DEF IInv
  <1> QED BY <1>1, Inductive, PTL

-----------------------------------------------------------------------------
(* A key moves a user's credits once: apply() found no row with the key    *)
(* while holding the lock on the user, and holds it until the commit.      *)

FreshKeys ==
  \A p \in Sessions, u \in Users :
    rows[p][u] # NoRow /\ rows[p][u].key # NoKey =>
      \A i \in DOMAIN ledger[u] : ledger[u][i].key # rows[p][u].key

KInv == FreshKeys /\ KeyMovesCreditsOnce

LEMMA KeysKept ==
  ASSUME KInv,
         \A u \in Users : ledger'[u] = ledger[u] \/ ledger'[u] = <<>>
                            \/ \E row \in Row : row.key = NoKey
                                                /\ ledger'[u] = <<row>>,
         \A p \in Sessions, u \in Users :
           rows'[p][u] # NoRow => /\ rows'[p][u] = rows[p][u]
                                  /\ ledger'[u] \in {ledger[u], <<>>}
  PROVE  KInv'
  <1>1. DOMAIN <<>> = {} /\ \A row : DOMAIN <<row>> = {1} /\ <<row>>[1] = row
    OBVIOUS
  <1>2. FreshKeys'
    <2> SUFFICES ASSUME NEW p \in Sessions, NEW u \in Users,
                        rows'[p][u] # NoRow, rows'[p][u].key # NoKey,
                        NEW i \in DOMAIN ledger'[u]
                 PROVE  ledger'[u][i].key # rows'[p][u].key
      BY DEF FreshKeys
    <2>1. rows'[p][u] = rows[p][u] /\ ledger'[u] \in {ledger[u], <<>>}
      OBVIOUS
    <2>2. ledger'[u] = ledger[u]
      BY <1>1, <2>1
    <2> QED BY <2>1, <2>2 DEF KInv, FreshKeys
  <1>3. KeyMovesCreditsOnce'
    <2> SUFFICES ASSUME NEW u \in Users, NEW i \in DOMAIN ledger'[u],
                        NEW j \in DOMAIN ledger'[u],
                        i # j, ledger'[u][i].key = ledger'[u][j].key
                 PROVE  ledger'[u][i].key = NoKey
      BY DEF KeyMovesCreditsOnce
    <2>1. ledger'[u] = ledger[u]
      BY <1>1
    <2> QED BY <2>1 DEF KInv, KeyMovesCreditsOnce
  <1> QED BY <1>2, <1>3 DEF KInv

LEMMA KeysApplied ==
  ASSUME IInv, KInv, NEW p \in Sessions, NEW u \in Users, NEW delta \in Int,
         NEW kind \in Kinds, NEW key \in LedgerKeys,
         NEW ref \in Users \cup Receipts \cup Products \cup {None},
         Apply(p, u, delta, kind, key, ref), ledger' = ledger
  PROVE  KInv'
  <1> DEFINE row == [delta |-> delta, balanceAfter |-> credits[u] + delta,
                     kind |-> kind, key |-> key, ref |-> ref]
  <1>1. /\ rows' = [rows EXCEPT ![p][u] = row] /\ row.key = key
        /\ key # NoKey => \A i \in DOMAIN ledger[u] : ledger[u][i].key # key
        /\ rows \in [Sessions -> [Users -> Row \cup {NoRow}]]
    BY DEF Apply, Accepts, IInv, TypeOK
  <1> HIDE DEF row
  <1>2. \A q \in Sessions, v \in Users :
          rows'[q][v] = IF q = p /\ v = u THEN row ELSE rows[q][v]
    BY <1>1
  <1>3. FreshKeys'
    BY <1>1, <1>2 DEF KInv, FreshKeys
  <1> QED BY <1>3 DEF KInv, KeyMovesCreditsOnce

LEMMA KeysCommitted ==
  ASSUME IInv, KInv, NEW p \in Sessions, Commit(p)
  PROVE  KInv'
  <1>1. /\ ledger \in [Users -> Seq(Row)]
        /\ rows \in [Sessions -> [Users -> Row \cup {NoRow}]]
        /\ RowsHeld
    BY DEF IInv, TypeOK
  <1>2. /\ rows'[p] = NoRows
        /\ \A q \in Sessions : q # p => rows'[q] = rows[q]
    BY ReleaseEffect DEF Commit, IInv
  <1>3. ASSUME NEW u \in Users, rows[p][u] = NoRow
        PROVE  ledger'[u] = ledger[u]
    BY <1>3 DEF Commit
  <1>4. ASSUME NEW u \in Users, rows[p][u] # NoRow
        PROVE  /\ DOMAIN ledger'[u] = 1 .. Len(ledger[u]) + 1
               /\ DOMAIN ledger[u] = 1 .. Len(ledger[u])
               /\ Len(ledger[u]) \in Nat
               /\ ledger'[u][Len(ledger[u]) + 1] = rows[p][u]
               /\ \A i \in 1 .. Len(ledger[u]) : ledger'[u][i] = ledger[u][i]
    <2>1. /\ ledger[u] \in Seq(Row) /\ rows[p][u] \in Row
          /\ ledger'[u] = Append(ledger[u], rows[p][u])
      BY <1>1, <1>4 DEF Commit
    <2> QED BY <2>1, AppendFacts
  <1>5. FreshKeys'
    <2> SUFFICES ASSUME NEW q \in Sessions, NEW u \in Users,
                        rows'[q][u] # NoRow, rows'[q][u].key # NoKey
                 PROVE  \A i \in DOMAIN ledger'[u] :
                          ledger'[u][i].key # rows'[q][u].key
      BY DEF FreshKeys
    <2>1. q # p /\ rows'[q] = rows[q]
      BY <1>2 DEF NoRows
    <2>2. rows[p][u] = NoRow
      BY <1>1, <2>1 DEF RowsHeld
    <2> QED BY <1>3, <2>1, <2>2 DEF KInv, FreshKeys
  <1>6. KeyMovesCreditsOnce'
    <2> SUFFICES ASSUME NEW u \in Users, NEW i \in DOMAIN ledger'[u],
                        NEW j \in DOMAIN ledger'[u],
                        i # j, ledger'[u][i].key = ledger'[u][j].key
                 PROVE  ledger'[u][i].key = NoKey
      BY DEF KeyMovesCreditsOnce
    <2>1. CASE rows[p][u] = NoRow
      BY <1>3, <2>1 DEF KInv, KeyMovesCreditsOnce
    <2>2. CASE rows[p][u] # NoRow
      <3>1. CASE i \in DOMAIN ledger[u] /\ j \in DOMAIN ledger[u]
        BY <1>4, <2>2, <3>1 DEF KInv, KeyMovesCreditsOnce
      <3>2. CASE ~(i \in DOMAIN ledger[u] /\ j \in DOMAIN ledger[u])
        <4> DEFINE n == Len(ledger[u])
        <4>1. /\ DOMAIN ledger'[u] = 1 .. n + 1 /\ DOMAIN ledger[u] = 1 .. n
              /\ ledger'[u][n + 1] = rows[p][u] /\ n \in Nat
              /\ \A x \in 1 .. n : ledger'[u][x] = ledger[u][x]
          BY <1>4, <2>2
        <4>2. rows[p][u].key = NoKey
                \/ \A x \in 1 .. n : ledger[u][x].key # rows[p][u].key
          BY <2>2, <4>1 DEF KInv, FreshKeys
        <4>3. \/ i = n + 1 /\ j \in 1 .. n
              \/ j = n + 1 /\ i \in 1 .. n
          BY <3>2, <4>1
        <4> HIDE DEF n
        <4> QED BY <4>1, <4>2, <4>3
      <3> QED BY <3>1, <3>2
    <2> QED BY <2>1, <2>2
  <1> QED BY <1>5, <1>6 DEF KInv

(* What a step does to the ledgers and to the uncommitted rows. *)
LEMMA KeysNext == IInv /\ KInv /\ [Next]_vars => KInv'
  <1> SUFFICES ASSUME IInv, KInv, [Next]_vars PROVE KInv'
    OBVIOUS
  <1>1. ASSUME UNCHANGED <<ledger, rows>> PROVE KInv'
    BY <1>1, KeysKept
  <1>2. ASSUME NEW p \in Sessions, Release(p), ledger' = ledger PROVE KInv'
    <2>1. rows'[p] = NoRows /\ \A q \in Sessions : q # p => rows'[q] = rows[q]
      BY <1>2, ReleaseEffect DEF IInv
    <2>2. \A q \in Sessions, u \in Users :
            rows'[q][u] # NoRow => rows'[q][u] = rows[q][u]
      BY <2>1 DEF NoRows
    <2> QED BY <1>2, <2>2, KeysKept
  <1>3. ASSUME NEW p \in Sessions
        PROVE  /\ sess[p].amount \in Nat /\ sess[p].key \in LedgerKeys
               /\ At(p, "gift-debit") \/ At(p, "gift-credit") =>
                    sess[p].user \in Users /\ sess[p].peer \in Users
               /\ At(p, "iap-apply") \/ At(p, "refund-apply") =>
                    sess[p].user \in Users /\ sess[p].item \in Receipts
               /\ At(p, "ad-insert") =>
                    sess[p].user \in Users /\ sess[p].item \in AdCallbacks
               /\ At(p, "withdraw") => sess[p].user \in Users
    BY DEF IInv, TypeOK, Session, LocalsOK, Local, At
  <1>4. ASSUME NEW p \in Sessions, Begin(p) PROVE KInv'
    <2>1. ASSUME NEW u \in Users, NEW g \in Products, NEW k \in Keys,
                 PurchaseApply(p, u, g, k)
          PROVE  KInv'
      <3> DEFINE kind == IF Slots[g] = 0 THEN "tape_purchase"
                                         ELSE "drawer_expand"
      <3>1. /\ 0 - Price[g] \in Int /\ kind \in Kinds
            /\ ClientKey(k) \in LedgerKeys
        BY PricesAssumption DEF Kinds, LedgerKeys
      <3>2. Apply(p, u, 0 - Price[g], kind, ClientKey(k), g)
            /\ ledger' = ledger
        BY <2>1 DEF PurchaseApply, userVars
      <3> HIDE DEF kind
      <3> QED BY <3>1, <3>2, KeysApplied
    <2> QED BY <1>1, <1>4, <2>1 DEF Begin, GiftCheck, IapVerify,
              RetryPlayConsume, RefundNotified, AdLock, WithdrawDelete, userVars, lockVars
  <1>5. ASSUME NEW p \in Sessions, Continue(p) PROVE KInv'
    <2>1. CASE GiftDebit(p) \/ GiftCredit(p)
      <3>1. /\ "gift_sent" \in Kinds /\ "gift_received" \in Kinds
            /\ 0 - sess[p].amount \in Int /\ sess[p].amount \in Int
        BY <1>3 DEF Kinds
      <3> QED BY <1>3, <2>1, <3>1, KeysApplied
              DEF GiftDebit, GiftCredit, userVars
    <2>2. CASE IapApply(p)
      <3>1. At(p, "iap-apply")
        BY <2>2 DEF IapApply
      <3>2. \A r \in Receipts : PackCredits[r] \in Int
                                /\ IapKey(r) \in LedgerKeys
        BY PricesAssumption DEF LedgerKeys
      <3> QED BY <1>3, <2>2, <3>1, <3>2, KeysApplied
              DEF IapApply, userVars, Kinds
    <2>3. CASE RefundApply(p)
      <3>1. At(p, "refund-apply")
        BY <2>3 DEF RefundApply
      <3>2. /\ 0 - sess[p].amount \in Int /\ "refund" \in Kinds
            /\ \A r \in Receipts : RefundKey(r) \in LedgerKeys
        BY <1>3 DEF Kinds, LedgerKeys
      <3> QED BY <1>3, <2>3, <3>1, <3>2, KeysApplied DEF RefundApply, userVars
    <2>4. CASE AdInsert(p)
      <3>1. At(p, "ad-insert")
        BY <2>4 DEF AdInsert
      <3>2. /\ AdReward \in Int /\ "ad_reward" \in Kinds
            /\ \A t \in AdCallbacks : AdKey(t) \in LedgerKeys
        BY PricesAssumption DEF Kinds, LedgerKeys
      <3> QED BY <1>3, <2>4, <3>1, <3>2, KeysApplied DEF AdInsert, userVars
    <2>5. CASE PurchaseCommit(p) \/ GiftCommit(p) \/ IapCommit(p)
                 \/ RefundMark(p) \/ AdCommit(p)
      BY <2>5, KeysCommitted DEF PurchaseCommit, GiftCommit, IapCommit,
         RefundMark, AdCommit
    <2>6. CASE AdCheck(p) \/ Fail(p)
      BY <1>1, <1>2, <2>6 DEF AdCheck, Fail, Rollback, userVars, lockVars
    <2>7. CASE WithdrawCommit(p)
      <3>1. /\ Release(p) /\ sess[p].user \in Users
            /\ ledger' = [ledger EXCEPT ![sess[p].user] = <<>>]
            /\ ledger \in [Users -> Seq(Row)]
        BY <1>3, <2>7 DEF WithdrawCommit, IInv, TypeOK
      <3>2. rows'[p] = NoRows /\ \A q \in Sessions : q # p => rows'[q] = rows[q]
        BY <3>1, ReleaseEffect DEF IInv
      <3>3. \A q \in Sessions, u \in Users :
              rows'[q][u] # NoRow => rows'[q][u] = rows[q][u]
        BY <3>2 DEF NoRows
      <3>4. \A u \in Users : ledger'[u] \in {ledger[u], <<>>}
        BY <3>1
      <3> QED BY <3>3, <3>4, KeysKept
    <2>8. CASE GiftLockFirst(p) \/ GiftLockSecond(p) \/ IapInsert(p)
                 \/ ConsumePlay(p) \/ RefundLock(p) \/ RefundLockUser(p)
                 \/ \E r \in Receipts : WithdrawSetNull(p, r)
      BY <1>1, <2>8 DEF GiftLockFirst, GiftLockSecond, IapInsert, ConsumePlay,
         RefundLock, RefundLockUser, WithdrawSetNull, userVars, lockVars
    <2> QED BY <1>5, <2>1, <2>2, <2>3, <2>4, <2>5, <2>6, <2>7, <2>8
            DEF Continue
  <1>6. ASSUME NEW p \in Sessions, Crash(p) \/ DeadlockVictim(p) PROVE KInv'
    BY <1>2, <1>6 DEF Crash, DeadlockVictim, Rollback
  <1>7. ASSUME NEW u \in Users, SignUp(u) PROVE KInv'
    <2> DEFINE row == [delta |-> SignupGift, balanceAfter |-> SignupGift,
                       kind |-> "signup_gift", key |-> NoKey, ref |-> None]
    <2>1. row \in Row /\ row.key = NoKey
      BY PricesAssumption DEF Row, Kinds, LedgerKeys
    <2>2. /\ ledger \in [Users -> Seq(Row)]
          /\ rows' = rows /\ status[u] = "new"
          /\ \/ ledger' = ledger
             \/ ledger' = [ledger EXCEPT ![u] = <<row>>]
      BY <1>7 DEF SignUp, IInv, TypeOK, lockVars
    <2> HIDE DEF row
    <2>3. \A p \in Sessions : rows[p][u] = NoRow
      BY <2>2 DEF IInv, RowsHeld
    <2> QED BY <2>1, <2>2, <2>3, KeysKept
  <1>8. ASSUME \/ \E r \in Receipts : StoreRefund(r)
                                         \/ PurgeExpiredPaymentRecord(r)
               \/ Midnight \/ UNCHANGED vars
        PROVE  KInv'
    BY <1>1, <1>8 DEF StoreRefund, PurgeExpiredPaymentRecord, Midnight,
       vars, userVars, lockVars
  <1> QED BY <1>4, <1>5, <1>6, <1>7, <1>8 DEF Next

(* A retried client key, store callback or AdMob callback moves a user's   *)
(* credits once, however many sessions handle its copies at once.          *)
THEOREM KeysMoveCreditsOnce == Spec => []KeyMovesCreditsOnce
  <1>1. Init => KInv
    <2> SUFFICES ASSUME Init PROVE KInv
      OBVIOUS
    <2>1. DOMAIN <<>> = {}
      OBVIOUS
    <2> QED BY <2>1 DEF Init, KInv, FreshKeys, KeyMovesCreditsOnce, NoRows
  <1>2. KInv => KeyMovesCreditsOnce
    BY DEF KInv
  <1> QED BY <1>1, <1>2, KeysNext, Inductive, PTL DEF Spec

-----------------------------------------------------------------------------
(* What an open transaction has written, which rows it has locked, and     *)
(* what it knows, by the statement it is at.                               *)

Lesser(a, b) == IF a < b THEN a ELSE b

Wrote(p, u, delta, key) ==
  rows[p][u] # NoRow /\ rows[p][u].delta = delta /\ rows[p][u].key = key
WroteOnly(p, U) == \A v \in Users \ U : rows[p][v] = NoRow

Gifting == {"gift-first", "gift-second", "gift-debit", "gift-credit",
            "gift-commit"}
Refunding == {"refund-user", "refund-apply", "refund-mark"}
Writing == {"bought", "gift-credit", "gift-commit", "iap-commit", "refund-mark",
            "ad-commit"}

TxRows(p) ==
  LET s == sess[p]
      u == s.user
  IN  /\ s.pc \notin Writing => WroteOnly(p, {})
      /\ At(p, "bought") =>
           WroteOnly(p, {u}) /\ Wrote(p, u, 0 - Price[s.item], s.key)
      /\ At(p, "gift-credit") =>
           WroteOnly(p, {u}) /\ Wrote(p, u, 0 - s.amount, s.key)
      /\ At(p, "gift-commit") =>
           /\ WroteOnly(p, {u, s.peer})
           /\ Wrote(p, u, 0 - s.amount, s.key)
           /\ Wrote(p, s.peer, s.amount, s.key)
      /\ At(p, "iap-commit") =>
           WroteOnly(p, {u}) /\ Wrote(p, u, PackCredits[s.item], IapKey(s.item))
      /\ At(p, "ad-commit") =>
           WroteOnly(p, {u}) /\ Wrote(p, u, AdReward, AdKey(s.item))
      /\ At(p, "refund-mark") =>
           IF s.amount = 0 THEN WroteOnly(p, {}) ELSE
             WroteOnly(p, {u}) /\ Wrote(p, u, 0 - s.amount, RefundKey(s.item))

LocksUser(p, u) ==
  LET s == sess[p]
  IN  \/ u = s.user /\ s.pc \in {"bought", "iap-commit", "refund-apply",
                                 "refund-mark", "ad-check", "ad-insert",
                                 "ad-commit", "withdraw"}
      \/ At(p, "gift-second") /\ u = First(p)
      \/ u \in {s.user, s.peer} /\
           s.pc \in {"gift-debit", "gift-credit", "gift-commit"}
LocksReceipt(p, r) ==
  sess[p].pc \in {"iap-apply", "iap-commit"} \cup Refunding /\ r = sess[p].item

TxLocks(p) ==
  /\ \A u \in Users : userLock[u] = p <=> LocksUser(p, u)
  /\ \A r \in Receipts :
       IF At(p, "withdraw")
       THEN rcptLock[r] = p => purchases[r].owner = sess[p].user
       ELSE rcptLock[r] = p <=> LocksReceipt(p, r)

UpdatesOnly(p) ==
  LET u == sess[p].user
  IN  status[u] = "active" /\ (userLock[u] # None => OnlyUpdates(userLock[u]))

TxKnows(p) ==
  LET s == sess[p]
      u == s.user
      r == s.item
  IN  /\ s.pc \in Gifting \cup {"bought"} => \E k \in Keys : s.key = ClientKey(k)
      /\ s.pc \in Gifting => u # s.peer /\ s.amount \in GiftAmounts
      /\ At(p, "iap-apply") => UpdatesOnly(p)
      /\ s.pc \in {"iap-apply", "iap-commit"} => purchases[r].status = "absent"
      /\ s.pc \in Refunding =>
           purchases[r].status = "granted" /\ purchases[r].owner = u
      /\ s.pc \in {"refund-lock", "refund-user"} => s.amount = 0
      /\ At(p, "refund-apply") => s.amount > 0
      /\ s.pc \in {"refund-apply", "refund-mark"} =>
           s.amount = IF u = None THEN 0 ELSE Lesser(credits[u], PackCredits[r])
      /\ s.pc \in {"ad-check", "ad-insert", "ad-commit"} => u = AdUser[r]
      /\ s.pc \in {"ad-insert", "ad-commit"} => adDate[r] = NoDate
      /\ At(p, "ad-insert") => Cardinality(AdRewardsOn(u, day)) < AdDailyLimit
      /\ At(p, "ad-commit") =>
           s.day <= day /\ Cardinality(AdRewardsOn(u, s.day)) < AdDailyLimit
      /\ At(p, "withdraw") => status[u] = "active"

TxOK == \A p \in Sessions : TxRows(p) /\ TxLocks(p) /\ TxKnows(p)

(* What the tables say of each other between transactions.                 *)
LedgersOfMembers == \A u \in Users : status[u] # "active" => ledger[u] = <<>>
GrantsOK ==
  \A r \in Receipts :
    grants[r] <= (IF r \in purged THEN 1 ELSE 0)
                   + (IF purchases[r].status = "absent" THEN 0 ELSE 1)
ReceiptsOwned ==
  \A r \in Receipts :
    /\ purchases[r].status = "absent" => purchases[r].owner = None
    /\ \A u \in Users : HasRow(u, IapKey(r)) \/ HasRow(u, RefundKey(r)) =>
                          purchases[r].owner = u
AdDatesPast ==
  /\ \A t \in AdCallbacks : adDate[t] <= day
  /\ IsFiniteSet(BookRewarded)

TxInv ==
  /\ TxOK /\ LedgersOfMembers /\ GrantsOK /\ ReceiptsOwned
  /\ PurchaseMatchesLedger /\ AdDatesPast /\ AdRewardsHold

-----------------------------------------------------------------------------
(* What a step of one session leaves to the others.                        *)

Step(q) == Begin(q) \/ Continue(q) \/ Crash(q) \/ DeadlockVictim(q)

Ends(q) ==
  \/ Fail(q) \/ Crash(q) \/ DeadlockVictim(q)
  \/ AdCheck(q) /\ Release(q) /\ sess' = [sess EXCEPT ![q] = Idle]
Commits(q) ==
  \/ PurchaseCommit(q) \/ GiftCommit(q) \/ IapCommit(q) \/ RefundMark(q)
  \/ AdCommit(q)

LEMMA LocalsOf ==
  ASSUME IInv, NEW p \in Sessions
  PROVE  /\ sess[p] \in Session /\ Local(sess[p])
         /\ At(p, "gift-first") \/ At(p, "gift-second") =>
              First(p) \in Users /\ Second(p) \in Users
  <1>1. sess[p] \in Session /\ Local(sess[p])
    BY DEF IInv, TypeOK, LocalsOK
  <1> QED BY <1>1 DEF Local, At, First, Second, InIdOrder

(* The locks that a step takes or gives back. *)
LEMMA LocksMove ==
  ASSUME IInv, NEW q \in Sessions, Step(q)
  PROVE  \/ UNCHANGED lockVars
         \/ \E u \in Users : LockUser(q, u) /\ UNCHANGED <<rcptLock, rows>>
         \/ \E r \in Receipts : /\ rcptLock[r] = None
                                /\ rcptLock' = [rcptLock EXCEPT ![r] = q]
                                /\ UNCHANGED <<userLock, rows>>
         \/ \E u \in Users : \E row :
              /\ Unlocked(q, u) /\ userLock' = [userLock EXCEPT ![u] = q]
              /\ rows' = [rows EXCEPT ![q][u] = row]
              /\ UNCHANGED rcptLock
         \/ Release(q)
  <1>1. sess[q] \in Session /\ Local(sess[q])
    BY LocalsOf
  <1>2. CASE Begin(q)
    <2>1. \A t \in AdCallbacks : AdUser[t] \in Users
      BY PricesAssumption
    <2>2. ASSUME NEW u \in Users, NEW g \in Products, NEW k \in Keys,
                 PurchaseApply(q, u, g, k)
          PROVE  \E row : /\ Unlocked(q, u)
                          /\ userLock' = [userLock EXCEPT ![u] = q]
                          /\ rows' = [rows EXCEPT ![q][u] = row]
                          /\ UNCHANGED rcptLock
      BY <2>2 DEF PurchaseApply, Apply
    <2>3. CASE \E u \in Users, g \in Products, k \in Keys :
                 PurchaseApply(q, u, g, k)
      BY <2>2, <2>3
    <2>4. CASE \/ \E a, b \in Users, n \in GiftAmounts, k \in Keys :
                    GiftCheck(q, a, b, n, k)
               \/ \E u \in Users, r \in Receipts : IapVerify(q, u, r)
               \/ \E r \in Receipts : RetryPlayConsume(q, r)
                                      \/ RefundNotified(q, r)
      BY <2>4 DEF GiftCheck, IapVerify, RetryPlayConsume, RefundNotified
    <2>5. CASE \/ \E t \in AdCallbacks : AdLock(q, t)
               \/ \E u \in Users : WithdrawDelete(q, u)
      BY <2>1, <2>5 DEF AdLock, WithdrawDelete
    <2> QED BY <1>2, <2>3, <2>4, <2>5 DEF Begin
  <1>3. CASE Ends(q) \/ Commits(q) \/ WithdrawCommit(q)
    BY <1>3 DEF Ends, Fail, Crash, DeadlockVictim, Rollback, Commits,
                PurchaseCommit, GiftCommit, IapCommit, RefundMark, AdCommit,
                Commit, WithdrawCommit
  <1>4. CASE \/ GiftDebit(q) \/ GiftCredit(q) \/ IapApply(q) \/ RefundApply(q)
             \/ AdInsert(q)
    <2>1. sess[q].user \in Users /\ (GiftCredit(q) => sess[q].peer \in Users)
      BY <1>1, <1>4 DEF GiftDebit, GiftCredit, IapApply, RefundApply, AdInsert,
                        At, Local
    <2> QED BY <1>4, <2>1
            DEF GiftDebit, GiftCredit, IapApply, RefundApply, AdInsert, Apply
  <1>5. CASE GiftLockFirst(q) \/ GiftLockSecond(q) \/ RefundLockUser(q)
    <2>1. /\ GiftLockFirst(q) \/ GiftLockSecond(q) =>
               First(q) \in Users /\ Second(q) \in Users
          /\ RefundLockUser(q) => sess[q].user \in Users
      BY <1>1, LocalsOf DEF GiftLockFirst, GiftLockSecond, RefundLockUser, At,
                            Local
    <2> QED BY <1>5, <2>1 DEF GiftLockFirst, GiftLockSecond, RefundLockUser
  <1>6. CASE \/ IapInsert(q) \/ RefundLock(q) \/ ConsumePlay(q)
             \/ \E r \in Receipts : WithdrawSetNull(q, r)
    <2>1. IapInsert(q) \/ RefundLock(q) => sess[q].item \in Receipts
      BY <1>1 DEF IapInsert, RefundLock, At, Local
    <2> QED BY <1>6, <2>1
            DEF IapInsert, RefundLock, ConsumePlay, WithdrawSetNull, lockVars
  <1>7. CASE AdCheck(q) /\ ~Ends(q)
    BY <1>7 DEF AdCheck, Ends
  <1> QED BY <1>2, <1>3, <1>4, <1>5, <1>6, <1>7
          DEF Step, Continue, Ends, Commits

Kept(p) ==
  /\ sess'[p] = sess[p] /\ rows'[p] = rows[p]
  /\ \A u \in Users : userLock'[u] = p <=> userLock[u] = p
  /\ \A r \in Receipts : rcptLock'[r] = p <=> rcptLock[r] = p

LEMMA OthersKeepLocks ==
  ASSUME IInv, NEW q \in Sessions, Step(q), NEW p \in Sessions \ {q}
  PROVE  Kept(p)
  <1>0. /\ userLock \in [Users -> Sessions \cup {None}]
        /\ rcptLock \in [Receipts -> Sessions \cup {None}]
        /\ rows \in [Sessions -> [Users -> Row \cup {NoRow}]]
        /\ sess \in [Sessions -> Session] /\ None \notin Sessions
    BY UsersAssumption DEF IInv, TypeOK
  <1>1. sess'[p] = sess[p]
    <2>1. CASE Begin(q)
      BY <2>1, <1>0 DEF Begin, PurchaseApply, GiftCheck, IapVerify,
         RetryPlayConsume, RefundNotified, AdLock, WithdrawDelete, Start
    <2>2. CASE Ends(q) \/ Commits(q) \/ WithdrawCommit(q)
      BY <2>2, <1>0 DEF Ends, Fail, Crash, DeadlockVictim, Rollback, Commits,
         PurchaseCommit, GiftCommit, IapCommit, RefundMark, AdCommit,
         WithdrawCommit
    <2>3. CASE \/ GiftLockFirst(q) \/ GiftLockSecond(q) \/ GiftDebit(q)
               \/ GiftCredit(q) \/ IapInsert(q) \/ IapApply(q) \/ ConsumePlay(q)
      BY <2>3, <1>0 DEF GiftLockFirst, GiftLockSecond, GiftDebit, GiftCredit,
         IapInsert, IapApply, ConsumePlay, Goto
    <2>4. CASE \/ RefundLock(q) \/ RefundLockUser(q) \/ RefundApply(q)
               \/ AdCheck(q) \/ AdInsert(q)
               \/ \E r \in Receipts : WithdrawSetNull(q, r)
      BY <2>4, <1>0 DEF RefundLock, RefundLockUser, RefundApply, AdCheck,
         AdInsert, WithdrawSetNull, Goto
    <2> QED BY <2>1, <2>2, <2>3, <2>4 DEF Step, Continue, Ends, Commits
  <1>2. CASE UNCHANGED lockVars
    BY <1>1, <1>2 DEF lockVars, Kept
  <1>3. ASSUME NEW u \in Users, LockUser(q, u), UNCHANGED <<rcptLock, rows>>
        PROVE  Kept(p)
    BY <1>0, <1>1, <1>3 DEF LockUser, Kept
  <1>4. ASSUME NEW r \in Receipts, rcptLock[r] = None,
               rcptLock' = [rcptLock EXCEPT ![r] = q],
               UNCHANGED <<userLock, rows>>
        PROVE  Kept(p)
    BY <1>0, <1>1, <1>4 DEF Kept
  <1>5. ASSUME NEW u \in Users, NEW row, Unlocked(q, u),
               userLock' = [userLock EXCEPT ![u] = q],
               rows' = [rows EXCEPT ![q][u] = row], UNCHANGED rcptLock
        PROVE  Kept(p)
    BY <1>0, <1>1, <1>5 DEF Unlocked, Kept
  <1>6. CASE Release(q)
    BY <1>0, <1>1, <1>6 DEF Release, Kept
  <1> QED BY <1>2, <1>3, <1>4, <1>5, <1>6, LocksMove

(* A step changes the rows of a user or of a receipt only under the lock.  *)
SamePurchase(r) ==
  /\ purchases'[r].status = purchases[r].status
  /\ purchases'[r].owner = purchases[r].owner
  /\ purchases'[r].unrecovered = purchases[r].unrecovered
  /\ grants'[r] = grants[r]
SameUser(u) ==
  /\ status'[u] = status[u] /\ credits'[u] = credits[u]
  /\ ledger'[u] = ledger[u] /\ goods'[u] = goods[u]
  /\ \A t \in AdCallbacks : AdUser[t] = u => adDate'[t] = adDate[t]

LEMMA TxOf ==
  ASSUME IInv, TxInv, NEW p \in Sessions
  PROVE  /\ TxRows(p) /\ TxLocks(p) /\ TxKnows(p) /\ sess[p] \in Session
         /\ Local(sess[p])
  BY LocalsOf DEF TxInv, TxOK

LEMMA TablesMove ==
  ASSUME IInv, TxInv, NEW q \in Sessions, Step(q)
  PROVE  /\ day' = day /\ purged' = purged
         /\ \A u \in Users : userLock[u] # q => SameUser(u)
         /\ \A r \in Receipts : rcptLock[r] # q => SamePurchase(r)
  <1> DEFINE Quiet == UNCHANGED <<userVars, purchases, adDate, grants, purged, day>>
  <1>0. /\ TxRows(q) /\ TxLocks(q) /\ TxKnows(q) /\ Local(sess[q])
        /\ \A u \in Users : rows[q][u] # NoRow => userLock[u] = q
        /\ goods \in [Users -> [tapes : Nat, drawer : Nat]]
        /\ status \in [Users -> {"new", "active", "gone"}]
        /\ credits \in [Users -> Nat] /\ ledger \in [Users -> Seq(Row)]
        /\ adDate \in [AdCallbacks -> (0 .. MaxDay) \cup {NoDate}]
        /\ purchases \in [Receipts -> Purchase] /\ grants \in [Receipts -> Nat]
    BY TxOf DEF IInv, RowsHeld, TypeOK
  <1>1. CASE Quiet
    BY <1>1 DEF userVars, SameUser, SamePurchase
  <1>2. CASE Begin(q)
    BY <1>1, <1>2
    DEF Begin, PurchaseApply, GiftCheck, IapVerify, RetryPlayConsume,
        RefundNotified, AdLock, WithdrawDelete, storeVars
  <1>3. CASE Ends(q)
    BY <1>1, <1>3
    DEF Ends, Fail, Crash, DeadlockVictim, Rollback, AdCheck, userVars, storeVars
  <1>4. CASE \/ GiftLockFirst(q) \/ GiftLockSecond(q) \/ GiftDebit(q)
             \/ GiftCredit(q) \/ IapInsert(q) \/ IapApply(q)
             \/ RefundLock(q) \/ RefundLockUser(q) \/ RefundApply(q)
             \/ AdCheck(q) \/ AdInsert(q)
             \/ \E r \in Receipts : WithdrawSetNull(q, r)
    BY <1>1, <1>4
    DEF GiftLockFirst, GiftLockSecond, GiftDebit, GiftCredit, IapInsert,
        IapApply, RefundLock, RefundLockUser, RefundApply, AdCheck, AdInsert,
        WithdrawSetNull, storeVars
  <1>5. ASSUME Commit(q), NEW u \in Users, userLock[u] # q
        PROVE  credits'[u] = credits[u] /\ ledger'[u] = ledger[u]
    BY <1>0, <1>5 DEF Commit
  <1>6. CASE PurchaseCommit(q)
    <2>1. userLock[sess[q].user] = q /\ sess[q].user \in Users
      BY <1>0, <1>6 DEF PurchaseCommit, At, Local, TxLocks, LocksUser
    <2> QED BY <1>0, <1>5, <1>6, <2>1
            DEF PurchaseCommit, SameUser, SamePurchase, storeVars
  <1>7. CASE GiftCommit(q)
    BY <1>5, <1>7 DEF GiftCommit, SameUser, SamePurchase, storeVars
  <1>8. CASE IapCommit(q) \/ RefundMark(q)
    <2>1. rcptLock[sess[q].item] = q /\ sess[q].item \in Receipts
      BY <1>0, <1>8
      DEF IapCommit, RefundMark, At, Local, TxLocks, LocksReceipt, Refunding
    <2> QED BY <1>0, <1>5, <1>8, <2>1
            DEF IapCommit, RefundMark, SameUser, SamePurchase
  <1>9. CASE AdCommit(q)
    <2>1. /\ userLock[sess[q].user] = q /\ sess[q].user = AdUser[sess[q].item]
          /\ sess[q].user \in Users
      BY <1>0, <1>9 DEF AdCommit, At, Local, TxLocks, LocksUser, TxKnows
    <2> QED BY <1>0, <1>5, <1>9, <2>1
            DEF AdCommit, SameUser, SamePurchase, storeVars
  <1>10. CASE ConsumePlay(q)
    <2>1. sess[q].item \in Receipts
      BY <1>0, <1>10 DEF ConsumePlay, At, Local
    <2>2. \A r \in Receipts : /\ purchases'[r].status = purchases[r].status
                              /\ purchases'[r].owner = purchases[r].owner
                              /\ purchases'[r].unrecovered
                                   = purchases[r].unrecovered
      <3> DEFINE x == sess[q].item
                 used == purchases[x].consumed \/ purchases[x].status # "absent"
      <3>1. \/ purchases' = purchases
            \/ purchases' = [purchases EXCEPT ![x] =
                               [purchases[x] EXCEPT !.consumed = used]]
        BY <1>0, <1>10, <2>1 DEF ConsumePlay, MarkConsumed
      <3> HIDE DEF used
      <3>2. \A r \in Receipts :
              \/ purchases'[r] = purchases[r]
              \/ purchases'[r] = [purchases[r] EXCEPT !.consumed = used]
        BY <1>0, <2>1, <3>1
      <3>3. \A r \in Receipts : purchases[r] \in Purchase
        BY <1>0
      <3> QED BY <3>2, <3>3 DEF Purchase
    <2> QED BY <1>10, <2>2
            DEF ConsumePlay, SameUser, SamePurchase, userVars, storeVars
  <1>11. CASE WithdrawCommit(q)
    <2>1. userLock[sess[q].user] = q /\ sess[q].user \in Users
      BY <1>0, <1>11 DEF WithdrawCommit, At, Local, TxLocks, LocksUser
    <2>2. \A r \in PurchasesOf(sess[q].user) : rcptLock[r] = q
      BY <1>11 DEF WithdrawCommit
    <2> QED BY <1>0, <1>11, <2>1, <2>2
            DEF WithdrawCommit, SameUser, SamePurchase, storeVars
  <1> QED BY <1>2, <1>3, <1>4, <1>6, <1>7, <1>8, <1>9, <1>10, <1>11
          DEF Step, Continue, Ends

(* The other transactions go on as they were. *)
LEMMA OthersKeepTx ==
  ASSUME IInv, TxInv, NEW q \in Sessions, Step(q), NEW p \in Sessions \ {q}
  PROVE  TxRows(p)' /\ TxLocks(p)'
  <1>1. /\ TxRows(p) /\ TxLocks(p) /\ TxKnows(p) /\ Local(sess[p]) /\ Kept(p)
    BY TxOf, OthersKeepLocks
  <1>2. \A r \in Receipts : rcptLock[r] # q => SamePurchase(r)
    BY TablesMove
  <1>3. TxRows(p)'
    BY <1>1 DEF Kept, TxRows, At, WroteOnly, Wrote
  <1>4. sess'[p] = sess[p]
    BY <1>1 DEF Kept
  <1>5. \A u \in Users : userLock'[u] = p <=> LocksUser(p, u)'
    BY <1>1, <1>4 DEF Kept, TxLocks, LocksUser, At, First, InIdOrder
  <1>6. \A r \in Receipts : rcptLock[r] = p => SamePurchase(r)
    BY <1>2
  <1>7. ASSUME NEW r \in Receipts
        PROVE  IF At(p, "withdraw")'
               THEN rcptLock'[r] = p => purchases'[r].owner = sess'[p].user
               ELSE rcptLock'[r] = p <=> LocksReceipt(p, r)'
    BY <1>1, <1>4, <1>6 DEF Kept, TxLocks, LocksReceipt, At, SamePurchase
  <1> QED BY <1>3, <1>5, <1>7 DEF TxLocks

(* While a purchase of u is inserted and not yet paid, its KEY SHARE keeps *)
(* away whoever would lock u for more than an update of the credits.       *)
LEMMA KeyShareKeeps ==
  ASSUME IInv, TxInv, NEW q \in Sessions, Step(q), NEW p \in Sessions \ {q},
         At(p, "iap-apply")
  PROVE  UpdatesOnly(p)'
  <1> DEFINE u == sess[p].user
  <1>1. /\ u \in Users /\ status[u] = "active"
        /\ userLock[u] # None => OnlyUpdates(userLock[u])
        /\ Kept(p) /\ None \notin Sessions
        /\ userLock \in [Users -> Sessions \cup {None}]
    BY TxOf, OthersKeepLocks, UsersAssumption
    DEF At, TxKnows, UpdatesOnly, Local, IInv, TypeOK
  <1>2. /\ TxLocks(q) /\ Local(sess[q]) /\ sess \in [Sessions -> Session]
    BY TxOf DEF IInv, TypeOK
  <1>3. status'[u] = "active"
    <2>1. CASE userLock[u] # q
      BY <1>1, <2>1, TablesMove DEF SameUser
    <2>2. CASE userLock[u] = q
      <3>1. ~At(q, "withdraw")
        BY <1>1, <2>2 DEF OnlyUpdates, At
      <3>2. status' = status
        BY <3>1
        DEF Step, Begin, PurchaseApply, GiftCheck, IapVerify, RetryPlayConsume,
            RefundNotified, AdLock, WithdrawDelete, Continue, PurchaseCommit,
            GiftLockFirst, GiftLockSecond, GiftDebit, GiftCredit, GiftCommit,
            IapInsert, IapApply, IapCommit, ConsumePlay, RefundLock,
            RefundLockUser, RefundApply, RefundMark, AdCheck, AdInsert,
            AdCommit, WithdrawSetNull, WithdrawCommit, Fail, Crash,
            DeadlockVictim, Rollback, userVars
      <3> QED BY <1>1, <3>2
    <2> QED BY <2>1, <2>2
  <1>4. ASSUME userLock'[u] = q PROVE OnlyUpdates(q)'
    <2>1. CASE userLock[u] = q
      <3>1. sess[q].pc \in {"bought", "iap-commit"}
        BY <1>1, <2>1 DEF OnlyUpdates
      <3>2. Release(q)
        BY <3>1
        DEF Step, Begin, PurchaseApply, GiftCheck, IapVerify, RetryPlayConsume,
            RefundNotified, AdLock, WithdrawDelete, Start, Continue,
            PurchaseCommit, GiftLockFirst, GiftLockSecond, GiftDebit,
            GiftCredit, GiftCommit, IapInsert, IapApply, IapCommit, ConsumePlay,
            RefundLock, RefundLockUser, RefundApply, RefundMark, AdCheck,
            AdInsert, AdCommit, WithdrawSetNull, WithdrawCommit, Commit, Fail,
            Crash, DeadlockVictim, Rollback, At
      <3> QED BY <1>1, <1>4, <3>2 DEF Release
    <2>2. CASE userLock[u] # q
      <3>1. ~(\E v \in Users : LockUser(q, v) /\ v = u)
        BY <1>1 DEF LockUser, KeyShare
      <3>2. \A v \in Users : LockUser(q, v) => userLock'[u] = userLock[u]
        BY <1>1, <3>1 DEF LockUser
      <3>3. \A v \in Users : LocksUser(q, v) => v # u
        BY <1>2, <2>2 DEF TxLocks
      <3>4. CASE \E w \in Users, g \in Products, k \in Keys :
                   PurchaseApply(q, w, g, k)
        <4>1. sess'[q].pc = "bought"
          BY <1>2, <3>4 DEF PurchaseApply, Start, Task
        <4> QED BY <4>1 DEF OnlyUpdates
      <3>5. CASE IapApply(q)
        <4>1. sess'[q].pc = "iap-commit"
          BY <1>2, <3>5 DEF IapApply, Goto, Session
        <4> QED BY <4>1 DEF OnlyUpdates
      <3>6. CASE GiftDebit(q) \/ GiftCredit(q) \/ RefundApply(q) \/ AdInsert(q)
        <4>1. PICK v \in Users : LocksUser(q, v)
                                 /\ userLock' = [userLock EXCEPT ![v] = q]
          BY <1>2, <3>6
          DEF GiftDebit, GiftCredit, RefundApply, AdInsert, Apply, LocksUser,
              At, Local
        <4> QED BY <1>1, <1>4, <2>2, <3>3, <4>1
      <3>7. CASE userLock' = userLock \/ Release(q)
        BY <1>1, <1>4, <2>2, <3>7 DEF Release
      <3>8. CASE \E v \in Users : LockUser(q, v)
        BY <1>4, <2>2, <3>2, <3>8
      <3>9. Begin(q) => \/ userLock' = userLock
                        \/ \E v \in Users : LockUser(q, v)
                        \/ \E w \in Users, g \in Products, k \in Keys :
                             PurchaseApply(q, w, g, k)
        BY PricesAssumption
        DEF Begin, GiftCheck, IapVerify, RetryPlayConsume, RefundNotified,
            AdLock, WithdrawDelete, lockVars
      <3>10. Continue(q) => \/ userLock' = userLock \/ Release(q)
                            \/ \E v \in Users : LockUser(q, v)
                            \/ IapApply(q)
                            \/ GiftDebit(q) \/ GiftCredit(q) \/ RefundApply(q)
                            \/ AdInsert(q)
        <4>1. /\ GiftLockFirst(q) \/ GiftLockSecond(q) =>
                   First(q) \in Users /\ Second(q) \in Users
              /\ RefundLockUser(q) => sess[q].user \in Users
          BY <1>2, LocalsOf
          DEF GiftLockFirst, GiftLockSecond, RefundLockUser, At, Local
        <4> QED BY <4>1
                DEF Continue, PurchaseCommit, GiftLockFirst, GiftLockSecond,
                    GiftCommit, IapInsert, IapCommit, ConsumePlay, RefundLock,
                    RefundLockUser, RefundMark, AdCheck, AdCommit,
                    WithdrawSetNull, WithdrawCommit, Commit, Fail, Rollback,
                    lockVars
      <3>11. Crash(q) \/ DeadlockVictim(q) => Release(q)
        BY DEF Crash, DeadlockVictim, Rollback
      <3> QED BY <3>4, <3>5, <3>6, <3>7, <3>8, <3>9, <3>10, <3>11 DEF Step
    <2> QED BY <2>1, <2>2
  <1>5. ASSUME userLock'[u] # None, userLock'[u] # q
        PROVE  sess'[userLock'[u]].pc \in {"bought", "iap-commit"}
    <2>1. userLock' \in [Users -> Sessions \cup {None}]
      <3>1. IInv'
        BY NextOK DEF Step, Next
      <3> QED BY <3>1 DEF IInv, TypeOK
    <2>2. PICK h \in Sessions \ {q} : userLock'[u] = h
      BY <1>1, <1>5, <2>1
    <2>3. userLock[u] = h /\ sess'[h] = sess[h]
      BY <1>1, <2>2, OthersKeepLocks DEF Kept
    <2> QED BY <1>1, <2>2, <2>3 DEF OnlyUpdates
  <1>6. sess'[p] = sess[p]
    BY <1>1 DEF Kept
  <1> QED BY <1>3, <1>4, <1>5, <1>6 DEF UpdatesOnly, OnlyUpdates

LEMMA OthersKnow ==
  ASSUME IInv, TxInv, NEW q \in Sessions, Step(q), NEW p \in Sessions \ {q}
  PROVE  TxKnows(p)'
  <1> DEFINE s == sess[p]
             u == s.user
             r == s.item
  <1>1. /\ TxKnows(p) /\ TxLocks(p) /\ Local(s) /\ Kept(p) /\ sess'[p] = s
    BY TxOf, OthersKeepLocks DEF Kept
  <1>2. /\ day' = day
        /\ \A v \in Users : userLock[v] = p => SameUser(v)
        /\ \A x \in Receipts : rcptLock[x] = p => SamePurchase(x)
    BY TablesMove
  <1>3. At(p, "iap-apply") => UpdatesOnly(p)'
    BY KeyShareKeeps
  <1>4. s.pc \in {"iap-apply", "iap-commit"} \cup Refunding => SamePurchase(r)
    BY <1>1, <1>2 DEF TxLocks, LocksReceipt, Local, Refunding, At
  <1>5. s.pc \in {"refund-apply", "refund-mark"} /\ u # None => credits'[u] = credits[u]
    <2>1. s.pc \in {"refund-apply", "refund-mark"} /\ u # None => u \in Users
      BY TxOf DEF Session
    <2>2. s.pc \in {"refund-apply", "refund-mark"} /\ u # None => userLock[u] = p
      BY <1>1, <2>1 DEF TxLocks, LocksUser
    <2> QED BY <1>2, <2>1, <2>2 DEF SameUser
  <1>6. s.pc \in {"ad-check", "ad-insert", "ad-commit", "withdraw"} =>
          u \in Users /\ SameUser(u)
    BY <1>1, <1>2 DEF TxLocks, LocksUser, Local
  <1>7. s.pc \in {"ad-insert", "ad-commit"} =>
          /\ adDate'[r] = adDate[r]
          /\ \A d : AdRewardsOn(u, d)' = AdRewardsOn(u, d)
    BY <1>1, <1>6 DEF SameUser, TxKnows, Local, AdRewardsOn
  <1>8. s.pc = "ad-insert" => AdRewardsOn(u, day)' = AdRewardsOn(u, day)
    BY <1>2, <1>7
  <1>9. s.pc = "ad-commit" => AdRewardsOn(u, s.day)' = AdRewardsOn(u, s.day)
    BY <1>1, <1>7
  <1> QED BY <1>1, <1>2, <1>3, <1>4, <1>5, <1>6, <1>7, <1>8, <1>9
          DEF TxKnows, At, SamePurchase, SameUser, Refunding, Gifting

-----------------------------------------------------------------------------
(* What the transaction that moves has written, locked and read.           *)

Tx(p) == TxRows(p) /\ TxLocks(p) /\ TxKnows(p)

LockTypes ==
  /\ userLock \in [Users -> Sessions \cup {None}]
  /\ rcptLock \in [Receipts -> Sessions \cup {None}]
  /\ rows \in [Sessions -> [Users -> Row \cup {NoRow}]]
  /\ sess \in [Sessions -> Session]
  /\ None \notin Sessions \cup Users

Becomes(p, pc) ==
  /\ sess'[p].pc = pc
  /\ sess'[p].user = sess[p].user /\ sess'[p].peer = sess[p].peer
  /\ sess'[p].key = sess[p].key /\ sess'[p].amount = sess[p].amount
  /\ sess'[p].item = sess[p].item /\ sess'[p].day = sess[p].day

LEMMA NowTx ==
  ASSUME IInv, TxInv, NEW p \in Sessions
  PROVE  Tx(p) /\ LockTypes /\ Local(sess[p])
  BY TxOf, UsersAssumption DEF IInv, TypeOK, Tx, LockTypes

LEMMA GotoBecomes ==
  ASSUME LockTypes, NEW p \in Sessions, NEW pc, Goto(p, pc)
  PROVE  Becomes(p, pc)
  BY DEF LockTypes, Goto, Becomes, Session

LEMMA EndTx ==
  ASSUME IInv, NEW q \in Sessions, Release(q),
         sess'[q].pc \in {"idle", "consume"}
  PROVE  Tx(q)'
  <1>1. rows'[q] = NoRows
    BY ReleaseEffect DEF IInv
  <1>2. /\ \A u \in Users : userLock'[u] # q
        /\ \A r \in Receipts : rcptLock'[r] # q
    BY UsersAssumption DEF Release, IInv, TypeOK
  <1>3. TxRows(q)'
    BY <1>1 DEF TxRows, At, Writing, WroteOnly, NoRows
  <1>4. TxLocks(q)'
    BY <1>2 DEF TxLocks, At, LocksUser, LocksReceipt, Refunding
  <1>5. TxKnows(q)'
    BY DEF TxKnows, At, Gifting, Refunding
  <1> QED BY <1>3, <1>4, <1>5 DEF Tx

(* One that has written nothing and goes on without writing.               *)
LEMMA StillNothing ==
  ASSUME NEW q \in Sessions, TxRows(q), sess[q].pc \notin Writing, rows' = rows,
         \/ sess'[q].pc \notin Writing
         \/ At(q, "refund-mark")' /\ sess'[q].amount = 0
  PROVE  TxRows(q)'
  BY DEF TxRows, At, Writing, WroteOnly

(* One that applies, to u and for the first time.                          *)
Writes(q, u, delta, key) ==
  /\ rows'[q][u] # NoRow /\ rows'[q][u].delta = delta /\ rows'[q][u].key = key
  /\ \A v \in Users \ {u} : rows'[q][v] = NoRow

LEMMA AppliesFirst ==
  ASSUME LockTypes, NEW q \in Sessions, NEW u \in Users, NEW delta \in Int,
         NEW kind \in Kinds, NEW key, NEW ref,
         Apply(q, u, delta, kind, key, ref), TxRows(q), sess[q].pc \notin Writing
  PROVE  /\ Writes(q, u, delta, key)
         /\ userLock' = [userLock EXCEPT ![u] = q]
         /\ \A v \in Users : userLock'[v] = q <=> v = u \/ userLock[v] = q
         /\ Accepts(u, delta, key)
  <1> DEFINE row == [delta |-> delta, balanceAfter |-> credits[u] + delta,
                     kind |-> kind, key |-> key, ref |-> ref]
  <1>1. /\ rows' = [rows EXCEPT ![q][u] = row]
        /\ userLock' = [userLock EXCEPT ![u] = q] /\ Accepts(u, delta, key)
    BY DEF Apply
  <1>2. WroteOnly(q, {})
    BY DEF TxRows
  <1>3. \A v \in Users : rows'[q][v] = IF v = u THEN row ELSE NoRow
    BY <1>1, <1>2 DEF WroteOnly, LockTypes
  <1>4. row # NoRow /\ row.delta = delta /\ row.key = key
    <2>1. row.kind # NoRow.kind
      BY DEF NoRow, Kinds
    <2> QED BY <2>1
  <1> QED BY <1>1, <1>3, <1>4 DEF Writes, LockTypes

LEMMA BeginTx ==
  ASSUME IInv, TxInv, NEW q \in Sessions, Begin(q)
  PROVE  Tx(q)'
  <1>1. Tx(q) /\ LockTypes /\ At(q, "idle")
    BY NowTx DEF Begin, PurchaseApply, GiftCheck, IapVerify, RetryPlayConsume,
                 RefundNotified, AdLock, WithdrawDelete, Start
  <1>2. /\ sess[q].pc \notin Writing
        /\ \A u \in Users : userLock[u] # q
        /\ \A r \in Receipts : rcptLock[r] # q
    BY <1>1 DEF Tx, TxLocks, LocksUser, LocksReceipt, At, Writing, Refunding
  <1>3. ASSUME NEW u \in Users, NEW g \in Products, NEW k \in Keys,
               PurchaseApply(q, u, g, k)
        PROVE  Tx(q)'
    <2> DEFINE kind == IF Slots[g] = 0 THEN "tape_purchase"
                                       ELSE "drawer_expand"
    <2>1. /\ sess'[q] = Task("bought", u, None, ClientKey(k), 0, g)
          /\ Apply(q, u, 0 - Price[g], kind, ClientKey(k), g)
          /\ UNCHANGED rcptLock
      BY <1>1, <1>3 DEF PurchaseApply, Start, LockTypes
    <2>2. kind \in Kinds /\ 0 - Price[g] \in Int
      BY PricesAssumption DEF Kinds
    <2> HIDE DEF kind
    <2>3. /\ Writes(q, u, 0 - Price[g], ClientKey(k))
          /\ \A v \in Users : userLock'[v] = q <=> v = u
      <3> DEFINE d == 0 - Price[g]
      <3>1. LockTypes /\ TxRows(q) /\ d \in Int /\ kind \in Kinds
            /\ Apply(q, u, d, kind, ClientKey(k), g) /\ sess[q].pc \notin Writing
        BY <1>1, <1>2, <2>1, <2>2 DEF Tx
      <3> HIDE DEF d
      <3>2. /\ Writes(q, u, d, ClientKey(k))
            /\ \A v \in Users : userLock'[v] = q <=> v = u \/ userLock[v] = q
        BY <3>1, AppliesFirst
      <3> QED BY <1>2, <3>2 DEF d
    <2>4. /\ sess'[q].pc = "bought" /\ sess'[q].user = u
          /\ sess'[q].key = ClientKey(k) /\ sess'[q].item = g
      BY <2>1 DEF Task
    <2>5. TxRows(q)'
      BY <2>3, <2>4 DEF TxRows, At, Writing, Writes, Wrote, WroteOnly
    <2>6. TxLocks(q)'
      BY <1>2, <2>1, <2>3, <2>4
      DEF TxLocks, LocksUser, LocksReceipt, Refunding, At
    <2>7. TxKnows(q)'
      BY <2>4 DEF TxKnows, At, Gifting, Refunding
    <2> QED BY <2>5, <2>6, <2>7 DEF Tx
  <1>4. ASSUME NEW pc, NEW u, NEW v, NEW k, NEW n, NEW r,
               sess'[q] = Task(pc, u, v, k, n, r), UNCHANGED lockVars,
               pc \in {"gift-first", "iap-insert", "consume", "refund-lock"},
               pc = "gift-first" => /\ u # v /\ n \in GiftAmounts
                                    /\ \E key \in Keys : k = ClientKey(key),
               pc = "refund-lock" => n = 0
        PROVE  Tx(q)'
    <2>1. /\ sess'[q].pc = pc /\ sess'[q].user = u /\ sess'[q].peer = v
          /\ sess'[q].key = k /\ sess'[q].amount = n
      BY <1>4 DEF Task
    <2>2. TxRows(q)'
      BY <1>1, <1>2, <1>4, <2>1, StillNothing DEF Tx, Writing, lockVars
    <2>3. TxLocks(q)'
      BY <1>2, <1>4, <2>1
      DEF lockVars, TxLocks, LocksUser, LocksReceipt, Refunding, At
    <2>4. TxKnows(q)'
      BY <1>4, <2>1 DEF TxKnows, At, Gifting, Refunding
    <2> QED BY <2>2, <2>3, <2>4 DEF Tx
  <1>5. ASSUME NEW a \in Users, NEW b \in Users, NEW n \in GiftAmounts,
               NEW k \in Keys, GiftCheck(q, a, b, n, k)
        PROVE  Tx(q)'
    <2>1. /\ sess'[q] = Task("gift-first", a, b, ClientKey(k), n, None)
          /\ UNCHANGED lockVars /\ a # b
      BY <1>1, <1>5 DEF GiftCheck, Start, LockTypes
    <2> QED BY <1>4, <2>1
  <1>6. ASSUME NEW u \in Users, NEW r \in Receipts,
               \/ IapVerify(q, u, r) \/ RetryPlayConsume(q, r)
               \/ RefundNotified(q, r)
        PROVE  Tx(q)'
    <2>1. /\ \/ sess'[q] = Task("iap-insert", u, None, NoKey, 0, r)
             \/ sess'[q] = Task("consume", None, None, NoKey, 0, r)
             \/ sess'[q] = Task("refund-lock", None, None, NoKey, 0, r)
          /\ UNCHANGED lockVars
      BY <1>1, <1>6
      DEF IapVerify, RetryPlayConsume, RefundNotified, Start, LockTypes
    <2> QED BY <1>4, <2>1
  <1>7. ASSUME NEW r \in Receipts, RetryPlayConsume(q, r) \/ RefundNotified(q, r)
        PROVE  Tx(q)'
    <2>1. /\ \/ sess'[q] = Task("consume", None, None, NoKey, 0, r)
             \/ sess'[q] = Task("refund-lock", None, None, NoKey, 0, r)
          /\ UNCHANGED lockVars
      BY <1>1, <1>7 DEF RetryPlayConsume, RefundNotified, Start, LockTypes
    <2> QED BY <1>4, <2>1
  <1>8. ASSUME NEW u \in Users, NEW pc, NEW x,
               sess'[q] = Task(pc, u, None, NoKey, 0, x), LockUser(q, u),
               UNCHANGED <<rcptLock, rows, status>>,
               \/ pc = "withdraw" /\ status[u] = "active"
               \/ pc = "ad-check" /\ u = AdUser[x]
        PROVE  Tx(q)'
    <2>1. sess'[q].pc = pc /\ sess'[q].user = u /\ sess'[q].item = x
      BY <1>8 DEF Task
    <2>2. \A v \in Users : userLock'[v] = q <=> v = u
      BY <1>1, <1>2, <1>8 DEF LockUser, LockTypes
    <2>3. TxRows(q)'
      BY <1>1, <1>2, <1>8, <2>1, StillNothing DEF Tx, Writing
    <2>4. TxLocks(q)'
      BY <1>2, <1>8, <2>1, <2>2
      DEF TxLocks, LocksUser, LocksReceipt, Refunding, At
    <2>5. TxKnows(q)'
      BY <1>8, <2>1 DEF TxKnows, At, Gifting, Refunding
    <2> QED BY <2>3, <2>4, <2>5 DEF Tx
  <1>9. ASSUME NEW t \in AdCallbacks, AdLock(q, t) PROVE Tx(q)'
    <2>1. AdUser[t] \in Users
      BY PricesAssumption
    <2>2. /\ sess'[q] = Task("ad-check", AdUser[t], None, NoKey, 0, t)
          /\ LockUser(q, AdUser[t]) /\ UNCHANGED <<rcptLock, rows, status>>
      BY <1>1, <1>9 DEF AdLock, Start, LockTypes, userVars
    <2> QED BY <1>8, <2>1, <2>2
  <1>10. ASSUME NEW u \in Users, WithdrawDelete(q, u) PROVE Tx(q)'
    <2>1. /\ sess'[q] = Task("withdraw", u, None, NoKey, 0, None)
          /\ LockUser(q, u) /\ UNCHANGED <<rcptLock, rows, status>>
          /\ status[u] = "active"
      BY <1>1, <1>10 DEF WithdrawDelete, Start, LockTypes, userVars
    <2> QED BY <1>8, <2>1
  <1> QED BY <1>3, <1>5, <1>6, <1>7, <1>9, <1>10 DEF Begin

LEMMA GiftTx ==
  ASSUME IInv, TxInv, NEW q \in Sessions,
         \/ GiftLockFirst(q) \/ GiftLockSecond(q)
         \/ GiftDebit(q) \/ GiftCredit(q)
  PROVE  Tx(q)'
  <1> DEFINE a == sess[q].user
             b == sess[q].peer
  <1>1. /\ Tx(q) /\ LockTypes /\ a \in Users /\ b \in Users /\ a # b
        /\ \E k \in Keys : sess[q].key = ClientKey(k)
        /\ sess[q].amount \in GiftAmounts /\ sess[q].amount \in Nat
    BY NowTx DEF GiftLockFirst, GiftLockSecond, GiftDebit, GiftCredit, At, Local,
                 Tx, TxKnows, Gifting, LockTypes, Session
  <1>2. UNCHANGED <<rcptLock, purchases>>
    BY DEF GiftLockFirst, GiftLockSecond, GiftDebit, GiftCredit
  <1>3. /\ {First(q), Second(q)} = {a, b}
    BY <1>1, UsersAssumption DEF First, Second, InIdOrder
  <1>4. ASSUME NEW pc \in {"gift-second", "gift-debit", "gift-credit",
                           "gift-commit"}, Becomes(q, pc)
        PROVE  TxKnows(q)'
    BY <1>1, <1>4 DEF TxKnows, At, Gifting, Refunding, Becomes
  <1>5. ASSUME NEW pc \in {"gift-second", "gift-debit", "gift-credit",
                           "gift-commit"}, Becomes(q, pc),
               \A u \in Users : userLock'[u] = q <=>
                 IF pc = "gift-second" THEN u = First(q) ELSE u \in {a, b},
               sess[q].pc \in Gifting
        PROVE  TxLocks(q)'
    <2>1. First(q)' = First(q)
      BY <1>5 DEF Becomes, First, InIdOrder
    <2> QED BY <1>1, <1>2, <1>5, <2>1
            DEF Tx, TxLocks, LocksUser, LocksReceipt, Refunding, At, Becomes,
                Gifting
  <1>6. CASE GiftLockFirst(q) \/ GiftLockSecond(q)
    <2> DEFINE pc == IF GiftLockFirst(q) THEN "gift-second" ELSE "gift-debit"
               u == IF GiftLockFirst(q) THEN First(q) ELSE Second(q)
    <2>1. /\ Goto(q, pc) /\ LockUser(q, u) /\ UNCHANGED rows
          /\ sess[q].pc = IF GiftLockFirst(q) THEN "gift-first"
                                              ELSE "gift-second"
      BY <1>6 DEF GiftLockFirst, GiftLockSecond, At
    <2>2. Becomes(q, pc) /\ u \in Users
      BY <1>1, <1>3, <2>1, GotoBecomes
    <2>3. \A v \in Users : userLock'[v] = q <=> v = u \/ userLock[v] = q
      BY <1>1, <2>1, <2>2 DEF LockUser, LockTypes
    <2>4. \A v \in Users : userLock[v] = q <=>
            ~GiftLockFirst(q) /\ v = First(q)
      BY <1>1, <2>1 DEF Tx, TxLocks, LocksUser, At
    <2>5. TxLocks(q)'
      BY <1>3, <1>5, <1>6, <2>1, <2>2, <2>3, <2>4 DEF Gifting
    <2>6. TxRows(q)'
      BY <1>1, <2>1, <2>2, StillNothing DEF Tx, Writing, Becomes
    <2> QED BY <1>4, <2>2, <2>5, <2>6 DEF Tx
  <1>7. CASE GiftDebit(q)
    <2>1. /\ Becomes(q, "gift-credit") /\ At(q, "gift-debit")
          /\ Apply(q, a, 0 - sess[q].amount, "gift_sent", sess[q].key, b)
      BY <1>1, <1>7, GotoBecomes DEF GiftDebit
    <2>2. "gift_sent" \in Kinds /\ 0 - sess[q].amount \in Int
      BY <1>1 DEF Kinds
    <2>3. /\ Writes(q, a, 0 - sess[q].amount, sess[q].key)
          /\ \A v \in Users : userLock'[v] = q <=> v = a \/ userLock[v] = q
      <3> DEFINE d == 0 - sess[q].amount
      <3>1. /\ LockTypes /\ TxRows(q) /\ d \in Int /\ "gift_sent" \in Kinds
            /\ Apply(q, a, d, "gift_sent", sess[q].key, b) /\ a \in Users
            /\ sess[q].pc \notin Writing
        BY <1>1, <2>1, <2>2 DEF Tx, At, Writing
      <3> HIDE DEF d
      <3>2. /\ Writes(q, a, d, sess[q].key)
            /\ \A v \in Users : userLock'[v] = q <=> v = a \/ userLock[v] = q
        BY <3>1, AppliesFirst
      <3> QED BY <3>2 DEF d
    <2>4. \A v \in Users : userLock'[v] = q <=> v \in {a, b}
      BY <1>1, <2>1, <2>3 DEF Tx, TxLocks, LocksUser, At
    <2>5. TxRows(q)'
      BY <2>1, <2>3 DEF TxRows, At, Writing, Becomes, Writes, Wrote, WroteOnly
    <2> QED BY <1>4, <1>5, <2>1, <2>4, <2>5 DEF Tx, At, Gifting
  <1>8. CASE GiftCredit(q)
    <2>1. /\ Becomes(q, "gift-commit") /\ At(q, "gift-credit")
          /\ Apply(q, b, sess[q].amount, "gift_received", sess[q].key, a)
      BY <1>1, <1>8, GotoBecomes DEF GiftCredit
    <2> DEFINE row == [delta |-> sess[q].amount,
                       balanceAfter |-> credits[b] + sess[q].amount,
                       kind |-> "gift_received", key |-> sess[q].key,
                       ref |-> a]
    <2>2. rows' = [rows EXCEPT ![q][b] = row]
          /\ userLock' = [userLock EXCEPT ![b] = q]
      BY <2>1 DEF Apply
    <2>3. row # NoRow /\ row.delta = sess[q].amount /\ row.key = sess[q].key
      <3>1. row.kind # NoRow.kind
        BY DEF NoRow
      <3> QED BY <3>1
    <2> HIDE DEF row
    <2>4. \A v \in Users : rows'[q][v] = IF v = b THEN row ELSE rows[q][v]
      BY <1>1, <2>2 DEF LockTypes
    <2>5. TxRows(q)'
      BY <1>1, <2>1, <2>3, <2>4
      DEF Tx, TxRows, At, Writing, Becomes, Wrote, WroteOnly
    <2>6. \A v \in Users : userLock'[v] = q <=> v \in {a, b}
      BY <1>1, <2>1, <2>2 DEF Tx, TxLocks, LocksUser, At, LockTypes
    <2> QED BY <1>4, <1>5, <2>1, <2>5, <2>6 DEF Tx, At, Gifting
  <1> QED BY <1>6, <1>7, <1>8

LEMMA IapTx ==
  ASSUME IInv, TxInv, NEW q \in Sessions, IapInsert(q) \/ IapApply(q)
  PROVE  Tx(q)'
  <1> DEFINE u == sess[q].user
             r == sess[q].item
  <1>1. /\ Tx(q) /\ LockTypes /\ u \in Users /\ r \in Receipts
        /\ At(q, "iap-insert") \/ At(q, "iap-apply")
        /\ ~At(q, "withdraw")
    BY NowTx DEF IapInsert, IapApply, At, Local
  <1>2. CASE IapInsert(q)
    <2>1. /\ At(q, "iap-insert") /\ UNCHANGED <<rows, userLock, purchases, status>>
          /\ \A v \in Users : userLock[v] # q
          /\ \A x \in Receipts : rcptLock[x] # q
      BY <1>1, <1>2
      DEF IapInsert, Tx, TxLocks, LocksUser, LocksReceipt, Refunding, At, userVars
    <2>2. CASE /\ purchases[r].status = "absent" /\ rcptLock[r] = None
               /\ status[u] = "active"
               /\ userLock[u] # None => OnlyUpdates(userLock[u])
               /\ rcptLock' = [rcptLock EXCEPT ![r] = q]
               /\ Goto(q, "iap-apply")
      <3>1. Becomes(q, "iap-apply")
        BY <1>1, <2>2, GotoBecomes
      <3>2. TxRows(q)'
        BY <1>1, <2>1, <3>1, StillNothing DEF Tx, Writing, Becomes, At
      <3>3. \A x \in Receipts : rcptLock'[x] = q <=> x = r
        BY <1>1, <2>1, <2>2 DEF LockTypes
      <3>4. TxLocks(q)'
        BY <2>1, <3>1, <3>3
        DEF TxLocks, LocksUser, LocksReceipt, Refunding, At, Becomes
      <3>5. userLock[u] # None => userLock[u] \in Sessions \ {q}
        BY <1>1, <2>1 DEF LockTypes
      <3>6. \A h \in Sessions \ {q} : sess'[h] = sess[h]
        BY <1>1, <2>2 DEF Goto, LockTypes
      <3>7. UpdatesOnly(q)'
        BY <2>1, <2>2, <3>1, <3>5, <3>6 DEF UpdatesOnly, OnlyUpdates, Becomes
      <3>8. TxKnows(q)'
        BY <2>1, <2>2, <3>1, <3>7 DEF TxKnows, At, Gifting, Refunding, Becomes
      <3> QED BY <3>2, <3>4, <3>8 DEF Tx
    <2>3. CASE /\ sess' = [sess EXCEPT ![q] =
                    IF purchases[r].owner = u /\ r \in PlayReceipts
                    THEN [@ EXCEPT !.pc = "consume"] ELSE Idle]
               /\ UNCHANGED rcptLock
      <3>1. sess'[q].pc \in {"consume", "idle"}
        BY <1>1, <2>3 DEF LockTypes, Session, Idle, Task
      <3>2. TxRows(q)'
        BY <1>1, <2>1, <3>1, StillNothing DEF Tx, Writing, At
      <3> QED BY <2>1, <2>3, <3>1, <3>2
              DEF Tx, TxLocks, TxKnows, LocksUser, LocksReceipt, Refunding,
                  Gifting, At
    <2> QED BY <1>2, <2>2, <2>3 DEF IapInsert
  <1>3. CASE IapApply(q)
    <2>1. /\ At(q, "iap-apply") /\ UNCHANGED <<rcptLock, purchases>>
          /\ Becomes(q, "iap-commit")
          /\ Apply(q, u, PackCredits[r], "iap", IapKey(r), r)
      BY <1>1, <1>3, GotoBecomes DEF IapApply
    <2>2. /\ sess[q].pc \notin Writing /\ PackCredits[r] \in Int
          /\ "iap" \in Kinds /\ TxRows(q) /\ TxLocks(q) /\ TxKnows(q)
      BY <1>1, <2>1, PricesAssumption DEF Writing, At, Kinds, Tx
    <2>3. /\ Writes(q, u, PackCredits[r], IapKey(r))
          /\ \A v \in Users : userLock'[v] = q <=> v = u \/ userLock[v] = q
      BY <1>1, <2>1, <2>2, AppliesFirst
    <2>4. TxRows(q)'
      BY <2>1, <2>3
      DEF TxRows, At, Writing, Becomes, Writes, Wrote, WroteOnly
    <2>5. TxLocks(q)'
      BY <2>1, <2>2, <2>3
      DEF TxLocks, LocksUser, LocksReceipt, Refunding, At, Becomes
    <2>6. TxKnows(q)'
      BY <2>1, <2>2 DEF TxKnows, At, Gifting, Refunding, Becomes
    <2> QED BY <2>4, <2>5, <2>6 DEF Tx
  <1> QED BY <1>2, <1>3

LEMMA RefundTx ==
  ASSUME IInv, TxInv, NEW q \in Sessions,
         RefundLock(q) \/ RefundLockUser(q) \/ RefundApply(q)
  PROVE  Tx(q)'
  <1> DEFINE u == sess[q].user
             r == sess[q].item
             s == sess[q]
  <1>1. /\ TxRows(q) /\ TxLocks(q) /\ TxKnows(q) /\ LockTypes
        /\ r \in Receipts /\ s \in Session
        /\ sess[q].pc \in {"refund-lock", "refund-user", "refund-apply"}
    BY NowTx DEF RefundLock, RefundLockUser, RefundApply, At, Local, Tx, LockTypes
  <1>2. sess[q].pc \notin Writing /\ UNCHANGED <<purchases, credits>>
    BY <1>1
    DEF Writing, RefundLock, RefundLockUser, RefundApply, userVars, At
  <1>3. CASE RefundLock(q)
    <2>1. /\ At(q, "refund-lock") /\ UNCHANGED <<rows, userLock>>
          /\ \A v \in Users : userLock[v] # q
          /\ \A x \in Receipts : rcptLock[x] # q
          /\ s.amount = 0
      BY <1>1, <1>3
      DEF RefundLock, TxLocks, TxKnows, LocksUser, LocksReceipt, Refunding, At
    <2>2. CASE sess' = [sess EXCEPT ![q] = Idle] /\ UNCHANGED rcptLock
      <3>1. sess'[q].pc = "idle"
        BY <1>1, <2>2 DEF LockTypes, Idle, Task
      <3>2. TxRows(q)'
        BY <1>1, <1>2, <2>1, <3>1, StillNothing DEF Writing
      <3> QED BY <2>1, <2>2, <3>1, <3>2
              DEF Tx, TxLocks, TxKnows, LocksUser, LocksReceipt, Refunding,
                  Gifting, At
    <2>3. CASE /\ purchases[r].status = "granted" /\ rcptLock[r] = None
               /\ rcptLock' = [rcptLock EXCEPT ![r] = q]
               /\ sess' = [sess EXCEPT
                     ![q].pc = IF purchases[r].owner = None
                               THEN "refund-mark" ELSE "refund-user",
                     ![q].user = purchases[r].owner]
      <3> DEFINE pc == IF purchases[r].owner = None THEN "refund-mark"
                                                    ELSE "refund-user"
      <3>1. /\ sess'[q].pc = pc /\ sess'[q].user = purchases[r].owner
            /\ sess'[q].item = r /\ sess'[q].amount = 0
        BY <1>1, <2>1, <2>3 DEF LockTypes, Session
      <3>2. TxRows(q)'
        BY <1>1, <1>2, <2>1, <3>1, StillNothing DEF Writing, At
      <3>3. \A x \in Receipts : rcptLock'[x] = q <=> x = r
        BY <1>1, <2>1, <2>3 DEF LockTypes
      <3>4. TxLocks(q)'
        BY <1>1, <2>1, <3>1, <3>3
        DEF TxLocks, LocksUser, LocksReceipt, Refunding, At, LockTypes
      <3>5. TxKnows(q)'
        BY <1>2, <2>3, <3>1 DEF TxKnows, At, Gifting, Refunding
      <3> QED BY <3>2, <3>4, <3>5 DEF Tx
    <2> QED BY <1>3, <2>2, <2>3 DEF RefundLock
  <1>4. CASE RefundLockUser(q)
    <2> DEFINE n == IF credits[u] < PackCredits[r] THEN credits[u]
                                                   ELSE PackCredits[r]
    <2>1. /\ At(q, "refund-user") /\ UNCHANGED <<rows, rcptLock>>
          /\ LockUser(q, u) /\ u \in Users /\ n \in Nat
          /\ sess' = [sess EXCEPT ![q].pc = IF n > 0 THEN "refund-apply"
                                                     ELSE "refund-mark",
                                  ![q].amount = n]
      BY <1>1, <1>4, LocalsOf, PricesAssumption
      DEF RefundLockUser, Local, At, IInv, TypeOK
    <2>2. /\ n = Lesser(credits[u], PackCredits[r]) /\ u # None
      BY <1>1, <2>1 DEF Lesser, LockTypes
    <2> HIDE DEF n
    <2>3. /\ sess'[q].pc = IF n > 0 THEN "refund-apply" ELSE "refund-mark"
          /\ sess'[q].amount = n /\ sess'[q].user = u /\ sess'[q].item = r
      BY <1>1, <2>1 DEF LockTypes, Session
    <2>4. TxRows(q)'
      <3>1. CASE n > 0
        <4>1. sess'[q].pc \notin Writing /\ rows' = rows
          BY <2>1, <2>3, <3>1 DEF Writing
        <4> QED BY <1>1, <1>2, <4>1, StillNothing
      <3>2. CASE n = 0
        <4>1. sess'[q].pc = "refund-mark" /\ sess'[q].amount = 0
          BY <2>3, <3>2
        <4>2. At(q, "refund-mark")' /\ sess'[q].amount = 0 /\ rows' = rows
          BY <2>1, <4>1 DEF At
        <4> QED BY <1>1, <1>2, <4>2, StillNothing
      <3> QED BY <2>1, <3>1, <3>2
    <2>5. \A v \in Users : userLock'[v] = q <=> v = u
      BY <1>1, <2>1 DEF LockTypes, LockUser, TxLocks, LocksUser, At
    <2>8. sess'[q].pc \in {"refund-apply", "refund-mark"}
      BY <2>3
    <2>6. TxLocks(q)'
      BY <1>1, <2>1, <2>3, <2>5, <2>8
      DEF TxLocks, LocksUser, LocksReceipt, Refunding, At
    <2>7. TxKnows(q)'
      BY <1>1, <1>2, <2>1, <2>2, <2>3
      DEF TxKnows, At, Gifting, Refunding
    <2> QED BY <2>4, <2>6, <2>7 DEF Tx
  <1>5. CASE RefundApply(q)
    <2> DEFINE d == 0 - s.amount
    <2>1. /\ At(q, "refund-apply") /\ UNCHANGED rcptLock
          /\ Becomes(q, "refund-mark") /\ u \in Users
          /\ Apply(q, u, d, "refund", RefundKey(r), r)
          /\ d \in Int /\ s.amount > 0 /\ "refund" \in Kinds
      BY <1>1, <1>5, GotoBecomes, LocalsOf
      DEF RefundApply, Local, At, Session, TxKnows, Kinds
    <2> HIDE DEF d
    <2>2. /\ Writes(q, u, d, RefundKey(r))
          /\ \A v \in Users : userLock'[v] = q <=> v = u \/ userLock[v] = q
      BY <1>1, <1>2, <2>1, AppliesFirst
    <2>3. TxRows(q)'
      BY <1>1, <2>1, <2>2
      DEF d, TxRows, At, Writing, Becomes, Writes, Wrote, WroteOnly, Session
    <2>4. TxLocks(q)'
      BY <1>1, <1>2, <2>1, <2>2
      DEF TxLocks, LocksUser, LocksReceipt, Refunding, At, Becomes
    <2>5. TxKnows(q)'
      BY <1>1, <1>2, <2>1 DEF TxKnows, At, Gifting, Refunding, Becomes
    <2> QED BY <2>3, <2>4, <2>5 DEF Tx
  <1> QED BY <1>3, <1>4, <1>5

LEMMA AdTx ==
  ASSUME IInv, TxInv, NEW q \in Sessions, AdCheck(q) \/ AdInsert(q)
  PROVE  Tx(q)'
  <1> DEFINE u == sess[q].user
             t == sess[q].item
             s == sess[q]
  <1>1. /\ TxRows(q) /\ TxLocks(q) /\ TxKnows(q) /\ LockTypes
        /\ u \in Users /\ t \in AdCallbacks /\ s \in Session /\ u = AdUser[t]
        /\ sess[q].pc \in {"ad-check", "ad-insert"}
    BY NowTx DEF AdCheck, AdInsert, At, Local, Tx, LockTypes, TxKnows
  <1>2. \/ sess[q].pc \notin Writing /\ UNCHANGED <<adDate, day, rcptLock>>
        \/ Release(q)
    BY <1>1 DEF Writing, AdCheck, AdInsert, lockVars, At
  <1>3. CASE AdCheck(q)
    <2>1. CASE Release(q) /\ sess' = [sess EXCEPT ![q] = Idle]
      <3>1. sess'[q].pc = "idle"
        BY <1>1, <2>1 DEF LockTypes, Idle, Task
      <3> QED BY <2>1, <3>1, EndTx
    <2>2. CASE /\ adDate[t] = NoDate
               /\ Cardinality(AdRewardsOn(u, day)) < AdDailyLimit
               /\ Goto(q, "ad-insert") /\ UNCHANGED lockVars
      <3>1. Becomes(q, "ad-insert") /\ At(q, "ad-check")
        BY <1>1, <1>3, <2>2, GotoBecomes DEF AdCheck
      <3>2. /\ UNCHANGED <<adDate, day, rcptLock, userLock, rows>>
            /\ sess[q].pc \notin Writing
        BY <1>1, <1>3, <2>2 DEF AdCheck, lockVars, Writing
      <3>3. TxRows(q)'
        BY <1>1, <3>1, <3>2, StillNothing DEF Writing, Becomes
      <3>4. TxLocks(q)'
        BY <1>1, <3>1, <3>2
        DEF TxLocks, LocksUser, LocksReceipt, Refunding, At, Becomes
      <3>5. AdRewardsOn(u, day)' = AdRewardsOn(u, day)
        BY <3>1, <3>2 DEF AdRewardsOn, Becomes
      <3>6. TxKnows(q)'
        BY <1>1, <2>2, <3>1, <3>2, <3>5
        DEF TxKnows, At, Gifting, Refunding, Becomes
      <3> QED BY <3>3, <3>4, <3>6 DEF Tx
    <2> QED BY <1>3, <2>1, <2>2 DEF AdCheck
  <1>4. CASE AdInsert(q)
    <2>1. /\ At(q, "ad-insert") /\ UNCHANGED <<rcptLock, adDate, day>>
          /\ sess' = [sess EXCEPT ![q].pc = "ad-commit", ![q].day = day]
          /\ Apply(q, u, AdReward, "ad_reward", AdKey(t), None)
          /\ AdReward \in Int /\ "ad_reward" \in Kinds
          /\ sess[q].pc \notin Writing /\ day \in Nat
      BY <1>1, <1>4, PricesAssumption
      DEF AdInsert, Kinds, Writing, At, IInv, TypeOK
    <2>2. /\ sess'[q].pc = "ad-commit" /\ sess'[q].user = u
          /\ sess'[q].item = t /\ sess'[q].day = day
      BY <1>1, <2>1 DEF LockTypes, Session
    <2>3. /\ Writes(q, u, AdReward, AdKey(t))
          /\ \A v \in Users : userLock'[v] = q <=> v = u \/ userLock[v] = q
      BY <1>1, <2>1, AppliesFirst
    <2>4. TxRows(q)'
      BY <2>2, <2>3 DEF TxRows, At, Writing, Writes, Wrote, WroteOnly
    <2>5. TxLocks(q)'
      BY <1>1, <2>1, <2>2, <2>3
      DEF TxLocks, LocksUser, LocksReceipt, Refunding, At
    <2>6. AdRewardsOn(sess[q].user, sess[q].day)' = AdRewardsOn(u, day)
      BY <2>1, <2>2 DEF AdRewardsOn
    <2>7. TxKnows(q)'
      BY <1>1, <2>1, <2>2, <2>6 DEF TxKnows, At, Gifting, Refunding
    <2> QED BY <2>4, <2>5, <2>7 DEF Tx
  <1> QED BY <1>3, <1>4

LEMMA WithdrawTx ==
  ASSUME IInv, TxInv, NEW q \in Sessions, NEW r \in Receipts,
         WithdrawSetNull(q, r)
  PROVE  Tx(q)'
  <1>1. /\ TxRows(q) /\ TxLocks(q) /\ TxKnows(q) /\ LockTypes
        /\ At(q, "withdraw") /\ r \in PurchasesOf(sess[q].user)
        /\ rcptLock' = [rcptLock EXCEPT ![r] = q]
        /\ UNCHANGED <<sess, rows, userLock, purchases, status>>
    BY NowTx DEF WithdrawSetNull, Tx, userVars
  <1>2. TxRows(q)'
    BY <1>1 DEF TxRows, At, WroteOnly, Wrote
  <1>3. TxLocks(q)'
    BY <1>1 DEF TxLocks, LocksUser, At, First, InIdOrder, PurchasesOf, LockTypes
  <1>4. TxKnows(q)'
    BY <1>1 DEF TxKnows, At, Gifting, Refunding
  <1> QED BY <1>2, <1>3, <1>4 DEF Tx

LEMMA StepTx ==
  ASSUME IInv, TxInv, NEW q \in Sessions, Step(q)
  PROVE  TxOK'
  <1>0. sess \in [Sessions -> Session]
    BY DEF IInv, TypeOK
  <1>1. ASSUME NEW p \in Sessions \ {q} PROVE Tx(p)'
    BY OthersKeepTx, OthersKnow DEF Tx
  <1>2. Tx(q)'
    <2>1. CASE Ends(q)
      <3>1. Release(q) /\ sess' = [sess EXCEPT ![q] = Idle]
        BY <2>1 DEF Ends, Fail, Crash, DeadlockVictim, Rollback
      <3>2. sess'[q].pc = "idle"
        BY <1>0, <3>1 DEF Idle, Task
      <3> QED BY <3>1, <3>2, EndTx
    <2>2. CASE Commits(q) \/ WithdrawCommit(q)
      <3>1. Release(q)
        BY <2>2 DEF Commits, PurchaseCommit, GiftCommit, IapCommit, RefundMark,
                    AdCommit, WithdrawCommit, Commit
      <3>2. sess'[q].pc \in {"idle", "consume"}
        BY <1>0, <2>2 DEF Commits, PurchaseCommit, GiftCommit, IapCommit,
           RefundMark, AdCommit, WithdrawCommit, Idle, Task, Session
      <3> QED BY <3>1, <3>2, EndTx
    <2>3. CASE ConsumePlay(q)
      <3>1. /\ sess' = [sess EXCEPT ![q] = Idle] /\ UNCHANGED lockVars
            /\ At(q, "consume") /\ Tx(q)
        BY <2>3, NowTx DEF ConsumePlay
      <3>2. sess'[q].pc = "idle"
        BY <1>0, <3>1 DEF Idle, Task
      <3>3. TxRows(q)'
        BY <3>1, <3>2, StillNothing DEF Tx, At, Writing, lockVars
      <3> QED BY <3>1, <3>2, <3>3
              DEF Tx, TxLocks, TxKnows, LocksUser, LocksReceipt, Refunding,
                  Gifting, At, lockVars
    <2> QED BY <2>1, <2>2, <2>3, BeginTx, GiftTx, IapTx, RefundTx, AdTx,
               WithdrawTx
            DEF Step, Continue, Ends, Commits
  <1> QED BY <1>1, <1>2 DEF TxOK, Tx

LEMMA RewardsOnFinite ==
  ASSUME TypeOK, AdDatesPast, NEW u \in Users, NEW d \in Nat
  PROVE  /\ IsFiniteSet(AdRewardsOn(u, d))
         /\ Cardinality(AdRewardsOn(u, d)) \in Nat
         /\ d > day => Cardinality(AdRewardsOn(u, d)) = 0
  <1>1. AdRewardsOn(u, d) \subseteq BookRewarded
    BY DEF AdRewardsOn, BookRewarded, NoDate
  <1>2. IsFiniteSet(AdRewardsOn(u, d))
    BY <1>1, FS_Subset DEF AdDatesPast
  <1>3. ASSUME d > day PROVE AdRewardsOn(u, d) = {}
    <2>1. \A t \in AdCallbacks : adDate[t] <= day /\ adDate[t] \in Int
      BY DEF AdDatesPast, TypeOK, NoDate
    <2>2. day \in Int
      BY DEF TypeOK
    <2> QED BY <1>3, <2>1, <2>2 DEF AdRewardsOn
  <1> QED BY <1>2, <1>3, FS_CardinalityType, FS_EmptySet

LEMMA WorldTx ==
  ASSUME IInv, TxInv,
         \/ \E u \in Users : SignUp(u)
         \/ \E r \in Receipts : StoreRefund(r) \/ PurgeExpiredPaymentRecord(r)
         \/ Midnight
         \/ UNCHANGED vars
  PROVE  TxOK'
  <1>1. UNCHANGED <<sess, lockVars>>
    BY DEF SignUp, StoreRefund, PurgeExpiredPaymentRecord, Midnight, vars, lockVars
  <1> SUFFICES ASSUME NEW p \in Sessions PROVE Tx(p)'
    BY DEF TxOK, Tx
  <1> DEFINE u == sess[p].user
             r == sess[p].item
             s == sess[p]
  <1>2. Tx(p) /\ Local(s) /\ s \in Session
    BY NowTx, TxOf
  <1>3. TxRows(p)'
    BY <1>1, <1>2 DEF lockVars, Tx, TxRows, At, WroteOnly, Wrote
  <1>4. s.pc \in {"refund-apply", "refund-mark"} /\ u # None =>
          u \in Users /\ credits'[u] = credits[u]
    <2> SUFFICES ASSUME s.pc \in {"refund-apply", "refund-mark"}, u # None
                 PROVE  u \in Users /\ credits'[u] = credits[u]
      OBVIOUS
    <2>1. /\ u \in Users /\ r \in Receipts /\ purchases[r].owner = u
          /\ credits \in [Users -> Nat]
      BY <1>2 DEF Tx, TxKnows, Refunding, Local, Session, IInv, TypeOK
    <2>2. status[u] = "active"
      BY <2>1 DEF TxInv, PurchaseMatchesLedger
    <2> QED BY <2>1, <2>2
            DEF SignUp, StoreRefund, PurgeExpiredPaymentRecord, Midnight, vars,
                userVars
  <1>5. \A v \in Users : status[v] = "active" => status'[v] = "active"
    <2>1. status \in [Users -> {"new", "active", "gone"}]
      BY DEF IInv, TypeOK
    <2> QED BY <2>1
            DEF SignUp, StoreRefund, PurgeExpiredPaymentRecord, Midnight, vars,
                userVars
  <1>6. \A x \in Receipts : purchases'[x] = purchases[x] \/ rcptLock[x] = None
    <2>1. purchases \in [Receipts -> Purchase]
      BY DEF IInv, TypeOK
    <2> QED BY <2>1
            DEF SignUp, StoreRefund, PurgeExpiredPaymentRecord, Midnight, vars,
                userVars
  <1>7. \A x \in Receipts : rcptLock[x] = p => purchases'[x] = purchases[x]
    BY <1>6, UsersAssumption
  <1>8. TxLocks(p)'
    BY <1>1, <1>2, <1>7
    DEF lockVars, Tx, TxLocks, LocksUser, LocksReceipt, At, First, InIdOrder
  <1>9. s.pc \in {"iap-apply", "iap-commit"} \cup Refunding =>
          purchases'[r] = purchases[r]
    BY <1>2, <1>7
    DEF Tx, TxLocks, LocksReceipt, Local, Refunding, At
  <1>10. At(p, "iap-apply") => UpdatesOnly(p)'
    <2> SUFFICES ASSUME At(p, "iap-apply") PROVE UpdatesOnly(p)'
      OBVIOUS
    <2>1. u \in Users /\ UpdatesOnly(p)
      BY <1>2 DEF Tx, TxKnows, Local, At
    <2> QED BY <1>1, <1>5, <2>1 DEF UpdatesOnly, OnlyUpdates, lockVars
  <1>11. At(p, "withdraw") => status'[u] = "active"
    BY <1>2, <1>5 DEF Tx, TxKnows, Local, At
  <1>12. adDate' = adDate
    BY DEF SignUp, StoreRefund, PurgeExpiredPaymentRecord, Midnight, vars
  <1>13. day' = day \/ day' = day + 1
    BY DEF SignUp, StoreRefund, PurgeExpiredPaymentRecord, Midnight, vars
  <1>14. At(p, "ad-insert") =>
           Cardinality(AdRewardsOn(sess[p].user, day))' < AdDailyLimit
    <2> SUFFICES ASSUME At(p, "ad-insert")
                 PROVE  Cardinality(AdRewardsOn(sess[p].user, day))' < AdDailyLimit
      OBVIOUS
    <2>1. /\ u \in Users /\ day \in Nat /\ TypeOK /\ AdDatesPast
          /\ Cardinality(AdRewardsOn(u, day)) < AdDailyLimit
      BY <1>2 DEF Tx, TxKnows, Local, At, IInv, TypeOK, TxInv
    <2>2. /\ Cardinality(AdRewardsOn(u, day)) \in Nat
          /\ Cardinality(AdRewardsOn(u, day + 1)) = 0
      BY <2>1, RewardsOnFinite
    <2>3. AdDailyLimit \in Nat
      BY PricesAssumption
    <2>4. \A d : d = day' => AdRewardsOn(u, d) = AdRewardsOn(sess[p].user, day)'
      BY <1>1, <1>12 DEF AdRewardsOn
    <2>5. CASE day' = day
      <3>1. AdRewardsOn(u, day) = AdRewardsOn(sess[p].user, day)'
        BY <2>4, <2>5
      <3> QED BY <2>1, <3>1
    <2>6. CASE day' = day + 1
      <3>1. AdRewardsOn(u, day + 1) = AdRewardsOn(sess[p].user, day)'
        BY <2>4, <2>6
      <3> QED BY <2>1, <2>2, <2>3, <3>1
    <2> QED BY <1>13, <2>5, <2>6
  <1>15. At(p, "ad-commit") =>
           /\ sess[p].day <= day'
           /\ Cardinality(AdRewardsOn(sess[p].user, sess[p].day))' < AdDailyLimit
    <2>1. AdRewardsOn(sess[p].user, sess[p].day)' = AdRewardsOn(u, s.day)
      BY <1>1, <1>12 DEF AdRewardsOn
    <2>2. day \in Nat /\ s.day \in Int
      BY <1>2 DEF IInv, TypeOK, Session
    <2> QED BY <1>2, <1>13, <2>1, <2>2 DEF Tx, TxKnows
  <1>16. TxKnows(p)'
    BY <1>1, <1>2, <1>4, <1>9, <1>10, <1>11, <1>12, <1>14, <1>15
    DEF Tx, TxKnows, At, Gifting, Refunding
  <1> QED BY <1>3, <1>8, <1>16 DEF Tx

-----------------------------------------------------------------------------
(* What the tables say of each other, from commit to commit.               *)

Taken(u, r) == HasRow(u, IapKey(r)) \/ HasRow(u, RefundKey(r))

Matches(r) ==
  LET o == purchases[r].owner
      lost == purchases[r].unrecovered
  IN  o # None =>
        /\ status[o] = "active"
        /\ HasRow(o, IapKey(r))
        /\ HasRow(o, RefundKey(r)) <=>
             purchases[r].status = "refunded" /\ lost < PackCredits[r]
        /\ \A i \in DOMAIN ledger[o] : ledger[o][i].key = RefundKey(r) =>
             /\ ledger[o][i].delta = lost - PackCredits[r]
             /\ lost > 0 => ledger[o][i].balanceAfter = 0

ReceiptOK(r) ==
  /\ grants[r] <= (IF r \in purged THEN 1 ELSE 0)
                    + (IF purchases[r].status = "absent" THEN 0 ELSE 1)
  /\ purchases[r].status = "absent" => purchases[r].owner = None
  /\ \A u \in Users : Taken(u, r) => purchases[r].owner = u
  /\ Matches(r)

AdsOK == AdDatesPast /\ AdRewardsHold

Tables == LedgersOfMembers /\ (\A r \in Receipts : ReceiptOK(r)) /\ AdsOK

LEMMA TablesOf == Tables <=> /\ LedgersOfMembers /\ GrantsOK /\ ReceiptsOwned
                             /\ PurchaseMatchesLedger /\ AdDatesPast
                             /\ AdRewardsHold
  BY DEF Tables, ReceiptOK, AdsOK, GrantsOK, ReceiptsOwned, Taken, Matches,
         PurchaseMatchesLedger

LEMMA KeysDiffer ==
  /\ \A r, x : IapKey(r) # RefundKey(x)
  /\ \A r, x : (IapKey(r) = IapKey(x) => r = x)
               /\ (RefundKey(r) = RefundKey(x) => r = x)
               /\ (AdKey(r) = AdKey(x) => r = x)
  /\ \A r, x : /\ ClientKey(r) # IapKey(x) /\ ClientKey(r) # RefundKey(x)
               /\ ClientKey(r) # AdKey(x)
               /\ AdKey(r) # IapKey(x) /\ AdKey(r) # RefundKey(x)
  /\ \A r : NoKey # IapKey(r) /\ NoKey # RefundKey(r) /\ NoKey # AdKey(r)
  BY DEF NoKey, ClientKey, IapKey, RefundKey, AdKey

(* A commit adds the row it wrote to the ledger of each user it wrote for. *)
Old(u, i) == i \in DOMAIN ledger[u] /\ ledger'[u][i] = ledger[u][i]
New(q, u, i) == rows[q][u] # NoRow /\ ledger'[u][i] = rows[q][u]

LEMMA Committed ==
  ASSUME IInv, NEW q \in Sessions, Commit(q), NEW u \in Users
  PROVE  /\ \A i \in DOMAIN ledger'[u] : Old(u, i) \/ New(q, u, i)
         /\ \A i \in DOMAIN ledger[u] : i \in DOMAIN ledger'[u] /\ Old(u, i)
         /\ rows[q][u] # NoRow =>
              /\ \E i \in DOMAIN ledger'[u] : New(q, u, i)
              /\ status[u] = "active"
              /\ credits'[u] = credits[u] + rows[q][u].delta
              /\ rows[q][u].balanceAfter = credits'[u]
         /\ rows[q][u] = NoRow =>
              credits'[u] = credits[u] /\ ledger'[u] = ledger[u]
  <1>1. CASE rows[q][u] = NoRow
    BY <1>1 DEF Commit, Old
  <1>2. CASE rows[q][u] # NoRow
    <2>1. /\ ledger[u] \in Seq(Row) /\ rows[q][u] \in Row
          /\ ledger'[u] = Append(ledger[u], rows[q][u])
          /\ credits'[u] = rows[q][u].balanceAfter
          /\ status[u] = "active"
          /\ credits'[u] = credits[u] + rows[q][u].delta
      BY <1>2 DEF IInv, TypeOK, RowsHeld, Commit
    <2> DEFINE n == Len(ledger[u])
    <2>2. /\ DOMAIN ledger[u] = 1 .. n /\ DOMAIN ledger'[u] = 1 .. n + 1
          /\ ledger'[u][n + 1] = rows[q][u] /\ n \in Nat
          /\ \A i \in 1 .. n : ledger'[u][i] = ledger[u][i]
      BY <2>1, AppendFacts
    <2> HIDE DEF n
    <2>3. \A i \in 1 .. n + 1 : i \in 1 .. n \/ i = n + 1
      BY <2>2
    <2> QED BY <1>2, <2>1, <2>2, <2>3 DEF Old, New
  <1> QED BY <1>1, <1>2

LEMMA CommittedKeys ==
  ASSUME IInv, NEW q \in Sessions, Commit(q), NEW u \in Users, NEW key
  PROVE  HasRow(u, key)' <=>
           HasRow(u, key) \/ (rows[q][u] # NoRow /\ rows[q][u].key = key)
  <1>1. /\ \A i \in DOMAIN ledger'[u] : Old(u, i) \/ New(q, u, i)
        /\ \A i \in DOMAIN ledger[u] : i \in DOMAIN ledger'[u] /\ Old(u, i)
        /\ rows[q][u] # NoRow => \E i \in DOMAIN ledger'[u] : New(q, u, i)
    BY Committed
  <1>2. ASSUME HasRow(u, key)'
        PROVE  HasRow(u, key) \/ (rows[q][u] # NoRow /\ rows[q][u].key = key)
    BY <1>1, <1>2 DEF HasRow, Old, New
  <1>3. HasRow(u, key) => HasRow(u, key)'
    BY <1>1 DEF HasRow, Old
  <1>4. rows[q][u] # NoRow /\ rows[q][u].key = key => HasRow(u, key)'
    BY <1>1 DEF HasRow, New
  <1> QED BY <1>2, <1>3, <1>4

SameReceipt(r) ==
  SamePurchase(r) /\ status' = status /\ (r \in purged' <=> r \in purged)

(* A receipt about which a commit says nothing. *)
LEMMA OtherReceipt ==
  ASSUME IInv, NEW q \in Sessions, Commit(q), NEW r \in Receipts,
         SameReceipt(r), ReceiptOK(r),
         \A u \in Users : rows[q][u] # NoRow =>
           rows[q][u].key # IapKey(r) /\ rows[q][u].key # RefundKey(r)
  PROVE  ReceiptOK(r)'
  <1>1. \A u \in Users : /\ HasRow(u, IapKey(r))' <=> HasRow(u, IapKey(r))
                         /\ HasRow(u, RefundKey(r))' <=> HasRow(u, RefundKey(r))
    BY CommittedKeys
  <1>2. purchases[r].owner \in Users \cup {None}
    BY DEF IInv, TypeOK, Purchase
  <1>3. ASSUME NEW u \in Users, NEW i \in DOMAIN ledger'[u],
               ledger'[u][i].key = RefundKey(r)
        PROVE  Old(u, i)
    BY <1>3, Committed DEF New
  <1>4. Matches(r)'
    <2> SUFFICES ASSUME NEW o \in Users, o = purchases[r].owner
                 PROVE  Matches(r)'
      BY <1>2 DEF Matches, SameReceipt, SamePurchase
    <2> QED BY <1>1, <1>3 DEF Matches, ReceiptOK, SameReceipt, SamePurchase, Old
  <1> QED BY <1>1, <1>4 DEF ReceiptOK, Taken, SameReceipt, SamePurchase

(* A commit that pays for no ad. *)
LEMMA OtherAds ==
  ASSUME IInv, NEW q \in Sessions, Commit(q), AdsOK, UNCHANGED <<adDate, day>>,
         \A u \in Users, t \in AdCallbacks : rows[q][u] # NoRow =>
           rows[q][u].key # AdKey(t)
  PROVE  AdsOK'
  <1>1. \A t \in AdCallbacks :
          HasRow(AdUser[t], AdKey(t))' <=> HasRow(AdUser[t], AdKey(t))
    BY CommittedKeys, PricesAssumption
  <1>2. BookRewarded' = BookRewarded
    BY DEF BookRewarded
  <1>3. \A u \in Users, d \in 0 .. MaxDay : AdRewardsOn(u, d)' = AdRewardsOn(u, d)
    BY DEF AdRewardsOn
  <1> QED BY <1>1, <1>2, <1>3
          DEF AdsOK, AdDatesPast, AdRewardsHold, AdDailyLimitHolds,
              AdRewardsMatchLedger

LEMMA CommittedMembers ==
  ASSUME IInv, NEW q \in Sessions, Commit(q), status' = status, LedgersOfMembers
  PROVE  LedgersOfMembers'
  BY Committed DEF LedgersOfMembers

(* A step that touches none of it. *)
LEMMA QuietTables ==
  ASSUME Tables, TypeOK, UNCHANGED <<status, ledger, adDate, grants, purged>>,
         \A r \in Receipts : SamePurchase(r), day' \in Nat, day' >= day
  PROVE  Tables'
  <1>1. \A u \in Users : \A key : HasRow(u, key)' <=> HasRow(u, key)
    BY DEF HasRow
  <1>2. BookRewarded' = BookRewarded
    BY DEF BookRewarded
  <1>3. \A u \in Users, d \in 0 .. MaxDay : AdRewardsOn(u, d)' = AdRewardsOn(u, d)
    BY DEF AdRewardsOn
  <1>4. \A t \in AdCallbacks : adDate[t] \in Int /\ day \in Int
    BY DEF TypeOK, NoDate
  <1>5. AdsOK'
    <2>1. \A t \in AdCallbacks : adDate'[t] <= day'
      BY <1>4 DEF Tables, AdsOK, AdDatesPast
    <2>2. AdRewardsMatchLedger'
      BY <1>1, PricesAssumption
      DEF Tables, AdsOK, AdRewardsHold, AdRewardsMatchLedger
    <2> QED BY <1>2, <1>3, <2>1, <2>2
            DEF Tables, AdsOK, AdDatesPast, AdRewardsHold, AdDailyLimitHolds
  <1>6. ASSUME NEW r \in Receipts PROVE ReceiptOK(r)'
    <2>1. purchases[r].owner \in Users \cup {None} /\ ReceiptOK(r)
      BY DEF TypeOK, Purchase, Tables
    <2>2. Matches(r)'
      BY <1>1, <2>1 DEF Matches, ReceiptOK, SamePurchase
    <2> QED BY <1>1, <2>1, <2>2 DEF ReceiptOK, Taken, SamePurchase
  <1> QED BY <1>5, <1>6 DEF Tables, LedgersOfMembers

(* A purchase in the shop, or a gift: the keys are those of the client.    *)
LEMMA ClientCommit ==
  ASSUME IInv, TxInv, NEW q \in Sessions, PurchaseCommit(q) \/ GiftCommit(q)
  PROVE  Tables'
  <1>1. /\ Commit(q) /\ UNCHANGED <<status, purchases, adDate, grants, purged, day>>
        /\ Tx(q) /\ Tables
    BY NowTx, TablesOf DEF PurchaseCommit, GiftCommit, storeVars, TxInv
  <1>2. \A u \in Users : rows[q][u] # NoRow =>
          \E k \in Keys : rows[q][u].key = ClientKey(k)
    BY <1>1 DEF Tx, TxRows, TxKnows, PurchaseCommit, GiftCommit, At, Wrote,
                WroteOnly, Gifting
  <1>3. \A r \in Receipts : SameReceipt(r)
    BY <1>1 DEF SameReceipt, SamePurchase
  <1>4. \A r \in Receipts : ReceiptOK(r)'
    BY <1>1, <1>2, <1>3, OtherReceipt, KeysDiffer DEF Tables
  <1>5. AdsOK'
    BY <1>1, <1>2, OtherAds, KeysDiffer DEF Tables
  <1>6. LedgersOfMembers'
    BY <1>1, CommittedMembers DEF Tables
  <1> QED BY <1>4, <1>5, <1>6 DEF Tables

LEMMA PaidCommit ==
  ASSUME IInv, TxInv, NEW q \in Sessions, IapCommit(q)
  PROVE  Tables'
  <1> DEFINE r == sess[q].item
             u == sess[q].user
  <1>1. /\ Commit(q) /\ UNCHANGED <<status, adDate, purged, day>>
        /\ Tx(q) /\ Tables /\ At(q, "iap-commit")
        /\ u \in Users /\ r \in Receipts /\ None \notin Users
    BY NowTx, TablesOf DEF IapCommit, TxInv, At, Local, LockTypes
  <1>2. /\ purchases[r].status = "absent"
        /\ purchases \in [Receipts -> Purchase] /\ grants \in [Receipts -> Nat]
    BY <1>1 DEF Tx, TxKnows, At, IInv, TypeOK
  <1>3. \A v \in Users : rows[q][v] # NoRow => v = u /\ rows[q][v].key = IapKey(r)
    BY <1>1 DEF Tx, TxRows, At, Wrote, WroteOnly
  <1>4. rows[q][u] # NoRow /\ rows[q][u].key = IapKey(r) /\ status[u] = "active"
    BY <1>1, Committed DEF Tx, TxRows, At, Wrote
  <1>5. /\ purchases'[r].status = "granted" /\ purchases'[r].owner = u
        /\ purchases'[r].unrecovered = 0
        /\ grants'[r] = grants[r] + 1
    BY <1>1, <1>2 DEF IapCommit, NoPurchase
  <1>6. \A x \in Receipts \ {r} : SameReceipt(x)
    BY <1>1, <1>2 DEF IapCommit, SameReceipt, SamePurchase
  <1>7. \A x \in Receipts \ {r} : ReceiptOK(x)'
    BY <1>1, <1>3, <1>6, OtherReceipt, KeysDiffer DEF Tables
  <1>8. ASSUME NEW x \in Receipts, x = r PROVE ReceiptOK(x)'
    <2>1. /\ purchases[x].owner = None /\ ReceiptOK(x)
          /\ \A v \in Users : ~HasRow(v, IapKey(x)) /\ ~HasRow(v, RefundKey(x))
      BY <1>1, <1>2, <1>8 DEF Tables, ReceiptOK, Taken
    <2>2. \A v \in Users : (HasRow(v, IapKey(x))' <=> v = u)
                           /\ ~HasRow(v, RefundKey(x))'
      BY <1>1, <1>3, <1>4, <1>8, <2>1, CommittedKeys, KeysDiffer
    <2>3. \A i \in DOMAIN ledger'[u] : ledger'[u][i].key # RefundKey(x)
      BY <1>1, <2>2 DEF HasRow
    <2>4. Matches(x)'
      BY <1>1, <1>4, <1>5, <1>8, <2>2, <2>3 DEF Matches
    <2>5. grants'[x] <= (IF x \in purged' THEN 1 ELSE 0)
            + (IF purchases'[x].status = "absent" THEN 0 ELSE 1)
      BY <1>1, <1>2, <1>5, <1>8, <2>1 DEF ReceiptOK
    <2> QED BY <1>1, <1>5, <1>8, <2>2, <2>4, <2>5 DEF ReceiptOK, Taken
  <1>9. AdsOK'
    BY <1>1, <1>3, OtherAds, KeysDiffer DEF Tables, IapCommit
  <1>10. LedgersOfMembers'
    BY <1>1, CommittedMembers DEF Tables
  <1> QED BY <1>7, <1>8, <1>9, <1>10 DEF Tables

LEMMA RefundCommit ==
  ASSUME IInv, TxInv, NEW q \in Sessions, RefundMark(q)
  PROVE  Tables'
  <1> DEFINE r == sess[q].item
             u == sess[q].user
             n == sess[q].amount
  <1>1. /\ Commit(q) /\ UNCHANGED <<status, adDate, grants, purged, day>>
        /\ Tx(q) /\ Tables /\ At(q, "refund-mark")
        /\ r \in Receipts /\ n \in Nat /\ u \in Users \cup {None}
        /\ None \notin Users
    BY NowTx, TablesOf, TxOf
    DEF RefundMark, TxInv, At, Local, LockTypes, Session
  <1>2. /\ purchases[r].status = "granted" /\ purchases[r].owner = u
        /\ purchases \in [Receipts -> Purchase]
        /\ PackCredits[r] \in Nat \ {0}
        /\ credits \in [Users -> Nat]
        /\ n = IF u = None THEN 0 ELSE Lesser(credits[u], PackCredits[r])
        /\ ReceiptOK(r)
    BY <1>1, PricesAssumption
    DEF Tx, TxKnows, At, IInv, TypeOK, Refunding, Tables
  <1>3. \A v \in Users : rows[q][v] # NoRow =>
          v = u /\ n > 0 /\ rows[q][v].key = RefundKey(r)
    BY <1>1 DEF Tx, TxRows, At, Wrote, WroteOnly
  <1>4. n > 0 => /\ rows[q][u] # NoRow /\ rows[q][u].key = RefundKey(r)
                 /\ rows[q][u].delta = 0 - n /\ u \in Users
    BY <1>1, <1>2 DEF Tx, TxRows, At, Wrote
  <1>5. /\ purchases'[r].status = "refunded" /\ purchases'[r].owner = u
        /\ purchases'[r].unrecovered = PackCredits[r] - n
    BY <1>1, <1>2 DEF RefundMark, Purchase
  <1>6. \A x \in Receipts \ {r} : SameReceipt(x)
    BY <1>1, <1>2 DEF RefundMark, SameReceipt, SamePurchase
  <1>7. \A x \in Receipts \ {r} : ReceiptOK(x)'
    BY <1>1, <1>3, <1>6, OtherReceipt, KeysDiffer DEF Tables
  <1>8. ASSUME NEW x \in Receipts, x = r PROVE ReceiptOK(x)'
    <2>1. \A v \in Users : /\ HasRow(v, IapKey(x))' <=> HasRow(v, IapKey(x))
                           /\ HasRow(v, RefundKey(x))' <=>
                                HasRow(v, RefundKey(x)) \/ (v = u /\ n > 0)
      BY <1>1, <1>3, <1>4, <1>8, CommittedKeys, KeysDiffer
    <2>2. Matches(x)'
      <3> SUFFICES ASSUME NEW o \in Users, o = u PROVE Matches(x)'
        BY <1>1, <1>5, <1>8 DEF Matches
      <3>1. /\ status[o] = "active" /\ HasRow(o, IapKey(x))
            /\ ~HasRow(o, RefundKey(x))
        BY <1>1, <1>2, <1>8 DEF ReceiptOK, Matches
      <3>2. PackCredits[x] - n >= 0 /\ (PackCredits[x] - n > 0 => n = credits[o])
            /\ (PackCredits[x] - n < PackCredits[x] <=> n > 0)
        BY <1>1, <1>2, <1>8 DEF Lesser
      <3>3. ASSUME NEW i \in DOMAIN ledger'[o],
                   ledger'[o][i].key = RefundKey(x)
            PROVE  /\ ledger'[o][i].delta = (PackCredits[x] - n) - PackCredits[x]
                   /\ PackCredits[x] - n > 0 => ledger'[o][i].balanceAfter = 0
        <4>1. New(q, o, i)
          BY <1>1, <3>1, <3>3, Committed DEF HasRow, Old
        <4>2. /\ ledger'[o][i].delta = 0 - n
              /\ ledger'[o][i].balanceAfter = credits[o] + (0 - n)
          BY <1>1, <1>3, <1>4, <4>1, Committed DEF New
        <4> QED BY <1>1, <1>2, <1>8, <3>2, <4>2
      <3> QED BY <1>1, <1>5, <1>8, <2>1, <3>1, <3>2, <3>3 DEF Matches
    <2> QED BY <1>1, <1>2, <1>5, <1>8, <2>1, <2>2 DEF ReceiptOK, Taken
  <1>9. AdsOK'
    BY <1>1, <1>3, OtherAds, KeysDiffer DEF Tables, RefundMark
  <1>10. LedgersOfMembers'
    BY <1>1, CommittedMembers DEF Tables
  <1> QED BY <1>7, <1>8, <1>9, <1>10 DEF Tables

LEMMA RewardCommit ==
  ASSUME IInv, TxInv, NEW q \in Sessions, AdCommit(q)
  PROVE  Tables'
  <1> DEFINE t == sess[q].item
             u == sess[q].user
             d == sess[q].day
  <1>1. /\ Commit(q) /\ UNCHANGED <<status, purchases, grants, purged, day>>
        /\ adDate' = [adDate EXCEPT ![t] = d]
        /\ Tx(q) /\ Tables /\ At(q, "ad-commit")
        /\ u \in Users /\ t \in AdCallbacks /\ d \in 0 .. MaxDay
        /\ adDate \in [AdCallbacks -> (0 .. MaxDay) \cup {NoDate}]
    BY NowTx, TablesOf, TxOf
    DEF AdCommit, TxInv, At, Local, storeVars, Session, IInv, TypeOK
  <1>2. /\ u = AdUser[t] /\ adDate[t] = NoDate /\ d <= day
        /\ Cardinality(AdRewardsOn(u, d)) < AdDailyLimit
    BY <1>1 DEF Tx, TxKnows, At
  <1>3. \A v \in Users : rows[q][v] # NoRow => v = u /\ rows[q][v].key = AdKey(t)
    BY <1>1 DEF Tx, TxRows, At, Wrote, WroteOnly
  <1>4. rows[q][u] # NoRow /\ rows[q][u].key = AdKey(t)
    BY <1>1 DEF Tx, TxRows, At, Wrote
  <1>5. \A r \in Receipts : SameReceipt(r)
    BY <1>1 DEF SameReceipt, SamePurchase
  <1>6. \A r \in Receipts : ReceiptOK(r)'
    BY <1>1, <1>3, <1>5, OtherReceipt, KeysDiffer DEF Tables
  <1>7. AdRewardsMatchLedger'
    <2> SUFFICES ASSUME NEW c \in AdCallbacks
                 PROVE  adDate'[c] # NoDate <=> HasRow(AdUser[c], AdKey(c))'
      BY DEF AdRewardsMatchLedger
    <2>1. AdUser[c] \in Users
      BY PricesAssumption
    <2>2. HasRow(AdUser[c], AdKey(c))' <=> HasRow(AdUser[c], AdKey(c)) \/ c = t
      <3>1. c = t => AdUser[c] = u
        BY <1>2
      <3> QED BY <1>1, <1>3, <1>4, <2>1, <3>1, CommittedKeys, KeysDiffer
    <2>3. adDate'[c] # NoDate <=> adDate[c] # NoDate \/ c = t
      BY <1>1 DEF NoDate
    <2> QED BY <1>1, <2>2, <2>3
            DEF Tables, AdsOK, AdRewardsHold, AdRewardsMatchLedger
  <1>8. AdDailyLimitHolds'
    <2> SUFFICES ASSUME NEW v \in Users, NEW e \in 0 .. MaxDay
                 PROVE  Cardinality(AdRewardsOn(v, e)') <= AdDailyLimit
      BY DEF AdDailyLimitHolds
    <2>1. CASE v = u /\ e = d
      <3>1. AdRewardsOn(v, e)' = AdRewardsOn(v, e) \cup {t}
        BY <1>1, <1>2, <2>1 DEF AdRewardsOn
      <3>2. t \notin AdRewardsOn(v, e)
        BY <1>1, <1>2 DEF AdRewardsOn, NoDate
      <3>3. IsFiniteSet(AdRewardsOn(v, e)) /\ Cardinality(AdRewardsOn(v, e)) \in Nat
        BY <1>1, RewardsOnFinite DEF Tables, AdsOK, IInv
      <3>4. Cardinality(AdRewardsOn(v, e) \cup {t})
              = Cardinality(AdRewardsOn(v, e)) + 1
        BY <3>2, <3>3, FS_AddElement
      <3> QED BY <1>2, <2>1, <3>1, <3>3, <3>4, PricesAssumption
    <2>2. CASE ~(v = u /\ e = d)
      <3>1. AdRewardsOn(v, e)' = AdRewardsOn(v, e)
        BY <1>1, <1>2, <2>2 DEF AdRewardsOn, NoDate
      <3> QED BY <1>1, <3>1 DEF Tables, AdsOK, AdRewardsHold, AdDailyLimitHolds
    <2> QED BY <2>1, <2>2
  <1>9. AdDatesPast'
    <2>1. BookRewarded' = BookRewarded \cup {t}
      BY <1>1 DEF BookRewarded, NoDate
    <2>2. IsFiniteSet(BookRewarded')
      BY <1>1, <2>1, FS_AddElement DEF Tables, AdsOK, AdDatesPast
    <2>3. \A c \in AdCallbacks : adDate'[c] <= day'
      BY <1>1, <1>2 DEF Tables, AdsOK, AdDatesPast
    <2> QED BY <2>2, <2>3 DEF AdDatesPast
  <1>10. LedgersOfMembers'
    BY <1>1, CommittedMembers DEF Tables
  <1> QED BY <1>6, <1>7, <1>8, <1>9, <1>10 DEF Tables, AdsOK, AdRewardsHold

LEMMA LeaveCommit ==
  ASSUME IInv, TxInv, NEW q \in Sessions, WithdrawCommit(q)
  PROVE  Tables'
  <1> DEFINE u == sess[q].user
  <1>1. /\ status' = [status EXCEPT ![u] = "gone"]
        /\ ledger' = [ledger EXCEPT ![u] = <<>>]
        /\ purchases' = [r \in Receipts |-> IF purchases[r].owner = u
                           THEN [purchases[r] EXCEPT !.owner = None]
                           ELSE purchases[r]]
        /\ adDate' = [t \in AdCallbacks |-> IF AdUser[t] = u THEN NoDate
                                                             ELSE adDate[t]]
        /\ UNCHANGED <<grants, purged, day>> /\ Tables /\ u \in Users
    BY NowTx, TablesOf
    DEF WithdrawCommit, TxInv, At, Local, storeVars, PurchasesOf
  <1>2. /\ status \in [Users -> {"new", "active", "gone"}]
        /\ ledger \in [Users -> Seq(Row)]
        /\ purchases \in [Receipts -> Purchase] /\ None \notin Users
        /\ adDate \in [AdCallbacks -> (0 .. MaxDay) \cup {NoDate}]
        /\ day \in 0 .. MaxDay /\ MaxDay \in Nat
    BY UsersAssumption, PricesAssumption DEF IInv, TypeOK
  <1>3. \A v \in Users : \A key : HasRow(v, key)' <=> v # u /\ HasRow(v, key)
    BY <1>1, <1>2 DEF HasRow
  <1>4. LedgersOfMembers'
    BY <1>1, <1>2 DEF Tables, LedgersOfMembers
  <1>5. ASSUME NEW r \in Receipts PROVE ReceiptOK(r)'
    <2>1. /\ ReceiptOK(r)
          /\ purchases'[r].status = purchases[r].status
          /\ purchases'[r].unrecovered = purchases[r].unrecovered
          /\ purchases'[r].owner = IF purchases[r].owner = u THEN None
                                   ELSE purchases[r].owner
          /\ purchases[r].owner \in Users \cup {None}
      BY <1>1, <1>2 DEF Tables, Purchase
    <2>2. Matches(r)'
      <3> SUFFICES ASSUME NEW o \in Users, o = purchases[r].owner, o # u
                   PROVE  Matches(r)'
        BY <1>2, <2>1 DEF Matches
      <3>1. status'[o] = status[o] /\ ledger'[o] = ledger[o]
        BY <1>1, <1>2
      <3> QED BY <1>2, <1>3, <2>1, <3>1 DEF Matches, ReceiptOK
    <2> QED BY <1>1, <1>3, <2>1, <2>2 DEF ReceiptOK, Taken
  <1>6. \A t \in AdCallbacks : adDate'[t] = adDate[t] \/ adDate'[t] = NoDate
    BY <1>1, <1>2
  <1>7. AdDatesPast'
    <2>1. BookRewarded' \subseteq BookRewarded
      BY <1>6 DEF BookRewarded
    <2>2. IsFiniteSet(BookRewarded')
      BY <1>1, <2>1, FS_Subset DEF Tables, AdsOK, AdDatesPast
    <2>3. \A t \in AdCallbacks : adDate'[t] <= day'
      BY <1>1, <1>2, <1>6 DEF Tables, AdsOK, AdDatesPast, NoDate
    <2> QED BY <2>2, <2>3 DEF AdDatesPast
  <1>8. AdDailyLimitHolds'
    <2> SUFFICES ASSUME NEW v \in Users, NEW e \in 0 .. MaxDay
                 PROVE  Cardinality(AdRewardsOn(v, e)') <= AdDailyLimit
      BY DEF AdDailyLimitHolds
    <2>1. AdRewardsOn(v, e)' \subseteq AdRewardsOn(v, e)
      BY <1>2, <1>6 DEF AdRewardsOn, NoDate
    <2>2. /\ IsFiniteSet(AdRewardsOn(v, e)) /\ Cardinality(AdRewardsOn(v, e)) \in Nat
          /\ Cardinality(AdRewardsOn(v, e)) <= AdDailyLimit
      BY <1>1, <1>2, RewardsOnFinite
      DEF Tables, AdsOK, IInv, AdRewardsHold, AdDailyLimitHolds
    <2>3. /\ Cardinality(AdRewardsOn(v, e)') <= Cardinality(AdRewardsOn(v, e))
          /\ Cardinality(AdRewardsOn(v, e)') \in Nat
      BY <2>1, <2>2, FS_Subset, FS_CardinalityType
    <2> QED BY <2>2, <2>3, PricesAssumption
  <1>9. AdRewardsMatchLedger'
    <2> SUFFICES ASSUME NEW c \in AdCallbacks
                 PROVE  adDate'[c] # NoDate <=> HasRow(AdUser[c], AdKey(c))'
      BY DEF AdRewardsMatchLedger
    <2>1. AdUser[c] \in Users
      BY PricesAssumption
    <2>2. HasRow(AdUser[c], AdKey(c))' <=> AdUser[c] # u /\ HasRow(AdUser[c], AdKey(c))
      BY <1>3, <2>1
    <2>3. adDate'[c] # NoDate <=> AdUser[c] # u /\ adDate[c] # NoDate
      BY <1>1
    <2> QED BY <1>1, <2>2, <2>3
            DEF Tables, AdsOK, AdRewardsHold, AdRewardsMatchLedger
  <1> QED BY <1>4, <1>5, <1>7, <1>8, <1>9 DEF Tables, AdsOK, AdRewardsHold

LEMMA JoinTables ==
  ASSUME IInv, TxInv, NEW u \in Users, SignUp(u)
  PROVE  Tables' /\ ledger[u] = <<>>
  <1>1. /\ status[u] = "new" /\ status' = [status EXCEPT ![u] = "active"]
        /\ UNCHANGED <<purchases, adDate, grants, purged, day>> /\ Tables
        /\ status \in [Users -> {"new", "active", "gone"}]
        /\ ledger \in [Users -> Seq(Row)]
    BY TablesOf DEF SignUp, TxInv, storeVars, IInv, TypeOK
  <1>2. ledger[u] = <<>>
    BY <1>1 DEF Tables, LedgersOfMembers
  <1> DEFINE row == [delta |-> SignupGift, balanceAfter |-> SignupGift,
                     kind |-> "signup_gift", key |-> NoKey, ref |-> None]
  <1>3. \/ ledger' = ledger
        \/ ledger' = [ledger EXCEPT ![u] = <<row>>]
    BY DEF SignUp
  <1>4. row.key = NoKey
    OBVIOUS
  <1> HIDE DEF row
  <1>5. \A v \in Users : v # u => ledger'[v] = ledger[v]
    BY <1>1, <1>3
  <1>6. \A i \in DOMAIN ledger'[u] : ledger'[u][i].key = NoKey
    <2>1. DOMAIN <<row>> = {1} /\ <<row>>[1] = row /\ DOMAIN <<>> = {}
      OBVIOUS
    <2> QED BY <1>1, <1>2, <1>3, <1>4, <2>1
  <1>7. DOMAIN ledger[u] = {}
    BY <1>2
  <1>8. \A v \in Users : \A key : key # NoKey =>
          (HasRow(v, key)' <=> HasRow(v, key))
    BY <1>5, <1>6, <1>7 DEF HasRow
  <1>9. LedgersOfMembers'
    BY <1>1, <1>5 DEF Tables, LedgersOfMembers
  <1>10. ASSUME NEW r \in Receipts PROVE ReceiptOK(r)'
    <2>1. /\ ReceiptOK(r) /\ \A v \in Users : Taken(v, r)' <=> Taken(v, r)
          /\ purchases[r].owner \in Users \cup {None}
      BY <1>1, <1>8, KeysDiffer DEF Tables, Taken, IInv, TypeOK, Purchase
    <2>2. Matches(r)'
      <3> SUFFICES ASSUME NEW o \in Users, o = purchases[r].owner,
                          o # None
                   PROVE  Matches(r)'
        BY <1>1, <2>1 DEF Matches
      <3>1. o # u
        BY <1>1, <2>1 DEF ReceiptOK, Matches
      <3>2. status'[o] = status[o] /\ ledger'[o] = ledger[o]
        BY <1>1, <1>5, <3>1
      <3> QED BY <1>1, <1>8, <2>1, <3>2, KeysDiffer DEF Matches, ReceiptOK
    <2> QED BY <1>1, <2>1, <2>2 DEF ReceiptOK
  <1>11. AdsOK'
    <2>1. BookRewarded' = BookRewarded
      BY <1>1 DEF BookRewarded
    <2>2. \A v \in Users, d \in 0 .. MaxDay : AdRewardsOn(v, d)' = AdRewardsOn(v, d)
      BY <1>1 DEF AdRewardsOn
    <2>3. AdRewardsMatchLedger'
      BY <1>1, <1>8, KeysDiffer, PricesAssumption
      DEF Tables, AdsOK, AdRewardsHold, AdRewardsMatchLedger
    <2> QED BY <1>1, <2>1, <2>2, <2>3
            DEF Tables, AdsOK, AdDatesPast, AdRewardsHold, AdDailyLimitHolds
  <1> QED BY <1>2, <1>9, <1>10, <1>11 DEF Tables

LEMMA ForgetTables ==
  ASSUME IInv, TxInv, NEW r \in Receipts, PurgeExpiredPaymentRecord(r)
  PROVE  Tables'
  <1>1. /\ r \notin purged /\ purged' = purged \cup {r}
        /\ purchases[r].status # "absent" /\ purchases[r].owner = None
        /\ purchases' = [purchases EXCEPT ![r] = NoPurchase]
        /\ UNCHANGED <<status, ledger, adDate, grants, day>> /\ Tables
        /\ purchases \in [Receipts -> Purchase] /\ grants \in [Receipts -> Nat]
        /\ None \notin Users
    BY TablesOf, UsersAssumption
    DEF PurgeExpiredPaymentRecord, TxInv, userVars, IInv, TypeOK
  <1>2. \A u \in Users : \A key : HasRow(u, key)' <=> HasRow(u, key)
    BY <1>1 DEF HasRow
  <1>3. ASSUME NEW x \in Receipts PROVE ReceiptOK(x)'
    <2>1. CASE x = r
      <3>1. /\ purchases'[x] = NoPurchase /\ x \in purged'
            /\ \A u \in Users : ~Taken(u, x)'
            /\ grants'[x] <= 1 + 0
        BY <1>1, <1>2, <2>1 DEF Tables, ReceiptOK, Taken
      <3> QED BY <3>1 DEF NoPurchase, ReceiptOK, Matches
    <2>2. CASE x # r
      <3>1. /\ purchases'[x] = purchases[x] /\ ReceiptOK(x)
            /\ (x \in purged' <=> x \in purged)
            /\ purchases[x].owner \in Users \cup {None}
        BY <1>1, <2>2 DEF Tables, Purchase
      <3>2. Matches(x)'
        BY <1>1, <1>2, <3>1 DEF Matches, ReceiptOK
      <3> QED BY <1>1, <1>2, <3>1, <3>2 DEF ReceiptOK, Taken
    <2> QED BY <2>1, <2>2
  <1>4. AdsOK'
    <2>1. BookRewarded' = BookRewarded
      BY <1>1 DEF BookRewarded
    <2>2. \A v \in Users, d \in 0 .. MaxDay : AdRewardsOn(v, d)' = AdRewardsOn(v, d)
      BY <1>1 DEF AdRewardsOn
    <2>3. AdRewardsMatchLedger'
      BY <1>1, <1>2, PricesAssumption
      DEF Tables, AdsOK, AdRewardsHold, AdRewardsMatchLedger
    <2> QED BY <1>1, <2>1, <2>2, <2>3
            DEF Tables, AdsOK, AdDatesPast, AdRewardsHold, AdDailyLimitHolds
  <1> QED BY <1>1, <1>3, <1>4 DEF Tables, LedgersOfMembers

LEMMA StepTables ==
  ASSUME IInv, TxInv, NEW q \in Sessions, Step(q)
  PROVE  Tables'
  <1>1. Tables /\ TypeOK /\ day \in Nat
    BY TablesOf DEF TxInv, IInv, TypeOK
  <1>2. CASE UNCHANGED <<status, ledger, adDate, grants, purged, day>>
             /\ \A r \in Receipts : SamePurchase(r)
    BY <1>1, <1>2, QuietTables
  <1>3. CASE UNCHANGED <<userVars, purchases, adDate, grants, purged, day>>
    BY <1>2, <1>3 DEF userVars, SamePurchase
  <1>4. CASE Begin(q) \/ Ends(q)
    BY <1>3, <1>4
    DEF Begin, PurchaseApply, GiftCheck, IapVerify, RetryPlayConsume,
        RefundNotified, AdLock, WithdrawDelete, storeVars, Ends, Fail, Crash,
        DeadlockVictim, Rollback, AdCheck, userVars
  <1>5. CASE \/ GiftLockFirst(q) \/ GiftLockSecond(q) \/ GiftDebit(q)
             \/ GiftCredit(q) \/ IapInsert(q) \/ IapApply(q)
             \/ RefundLock(q) \/ RefundLockUser(q) \/ RefundApply(q)
             \/ AdCheck(q) \/ AdInsert(q)
             \/ \E r \in Receipts : WithdrawSetNull(q, r)
    BY <1>3, <1>5
    DEF GiftLockFirst, GiftLockSecond, GiftDebit, GiftCredit, IapInsert,
        IapApply, RefundLock, RefundLockUser, RefundApply, AdCheck, AdInsert,
        WithdrawSetNull, storeVars
  <1>6. CASE ConsumePlay(q)
    <2>1. UNCHANGED <<status, ledger, adDate, grants, purged, day, rcptLock>>
      BY <1>6 DEF ConsumePlay, userVars, storeVars, lockVars
    <2>2. sess[q].item \in Receipts
      BY <1>6, NowTx DEF ConsumePlay, At, Local
    <2>3. \A r \in Receipts : rcptLock[r] # q => SamePurchase(r)
      BY TablesMove
    <2>4. \A r \in Receipts : rcptLock[r] # q
      BY <1>6, NowTx DEF ConsumePlay, Tx, TxLocks, LocksReceipt, Refunding, At
    <2> QED BY <1>2, <2>1, <2>3, <2>4
  <1> QED BY <1>4, <1>5, <1>6, ClientCommit, PaidCommit, RefundCommit,
             RewardCommit, LeaveCommit
          DEF Step, Continue, Ends

LEMMA TxInit == Init => TxInv
  <1> SUFFICES ASSUME Init PROVE TxInv
    OBVIOUS
  <1>1. LedgersOfMembers /\ GrantsOK /\ ReceiptsOwned /\ PurchaseMatchesLedger
    BY DEF Init, LedgersOfMembers, GrantsOK, ReceiptsOwned, HasRow, NoPurchase,
           PurchaseMatchesLedger
  <1>2. AdDatesPast /\ AdRewardsHold
    <2>1. \A u \in Users, d \in 0 .. MaxDay : AdRewardsOn(u, d) = {}
      BY DEF Init, AdRewardsOn, NoDate
    <2>2. BookRewarded = {}
      BY DEF Init, BookRewarded
    <2>3. AdDatesPast
      BY <2>2, FS_EmptySet DEF Init, AdDatesPast, NoDate
    <2>4. AdDailyLimitHolds
      BY <2>1, FS_EmptySet, PricesAssumption DEF AdDailyLimitHolds
    <2>5. DOMAIN <<>> = {}
      OBVIOUS
    <2>6. AdRewardsMatchLedger
      BY <2>5, PricesAssumption DEF Init, AdRewardsMatchLedger, HasRow, NoDate
    <2> QED BY <2>3, <2>4, <2>6 DEF AdRewardsHold
  <1>3. ASSUME NEW p \in Sessions PROVE TxRows(p) /\ TxLocks(p) /\ TxKnows(p)
    <2>1. sess[p].pc = "idle" /\ rows[p] = NoRows
      BY DEF Init, Idle, Task
    <2>2. TxRows(p)
      BY <2>1 DEF TxRows, At, Writing, WroteOnly, NoRows
    <2>3. TxLocks(p)
      BY <2>1, UsersAssumption
      DEF Init, TxLocks, LocksUser, LocksReceipt, Refunding, At
    <2>4. TxKnows(p)
      BY <2>1 DEF TxKnows, At, Gifting, Refunding
    <2> QED BY <2>2, <2>3, <2>4
  <1> QED BY <1>1, <1>2, <1>3 DEF TxInv, TxOK

LEMMA TxNext == IInv /\ TxInv /\ [Next]_vars => TxInv'
  <1> SUFFICES ASSUME IInv, TxInv, [Next]_vars PROVE TxInv'
    OBVIOUS
  <1>1. Tables /\ TypeOK
    BY TablesOf DEF TxInv, IInv
  <1>2. Tables' => (TxOK' => TxInv')
    <2>1. Tables' => (/\ LedgersOfMembers /\ GrantsOK /\ ReceiptsOwned
                      /\ PurchaseMatchesLedger /\ AdDatesPast
                      /\ AdRewardsHold)'
      BY DEF Tables, ReceiptOK, AdsOK, GrantsOK, ReceiptsOwned, Taken, Matches,
             PurchaseMatchesLedger
    <2> QED BY <2>1 DEF TxInv
  <1>3. ASSUME NEW q \in Sessions, Step(q) PROVE TxInv'
    BY <1>2, <1>3, StepTx, StepTables
  <1>4. ASSUME NEW u \in Users, SignUp(u) PROVE TxInv'
    BY <1>2, <1>4, WorldTx, JoinTables
  <1>5. ASSUME NEW r \in Receipts, PurgeExpiredPaymentRecord(r) PROVE TxInv'
    BY <1>2, <1>5, WorldTx, ForgetTables
  <1>6. ASSUME \/ \E r \in Receipts : StoreRefund(r)
               \/ Midnight \/ UNCHANGED vars
        PROVE  TxInv'
    <2>1. /\ UNCHANGED <<status, ledger, adDate, grants, purged, purchases>>
          /\ day' = day \/ day' = day + 1
      BY <1>6 DEF StoreRefund, Midnight, vars, userVars, storeVars
    <2>2. day \in Nat
      BY <1>1 DEF TypeOK
    <2>3. day' \in Nat /\ day' >= day
      BY <2>1, <2>2
    <2>4. Tables'
      BY <1>1, <2>1, <2>3, QuietTables DEF SamePurchase
    <2> QED BY <1>2, <1>6, <2>4, WorldTx
  <1> QED BY <1>3, <1>4, <1>5, <1>6 DEF Next, Step

LEMMA TxInductive == Spec => []TxInv
  BY TxInit, TxNext, Inductive, PTL DEF Spec

(* A receipt is paid out once per record, its record and the ledger of its *)
(* buyer say the same, and what a refund computed under the locks is never *)
(* refused: payments, refunds, purges, withdrawals and crashes in any      *)
(* order, on any number of sessions.                                       *)
THEOREM ReceiptsAreKept == Spec => []ReceiptsHold
  <1>1. IInv /\ TxInv => ReceiptsHold
    <2> SUFFICES ASSUME IInv, TxInv PROVE ReceiptsHold
      OBVIOUS
    <2>1. ReceiptPaidOnce
      <3> SUFFICES ASSUME NEW r \in Receipts
                   PROVE  grants[r] <= IF r \in purged THEN 2 ELSE 1
        BY DEF ReceiptPaidOnce
      <3>1. grants[r] \in Nat
        BY DEF IInv, TypeOK
      <3>2. grants[r] <= (IF r \in purged THEN 1 ELSE 0)
              + (IF purchases[r].status = "absent" THEN 0 ELSE 1)
        BY DEF TxInv, GrantsOK
      <3> QED BY <3>1, <3>2
    <2>2. RefundNeverRefused
      <3> SUFFICES ASSUME NEW p \in Sessions, At(p, "refund-apply")
                   PROVE  Accepts(sess[p].user, 0 - sess[p].amount,
                                  RefundKey(sess[p].item))
        BY DEF RefundNeverRefused
      <3> DEFINE u == sess[p].user
                 r == sess[p].item
                 n == sess[p].amount
      <3>1. /\ u \in Users /\ r \in Receipts /\ n \in Nat
            /\ purchases[r].status = "granted" /\ purchases[r].owner = u
            /\ n = Lesser(credits[u], PackCredits[r])
            /\ credits[u] \in Nat /\ PackCredits[r] \in Nat
        <4>1. /\ u \in Users /\ r \in Receipts /\ n \in Nat
              /\ sess[p].pc = "refund-apply" /\ TxKnows(p)
          BY TxOf DEF At, Local, Session
        <4>2. /\ purchases[r].status = "granted" /\ purchases[r].owner = u
              /\ n = IF u = None THEN 0 ELSE Lesser(credits[u], PackCredits[r])
          BY <4>1 DEF TxKnows, Refunding
        <4>3. u # None /\ credits[u] \in Nat /\ PackCredits[r] \in Nat
          BY <4>1, UsersAssumption, PricesAssumption DEF IInv, TypeOK
        <4> QED BY <4>1, <4>2, <4>3
      <3>2. /\ status[u] = "active" /\ ~HasRow(u, RefundKey(r))
        BY <3>1, UsersAssumption DEF TxInv, PurchaseMatchesLedger
      <3>3. credits[u] + (0 - n) >= 0
        BY <3>1 DEF Lesser
      <3> QED BY <3>2, <3>3 DEF Accepts, HasRow
    <2> QED BY <2>1, <2>2 DEF ReceiptsHold, TxInv
  <1> QED BY <1>1, TxInductive, Inductive, PTL

(* A watched ad is paid once and never more than the daily limit, though   *)
(* the date is read twice, callbacks come at once and midnight passes.     *)
THEOREM RewardsAreKept == Spec => []AdRewardsHold
  <1>1. TxInv => AdRewardsHold
    BY DEF TxInv
  <1> QED BY <1>1, TxInductive, PTL

-----------------------------------------------------------------------------
(* Every step is a deed of the book, or nothing the book knows of.         *)

BookStays == UNCHANGED <<status, credits, goods, BookReceipt, BookBuyer,
                         BookRewarded>>

LEMMA PagesStay ==
  ASSUME \A r \in Receipts : SamePurchase(r)
  PROVE  UNCHANGED <<BookReceipt, BookBuyer>>
  BY DEF SamePurchase, BookReceipt, BookBuyer

LEMMA QuietDeeds ==
  ASSUME UNCHANGED <<status, credits, goods, adDate>>,
         \A r \in Receipts : SamePurchase(r)
  PROVE  BookStays
  <1>1. UNCHANGED <<BookReceipt, BookBuyer>>
    BY PagesStay
  <1>2. BookRewarded' = BookRewarded
    BY DEF BookRewarded
  <1> QED BY <1>1, <1>2 DEF BookStays

LEMMA BuyDeed ==
  ASSUME IInv, TxInv, NEW q \in Sessions, PurchaseCommit(q)
  PROVE  \E u \in Users, g \in Products : Book!Buy(u, g)
  <1> DEFINE u == sess[q].user
             g == sess[q].item
  <1>1. /\ Commit(q) /\ UNCHANGED <<status, purchases, adDate, grants>>
        /\ goods' = [goods EXCEPT ![u] = [tapes |-> goods[u].tapes + Tapes[g],
                                          drawer |-> goods[u].drawer + Slots[g]]]
        /\ u \in Users /\ g \in Products /\ Tx(q) /\ At(q, "bought")
        /\ goods \in [Users -> [tapes : Nat, drawer : Nat]]
        /\ credits \in [Users -> Nat] /\ Price[g] \in Nat
    BY NowTx, PricesAssumption
    DEF PurchaseCommit, storeVars, At, Local, IInv, TypeOK
  <1>2. /\ rows[q][u] # NoRow /\ rows[q][u].delta = 0 - Price[g]
        /\ \A v \in Users : v # u => rows[q][v] = NoRow
    BY <1>1 DEF Tx, TxRows, Wrote, WroteOnly
  <1>3. credits' \in [Users -> Nat]
    BY NextOK, <1>1 DEF Next, Continue, IInv, TypeOK
  <1>4. /\ credits'[u] = credits[u] + (0 - Price[g]) /\ status[u] = "active"
        /\ \A v \in Users : v # u => credits'[v] = credits[v]
    BY <1>1, <1>2, Committed
  <1>5. credits' = [credits EXCEPT ![u] = credits[u] + (0 - Price[g])]
    BY <1>1, <1>3, <1>4
  <1>6. credits[u] >= Price[g]
    <2>1. credits'[u] \in Nat /\ credits[u] \in Nat /\ Price[g] \in Nat
      BY <1>1, <1>3
    <2> QED BY <1>4, <2>1
  <1>7. goods' = [goods EXCEPT ![u].tapes = goods[u].tapes + Tapes[g],
                               ![u].drawer = goods[u].drawer + Slots[g]]
    BY <1>1
  <1>8. UNCHANGED <<status, BookReceipt, BookBuyer, BookRewarded>>
    BY <1>1 DEF BookReceipt, BookBuyer, BookRewarded
  <1>9. Book!Buy(u, g)
    BY <1>4, <1>5, <1>6, <1>7, <1>8
    DEF Book!Buy, Book!Active, Book!Moves, Book!receipts
  <1> QED BY <1>1, <1>9

LEMMA GiveDeed ==
  ASSUME IInv, TxInv, NEW q \in Sessions, GiftCommit(q)
  PROVE  \E a, b \in Users, n \in GiftAmounts : Book!Give(a, b, n)
  <1> DEFINE a == sess[q].user
             b == sess[q].peer
             n == sess[q].amount
  <1>1. /\ Commit(q) /\ UNCHANGED <<status, goods, purchases, adDate>>
        /\ a \in Users /\ b \in Users /\ Tx(q) /\ At(q, "gift-commit")
        /\ credits \in [Users -> Nat] /\ n \in Nat
    BY NowTx, TxOf DEF GiftCommit, storeVars, At, Local, IInv, TypeOK, Session
  <1>2. /\ rows[q][a] # NoRow /\ rows[q][a].delta = 0 - n
        /\ rows[q][b] # NoRow /\ rows[q][b].delta = n
        /\ \A v \in Users \ {a, b} : rows[q][v] = NoRow
        /\ a # b /\ n \in GiftAmounts
    BY <1>1 DEF Tx, TxRows, TxKnows, Gifting, At, Wrote, WroteOnly
  <1>3. credits' \in [Users -> Nat]
    BY NextOK, <1>1 DEF Next, Continue, IInv, TypeOK
  <1>4. /\ credits'[a] = credits[a] + (0 - n) /\ credits'[b] = credits[b] + n
        /\ status[a] = "active" /\ status[b] = "active"
        /\ \A v \in Users \ {a, b} : credits'[v] = credits[v]
    BY <1>1, <1>2, Committed
  <1>5. credits[a] >= n /\ credits'[a] = credits[a] - n
    <2>1. credits'[a] \in Nat /\ credits[a] \in Nat /\ n \in Nat
      BY <1>1, <1>3
    <2> QED BY <1>4, <2>1
  <1>6. credits' = [credits EXCEPT ![a] = credits[a] - n, ![b] = credits[b] + n]
    BY <1>1, <1>2, <1>3, <1>4, <1>5
  <1>7. UNCHANGED <<status, goods, BookReceipt, BookBuyer, BookRewarded>>
    BY <1>1 DEF BookReceipt, BookBuyer, BookRewarded
  <1>8. Book!Give(a, b, n)
    BY <1>2, <1>4, <1>5, <1>6, <1>7 DEF Book!Give, Book!Active, Book!receipts
  <1> QED BY <1>1, <1>2, <1>8

LEMMA TopUpDeed ==
  ASSUME IInv, TxInv, NEW q \in Sessions, IapCommit(q)
  PROVE  \E u \in Users, r \in Receipts : Book!TopUp(u, r)
  <1> DEFINE r == sess[q].item
             u == sess[q].user
  <1>1. /\ Commit(q) /\ UNCHANGED <<status, goods, adDate>>
        /\ purchases' = [purchases EXCEPT ![r] =
              [NoPurchase EXCEPT !.status = "granted", !.owner = u]]
        /\ u \in Users /\ r \in Receipts /\ Tx(q) /\ At(q, "iap-commit")
        /\ credits \in [Users -> Nat] /\ purchases \in [Receipts -> Purchase]
    BY NowTx DEF IapCommit, storeVars, At, Local, IInv, TypeOK
  <1>2. /\ rows[q][u] # NoRow /\ rows[q][u].delta = PackCredits[r]
        /\ \A v \in Users : v # u => rows[q][v] = NoRow
        /\ purchases[r].status = "absent"
    BY <1>1 DEF Tx, TxRows, TxKnows, At, Wrote, WroteOnly
  <1>3. credits' \in [Users -> Nat]
    BY NextOK, <1>1 DEF Next, Continue, IInv, TypeOK
  <1>4. /\ credits'[u] = credits[u] + PackCredits[r] /\ status[u] = "active"
        /\ \A v \in Users : v # u => credits'[v] = credits[v]
    BY <1>1, <1>2, Committed
  <1>5. credits' = [credits EXCEPT ![u] = credits[u] + PackCredits[r]]
    BY <1>1, <1>3, <1>4
  <1>6. /\ purchases'[r].status = "granted" /\ purchases'[r].owner = u
        /\ \A x \in Receipts \ {r} : purchases'[x] = purchases[x]
    BY <1>1 DEF NoPurchase
  <1>7. /\ BookReceipt[r] = "unpaid"
        /\ BookReceipt' = [BookReceipt EXCEPT ![r] = "paid"]
        /\ BookBuyer' = [BookBuyer EXCEPT ![r] = u]
    BY <1>1, <1>2, <1>6 DEF BookReceipt, BookBuyer
  <1>8. UNCHANGED <<status, goods, BookRewarded>>
    BY <1>1 DEF BookRewarded
  <1>9. Book!TopUp(u, r)
    BY <1>4, <1>5, <1>7, <1>8 DEF Book!TopUp, Book!Active, Book!Moves
  <1> QED BY <1>1, <1>9

LEMMA TakeBackDeed ==
  ASSUME IInv, TxInv, NEW q \in Sessions, RefundMark(q)
  PROVE  \E r \in Receipts : Book!TakeBack(r)
  <1> DEFINE r == sess[q].item
             u == sess[q].user
             n == sess[q].amount
  <1>1. /\ Commit(q) /\ UNCHANGED <<status, goods, adDate>>
        /\ purchases' = [purchases EXCEPT ![r].status = "refunded",
                ![r].unrecovered = PackCredits[r] - n]
        /\ r \in Receipts /\ n \in Nat /\ u \in Users \cup {None}
        /\ None \notin Users /\ Tx(q) /\ At(q, "refund-mark")
        /\ credits \in [Users -> Nat] /\ purchases \in [Receipts -> Purchase]
    BY NowTx, TxOf
    DEF RefundMark, storeVars, At, Local, LockTypes, Session, IInv, TypeOK
  <1>2. /\ purchases[r].status = "granted" /\ purchases[r].owner = u
        /\ n = IF u = None THEN 0 ELSE Lesser(credits[u], PackCredits[r])
    BY <1>1 DEF Tx, TxKnows, At, Refunding
  <1>3. IF n = 0 THEN \A v \in Users : rows[q][v] = NoRow
        ELSE /\ rows[q][u] # NoRow /\ rows[q][u].delta = 0 - n /\ u \in Users
             /\ \A v \in Users : v # u => rows[q][v] = NoRow
    BY <1>1, <1>2 DEF Tx, TxRows, At, Wrote, WroteOnly
  <1>4. credits' \in [Users -> Nat]
    BY NextOK, <1>1 DEF Next, Continue, IInv, TypeOK
  <1>5. \A v \in Users : credits'[v] = IF v = u THEN credits[v] + (0 - n)
                                                ELSE credits[v]
    <2>1. CASE n = 0
      BY <1>1, <1>3, <2>1, Committed
    <2>2. CASE n # 0
      BY <1>1, <1>3, <2>2, Committed
    <2> QED BY <2>1, <2>2
  <1>6. /\ purchases'[r].status = "refunded" /\ purchases'[r].owner = u
        /\ \A x \in Receipts \ {r} : purchases'[x] = purchases[x]
    BY <1>1, <1>2 DEF Purchase
  <1>7. /\ BookReceipt[r] = "paid" /\ BookBuyer[r] = u
        /\ BookReceipt' = [BookReceipt EXCEPT ![r] = "taken back"]
        /\ BookBuyer' = BookBuyer
    BY <1>1, <1>2, <1>6 DEF BookReceipt, BookBuyer
  <1>8. u = None => credits' = credits
    BY <1>1, <1>4, <1>5
  <1>9. u # None => credits' = [credits EXCEPT ![u] =
          credits[u] + (0 - Book!Least(PackCredits[r], credits[u]))]
    <2> SUFFICES ASSUME u \in Users
                 PROVE  credits' = [credits EXCEPT ![u] =
                   credits[u] + (0 - Book!Least(PackCredits[r], credits[u]))]
      BY <1>1
    <2>1. n = Book!Least(PackCredits[r], credits[u])
      <3>1. PackCredits[r] \in Nat /\ credits[u] \in Nat
        BY <1>1, PricesAssumption
      <3> QED BY <1>1, <1>2, <3>1 DEF Book!Least, Lesser
    <2> QED BY <1>1, <1>4, <1>5, <2>1
  <1>10. UNCHANGED <<status, goods, BookRewarded>>
    BY <1>1 DEF BookRewarded
  <1>11. Book!TakeBack(r)
    BY <1>7, <1>8, <1>9, <1>10 DEF Book!TakeBack, Book!Moves
  <1> QED BY <1>1, <1>11

LEMMA RewardDeed ==
  ASSUME IInv, TxInv, NEW q \in Sessions, AdCommit(q)
  PROVE  \E t \in AdCallbacks : Book!Reward(t)
  <1> DEFINE t == sess[q].item
             u == sess[q].user
             d == sess[q].day
  <1>1. /\ Commit(q) /\ UNCHANGED <<status, goods, purchases>>
        /\ adDate' = [adDate EXCEPT ![t] = d]
        /\ u \in Users /\ t \in AdCallbacks /\ d \in 0 .. MaxDay
        /\ Tx(q) /\ At(q, "ad-commit") /\ credits \in [Users -> Nat]
        /\ adDate \in [AdCallbacks -> (0 .. MaxDay) \cup {NoDate}]
    BY NowTx, TxOf DEF AdCommit, At, Local, Session, IInv, TypeOK
  <1>2. /\ rows[q][u] # NoRow /\ rows[q][u].delta = AdReward
        /\ \A v \in Users : v # u => rows[q][v] = NoRow
        /\ u = AdUser[t] /\ adDate[t] = NoDate
    BY <1>1 DEF Tx, TxRows, TxKnows, At, Wrote, WroteOnly
  <1>3. credits' \in [Users -> Nat]
    BY NextOK, <1>1 DEF Next, Continue, IInv, TypeOK
  <1>4. /\ credits'[u] = credits[u] + AdReward /\ status[u] = "active"
        /\ \A v \in Users : v # u => credits'[v] = credits[v]
    BY <1>1, <1>2, Committed
  <1>5. credits' = [credits EXCEPT ![u] = credits[u] + AdReward]
    BY <1>1, <1>3, <1>4
  <1>6. t \notin BookRewarded /\ BookRewarded' = BookRewarded \cup {t}
    BY <1>1, <1>2 DEF BookRewarded, NoDate
  <1>7. UNCHANGED <<status, goods, BookReceipt, BookBuyer>>
    BY <1>1 DEF BookReceipt, BookBuyer
  <1>8. Book!Reward(t)
    BY <1>2, <1>4, <1>5, <1>6, <1>7
    DEF Book!Reward, Book!Active, Book!Moves, Book!receipts
  <1> QED BY <1>1, <1>8

LEMMA LeaveDeed ==
  ASSUME IInv, TxInv, NEW q \in Sessions, WithdrawCommit(q)
  PROVE  \E u \in Users : Book!Leave(u)
  <1> DEFINE u == sess[q].user
  <1>1. /\ status' = [status EXCEPT ![u] = "gone"]
        /\ credits' = [credits EXCEPT ![u] = 0]
        /\ goods' = [goods EXCEPT ![u] = [tapes |-> 0, drawer |-> 0]]
        /\ purchases' = [r \in Receipts |-> IF purchases[r].owner = u
                           THEN [purchases[r] EXCEPT !.owner = None]
                           ELSE purchases[r]]
        /\ adDate' = [t \in AdCallbacks |-> IF AdUser[t] = u THEN NoDate
                                                             ELSE adDate[t]]
        /\ u \in Users /\ purchases \in [Receipts -> Purchase]
        /\ Tx(q) /\ At(q, "withdraw")
    BY NowTx DEF WithdrawCommit, At, Local, PurchasesOf, IInv, TypeOK
  <1>2. status[u] = "active"
    BY <1>1 DEF Tx, TxKnows
  <1>3. \A r \in Receipts :
          /\ purchases'[r].status = purchases[r].status
          /\ purchases'[r].owner = IF purchases[r].owner = u THEN None
                                   ELSE purchases[r].owner
    BY <1>1 DEF Purchase
  <1>4. /\ BookReceipt' = BookReceipt
        /\ BookBuyer' = [r \in Receipts |-> IF BookBuyer[r] = u THEN None
                                            ELSE BookBuyer[r]]
    BY <1>3 DEF BookReceipt, BookBuyer
  <1>5. BookRewarded' = {t \in BookRewarded : AdUser[t] # u}
    BY <1>1 DEF BookRewarded
  <1>6. Book!Leave(u)
    BY <1>1, <1>2, <1>4, <1>5 DEF Book!Leave, Book!Active
  <1> QED BY <1>1, <1>6

LEMMA JoinDeed ==
  ASSUME IInv, TxInv, NEW u \in Users, SignUp(u)
  PROVE  Book!Join(u)
  <1>1. /\ status[u] = "new" /\ status' = [status EXCEPT ![u] = "active"]
        /\ UNCHANGED <<goods, purchases, adDate>>
        /\ credits \in [Users -> Nat] /\ SignupGift \in Nat
    BY PricesAssumption DEF SignUp, IInv, TypeOK
  <1>2. credits[u] = 0
    <2>1. ledger[u] = <<>>
      BY JoinTables
    <2>2. Len(ledger[u]) + 1 = 1
      BY <2>1
    <2>3. credits[u] = BalanceBefore(u, Len(ledger[u]) + 1)
      BY DEF IInv, LedgerChain
    <2> QED BY <2>2, <2>3 DEF BalanceBefore
  <1>3. credits' = [credits EXCEPT ![u] = credits[u] + SignupGift]
    <2>1. CASE SignupGift > 0
      BY <1>1, <1>2, <2>1 DEF SignUp
    <2>2. CASE SignupGift = 0
      BY <1>1, <1>2, <2>2 DEF SignUp
    <2> QED BY <1>1, <2>1, <2>2
  <1>4. UNCHANGED <<goods, BookReceipt, BookBuyer, BookRewarded>>
    BY <1>1 DEF BookReceipt, BookBuyer, BookRewarded
  <1> QED BY <1>1, <1>3, <1>4 DEF Book!Join, Book!Moves, Book!receipts

LEMMA ForgetDeed ==
  ASSUME IInv, TxInv, NEW r \in Receipts, PurgeExpiredPaymentRecord(r)
  PROVE  Book!Forget(r)
  <1>1. /\ purchases[r].status # "absent" /\ purchases[r].owner = None
        /\ purchases' = [purchases EXCEPT ![r] = NoPurchase]
        /\ UNCHANGED <<status, credits, goods, adDate>>
        /\ purchases \in [Receipts -> Purchase]
    BY DEF PurgeExpiredPaymentRecord, userVars, IInv, TypeOK
  <1>2. /\ purchases'[r].status = "absent" /\ purchases'[r].owner = None
        /\ \A x \in Receipts \ {r} : purchases'[x] = purchases[x]
    BY <1>1 DEF NoPurchase
  <1>3. /\ BookReceipt[r] # "unpaid" /\ BookBuyer[r] = None
        /\ BookReceipt' = [BookReceipt EXCEPT ![r] = "unpaid"]
        /\ BookBuyer' = BookBuyer
    BY <1>1, <1>2 DEF BookReceipt, BookBuyer
  <1>4. UNCHANGED <<status, credits, goods, BookRewarded>>
    BY <1>1 DEF BookRewarded
  <1> QED BY <1>3, <1>4 DEF Book!Forget

LEMMA SessionDeeds ==
  ASSUME IInv, TxInv, NEW q \in Sessions, Step(q)
  PROVE  Book!Next \/ BookStays
  <1>1. CASE UNCHANGED <<userVars, purchases, adDate>>
    <2>1. UNCHANGED <<status, credits, goods, adDate, purchases>>
      BY <1>1 DEF userVars
    <2> QED BY <2>1 DEF BookStays, BookReceipt, BookBuyer, BookRewarded
  <1>2. CASE Begin(q) \/ Ends(q)
    BY <1>1, <1>2
    DEF Begin, PurchaseApply, GiftCheck, IapVerify, RetryPlayConsume,
        RefundNotified, AdLock, WithdrawDelete, Ends, Fail, Crash,
        DeadlockVictim, Rollback, AdCheck, userVars
  <1>3. CASE \/ GiftLockFirst(q) \/ GiftLockSecond(q) \/ GiftDebit(q)
             \/ GiftCredit(q) \/ IapInsert(q) \/ IapApply(q)
             \/ RefundLock(q) \/ RefundLockUser(q) \/ RefundApply(q)
             \/ AdCheck(q) \/ AdInsert(q)
             \/ \E r \in Receipts : WithdrawSetNull(q, r)
    BY <1>1, <1>3
    DEF GiftLockFirst, GiftLockSecond, GiftDebit, GiftCredit, IapInsert,
        IapApply, RefundLock, RefundLockUser, RefundApply, AdCheck, AdInsert,
        WithdrawSetNull
  <1>4. CASE ConsumePlay(q)
    <2>1. UNCHANGED <<status, credits, goods, adDate>>
      BY <1>4 DEF ConsumePlay, userVars
    <2>2. \A r \in Receipts : rcptLock[r] # q => SamePurchase(r)
      BY TablesMove
    <2>3. \A r \in Receipts : rcptLock[r] # q
      BY <1>4, NowTx DEF ConsumePlay, Tx, TxLocks, LocksReceipt, Refunding, At
    <2> QED BY <2>1, <2>2, <2>3, QuietDeeds
  <1>5. CASE PurchaseCommit(q)
    BY <1>5, BuyDeed DEF Book!Next
  <1>6. CASE GiftCommit(q)
    BY <1>6, GiveDeed DEF Book!Next
  <1>7. CASE IapCommit(q)
    BY <1>7, TopUpDeed DEF Book!Next
  <1>8. CASE RefundMark(q)
    BY <1>8, TakeBackDeed DEF Book!Next
  <1>9. CASE AdCommit(q)
    BY <1>9, RewardDeed DEF Book!Next
  <1>10. CASE WithdrawCommit(q)
    BY <1>10, LeaveDeed DEF Book!Next
  <1> QED BY <1>2, <1>3, <1>4, <1>5, <1>6, <1>7, <1>8, <1>9, <1>10
          DEF Step, Continue, Ends

(* Whatever sessions do at once, crash in or repeat, users see whole deeds *)
(* only: what a transaction writes statement by statement is one step of   *)
(* the book when it commits, and nothing when it does not.                 *)
THEOREM WalletKeepsTheBook == Spec => KeepsTheBook
  <1>1. Init => Book!Init
    <2> SUFFICES ASSUME Init PROVE Book!Init
      OBVIOUS
    <2>1. BookReceipt = [r \in Receipts |-> "unpaid"]
      BY DEF Init, BookReceipt, NoPurchase
    <2>2. BookBuyer = [r \in Receipts |-> None]
      BY DEF Init, BookBuyer, NoPurchase
    <2>3. BookRewarded = {}
      BY DEF Init, BookRewarded
    <2> QED BY <2>1, <2>2, <2>3 DEF Init, Book!Init
  <1>2. IInv /\ TxInv /\ [Next]_vars => [Book!Next]_(Book!vars)
    <2> SUFFICES ASSUME IInv, TxInv, [Next]_vars
                 PROVE  Book!Next \/ BookStays
      BY DEF BookStays, Book!vars
    <2>1. ASSUME NEW q \in Sessions, Step(q) PROVE Book!Next \/ BookStays
      BY <2>1, SessionDeeds
    <2>2. ASSUME NEW u \in Users, SignUp(u) PROVE Book!Next
      BY <2>2, JoinDeed DEF Book!Next
    <2>3. ASSUME NEW r \in Receipts, PurgeExpiredPaymentRecord(r)
          PROVE  Book!Next
      BY <2>3, ForgetDeed DEF Book!Next
    <2>4. CASE \/ \E r \in Receipts : StoreRefund(r)
               \/ Midnight \/ UNCHANGED vars
      <3>1. UNCHANGED <<status, credits, goods, adDate, purchases>>
        BY <2>4 DEF StoreRefund, Midnight, vars, userVars
      <3> QED BY <3>1 DEF BookStays, BookReceipt, BookBuyer, BookRewarded
    <2> QED BY <2>1, <2>2, <2>3, <2>4 DEF Next, Step
  <1> QED BY <1>1, <1>2, TxInductive, Inductive, PTL
          DEF Spec, KeepsTheBook, Book!Spec

-----------------------------------------------------------------------------
(* Who waits for whom.                                                     *)

HoldsUser(x, u) == userLock[u] = x
HoldsReceipt(x, r) == rcptLock[r] = x

(* What a session that waits waits for, and who keeps it.                  *)
LEMMA WaitsFor ==
  ASSUME IInv, TxInv, NEW p \in Sessions, NEW x \in Sessions, x \in Blockers(p)
  PROVE  /\ x # p
         /\ sess[p].pc \in {"gift-first", "gift-second", "iap-insert",
                            "iap-apply", "consume", "refund-lock",
                            "refund-user", "withdraw"}
         /\ \/ \E u \in Users : HoldsUser(x, u)
            \/ \E r \in Receipts : HoldsReceipt(x, r)
            \/ At(x, "iap-apply")
         /\ At(p, "gift-second") =>
              HoldsUser(x, Second(p)) \/ At(x, "iap-apply")
         /\ At(p, "refund-user") =>
              HoldsUser(x, sess[p].user) \/ At(x, "iap-apply")
         /\ At(p, "iap-apply") => HoldsUser(x, sess[p].user)
         /\ At(p, "withdraw") => \E r \in Receipts :
              HoldsReceipt(x, r) /\ purchases[r].owner = sess[p].user
  <1>1. /\ Local(sess[p]) /\ LockTypes
        /\ At(p, "gift-first") \/ At(p, "gift-second") =>
             First(p) \in Users /\ Second(p) \in Users
    BY NowTx, LocalsOf
  <1>2. x # p
    BY DEF Blockers
  <1>3. sess[p].pc \in {"gift-first", "gift-second", "iap-insert", "iap-apply",
                        "consume", "refund-lock", "refund-user", "withdraw"}
    BY DEF Blockers
  <1>4. CASE At(p, "gift-first")
    BY <1>1, <1>2, <1>3, <1>4
    DEF Blockers, At, UserHolders, KeyShare, HoldsUser
  <1>5. CASE At(p, "gift-second")
    BY <1>1, <1>2, <1>3, <1>5
    DEF Blockers, At, UserHolders, KeyShare, HoldsUser
  <1>6. CASE At(p, "refund-user")
    BY <1>1, <1>2, <1>3, <1>6
    DEF Blockers, At, UserHolders, KeyShare, HoldsUser, Local
  <1>7. CASE At(p, "iap-insert")
    BY <1>1, <1>2, <1>3, <1>7
    DEF Blockers, At, HoldsUser, HoldsReceipt, Local
  <1>8. CASE At(p, "iap-apply")
    BY <1>1, <1>2, <1>3, <1>8 DEF Blockers, At, HoldsUser, Local
  <1>9. CASE At(p, "consume") \/ At(p, "refund-lock")
    BY <1>1, <1>2, <1>3, <1>9 DEF Blockers, At, HoldsReceipt, Local
  <1>10. CASE At(p, "withdraw")
    BY <1>1, <1>2, <1>3, <1>10
    DEF Blockers, At, HoldsReceipt, Local, PurchasesOf
  <1> QED BY <1>3, <1>4, <1>5, <1>6, <1>7, <1>8, <1>9, <1>10 DEF At

(* A session that only updates waits for nobody, so the insert of a        *)
(* purchase waits for none that waits.                                     *)
LEMMA InsertWaitsForNoWaiter ==
  ASSUME IInv, TxInv, NEW p \in Sessions, NEW x \in Sessions, x \in Blockers(p),
         At(p, "iap-apply"), NEW y \in Sessions, y \in Blockers(x)
  PROVE  FALSE
  <1>1. HoldsUser(x, sess[p].user) /\ UpdatesOnly(p) /\ None \notin Sessions
    BY WaitsFor, TxOf, UsersAssumption DEF TxKnows
  <1>2. OnlyUpdates(x)
    BY <1>1 DEF HoldsUser, UpdatesOnly
  <1> QED BY <1>2, WaitsFor DEF OnlyUpdates

(* Gifts lock in id order; the one cycle that the handlers can form is a   *)
(* withdrawal against a refund of the same user's receipt, for any number  *)
(* of sessions, users and receipts.                                        *)
THEOREM OneKindOfDeadlock == Spec => []OnlyWithdrawAndRefundDeadlock
  <1>1. IInv /\ TxInv => OnlyWithdrawAndRefundDeadlock
    <2> SUFFICES ASSUME IInv, TxInv, NEW S \in SUBSET Sessions, Deadlocked(S)
                 PROVE  \E p, q \in S : /\ S = {p, q} /\ At(p, "withdraw")
                                        /\ At(q, "refund-user")
      BY DEF OnlyWithdrawAndRefundDeadlock
    <2> DEFINE Waiting(T) == T # {} /\ \A p \in T : \E x \in T : x \in Blockers(p)
    <2>1. /\ Waiting(S)
          /\ \A T \in SUBSET S : Waiting(T) => T = S
      <3>1. \A T \in SUBSET S :
              Stuck(T, [p \in Sessions |-> Blockers(p)]) <=> Waiting(T)
        BY DEF Stuck
      <3> QED BY <3>1 DEF Deadlocked, Cycle
    <2> HIDE DEF Waiting
    <2>2. \A p \in S : \E x \in S : x \in Blockers(p)
      BY <2>1 DEF Waiting
    <2>3. \A p, x \in S : x \in Blockers(p) => ~At(p, "iap-apply")
      BY <2>2, InsertWaitsForNoWaiter
    <2>4. \A p \in S : ~At(p, "iap-apply")
      BY <2>2, <2>3
    <2>5. ASSUME NEW p \in S PROVE \E x \in S : p \in Blockers(x)
      <3> SUFFICES ASSUME \A x \in S : p \notin Blockers(x) PROVE FALSE
        OBVIOUS
      <3>1. PICK x \in S : x \in Blockers(p)
        BY <2>2
      <3>2. x # p
        BY <3>1, WaitsFor
      <3>3. Waiting(S \ {p})
        BY <2>2, <3>2 DEF Waiting
      <3>4. S \ {p} = S
        BY <2>1, <3>3
      <3> QED BY <3>4
    <2>6. ASSUME NEW p \in S
          PROVE  sess[p].pc \in {"gift-second", "refund-user", "withdraw"}
      <3>1. sess[p].pc \in {"gift-first", "gift-second", "iap-insert",
                            "consume", "refund-lock", "refund-user", "withdraw"}
        BY <2>2, <2>4, WaitsFor DEF At
      <3>2. \/ \E u \in Users : HoldsUser(p, u)
            \/ \E r \in Receipts : HoldsReceipt(p, r)
        BY <2>4, <2>5, WaitsFor
      <3>3. \/ \E u \in Users : LocksUser(p, u)
            \/ \E r \in Receipts : LocksReceipt(p, r) \/ At(p, "withdraw")
        BY <3>2, TxOf DEF TxLocks, HoldsUser, HoldsReceipt
      <3> QED BY <3>1, <3>3 DEF LocksUser, LocksReceipt, Refunding, At
    <2>7. CASE \E p \in S : At(p, "withdraw")
      <3>1. PICK p \in S : At(p, "withdraw")
        BY <2>7
      <3>2. PICK y \in S : y \in Blockers(p)
        BY <2>2
      <3>3. PICK r \in Receipts : rcptLock[r] = y /\ purchases[r].owner = sess[p].user
        BY <3>1, <3>2, WaitsFor DEF HoldsReceipt
      <3>4. y # p
        BY <3>2, WaitsFor
      <3>5. userLock[sess[p].user] = p /\ sess[p].user \in Users
        BY <3>1, TxOf DEF TxLocks, LocksUser, Local, At
      <3>6. ~At(y, "withdraw")
        <4> SUFFICES ASSUME At(y, "withdraw") PROVE FALSE
          OBVIOUS
        <4>1. purchases[r].owner = sess[y].user
          BY <3>3, TxOf DEF TxLocks
        <4>2. userLock[sess[y].user] = y
          BY TxOf DEF TxLocks, LocksUser, Local, At
        <4> QED BY <3>3, <3>4, <3>5, <4>1, <4>2
      <3>7. LocksReceipt(y, r)
        BY <3>3, <3>6, TxOf DEF TxLocks
      <3>8. At(y, "refund-user") /\ sess[y].item = r
        BY <2>6, <3>6, <3>7 DEF LocksReceipt, Refunding, At
      <3>9. sess[y].user = sess[p].user
        BY <3>3, <3>8, TxOf DEF TxKnows, Refunding, At
      <3>10. p \in Blockers(y)
        BY <3>4, <3>5, <3>8, <3>9, UsersAssumption
        DEF Blockers, UserHolders, At
      <3>11. Waiting({p, y})
        BY <3>2, <3>10 DEF Waiting
      <3>12. S = {p, y}
        BY <2>1, <3>11
      <3> QED BY <3>1, <3>8, <3>12
    <2>8. CASE \A p \in S : ~At(p, "withdraw")
      <3>1. ASSUME NEW p \in S, NEW x \in S, x \in Blockers(p)
            PROVE  \E u \in Users : LocksUser(x, u)
                     /\ (At(p, "gift-second") => u = Second(p))
        <4>1. At(p, "gift-second") \/ At(p, "refund-user")
          BY <2>6, <2>8 DEF At
        <4>2. /\ At(p, "gift-second") => Second(p) \in Users
              /\ At(p, "refund-user") => sess[p].user \in Users
          BY LocalsOf DEF Local, At
        <4> QED BY <2>4, <3>1, <4>1, <4>2, WaitsFor, TxOf
                DEF TxLocks, HoldsUser, At
      <3>2. \A p \in S : At(p, "gift-second")
        BY <2>5, <2>6, <2>8, <3>1 DEF LocksUser, At
      <3>3. ASSUME NEW p \in S
            PROVE  First(p) \in Nat /\ Second(p) \in Nat /\ First(p) < Second(p)
        <4>1. /\ sess[p].user \in Nat /\ sess[p].peer \in Nat
              /\ sess[p].user # sess[p].peer
          BY <3>2, TxOf, UsersAssumption DEF TxKnows, Local, Gifting, At
        <4> QED BY <4>1 DEF First, Second, InIdOrder
      <3>4. \A p, x \in S : x \in Blockers(p) => First(x) = Second(p)
        BY <3>1, <3>2 DEF LocksUser, At
      <3>5. PICK p0 \in S : TRUE
        BY <2>1 DEF Waiting
      <3> DEFINE T == {x \in S : First(x) > First(p0)}
      <3>6. ASSUME NEW p \in S, First(p) >= First(p0)
            PROVE  \E x \in T : x \in Blockers(p)
        <4>1. PICK x \in S : x \in Blockers(p)
          BY <2>2
        <4>2. First(x) = Second(p)
          BY <3>4, <4>1
        <4> QED BY <3>3, <3>6, <4>1, <4>2
      <3>7. p0 \notin T /\ First(p0) >= First(p0)
        BY <3>3
      <3>8. Waiting(T)
        BY <3>3, <3>6, <3>7 DEF Waiting
      <3>9. T = S
        BY <2>1, <3>8
      <3> QED BY <3>7, <3>9
    <2> QED BY <2>7, <2>8
  <1> QED BY <1>1, TxInductive, Inductive, PTL

=============================================================================
