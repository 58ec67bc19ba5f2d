--------------------------- MODULE FriendsProofs ---------------------------
(***************************************************************************)
(* For every number of users and of requests at once: who is blocked stays *)
(* suppressed, two kinds of deadlock are the only ones, and the lists and  *)
(* blocks of a user change as the user says.                               *)
(***************************************************************************)
EXTENDS Friends, TLAPS

FriendTypes == friend \in [Pairs -> Marks \cup {None}]
BlockTypes == block \in [Pairs -> Kept \cup {None}]
SessTypes == sess \in [Sessions -> Session]
LockTypes ==
  /\ friendLock \in [Pairs -> Sessions \cup {None}]
  /\ blockLock \in [Pairs -> Sessions \cup {None}]

Blocking == {"block-friend", "block-delete", "block-save", "block-insert",
             "block-update", "block-commit"}
Saving == {"block-save", "block-insert", "block-update", "block-commit"}
Unblocking == {"unblock-delete", "unblock-insert", "unblock-commit"}
TouchingBack == {"send-touch-back", "claim-touch-back"}

(* Which rows a request has locked, by the statement it is at.             *)
LocksOf(p) ==
  /\ \A x \in Pairs : friendLock[x] = p =>
       \/ /\ x = Pair(p)
          /\ sess[p].pc \in Saving \cup TouchingBack \cup {"unblock-commit"}
       \/ x \in {Pair(p), Back(Pair(p))} /\ At(p, "touch-commit")
  /\ \A x \in Pairs : blockLock[x] = p =>
       /\ x = Pair(p)
       /\ sess[p].pc \in {"block-commit", "unblock-insert", "unblock-commit"}
  /\ sess[p].pc \in TouchingBack => friendLock[Pair(p)] = p

(* What it has read. *)
HasRead(p) ==
  /\ ~At(p, "idle") => Pair(p) \in Pairs
  /\ sess[p].pc \in Unblocking \cup {"block-delete"} => sess[p].read # None
  /\ At(p, "unblock-insert") => sess[p].read # "stranger"
  /\ At(p, "unblock-commit") /\ friendLock[Pair(p)] = p =>
       sess[p].read # "stranger" /\ friend[Pair(p)] = None
  /\ At(p, "send-block") /\ sess[p].blocked => block[Back(Pair(p))] # None

(* What a user whose app changes one entry once at a time has read of it   *)
(* stays so until the request ends.                                        *)
IsSerial(p) == sess[p].pc \in Settling /\ Pair(p)[1] \in Serial
SerialRead(p) ==
  LET r == Pair(p)
      read == sess[p].read
  IN  IsSerial(p) =>
        /\ sess[p].pc \in Blocking => block[r] = None /\ ~At(p, "block-update")
        /\ sess[p].pc \in Saving \cup {"block-delete"} /\ read # None =>
             friend[r] = read
        /\ sess[p].pc \in Saving /\ friendLock[r] = p => read # None
        /\ At(p, "block-commit") => blockLock[r] = p
        /\ sess[p].pc \in Unblocking => block[r] = read
        /\ At(p, "unblock-commit") /\ read # "stranger" /\ friendLock[r] # p =>
             friend[r] # None

LocksOK == \A p \in Sessions : LocksOf(p)
ReadsOK == \A p \in Sessions : HasRead(p)
SerialOK == \A p \in Sessions : SerialRead(p)
OneAtATime ==
  \A p, q \in Sessions :
    IsSerial(p) /\ sess[q].pc \in Settling /\ Pair(q) = Pair(p) => p = q

IInv ==
  /\ TypeOK /\ LocksOK /\ ReadsOK /\ SerialOK /\ OneAtATime
  /\ BlockSuppresses

LEMMA TypeParts == TypeOK <=> FriendTypes /\ BlockTypes /\ SessTypes /\ LockTypes
  BY DEF TypeOK, FriendTypes, BlockTypes, SessTypes, LockTypes

LEMMA BackPair ==
  ASSUME NEW r \in Pairs
  PROVE  /\ Back(r) \in Pairs /\ Back(Back(r)) = r /\ Back(r) # r
         /\ Back(r)[1] = r[2] /\ Back(r)[2] = r[1]
  <1>1. PICK u \in Users, v \in Users : r = <<u, v>> /\ u # v
    BY DEF Pairs
  <1> QED BY <1>1 DEF Pairs, Back

-----------------------------------------------------------------------------
(* What a step of one request does to what the others rely on. *)

Step(q) == Begin(q) \/ Continue(q) \/ Crash(q) \/ DeadlockVictim(q)
Edit(r) == Remove(r) \/ \E mark \in Marks : Update(r, mark)
Commits(q) == BlockCommit(q) \/ UnblockCommit(q) \/ TouchCommit(q)

LEMMA Steps ==
  ASSUME [Next]_vars
  PROVE  \/ \E q \in Sessions : Step(q)
         \/ \E r \in Pairs : Edit(r)
         \/ UNCHANGED vars
  BY DEF Next, Step, Edit

LEMMA PairOf ==
  ASSUME IInv, NEW q \in Sessions, ~At(q, "idle")
  PROVE  Pair(q) \in Pairs /\ Back(Pair(q)) \in Pairs
  BY BackPair DEF IInv, ReadsOK, HasRead

(* Locks are taken one at a time, and given back at the end. *)
LEMMA LocksMove ==
  ASSUME IInv, NEW q \in Sessions, Step(q)
  PROVE  \/ UNCHANGED locks
         \/ \E x \in Pairs : LockFriend(q, x) /\ UNCHANGED blockLock
         \/ \E x \in Pairs : LockBlock(q, x) /\ UNCHANGED friendLock
         \/ Release(q)
  <1>1. CASE Begin(q)
    BY <1>1 DEF Begin, BlockBegin, UnblockBegin, SendBegin, ClaimBegin
  <1>2. CASE Crash(q) \/ DeadlockVictim(q)
    BY <1>2 DEF Crash, DeadlockVictim, Rollback
  <1>3. CASE Continue(q)
    <2>1. Pair(q) \in Pairs /\ Back(Pair(q)) \in Pairs
      BY <1>3, PairOf
      DEF Continue, BlockReadFriend, BlockDelete, BlockSave, BlockInsert,
          BlockRefused, BlockUpdate, BlockCommit, UnblockDelete, UnblockInsert,
          UnblockCommit, SendReadBlock, SendTouch, SendTouchBack, ClaimTouch,
          ClaimTouchBack, TouchCommit, At
    <2>2. CASE \/ BlockReadFriend(q) \/ BlockSave(q) \/ BlockRefused(q)
               \/ Commits(q) \/ SendReadBlock(q)
      BY <2>2 DEF BlockReadFriend, BlockSave, BlockRefused, Rollback, Commits,
                  BlockCommit, UnblockCommit, TouchCommit, Finish, SendReadBlock
    <2>3. CASE \/ BlockDelete(q) \/ BlockInsert(q) \/ BlockUpdate(q)
               \/ UnblockDelete(q) \/ UnblockInsert(q)
      BY <2>1, <2>3
      DEF BlockDelete, BlockInsert, BlockUpdate, UnblockDelete, UnblockInsert,
          locks
    <2>4. CASE \/ SendTouch(q) \/ SendTouchBack(q) \/ ClaimTouch(q)
               \/ ClaimTouchBack(q)
      BY <2>1, <2>4
      DEF SendTouch, SendTouchBack, ClaimTouch, ClaimTouchBack, SendOrder,
          ClaimOrder
    <2> QED BY <1>3, <2>2, <2>3, <2>4 DEF Continue, Commits
  <1> QED BY <1>1, <1>2, <1>3 DEF Step

LEMMA LocksStay ==
  ASSUME IInv, NEW q \in Sessions, Step(q)
  PROVE  /\ LockTypes'
         /\ \A p \in Sessions \ {q}, x \in Pairs :
              /\ friendLock'[x] = p <=> friendLock[x] = p
              /\ blockLock'[x] = p <=> blockLock[x] = p
  <1>0. LockTypes /\ None \notin Sessions
    BY TypeParts, FriendsAssumption DEF IInv
  <1>1. CASE UNCHANGED locks
    BY <1>0, <1>1 DEF locks, LockTypes
  <1>2. ASSUME NEW x \in Pairs, LockFriend(q, x), UNCHANGED blockLock
        PROVE  /\ LockTypes'
               /\ \A p \in Sessions \ {q}, y \in Pairs :
                    /\ friendLock'[y] = p <=> friendLock[y] = p
                    /\ blockLock'[y] = p <=> blockLock[y] = p
    BY <1>0, <1>2 DEF LockFriend, LockTypes
  <1>3. ASSUME NEW x \in Pairs, LockBlock(q, x), UNCHANGED friendLock
        PROVE  /\ LockTypes'
               /\ \A p \in Sessions \ {q}, y \in Pairs :
                    /\ friendLock'[y] = p <=> friendLock[y] = p
                    /\ blockLock'[y] = p <=> blockLock[y] = p
    BY <1>0, <1>3 DEF LockBlock, LockTypes
  <1>4. CASE Release(q)
    BY <1>0, <1>4 DEF Release, Unlocked, LockTypes
  <1> QED BY <1>1, <1>2, <1>3, <1>4, LocksMove

(* Rows are changed by their holder's commit; a touch changes no row that  *)
(* is there.                                                               *)
LEMMA RowsMove ==
  ASSUME IInv, NEW q \in Sessions, Step(q)
  PROVE  /\ FriendTypes' /\ BlockTypes'
         /\ \A x \in Pairs :
              /\ friendLock[x] # q => friend'[x] = friend[x]
              /\ blockLock[x] # q => block'[x] = block[x]
              /\ sess[q].pc \in TouchingBack \cup {"touch-commit"} =>
                   (friend[x] # None => friend'[x] = friend[x])
  <1> DEFINE r == Pair(q)
  <1>0. /\ FriendTypes /\ BlockTypes /\ SessTypes /\ LocksOf(q) /\ HasRead(q)
        /\ "plain" \in Marks
    BY TypeParts, FriendsAssumption DEF IInv, LocksOK, ReadsOK
  <1>1. CASE UNCHANGED tables
    BY <1>0, <1>1 DEF tables, FriendTypes, BlockTypes
  <1>2. CASE BlockCommit(q)
    <2> DEFINE kept == IF sess[q].read = None THEN "stranger" ELSE sess[q].read
    <2>1. /\ r \in Pairs /\ kept \in Kept
          /\ sess[q].pc \notin TouchingBack \cup {"touch-commit"}
      BY <1>0, <1>2 DEF BlockCommit, HasRead, At, SessTypes, Session, Kept,
                        TouchingBack
    <2>2. /\ friend' = [friend EXCEPT ![r] = IF friendLock[r] = q THEN None
                                             ELSE @]
          /\ block' = [block EXCEPT ![r] = IF blockLock[r] = q THEN kept ELSE @]
      BY <1>2 DEF BlockCommit
    <2> HIDE DEF kept
    <2> QED BY <1>0, <2>1, <2>2 DEF FriendTypes, BlockTypes
  <1>3. CASE UnblockCommit(q)
    <2>1. /\ r \in Pairs
          /\ sess[q].pc \notin TouchingBack \cup {"touch-commit"}
      BY <1>0, <1>3 DEF UnblockCommit, HasRead, At, TouchingBack
    <2>2. friendLock[r] = q => sess[q].read \in Marks
      BY <1>0, <1>3
      DEF UnblockCommit, HasRead, At, SessTypes, Session, Kept, Unblocking
    <2>3. /\ block' = [block EXCEPT ![r] = IF blockLock[r] = q THEN None ELSE @]
          /\ friend' = [friend EXCEPT ![r] = IF friendLock[r] = q
                                             THEN sess[q].read ELSE @]
      BY <1>3 DEF UnblockCommit
    <2> QED BY <1>0, <2>1, <2>2, <2>3 DEF FriendTypes, BlockTypes
  <1>4. CASE TouchCommit(q)
    BY <1>0, <1>4 DEF TouchCommit, FriendTypes, BlockTypes
  <1>5. UNCHANGED tables \/ Commits(q)
    <2>1. CASE Begin(q)
      BY <2>1 DEF Begin, BlockBegin, UnblockBegin, SendBegin, ClaimBegin
    <2>2. CASE Crash(q) \/ DeadlockVictim(q)
      BY <2>2 DEF Crash, DeadlockVictim, Rollback
    <2>3. CASE Continue(q)
      BY <2>3
      DEF Continue, Commits, BlockReadFriend, BlockDelete, BlockSave,
          BlockInsert, BlockRefused, Rollback, BlockUpdate, UnblockDelete,
          UnblockInsert, SendReadBlock, SendTouch, SendTouchBack, ClaimTouch,
          ClaimTouchBack
    <2> QED BY <2>1, <2>2, <2>3 DEF Step
  <1> QED BY <1>1, <1>2, <1>3, <1>4, <1>5 DEF Commits

(* The other requests go on as they were; at a commit those are no longer  *)
(* marked as blocked that are not.                                         *)
Same(p) ==
  /\ sess'[p].pc = sess[p].pc /\ sess'[p].pair = sess[p].pair
  /\ sess'[p].read = sess[p].read /\ sess'[p].suppressed = sess[p].suppressed
  /\ sess'[p].blocked =>
       sess[p].blocked /\ (block' = block \/ block'[Back(Pair(p))] # None)

LEMMA SessMove ==
  ASSUME IInv, NEW q \in Sessions, Step(q)
  PROVE  /\ SessTypes'
         /\ \A p \in Sessions \ {q} : Same(p)
  <1>0. SessTypes /\ BlockTypes /\ FriendTypes
    BY TypeParts DEF IInv
  <1>1. ASSUME NEW s \in Session, sess' = [sess EXCEPT ![q] = s],
               block' = block
        PROVE  SessTypes' /\ \A p \in Sessions \ {q} : Same(p)
    BY <1>0, <1>1 DEF SessTypes, Same
  <1>2. Idle \in Session /\ \A pc \in PCs, r \in Pairs : Task(pc, r) \in Session
    BY DEF Idle, Task, Session, PCs
  <1>3. CASE Begin(q)
    <2>1. PICK r \in Pairs : \/ BlockBegin(q, r) \/ UnblockBegin(q, r)
                             \/ SendBegin(q, r) \/ ClaimBegin(q, r)
      BY <1>3 DEF Begin
    <2>2. block' = block
      BY <2>1 DEF BlockBegin, UnblockBegin, SendBegin, ClaimBegin, tables
    <2>3. CASE BlockBegin(q, r) \/ ClaimBegin(q, r)
      <3>1. PICK pc \in PCs : sess' = [sess EXCEPT ![q] = Task(pc, r)]
        BY <2>3 DEF BlockBegin, ClaimBegin, Start, PCs
      <3> QED BY <1>1, <1>2, <2>2, <3>1
    <2>4. CASE UnblockBegin(q, r)
      <3> DEFINE s == [Task("unblock-delete", r) EXCEPT !.read = block[r]]
      <3>1. s \in Session
        BY <1>0 DEF Task, Session, PCs, BlockTypes
      <3>2. sess' = [sess EXCEPT ![q] = s]
        BY <2>4 DEF UnblockBegin, Start
      <3> HIDE DEF s
      <3> QED BY <1>1, <2>2, <3>1, <3>2
    <2>5. CASE SendBegin(q, r)
      <3> DEFINE blocked == block[Back(r)] # None
                 s == [Task("send-block", r) EXCEPT !.blocked = blocked]
      <3>1. blocked \in BOOLEAN
        OBVIOUS
      <3>2. sess' = [sess EXCEPT ![q] = s]
        BY <2>5 DEF SendBegin, Start
      <3> HIDE DEF blocked
      <3>3. s \in Session
        BY <3>1 DEF Task, Session, PCs
      <3> HIDE DEF s
      <3> QED BY <1>1, <2>2, <3>2, <3>3
    <2> QED BY <2>1, <2>3, <2>4, <2>5
  <1>4. CASE Crash(q) \/ DeadlockVictim(q) \/ BlockRefused(q)
    BY <1>1, <1>2, <1>4 DEF Crash, DeadlockVictim, BlockRefused, Rollback, tables
  <1>5. CASE Commits(q)
    <2>1. sess' = [p \in Sessions |-> IF p = q THEN Idle ELSE
                     [sess[p] EXCEPT !.blocked =
                        @ /\ block'[Back(sess[p].pair)] # None]]
      BY <1>5 DEF Commits, BlockCommit, UnblockCommit, TouchCommit, Finish
    <2>2. ASSUME NEW p \in Sessions \ {q}
          PROVE  sess'[p] \in Session /\ Same(p)
      <3> DEFINE still == sess[p].blocked /\ block'[Back(sess[p].pair)] # None
      <3>1. still \in BOOLEAN
        OBVIOUS
      <3>2. sess'[p] = [sess[p] EXCEPT !.blocked = still]
        BY <2>1
      <3>3. still => sess[p].blocked /\ block'[Back(Pair(p))] # None
        BY DEF Pair
      <3> HIDE DEF still
      <3>4. sess[p] \in Session
        BY <1>0 DEF SessTypes
      <3> QED BY <3>1, <3>2, <3>3, <3>4 DEF Session, Same
    <2>3. \A p \in Sessions : sess'[p] \in Session
      BY <1>2, <2>1, <2>2
    <2>4. SessTypes'
      BY <2>1, <2>3 DEF SessTypes
    <2> QED BY <2>2, <2>4
  <1>6. CASE Continue(q) /\ ~Commits(q) /\ ~BlockRefused(q)
    <2>1. block' = block
      BY <1>6
      DEF Continue, Commits, BlockReadFriend, BlockDelete, BlockSave,
          BlockInsert, BlockUpdate, UnblockDelete, UnblockInsert, SendReadBlock,
          SendTouch, SendTouchBack, ClaimTouch, ClaimTouchBack, tables
    <2>2. CASE \E pc \in PCs : Goto(q, pc)
      <3>1. PICK pc \in PCs : sess' = [sess EXCEPT ![q] = [sess[q] EXCEPT !.pc = pc]]
        BY <1>0, <2>2 DEF Goto, SessTypes
      <3>2. [sess[q] EXCEPT !.pc = pc] \in Session
        BY <1>0 DEF SessTypes, Session
      <3> QED BY <1>1, <2>1, <3>1, <3>2
    <2>3. CASE BlockReadFriend(q)
      <3>1. Pair(q) \in Pairs
        BY <2>3, PairOf DEF BlockReadFriend, At
      <3>2. PICK pc \in PCs :
              sess' = [sess EXCEPT ![q].pc = pc, ![q].read = friend[Pair(q)]]
        BY <2>3 DEF BlockReadFriend, Read, PCs
      <3>3. [sess[q] EXCEPT !.pc = pc, !.read = friend[Pair(q)]] \in Session
        BY <1>0, <3>1 DEF SessTypes, Session, FriendTypes, Kept
      <3>4. sess' = [sess EXCEPT ![q] =
                       [sess[q] EXCEPT !.pc = pc, !.read = friend[Pair(q)]]]
        BY <1>0, <3>2 DEF SessTypes
      <3> QED BY <1>1, <2>1, <3>3, <3>4
    <2>4. CASE SendReadBlock(q)
      <3> DEFINE supp == block[Back(Pair(q))] # None
      <3>1. supp \in BOOLEAN
        OBVIOUS
      <3>2. sess' = [sess EXCEPT ![q].pc = "send-touch", ![q].suppressed = supp]
        BY <2>4 DEF SendReadBlock
      <3> HIDE DEF supp
      <3>3. [sess[q] EXCEPT !.pc = "send-touch", !.suppressed = supp] \in Session
        BY <1>0, <3>1 DEF SessTypes, Session, PCs
      <3>4. sess' = [sess EXCEPT ![q] =
                       [sess[q] EXCEPT !.pc = "send-touch", !.suppressed = supp]]
        BY <1>0, <3>2 DEF SessTypes
      <3> QED BY <1>1, <2>1, <3>3, <3>4
    <2> QED BY <1>6, <2>2, <2>3, <2>4
            DEF Continue, Commits, BlockDelete, BlockSave, BlockInsert,
                BlockUpdate, UnblockDelete, UnblockInsert, SendTouch,
                SendTouchBack, ClaimTouch, ClaimTouchBack, PCs
  <1> QED BY <1>3, <1>4, <1>5, <1>6 DEF Step

LEMMA OthersKeep ==
  ASSUME IInv, NEW q \in Sessions, Step(q), NEW p \in Sessions \ {q}
  PROVE  LocksOf(p)' /\ HasRead(p)' /\ SerialRead(p)'
  <1>1. /\ LocksOf(p) /\ HasRead(p) /\ SerialRead(p) /\ LocksOf(q)
        /\ SessTypes /\ Same(p)
    BY TypeParts, SessMove DEF IInv, LocksOK, ReadsOK, SerialOK
  <1>2. \A x \in Pairs : /\ friendLock'[x] = p <=> friendLock[x] = p
                         /\ blockLock'[x] = p <=> blockLock[x] = p
    BY LocksStay
  <1>3. \A x \in Pairs :
          /\ friendLock[x] # q => friend'[x] = friend[x]
          /\ blockLock[x] # q => block'[x] = block[x]
          /\ sess[q].pc \in TouchingBack \cup {"touch-commit"} =>
               (friend[x] # None => friend'[x] = friend[x])
    BY RowsMove
  <1>4. Pair(p)' = Pair(p) /\ \A pc \in PCs : At(p, pc)' <=> At(p, pc)
    BY <1>1 DEF Same, Pair, At
  <1>5. sess[p].pc # "idle" => Pair(p) \in Pairs /\ Back(Pair(p)) \in Pairs
    BY PairOf DEF At
  <1>6. LocksOf(p)'
    BY <1>1, <1>2, <1>4, <1>5
    DEF LocksOf, At, Same, Saving, TouchingBack
  <1>7. HasRead(p)'
    BY <1>1, <1>2, <1>3, <1>4, <1>5 DEF HasRead, At, Same, Unblocking
  <1>8. SerialRead(p)'
    <2> DEFINE r == Pair(p)
    <2> SUFFICES ASSUME IsSerial(p)'
                 PROVE  SerialRead(p)'
      BY DEF SerialRead
    <2>1. IsSerial(p) /\ r \in Pairs
      BY <1>1, <1>4, <1>5 DEF IsSerial, Settling, Same
    <2>2. sess[q].pc \in Settling => Pair(q) # r
      BY <2>1 DEF IInv, OneAtATime
    <2>3. blockLock[r] # q
      BY <1>1, <2>1, <2>2 DEF LocksOf, Settling
    <2>4. friendLock[r] = q => sess[q].pc \in TouchingBack \cup {"touch-commit"}
      BY <1>1, <2>1, <2>2 DEF LocksOf, At, Saving, Settling
    <2>5. block'[r] = block[r] /\ (friend[r] # None => friend'[r] = friend[r])
      BY <1>3, <2>1, <2>3, <2>4
    <2> QED BY <1>1, <1>2, <1>4, <2>1, <2>5
            DEF SerialRead, At, Same, Blocking, Saving, Unblocking
  <1> QED BY <1>6, <1>7, <1>8

-----------------------------------------------------------------------------
(* What the request that moves holds and has read.                         *)

Told(p) == sess[p].blocked /\ ~At(p, "send-block") => sess[p].suppressed
Own(p) == LocksOf(p) /\ HasRead(p) /\ SerialRead(p) /\ Told(p)
Fixed ==
  /\ FriendTypes /\ BlockTypes /\ SessTypes /\ LockTypes
  /\ None \notin Sessions /\ None \notin Marks /\ "stranger" \notin Marks
  /\ None # "stranger" /\ "plain" \in Marks
Becomes(p, pc) ==
  /\ sess'[p].pc = pc /\ sess'[p].pair = sess[p].pair
  /\ sess'[p].read = sess[p].read /\ sess'[p].suppressed = sess[p].suppressed
  /\ sess'[p].blocked = sess[p].blocked

LEMMA OwnNow ==
  ASSUME IInv, NEW q \in Sessions
  PROVE  Own(q) /\ Fixed
  BY TypeParts, FriendsAssumption
  DEF IInv, LocksOK, ReadsOK, SerialOK, BlockSuppresses, Own, Told, Fixed

LEMMA GotoBecomes ==
  ASSUME Fixed, NEW q \in Sessions, NEW pc, Goto(q, pc)
  PROVE  Becomes(q, pc)
  BY DEF Fixed, Goto, Becomes, SessTypes, Session

LEMMA EndKeeps ==
  ASSUME Fixed, NEW q \in Sessions, sess'[q] = Idle, Release(q)
  PROVE  Own(q)'
  <1>1. \A x \in Pairs : friendLock'[x] # q /\ blockLock'[x] # q
    BY DEF Fixed, Release, Unlocked
  <1> QED BY <1>1 DEF Own, LocksOf, HasRead, SerialRead, IsSerial, Settling,
                      Told, At, Idle, Task, TouchingBack, Unblocking

LEMMA BeginKeeps ==
  ASSUME IInv, NEW q \in Sessions, Begin(q)
  PROVE  Own(q)'
  <1>1. PICK r \in Pairs : \/ BlockBegin(q, r) \/ UnblockBegin(q, r)
                           \/ SendBegin(q, r) \/ ClaimBegin(q, r)
    BY DEF Begin
  <1>2. Own(q) /\ Fixed /\ At(q, "idle") /\ UNCHANGED <<tables, locks>>
    BY <1>1, OwnNow
    DEF BlockBegin, UnblockBegin, SendBegin, ClaimBegin, Start
  <1>3. \A x \in Pairs : friendLock'[x] # q /\ blockLock'[x] # q
    BY <1>2 DEF Own, LocksOf, At, locks, Saving, TouchingBack
  <1>4. CASE BlockBegin(q, r)
    <2>1. sess'[q] = Task("block-friend", r) /\ block'[r] = None
      BY <1>2, <1>4 DEF BlockBegin, Start, Fixed, SessTypes, tables
    <2> QED BY <1>1, <1>3, <2>1
            DEF Own, LocksOf, HasRead, SerialRead, Told, At, Pair, Task,
                TouchingBack, Unblocking, Saving, Blocking
  <1>5. CASE ClaimBegin(q, r)
    <2>1. sess'[q] = Task("claim-touch", r)
      BY <1>2, <1>5 DEF ClaimBegin, Start, Fixed, SessTypes
    <2> QED BY <1>1, <1>3, <2>1
            DEF Own, LocksOf, HasRead, SerialRead, Told, At, Pair, Task,
                TouchingBack, Unblocking, Saving, Blocking
  <1>6. CASE UnblockBegin(q, r)
    <2>1. /\ sess'[q] = [Task("unblock-delete", r) EXCEPT !.read = block[r]]
          /\ block'[r] = block[r] /\ block[r] # None
      BY <1>2, <1>6 DEF UnblockBegin, Start, Fixed, SessTypes, tables
    <2>2. /\ sess'[q].pc = "unblock-delete" /\ sess'[q].pair = r
          /\ sess'[q].read = block[r] /\ sess'[q].blocked = FALSE
      BY <2>1 DEF Task
    <2> QED BY <1>1, <1>3, <2>1, <2>2
            DEF Own, LocksOf, HasRead, SerialRead, Told, At, Pair,
                TouchingBack, Unblocking, Saving, Blocking
  <1>7. CASE SendBegin(q, r)
    <2>1. /\ sess'[q] = [Task("send-block", r) EXCEPT
                           !.blocked = block[Back(r)] # None]
          /\ block' = block
      BY <1>2, <1>7 DEF SendBegin, Start, Fixed, SessTypes, tables
    <2>2. /\ sess'[q].pc = "send-block" /\ sess'[q].pair = r
          /\ sess'[q].blocked => block'[Back(r)] # None
      BY <2>1 DEF Task
    <2> QED BY <1>1, <1>3, <2>2
            DEF Own, LocksOf, HasRead, SerialRead, Told, At, Pair,
                TouchingBack, Unblocking, Saving, Blocking
  <1> QED BY <1>1, <1>4, <1>5, <1>6, <1>7

LEMMA BlockKeeps ==
  ASSUME IInv, NEW q \in Sessions,
         \/ BlockReadFriend(q) \/ BlockDelete(q) \/ BlockSave(q)
         \/ BlockInsert(q) \/ BlockUpdate(q)
  PROVE  Own(q)'
  <1>1. Own(q) /\ Fixed
    BY OwnNow
  <1>2. Pair(q) \in Pairs
    BY PairOf DEF BlockReadFriend, BlockDelete, BlockSave, BlockInsert,
                  BlockUpdate, At
  <1>3. UNCHANGED tables
    BY DEF BlockReadFriend, BlockDelete, BlockSave, BlockInsert, BlockUpdate
  <1>4. CASE BlockReadFriend(q)
    <2> DEFINE next == IF friend[Pair(q)] = None THEN "block-save"
                                                 ELSE "block-delete"
    <2>1. /\ sess'[q].pc = next /\ sess'[q].pair = sess[q].pair
          /\ sess'[q].read = friend[Pair(q)]
          /\ sess'[q].blocked = sess[q].blocked
          /\ sess'[q].suppressed = sess[q].suppressed
      BY <1>1, <1>4 DEF BlockReadFriend, Read, Fixed, SessTypes, Session
    <2>2. UNCHANGED locks /\ At(q, "block-friend")
      BY <1>4 DEF BlockReadFriend
    <2>3. \A x \in Pairs : friendLock'[x] # q /\ blockLock'[x] # q
      BY <1>1, <2>2 DEF Own, LocksOf, At, Saving, TouchingBack, locks
    <2>4. LocksOf(q)' /\ HasRead(q)' /\ Told(q)'
      BY <1>1, <1>2, <2>1, <2>2, <2>3
      DEF Own, LocksOf, HasRead, Told, At, Pair, TouchingBack, Unblocking
    <2>5. SerialRead(q)'
      BY <1>1, <1>2, <1>3, <2>1, <2>2, <2>3
      DEF Own, SerialRead, IsSerial, Settling, At, Pair, Unblocking, Saving,
          Blocking, tables
    <2> QED BY <2>4, <2>5 DEF Own
  <1>5. CASE BlockDelete(q)
    <2>1. Becomes(q, "block-save") /\ At(q, "block-delete")
      BY <1>1, <1>5, GotoBecomes DEF BlockDelete
    <2>2. /\ blockLock' = blockLock
          /\ \A x \in Pairs \ {Pair(q)} : friendLock'[x] = friendLock[x]
          /\ friendLock'[Pair(q)] = q => friend[Pair(q)] # None
      BY <1>1, <1>2, <1>5
      DEF BlockDelete, LockFriend, Fixed, LockTypes, Own, LocksOf, At, Free
    <2>3. LocksOf(q)'
      BY <1>1, <2>1, <2>2
      DEF Own, LocksOf, At, Pair, TouchingBack, Saving, Becomes
    <2>4. HasRead(q)' /\ Told(q)'
      BY <1>1, <1>2, <2>1 DEF Own, HasRead, Told, At, Pair, Becomes, Unblocking
    <2>5. SerialRead(q)'
      BY <1>1, <1>2, <1>3, <2>1, <2>2
      DEF Own, HasRead, SerialRead, IsSerial, Settling, At, Pair, Becomes,
          Unblocking, Saving, Blocking, tables
    <2> QED BY <2>3, <2>4, <2>5 DEF Own
  <1>6. CASE BlockSave(q)
    <2> DEFINE next == IF block[Pair(q)] = None THEN "block-insert"
                                                ELSE "block-update"
    <2>1. Becomes(q, next) /\ At(q, "block-save") /\ UNCHANGED locks
      BY <1>1, <1>6, GotoBecomes DEF BlockSave
    <2>2. LocksOf(q)'
      BY <1>1, <2>1
      DEF Own, LocksOf, At, Pair, TouchingBack, Saving, Becomes, locks
    <2>3. HasRead(q)' /\ Told(q)'
      BY <1>1, <1>2, <2>1 DEF Own, HasRead, Told, At, Pair, Becomes, Unblocking
    <2>4. SerialRead(q)'
      BY <1>1, <1>2, <1>3, <2>1
      DEF Own, SerialRead, IsSerial, Settling, At, Pair, Becomes, Unblocking,
          Saving, Blocking, tables, locks
    <2> QED BY <2>2, <2>3, <2>4 DEF Own
  <1>7. CASE BlockInsert(q) \/ BlockUpdate(q)
    <2>1. Becomes(q, "block-commit") /\ sess[q].pc \in {"block-insert",
                                                        "block-update"}
      BY <1>1, <1>7, GotoBecomes DEF BlockInsert, BlockUpdate, At
    <2>2. /\ friendLock' = friendLock
          /\ \A x \in Pairs \ {Pair(q)} : blockLock'[x] = blockLock[x]
          /\ At(q, "block-insert") => blockLock'[Pair(q)] = q
      BY <1>1, <1>2, <1>7
      DEF BlockInsert, BlockUpdate, LockBlock, Fixed, LockTypes, At
    <2>3. LocksOf(q)'
      BY <1>1, <2>1, <2>2
      DEF Own, LocksOf, At, Pair, TouchingBack, Saving, Becomes
    <2>4. HasRead(q)' /\ Told(q)'
      BY <1>1, <1>2, <2>1 DEF Own, HasRead, Told, At, Pair, Becomes, Unblocking
    <2>5. SerialRead(q)'
      BY <1>1, <1>2, <1>3, <2>1, <2>2
      DEF Own, SerialRead, IsSerial, Settling, At, Pair, Becomes, Unblocking,
          Saving, Blocking, tables
    <2> QED BY <2>3, <2>4, <2>5 DEF Own
  <1> QED BY <1>4, <1>5, <1>6, <1>7

LEMMA UnblockKeeps ==
  ASSUME IInv, NEW q \in Sessions, UnblockDelete(q) \/ UnblockInsert(q)
  PROVE  Own(q)'
  <1>1. Own(q) /\ Fixed
    BY OwnNow
  <1>2. Pair(q) \in Pairs
    BY PairOf DEF UnblockDelete, UnblockInsert, At
  <1>3. UNCHANGED tables
    BY DEF UnblockDelete, UnblockInsert
  <1>4. CASE UnblockDelete(q)
    <2> DEFINE next == IF sess[q].read = "stranger" THEN "unblock-commit"
                                                    ELSE "unblock-insert"
    <2>1. Becomes(q, next) /\ At(q, "unblock-delete") /\ friendLock' = friendLock
      BY <1>1, <1>4, GotoBecomes DEF UnblockDelete
    <2>2. \A x \in Pairs \ {Pair(q)} : blockLock'[x] = blockLock[x]
      BY <1>1, <1>4 DEF UnblockDelete, LockBlock, Fixed, LockTypes
    <2>3. \A x \in Pairs : friendLock[x] # q
      BY <1>1, <2>1 DEF Own, LocksOf, At, Saving, TouchingBack
    <2>4. LocksOf(q)'
      BY <1>1, <2>1, <2>2, <2>3
      DEF Own, LocksOf, At, Pair, TouchingBack, Saving, Becomes
    <2>5. HasRead(q)' /\ Told(q)'
      BY <1>1, <1>2, <2>1, <2>3
      DEF Own, HasRead, Told, At, Pair, Becomes, Unblocking
    <2>6. SerialRead(q)'
      BY <1>1, <1>2, <1>3, <2>1, <2>3
      DEF Own, SerialRead, IsSerial, Settling, At, Pair, Becomes, Unblocking,
          Saving, Blocking, tables
    <2> QED BY <2>4, <2>5, <2>6 DEF Own
  <1>5. CASE UnblockInsert(q)
    <2>1. Becomes(q, "unblock-commit") /\ At(q, "unblock-insert")
          /\ blockLock' = blockLock
      BY <1>1, <1>5, GotoBecomes DEF UnblockInsert
    <2>2. /\ \A x \in Pairs \ {Pair(q)} : friendLock'[x] = friendLock[x]
          /\ friendLock'[Pair(q)] = q <=> friend[Pair(q)] = None
      BY <1>1, <1>2, <1>5
      DEF UnblockInsert, LockFriend, Fixed, LockTypes, Free
    <2>3. \A x \in Pairs : friendLock[x] # q
      BY <1>1, <2>1 DEF Own, LocksOf, At, Saving, TouchingBack
    <2>4. LocksOf(q)'
      BY <1>1, <2>1, <2>2, <2>3
      DEF Own, LocksOf, At, Pair, TouchingBack, Saving, Becomes
    <2>5. HasRead(q)' /\ Told(q)'
      BY <1>1, <1>2, <1>3, <2>1, <2>2
      DEF Own, HasRead, Told, At, Pair, Becomes, Unblocking, tables
    <2>6. SerialRead(q)'
      BY <1>1, <1>2, <1>3, <2>1, <2>2
      DEF Own, SerialRead, IsSerial, Settling, At, Pair, Becomes, Unblocking,
          Saving, Blocking, tables
    <2> QED BY <2>4, <2>5, <2>6 DEF Own
  <1> QED BY <1>4, <1>5

LEMMA TouchKeeps ==
  ASSUME IInv, NEW q \in Sessions,
         \/ SendReadBlock(q) \/ SendTouch(q) \/ SendTouchBack(q)
         \/ ClaimTouch(q) \/ ClaimTouchBack(q)
  PROVE  Own(q)'
  <1>1. Own(q) /\ Fixed
    BY OwnNow
  <1>2. Pair(q) \in Pairs /\ Back(Pair(q)) \in Pairs
    BY PairOf DEF SendReadBlock, SendTouch, SendTouchBack, ClaimTouch,
                  ClaimTouchBack, At
  <1>3. UNCHANGED tables
    BY DEF SendReadBlock, SendTouch, SendTouchBack, ClaimTouch, ClaimTouchBack
  <1>4. CASE SendReadBlock(q)
    <2> DEFINE supp == block[Back(Pair(q))] # None
    <2>1. sess' = [sess EXCEPT ![q].pc = "send-touch", ![q].suppressed = supp]
      BY <1>4 DEF SendReadBlock
    <2>2. /\ sess'[q].pc = "send-touch" /\ sess'[q].pair = sess[q].pair
          /\ sess'[q].blocked = sess[q].blocked
          /\ sess'[q].suppressed = supp
      <3> HIDE DEF supp
      <3> QED BY <1>1, <2>1 DEF Fixed, SessTypes, Session
    <2>3. UNCHANGED locks /\ At(q, "send-block")
      BY <1>4 DEF SendReadBlock
    <2>4. Told(q)'
      BY <1>1, <2>2, <2>3 DEF Own, HasRead, Told, At
    <2> QED BY <1>1, <1>2, <1>3, <2>2, <2>3, <2>4
            DEF Own, LocksOf, HasRead, SerialRead, IsSerial, Settling, At,
                Pair, TouchingBack, Unblocking, Saving, Blocking, tables,
                locks
  <1>5. CASE SendTouch(q) \/ ClaimTouch(q)
    <2>1. PICK pc \in TouchingBack \cup {"touch-commit"} : Becomes(q, pc)
      BY <1>1, <1>5, GotoBecomes DEF SendTouch, ClaimTouch, TouchingBack
    <2>2. /\ sess[q].pc \in {"send-touch", "claim-touch"}
          /\ blockLock' = blockLock
          /\ friendLock' = [friendLock EXCEPT ![Pair(q)] = q]
      BY <1>5 DEF SendTouch, ClaimTouch, LockFriend, SendOrder, ClaimOrder, At
    <2>3. \A x \in Pairs : friendLock[x] # q /\ blockLock[x] # q
      BY <1>1, <2>2 DEF Own, LocksOf, At, Saving, TouchingBack
    <2>4. LocksOf(q)'
      BY <1>1, <1>2, <2>1, <2>2, <2>3
      DEF Fixed, LockTypes, LocksOf, At, Pair, TouchingBack, Becomes
    <2>5. HasRead(q)' /\ Told(q)' /\ SerialRead(q)'
      BY <1>1, <1>2, <2>1, <2>2
      DEF Own, HasRead, SerialRead, Told, At, Pair, Becomes, Unblocking,
          TouchingBack, Saving, Blocking
    <2> QED BY <2>4, <2>5 DEF Own
  <1>6. CASE SendTouchBack(q) \/ ClaimTouchBack(q)
    <2>1. Becomes(q, "touch-commit")
      BY <1>1, <1>6, GotoBecomes DEF SendTouchBack, ClaimTouchBack
    <2>2. /\ sess[q].pc \in TouchingBack
          /\ blockLock' = blockLock
          /\ friendLock' = [friendLock EXCEPT ![Back(Pair(q))] = q]
      BY <1>6 DEF SendTouchBack, ClaimTouchBack, LockFriend, SendOrder,
                  ClaimOrder, At, TouchingBack
    <2>3. \A x \in Pairs : /\ friendLock[x] = q => x = Pair(q)
                           /\ blockLock[x] # q
      BY <1>1, <2>2 DEF Own, LocksOf, At, Saving, TouchingBack
    <2>4. LocksOf(q)'
      BY <1>1, <1>2, <2>1, <2>2, <2>3
      DEF Fixed, LockTypes, LocksOf, At, Pair, TouchingBack, Becomes
    <2>5. HasRead(q)' /\ Told(q)' /\ SerialRead(q)'
      BY <1>1, <1>2, <2>1, <2>2
      DEF Own, HasRead, SerialRead, Told, At, Pair, Becomes, Unblocking,
          TouchingBack, Saving, Blocking
    <2> QED BY <2>4, <2>5 DEF Own
  <1> QED BY <1>4, <1>5, <1>6

LEMMA StepKeeps ==
  ASSUME IInv, NEW q \in Sessions, Step(q)
  PROVE  /\ Own(q)'
         /\ \/ sess'[q] = Idle
            \/ /\ Pair(q)' = Pair(q)
               /\ sess'[q].pc \in Settling => sess[q].pc \in Settling
            \/ sess'[q].pc \in Settling => MayAct(Pair(q)')
  <1>0. Fixed
    BY OwnNow
  <1>1. CASE Begin(q)
    <2>1. PICK s : /\ Start(q, s)
                   /\ s.pc \in Settling => MayAct(s.pair)
      BY <1>1
      DEF Begin, BlockBegin, UnblockBegin, SendBegin, ClaimBegin, Task,
          Settling
    <2>2. sess'[q] = s /\ Pair(q)' = s.pair
      BY <1>0, <2>1 DEF Start, Fixed, SessTypes, Pair
    <2> QED BY <1>1, <2>1, <2>2, BeginKeeps
  <1>2. CASE Crash(q) \/ DeadlockVictim(q) \/ BlockRefused(q)
    <2>1. sess'[q] = Idle /\ Release(q)
      BY <1>0, <1>2
      DEF Crash, DeadlockVictim, BlockRefused, Rollback, Fixed, SessTypes
    <2> QED BY <1>0, <2>1, EndKeeps
  <1>3. CASE Commits(q)
    <2>1. sess'[q] = Idle /\ Release(q)
      BY <1>3 DEF Commits, BlockCommit, UnblockCommit, TouchCommit, Finish
    <2> QED BY <1>0, <2>1, EndKeeps
  <1>4. CASE BlockReadFriend(q)
    <2>1. Own(q)'
      BY <1>4, BlockKeeps
    <2>2. /\ Pair(q)' = Pair(q)
          /\ sess'[q].pc \in Settling => sess[q].pc \in Settling
      BY <1>0, <1>4
      DEF BlockReadFriend, Read, At, Pair, Fixed, SessTypes, Session, Settling
    <2> QED BY <2>1, <2>2
  <1>5. CASE SendReadBlock(q)
    <2>1. Own(q)'
      BY <1>5, TouchKeeps
    <2>2. /\ Pair(q)' = Pair(q)
          /\ sess'[q].pc \in Settling => sess[q].pc \in Settling
      BY <1>0, <1>5 DEF SendReadBlock, At, Pair, Fixed, SessTypes, Session,
                        Settling
    <2> QED BY <2>1, <2>2
  <1>6. CASE Continue(q) /\ \E pc : Goto(q, pc)
    <2>1. Own(q)'
      <3>1. CASE BlockRefused(q) \/ Commits(q)
        BY <1>2, <1>3, <3>1
      <3> QED BY <1>6, <3>1, BlockKeeps, UnblockKeeps, TouchKeeps
              DEF Continue, Commits
    <2>2. PICK pc : Becomes(q, pc)
      BY <1>0, <1>6, GotoBecomes
    <2>3. Pair(q)' = Pair(q)
      BY <2>2 DEF Becomes, Pair
    <2>4. sess[q].pc \in Settling \/ sess'[q].pc \notin Settling
      <3>1. CASE \/ SendReadBlock(q) \/ SendTouch(q) \/ SendTouchBack(q)
                 \/ ClaimTouch(q) \/ ClaimTouchBack(q)
        <4>1. \E to \in TouchingBack \cup {"send-touch", "touch-commit"} :
                 Goto(q, to) \/ SendReadBlock(q)
          BY <3>1 DEF SendTouch, SendTouchBack, ClaimTouch, ClaimTouchBack,
                      TouchingBack
        <4>2. CASE SendReadBlock(q)
          BY <1>0, <4>2 DEF SendReadBlock, Fixed, SessTypes, Session, Settling
        <4>3. CASE \E to \in TouchingBack \cup {"send-touch", "touch-commit"} :
                     Goto(q, to)
          BY <1>0, <4>3, GotoBecomes DEF Becomes, TouchingBack, Settling
        <4> QED BY <4>1, <4>2, <4>3
      <3>2. CASE TouchCommit(q)
        BY <1>0, <3>2
        DEF TouchCommit, Finish, Fixed, SessTypes, Idle, Task, Settling
      <3>3. CASE \/ BlockReadFriend(q) \/ BlockDelete(q) \/ BlockSave(q)
                 \/ BlockInsert(q) \/ BlockRefused(q) \/ BlockUpdate(q)
                 \/ BlockCommit(q) \/ UnblockDelete(q) \/ UnblockInsert(q)
                 \/ UnblockCommit(q)
        BY <3>3
        DEF BlockReadFriend, BlockDelete, BlockSave, BlockInsert, BlockRefused,
            BlockUpdate, BlockCommit, UnblockDelete, UnblockInsert,
            UnblockCommit, At, Settling
      <3> QED BY <1>6, <3>1, <3>2, <3>3 DEF Continue
    <2> QED BY <2>1, <2>3, <2>4
  <1>7. Continue(q) => \/ BlockReadFriend(q) \/ SendReadBlock(q)
                       \/ BlockRefused(q) \/ Commits(q) \/ \E pc : Goto(q, pc)
    BY DEF Continue, Commits, BlockDelete, BlockSave, BlockInsert, BlockUpdate,
           UnblockDelete, UnblockInsert, SendTouch, SendTouchBack, ClaimTouch,
           ClaimTouchBack
  <1> QED BY <1>1, <1>2, <1>3, <1>4, <1>5, <1>6, <1>7 DEF Step

LEMMA StepInductive ==
  ASSUME IInv, NEW q \in Sessions, Step(q)
  PROVE  IInv'
  <1>1. TypeOK'
    <2>1. (TypeOK <=> FriendTypes /\ BlockTypes /\ SessTypes /\ LockTypes)'
      BY DEF TypeOK, FriendTypes, BlockTypes, SessTypes, LockTypes
    <2> QED BY <2>1, LocksStay, RowsMove, SessMove
  <1>2. \A p \in Sessions : LocksOf(p)' /\ HasRead(p)' /\ SerialRead(p)'
    BY OthersKeep, StepKeeps DEF Own
  <1>3. OneAtATime'
    <2>0. Pair(q)' = sess'[q].pair /\ \A p \in Sessions : Pair(p) = sess[p].pair
      BY DEF Pair
    <2>1. \A p \in Sessions \ {q} :
             Pair(p)' = Pair(p) /\ sess'[p].pc = sess[p].pc
      BY SessMove DEF Same, Pair
    <2>2. CASE sess'[q] = Idle
      <3>1. sess'[q].pc \notin Settling
        BY <2>2 DEF Idle, Task, Settling
      <3> QED BY <2>1, <3>1 DEF IInv, OneAtATime, IsSerial
    <2>3. CASE /\ Pair(q)' = Pair(q)
               /\ sess'[q].pc \in Settling => sess[q].pc \in Settling
      BY <2>1, <2>3 DEF IInv, OneAtATime, IsSerial
    <2>4. CASE sess'[q].pc \in Settling => MayAct(Pair(q)')
      BY <2>1, <2>4 DEF IInv, OneAtATime, IsSerial, Settling, MayAct
    <2> QED BY <2>2, <2>3, <2>4, StepKeeps
  <1>4. BlockSuppresses'
    <2>1. \A p \in Sessions \ {q} : Told(p)'
      BY SessMove DEF IInv, BlockSuppresses, Told, Same, At
    <2>2. Told(q)'
      BY StepKeeps DEF Own
    <2> QED BY <2>1, <2>2 DEF BlockSuppresses, Told, At
  <1> QED BY <1>1, <1>2, <1>3, <1>4 DEF IInv, LocksOK, ReadsOK, SerialOK

(* The edits of a list wait for the locks on its rows, and a user in       *)
(* Serial does not edit an entry while another of his changes it.          *)
LEMMA EditMoves ==
  ASSUME IInv, NEW r \in Pairs, Edit(r)
  PROVE  /\ MayAct(r) /\ friendLock[r] = None /\ friend[r] # None
         /\ UNCHANGED <<block, sess, locks>>
         /\ FriendTypes'
         /\ \A x \in Pairs \ {r} : friend'[x] = friend[x]
  <1>1. FriendTypes
    BY TypeParts DEF IInv
  <1> QED BY <1>1 DEF Edit, Remove, Update, Free, FriendTypes

LEMMA EditInductive ==
  ASSUME IInv, NEW r \in Pairs, Edit(r)
  PROVE  IInv'
  <1>1. /\ MayAct(r) /\ friendLock[r] = None
        /\ block' = block /\ sess' = sess
        /\ friendLock' = friendLock /\ blockLock' = blockLock
        /\ \A x \in Pairs \ {r} : friend'[x] = friend[x]
    BY EditMoves DEF locks
  <1>2. TypeOK'
    BY <1>1, EditMoves DEF IInv, TypeOK, FriendTypes
  <1>3. LocksOK' /\ OneAtATime' /\ BlockSuppresses'
    BY <1>1 DEF IInv, LocksOK, LocksOf, OneAtATime, IsSerial, Settling,
                BlockSuppresses, At, Pair
  <1>4. ASSUME NEW p \in Sessions
        PROVE  HasRead(p)' /\ SerialRead(p)'
    <2>1. HasRead(p) /\ SerialRead(p) /\ None \notin Sessions
      BY FriendsAssumption DEF IInv, ReadsOK, SerialOK
    <2>2. friendLock[Pair(p)] = p => Pair(p) # r
      BY <1>1, <2>1
    <2>3. ~At(p, "idle") => Pair(p) \in Pairs
      BY <2>1 DEF HasRead
    <2>4. IsSerial(p) => Pair(p) # r
      BY <1>1 DEF MayAct, IsSerial
    <2>5. HasRead(p)'
      BY <1>1, <2>1, <2>2, <2>3 DEF HasRead, At, Pair, Unblocking
    <2>6. SerialRead(p)'
      BY <1>1, <2>1, <2>3, <2>4
      DEF SerialRead, IsSerial, Settling, At, Pair, Blocking, Saving,
          Unblocking
    <2> QED BY <2>5, <2>6
  <1> QED BY <1>2, <1>3, <1>4 DEF IInv, ReadsOK, SerialOK

LEMMA InitOK == Init => IInv
  <1> SUFFICES ASSUME Init PROVE IInv
    OBVIOUS
  <1>0. None \notin Sessions /\ "plain" \in Marks
    BY FriendsAssumption
  <1>1. \A p \in Sessions : sess[p] = Idle /\ At(p, "idle") /\ ~sess[p].blocked
    BY DEF Init, Idle, Task, At
  <1>2. \A x \in Pairs : friendLock[x] = None /\ blockLock[x] = None
    BY DEF Init
  <1>3. Idle \in Session
    BY DEF Idle, Task, Session, PCs
  <1>4. TypeOK
    BY <1>0, <1>3 DEF Init, TypeOK
  <1>5. LocksOK
    BY <1>0, <1>1, <1>2 DEF LocksOK, LocksOf, At, TouchingBack
  <1>6. ReadsOK /\ SerialOK /\ OneAtATime
    BY <1>1 DEF ReadsOK, HasRead, SerialOK, SerialRead, OneAtATime, IsSerial,
                Settling, At, Unblocking
  <1>7. BlockSuppresses
    BY <1>1 DEF BlockSuppresses
  <1> QED BY <1>4, <1>5, <1>6, <1>7 DEF IInv

LEMMA NextOK == IInv /\ [Next]_vars => IInv'
  <1> SUFFICES ASSUME IInv, [Next]_vars PROVE IInv'
    OBVIOUS
  <1>1. CASE UNCHANGED vars
    BY <1>1 DEF vars, IInv, TypeOK, LocksOK, LocksOf, ReadsOK, HasRead,
                SerialOK, SerialRead, OneAtATime, IsSerial, Settling,
                BlockSuppresses, At, Pair
  <1> QED BY <1>1, Steps, StepInductive, EditInductive

LEMMA Inductive == Spec => []IInv
  BY InitOK, NextOK, PTL DEF Spec

(* Sessions, rows and locks keep their shapes. *)
THEOREM Typing == Spec => []TypeOK
  <1>1. IInv => TypeOK
    BY DEF IInv
  <1> QED BY <1>1, Inductive, PTL

(* A tape whose sender has been blocked since before the handler began is  *)
(* suppressed, however many blocks, unblocks and tapes run meanwhile.      *)
THEOREM BlocksSuppress == Spec => []BlockSuppresses
  <1>1. IInv => BlockSuppresses
    BY DEF IInv
  <1> QED BY <1>1, Inductive, PTL

-----------------------------------------------------------------------------
(* What a commit changes. *)

LEMMA RowsChange ==
  ASSUME IInv, NEW q \in Sessions, Step(q), NEW x \in Pairs
  PROVE  /\ friend'[x] # friend[x] =>
              \/ /\ BlockCommit(q) /\ x = Pair(q) /\ friendLock[x] = q
                 /\ friend'[x] = None
              \/ friend[x] = None
         /\ block'[x] # block[x] =>
              /\ x = Pair(q) /\ blockLock[x] = q
              /\ \/ /\ BlockCommit(q) /\ block'[x] # None
                    /\ sess[q].read # None => block'[x] = sess[q].read
                 \/ UnblockCommit(q) /\ block'[x] = None
  <1>1. Own(q) /\ Fixed
    BY OwnNow
  <1>2. CASE UNCHANGED tables
    BY <1>2 DEF tables
  <1>3. CASE BlockCommit(q)
    <2> DEFINE kept == IF sess[q].read = None THEN "stranger" ELSE sess[q].read
    <2>1. /\ friend' = [friend EXCEPT ![Pair(q)] =
                          IF friendLock[Pair(q)] = q THEN None ELSE @]
          /\ block' = [block EXCEPT ![Pair(q)] =
                         IF blockLock[Pair(q)] = q THEN kept ELSE @]
      BY <1>3 DEF BlockCommit
    <2>2. /\ kept # None
          /\ sess[q].read # None => kept = sess[q].read
      BY <1>1 DEF Fixed
    <2> HIDE DEF kept
    <2> QED BY <1>1, <1>3, <2>1, <2>2 DEF Fixed, FriendTypes, BlockTypes
  <1>4. CASE UnblockCommit(q)
    BY <1>1, <1>4
    DEF UnblockCommit, Own, HasRead, At, Fixed, FriendTypes, BlockTypes
  <1>5. CASE TouchCommit(q)
    BY <1>5 DEF TouchCommit
  <1>6. UNCHANGED tables \/ Commits(q)
    <2>1. CASE Begin(q)
      BY <2>1 DEF Begin, BlockBegin, UnblockBegin, SendBegin, ClaimBegin
    <2>2. CASE Crash(q) \/ DeadlockVictim(q)
      BY <2>2 DEF Crash, DeadlockVictim, Rollback
    <2>3. CASE Continue(q)
      BY <2>3
      DEF Continue, Commits, BlockReadFriend, BlockDelete, BlockSave,
          BlockInsert, BlockRefused, Rollback, BlockUpdate, UnblockDelete,
          UnblockInsert, SendReadBlock, SendTouch, SendTouchBack, ClaimTouch,
          ClaimTouchBack
    <2> QED BY <2>1, <2>2, <2>3 DEF Step
  <1> QED BY <1>2, <1>3, <1>4, <1>5, <1>6 DEF Commits

(* For every user: a mark is only taken back by its giver.  For every user *)
(* who does not change one entry twice at once, whatever tapes, claims and *)
(* others overlap: nobody vanishes from the list but by his removing or    *)
(* blocking, blocking again keeps what the first block kept, and after     *)
(* unblocking whoever was a friend when blocked is listed, as then or as a *)
(* tape has listed him since.                                              *)
THEOREM ListsAndBlocksAreKept == Spec => ListsAndBlocksStay
  <1> DEFINE
        Mark(r) == friend[r] \notin {None, "plain"} /\ friend'[r] = "plain" =>
                     Update(r, "plain")
        Listed(r) == friend[r] # None /\ friend'[r] = None =>
                       block'[r] = friend[r] \/ Remove(r)
        Twice(r) == block[r] # None => block'[r] \in {block[r], None}
        Again(r) == block[r] \in Marks /\ block'[r] = None =>
                      friend'[r] = IF friend[r] = None THEN block[r]
                                                       ELSE friend[r]
        A == \A r \in Pairs : Mark(r)
        B == \A r \in SerialPairs : Listed(r)
        C == \A r \in SerialPairs : Twice(r)
        D == \A r \in SerialPairs : Again(r)
  <1>1. SerialPairs \subseteq Pairs /\ \A r \in SerialPairs : r[1] \in Serial
    BY DEF SerialPairs
  <1>2. ASSUME IInv, NEW q \in Sessions, Step(q)
        PROVE  A /\ B /\ C /\ D
    <2>1. Own(q) /\ Fixed
      BY <1>2, OwnNow
    <2>2. ASSUME NEW r \in Pairs PROVE Mark(r)
      BY <1>2, <2>1, RowsChange DEF Fixed
    <2>3. ASSUME NEW r \in SerialPairs
          PROVE  Listed(r) /\ Twice(r) /\ Again(r)
      <3>1. /\ r \in Pairs
            /\ sess[q].pc \in Settling /\ r = Pair(q) => IsSerial(q)
        BY <1>1 DEF IsSerial
      <3>2. CASE BlockCommit(q) /\ r = Pair(q)
        <4>1. /\ IsSerial(q) /\ At(q, "block-commit")
          BY <3>1, <3>2 DEF BlockCommit, At, Settling
        <4>2. /\ block[r] = None /\ blockLock[r] = q
              /\ friendLock[r] = q => sess[q].read # None
              /\ sess[q].read # None => friend[r] = sess[q].read
          BY <2>1, <3>2, <4>1
          DEF Own, SerialRead, At, Blocking, Saving
        <4>3. block' = [block EXCEPT ![r] = IF sess[q].read = None
                                            THEN "stranger" ELSE sess[q].read]
          BY <3>2, <4>2 DEF BlockCommit
        <4>4. Listed(r)
          BY <1>2, <2>1, <3>1, <3>2, <4>2, <4>3, RowsChange
          DEF Fixed, BlockTypes
        <4>5. Twice(r) /\ Again(r)
          BY <2>1, <4>2 DEF Fixed
        <4> QED BY <4>4, <4>5
      <3>3. CASE UnblockCommit(q) /\ r = Pair(q)
        <4>1. IsSerial(q) /\ At(q, "unblock-commit")
          BY <3>1, <3>3 DEF UnblockCommit, At, Settling
        <4>2. /\ block[r] = sess[q].read
              /\ sess[q].read # "stranger" /\ friendLock[r] # q =>
                   friend[r] # None
              /\ friendLock[r] = q => friend[r] = None
          BY <2>1, <3>3, <4>1
          DEF Own, SerialRead, HasRead, At, Unblocking
        <4>3. /\ friend' = [friend EXCEPT ![r] = IF friendLock[r] = q
                                                 THEN sess[q].read ELSE @]
              /\ block' = [block EXCEPT ![r] = IF blockLock[r] = q
                                               THEN None ELSE @]
          BY <3>3 DEF UnblockCommit
        <4>4. friend'[r] = IF friendLock[r] = q THEN sess[q].read ELSE friend[r]
          BY <2>1, <3>1, <4>3 DEF Fixed, FriendTypes
        <4>5. Listed(r)
          BY <2>1, <4>1, <4>2, <4>4 DEF Own, HasRead, At, Unblocking
        <4>6. Twice(r)
          BY <2>1, <3>1, <4>3 DEF Fixed, BlockTypes
        <4>7. Again(r)
          BY <2>1, <4>2, <4>4 DEF Fixed
        <4> QED BY <4>5, <4>6, <4>7
      <3>4. CASE ~(BlockCommit(q) /\ r = Pair(q))
                 /\ ~(UnblockCommit(q) /\ r = Pair(q))
        <4>1. block'[r] = block[r] /\ (friend[r] # None => friend'[r] = friend[r])
          BY <1>2, <3>1, <3>4, RowsChange
        <4> QED BY <2>1, <4>1 DEF Fixed
      <3> QED BY <3>2, <3>3, <3>4
    <2> QED BY <2>2, <2>3
  <1>3. ASSUME IInv, NEW r \in Pairs, Edit(r)
        PROVE  A /\ B /\ C /\ D
    <2>1. /\ block' = block /\ Fixed /\ \A x \in Pairs \ {r} : friend'[x] = friend[x]
      BY <1>3, EditMoves, FriendsAssumption, TypeParts DEF IInv, Fixed
    <2>2. C /\ D
      BY <1>1, <2>1 DEF Fixed
    <2>3. CASE Remove(r)
      <3>1. friend'[r] = None
        BY <2>1, <2>3 DEF Remove, Fixed, FriendTypes
      <3> QED BY <1>1, <2>1, <2>2, <2>3, <3>1 DEF Fixed
    <2>4. ASSUME NEW mark \in Marks, Update(r, mark)
          PROVE  A /\ B
      <3>1. friend'[r] = mark
        BY <2>1, <2>4 DEF Update, Fixed, FriendTypes
      <3> QED BY <1>1, <2>1, <2>4, <3>1 DEF Fixed
    <2> QED BY <1>3, <2>2, <2>3, <2>4 DEF Edit
  <1>4. ASSUME IInv, UNCHANGED vars
        PROVE  A /\ B /\ C /\ D
    BY <1>1, <1>4 DEF vars
  <1>5. IInv /\ [Next]_vars => A /\ B /\ C /\ D
    BY <1>2, <1>3, <1>4, Steps
  <1>6. ListsAndBlocksStay <=>
          [][A]_vars /\ [][B]_vars /\ [][C]_vars /\ [][D]_vars
    BY DEF ListsAndBlocksStay, MarkStays, ListedUntilRemovedOrBlocked,
           BlockKept, UnblockRestores
  <1> HIDE DEF A, B, C, D
  <1>7. Spec => [][A]_vars /\ [][B]_vars /\ [][C]_vars /\ [][D]_vars
    BY <1>5, Inductive, PTL DEF Spec
  <1> QED BY <1>6, <1>7

-----------------------------------------------------------------------------
(* Deadlocks.  A request that others wait for holds a row; if it waits     *)
(* itself, it stands at one of these statements.                           *)

WaitsAt(p, pcs, holder) ==
  sess[p].pc \in pcs /\ Blockers(p) \subseteq {holder}
    /\ (holder \in Sessions \ {p} => holder \in Blockers(p))
Inserting == {"block-insert", "block-update"}

LEMMA WhatIsWaitedFor ==
  ASSUME IInv, NEW p \in Sessions
  PROVE  /\ sess[p].pc \in TouchingBack =>
              WaitsAt(p, TouchingBack, friendLock[Back(Pair(p))])
         /\ sess[p].pc \in Inserting =>
              WaitsAt(p, Inserting, blockLock[Pair(p)])
         /\ At(p, "unblock-insert") =>
              WaitsAt(p, {"unblock-insert"}, friendLock[Pair(p)])
  <1>0. None \notin Sessions
    BY FriendsAssumption
  <1>1. CASE sess[p].pc \in TouchingBack
    <2>1. Blockers(p) = {friendLock[Back(Pair(p))]} \ {None, p}
      BY <1>1 DEF Blockers, TouchingBack, At, SendOrder, ClaimOrder
    <2> QED BY <1>0, <1>1, <2>1 DEF WaitsAt, TouchingBack, Inserting, At
  <1>2. CASE sess[p].pc \in Inserting
    <2>1. Blockers(p) = {blockLock[Pair(p)]} \ {None, p}
      BY <1>2 DEF Blockers, Inserting, At
    <2> QED BY <1>0, <1>2, <2>1 DEF WaitsAt, TouchingBack, Inserting, At
  <1>3. CASE At(p, "unblock-insert")
    <2>1. Blockers(p) = {friendLock[Pair(p)]} \ {None, p}
      BY <1>3 DEF Blockers, At
    <2> QED BY <1>0, <1>3, <2>1 DEF WaitsAt, TouchingBack, Inserting, At
  <1>4. CASE sess[p].pc \notin TouchingBack \cup Inserting \cup {"unblock-insert"}
    BY <1>4 DEF At
  <1> QED BY <1>1, <1>2, <1>3, <1>4

(* Who waits for whom: q is waited for and waits.                          *)
LEMMA WhoIsWaitedFor ==
  ASSUME IInv, NEW p \in Sessions, NEW q \in Sessions, q \in Blockers(p),
         Blockers(q) # {}
  PROVE  /\ Pair(p) \in Pairs /\ Pair(q) \in Pairs
         /\ sess[q].pc \in TouchingBack \cup Inserting \cup {"unblock-insert"}
         /\ At(q, "unblock-insert") <=> blockLock[Pair(p)] = q /\
              sess[p].pc \in Inserting \cup {"unblock-delete"}
         /\ sess[p].pc \in TouchingBack =>
              Pair(q) = Back(Pair(p)) /\ friendLock[Pair(q)] = q
         /\ sess[p].pc \notin TouchingBack => Pair(q) = Pair(p)
  <1> DEFINE Waits(s) ==
        sess[s].pc \in TouchingBack \cup Inserting
          \cup {"block-delete", "unblock-insert", "unblock-delete",
                "send-touch", "claim-touch"}
  <1>1. \A s \in Sessions : Blockers(s) # {} => Waits(s)
    BY DEF Blockers, At, TouchingBack, Inserting
  <1>2. Waits(p) /\ Waits(q) /\ ~At(p, "idle") /\ ~At(q, "idle")
    BY <1>1 DEF At, TouchingBack, Inserting
  <1>3. /\ Pair(p) \in Pairs /\ Pair(q) \in Pairs /\ Back(Pair(p)) \in Pairs
        /\ LocksOf(q) /\ q # p
    BY <1>2, PairOf DEF IInv, LocksOK, Blockers
  <1>4. /\ \A x \in Pairs : friendLock[x] = q =>
             x = Pair(q) /\ sess[q].pc \in TouchingBack \cup Inserting
        /\ \A x \in Pairs : blockLock[x] = q =>
             x = Pair(q) /\ At(q, "unblock-insert")
    BY <1>2, <1>3 DEF LocksOf, At, TouchingBack, Inserting, Saving
  <1>5. CASE sess[p].pc \in TouchingBack
    <2>1. friendLock[Back(Pair(p))] = q
      BY <1>5 DEF Blockers, TouchingBack, At, SendOrder, ClaimOrder
    <2> QED BY <1>3, <1>4, <1>5, <2>1 DEF At, TouchingBack, Inserting
  <1>6. CASE sess[p].pc \in Inserting \cup {"unblock-delete"}
    <2>1. blockLock[Pair(p)] = q
      BY <1>6 DEF Blockers, Inserting, At
    <2> QED BY <1>3, <1>4, <1>6, <2>1 DEF At, TouchingBack, Inserting
  <1>7. CASE sess[p].pc \in {"block-delete", "unblock-insert", "send-touch",
                             "claim-touch"}
    <2>1. friendLock[Pair(p)] = q
      BY <1>7 DEF Blockers, At, SendOrder, ClaimOrder
    <2> QED BY <1>3, <1>4, <1>7, <2>1 DEF At, TouchingBack, Inserting
  <1> QED BY <1>2, <1>5, <1>6, <1>7

(* Two requests of a known kind that wait for each other.                  *)
Known(p, q) ==
  /\ q \in Blockers(p) /\ p \in Blockers(q)
  /\ OppositeTouches(p, q) \/ UnblockMeetsBlock(p, q)

LEMMA StuckHasAPair ==
  ASSUME IInv, NEW S \in SUBSET Sessions, S # {},
         \A p \in S : \E q \in S : q \in Blockers(p)
  PROVE  \E p, q \in S : Known(p, q)
  <1>1. PICK next \in [S -> S] : \A p \in S : next[p] \in Blockers(p)
    <2>1. [p \in S |-> CHOOSE q \in S : q \in Blockers(p)] \in [S -> S]
      OBVIOUS
    <2> QED BY <2>1
  <1>2. ASSUME NEW p \in S
        PROVE  /\ next[p] \in S /\ next[p] # p /\ Pair(p) \in Pairs
               /\ Pair(next[p]) \in Pairs /\ p \in Sessions
               /\ sess[next[p]].pc \in
                    TouchingBack \cup Inserting \cup {"unblock-insert"}
               /\ At(next[p], "unblock-insert") <=>
                    blockLock[Pair(p)] = next[p] /\
                    sess[p].pc \in Inserting \cup {"unblock-delete"}
               /\ sess[p].pc \in TouchingBack =>
                    /\ Pair(next[p]) = Back(Pair(p))
                    /\ friendLock[Pair(next[p])] = next[p]
               /\ sess[p].pc \notin TouchingBack => Pair(next[p]) = Pair(p)
    <2>1. /\ next[p] \in S /\ p \in Sessions /\ next[p] \in Sessions
          /\ next[p] \in Blockers(p) /\ Blockers(next[p]) # {}
      BY <1>1
    <2>2. next[p] # p
      BY <2>1 DEF Blockers
    <2> QED BY <2>1, <2>2, WhoIsWaitedFor
  (* One at its insert, and the unblock that it waits for. *)
  <1>3. ASSUME NEW p \in S, sess[p].pc \in Inserting, NEW u \in S,
               At(u, "unblock-insert"), p \in Blockers(u)
        PROVE  \E a, b \in S : Known(a, b)
    <2> DEFINE u1 == next[p]
    <2>1. /\ u1 \in S /\ u1 # p /\ sess[p].pc \notin TouchingBack
          /\ blockLock[Pair(p)] = u1 \/ ~At(u1, "unblock-insert")
          /\ Pair(u1) = Pair(p) /\ u1 \in Blockers(p)
      BY <1>1, <1>2, <1>3 DEF Inserting, TouchingBack
    <2>2. WaitsAt(p, Inserting, blockLock[Pair(p)]) /\ blockLock[Pair(p)] = u1
      BY <1>2, <1>3, <2>1, WhatIsWaitedFor DEF WaitsAt
    <2>3. At(u1, "unblock-insert")
      BY <1>2, <1>3, <2>2
    <2>4. Pair(u) = Pair(p) /\ friendLock[Pair(u)] = p
      <3>1. WaitsAt(u, {"unblock-insert"}, friendLock[Pair(u)])
        BY <1>2, <1>3, WhatIsWaitedFor
      <3>2. Blockers(p) # {} /\ u \in Sessions /\ p \in Sessions
        BY <1>2, <2>1
      <3>3. Pair(p) = Pair(u)
        BY <1>3, <3>2, WhoIsWaitedFor DEF At, TouchingBack
      <3> QED BY <1>3, <3>1, <3>3 DEF WaitsAt
    <2>5. p \in Blockers(u1)
      <3>1. WaitsAt(u1, {"unblock-insert"}, friendLock[Pair(u1)])
        BY <1>2, <2>1, <2>3, WhatIsWaitedFor
      <3> QED BY <1>2, <2>1, <2>4, <3>1 DEF WaitsAt
    <2>6. Known(u1, p)
      BY <1>3, <2>1, <2>3, <2>5 DEF Known, UnblockMeetsBlock, Inserting
    <2> QED BY <2>1, <2>6
  <1>4. ASSUME NEW p \in S, sess[p].pc \in TouchingBack
        PROVE  \E a, b \in S : Known(a, b)
    <2> DEFINE q == next[p]
    <2>1. /\ q \in S /\ q # p /\ Pair(q) = Back(Pair(p)) /\ q \in Blockers(p)
          /\ sess[q].pc \in TouchingBack \cup Inserting
          /\ Pair(p) \in Pairs /\ friendLock[Pair(q)] = q
      BY <1>1, <1>2, <1>4 DEF At, TouchingBack, Inserting
    <2>2. CASE sess[q].pc \in TouchingBack
      <3>1. Back(Pair(q)) = Pair(p)
        BY <2>1, BackPair
      <3>2. friendLock[Pair(p)] = p
        BY <1>2, <1>4 DEF IInv, LocksOK, LocksOf
      <3>3. p \in Blockers(q)
        BY <1>2, <2>1, <2>2, <3>1, <3>2, WhatIsWaitedFor DEF WaitsAt
      <3>4. Known(p, q)
        BY <1>4, <2>1, <2>2, <3>3 DEF Known, OppositeTouches, TouchingBack
      <3> QED BY <2>1, <3>4
    <2>3. CASE sess[q].pc \in Inserting
      <3> DEFINE u == next[q]
      <3>1. u \in S /\ u # q /\ u \in Blockers(q) /\ Pair(u) = Pair(q)
        BY <1>1, <1>2, <2>1, <2>3 DEF TouchingBack, Inserting
      <3>2. blockLock[Pair(q)] = u
        BY <1>2, <2>1, <2>3, <3>1, WhatIsWaitedFor DEF WaitsAt
      <3>3. At(u, "unblock-insert")
        BY <1>2, <2>1, <2>3, <3>2
      <3>4. q \in Blockers(u)
        BY <1>2, <2>1, <3>1, <3>3, WhatIsWaitedFor DEF WaitsAt
      <3> QED BY <1>3, <2>1, <2>3, <3>1, <3>3, <3>4
    <2> QED BY <2>1, <2>2, <2>3
  <1>5. ASSUME NEW u \in S, At(u, "unblock-insert")
        PROVE  \E a, b \in S : Known(a, b)
    <2>1. /\ next[u] \in S /\ next[u] \in Blockers(u)
          /\ sess[next[u]].pc \in TouchingBack \cup Inserting
      BY <1>1, <1>2, <1>5 DEF At, Inserting
    <2> QED BY <1>3, <1>4, <1>5, <2>1
  <1>6. ASSUME NEW p \in S, sess[p].pc \in Inserting
        PROVE  \E a, b \in S : Known(a, b)
    <2>1. next[p] \in S /\ blockLock[Pair(p)] = next[p]
      BY <1>1, <1>2, <1>6, WhatIsWaitedFor DEF WaitsAt
    <2>2. At(next[p], "unblock-insert")
      BY <1>2, <1>6, <2>1
    <2> QED BY <1>5, <2>1, <2>2
  <1>7. PICK p \in S : TRUE
    OBVIOUS
  <1> QED BY <1>2, <1>4, <1>5, <1>6, <1>7 DEF At

(* Two tapes in opposite directions, or an unblock that meets a block by   *)
(* the same user: there is no other deadlock, and none of more than two.   *)
THEOREM TwoKindsOfDeadlock == Spec => []OnlyKnownDeadlocks
  <1>1. ASSUME IInv, NEW S \in SUBSET Sessions, Deadlocked(S)
        PROVE  \E p, q \in S : /\ S = {p, q}
                               /\ OppositeTouches(p, q) \/ UnblockMeetsBlock(p, q)
    <2> DEFINE w == [p \in Sessions |-> Blockers(p)]
    <2>1. /\ Stuck(S, w) /\ \A T \in SUBSET S : Stuck(T, w) => T = S
      BY <1>1 DEF Deadlocked, Cycle
    <2>2. S # {} /\ \A p \in S : \E q \in S : q \in Blockers(p)
      <3>1. S # {} /\ \A p \in S : w[p] \cap S # {}
        BY <2>1 DEF Stuck
      <3>2. \A p \in S : w[p] = Blockers(p)
        OBVIOUS
      <3> QED BY <3>1, <3>2
    <2>3. PICK p \in S, q \in S : Known(p, q)
      BY <1>1, <2>2, StuckHasAPair
    <2>4. Stuck({p, q}, w)
      BY <2>3 DEF Known, Stuck
    <2>5. S = {p, q}
      BY <2>1, <2>4
    <2> QED BY <2>3, <2>5 DEF Known
  <1>2. IInv => OnlyKnownDeadlocks
    BY <1>1 DEF OnlyKnownDeadlocks
  <1> QED BY <1>2, Inductive, PTL

=============================================================================
