------------------------------ MODULE Friends ------------------------------
(***************************************************************************)
(* Who is whose friend, and who blocks whom: the tables friendships and    *)
(* blocks, and every handler that reads or writes them -- FriendsService,  *)
(* a report that also blocks, sending a tape to a friend, claiming a link. *)
(*                                                                         *)
(* A handler is one transaction at READ COMMITTED: each SELECT sees what   *)
(* has been committed by then, each write locks its row until the commit.  *)
(* What a session writes is visible from its commit on; the rows it locked *)
(* are those it writes, and until then nobody else changes them.           *)
(***************************************************************************)
EXTENDS FiniteSets, WaitGraph

CONSTANTS
  Sessions,  \* concurrent request handlers
  Users,
  Serial,    \* users whose app changes one entry of a list once at a time
  Marks,     \* starred and nickname of a friend; "plain" for neither
  None       \* no row, nothing read

ASSUME FriendsAssumption ==
  /\ Serial \subseteq Users
  /\ "plain" \in Marks /\ "stranger" \notin Marks
  /\ None \notin Sessions \cup Users \X Users \cup Marks \cup {"stranger"}

VARIABLES
  friend,      \* friendships: what <<u, v>> says of v in the list of u
  block,       \* blocks: what is kept of the friendship, None if no block
  sess,        \* what each session does, and what it has read
  friendLock,  \* holder of the lock on a row of friendships, or on its key
  blockLock    \* the same for blocks

vars == <<friend, block, sess, friendLock, blockLock>>
tables == <<friend, block>>
locks == <<friendLock, blockLock>>

Pairs == {r \in Users \X Users : r[1] # r[2]}
Back(r) == <<r[2], r[1]>>

(* was_friend, friend_starred, friend_nickname; "stranger" is no friend. *)
Kept == Marks \cup {"stranger"}

PCs == {"idle", "block-friend", "block-delete", "block-save", "block-insert",
        "block-update", "block-commit", "unblock-delete", "unblock-insert",
        "unblock-commit", "send-block", "send-touch", "send-touch-back",
        "claim-touch", "claim-touch-back", "touch-commit"}
Settling == {"block-friend", "block-delete", "block-save", "block-insert",
             "block-update", "block-commit", "unblock-delete",
             "unblock-insert", "unblock-commit"}

(* pair: the row the handler is about, <<sender, recipient>> for a tape;   *)
(* read: what it has read of friendships (block) or of blocks (unblock);   *)
(* suppressed: send() found that the recipient blocks the sender;          *)
(* blocked: history, the recipient has blocked the sender ever since       *)
(* send() began.                                                           *)
Session == [pc : PCs, pair : Pairs \cup {None}, read : Kept \cup {None},
            suppressed : BOOLEAN, blocked : BOOLEAN]
Task(pc, r) == [pc |-> pc, pair |-> r, read |-> None, suppressed |-> FALSE,
                blocked |-> FALSE]
Idle == Task("idle", None)

TypeOK ==
  /\ friend \in [Pairs -> Marks \cup {None}]
  /\ block \in [Pairs -> Kept \cup {None}]
  /\ sess \in [Sessions -> Session]
  /\ friendLock \in [Pairs -> Sessions \cup {None}]
  /\ blockLock \in [Pairs -> Sessions \cup {None}]

Init ==
  /\ friend \in [Pairs -> {"plain", None}]
  /\ block = [r \in Pairs |-> None]
  /\ sess = [p \in Sessions |-> Idle]
  /\ friendLock = [r \in Pairs |-> None]
  /\ blockLock = [r \in Pairs |-> None]

-----------------------------------------------------------------------------
(* Transactions *)

At(p, pc) == sess[p].pc = pc
Pair(p) == sess[p].pair
(* Such a user does not block, unblock, mark or remove somebody while one  *)
(* of these about the same person is under way; his tapes and claims are   *)
(* sent at any time.                                                       *)
MayAct(r) ==
  r[1] \in Serial =>
    \A q \in Sessions : sess[q].pc \in Settling => Pair(q) # r
Start(p, s) == At(p, "idle") /\ sess' = [sess EXCEPT ![p] = s]
Goto(p, pc) == sess' = [sess EXCEPT ![p].pc = pc]
Read(p, pc, row) == sess' = [sess EXCEPT ![p].pc = pc, ![p].read = row]

Free(lock, r) == lock[r] = None
LockFriend(p, r) ==
  /\ friendLock[r] \in {None, p}
  /\ friendLock' = [friendLock EXCEPT ![r] = p]
LockBlock(p, r) ==
  /\ blockLock[r] \in {None, p}
  /\ blockLock' = [blockLock EXCEPT ![r] = p]

Unlocked(p, lock) == [r \in Pairs |-> IF lock[r] = p THEN None ELSE lock[r]]
\* Mutant: a transaction left open, whose locks on blocks are never released.
ReleaseFriends(p) ==
  friendLock' = Unlocked(p, friendLock) /\ UNCHANGED blockLock

Release(p) ==
  /\ friendLock' = Unlocked(p, friendLock)
  /\ blockLock' = Unlocked(p, blockLock)

(* The session ends; if a block is gone, senders that found it at the      *)
(* start have not been blocked ever since.                                 *)
Finish(p) ==
  /\ sess' = [q \in Sessions |-> IF q = p THEN Idle ELSE
                [sess[q] EXCEPT !.blocked =
                   @ /\ block'[Back(sess[q].pair)] # None]]
  /\ Release(p)

Rollback(p) ==
  /\ sess' = [sess EXCEPT ![p] = Idle]
  /\ Release(p)
  /\ UNCHANGED tables

-----------------------------------------------------------------------------
(* update, remove: one statement each, with its own commit *)

Update(r, mark) ==
  /\ MayAct(r) /\ Free(friendLock, r)
  /\ friend[r] # None
  /\ friend' = [friend EXCEPT ![r] = mark]
  /\ UNCHANGED <<block, sess, locks>>

Remove(r) ==
  /\ MayAct(r) /\ Free(friendLock, r)
  /\ friend[r] # None
  /\ friend' = [friend EXCEPT ![r] = None]
  /\ UNCHANGED <<block, sess, locks>>

-----------------------------------------------------------------------------
(* blockInTransaction, for block() and for a report with alsoBlock *)

BlockBegin(p, r) ==
  /\ block[r] = None /\ MayAct(r)
  /\ Start(p, Task("block-friend", r))
  /\ UNCHANGED <<tables, locks>>

BlockReadFriend(p) ==
  /\ At(p, "block-friend")
  /\ Read(p, IF friend[Pair(p)] = None THEN "block-save" ELSE "block-delete",
          friend[Pair(p)])
  /\ UNCHANGED <<tables, locks>>

\* Mutant: the DELETE is committed before the block is saved.
BlockDeleteFirst(p) ==
  /\ At(p, "block-delete")
  /\ Free(friendLock, Pair(p))
  /\ friend' = [friend EXCEPT ![Pair(p)] = None]
  /\ Goto(p, "block-save")
  /\ UNCHANGED <<block, locks>>

(* DELETE: no row, no lock. *)
BlockDelete(p) ==
  /\ At(p, "block-delete")
  /\ Free(friendLock, Pair(p))
  /\ IF friend[Pair(p)] = None THEN UNCHANGED friendLock
                               ELSE LockFriend(p, Pair(p))
  /\ Goto(p, "block-save")
  /\ UNCHANGED <<tables, blockLock>>

(* save() looks the primary key up, and then inserts or updates. *)
BlockSave(p) ==
  /\ At(p, "block-save")
  /\ Goto(p, IF block[Pair(p)] = None THEN "block-insert" ELSE "block-update")
  /\ UNCHANGED <<tables, locks>>

BlockInsert(p) ==
  /\ At(p, "block-insert")
  /\ block[Pair(p)] = None
  /\ LockBlock(p, Pair(p))
  /\ Goto(p, "block-commit")
  /\ UNCHANGED <<tables, friendLock>>

(* INSERT meets a row committed since: a violation of the primary key. *)
BlockRefused(p) ==
  /\ At(p, "block-insert")
  /\ block[Pair(p)] # None
  /\ Free(blockLock, Pair(p))
  /\ Rollback(p)

(* UPDATE of a row that may be gone: then it changes nothing. *)
BlockUpdate(p) ==
  /\ At(p, "block-update")
  /\ Free(blockLock, Pair(p))
  /\ IF block[Pair(p)] = None THEN UNCHANGED blockLock
                              ELSE LockBlock(p, Pair(p))
  /\ Goto(p, "block-commit")
  /\ UNCHANGED <<tables, friendLock>>

BlockCommit(p) ==
  LET r == Pair(p)
      kept == IF sess[p].read = None THEN "stranger" ELSE sess[p].read
  IN  /\ At(p, "block-commit")
      /\ friend' = [friend EXCEPT ![r] = IF friendLock[r] = p THEN None ELSE @]
      /\ block' = [block EXCEPT ![r] = IF blockLock[r] = p THEN kept ELSE @]
      /\ Finish(p)

-----------------------------------------------------------------------------
(* unblock *)

UnblockBegin(p, r) ==
  /\ block[r] # None /\ MayAct(r)
  /\ Start(p, [Task("unblock-delete", r) EXCEPT !.read = block[r]])
  /\ UNCHANGED <<tables, locks>>

\* Mutant: who was no friend becomes one.
UnblockDeleteRestoreAll(p) ==
  /\ At(p, "unblock-delete")
  /\ LockBlock(p, Pair(p))
  /\ Goto(p, "unblock-insert")
  /\ UNCHANGED <<tables, friendLock>>

UnblockDelete(p) ==
  /\ At(p, "unblock-delete")
  /\ Free(blockLock, Pair(p))
  /\ IF block[Pair(p)] = None THEN UNCHANGED blockLock
                              ELSE LockBlock(p, Pair(p))
  /\ Goto(p, IF sess[p].read = "stranger" THEN "unblock-commit"
                                          ELSE "unblock-insert")
  /\ UNCHANGED <<tables, friendLock>>

(* INSERT ... ON CONFLICT DO NOTHING *)
UnblockInsert(p) ==
  /\ At(p, "unblock-insert")
  /\ Free(friendLock, Pair(p))
  /\ IF friend[Pair(p)] = None THEN LockFriend(p, Pair(p))
                               ELSE UNCHANGED friendLock
  /\ Goto(p, "unblock-commit")
  /\ UNCHANGED <<tables, blockLock>>

UnblockCommit(p) ==
  LET r == Pair(p)
  IN  /\ At(p, "unblock-commit")
      /\ block' = [block EXCEPT ![r] = IF blockLock[r] = p THEN None ELSE @]
      /\ friend' = [friend EXCEPT ![r] = IF friendLock[r] = p
                                         THEN sess[p].read ELSE @]
      /\ Finish(p)

-----------------------------------------------------------------------------
(* DeliveriesService.send to a friend *)

(* A user's own list is touched first, then that of the other. *)
SendOrder(p) == <<Pair(p), Back(Pair(p))>>

SendBegin(p, r) ==
  /\ friend[r] # None
  /\ Start(p, [Task("send-block", r) EXCEPT !.blocked = block[Back(r)] # None])
  /\ UNCHANGED <<tables, locks>>

\* Mutant: the block is looked up the wrong way round.
SendReadOwnBlock(p) ==
  /\ At(p, "send-block")
  /\ sess' = [sess EXCEPT ![p].pc = "send-touch",
                          ![p].suppressed = block[Pair(p)] # None]
  /\ UNCHANGED <<tables, locks>>

SendReadBlock(p) ==
  /\ At(p, "send-block")
  /\ sess' = [sess EXCEPT ![p].pc = "send-touch",
                          ![p].suppressed = block[Back(Pair(p))] # None]
  /\ UNCHANGED <<tables, locks>>

(* touchFriendship: INSERT ... ON CONFLICT DO UPDATE of last_at *)
SendTouch(p) ==
  /\ At(p, "send-touch")
  /\ LockFriend(p, SendOrder(p)[1])
  /\ Goto(p, IF sess[p].suppressed THEN "touch-commit" ELSE "send-touch-back")
  /\ UNCHANGED <<tables, blockLock>>

SendTouchBack(p) ==
  /\ At(p, "send-touch-back")
  /\ LockFriend(p, SendOrder(p)[2])
  /\ Goto(p, "touch-commit")
  /\ UNCHANGED <<tables, blockLock>>

(* ShareService.claim of a link that a user sent: r is <<claimer, sender>> *)

\* Mutant: the list of the sender is touched first.
ClaimSenderFirst(p) == <<Back(Pair(p)), Pair(p)>>

ClaimOrder(p) == <<Pair(p), Back(Pair(p))>>

ClaimBegin(p, r) ==
  /\ block[r] = None /\ block[Back(r)] = None
  /\ Start(p, Task("claim-touch", r))
  /\ UNCHANGED <<tables, locks>>

ClaimTouch(p) ==
  /\ At(p, "claim-touch")
  /\ LockFriend(p, ClaimOrder(p)[1])
  /\ Goto(p, "claim-touch-back")
  /\ UNCHANGED <<tables, blockLock>>

ClaimTouchBack(p) ==
  /\ At(p, "claim-touch-back")
  /\ LockFriend(p, ClaimOrder(p)[2])
  /\ Goto(p, "touch-commit")
  /\ UNCHANGED <<tables, blockLock>>

TouchCommit(p) ==
  /\ At(p, "touch-commit")
  /\ friend' = [r \in Pairs |-> IF friendLock[r] = p /\ friend[r] = None
                                THEN "plain" ELSE friend[r]]
  /\ UNCHANGED block
  /\ Finish(p)

-----------------------------------------------------------------------------

Crash(p) == ~At(p, "idle") /\ Rollback(p)

Blockers(p) ==
  LET r == Pair(p)
      held == CASE sess[p].pc \in {"block-delete", "unblock-insert"}
                     -> {friendLock[r]}
                [] At(p, "send-touch")       -> {friendLock[SendOrder(p)[1]]}
                [] At(p, "send-touch-back")  -> {friendLock[SendOrder(p)[2]]}
                [] At(p, "claim-touch")      -> {friendLock[ClaimOrder(p)[1]]}
                [] At(p, "claim-touch-back") -> {friendLock[ClaimOrder(p)[2]]}
                [] sess[p].pc \in {"block-insert", "block-update",
                                   "unblock-delete"}
                     -> {blockLock[r]}
                [] OTHER -> {}
  IN  held \ {None, p}
Deadlocked(S) == Cycle(S, [p \in Sessions |-> Blockers(p)])
DeadlockVictim(p) ==
  /\ \E S \in SUBSET Sessions : p \in S /\ Deadlocked(S)
  /\ Rollback(p)

Begin(p) ==
  \E r \in Pairs : \/ BlockBegin(p, r) \/ UnblockBegin(p, r)
                   \/ SendBegin(p, r) \/ ClaimBegin(p, r)

Continue(p) ==
  \/ BlockReadFriend(p) \/ BlockDelete(p) \/ BlockSave(p) \/ BlockInsert(p)
  \/ BlockRefused(p) \/ BlockUpdate(p) \/ BlockCommit(p)
  \/ UnblockDelete(p) \/ UnblockInsert(p) \/ UnblockCommit(p)
  \/ SendReadBlock(p) \/ SendTouch(p) \/ SendTouchBack(p)
  \/ ClaimTouch(p) \/ ClaimTouchBack(p) \/ TouchCommit(p)

Next ==
  \/ \E p \in Sessions : Begin(p) \/ Continue(p) \/ Crash(p) \/ DeadlockVictim(p)
  \/ \E r \in Pairs : Remove(r) \/ \E mark \in Marks : Update(r, mark)

Spec == Init /\ [][Next]_vars

(* As in Wallet: locks are granted in turn, and deadlocks are detected. *)
FairSpec == /\ Spec
            /\ \A p \in Sessions : SF_vars(Continue(p))
            /\ WF_vars(\E p \in Sessions : DeadlockVictim(p))

-----------------------------------------------------------------------------

(* A tape is suppressed if its sender has been blocked since before the    *)
(* handler began, whatever blocks and unblocks ended before and meanwhile. *)
BlockSuppresses ==
  \A p \in Sessions :
    sess[p].blocked /\ ~At(p, "send-block") => sess[p].suppressed

(* A star or a nickname is only taken back by the user who gave it: tapes  *)
(* and claims that arrive leave it, whatever they are interleaved with.    *)
MarkStays ==
  [][\A r \in Pairs : friend[r] \notin {None, "plain"} /\ friend'[r] = "plain" =>
       Update(r, "plain")]_vars

(* What follows is about the rows of users whose app does not change one   *)
(* entry twice at once: two blocks of one person at once do overwrite what *)
(* the first has kept (blockInTransaction looks without a lock).  Tapes    *)
(* and claims, theirs and those of others, overlap freely.                 *)
SerialPairs == {r \in Pairs : r[1] \in Serial}

(* Nobody vanishes from a friend list but by the owner's removing or       *)
(* blocking, and what was listed when it was blocked is kept.              *)
ListedUntilRemovedOrBlocked ==
  [][\A r \in SerialPairs : friend[r] # None /\ friend'[r] = None =>
       block'[r] = friend[r] \/ Remove(r)]_vars

(* Blocking again is blocking once (blockInTransaction: what is blocked    *)
(* already is left as it is), so that unblocking restores what the first   *)
(* block found.                                                            *)
BlockKept ==
  [][\A r \in SerialPairs : block[r] # None => block'[r] \in {block[r], None}]_vars

(* Whoever was a friend when blocked is listed again when unblocked, with  *)
(* the star and the nickname of then; except that a tape that arrived      *)
(* around the block has listed that user anew, and this row stays as it is *)
(* (unblock inserts with ON CONFLICT DO NOTHING).                          *)
UnblockRestores ==
  [][\A r \in SerialPairs : block[r] \in Marks /\ block'[r] = None =>
       friend'[r] = IF friend[r] = None THEN block[r] ELSE friend[r]]_vars

(* The marks of every user, and the lists and blocks of those in Serial,   *)
(* change as the user's own requests say, whatever tapes, claims and the   *)
(* other's requests do.                                                    *)
ListsAndBlocksStay ==
  MarkStays /\ ListedUntilRemovedOrBlocked /\ BlockKept /\ UnblockRestores

(* Two tapes, sent or claimed at once in opposite directions, lock the two *)
(* friendships in opposite orders.  The other deadlock takes one user's    *)
(* unblock and block at once: each holds the row the other is to write.    *)
OppositeTouches(p, q) ==
  /\ Pair(q) = Back(Pair(p))
  /\ {sess[p].pc, sess[q].pc} \subseteq {"send-touch-back", "claim-touch-back"}
UnblockMeetsBlock(p, q) ==
  /\ Pair(q) = Pair(p)
  /\ At(p, "unblock-insert") /\ sess[q].pc \in {"block-insert", "block-update"}
OnlyKnownDeadlocks ==
  \A S \in SUBSET Sessions : Deadlocked(S) =>
    \E p, q \in S : /\ S = {p, q}
                    /\ OppositeTouches(p, q) \/ UnblockMeetsBlock(p, q)

(* Every request ends. *)
SessionsFinish == \A p \in Sessions : ~At(p, "idle") ~> At(p, "idle")

=============================================================================
