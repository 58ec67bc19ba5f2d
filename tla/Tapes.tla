-------------------------------- MODULE Tapes --------------------------------
(***************************************************************************)
(* Tapes on their way: a finished recording is sent to a friend or put     *)
(* behind a link, the link is claimed or shared anew, the recipient opens  *)
(* the tape, sorts it into groups of the drawer and deletes it, and either *)
(* side may leave.                                                         *)
(*                                                                         *)
(* A step is a statement whose result a later statement of the same        *)
(* transaction or request relies on; what a transaction writes appears     *)
(* with its commit.  The locks it holds meanwhile follow from where it is. *)
(* Friendships and blocks are those of module Friends: here a send finds   *)
(* the sender blocked or it does not.                                      *)
(***************************************************************************)
EXTENDS Naturals

CONSTANTS
  Users,
  Recordings,
  Paid,        \* recordings longer than the free tape
  Owner,       \* who recorded what
  Stock,       \* tapes a user has bought
  Groups,      \* ids for the groups of each drawer
  Sessions,    \* requests under way at a time
  MaxToken,    \* links one delivery gets (bound)
  None

ASSUME SentAssumption ==
  /\ Paid \subseteq Recordings
  /\ Owner \in [Recordings -> Users]
  /\ Stock \in Nat /\ MaxToken \in Nat \ {0}

VARIABLES
  users,       \* ids in table users
  stock,       \* tape_inventory.qty
  recording,   \* table recordings: owner_id, purged_at
  delivery,    \* table deliveries, by its UNIQUE recording_id
  groups,      \* table shelf_groups
  file,        \* the object at processed_key
  sess,        \* requests under way
  forgotten    \* history: recordings whose files a failed purge left behind

tableVars == <<users, stock, recording, delivery, groups>>
vars == <<users, stock, recording, delivery, groups, file, sess, forgotten>>

PCs == {"idle", "send", "claim", "open", "move", "empty-group", "delete",
        "withdraw", "leave", "purge"}
Idle == [pc |-> "idle", user |-> None, rec |-> None, arg |-> None,
         rows |-> {}]

(* A row of recordings. *)
Recorded == [owner : Users \cup {None}, purged : BOOLEAN]

(* A row of deliveries.  opened_at is the request that set it; token       *)
(* counts the links of the delivery, 0 for a tape sent to a friend.        *)
Delivery ==
  [sender : Users \cup {None}, recipient : Users \cup {None},
   token : 0 .. MaxToken, expired : BOOLEAN, opened : Sessions \cup {None},
   group : Groups \cup {None}, suppressed : BOOLEAN, deleted : BOOLEAN]

(* A request: its user and its parameters, and the rows it has read with   *)
(* the opened_at it saw.                                                   *)
Session ==
  [pc : PCs, user : Users \cup {None}, rec : Recordings \cup {None},
   arg : Users \cup Groups \cup 1 .. MaxToken \cup {None},
   rows : SUBSET (Recordings \X (Sessions \cup {None}))]

(* NULL is no id, and no row. *)
ASSUME NoneAssumption ==
  /\ None \notin Users \cup Sessions \cup Groups
  /\ None \notin Recorded /\ None \notin Delivery

TypeOK ==
  /\ users \subseteq Users
  /\ stock \in [Users -> Nat]
  /\ recording \in [Recordings -> Recorded \cup {None}]
  /\ delivery \in [Recordings -> Delivery \cup {None}]
  /\ groups \in [Users -> [Groups -> {"new", "live", "gone"}]]
  /\ file \in [Recordings -> BOOLEAN]
  /\ sess \in [Sessions -> Session]
  /\ forgotten \subseteq Recordings

(* Recordings has brought them to "ready", and nothing has been sent.      *)
Init ==
  /\ users = Users
  /\ stock = [u \in Users |-> Stock]
  /\ recording = [r \in Recordings |-> [owner |-> Owner[r], purged |-> FALSE]]
  /\ delivery = [r \in Recordings |-> None]
  /\ groups = [u \in Users |-> [g \in Groups |-> "new"]]
  /\ file = [r \in Recordings |-> TRUE]
  /\ sess = [p \in Sessions |-> Idle]
  /\ forgotten = {}

-----------------------------------------------------------------------------
(* Requests and the locks they hold *)

At(p, pc) == sess[p].pc = pc
Stop(p) == sess' = [sess EXCEPT ![p] = Idle]
Start(p, pc, u, r, arg) ==
  /\ At(p, "idle")
  /\ u \in users
  /\ sess' = [sess EXCEPT ![p] =
                [pc |-> pc, user |-> u, rec |-> r, arg |-> arg, rows |-> {}]]
  /\ UNCHANGED <<tableVars, file, forgotten>>

RowsOf(p) == {row[1] : row \in sess[p].rows}

(* Another transaction's SELECT ... FOR UPDATE, UPDATE or DELETE of the    *)
(* row waits for its holder to end.                                        *)
RecordingFree(r) ==
  \A p \in Sessions : /\ At(p, "send") => sess[p].rec # r
                      /\ At(p, "leave") => r \notin RowsOf(p)
DeliveryFree(r) ==
  \A p \in Sessions : sess[p].pc \in {"claim", "move"} => sess[p].rec # r
GroupFree(u, g) ==
  \A p \in Sessions :
    At(p, "empty-group") => sess[p].user # u \/ sess[p].arg # g

Received(u, r) == delivery[r] # None /\ delivery[r].recipient = u

Live(u) == {g \in Groups : groups[u][g] = "live"}

(* VISIBLE: what is in the drawer of u. *)
Visible(u, r) ==
  Received(u, r) /\ ~delivery[r].deleted /\ ~delivery[r].suppressed

-----------------------------------------------------------------------------
(* DeliveriesService.send *)

Sendable(u, r) ==
  /\ recording[r] # None
  /\ recording[r].owner = u /\ ~recording[r].purged
  /\ delivery[r] = None

\* Mutant: the recording is read without a lock.
SendReadOnly(p, u, r, to) ==
  /\ Sendable(u, r)
  /\ to = None \/ to \in users \ {u}
  /\ Start(p, "send", u, r, to)

(* The recording is locked and found unsent; to is a friend of u, or None  *)
(* for a link.                                                             *)
SendLock(p, u, r, to) ==
  /\ RecordingFree(r)
  /\ Sendable(u, r)
  /\ to = None \/ to \in users \ {u}
  /\ Start(p, "send", u, r, to)

\* Mutant: the quantity is not part of the WHERE.
HasInventory(u, r) == r \in Paid => u \in users

(* UPDATE ... SET qty = qty - 1 WHERE qty >= 1 *)
HasTape(u, r) == r \in Paid => stock[u] >= 1

(* It counts a row, and the INSERT meets its foreign keys and its UNIQUE.  *)
SendAccepted(p) ==
  LET u == sess[p].user
      r == sess[p].rec
  IN  /\ HasTape(u, r)
      /\ u \in users
      /\ sess[p].arg \in users \cup {None}
      /\ delivery[r] = None

SendCommit(p, hidden) ==
  LET u == sess[p].user
      r == sess[p].rec
      to == sess[p].arg
  IN  /\ At(p, "send")
      /\ SendAccepted(p)
      /\ hidden => to # None
      /\ delivery' = [delivery EXCEPT ![r] =
           [sender |-> u, recipient |-> to,
            token |-> IF to = None THEN 1 ELSE 0, expired |-> FALSE,
            opened |-> None, group |-> None,
            suppressed |-> hidden, deleted |-> FALSE]]
      /\ stock' = [stock EXCEPT ![u] = IF r \in Paid THEN @ - 1 ELSE @]
      /\ Stop(p)
      /\ UNCHANGED <<users, recording, groups, file, forgotten>>

SendRefused(p) ==
  /\ At(p, "send")
  /\ ~SendAccepted(p)
  /\ Stop(p)
  /\ UNCHANGED <<tableVars, file, forgotten>>

-----------------------------------------------------------------------------
(* Links *)

Pending(r) ==
  delivery[r] # None /\ delivery[r].token # 0 /\ delivery[r].recipient = None

(* Seven days pass. *)
Expire(r) ==
  /\ Pending(r) /\ ~delivery[r].expired
  /\ delivery' = [delivery EXCEPT ![r].expired = TRUE]
  /\ UNCHANGED <<users, stock, recording, groups, file, sess, forgotten>>

Renew(u, r) ==
  /\ u \in users
  /\ Pending(r) /\ delivery[r].sender = u /\ delivery[r].expired
  /\ delivery[r].token < MaxToken
  /\ delivery' = [delivery EXCEPT ![r].token = @ + 1, ![r].expired = FALSE]
  /\ UNCHANGED <<users, stock, recording, groups, file, sess, forgotten>>

(* DeliveriesService.reshare: a link still valid is given out as it is. *)
Reshare(u, r) == DeliveryFree(r) /\ Renew(u, r)

Claimable(u, r) ==
  Pending(r) /\ delivery[r].sender # u /\ ~delivery[r].expired

\* Mutant: ShareService.find without its lock.
ClaimReadOnly(p, u, r) ==
  Claimable(u, r) /\ Start(p, "claim", u, r, delivery[r].token)

(* ShareService.claim: find() by the token, and check(). *)
ClaimLock(p, u, r) ==
  /\ DeliveryFree(r)
  /\ Claimable(u, r)
  /\ Start(p, "claim", u, r, delivery[r].token)

ClaimCommit(p) ==
  LET u == sess[p].user
      r == sess[p].rec
  IN  /\ At(p, "claim")
      /\ delivery' = IF u \notin users THEN delivery
                     ELSE [delivery EXCEPT ![r].recipient = u,
                                           ![r].group = None]
      /\ Stop(p)
      /\ UNCHANGED <<users, stock, recording, groups, file, forgotten>>

-----------------------------------------------------------------------------
(* The drawer of the recipient *)

OpenRead(p, u, r) == Visible(u, r) /\ Start(p, "open", u, r, None)

(* COALESCE(opened_at, now()) *)
OpenedOnce(p, r) == IF delivery[r].opened = None THEN p ELSE delivery[r].opened

(* DeliveriesService.open: the UPDATE is by id alone. *)
OpenWrite(p) ==
  LET r == sess[p].rec
  IN  /\ At(p, "open")
      /\ DeliveryFree(r)
      /\ delivery' = IF ~Received(sess[p].user, r) THEN delivery
                     ELSE [delivery EXCEPT ![r].opened = OpenedOnce(p, r)]
      /\ Stop(p)
      /\ UNCHANGED <<users, stock, recording, groups, file, forgotten>>

CreateGroup(u, g) ==
  /\ u \in users
  /\ groups[u][g] = "new"
  /\ groups' = [groups EXCEPT ![u][g] = "live"]
  /\ UNCHANGED <<users, stock, recording, delivery, file, sess, forgotten>>

MayEnter(u, r, g) == g # None => g \in Live(u) /\ delivery[r].opened # None

(* ShelfService.moveItem: locks the tape, reads the group. *)
MoveLock(p, u, r, g) ==
  /\ DeliveryFree(r)
  /\ Visible(u, r)
  /\ MayEnter(u, r, g)
  /\ Start(p, "move", u, r, g)

(* The UPDATE.  The foreign key of a new group waits for its deletion, and *)
(* then refuses.                                                           *)
MoveCommit(p) ==
  LET u == sess[p].user
      r == sess[p].rec
      g == sess[p].arg
      stays == g \in {None, delivery[r].group}
  IN  /\ At(p, "move")
      /\ stays \/ GroupFree(u, g)
      /\ delivery' = IF stays \/ g \in Live(u)
                     THEN [delivery EXCEPT ![r].group = g] ELSE delivery
      /\ Stop(p)
      /\ UNCHANGED <<users, stock, recording, groups, file, forgotten>>

(* ShelfService.deleteGroup: locks the group, and reads its tapes. *)
EmptyGroup(p, u, g) ==
  LET inside == {r \in Recordings : /\ Received(u, r)
                                    /\ delivery[r].group = g
                                    /\ ~delivery[r].deleted}
  IN  /\ At(p, "idle")
      /\ u \in users
      /\ g \in Live(u) /\ GroupFree(u, g)
      /\ sess' = [sess EXCEPT ![p] =
           [pc |-> "empty-group", user |-> u, rec |-> None, arg |-> g,
            rows |-> {<<r, delivery[r].opened>> : r \in inside}]]
      /\ UNCHANGED <<tableVars, file, forgotten>>

(* It writes each by its id, with opened_at as it was read, and deletes    *)
(* the group; what is in it still is set to NULL by the foreign key.       *)
DeleteGroup(p) ==
  LET u == sess[p].user
      g == sess[p].arg
      Emptied(r) ==
        LET d == delivery[r]
            seen == {row[2] : row \in {row \in sess[p].rows : row[1] = r}}
        IN  IF ~Received(u, r) THEN d
            ELSE IF r \in RowsOf(p)
            THEN [d EXCEPT !.group = None,
                           !.opened = IF None \in seen THEN p
                                      ELSE CHOOSE o \in seen : TRUE]
            ELSE [d EXCEPT !.group = IF @ = g THEN None ELSE @]
  IN  /\ At(p, "empty-group")
      /\ \A r \in RowsOf(p) : DeliveryFree(r)
      /\ delivery' = [r \in Recordings |-> Emptied(r)]
      /\ groups' = [groups EXCEPT ![u][g] = "gone"]
      /\ Stop(p)
      /\ UNCHANGED <<users, stock, recording, file, forgotten>>

(* ShelfService.deleteItem reads without a lock. *)
DeleteRead(p, u, r) ==
  Received(u, r) /\ ~delivery[r].deleted /\ Start(p, "delete", u, r, None)

\* Mutant: the files are deleted before the commit, which may fail.
DeletePurgeFirst(p) ==
  LET r == sess[p].rec
      found == Received(sess[p].user, r)
  IN  /\ At(p, "delete")
      /\ DeliveryFree(r) /\ RecordingFree(r)
      /\ file' = [file EXCEPT ![r] = FALSE]
      /\ \/ /\ delivery' = IF ~found THEN delivery
                           ELSE [delivery EXCEPT ![r].deleted = TRUE,
                                                 ![r].group = None]
            /\ recording' = IF recording[r] = None THEN recording
                            ELSE [recording EXCEPT ![r].purged = TRUE]
         \/ UNCHANGED <<delivery, recording>>
      /\ Stop(p)
      /\ UNCHANGED <<users, stock, groups, forgotten>>

(* The two UPDATEs of deleteItem, each by id. *)
DeleteCommit(p) ==
  LET r == sess[p].rec
  IN  /\ At(p, "delete")
      /\ DeliveryFree(r) /\ RecordingFree(r)
      /\ delivery' = IF ~Received(sess[p].user, r) THEN delivery
                     ELSE [delivery EXCEPT ![r].deleted = TRUE,
                                           ![r].group = None]
      /\ recording' = IF recording[r] = None THEN recording
                      ELSE [recording EXCEPT ![r].purged = TRUE]
      /\ sess' = [sess EXCEPT ![p].pc = "purge", ![p].rows = {<<r, None>>}]
      /\ UNCHANGED <<users, stock, groups, file, forgotten>>

-----------------------------------------------------------------------------
(* UsersService.withdraw *)

(* Tapes received, own links nobody has claimed, and what was never sent. *)
Doomed(u) ==
  {r \in Recordings :
     /\ recording[r] # None
     /\ \/ Received(u, r)
        \/ /\ delivery[r] # None
           /\ delivery[r].sender = u /\ delivery[r].recipient = None
        \/ recording[r].owner = u /\ delivery[r] = None}

WithdrawRead(p, u) ==
  /\ At(p, "idle")
  /\ u \in users
  /\ sess' = [sess EXCEPT ![p] =
       [pc |-> "withdraw", user |-> u, rec |-> None, arg |-> None,
        rows |-> Doomed(u) \X {None}]]
  /\ UNCHANGED <<tableVars, file, forgotten>>

(* DELETE FROM recordings WHERE id IN what was read: locks the rows. *)
WithdrawDelete(p) ==
  /\ At(p, "withdraw")
  /\ \A r \in RowsOf(p) : RecordingFree(r)
  /\ sess' = [sess EXCEPT ![p].pc = "leave"]
  /\ UNCHANGED <<tableVars, file, forgotten>>

Touches(u, r) ==
  delivery[r] # None /\ u \in {delivery[r].sender, delivery[r].recipient}

(* The cascades of both DELETEs, and the commit. *)
WithdrawCommit(p) ==
  LET u == sess[p].user
      rows == RowsOf(p)
  IN  /\ At(p, "leave")
      /\ u \in users
      /\ \A r \in Recordings :
           /\ r \in rows \/ Touches(u, r) => DeliveryFree(r)
           /\ r \notin rows /\ recording[r] # None /\ recording[r].owner = u
              => RecordingFree(r)
      /\ \A g \in Groups : GroupFree(u, g)
      /\ users' = users \ {u}
      /\ recording' = [r \in Recordings |->
           IF r \in rows \/ recording[r] = None THEN None
           ELSE [recording[r] EXCEPT !.owner = IF @ = u THEN None ELSE @]]
      /\ delivery' = [r \in Recordings |->
           IF r \in rows \/ delivery[r] = None \/ Received(u, r) THEN None
           ELSE [delivery[r] EXCEPT !.sender = IF @ = u THEN None ELSE @]]
      /\ groups' = [groups EXCEPT ![u] = [g \in Groups |-> "gone"]]
      /\ stock' = [stock EXCEPT ![u] = 0]
      /\ sess' = [sess EXCEPT ![p].pc = "purge"]
      /\ UNCHANGED <<file, forgotten>>

(* USER_NOT_FOUND: another withdrawal was first. *)
WithdrawRefused(p) ==
  /\ At(p, "leave")
  /\ sess[p].user \notin users
  /\ Stop(p)
  /\ UNCHANGED <<tableVars, file, forgotten>>

(* ShelfService.purgeFiles *)
Purge(p) ==
  /\ At(p, "purge")
  /\ file' = [r \in Recordings |-> file[r] /\ r \notin RowsOf(p)]
  /\ Stop(p)
  /\ UNCHANGED <<tableVars, forgotten>>

(* The process dies, or a statement or the store fails: the transaction is *)
(* rolled back; of a purge that fails there is only a line in the log.     *)
Fail(p) ==
  /\ ~At(p, "idle")
  /\ Stop(p)
  /\ forgotten' = IF At(p, "purge") THEN forgotten \cup RowsOf(p)
                                    ELSE forgotten
  /\ UNCHANGED <<tableVars, file>>

-----------------------------------------------------------------------------

Begin(p, u) ==
  \/ WithdrawRead(p, u)
  \/ \E g \in Groups : EmptyGroup(p, u, g)
  \/ \E r \in Recordings :
       \/ ClaimLock(p, u, r) \/ OpenRead(p, u, r) \/ DeleteRead(p, u, r)
       \/ \E to \in Users \cup {None} : SendLock(p, u, r, to)
       \/ \E g \in Groups \cup {None} : MoveLock(p, u, r, g)

Continue(p) ==
  \/ \E hidden \in BOOLEAN : SendCommit(p, hidden)
  \/ SendRefused(p) \/ ClaimCommit(p) \/ OpenWrite(p) \/ MoveCommit(p)
  \/ DeleteGroup(p) \/ DeleteCommit(p) \/ WithdrawDelete(p)
  \/ WithdrawCommit(p) \/ WithdrawRefused(p) \/ Purge(p)

Next ==
  \/ \E p \in Sessions :
       Continue(p) \/ Fail(p) \/ \E u \in Users : Begin(p, u)
  \/ \E u \in Users :
       \/ \E g \in Groups : CreateGroup(u, g)
       \/ \E r \in Recordings : Reshare(u, r)
  \/ \E r \in Recordings : Expire(r)

Spec == Init /\ [][Next]_vars

-----------------------------------------------------------------------------

(* Of two requests to send one recording the second is told that it has    *)
(* been sent: no INSERT meets the UNIQUE of recording_id (the lock of      *)
(* send, and the order of its checks).                                     *)
SentOnce ==
  \A p \in Sessions : At(p, "send") => delivery[sess[p].rec] = None

(* "Only one person can receive it": whoever has a tape keeps being its    *)
(* recipient, whatever claims are under way (claim's lock and check).      *)
OneRecipient ==
  [][\A r \in Recordings :
       delivery[r] # None /\ delivery[r].recipient # None
         => delivery'[r] = None
            \/ delivery'[r].recipient = delivery[r].recipient]_vars

(* A tape is received through the link that is valid then: while it is     *)
(* being claimed nobody takes it and no new link replaces the one used     *)
(* (claim against claim, reshare and withdrawal).                          *)
ClaimedByItsLink ==
  \A p \in Sessions :
    At(p, "claim") =>
      Pending(sess[p].rec) /\ delivery[sess[p].rec].token = sess[p].arg

(* opened_at is the time of the first opening, whichever requests open the *)
(* tape at once and whatever deleteGroup read before ("only once").        *)
OpenedStays ==
  [][\A r \in Recordings :
       delivery[r] # None /\ delivery[r].opened # None
         => delivery'[r] = None
            \/ delivery'[r].opened = delivery[r].opened]_vars

(* Of a tape that is in a drawer, the recipient and the time of opening    *)
(* are settled: no claim, opening or clean-up that overlaps changes them.  *)
TapesStay == OneRecipient /\ OpenedStays

(* A group of a drawer holds opened tapes of its owner that are not        *)
(* deleted, and no tape is in a group that has been deleted, though        *)
(* deleteGroup, moveItem and deleteItem lock different rows.               *)
GroupsHoldOpenedTapes ==
  \A r \in Recordings :
    delivery[r] # None /\ delivery[r].group # None =>
      LET d == delivery[r]
      IN  /\ d.recipient # None /\ Visible(d.recipient, r)
          /\ d.opened # None
          /\ d.group \in Live(d.recipient)

(* What a request checked or locked is still so when it writes: one tape   *)
(* is sent once and claimed by its link, and a group holds opened tapes.   *)
ChecksHold == SentOnce /\ ClaimedByItsLink /\ GroupsHoldOpenedTapes

(* As long as the row of a recording is there and not marked purged, which *)
(* is all that audio() and webAudio() look at before they sign a URL, the  *)
(* file is there: it is deleted after the commit that takes the tape out   *)
(* of the drawer, and by nobody else (purgeFiles).                         *)
AudioHasFile ==
  \A r \in Recordings :
    recording[r] # None /\ ~recording[r].purged => file[r]

(* When a recording's row is gone or marked purged its files are gone too, *)
(* or a request is about to delete them, or its purge failed.              *)
PurgedOrForgotten ==
  \A r \in Recordings :
    file[r] /\ (recording[r] = None \/ recording[r].purged) =>
      r \in forgotten \/ \E p \in Sessions : At(p, "purge") /\ r \in RowsOf(p)

(* The files of a tape go with its row and not before. *)
FilesFollowRows == AudioHasFile /\ PurgedOrForgotten

(* docs/api.md, "withdrawal": a tape that was sent stays in the drawer of  *)
(* the recipient.  So only the recipient removes it, or leaves.            *)
KeptForRecipient ==
  [][\A u \in Users, r \in Recordings :
       Visible(u, r) /\ u \in users'
         => Received(u, r)' /\ delivery'[r].recipient = u]_vars

=============================================================================
