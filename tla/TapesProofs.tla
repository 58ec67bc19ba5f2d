---------------------------- MODULE TapesProofs ----------------------------
(***************************************************************************)
(* For every number of users, recordings, groups and requests: Tapes keeps *)
(* its types, what a request checked holds when it writes, a tape that was *)
(* received and opened stays so, and the files go with the rows.           *)
(***************************************************************************)
EXTENDS Tapes, TLAPS

-----------------------------------------------------------------------------
(* What a request holds in its local variables and knows of the tables.    *)

(* The parameters of a request. *)
Local(p) ==
  LET s == sess[p]
  IN  /\ s.pc # "idle" => s.user \in Users
      /\ s.pc \in {"send", "claim", "open", "move", "delete"} =>
           s.rec \in Recordings
      /\ At(p, "send") => s.arg \in Users \cup {None}
      /\ At(p, "claim") => s.arg \in 1 .. MaxToken
      /\ At(p, "move") => s.arg \in Groups \cup {None}
      /\ At(p, "empty-group") => s.arg \in Groups

(* What it found and keeps locked. *)
Keeps(p) ==
  LET s == sess[p]
      r == s.rec
  IN  /\ At(p, "send") => recording[r] # None /\ delivery[r] = None
      /\ At(p, "claim") => Pending(r) /\ delivery[r].token = s.arg
      /\ At(p, "move") =>
           Visible(s.user, r) /\ (s.arg # None => delivery[r].opened # None)

(* The tapes that deleteGroup read: opened, and still so unless they are   *)
(* gone with their recording or their recipient.                           *)
Read(p) ==
  At(p, "empty-group") =>
    \A row \in sess[p].rows :
      LET r == row[1]
          u == sess[p].user
      IN  /\ row[2] # None
          /\ \/ Received(u, r) /\ delivery[r].opened = row[2]
             \/ recording[r] = None /\ delivery[r] = None
             \/ u \notin users

(* Files are purged when no row needs them any more. *)
Purges(p) ==
  At(p, "purge") =>
    \A r \in RowsOf(p) : recording[r] = None \/ recording[r].purged

Holder == {"claim", "move"}

Apart(p, q) ==
  /\ At(p, "send") /\ At(q, "send") => sess[p].rec # sess[q].rec
  /\ At(p, "send") /\ At(q, "leave") => sess[p].rec \notin RowsOf(q)
  /\ sess[p].pc \in Holder /\ sess[q].pc \in Holder => sess[p].rec # sess[q].rec

LocksOK == \A p, q \in Sessions : p # q => Apart(p, q)
RequestsOK == \A p \in Sessions : Local(p) /\ Keeps(p) /\ Read(p) /\ Purges(p)
RecipientsExist ==
  \A r \in Recordings :
    delivery[r] # None => delivery[r].recipient \in users \cup {None}

IInv ==
  /\ TypeOK /\ LocksOK /\ RequestsOK /\ RecipientsExist
  /\ GroupsHoldOpenedTapes /\ AudioHasFile /\ PurgedOrForgotten

-----------------------------------------------------------------------------
(* What a step may do to the rows of a recording.  M holds the request     *)
(* that moves, or is empty when none does.                                 *)

Insert(M, r) ==
  LET e == delivery'[r]
  IN  /\ \E q \in M : At(q, "send") /\ sess[q].rec = r
      /\ delivery[r] = None /\ e # None
      /\ e.recipient \in users \cup {None} /\ users' = users
      /\ e.group = None

Claims(M, r) ==
  \E q \in M : /\ At(q, "claim") /\ sess[q].rec = r
               /\ sess[q].user \in users /\ users' = users
               /\ delivery'[r].recipient = sess[q].user
               /\ delivery'[r].group = None

MovesInto(M, r) ==
  \E q \in M : /\ At(q, "move") /\ sess[q].rec = r
               /\ delivery'[r].group = sess[q].arg
               /\ sess[q].arg \in Live(sess[q].user)

Update(M, r) ==
  LET d == delivery[r]
      e == delivery'[r]
  IN  /\ d # None /\ e # None
      /\ e.recipient = d.recipient \/ Claims(M, r)
      /\ e.recipient = d.recipient => d.recipient \in users' \cup {None}
      /\ \/ e.opened = d.opened
         \/ d.opened = None /\ e.opened # None /\ DeliveryFree(r)
      /\ e.token = d.token \/ DeliveryFree(r)
      /\ e.deleted = d.deleted \/ (DeliveryFree(r) /\ e.group = None)
      /\ e.suppressed = d.suppressed
      /\ \/ e.group \in {d.group, None}
         \/ MovesInto(M, r) /\ e.deleted = d.deleted

Remove(r) ==
  /\ delivery[r] # None /\ delivery'[r] = None /\ DeliveryFree(r)
  /\ recording'[r] = None \/ delivery[r].recipient \notin users' \cup {None}

Change(M, r) ==
  \/ delivery'[r] = delivery[r]
       /\ (delivery[r] # None => delivery[r].recipient \in users' \cup {None})
  \/ Insert(M, r) \/ Update(M, r) \/ Remove(r)

Rerecord(M, r) ==
  /\ recording[r] = None => recording'[r] = None
  /\ recording[r] # None /\ recording'[r] # None =>
       (recording[r].purged => recording'[r].purged)
  /\ \A p \in Sessions \ M : At(p, "send") /\ sess[p].rec = r =>
       (recording[r] # None => recording'[r] # None)

Effect(M) ==
  /\ \A r \in Recordings : Change(M, r) /\ Rerecord(M, r)
  /\ users' \subseteq users

TablesOK ==
  /\ users \subseteq Users
  /\ stock \in [Users -> Nat]
  /\ recording \in [Recordings -> Recorded \cup {None}]
  /\ delivery \in [Recordings -> Delivery \cup {None}]
  /\ groups \in [Users -> [Groups -> {"new", "live", "gone"}]]
  /\ file \in [Recordings -> BOOLEAN]
  /\ forgotten \subseteq Recordings

LEMMA TypesOf ==
  ASSUME IInv
  PROVE  /\ TablesOK /\ sess \in [Sessions -> Session]
         /\ \A p \in Sessions : RowsOf(p) \subseteq Recordings
  <1>1. TablesOK /\ sess \in [Sessions -> Session]
    BY DEF IInv, TypeOK, TablesOK
  <1>2. ASSUME NEW p \in Sessions PROVE RowsOf(p) \subseteq Recordings
    <2>1. sess[p].rows \subseteq Recordings \X (Sessions \cup {None})
      BY <1>1 DEF Session
    <2> QED BY <2>1 DEF RowsOf
  <1> QED BY <1>1, <1>2

LEMMA RowWritten ==
  ASSUME TablesOK, NEW r \in Recordings, NEW row \in Delivery,
         delivery' = [delivery EXCEPT ![r] = row]
  PROVE  /\ delivery' \in [Recordings -> Delivery \cup {None}]
         /\ delivery'[r] = row /\ row # None
         /\ \A x \in Recordings \ {r} : delivery'[x] = delivery[x]
  BY NoneAssumption DEF TablesOK

LEMMA QuietEffect ==
  ASSUME IInv, NEW M, UNCHANGED tableVars
  PROVE  Effect(M)
  BY DEF tableVars, Effect, Change, Rerecord, IInv, RecipientsExist

LEMMA SendEffect ==
  ASSUME IInv, NEW q \in Sessions, NEW hidden \in BOOLEAN, SendCommit(q, hidden)
  PROVE  TablesOK' /\ Effect({q})
  <1> DEFINE u == sess[q].user
             r == sess[q].rec
             to == sess[q].arg
             row == [sender |-> u, recipient |-> to,
                     token |-> IF to = None THEN 1 ELSE 0, expired |-> FALSE,
                     opened |-> None, group |-> None,
                     suppressed |-> hidden, deleted |-> FALSE]
  <1>1. /\ TablesOK /\ Local(q) /\ At(q, "send") /\ sess[q].pc = "send"
        /\ u \in users /\ u \in Users /\ r \in Recordings
        /\ to \in users \cup {None} /\ to \in Users \cup {None}
        /\ delivery[r] = None /\ HasTape(u, r)
        /\ delivery' = [delivery EXCEPT ![r] = row]
        /\ stock' = [stock EXCEPT ![u] = IF r \in Paid THEN stock[u] - 1
                                                       ELSE stock[u]]
        /\ UNCHANGED <<users, recording, groups, file, forgotten>>
    BY TypesOf DEF IInv, RequestsOK, Local, SendCommit, SendAccepted, At
  <1>2. row \in Delivery
    BY <1>1, SentAssumption DEF Delivery
  <1>3. row # None /\ row.recipient = to /\ row.group = None
    BY <1>2, NoneAssumption
  <1> HIDE DEF row
  <1>4. stock' \in [Users -> Nat]
    BY <1>1 DEF HasTape, TablesOK
  <1>5. delivery' \in [Recordings -> Delivery \cup {None}]
    BY <1>1, <1>2 DEF TablesOK
  <1>6. \A x \in Recordings : delivery'[x] = IF x = r THEN row ELSE delivery[x]
    BY <1>1 DEF TablesOK
  <1>7. \A x \in Recordings : Change({q}, x)
    BY <1>1, <1>3, <1>6 DEF Change, Insert, IInv, RecipientsExist
  <1> QED BY <1>1, <1>4, <1>5, <1>7 DEF TablesOK, Effect, Rerecord

LEMMA ClaimEffect ==
  ASSUME IInv, NEW q \in Sessions, ClaimCommit(q)
  PROVE  TablesOK' /\ Effect({q})
  <1> DEFINE u == sess[q].user
             r == sess[q].rec
  <1>1. /\ TablesOK /\ At(q, "claim") /\ u \in Users /\ r \in Recordings
        /\ delivery[r] # None /\ delivery[r].recipient = None
        /\ UNCHANGED <<users, stock, recording, groups, file, forgotten>>
    BY TypesOf DEF IInv, RequestsOK, Local, Keeps, Pending, ClaimCommit, At
  <1>2. CASE u \notin users
    <2>1. delivery' = delivery
      BY <1>2 DEF ClaimCommit
    <2> QED BY <1>1, <2>1, QuietEffect DEF TablesOK, tableVars
  <1>3. CASE u \in users
    <2> DEFINE row == [delivery[r] EXCEPT !.recipient = u, !.group = None]
    <2>1. delivery' = [delivery EXCEPT ![r] = row]
      BY <1>3 DEF ClaimCommit
    <2>2. delivery[r] \in Delivery
      BY <1>1 DEF TablesOK
    <2>7. /\ row \in Delivery /\ row.recipient = u /\ row.group = None
          /\ row.opened = delivery[r].opened /\ row.token = delivery[r].token
          /\ row.deleted = delivery[r].deleted
          /\ row.suppressed = delivery[r].suppressed
      BY <1>1, <2>2 DEF Delivery
    <2> HIDE DEF row
    <2>3. /\ delivery'[r] \in Delivery /\ delivery'[r] # None
          /\ delivery'[r].recipient = u /\ delivery'[r].group = None
          /\ delivery'[r].opened = delivery[r].opened
          /\ delivery'[r].token = delivery[r].token
          /\ delivery'[r].deleted = delivery[r].deleted
          /\ delivery'[r].suppressed = delivery[r].suppressed
          /\ \A x \in Recordings \ {r} : delivery'[x] = delivery[x]
      BY <1>1, <2>1, <2>7, RowWritten
    <2>4. delivery' \in [Recordings -> Delivery \cup {None}]
      BY <1>1, <2>1, <2>7, RowWritten
    <2>5. Update({q}, r)
      BY <1>1, <1>3, <2>3, NoneAssumption DEF Update, Claims
    <2>6. \A x \in Recordings : Change({q}, x)
      BY <1>1, <2>3, <2>5 DEF Change, IInv, RecipientsExist
    <2> QED BY <1>1, <2>4, <2>6 DEF TablesOK, Effect, Rerecord
  <1> QED BY <1>2, <1>3

LEMMA OpenEffect ==
  ASSUME IInv, NEW q \in Sessions, OpenWrite(q)
  PROVE  TablesOK' /\ Effect({q})
  <1> DEFINE u == sess[q].user
             r == sess[q].rec
  <1>1. /\ TablesOK /\ u \in Users /\ r \in Recordings /\ DeliveryFree(r)
        /\ UNCHANGED <<users, stock, recording, groups, file, forgotten>>
    BY TypesOf DEF IInv, RequestsOK, Local, OpenWrite, At
  <1>2. CASE ~Received(u, r)
    <2>1. delivery' = delivery
      BY <1>2 DEF OpenWrite
    <2> QED BY <1>1, <2>1, QuietEffect DEF TablesOK, tableVars
  <1>3. CASE Received(u, r)
    <2> DEFINE row == [delivery[r] EXCEPT !.opened = OpenedOnce(q, r)]
    <2>1. /\ delivery' = [delivery EXCEPT ![r] = row]
          /\ delivery[r] \in Delivery /\ delivery[r] # None
      BY <1>1, <1>3 DEF OpenWrite, Received, TablesOK
    <2>2. /\ OpenedOnce(q, r) \in Sessions /\ None \notin Sessions
          /\ delivery[r].opened # None => OpenedOnce(q, r) = delivery[r].opened
      BY <2>1, NoneAssumption DEF OpenedOnce, Delivery
    <2>3. /\ row \in Delivery /\ row.recipient = delivery[r].recipient
          /\ row.group = delivery[r].group
          /\ row.opened = OpenedOnce(q, r) /\ row.token = delivery[r].token
          /\ row.deleted = delivery[r].deleted
          /\ row.suppressed = delivery[r].suppressed
      BY <2>1, <2>2 DEF Delivery
    <2> HIDE DEF row
    <2>4. /\ delivery' \in [Recordings -> Delivery \cup {None}]
          /\ delivery'[r] = row /\ row # None
          /\ \A x \in Recordings \ {r} : delivery'[x] = delivery[x]
      BY <1>1, <2>1, <2>3, RowWritten
    <2>5. Update({q}, r)
      BY <1>1, <2>1, <2>2, <2>3, <2>4 DEF Update, IInv, RecipientsExist
    <2>6. \A x \in Recordings : Change({q}, x)
      BY <1>1, <2>4, <2>5 DEF Change, IInv, RecipientsExist
    <2> QED BY <1>1, <2>4, <2>6 DEF TablesOK, Effect, Rerecord
  <1> QED BY <1>2, <1>3

LEMMA MoveEffect ==
  ASSUME IInv, NEW q \in Sessions, MoveCommit(q)
  PROVE  TablesOK' /\ Effect({q})
  <1> DEFINE u == sess[q].user
             r == sess[q].rec
             g == sess[q].arg
             stays == g \in {None, delivery[r].group}
  <1>1. /\ TablesOK /\ At(q, "move") /\ u \in Users /\ r \in Recordings
        /\ g \in Groups \cup {None} /\ delivery[r] # None
        /\ UNCHANGED <<users, stock, recording, groups, file, forgotten>>
    BY TypesOf
    DEF IInv, RequestsOK, Local, Keeps, Visible, Received, MoveCommit, At
  <1>2. CASE ~(stays \/ g \in Live(u))
    <2>1. delivery' = delivery
      BY <1>2 DEF MoveCommit
    <2> QED BY <1>1, <2>1, QuietEffect DEF TablesOK, tableVars
  <1>3. CASE stays \/ g \in Live(u)
    <2> DEFINE row == [delivery[r] EXCEPT !.group = g]
    <2>1. /\ delivery' = [delivery EXCEPT ![r] = row]
          /\ delivery[r] \in Delivery
      BY <1>1, <1>3 DEF MoveCommit, TablesOK
    <2>2. /\ row \in Delivery /\ row.recipient = delivery[r].recipient
          /\ row.group = g
          /\ row.opened = delivery[r].opened /\ row.token = delivery[r].token
          /\ row.deleted = delivery[r].deleted
          /\ row.suppressed = delivery[r].suppressed
      BY <1>1, <2>1 DEF Delivery
    <2> HIDE DEF row
    <2>3. /\ delivery' \in [Recordings -> Delivery \cup {None}]
          /\ delivery'[r] = row /\ row # None
          /\ \A x \in Recordings \ {r} : delivery'[x] = delivery[x]
      BY <1>1, <2>1, <2>2, RowWritten
    <2>4. g \in {delivery[r].group, None} \/ MovesInto({q}, r)
      BY <1>1, <1>3, <2>2, <2>3 DEF MovesInto
    <2>5. Update({q}, r)
      BY <1>1, <2>2, <2>3, <2>4 DEF Update, IInv, RecipientsExist
    <2>6. \A x \in Recordings : Change({q}, x)
      BY <1>1, <2>3, <2>5 DEF Change, IInv, RecipientsExist
    <2> QED BY <1>1, <2>3, <2>6 DEF TablesOK, Effect, Rerecord
  <1> QED BY <1>2, <1>3

LEMMA DeleteEffect ==
  ASSUME IInv, NEW q \in Sessions, DeleteCommit(q)
  PROVE  TablesOK' /\ Effect({q})
  <1> DEFINE u == sess[q].user
             r == sess[q].rec
  <1>1. /\ TablesOK /\ u \in Users /\ r \in Recordings /\ DeliveryFree(r)
        /\ UNCHANGED <<users, stock, groups, file, forgotten>>
    BY TypesOf DEF IInv, RequestsOK, Local, DeleteCommit, At
  <1>2. /\ recording' \in [Recordings -> Recorded \cup {None}]
        /\ \A x \in Recordings : Rerecord({q}, x)
    <2>1. CASE recording[r] = None
      <3>1. recording' = recording
        BY <2>1 DEF DeleteCommit
      <3> QED BY <1>1, <3>1 DEF TablesOK, Rerecord
    <2>2. CASE recording[r] # None
      <3> DEFINE new == [recording[r] EXCEPT !.purged = TRUE]
      <3>1. /\ recording' = [recording EXCEPT ![r] = new]
            /\ recording[r] \in Recorded
        BY <1>1, <2>2 DEF DeleteCommit, TablesOK
      <3>2. new \in Recorded /\ new.purged /\ new # None
        BY <3>1, NoneAssumption DEF Recorded
      <3> HIDE DEF new
      <3>3. \A x \in Recordings :
              recording'[x] = IF x = r THEN new ELSE recording[x]
        BY <1>1, <3>1 DEF TablesOK
      <3>4. recording' \in [Recordings -> Recorded \cup {None}]
        BY <1>1, <3>1, <3>2 DEF TablesOK
      <3> QED BY <2>2, <3>2, <3>3, <3>4 DEF Rerecord
    <2> QED BY <2>1, <2>2
  <1>3. CASE ~Received(u, r)
    <2>1. delivery' = delivery
      BY <1>3 DEF DeleteCommit
    <2> QED BY <1>1, <1>2, <2>1
            DEF TablesOK, Effect, Change, IInv, RecipientsExist
  <1>4. CASE Received(u, r)
    <2> DEFINE row == [delivery[r] EXCEPT !.deleted = TRUE, !.group = None]
    <2>1. /\ delivery' = [delivery EXCEPT ![r] = row]
          /\ delivery[r] \in Delivery /\ delivery[r] # None
      BY <1>1, <1>4 DEF DeleteCommit, Received, TablesOK
    <2>2. /\ row \in Delivery /\ row.recipient = delivery[r].recipient
          /\ row.group = None
          /\ row.opened = delivery[r].opened /\ row.token = delivery[r].token
          /\ row.suppressed = delivery[r].suppressed
      BY <2>1 DEF Delivery
    <2> HIDE DEF row
    <2>3. /\ delivery' \in [Recordings -> Delivery \cup {None}]
          /\ delivery'[r] = row /\ row # None
          /\ \A x \in Recordings \ {r} : delivery'[x] = delivery[x]
      BY <1>1, <2>1, <2>2, RowWritten
    <2>4. Update({q}, r)
      BY <1>1, <2>1, <2>2, <2>3 DEF Update, IInv, RecipientsExist
    <2>5. \A x \in Recordings : Change({q}, x)
      BY <1>1, <2>3, <2>4 DEF Change, IInv, RecipientsExist
    <2> QED BY <1>1, <1>2, <2>3, <2>5 DEF TablesOK, Effect
  <1> QED BY <1>3, <1>4

LEMMA DeleteGroupEffect ==
  ASSUME IInv, NEW q \in Sessions, DeleteGroup(q)
  PROVE  /\ TablesOK' /\ Effect({q})
         /\ \A v \in Users, h \in Groups :
              h \in Live(v) =>
                h \in Live(v)' \/ (v = sess[q].user /\ h = sess[q].arg)
         /\ \A x \in Recordings :
              delivery'[x] # None /\ delivery'[x].recipient = sess[q].user =>
                delivery'[x].group # sess[q].arg
  <1> DEFINE u == sess[q].user
             g == sess[q].arg
             Seen(x) == {row[2] : row \in {row \in sess[q].rows : row[1] = x}}
             Emptied(x) ==
               LET d == delivery[x]
               IN  IF ~Received(u, x) THEN d
                   ELSE IF x \in RowsOf(q)
                   THEN [d EXCEPT !.group = None,
                                  !.opened = IF None \in Seen(x) THEN q
                                             ELSE CHOOSE o \in Seen(x) : TRUE]
                   ELSE [d EXCEPT !.group = IF d.group = g THEN None
                                                           ELSE d.group]
  <1>1. /\ TablesOK /\ u \in Users /\ g \in Groups /\ At(q, "empty-group")
        /\ \A x \in RowsOf(q) : DeliveryFree(x)
        /\ groups' = [groups EXCEPT ![u][g] = "gone"]
        /\ UNCHANGED <<users, stock, recording, file, forgotten>>
        /\ Read(q) /\ None \notin Users /\ None \notin Groups
    BY TypesOf, NoneAssumption DEF IInv, RequestsOK, Local, DeleteGroup, At
  <1>2. delivery' = [x \in Recordings |-> Emptied(x)]
    BY DEF DeleteGroup
  <1>3. ASSUME NEW x \in Recordings, Received(u, x), x \in RowsOf(q)
        PROVE  delivery[x].opened # None /\ Seen(x) = {delivery[x].opened}
    <2>1. /\ delivery[x] # None /\ u \in users
      BY <1>1, <1>3 DEF IInv, RecipientsExist, Received
    <2>2. \A row \in sess[q].rows : row[1] = x =>
            row[2] # None /\ row[2] = delivery[x].opened
      BY <1>1, <2>1 DEF Read
    <2>3. \E row \in sess[q].rows : row[1] = x
      BY <1>3 DEF RowsOf
    <2> QED BY <2>2, <2>3
  <1>4. ASSUME NEW x \in Recordings, Received(u, x)
        PROVE  /\ Emptied(x) \in Delivery
               /\ Emptied(x).recipient = delivery[x].recipient
               /\ Emptied(x).opened = delivery[x].opened
               /\ Emptied(x).token = delivery[x].token
               /\ Emptied(x).deleted = delivery[x].deleted
               /\ Emptied(x).suppressed = delivery[x].suppressed
               /\ Emptied(x).group \in {delivery[x].group, None} \ {g}
    <2>1. delivery[x] \in Delivery
      BY <1>1, <1>4 DEF TablesOK, Received
    <2>2. CASE x \in RowsOf(q)
      <3>1. Emptied(x) = [delivery[x] EXCEPT !.group = None,
                                             !.opened = delivery[x].opened]
        <4>1. delivery[x].opened # None /\ Seen(x) = {delivery[x].opened}
          BY <1>3, <1>4, <2>2
        <4> HIDE DEF Seen
        <4>2. (IF None \in Seen(x) THEN q ELSE CHOOSE o \in Seen(x) : TRUE)
                = delivery[x].opened
          BY <4>1
        <4> QED BY <1>4, <2>2, <4>2
      <3> QED BY <1>1, <2>1, <3>1 DEF Delivery
    <2>3. CASE x \notin RowsOf(q)
      <3>1. Emptied(x) = [delivery[x] EXCEPT !.group =
                            IF delivery[x].group = g THEN None
                                                     ELSE delivery[x].group]
        BY <1>4, <2>3
      <3> QED BY <1>1, <2>1, <3>1 DEF Delivery
    <2> QED BY <2>2, <2>3
  <1>5. \A x \in Recordings : ~Received(u, x) => Emptied(x) = delivery[x]
    OBVIOUS
  <1> HIDE DEF Emptied
  <1>6. /\ delivery' \in [Recordings -> Delivery \cup {None}]
        /\ \A x \in Recordings : delivery'[x] = Emptied(x)
    <2>1. \A x \in Recordings : Emptied(x) \in Delivery \cup {None}
      BY <1>1, <1>4, <1>5 DEF TablesOK
    <2> QED BY <1>2, <2>1
  <1>7. ASSUME NEW x \in Recordings PROVE Change({q}, x)
    <2>1. CASE ~Received(u, x)
      BY <1>1, <1>5, <1>6, <2>1 DEF Change, IInv, RecipientsExist
    <2>2. CASE Received(u, x)
      BY <1>1, <1>4, <1>6, <2>2, NoneAssumption
      DEF Change, Update, Received, IInv, RecipientsExist
    <2> QED BY <2>1, <2>2
  <1>8. /\ groups' \in [Users -> [Groups -> {"new", "live", "gone"}]]
        /\ \A v \in Users, h \in Groups :
             h \in Live(v) => h \in Live(v)' \/ (v = u /\ h = g)
    BY <1>1 DEF TablesOK, Live
  <1>9. \A x \in Recordings :
          delivery'[x] # None /\ delivery'[x].recipient = u =>
            delivery'[x].group # g
    BY <1>4, <1>5, <1>6 DEF Received
  <1> QED BY <1>1, <1>6, <1>7, <1>8, <1>9 DEF TablesOK, Effect, Rerecord

LEMMA WithdrawEffect ==
  ASSUME IInv, NEW q \in Sessions, WithdrawCommit(q)
  PROVE  /\ TablesOK' /\ Effect({q})
         /\ \A v \in Users : v # sess[q].user => Live(v)' = Live(v)
         /\ \A x \in Recordings : delivery'[x] # None =>
              delivery'[x].recipient # sess[q].user
         /\ \A x \in RowsOf(q) : recording'[x] = None
         /\ \A x \in Recordings \ RowsOf(q) :
              /\ recording'[x] = None <=> recording[x] = None
              /\ recording[x] # None =>
                   recording'[x].purged = recording[x].purged
  <1> DEFINE u == sess[q].user
             R == RowsOf(q)
             Kept(x) == IF x \in R \/ recording[x] = None THEN None
                        ELSE [recording[x] EXCEPT !.owner =
                                IF recording[x].owner = u THEN None
                                                  ELSE recording[x].owner]
             Left(x) == IF x \in R \/ delivery[x] = None \/ Received(u, x)
                        THEN None
                        ELSE [delivery[x] EXCEPT !.sender =
                                IF delivery[x].sender = u THEN None
                                                  ELSE delivery[x].sender]
  <1>1. /\ TablesOK /\ u \in Users /\ At(q, "leave") /\ u \in users
        /\ users' = users \ {u}
        /\ groups' = [groups EXCEPT ![u] = [g \in Groups |-> "gone"]]
        /\ stock' = [stock EXCEPT ![u] = 0]
        /\ \A x \in Recordings : x \in R \/ Touches(u, x) => DeliveryFree(x)
        /\ R \subseteq Recordings
        /\ UNCHANGED <<file, forgotten>>
    BY TypesOf DEF IInv, RequestsOK, Local, WithdrawCommit, At
  <1>2. /\ recording' = [x \in Recordings |-> Kept(x)]
        /\ delivery' = [x \in Recordings |-> Left(x)]
    BY DEF WithdrawCommit
  <1>3. ASSUME NEW x \in Recordings
        PROVE  /\ Kept(x) \in Recorded \cup {None}
               /\ x \in R => Kept(x) = None
               /\ x \notin R => /\ Kept(x) = None <=> recording[x] = None
                                /\ recording[x] # None =>
                                     Kept(x).purged = recording[x].purged
    <2>1. recording[x] # None => recording[x] \in Recorded
      BY <1>1 DEF TablesOK
    <2>2. CASE recording[x] # None /\ x \notin R
      <3>1. /\ Kept(x) \in Recorded /\ Kept(x).purged = recording[x].purged
        BY <1>1, <2>1, <2>2 DEF Recorded
      <3> QED BY <2>2, <3>1, NoneAssumption
    <2> QED BY <2>2
  <1>4. ASSUME NEW x \in Recordings
        PROVE  \/ Left(x) = None
                  /\ (x \in R \/ delivery[x] = None \/ Received(u, x))
               \/ /\ Left(x) \in Delivery /\ Left(x) # None
                  /\ delivery[x] # None /\ x \notin R /\ ~Received(u, x)
                  /\ Left(x).recipient = delivery[x].recipient
                  /\ Left(x).opened = delivery[x].opened
                  /\ Left(x).token = delivery[x].token
                  /\ Left(x).deleted = delivery[x].deleted
                  /\ Left(x).suppressed = delivery[x].suppressed
                  /\ Left(x).group = delivery[x].group
    <2>1. CASE x \in R \/ delivery[x] = None \/ Received(u, x)
      BY <2>1
    <2>2. CASE ~(x \in R \/ delivery[x] = None \/ Received(u, x))
      <3>1. delivery[x] \in Delivery
        BY <1>1, <2>2 DEF TablesOK
      <3>2. /\ Left(x) \in Delivery
            /\ Left(x).recipient = delivery[x].recipient
            /\ Left(x).opened = delivery[x].opened
            /\ Left(x).token = delivery[x].token
            /\ Left(x).deleted = delivery[x].deleted
            /\ Left(x).suppressed = delivery[x].suppressed
            /\ Left(x).group = delivery[x].group
        BY <2>2, <3>1 DEF Delivery
      <3> QED BY <2>2, <3>2, NoneAssumption
    <2> QED BY <2>1, <2>2
  <1> HIDE DEF Kept, Left
  <1>5. /\ recording' \in [Recordings -> Recorded \cup {None}]
        /\ \A x \in Recordings : recording'[x] = Kept(x)
    BY <1>2, <1>3
  <1>6. /\ delivery' \in [Recordings -> Delivery \cup {None}]
        /\ \A x \in Recordings : delivery'[x] = Left(x)
    <2>1. \A x \in Recordings : Left(x) \in Delivery \cup {None}
      BY <1>4
    <2> QED BY <1>2, <2>1
  <1>7. ASSUME NEW x \in Recordings PROVE Change({q}, x)
    <2>1. CASE delivery[x] = None
      BY <1>4, <1>6, <2>1 DEF Change
    <2>2. CASE delivery[x] # None /\ Left(x) = None
      <3>1. x \in R \/ Received(u, x)
        BY <1>4, <2>2
      <3>2. DeliveryFree(x)
        BY <1>1, <3>1 DEF Touches, Received
      <3>3. recording'[x] = None \/ delivery[x].recipient \notin users' \cup {None}
        BY <1>1, <1>3, <1>5, <3>1, NoneAssumption DEF Received
      <3> QED BY <1>6, <2>2, <3>2, <3>3 DEF Change, Remove
    <2>3. CASE Left(x) # None
      <3>1. delivery[x].recipient \in users' \cup {None}
        BY <1>1, <1>4, <2>3 DEF Received, IInv, RecipientsExist
      <3> QED BY <1>4, <1>6, <2>3, <3>1 DEF Change, Update
    <2> QED BY <2>1, <2>2, <2>3
  <1>8. ASSUME NEW x \in Recordings PROVE Rerecord({q}, x)
    <2>1. \A p \in Sessions \ {q} : At(p, "send") => sess[p].rec \notin R
      BY <1>1 DEF IInv, LocksOK, Apart
    <2> QED BY <1>3, <1>5, <2>1 DEF Rerecord
  <1>9. /\ groups' \in [Users -> [Groups -> {"new", "live", "gone"}]]
        /\ \A v \in Users : v # u => Live(v)' = Live(v)
        /\ stock' \in [Users -> Nat]
    BY <1>1 DEF TablesOK, Live
  <1>10. \A x \in Recordings : delivery'[x] # None => delivery'[x].recipient # u
    BY <1>4, <1>6 DEF Received
  <1> QED BY <1>1, <1>3, <1>5, <1>6, <1>7, <1>8, <1>9, <1>10
          DEF TablesOK, Effect

LEMMA ReshareEffect ==
  ASSUME IInv, NEW u \in Users, NEW r \in Recordings, Reshare(u, r)
  PROVE  TablesOK' /\ Effect({})
  <1> DEFINE row == [delivery[r] EXCEPT !.token = delivery[r].token + 1,
                                        !.expired = FALSE]
  <1>1. /\ TablesOK /\ delivery[r] \in Delivery /\ delivery[r] # None
        /\ DeliveryFree(r) /\ delivery[r].token < MaxToken
        /\ delivery' = [delivery EXCEPT ![r] = row]
        /\ UNCHANGED <<users, stock, recording, groups, file, forgotten>>
    BY TypesOf DEF Reshare, Renew, Pending, TablesOK
  <1>2. /\ row \in Delivery /\ row.recipient = delivery[r].recipient
        /\ row.group = delivery[r].group /\ row.opened = delivery[r].opened
        /\ row.deleted = delivery[r].deleted
        /\ row.suppressed = delivery[r].suppressed
    <2>1. delivery[r].token + 1 \in 0 .. MaxToken
      <3>1. delivery[r].token \in Nat
        BY <1>1, SentAssumption DEF Delivery
      <3> QED BY <1>1, <3>1, SentAssumption
    <2> DEFINE token == delivery[r].token + 1
    <2> HIDE DEF token
    <2>2. token \in 0 .. MaxToken
      BY <2>1 DEF token
    <2>3. row = [delivery[r] EXCEPT !.token = token, !.expired = FALSE]
      BY DEF token
    <2> QED BY <1>1, <2>2, <2>3 DEF Delivery
  <1> HIDE DEF row
  <1>3. /\ delivery' \in [Recordings -> Delivery \cup {None}]
        /\ delivery'[r] = row /\ row # None
        /\ \A x \in Recordings \ {r} : delivery'[x] = delivery[x]
    BY <1>1, <1>2, RowWritten
  <1>4. Update({}, r)
    BY <1>1, <1>2, <1>3 DEF Update, IInv, RecipientsExist
  <1>5. \A x \in Recordings : Change({}, x)
    BY <1>1, <1>3, <1>4 DEF Change, IInv, RecipientsExist
  <1> QED BY <1>1, <1>3, <1>5 DEF TablesOK, Effect, Rerecord

LEMMA ExpireEffect ==
  ASSUME IInv, NEW r \in Recordings, Expire(r)
  PROVE  TablesOK' /\ Effect({})
  <1> DEFINE row == [delivery[r] EXCEPT !.expired = TRUE]
  <1>1. /\ TablesOK /\ delivery[r] \in Delivery /\ delivery[r] # None
        /\ delivery' = [delivery EXCEPT ![r] = row]
        /\ UNCHANGED <<users, stock, recording, groups, file, forgotten>>
    BY TypesOf DEF Expire, Pending, TablesOK
  <1>2. /\ row \in Delivery /\ row.recipient = delivery[r].recipient
        /\ row.group = delivery[r].group /\ row.opened = delivery[r].opened
        /\ row.token = delivery[r].token
        /\ row.deleted = delivery[r].deleted
        /\ row.suppressed = delivery[r].suppressed
    BY <1>1 DEF Delivery
  <1> HIDE DEF row
  <1>3. /\ delivery' \in [Recordings -> Delivery \cup {None}]
        /\ delivery'[r] = row /\ row # None
        /\ \A x \in Recordings \ {r} : delivery'[x] = delivery[x]
    BY <1>1, <1>2, RowWritten
  <1>4. Update({}, r)
    BY <1>1, <1>2, <1>3 DEF Update, IInv, RecipientsExist
  <1>5. \A x \in Recordings : Change({}, x)
    BY <1>1, <1>3, <1>4 DEF Change, IInv, RecipientsExist
  <1> QED BY <1>1, <1>3, <1>5 DEF TablesOK, Effect, Rerecord

LEMMA CreateGroupEffect ==
  ASSUME IInv, NEW u \in Users, NEW g \in Groups, CreateGroup(u, g)
  PROVE  /\ TablesOK' /\ Effect({})
         /\ \A v \in Users, h \in Groups : h \in Live(v) => h \in Live(v)'
  <1>1. /\ TablesOK
        /\ groups' = [groups EXCEPT ![u][g] = "live"]
        /\ UNCHANGED <<users, stock, recording, delivery, file, forgotten>>
    BY TypesOf DEF CreateGroup
  <1>2. groups' \in [Users -> [Groups -> {"new", "live", "gone"}]]
    BY <1>1 DEF TablesOK
  <1>3. \A v \in Users, h \in Groups : h \in Live(v) => h \in Live(v)'
    BY <1>1 DEF TablesOK, Live
  <1> QED BY <1>1, <1>2, <1>3
          DEF TablesOK, Effect, Change, Rerecord, IInv, RecipientsExist

-----------------------------------------------------------------------------
(* What a request knows stays true while others move.                      *)

LEMMA KeepsStays ==
  ASSUME IInv, NEW M \in SUBSET Sessions, Effect(M),
         NEW p \in Sessions \ M, sess'[p] = sess[p]
  PROVE  Keeps(p)'
  <1> DEFINE r == sess[p].rec
  <1>1. /\ Keeps(p) /\ Local(p) /\ \A q \in M : q # p /\ Keeps(q) /\ Apart(p, q)
    BY DEF IInv, RequestsOK, LocksOK
  <1>2. r \in Recordings => Change(M, r) /\ Rerecord(M, r)
    BY DEF Effect
  <1>3. CASE At(p, "send")
    <2>1. /\ r \in Recordings /\ recording[r] # None /\ delivery[r] = None
      BY <1>1, <1>3 DEF Keeps, Local, At
    <2>2. recording'[r] # None
      BY <1>2, <1>3, <2>1 DEF Rerecord
    <2>3. ~Insert(M, r)
      BY <1>1, <1>3 DEF Insert, Apart
    <2>4. delivery'[r] = None
      BY <1>2, <2>1, <2>3 DEF Change, Update, Remove
    <2> QED BY <1>3, <2>2, <2>4 DEF Keeps, At
  <1>4. CASE At(p, "claim")
    <2>1. /\ r \in Recordings /\ Pending(r) /\ delivery[r].token = sess[p].arg
          /\ ~DeliveryFree(r)
      BY <1>1, <1>4 DEF Keeps, Local, At, DeliveryFree
    <2>2. ~Claims(M, r)
      BY <1>1, <1>4 DEF Claims, Apart, Holder, At
    <2>3. /\ delivery'[r] # None /\ delivery'[r].token = sess[p].arg
          /\ delivery'[r].recipient = None /\ delivery'[r].token # 0
      BY <1>2, <2>1, <2>2 DEF Change, Update, Remove, Insert, Pending
    <2> QED BY <1>4, <2>3 DEF Keeps, At, Pending
  <1>5. CASE At(p, "move")
    <2>1. /\ r \in Recordings /\ Visible(sess[p].user, r)
          /\ sess[p].arg # None => delivery[r].opened # None
          /\ ~DeliveryFree(r)
      BY <1>1, <1>5 DEF Keeps, Local, At, DeliveryFree
    <2>2. ~Claims(M, r)
      BY <1>1, <1>5 DEF Claims, Apart, Holder, At
    <2>3. /\ delivery'[r] # None /\ delivery'[r].recipient = sess[p].user
          /\ ~delivery'[r].deleted /\ ~delivery'[r].suppressed
          /\ sess[p].arg # None => delivery'[r].opened # None
      BY <1>2, <2>1, <2>2
      DEF Change, Update, Remove, Insert, Visible, Received
    <2> QED BY <1>5, <2>3 DEF Keeps, At, Visible, Received
  <1> QED BY <1>3, <1>4, <1>5 DEF Keeps, At

LEMMA ReadStays ==
  ASSUME IInv, NEW M \in SUBSET Sessions, Effect(M),
         NEW p \in Sessions \ M, sess'[p] = sess[p]
  PROVE  Read(p)'
  <1> SUFFICES ASSUME At(p, "empty-group"), NEW row \in sess[p].rows
               PROVE  LET r == row[1]
                          u == sess[p].user
                      IN  /\ row[2] # None
                          /\ \/ /\ delivery'[r] # None
                                /\ delivery'[r].recipient = u
                                /\ delivery'[r].opened = row[2]
                             \/ recording'[r] = None /\ delivery'[r] = None
                             \/ u \notin users'
    BY DEF Read, At, Received
  <1> DEFINE r == row[1]
             u == sess[p].user
  <1>1. /\ r \in Recordings /\ u \in Users /\ u # None
        /\ row[2] # None
        /\ \/ Received(u, r) /\ delivery[r].opened = row[2]
           \/ recording[r] = None /\ delivery[r] = None
           \/ u \notin users
        /\ \A q \in M : Keeps(q)
    BY TypesOf, NoneAssumption DEF IInv, RequestsOK, Read, Local, RowsOf, At
  <1>2. Change(M, r) /\ Rerecord(M, r) /\ users' \subseteq users
    BY <1>1 DEF Effect
  <1>3. CASE Received(u, r) /\ delivery[r].opened = row[2]
    <2>1. ~Claims(M, r)
      BY <1>1, <1>3 DEF Claims, Keeps, Pending, Received
    <2> QED BY <1>1, <1>2, <1>3, <2>1
            DEF Change, Update, Remove, Insert, Received
  <1>4. CASE recording[r] = None /\ delivery[r] = None
    <2>1. ~Insert(M, r)
      BY <1>1, <1>4 DEF Insert, Keeps
    <2> QED BY <1>1, <1>2, <1>4, <2>1 DEF Change, Update, Remove, Rerecord
  <1> QED BY <1>1, <1>2, <1>3, <1>4

LEMMA Rely ==
  ASSUME IInv, NEW M \in SUBSET Sessions, Effect(M),
         NEW p \in Sessions \ M, sess'[p] = sess[p]
  PROVE  Local(p)' /\ Keeps(p)' /\ Read(p)' /\ Purges(p)'
  <1>1. Local(p)'
    BY DEF IInv, RequestsOK, Local, At
  <1>2. Purges(p)'
    <2>1. Purges(p) /\ RowsOf(p) \subseteq Recordings
      BY TypesOf DEF IInv, RequestsOK
    <2>2. \A r \in RowsOf(p) : Rerecord(M, r)
      BY <2>1 DEF Effect
    <2> QED BY <2>1, <2>2 DEF Purges, At, RowsOf, Rerecord
  <1> QED BY <1>1, <1>2, KeepsStays, ReadStays

-----------------------------------------------------------------------------
(* The request that moves.                                                 *)

(* What it knows afterwards, and the locks it then holds.                  *)
Mover(q) ==
  /\ sess' \in [Sessions -> Session]
  /\ \A p \in Sessions \ {q} : sess'[p] = sess[p]
  /\ Local(q)' /\ Keeps(q)' /\ Read(q)' /\ Purges(q)'
  /\ \A p \in Sessions \ {q} : Apart(p, q)' /\ Apart(q, p)'

LEMMA SessionWritten ==
  ASSUME IInv, NEW q \in Sessions, NEW s \in Session,
         sess' = [sess EXCEPT ![q] = s]
  PROVE  /\ sess' \in [Sessions -> Session] /\ sess'[q] = s
         /\ \A p \in Sessions \ {q} : sess'[p] = sess[p]
  BY TypesOf

LEMMA StopMoves ==
  ASSUME IInv, NEW q \in Sessions, Stop(q)
  PROVE  Mover(q) /\ sess'[q].pc = "idle"
  <1>1. Idle \in Session /\ Idle.pc = "idle" /\ Idle.rows = {}
    BY DEF Idle, Session, PCs
  <1>2. /\ sess' \in [Sessions -> Session] /\ sess'[q] = Idle
        /\ \A p \in Sessions \ {q} : sess'[p] = sess[p]
    BY <1>1, SessionWritten DEF Stop
  <1>3. Local(q)' /\ Keeps(q)' /\ Read(q)' /\ Purges(q)'
    BY <1>1, <1>2 DEF Local, Keeps, Read, Purges, At
  <1>4. \A p \in Sessions \ {q} : Apart(p, q)' /\ Apart(q, p)'
    BY <1>1, <1>2 DEF Apart, Holder, At
  <1> QED BY <1>1, <1>2, <1>3, <1>4 DEF Mover

LEMMA StartMoves ==
  ASSUME IInv, NEW q \in Sessions, NEW u \in Users, NEW r \in Recordings,
         NEW arg \in Users \cup Groups \cup 1 .. MaxToken \cup {None},
         NEW pc \in {"send", "claim", "open", "move", "delete"},
         Start(q, pc, u, r, arg),
         pc = "send" =>
           /\ arg \in Users \cup {None} /\ RecordingFree(r)
           /\ recording[r] # None /\ delivery[r] = None,
         pc = "claim" =>
           /\ arg \in 1 .. MaxToken /\ DeliveryFree(r)
           /\ Pending(r) /\ delivery[r].token = arg,
         pc = "move" =>
           /\ arg \in Groups \cup {None} /\ DeliveryFree(r)
           /\ Visible(u, r) /\ (arg # None => delivery[r].opened # None)
  PROVE  Mover(q)
  <1> DEFINE s == [pc |-> pc, user |-> u, rec |-> r, arg |-> arg, rows |-> {}]
  <1>1. /\ s \in Session /\ s.pc = pc /\ s.user = u /\ s.rec = r
        /\ s.arg = arg
    BY DEF Session, PCs
  <1>2. sess' = [sess EXCEPT ![q] = s] /\ UNCHANGED tableVars
    BY DEF Start
  <1> HIDE DEF s
  <1>3. /\ sess' \in [Sessions -> Session] /\ sess'[q] = s
        /\ \A p \in Sessions \ {q} : sess'[p] = sess[p]
    BY <1>1, <1>2, SessionWritten
  <1>4. Local(q)' /\ Read(q)' /\ Purges(q)'
    BY <1>1, <1>3 DEF Local, Read, Purges, At
  <1>5. Keeps(q)'
    BY <1>1, <1>2, <1>3
    DEF Keeps, At, tableVars, Pending, Visible, Received
  <1>6. ASSUME NEW p \in Sessions \ {q} PROVE Apart(p, q)' /\ Apart(q, p)'
    <2>1. sess'[p] = sess[p] /\ sess'[q].pc = pc /\ sess'[q].rec = r
      BY <1>1, <1>3
    <2>2. /\ pc = "send" => (At(p, "send") => sess[p].rec # r)
                            /\ (At(p, "leave") => r \notin RowsOf(p))
          /\ pc \in Holder => (sess[p].pc \in Holder => sess[p].rec # r)
      BY DEF RecordingFree, DeliveryFree, Holder
    <2> QED BY <2>1, <2>2 DEF Apart, Holder, At, RowsOf
  <1> QED BY <1>3, <1>4, <1>5, <1>6 DEF Mover

(* Every step of a request leaves it with what it needs.                   *)
LEMMA BeginMoves ==
  ASSUME IInv, NEW q \in Sessions, NEW u \in Users, Begin(q, u)
  PROVE  Mover(q) /\ UNCHANGED <<tableVars, file, forgotten>> /\ At(q, "idle")
  <1> TablesOK
    BY TypesOf
  <1>1. CASE WithdrawRead(q, u)
    <2> DEFINE s == [pc |-> "withdraw", user |-> u, rec |-> None,
                     arg |-> None, rows |-> Doomed(u) \X {None}]
    <2>1. /\ s \in Session /\ s.pc = "withdraw" /\ s.user = u
      BY DEF Session, PCs, Doomed
    <2>2. /\ sess' = [sess EXCEPT ![q] = s]
          /\ UNCHANGED <<tableVars, file, forgotten>> /\ At(q, "idle")
      BY <1>1 DEF WithdrawRead
    <2> HIDE DEF s
    <2>3. /\ sess' \in [Sessions -> Session] /\ sess'[q] = s
          /\ \A p \in Sessions \ {q} : sess'[p] = sess[p]
      BY <2>1, <2>2, SessionWritten
    <2>4. Local(q)' /\ Keeps(q)' /\ Read(q)' /\ Purges(q)'
      BY <2>1, <2>3 DEF Local, Keeps, Read, Purges, At
    <2>5. \A p \in Sessions \ {q} : Apart(p, q)' /\ Apart(q, p)'
      BY <2>1, <2>3 DEF Apart, Holder, At
    <2> QED BY <2>2, <2>3, <2>4, <2>5 DEF Mover
  <1>2. ASSUME NEW g \in Groups, EmptyGroup(q, u, g)
        PROVE  Mover(q) /\ UNCHANGED <<tableVars, file, forgotten>>
               /\ At(q, "idle")
    <2> DEFINE inside == {r \in Recordings : /\ Received(u, r)
                                             /\ delivery[r].group = g
                                             /\ ~delivery[r].deleted}
               rows == {<<r, delivery[r].opened>> : r \in inside}
               s == [pc |-> "empty-group", user |-> u, rec |-> None,
                     arg |-> g, rows |-> rows]
    <2>1. ASSUME NEW r \in inside
          PROVE  /\ delivery[r] # None /\ delivery[r].recipient = u
                 /\ delivery[r].opened # None /\ delivery[r].opened \in Sessions
      BY <1>2, NoneAssumption
      DEF Received, TablesOK, Delivery, IInv, GroupsHoldOpenedTapes
    <2>2. \A row \in rows : /\ row[1] \in inside
                            /\ row[2] = delivery[row[1]].opened
                            /\ row = <<row[1], row[2]>>
      OBVIOUS
    <2>3. rows \subseteq Recordings \X (Sessions \cup {None})
      BY <2>1
    <2>4. s \in Session /\ s.pc = "empty-group" /\ s.user = u /\ s.arg = g
          /\ s.rows = rows
      BY <2>3 DEF Session, PCs
    <2>5. /\ sess' = [sess EXCEPT ![q] = s]
          /\ UNCHANGED <<tableVars, file, forgotten>> /\ At(q, "idle")
      BY <1>2 DEF EmptyGroup
    <2>6. \A row \in rows :
            /\ row[2] # None /\ Received(u, row[1])
            /\ delivery[row[1]].opened = row[2]
      BY <2>1, <2>2 DEF Received
    <2> HIDE DEF s, rows
    <2>7. /\ sess' \in [Sessions -> Session] /\ sess'[q] = s
          /\ \A p \in Sessions \ {q} : sess'[p] = sess[p]
      BY <2>4, <2>5, SessionWritten
    <2>8. Local(q)' /\ Keeps(q)' /\ Purges(q)'
      BY <2>4, <2>7 DEF Local, Keeps, Purges, At
    <2>9. Read(q)'
      BY <2>4, <2>5, <2>6, <2>7 DEF Read, Received, tableVars
    <2>10. \A p \in Sessions \ {q} : Apart(p, q)' /\ Apart(q, p)'
      BY <2>4, <2>7 DEF Apart, Holder, At
    <2> QED BY <2>5, <2>7, <2>8, <2>9, <2>10 DEF Mover
  <1>3. ASSUME NEW r \in Recordings, ClaimLock(q, u, r)
        PROVE  Mover(q) /\ UNCHANGED <<tableVars, file, forgotten>>
               /\ At(q, "idle")
    <2>1. /\ Start(q, "claim", u, r, delivery[r].token)
          /\ DeliveryFree(r) /\ Pending(r)
          /\ UNCHANGED <<tableVars, file, forgotten>> /\ At(q, "idle")
      BY <1>3 DEF ClaimLock, Claimable, Start
    <2>2. delivery[r].token \in 1 .. MaxToken
      <3>1. delivery[r].token \in 0 .. MaxToken /\ delivery[r].token # 0
        BY <2>1 DEF Pending, TablesOK, Delivery
      <3> QED BY <3>1, SentAssumption
    <2> DEFINE token == delivery[r].token
    <2> HIDE DEF token
    <2>3. /\ Start(q, "claim", u, r, token) /\ token \in 1 .. MaxToken
          /\ delivery[r].token = token
      BY <2>1, <2>2 DEF token
    <2>4. Mover(q)
      BY <2>1, <2>3, StartMoves
    <2> QED BY <2>1, <2>4
  <1>4. ASSUME NEW r \in Recordings, OpenRead(q, u, r) \/ DeleteRead(q, u, r)
        PROVE  Mover(q) /\ UNCHANGED <<tableVars, file, forgotten>>
               /\ At(q, "idle")
    <2>1. CASE Start(q, "open", u, r, None)
      <3>1. Mover(q)
        BY <2>1, StartMoves
      <3> QED BY <2>1, <3>1 DEF Start
    <2>2. CASE Start(q, "delete", u, r, None)
      <3>1. Mover(q)
        BY <2>2, StartMoves
      <3> QED BY <2>2, <3>1 DEF Start
    <2> QED BY <1>4, <2>1, <2>2 DEF OpenRead, DeleteRead
  <1>5. ASSUME NEW r \in Recordings, NEW to \in Users \cup {None},
               SendLock(q, u, r, to)
        PROVE  Mover(q) /\ UNCHANGED <<tableVars, file, forgotten>>
               /\ At(q, "idle")
    <2>1. /\ Start(q, "send", u, r, to) /\ RecordingFree(r)
          /\ recording[r] # None /\ delivery[r] = None
      BY <1>5 DEF SendLock, Sendable
    <2>2. Mover(q)
      BY <2>1, StartMoves
    <2> QED BY <2>1, <2>2 DEF Start
  <1>6. ASSUME NEW r \in Recordings, NEW g \in Groups \cup {None},
               MoveLock(q, u, r, g)
        PROVE  Mover(q) /\ UNCHANGED <<tableVars, file, forgotten>>
               /\ At(q, "idle")
    <2>1. /\ Start(q, "move", u, r, g) /\ DeliveryFree(r)
          /\ Visible(u, r) /\ (g # None => delivery[r].opened # None)
      BY <1>6 DEF MoveLock, MayEnter
    <2>2. Mover(q)
      BY <2>1, StartMoves
    <2> QED BY <2>1, <2>2 DEF Start
  <1> QED BY <1>1, <1>2, <1>3, <1>4, <1>5, <1>6 DEF Begin

LEMMA DeleteMoves ==
  ASSUME IInv, NEW q \in Sessions, DeleteCommit(q)
  PROVE  /\ Mover(q) /\ At(q, "delete") /\ At(q, "purge")'
         /\ RowsOf(q)' = {sess[q].rec}
  <1> DEFINE r == sess[q].rec
             one == {<<r, None>>}
             s == [sess[q] EXCEPT !.pc = "purge", !.rows = one]
  <1>1. /\ TablesOK /\ sess[q] \in Session /\ r \in Recordings
        /\ At(q, "delete") /\ sess[q].user \in Users
        /\ sess' = [sess EXCEPT ![q] = s]
        /\ recording' = IF recording[r] = None THEN recording
                        ELSE [recording EXCEPT ![r].purged = TRUE]
    BY TypesOf DEF IInv, RequestsOK, Local, DeleteCommit, At
  <1>a. /\ one \in SUBSET (Recordings \X (Sessions \cup {None}))
        /\ {row[1] : row \in one} = {r}
    BY <1>1
  <1> HIDE DEF one
  <1>2. /\ s \in Session /\ s.pc = "purge" /\ s.rows = one
        /\ s.user = sess[q].user
    BY <1>1, <1>a DEF Session, PCs
  <1> HIDE DEF s
  <1>3. /\ sess' \in [Sessions -> Session] /\ sess'[q] = s
        /\ \A p \in Sessions \ {q} : sess'[p] = sess[p]
    BY <1>1, <1>2, SessionWritten
  <1>4. Local(q)' /\ Keeps(q)' /\ Read(q)' /\ At(q, "purge")'
    BY <1>1, <1>2, <1>3 DEF Local, Keeps, Read, At
  <1>5. RowsOf(q)' = {r}
    BY <1>a, <1>2, <1>3 DEF RowsOf
  <1>6. recording'[r] = None \/ recording'[r].purged
    <2>1. CASE recording[r] = None
      BY <1>1, <2>1
    <2>2. CASE recording[r] # None
      <3>1. recording[r] \in Recorded
        BY <1>1, <2>2 DEF TablesOK
      <3>2. recording'[r] = [recording[r] EXCEPT !.purged = TRUE]
        BY <1>1, <2>2 DEF TablesOK
      <3> QED BY <3>1, <3>2 DEF Recorded
    <2> QED BY <2>1, <2>2
  <1>7. Purges(q)'
    BY <1>5, <1>6 DEF Purges
  <1>8. \A p \in Sessions \ {q} : Apart(p, q)' /\ Apart(q, p)'
    BY <1>2, <1>3 DEF Apart, Holder, At
  <1> QED BY <1>1, <1>3, <1>4, <1>5, <1>7, <1>8 DEF Mover

LEMMA WithdrawDeleteMoves ==
  ASSUME IInv, NEW q \in Sessions, WithdrawDelete(q)
  PROVE  Mover(q) /\ At(q, "withdraw")
  <1> DEFINE s == [sess[q] EXCEPT !.pc = "leave"]
  <1>1. /\ sess[q] \in Session /\ At(q, "withdraw")
        /\ sess[q].user \in Users
        /\ sess' = [sess EXCEPT ![q] = s]
        /\ \A r \in RowsOf(q) : RecordingFree(r)
    BY TypesOf DEF IInv, RequestsOK, Local, WithdrawDelete, At
  <1>2. /\ s \in Session /\ s.pc = "leave" /\ s.rows = sess[q].rows
        /\ s.user = sess[q].user
    BY <1>1 DEF Session, PCs
  <1> HIDE DEF s
  <1>3. /\ sess' \in [Sessions -> Session] /\ sess'[q] = s
        /\ \A p \in Sessions \ {q} : sess'[p] = sess[p]
    BY <1>1, <1>2, SessionWritten
  <1>4. Local(q)' /\ Keeps(q)' /\ Read(q)' /\ Purges(q)'
    BY <1>1, <1>2, <1>3 DEF Local, Keeps, Read, Purges, At
  <1>5. \A p \in Sessions : At(p, "send") => sess[p].rec \notin RowsOf(q)
    BY <1>1 DEF RecordingFree
  <1>6. \A p \in Sessions \ {q} : Apart(p, q)' /\ Apart(q, p)'
    BY <1>2, <1>3, <1>5 DEF Apart, Holder, At, RowsOf
  <1> QED BY <1>1, <1>3, <1>4, <1>6 DEF Mover

LEMMA WithdrawMoves ==
  ASSUME IInv, NEW q \in Sessions, WithdrawCommit(q)
  PROVE  /\ Mover(q) /\ At(q, "leave") /\ At(q, "purge")'
         /\ RowsOf(q)' = RowsOf(q)
  <1> DEFINE s == [sess[q] EXCEPT !.pc = "purge"]
  <1>1. /\ sess[q] \in Session /\ At(q, "leave")
        /\ sess[q].user \in Users
        /\ sess' = [sess EXCEPT ![q] = s]
    BY TypesOf DEF IInv, RequestsOK, Local, WithdrawCommit, At
  <1>2. /\ s \in Session /\ s.pc = "purge" /\ s.rows = sess[q].rows
        /\ s.user = sess[q].user
    BY <1>1 DEF Session, PCs
  <1> HIDE DEF s
  <1>3. /\ sess' \in [Sessions -> Session] /\ sess'[q] = s
        /\ \A p \in Sessions \ {q} : sess'[p] = sess[p]
    BY <1>1, <1>2, SessionWritten
  <1>4. Local(q)' /\ Keeps(q)' /\ Read(q)' /\ At(q, "purge")'
    BY <1>1, <1>2, <1>3 DEF Local, Keeps, Read, At
  <1>5. RowsOf(q)' = RowsOf(q)
    BY <1>2, <1>3 DEF RowsOf
  <1>6. Purges(q)'
    BY <1>5, WithdrawEffect DEF Purges
  <1>7. \A p \in Sessions \ {q} : Apart(p, q)' /\ Apart(q, p)'
    BY <1>2, <1>3 DEF Apart, Holder, At
  <1> QED BY <1>1, <1>3, <1>4, <1>5, <1>6, <1>7 DEF Mover

-----------------------------------------------------------------------------
(* From the rows and the requests to the invariant.                        *)

Lost(r) == recording[r] = None \/ recording[r].purged
Covered(r) ==
  r \in forgotten \/ \E p \in Sessions : At(p, "purge") /\ r \in RowsOf(p)

(* No group goes while a tape is in it.                                    *)
GroupsKept ==
  \A v \in Users, h \in Groups :
    h \in Live(v) =>
      \/ h \in Live(v)'
      \/ \A r \in Recordings :
           delivery'[r] # None /\ delivery'[r].recipient = v =>
             delivery'[r].group # h

(* A file goes with what needs it, and somebody sees to that.              *)
FilesKept ==
  \A r \in Recordings :
    /\ file'[r] => file[r]
    /\ file[r] => file'[r] \/ Lost(r)'
    /\ Lost(r)' /\ file'[r] => Lost(r) \/ Covered(r)'
    /\ Covered(r) /\ file'[r] => Covered(r)'

LEMMA RecipientsStay ==
  ASSUME IInv, NEW M \in SUBSET Sessions, Effect(M)
  PROVE  RecipientsExist'
  BY DEF RecipientsExist, Effect, Change, Insert, Update, Claims, Remove

LEMMA GroupsStay ==
  ASSUME IInv, TablesOK', NEW M \in SUBSET Sessions, Effect(M), GroupsKept
  PROVE  GroupsHoldOpenedTapes'
  <1> SUFFICES ASSUME NEW r \in Recordings,
                      delivery'[r] # None, delivery'[r].group # None
               PROVE  LET e == delivery'[r]
                      IN  /\ e.recipient # None
                          /\ ~e.deleted /\ ~e.suppressed
                          /\ e.opened # None
                          /\ e.group \in Groups
                          /\ groups'[e.recipient][e.group] = "live"
    BY DEF Live, GroupsHoldOpenedTapes, Visible, Received
  <1> DEFINE d == delivery[r]
             e == delivery'[r]
  <1>1. /\ TablesOK /\ Change(M, r) /\ \A q \in M : Keeps(q) /\ Local(q)
        /\ e \in Delivery
    BY TypesOf DEF IInv, RequestsOK, Effect, TablesOK
  <1>2. d # None /\ (e = d \/ Update(M, r))
    <2>1. ~Insert(M, r) /\ ~Remove(r)
      BY DEF Insert, Remove
    <2>2. Update(M, r) => d # None
      BY DEF Update
    <2> QED BY <1>1, <2>1, <2>2 DEF Change
  <1>3. ASSUME e.recipient = d.recipient, e.group = d.group, ~e.deleted = ~d.deleted,
               ~e.suppressed = ~d.suppressed,
               d.opened # None => e.opened # None
        PROVE  /\ e.recipient # None
               /\ ~e.deleted /\ ~e.suppressed
               /\ e.opened # None
               /\ e.group \in Groups
               /\ groups'[e.recipient][e.group] = "live"
    <2>1. /\ d.recipient # None /\ ~d.deleted /\ ~d.suppressed
          /\ d.opened # None /\ d.group \in Live(d.recipient)
      BY <1>2, <1>3 DEF IInv, GroupsHoldOpenedTapes, Visible, Received
    <2>2. d.recipient \in Users /\ d.group \in Groups
      BY <1>1, <1>2, <2>1 DEF TablesOK, Delivery, Live
    <2> QED BY <1>2, <1>3, <2>1, <2>2 DEF GroupsKept, Live
  <1>4. CASE e = d
    BY <1>3, <1>4
  <1>5. CASE Update(M, r) /\ e.group \in {d.group, None}
    <2>1. e.group = d.group /\ ~Claims(M, r)
      BY <1>5 DEF Claims
    <2> QED BY <1>3, <1>5, <2>1 DEF Update
  <1>6. CASE Update(M, r) /\ MovesInto(M, r) /\ e.deleted = d.deleted
    <2>1. PICK q \in M : /\ At(q, "move") /\ sess[q].rec = r
                         /\ e.group = sess[q].arg
                         /\ sess[q].arg \in Live(sess[q].user)
      BY <1>6 DEF MovesInto
    <2>2. /\ d.recipient = sess[q].user /\ ~d.deleted /\ ~d.suppressed
          /\ d.opened # None /\ sess[q].user \in Users
      BY <1>1, <2>1 DEF Keeps, Local, Visible, Received, At
    <2>3. e.recipient = d.recipient
      BY <1>6 DEF Update, Claims
    <2>4. e.suppressed = d.suppressed /\ e.opened # None
      BY <1>6, <2>2 DEF Update
    <2>5. e.group \in Groups
      BY <2>1 DEF Live
    <2>6. groups'[sess[q].user][e.group] = "live"
      BY <1>2, <2>1, <2>2, <2>3, <2>5 DEF GroupsKept, Live
    <2> QED BY <1>6, <2>2, <2>3, <2>4, <2>5, <2>6, NoneAssumption
  <1> QED BY <1>2, <1>4, <1>5, <1>6 DEF Update

LEMMA FilesStay ==
  ASSUME IInv, NEW M \in SUBSET Sessions, Effect(M), FilesKept
  PROVE  AudioHasFile' /\ PurgedOrForgotten'
  <1>1. \A r \in Recordings : Rerecord(M, r)
    BY DEF Effect
  <1>2. AudioHasFile'
    BY <1>1 DEF IInv, AudioHasFile, FilesKept, Rerecord, Lost
  <1>3. \A r \in Recordings : file[r] /\ Lost(r) => Covered(r)
    BY DEF IInv, PurgedOrForgotten, Lost, Covered
  <1>4. \A r \in Recordings : file'[r] /\ Lost(r)' => Covered(r)'
    BY <1>3 DEF FilesKept
  <1> QED BY <1>2, <1>4 DEF PurgedOrForgotten, Lost, Covered

LEMMA WorldKeeps ==
  ASSUME IInv, TablesOK', Effect({}), GroupsKept, FilesKept, sess' = sess
  PROVE  IInv'
  <1>1. \A p \in Sessions : Local(p)' /\ Keeps(p)' /\ Read(p)' /\ Purges(p)'
    BY Rely
  <1>2. LocksOK' /\ sess' \in [Sessions -> Session]
    BY TypesOf DEF IInv, LocksOK, Apart, At, RowsOf
  <1> QED BY <1>1, <1>2, RecipientsStay, GroupsStay, FilesStay
          DEF IInv, TypeOK, TablesOK, RequestsOK

LEMMA MoverKeeps ==
  ASSUME IInv, TablesOK', NEW q \in Sessions, Effect({q}), Mover(q),
         GroupsKept, FilesKept
  PROVE  IInv'
  <1>1. \A p \in Sessions : Local(p)' /\ Keeps(p)' /\ Read(p)' /\ Purges(p)'
    BY Rely DEF Mover
  <1>2. ASSUME NEW p1 \in Sessions, NEW p2 \in Sessions, p1 # p2
        PROVE  Apart(p1, p2)'
    <2>1. CASE p1 # q /\ p2 # q
      <3>1. sess'[p1] = sess[p1] /\ sess'[p2] = sess[p2] /\ Apart(p1, p2)
        BY <1>2, <2>1 DEF Mover, IInv, LocksOK
      <3> QED BY <3>1 DEF Apart, At, RowsOf
    <2> QED BY <1>2, <2>1 DEF Mover
  <1>3. LocksOK' /\ sess' \in [Sessions -> Session]
    BY <1>2 DEF LocksOK, Mover
  <1> QED BY <1>1, <1>3, RecipientsStay, GroupsStay, FilesStay
          DEF IInv, TypeOK, TablesOK, RequestsOK

-----------------------------------------------------------------------------
(* The steps.                                                              *)

LEMMA PurgersStay ==
  ASSUME IInv, NEW q \in Sessions, Mover(q), ~At(q, "purge"),
         UNCHANGED forgotten, NEW r, Covered(r)
  PROVE  Covered(r)'
  <1>1. CASE r \in forgotten
    BY <1>1 DEF Covered
  <1>2. ASSUME NEW p \in Sessions, At(p, "purge"), r \in RowsOf(p)
        PROVE  Covered(r)'
    <2>1. sess'[p] = sess[p]
      BY <1>2 DEF Mover
    <2>2. At(p, "purge")' /\ r \in RowsOf(p)'
      BY <1>2, <2>1 DEF At, RowsOf
    <2> QED BY <2>2 DEF Covered
  <1> QED BY <1>1, <1>2 DEF Covered

LEMMA FilesUntouched ==
  ASSUME IInv, NEW q \in Sessions, Mover(q), ~At(q, "purge"),
         UNCHANGED <<recording, file, forgotten>>
  PROVE  FilesKept
  <1>1. \A r \in Recordings : Covered(r) => Covered(r)'
    BY PurgersStay
  <1> QED BY <1>1 DEF FilesKept, Lost

LEMMA WritesKeep ==
  ASSUME IInv, NEW q \in Sessions, TablesOK', Effect({q}), Mover(q),
         ~At(q, "purge"), UNCHANGED <<recording, groups, file, forgotten>>
  PROVE  IInv'
  <1>1. FilesKept /\ GroupsKept
    BY FilesUntouched DEF GroupsKept, Live
  <1> QED BY <1>1, MoverKeeps

LEMMA QuietKeeps ==
  ASSUME IInv, NEW q \in Sessions, Mover(q),
         ~At(q, "purge"), UNCHANGED <<tableVars, file, forgotten>>
  PROVE  IInv' /\ Effect({q})
  <1>1. TablesOK' /\ Effect({q})
    BY TypesOf, QuietEffect DEF TablesOK, tableVars
  <1> QED BY <1>1, WritesKeep DEF tableVars

LEMMA DeleteGroupKeeps ==
  ASSUME IInv, NEW q \in Sessions, DeleteGroup(q)
  PROVE  IInv' /\ Effect({q})
  <1>1. /\ Mover(q) /\ At(q, "empty-group")
        /\ UNCHANGED <<recording, file, forgotten>>
    BY StopMoves DEF DeleteGroup
  <1>2. FilesKept
    BY <1>1, FilesUntouched DEF At
  <1>3. GroupsKept
    BY DeleteGroupEffect DEF GroupsKept
  <1> QED BY <1>1, <1>2, <1>3, DeleteGroupEffect, MoverKeeps

LEMMA DeleteKeeps ==
  ASSUME IInv, NEW q \in Sessions, DeleteCommit(q)
  PROVE  IInv' /\ Effect({q})
  <1> DEFINE x == sess[q].rec
  <1>1. /\ Mover(q) /\ At(q, "delete") /\ At(q, "purge")' /\ RowsOf(q)' = {x}
        /\ TablesOK' /\ Effect({q}) /\ UNCHANGED <<groups, file, forgotten>>
        /\ TablesOK
    BY DeleteMoves, DeleteEffect, TypesOf DEF DeleteCommit
  <1>2. GroupsKept
    BY <1>1 DEF GroupsKept, Live
  <1>3. \A r \in Recordings : Covered(r) => Covered(r)'
    BY <1>1, PurgersStay DEF At
  <1>4. \A r \in Recordings : r = x => Covered(r)'
    BY <1>1 DEF Covered
  <1>5. \A r \in Recordings \ {x} : recording'[r] = recording[r]
    BY <1>1 DEF DeleteCommit, TablesOK
  <1>6. FilesKept
    BY <1>1, <1>3, <1>4, <1>5 DEF FilesKept, Lost
  <1> QED BY <1>1, <1>2, <1>6, MoverKeeps

LEMMA WithdrawKeeps ==
  ASSUME IInv, NEW q \in Sessions, WithdrawCommit(q)
  PROVE  IInv' /\ Effect({q})
  <1>1. /\ Mover(q) /\ At(q, "leave") /\ At(q, "purge")'
        /\ RowsOf(q)' = RowsOf(q) /\ TablesOK' /\ Effect({q})
        /\ UNCHANGED <<file, forgotten>>
    BY WithdrawMoves, WithdrawEffect DEF WithdrawCommit
  <1>2. GroupsKept
    <2>1. \A v \in Users : v # sess[q].user => Live(v)' = Live(v)
      BY WithdrawEffect
    <2>2. \A r \in Recordings : delivery'[r] # None =>
            delivery'[r].recipient # sess[q].user
      BY WithdrawEffect
    <2> QED BY <2>1, <2>2 DEF GroupsKept
  <1>3. \A r \in Recordings : Covered(r) => Covered(r)'
    BY <1>1, PurgersStay DEF At
  <1>4. \A r \in RowsOf(q) : Covered(r)'
    BY <1>1 DEF Covered
  <1>5. \A r \in Recordings \ RowsOf(q) : Lost(r)' => Lost(r)
    BY WithdrawEffect DEF Lost
  <1>6. FilesKept
    BY <1>1, <1>3, <1>4, <1>5 DEF FilesKept
  <1> QED BY <1>1, <1>2, <1>6, MoverKeeps

LEMMA PurgeKeeps ==
  ASSUME IInv, NEW q \in Sessions, Purge(q)
  PROVE  IInv' /\ Effect({q})
  <1>1. /\ Mover(q) /\ At(q, "purge") /\ TablesOK
        /\ file' = [r \in Recordings |-> file[r] /\ r \notin RowsOf(q)]
        /\ UNCHANGED <<tableVars, forgotten>> /\ Purges(q)
    BY StopMoves, TypesOf DEF Purge, IInv, RequestsOK
  <1>2. TablesOK' /\ Effect({q}) /\ GroupsKept
    BY <1>1, QuietEffect DEF TablesOK, tableVars, GroupsKept, Live
  <1>3. ASSUME NEW r \in Recordings, Covered(r), r \notin RowsOf(q)
        PROVE  Covered(r)'
    <2>1. CASE r \in forgotten
      BY <1>1, <2>1 DEF Covered
    <2>2. ASSUME NEW p \in Sessions, At(p, "purge"), r \in RowsOf(p)
          PROVE  Covered(r)'
      <3>1. sess'[p] = sess[p]
        BY <1>1, <1>3, <2>2 DEF Mover
      <3>2. At(p, "purge")' /\ r \in RowsOf(p)'
        BY <2>2, <3>1 DEF At, RowsOf
      <3> QED BY <3>2 DEF Covered
    <2> QED BY <1>3, <2>1, <2>2 DEF Covered
  <1>4. \A r \in Recordings : /\ file'[r] <=> file[r] /\ r \notin RowsOf(q)
                              /\ Lost(r)' <=> Lost(r)
                              /\ r \in RowsOf(q) => Lost(r)
    BY <1>1 DEF Lost, Purges, tableVars
  <1>5. FilesKept
    BY <1>3, <1>4 DEF FilesKept
  <1> QED BY <1>1, <1>2, <1>5, MoverKeeps

LEMMA FailKeeps ==
  ASSUME IInv, NEW q \in Sessions, Fail(q)
  PROVE  IInv' /\ Effect({q})
  <1>1. /\ Mover(q) /\ TablesOK /\ RowsOf(q) \subseteq Recordings
        /\ forgotten' = IF At(q, "purge") THEN forgotten \cup RowsOf(q)
                                          ELSE forgotten
        /\ UNCHANGED <<tableVars, file>>
    BY StopMoves, TypesOf DEF Fail
  <1>2. TablesOK' /\ Effect({q}) /\ GroupsKept
    BY <1>1, QuietEffect DEF TablesOK, tableVars, GroupsKept, Live
  <1>3. CASE ~At(q, "purge")
    <2>1. UNCHANGED <<tableVars, file, forgotten>>
      BY <1>1, <1>3
    <2> QED BY <1>1, <1>3, <2>1, QuietKeeps
  <1>4. CASE At(q, "purge")
    <2>1. ASSUME NEW r \in Recordings, Covered(r) PROVE Covered(r)'
      <3>1. CASE r \in forgotten \/ r \in RowsOf(q)
        BY <1>1, <1>4, <3>1 DEF Covered
      <3>2. ASSUME NEW p \in Sessions \ {q}, At(p, "purge"), r \in RowsOf(p)
            PROVE  Covered(r)'
        <4>1. sess'[p] = sess[p]
          BY <1>1, <3>2 DEF Mover
        <4>2. At(p, "purge")' /\ r \in RowsOf(p)'
          BY <3>2, <4>1 DEF At, RowsOf
        <4> QED BY <4>2 DEF Covered
      <3> QED BY <2>1, <3>1, <3>2 DEF Covered
    <2>2. FilesKept
      BY <1>1, <2>1 DEF FilesKept, Lost, tableVars
    <2> QED BY <1>1, <1>2, <2>2, MoverKeeps
  <1> QED BY <1>3, <1>4

LEMMA BeginKeeps ==
  ASSUME IInv, NEW q \in Sessions, NEW u \in Users, Begin(q, u)
  PROVE  IInv' /\ Effect({q})
  <1>1. /\ Mover(q) /\ UNCHANGED <<tableVars, file, forgotten>>
        /\ ~At(q, "purge")
    BY BeginMoves DEF At
  <1> QED BY <1>1, QuietKeeps

LEMMA ContinueKeeps ==
  ASSUME IInv, NEW q \in Sessions, Continue(q)
  PROVE  IInv' /\ Effect({q})
  <1>1. ASSUME NEW hidden \in BOOLEAN, SendCommit(q, hidden)
        PROVE  IInv' /\ Effect({q})
    <2>1. /\ Mover(q) /\ ~At(q, "purge") /\ TablesOK' /\ Effect({q})
          /\ UNCHANGED <<recording, groups, file, forgotten>>
      BY <1>1, StopMoves, SendEffect DEF SendCommit, At
    <2> QED BY <2>1, WritesKeep
  <1>2. CASE SendRefused(q) \/ WithdrawRefused(q)
    <2>1. /\ Mover(q) /\ ~At(q, "purge")
          /\ UNCHANGED <<tableVars, file, forgotten>>
      BY <1>2, StopMoves DEF SendRefused, WithdrawRefused, At
    <2> QED BY <2>1, QuietKeeps
  <1>3. CASE ClaimCommit(q)
    <2>1. /\ Mover(q) /\ ~At(q, "purge") /\ TablesOK' /\ Effect({q})
          /\ UNCHANGED <<recording, groups, file, forgotten>>
      BY <1>3, StopMoves, ClaimEffect DEF ClaimCommit, At
    <2> QED BY <2>1, WritesKeep
  <1>4. CASE OpenWrite(q)
    <2>1. /\ Mover(q) /\ ~At(q, "purge") /\ TablesOK' /\ Effect({q})
          /\ UNCHANGED <<recording, groups, file, forgotten>>
      BY <1>4, StopMoves, OpenEffect DEF OpenWrite, At
    <2> QED BY <2>1, WritesKeep
  <1>5. CASE MoveCommit(q)
    <2>1. /\ Mover(q) /\ ~At(q, "purge") /\ TablesOK' /\ Effect({q})
          /\ UNCHANGED <<recording, groups, file, forgotten>>
      BY <1>5, StopMoves, MoveEffect DEF MoveCommit, At
    <2> QED BY <2>1, WritesKeep
  <1>6. CASE WithdrawDelete(q)
    <2>1. /\ Mover(q) /\ ~At(q, "purge")
          /\ UNCHANGED <<tableVars, file, forgotten>>
      BY <1>6, WithdrawDeleteMoves DEF WithdrawDelete, At
    <2> QED BY <2>1, QuietKeeps
  <1> QED BY <1>1, <1>2, <1>3, <1>4, <1>5, <1>6, DeleteGroupKeeps, DeleteKeeps,
             WithdrawKeeps, PurgeKeeps DEF Continue

LEMMA WorldStepKeeps ==
  ASSUME IInv,
         \/ \E u \in Users, g \in Groups : CreateGroup(u, g)
         \/ \E u \in Users, r \in Recordings : Reshare(u, r)
         \/ \E r \in Recordings : Expire(r)
         \/ UNCHANGED vars
  PROVE  IInv' /\ Effect({})
  <1>1. /\ TablesOK' /\ Effect({}) /\ sess' = sess
        /\ UNCHANGED <<recording, file, forgotten>>
        /\ \A v \in Users, h \in Groups : h \in Live(v) => h \in Live(v)'
    <2>1. ASSUME NEW u \in Users, NEW g \in Groups, CreateGroup(u, g)
          PROVE  <1>1
      BY <2>1, CreateGroupEffect DEF CreateGroup
    <2>2. ASSUME NEW u \in Users, NEW r \in Recordings, Reshare(u, r)
          PROVE  <1>1
      BY <2>2, ReshareEffect DEF Reshare, Renew, Live
    <2>3. ASSUME NEW r \in Recordings, Expire(r)
          PROVE  <1>1
      BY <2>3, ExpireEffect DEF Expire, Live
    <2>4. CASE UNCHANGED vars
      BY <2>4, TypesOf, QuietEffect DEF vars, tableVars, TablesOK, Live
    <2> QED BY <2>1, <2>2, <2>3, <2>4
  <1>2. GroupsKept
    BY <1>1 DEF GroupsKept
  <1>3. FilesKept
    BY <1>1 DEF FilesKept, Lost, Covered, At, RowsOf
  <1> QED BY <1>1, <1>2, <1>3, WorldKeeps

LEMMA StepKeeps ==
  ASSUME IInv, [Next]_vars
  PROVE  IInv' /\ \E M \in SUBSET Sessions : Effect(M)
  <1>1. ASSUME NEW q \in Sessions,
               Continue(q) \/ Fail(q) \/ \E u \in Users : Begin(q, u)
        PROVE  IInv' /\ Effect({q})
    BY <1>1, ContinueKeeps, FailKeeps, BeginKeeps
  <1>2. CASE \E q \in Sessions :
               Continue(q) \/ Fail(q) \/ \E u \in Users : Begin(q, u)
    <2>1. PICK q \in Sessions :
            Continue(q) \/ Fail(q) \/ \E u \in Users : Begin(q, u)
      BY <1>2
    <2>2. {q} \in SUBSET Sessions
      OBVIOUS
    <2> QED BY <1>1, <2>1, <2>2
  <1>3. CASE \/ \E u \in Users, g \in Groups : CreateGroup(u, g)
             \/ \E u \in Users, r \in Recordings : Reshare(u, r)
             \/ \E r \in Recordings : Expire(r)
             \/ UNCHANGED vars
    <2>1. {} \in SUBSET Sessions
      OBVIOUS
    <2> QED BY <1>3, <2>1, WorldStepKeeps
  <1> QED BY <1>2, <1>3 DEF Next

LEMMA Starts ==
  ASSUME Init
  PROVE  IInv
  <1>1. TypeOK
    BY SentAssumption, NoneAssumption
    DEF Init, TypeOK, Recorded, Session, Idle, PCs
  <1>2. \A p \in Sessions : sess[p] = Idle /\ sess[p].pc = "idle"
    BY DEF Init, Idle
  <1>3. LocksOK /\ RequestsOK
    BY <1>2 DEF LocksOK, Apart, Holder, At, RequestsOK, Local, Keeps, Read,
                Purges
  <1>4. RecipientsExist /\ GroupsHoldOpenedTapes /\ AudioHasFile
    BY DEF Init, RecipientsExist, GroupsHoldOpenedTapes, AudioHasFile
  <1>5. PurgedOrForgotten
    <2>1. \A r \in Recordings : recording[r] \in Recorded /\ ~recording[r].purged
      BY SentAssumption DEF Init, Recorded
    <2> QED BY <2>1, NoneAssumption DEF PurgedOrForgotten
  <1> QED BY <1>1, <1>3, <1>4, <1>5 DEF IInv

LEMMA Inductive == Spec => []IInv
  <1>1. Init => IInv
    BY Starts
  <1>2. IInv /\ [Next]_vars => IInv'
    BY StepKeeps
  <1> QED BY <1>1, <1>2, PTL DEF Spec

-----------------------------------------------------------------------------

(* Every table and every request keeps the form it has in the schema and   *)
(* in the services.                                                        *)
THEOREM Typing == Spec => []TypeOK
  <1>1. IInv => TypeOK
    BY DEF IInv
  <1> QED BY <1>1, Inductive, PTL

(* What send, claim, moveItem and deleteGroup checked or locked still      *)
(* holds when they write: a tape is sent once, it is claimed by the link   *)
(* that is valid, and a group holds opened tapes of its owner.             *)
THEOREM ChecksAreKept == Spec => []ChecksHold
  <1>1. ASSUME IInv PROVE ChecksHold
    <2>1. \A p \in Sessions : Keeps(p)
      BY <1>1 DEF IInv, RequestsOK
    <2>2. SentOnce
      BY <2>1 DEF SentOnce, Keeps
    <2>3. ClaimedByItsLink
      BY <2>1 DEF ClaimedByItsLink, Keeps
    <2> QED BY <1>1, <2>2, <2>3 DEF ChecksHold, IInv
  <1> QED BY <1>1, Inductive, PTL

(* The files of a tape go after the commit that takes its row out of the   *)
(* drawer, not before, and somebody is there to delete them (purgeFiles).  *)
THEOREM FilesFollow == Spec => []FilesFollowRows
  <1>1. IInv => FilesFollowRows
    BY DEF IInv, FilesFollowRows
  <1> QED BY <1>1, Inductive, PTL

(* Whoever has a tape stays its recipient, and opened_at is written once   *)
(* (claim's lock, open's COALESCE, what deleteGroup wrote back).           *)
THEOREM ReceivedTapesStay == Spec => TapesStay
  <1> DEFINE A == \A r \in Recordings :
                    delivery[r] # None /\ delivery[r].recipient # None
                      => delivery'[r] = None
                         \/ delivery'[r].recipient = delivery[r].recipient
             B == \A r \in Recordings :
                    delivery[r] # None /\ delivery[r].opened # None
                      => delivery'[r] = None
                         \/ delivery'[r].opened = delivery[r].opened
  <1>1. IInv /\ [Next]_vars => A /\ B
    <2> SUFFICES ASSUME IInv, [Next]_vars PROVE A /\ B
      OBVIOUS
    <2>1. PICK M \in SUBSET Sessions : Effect(M)
      BY StepKeeps
    <2>2. ASSUME NEW r \in Recordings PROVE Change(M, r)
      BY <2>1 DEF Effect
    <2>3. ASSUME NEW r \in Recordings, Claims(M, r)
          PROVE  delivery[r].recipient = None
      BY <2>3 DEF Claims, IInv, RequestsOK, Keeps, Pending
    <2>4. A
      BY <2>2, <2>3 DEF Change, Insert, Update, Remove
    <2>5. B
      BY <2>2 DEF Change, Insert, Update, Remove
    <2> QED BY <2>4, <2>5
  <1>2. TapesStay <=> [][A]_vars /\ [][B]_vars
    BY DEF TapesStay, OneRecipient, OpenedStays
  <1> HIDE DEF A, B
  <1>3. Spec => [][A]_vars /\ [][B]_vars
    BY <1>1, Inductive, PTL DEF Spec
  <1> QED BY <1>2, <1>3

=============================================================================
