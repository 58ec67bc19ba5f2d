------------------------------ MODULE Reports ------------------------------
(***************************************************************************)
(* Reports of one user (ReportsService): the checks, the record, and the   *)
(* block that may come with it are one transaction; requests of the same   *)
(* reporter follow each other under an advisory lock that is held until    *)
(* the commit.  Withdrawals, deleted tapes, the clock and the clean-up go  *)
(* on in between.                                                          *)
(***************************************************************************)
EXTENDS Integers, FiniteSets

CONSTANTS
  Requests,     \* concurrent requests of the reporter
  Persons,      \* others whom the reporter knows or got a tape from
  Parcels,      \* tapes in the reporter's drawer
  Friends,      \* of them, those who are friends at first
  SenderOf,     \* who sent a tape
  DailyLimit,   \* REPORT_DAILY_LIMIT
  Window,       \* 24 hours, also REPORT_DEDUP_HOURS, in ticks
  Retention,    \* REPORT_RETENTION_YEARS, in ticks
  MaxNow,       \* last tick (bound)
  Nobody        \* SQL NULL

ReportsAssumption ==
  /\ SenderOf \in [Parcels -> Persons] /\ Persons \cap Parcels = {}
  /\ Friends \subseteq Persons /\ Nobody \notin Persons \cup Requests
  /\ DailyLimit \in Nat \ {0}
  /\ Window \in Nat \ {0} /\ MaxNow \in Nat
  /\ Retention \in Nat /\ Retention >= Window

VARIABLES
  now,
  here,      \* the reporter has not withdrawn
  members,   \* of the others, those who have not withdrawn
  friends,   \* friendships of the reporter
  parcels,   \* tapes visible in the drawer
  reports,   \* rows of reports
  blocked,   \* blocks of the reporter
  told,      \* reports the operator was told of
  holder,    \* holder of the advisory lock
  req

vars == <<now, here, members, friends, parcels, reports, blocked, told,
          holder, req>>
data == <<here, members, friends, parcels>>

Targets == Persons \cup Parcels
Report == [target : Targets, at : 0 .. MaxNow, mine : BOOLEAN]
NoReport == [target |-> Nobody, at |-> 0, mine |-> FALSE]

Idle == [pc |-> "idle", target |-> Nobody, block |-> FALSE, person |-> Nobody,
         at |-> 0, report |-> NoReport, created |-> FALSE]

TypeOK ==
  /\ now \in 0 .. MaxNow /\ here \in BOOLEAN
  /\ members \subseteq Persons /\ friends \subseteq members
  /\ parcels \subseteq Parcels
  /\ reports \subseteq Report
  /\ blocked \subseteq members
  /\ told \subseteq Report
  /\ holder \in Requests \cup {Nobody}
  /\ \A p \in Requests :
       /\ req[p].pc \in {"idle", "lock", "check", "repeat", "store", "answer"}
       /\ req[p].pc \in {"check", "repeat", "store"} <=> holder = p

Init ==
  /\ now = 0 /\ here = TRUE /\ members = Persons
  /\ friends = Friends /\ parcels = Parcels
  /\ reports = {} /\ blocked = {}
  /\ told = {}
  /\ holder = Nobody
  /\ req = [p \in Requests |-> Idle]

-----------------------------------------------------------------------------
At(p, pc) == req[p].pc = pc

Begin(p, t, b) ==
  /\ At(p, "idle") /\ here
  /\ req' = [req EXCEPT ![p] = [Idle EXCEPT !.pc = "lock", !.target = t,
                                            !.block = b]]
  /\ UNCHANGED <<now, data, reports, blocked, told, holder>>

\* Mutant: without pg_advisory_xact_lock.
LockNothing(p) ==
  /\ At(p, "lock")
  /\ req' = [req EXCEPT ![p].pc = "check"]
  /\ UNCHANGED <<now, data, reports, blocked, told, holder>>

Lock(p) ==
  /\ At(p, "lock")
  /\ holder = Nobody
  /\ holder' = p
  /\ req' = [req EXCEPT ![p].pc = "check"]
  /\ UNCHANGED <<now, data, reports, blocked, told>>

(* resolveTarget: a tape in the drawer, or a friend or somebody who ever   *)
(* sent a tape (its row outlives the tape).  The sender of a tape is NULL  *)
(* when he has withdrawn.                                                  *)
Reportable(t) ==
  IF t \in Parcels THEN t \in parcels
  ELSE t \in members /\ (t \in friends \/ \E d \in Parcels : SenderOf[d] = t)
PersonOf(t) ==
  IF t \in Persons THEN t
  ELSE IF SenderOf[t] \in members THEN SenderOf[t] ELSE Nobody

Mine(since) == {r \in reports : r.mine /\ r.at > since}
Recent(t) == {r \in Mine(now - Window) : r.target = t}
Latest(S) == CHOOSE r \in S : \A s \in S : s.at <= r.at

(* The target, the existing report of it, and the limit, read one after    *)
(* the other under the lock; what is refused is rolled back (Fail).        *)
Check(p) ==
  LET t == req[p].target
  IN  /\ At(p, "check") /\ Reportable(t)
      /\ \/ /\ Recent(t) # {}
            /\ req' = [req EXCEPT ![p].pc = "repeat", ![p].at = now,
                                  ![p].person = PersonOf(t),
                                  ![p].report = Latest(Recent(t))]
         \/ /\ Recent(t) = {}
            /\ Cardinality(Mine(now - Window)) < DailyLimit
            /\ req' = [req EXCEPT ![p].pc = "store", ![p].at = now,
                                  ![p].person = PersonOf(t)]
      /\ UNCHANGED <<now, data, reports, blocked, told, holder>>

(* blockInTransaction: the friendship is kept in the block.  The foreign   *)
(* keys fail when either side has withdrawn since.                         *)
Block(p) ==
  IF req[p].block /\ req[p].person # Nobody
  THEN /\ here /\ req[p].person \in members
       /\ blocked' = blocked \cup {req[p].person}
       /\ friends' = friends \ {req[p].person}
  ELSE UNCHANGED <<blocked, friends>>

Commit(p, r, created) ==
  /\ holder' = IF holder = p THEN Nobody ELSE holder
  /\ req' = [req EXCEPT ![p].pc = "answer", ![p].report = r,
                        ![p].created = created]
  /\ UNCHANGED <<now, here, members, parcels, told>>

(* The same target within 24 hours: the existing report is answered. *)
Repeat(p) ==
  /\ At(p, "repeat")
  /\ Block(p)
  /\ Commit(p, req[p].report, FALSE)
  /\ UNCHANGED reports

(* The foreign key to the reporter fails when he has withdrawn. *)
Store(p) ==
  LET r == [target |-> req[p].target, at |-> req[p].at, mine |-> TRUE]
  IN  /\ At(p, "store") /\ here
      /\ reports' = reports \cup {r}
      /\ Block(p)
      /\ Commit(p, r, TRUE)

(* 404, RATE_LIMITED, a foreign key that fails, or a crash: rolled back.   *)
(* An answer may also be lost with the process, and the operator then is   *)
(* not told.                                                               *)
Fail(p) ==
  /\ ~At(p, "idle")
  /\ req' = [req EXCEPT ![p] = Idle]
  /\ holder' = IF holder = p THEN Nobody ELSE holder
  /\ UNCHANGED <<now, data, reports, blocked, told>>

(* After the commit: ReportNotifierService.notify once, and the answer. *)
Tell(p) ==
  /\ At(p, "answer")
  /\ told' = told \cup (IF req[p].created THEN {req[p].report} ELSE {})
  /\ req' = [req EXCEPT ![p] = Idle]
  /\ UNCHANGED <<now, data, reports, blocked, holder>>

-----------------------------------------------------------------------------
(* A request lasts seconds, a tick is many hours: time may pass once while *)
(* a request runs.                                                         *)
Short(p) == /\ req[p].pc \in {"repeat", "store"} => req[p].at = now
            /\ At(p, "answer") => req[p].report.at = now \/ ~req[p].created

Tick == /\ now < MaxNow /\ now' = now + 1
        /\ \A p \in Requests : Short(p)
        /\ UNCHANGED <<data, reports, blocked, told, holder, req>>

(* The operator's clean-up: reports.purgeExpired. *)
PurgeExpired ==
  /\ reports' = {r \in reports : r.at >= now - Retention}
  /\ reports' # reports
  /\ told' = told \cap reports'
  /\ UNCHANGED <<now, data, blocked, holder, req>>

Forget(r) == [r EXCEPT !.mine = FALSE]

(* The reporter withdraws: reporter_id is set to NULL, the rows stay. *)
ReporterWithdraws ==
  /\ here /\ here' = FALSE
  /\ reports' = {Forget(r) : r \in reports}
  /\ told' = {Forget(r) : r \in told}
  /\ blocked' = {} /\ friends' = {} /\ parcels' = {}
  /\ UNCHANGED <<now, members, holder, req>>

PersonWithdraws(u) ==
  /\ u \in members
  /\ members' = members \ {u}
  /\ friends' = friends \ {u}
  /\ blocked' = blocked \ {u}
  /\ UNCHANGED <<now, here, parcels, reports, told, holder, req>>

DeleteParcel(d) ==
  /\ d \in parcels
  /\ parcels' = parcels \ {d}
  /\ UNCHANGED <<now, here, members, friends, reports, blocked, told,
                 holder, req>>

Next ==
  \/ \E p \in Requests :
       \/ \E t \in Targets, b \in BOOLEAN : Begin(p, t, b)
       \/ Lock(p) \/ Check(p) \/ Repeat(p) \/ Store(p) \/ Tell(p) \/ Fail(p)
  \/ Tick \/ PurgeExpired \/ ReporterWithdraws
  \/ \E u \in Persons : PersonWithdraws(u)
  \/ \E d \in Parcels : DeleteParcel(d)

Spec == Init /\ [][Next]_vars

-----------------------------------------------------------------------------
(* In any 24 hours a reporter has at most one report of a target and no    *)
(* more than the limit in all, however many requests he sends at once      *)
(* (docs/api.md:766, "하루 20건").                                           *)
LimitsHold ==
  \A r \in reports :
    LET day == {s \in reports : s.at <= r.at /\ s.at > r.at - Window}
    IN  /\ Cardinality(day) <= DailyLimit
        /\ \A s \in day : s.target = r.target => s = r

(* An answered report is on record until its three years are over, even    *)
(* when it is the answer to a repeated one, and with it the block that was *)
(* asked for, unless either side has withdrawn since; the operator is told *)
(* of it at most once.                                                     *)
AnswersAreReal ==
  \A p \in Requests : At(p, "answer") =>
       /\ \/ req[p].report \in reports \/ Forget(req[p].report) \in reports
          \/ req[p].report.at < now - Retention
       /\ req[p].block /\ req[p].person \in members /\ here
            => req[p].person \in blocked
       /\ req[p].created => req[p].report \notin told

=============================================================================
