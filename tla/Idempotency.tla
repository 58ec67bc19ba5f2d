---------------------------- MODULE Idempotency ----------------------------
(***************************************************************************)
(* The Idempotency-Key of one user's requests: IdempotencyInterceptor      *)
(* around a handler, IdempotencyService under it, and the hourly clean-up. *)
(*                                                                         *)
(* A request is a key and a body (the SHA-256 of the body, the method and  *)
(* the path together).  The client may send any number of copies of it, at *)
(* once or after an answer.  Every statement of IdempotencyService is a    *)
(* transaction of its own, and so is the handler's.                        *)
(***************************************************************************)
EXTENDS Naturals, FiniteSets

CONSTANTS
  Sessions,   \* concurrent request handlers
  Keys,       \* Idempotency-Key values
  Bodies,
  Op,         \* what a key is for: see Ops
  Expiring,   \* keys whose record the clean-up may find 24 hours old (bound)
  None        \* no record, or SQL NULL

(* How an operation takes being done a second time.                        *)
(*   "ledger"  purchase and gift: credit_ledger is UNIQUE on the key       *)
(*   "send"    the recording of the body already has a delivery            *)
(*   "absorb"  iap, claim and report find what the first time left behind  *)
(*             and answer with it                                          *)
Ops == {"ledger", "send", "absorb"}

ASSUME OpAssumption == Op \in [Keys -> Ops] /\ Expiring \subseteq Keys

VARIABLES
  record,     \* idempotency_keys: body and response_status, None until done
  effects,    \* requests whose effect has been committed
  sess,       \* what each session does
  answers     \* history: what clients were told of their requests

vars == <<record, effects, sess, answers>>

Results == {"first", "again"}
Outcomes == Results \cup {"done-before"}
Answers == Outcomes \cup {"failed", "in-progress", "reused"}
Row == [body : Bodies, result : Results \cup {None}]

(* NULL, and having no record, differ from everything that is one.         *)
ASSUME NoneAssumption == None \notin Keys \cup Results \cup Row

PCs == {"idle", "lookup", "run", "reply", "complete", "abort"}
Session == [pc : PCs, key : Keys \cup {None}, body : Bodies \cup {None},
            answer : Answers \cup {None}]
Idle == [pc |-> "idle", key |-> None, body |-> None, answer |-> None]

TypeOK ==
  /\ record \in [Keys -> Row \cup {None}]
  /\ effects \subseteq Keys \X Bodies
  /\ sess \in [Sessions -> Session]
  /\ answers \subseteq Keys \X Bodies \X Outcomes

Init ==
  /\ record = [k \in Keys |-> None]
  /\ effects = {}
  /\ sess = [p \in Sessions |-> Idle]
  /\ answers = {}

-----------------------------------------------------------------------------

At(p, pc) == sess[p].pc = pc
Goto(p, pc, answer) ==
  sess' = [sess EXCEPT ![p].pc = pc, ![p].answer = answer]
Reply(p, answer) ==
  /\ sess' = [sess EXCEPT ![p] = Idle]
  /\ answers' = answers \cup
       {<<sess[p].key, sess[p].body, a>> : a \in {answer} \cap Outcomes}

(* Sessions that hold the key: they inserted its record. *)
Owners(k) == {p \in Sessions : sess[p].key = k /\ ~At(p, "lookup")}

\* Mutant: ON CONFLICT DO UPDATE, which takes the key over.
BeginUpsert(p, k, b) ==
  /\ At(p, "idle")
  /\ sess' = [sess EXCEPT ![p] = [pc |-> "run", key |-> k, body |-> b,
                                  answer |-> None]]
  /\ record' = [record EXCEPT ![k] = [body |-> b, result |-> None]]
  /\ UNCHANGED <<effects, answers>>

(* begin: INSERT ... ON CONFLICT DO NOTHING. *)
Begin(p, k, b) ==
  /\ At(p, "idle")
  /\ sess' = [sess EXCEPT ![p] = [pc |-> IF record[k] = None THEN "run"
                                                             ELSE "lookup",
                                  key |-> k, body |-> b, answer |-> None]]
  /\ record' = [record EXCEPT ![k] = IF @ = None
                  THEN [body |-> b, result |-> None] ELSE @]
  /\ UNCHANGED <<effects, answers>>

\* Mutant: a refusal of begin() is caught like a failure of the handler.
LookupThenAbort(p) ==
  /\ At(p, "lookup")
  /\ LET k == sess[p].key
         r == record[k]
     IN  IF r # None /\ r.body = sess[p].body /\ r.result # None
         THEN Reply(p, r.result) /\ UNCHANGED record
         ELSE Reply(p, "reused") /\ record' = [record EXCEPT ![k] = None]
  /\ UNCHANGED effects

(* begin: the key was taken, and the record may be gone again by now. *)
Lookup(p) ==
  /\ At(p, "lookup")
  /\ LET r == record[sess[p].key]
     IN  Reply(p, IF r = None THEN "in-progress"
                  ELSE IF r.body # sess[p].body THEN "reused"
                  ELSE IF r.result = None THEN "in-progress"
                  ELSE r.result)
  /\ UNCHANGED <<record, effects>>

DoneBefore(k, b) ==
  IF Op[k] = "ledger" THEN \E c \in Bodies : <<k, c>> \in effects
                      ELSE <<k, b>> \in effects

(* The handler's transaction commits, or throws and rolls back. *)
Handle(p) ==
  LET k == sess[p].key
      b == sess[p].body
  IN  /\ At(p, "run")
      /\ \/ /\ ~DoneBefore(k, b)
            /\ effects' = effects \cup {<<k, b>>}
            /\ Goto(p, "reply", "first")
         \/ /\ DoneBefore(k, b)
            /\ IF Op[k] = "absorb" THEN Goto(p, "reply", "again")
                                   ELSE Goto(p, "abort", "done-before")
            /\ UNCHANGED effects
         \/ Goto(p, "abort", "failed") /\ UNCHANGED effects
      /\ UNCHANGED <<record, answers>>

(* After the commit the handler reads what it answers with -- getMe for a  *)
(* purchase, getSent for a tape, the item for a claim --, which may fail.  *)
MakeReply(p) ==
  /\ At(p, "reply")
  /\ \/ Goto(p, "complete", sess[p].answer)
     \/ Goto(p, "abort", "failed")
  /\ UNCHANGED <<record, effects, answers>>

(* complete: UPDATE; a failure goes to catchError, as the handler's does. *)
Complete(p) ==
  /\ At(p, "complete")
  /\ \/ /\ record' = [record EXCEPT ![sess[p].key] = IF @ = None THEN @
                        ELSE [@ EXCEPT !.result = sess[p].answer]]
        /\ Reply(p, sess[p].answer)
     \/ /\ Goto(p, "abort", "failed")
        /\ UNCHANGED <<record, answers>>
  /\ UNCHANGED effects

\* Mutant: the failure is stored, as an answer would be.
AbortStores(p) ==
  /\ At(p, "abort")
  /\ record' = [record EXCEPT ![sess[p].key] = IF @ = None THEN @
                  ELSE [@ EXCEPT !.result = sess[p].answer]]
  /\ Reply(p, sess[p].answer)
  /\ UNCHANGED effects

(* abort: DELETE, which may fail as well. *)
Abort(p) ==
  /\ At(p, "abort")
  /\ record' \in {record, [record EXCEPT ![sess[p].key] = None]}
  /\ Reply(p, sess[p].answer)
  /\ UNCHANGED effects

Crash(p) ==
  /\ ~At(p, "idle")
  /\ sess' = [sess EXCEPT ![p] = Idle]
  /\ UNCHANGED <<record, effects, answers>>

\* Mutant: the clean-up deletes finished requests only.
ExpireDone(k) ==
  /\ k \in Expiring
  /\ record[k] # None /\ record[k].result # None
  /\ record' = [record EXCEPT ![k] = None]
  /\ UNCHANGED <<effects, sess, answers>>

(* cleanupIdempotencyKeys: 24 hours after begin; no request runs so long. *)
Expire(k) ==
  /\ k \in Expiring
  /\ record[k] # None /\ Owners(k) = {}
  /\ record' = [record EXCEPT ![k] = None]
  /\ UNCHANGED <<effects, sess, answers>>

Continue(p) ==
  Lookup(p) \/ Handle(p) \/ MakeReply(p) \/ Complete(p) \/ Abort(p)

Next ==
  \/ \E p \in Sessions :
       \/ \E k \in Keys, b \in Bodies : Begin(p, k, b)
       \/ Continue(p)
       \/ Crash(p)
  \/ \E k \in Keys : Expire(k)

Spec == Init /\ [][Next]_vars

(* A session that can go on does; the clean-up runs every hour. *)
FairSpec == /\ Spec
            /\ \A p \in Sessions : WF_vars(Continue(p))
            /\ \A k \in Keys : WF_vars(Expire(k))

-----------------------------------------------------------------------------

(* At most one handler runs for a key at a time, whatever copies arrive    *)
(* while it runs and however the earlier ones ended (begin, abort).        *)
OneRunPerKey == \A k \in Keys : Cardinality(Owners(k)) <= 1

(* Who is told that a request succeeded is told the truth about that       *)
(* request: its own effect is committed.  A stored answer is never given   *)
(* to another body under the same key.                                     *)
SuccessIsReal ==
  \A k \in Keys, b \in Bodies, a \in Results :
    <<k, b, a>> \in answers => <<k, b>> \in effects

(* Copies of a request, at once or later, run it once at a time and are    *)
(* told of its success only when it is real.                               *)
RunsHold == OneRunPerKey /\ SuccessIsReal

(* A stored answer stays as it is until the clean-up removes it: no copy   *)
(* that fails, is refused or comes late changes it or frees the key.       *)
StoredAnswerStays ==
  [][\A k \in Keys :
       record[k] # None /\ record[k].result # None =>
         record'[k] = record[k] \/ Expire(k)]_vars

(* A key that a crash left in progress does not stay so for ever: the      *)
(* client's retries are answered IDEMPOTENCY_IN_PROGRESS for a while only. *)
PendingSettles ==
  \A k \in Keys : record[k] # None /\ record[k].result = None
                    ~> record[k] = None \/ record[k].result # None

=============================================================================
