----------------------------- MODULE HourlyJobs -----------------------------
(***************************************************************************)
(* The hourly run of JobsService: one job after the other, of which the    *)
(* one that consumes purchases of Google Play is looked into.  It takes a  *)
(* batch of the purchases that are granted and not consumed, in no order.  *)
(* Google may refuse a purchase for ever, for one because it was consumed  *)
(* when the server died before it noted that down.                         *)
(***************************************************************************)
EXTENDS Naturals, FiniteSets

CONSTANTS
  Purchases,
  Batch,      \* purchases taken at once
  Faults      \* failures of the database and deaths of the server (bound)

JobsAssumption ==
  /\ Batch \in Nat /\ Faults \in Nat
  /\ IsFiniteSet(Purchases)

VARIABLES
  job,       \* the job that runs, 0 between two hours
  pending,   \* iap_purchases: granted, and consumed_at is NULL
  refused,   \* purchases that Google does not consume any more
  todo,      \* the rest of the batch
  current,   \* the purchase of it that Google has consumed just now, if any
  troubles   \* failures so far

vars == <<job, pending, refused, todo, current, troubles>>

Jobs == 1 .. 7
ConsumeJob == 3

TypeOK ==
  /\ job \in {0} \cup Jobs
  /\ pending \subseteq Purchases /\ refused \subseteq Purchases
  /\ todo \subseteq Purchases /\ current \subseteq Purchases
  /\ Cardinality(current) <= 1 /\ Cardinality(todo) <= Batch
  /\ (job # ConsumeJob => todo = {} /\ current = {})
  /\ troubles \in 0 .. Faults

Init ==
  /\ job = 0 /\ todo = {} /\ current = {} /\ troubles = 0
  /\ pending = Purchases /\ refused \in SUBSET Purchases

-----------------------------------------------------------------------------
Trouble == troubles < Faults /\ troubles' = troubles + 1
NextJob == job' = (job + 1) % (Cardinality(Jobs) + 1)

Hour ==
  /\ job = 0 /\ NextJob
  /\ UNCHANGED <<pending, refused, todo, current, troubles>>

\* hourly() logs the error of a job and goes on with the next.
OtherJob ==
  /\ job \in Jobs \ {ConsumeJob} /\ NextJob
  /\ UNCHANGED <<pending, refused, todo, current, troubles>>

(* retryPlayConsumes *)
Take ==
  /\ job = ConsumeJob /\ todo = {} /\ current = {}
  /\ \E some \in SUBSET pending :
       /\ Cardinality(some) = Batch \/ (some = pending /\ Cardinality(some) < Batch)
       /\ todo' = some /\ current' = {}
       /\ IF some = {} THEN NextJob ELSE UNCHANGED job
  /\ UNCHANGED <<pending, refused, troubles>>

TakeFails ==
  /\ job = ConsumeJob /\ todo = {} /\ current = {} /\ Trouble /\ NextJob
  /\ UNCHANGED <<pending, refused, todo, current>>

Goes(rest) ==
  /\ todo' = rest /\ current' = {}
  /\ IF rest = {} THEN NextJob ELSE UNCHANGED job

(* consumePlay: Google's answer, and then the UPDATE. *)
Consumed(r) ==
  /\ r \in todo /\ current = {} /\ r \notin refused
  /\ current' = {r}
  /\ UNCHANGED <<job, pending, refused, todo, troubles>>

Note(r) ==
  /\ r \in current
  /\ pending' = pending \ {r} /\ Goes(todo \ {r})
  /\ UNCHANGED <<refused, troubles>>

\* Google cannot be reached, or answers with an error that will pass.
ConsumeFails(r) ==
  /\ r \in todo /\ current = {} /\ Trouble
  /\ Goes(todo \ {r})
  /\ UNCHANGED <<pending, refused>>

\* The error is logged; the job tries again in an hour.
Refused(r) ==
  /\ r \in todo /\ current = {} /\ r \in refused
  /\ Goes(todo \ {r})
  /\ UNCHANGED <<pending, refused, troubles>>

(* Google has consumed it and the server does not know: Google may refuse  *)
(* to consume it again.                                                    *)
Forget(r) == r \in current /\ refused' \in {refused, refused \cup {r}}

NoteFails(r) ==
  /\ Forget(r) /\ Trouble /\ Goes(todo \ {r})
  /\ UNCHANGED pending

Crash ==
  /\ job # 0 /\ Trouble
  /\ job' = 0 /\ todo' = {} /\ current' = {}
  /\ IF current = {} THEN UNCHANGED refused ELSE \E r \in current : Forget(r)
  /\ UNCHANGED pending

\* A refund, or the user's own consume that was late after verifyIap.
Settled(r) ==
  /\ r \in pending \ current /\ pending' = pending \ {r}
  /\ UNCHANGED <<job, refused, todo, current, troubles>>

Step == Hour \/ OtherJob \/ Take
          \/ \E r \in Purchases : Consumed(r) \/ Note(r) \/ Refused(r)
Next == Step \/ TakeFails \/ Crash
          \/ \E r \in Purchases : ConsumeFails(r) \/ NoteFails(r) \/ Settled(r)

(* The clock strikes and the process goes on. *)
Fairness == WF_vars(Step)
Spec == Init /\ [][Next]_vars /\ Fairness

-----------------------------------------------------------------------------
(* A batch of purchases that are refused for good fills every batch.       *)
Crowded == Cardinality(refused \cap pending) >= Batch

(* Every purchase that Google does not refuse is consumed in the end, in   *)
(* whatever order the query brings them and whatever fails in between;     *)
(* nothing keeps it out but a whole batch of refused ones that stays       *)
(* pending for ever (BillingService.retryPlayConsumes).                    *)
PurchasesAreConsumed ==
  \/ <>[]Crowded
  \/ \A r \in Purchases : r \in pending ~> (r \notin pending \/ r \in refused)

=============================================================================
