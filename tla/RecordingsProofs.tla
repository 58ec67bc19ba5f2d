-------------------------- MODULE RecordingsProofs --------------------------
(***************************************************************************)
(* For every number of recordings, requests, workers, jobs and attempts,   *)
(* wherever they fail or die, whatever the app uploads meanwhile and       *)
(* whatever the store does not delete: the files are what the rows say but *)
(* for what the store left and a late complete() took away, an upload is   *)
(* queued once, what is shown as being converted is, and a finished        *)
(* recording stays finished.                                               *)
(***************************************************************************)
EXTENDS Recordings, TLAPS

(* TypeOK in parts. *)
Job == [state : JobStates, rec : Recordings \cup {None}, made : 0 .. Attempts,
        stalls : 0 .. StallLimit, holder : Workers \cup {None}]
Request == [pc : SessionPCs, rec : Recordings \cup {None}, seen : Statuses]
Slot == [pc : WorkerPCs, job : Jobs \cup {None}, last : BOOLEAN]

RowTypes ==
  /\ status \in [Recordings -> Statuses]
  /\ rawDeleted \in [Recordings -> BOOLEAN]
  /\ old \in [Recordings -> BOOLEAN]
FileTypes ==
  /\ raw \in [Recordings -> BOOLEAN]
  /\ tape \in [Recordings -> BOOLEAN]
  /\ left \subseteq Recordings
  /\ cut \subseteq Recordings
JobTypes == jobs \in [Jobs -> Job]
SessTypes == sess \in [Sessions -> Request]
WorkTypes == worker \in [Workers -> Slot]
DropTypes == dropped \subseteq Recordings

Done == {"ready", "gone"}

(* The original is there for a conversion, or complete() took it away.     *)
Kept(r) == raw[r] \/ r \in cut

(* Beside a finished recording there is no original, but for what is left. *)
Accounted(r) == status[r] = "ready" => ~raw[r] \/ r \in left

(* What a request knows of its recording. *)
Known(p) ==
  LET r == sess[p].rec
      seen == sess[p].seen
  IN  ~At(p, "idle") =>
        /\ r \in Recordings /\ status[r] # "none"
        /\ sess[p].pc \in {"head", "discard"} => seen = "uploading"
        /\ At(p, "start") => seen \in {"uploading", "failed"}
        /\ At(p, "start") /\ seen = "uploading" /\ status[r] = "uploading" =>
             Kept(r)
        /\ At(p, "enqueue") => status[r] # "uploading"
        /\ At(p, "purge") => status[r] = "gone"
        /\ sess[p].pc \in {"raw-delete", "raw-mark"} => status[r] \in Done
        /\ At(p, "raw-mark") => Accounted(r)

RequestsKnow == \A p \in Sessions : Known(p)

(* A job that waits or runs has an attempt left; one that runs, and only   *)
(* one that runs, has a holder.                                            *)
JobsOK ==
  \A j \in Jobs :
    /\ jobs[j].state # "none" => jobs[j].rec \in Recordings
    /\ jobs[j].state \in {"waiting", "active"} => jobs[j].made < Attempts
    /\ jobs[j].holder # None => jobs[j].state = "active"

(* What a worker knows of its job and of the recording, though it may have *)
(* lost the job to another one.                                            *)
KnownTo(w) ==
  ~Working(w, "idle") =>
    /\ worker[w].job \in Jobs /\ jobs[worker[w].job].state # "none"
    /\ Holds(w) => worker[w].last = LastAttempt(worker[w].job)
    /\ Working(w, "set-ready") => tape[RecOf(w)] \/ status[RecOf(w)] = "gone"
    /\ worker[w].pc \in {"raw-delete", "raw-mark"} => status[RecOf(w)] \in Done
    /\ Working(w, "raw-mark") => Accounted(RecOf(w))

WorkersKnow == \A w \in Workers : KnownTo(w)

(* The row and the files of a recording. *)
RowsHold ==
  \A r \in Recordings :
    /\ status[r] = "ready" => tape[r]
    /\ status[r] \in {"processing", "failed"} => Kept(r)
    /\ rawDeleted[r] => Accounted(r) /\ status[r] = "ready"

IInv ==
  /\ TypeOK /\ RequestsKnow /\ JobsOK /\ WorkersKnow /\ RowsHold
  /\ CompleteQueuesOnce /\ ProcessingIsInProgress

LEMMA TypeParts ==
  TypeOK <=> RowTypes /\ FileTypes /\ JobTypes /\ SessTypes /\ WorkTypes
               /\ DropTypes
  BY DEF TypeOK, RowTypes, FileTypes, JobTypes, SessTypes, WorkTypes, DropTypes,
         Job, Request, Slot

-----------------------------------------------------------------------------
(* Who writes what. *)

LEMMA StatusWriters ==
  ASSUME [Next]_vars
  PROVE  \/ status' = status
         \/ \E r \in Recordings : Create(r)
         \/ \E p \in Sessions : StartProcessing(p) \/ DeleteRow(p)
         \/ \E w \in Workers : SetReady(w) \/ TooLong(w) \/ Caught(w)
  BY DEF Next, vars, recVars, Begin, Continue, Work, HourPasses, Put, Start,
         CompleteRead, RetryRead, StaleRead, WithdrawRead, DeleteLater,
         RawSweepRead, CompleteHead, Discard, Enqueue, PurgeFiles,
         RawSweepDelete, RawSweepMark, Crash, Read, Convert, Upload, DeleteRaw,
         MarkRaw, DeleteRawFails, StepThrows, DatabaseFails, WorkerCrash, Take,
         Stall

LEMMA MarkWriters ==
  ASSUME [Next]_vars
  PROVE  \/ UNCHANGED rawDeleted
         \/ \E p \in Sessions : RawSweepMark(p) \/ DeleteRow(p)
         \/ \E w \in Workers : MarkRaw(w)
  BY DEF Next, vars, recVars, Begin, Continue, Work, Create, HourPasses, Put,
         Start, CompleteRead, RetryRead, StaleRead, WithdrawRead, DeleteLater,
         RawSweepRead, CompleteHead, Discard, StartProcessing, Enqueue,
         DeleteRow, PurgeFiles, RawSweepDelete, Crash, Read, Convert, Upload,
         SetReady, DeleteRaw, DeleteRawFails, TooLong, StepThrows, Caught,
         DatabaseFails, WorkerCrash, Take, Stall

LEMMA FileWriters ==
  ASSUME [Next]_vars
  PROVE  \/ UNCHANGED fileVars
         \/ \E r \in Recordings : Put(r)
         \/ \E p \in Sessions : \/ Discard(p) \/ PurgeFiles(p)
                                \/ RawSweepDelete(p) \/ DeleteRow(p)
         \/ \E w \in Workers : Upload(w) \/ DeleteRaw(w)
  BY DEF Next, vars, fileVars, Begin, Continue, Work, Create, HourPasses, Start,
         CompleteRead, RetryRead, StaleRead, WithdrawRead, DeleteLater,
         RawSweepRead, CompleteHead, StartProcessing, Enqueue, DeleteRow,
         RawSweepMark, Crash, Read, Convert, SetReady, MarkRaw, DeleteRawFails,
         TooLong, StepThrows, Caught, DatabaseFails, WorkerCrash, Take, Stall

(* A worker gives its job back (Finish, Throw) or goes on with it. *)
Returns(w) ==
  \/ Read(w) \/ SetReady(w) \/ MarkRaw(w) \/ DeleteRawFails(w)
  \/ TooLong(w) \/ Caught(w) \/ DatabaseFails(w)

LEMMA JobWriters ==
  ASSUME [Next]_vars
  PROVE  \/ UNCHANGED jobs
         \/ \E p \in Sessions : Enqueue(p)
         \/ \E w \in Workers : Returns(w) \/ \E j \in Jobs : Take(w, j)
         \/ \E j \in Jobs : Stall(j)
  BY DEF Next, vars, queueVars, Begin, Continue, Work, Create, HourPasses, Put,
         Start, CompleteRead, RetryRead, StaleRead, WithdrawRead, DeleteLater,
         RawSweepRead, CompleteHead, Discard, StartProcessing, DeleteRow,
         PurgeFiles, RawSweepDelete, RawSweepMark, Crash, Convert, Upload,
         DeleteRaw, StepThrows, WorkerCrash, Returns

(* What a step of a worker may do to its job. *)
LEMMA JobReturned ==
  ASSUME NEW w \in Workers, Returns(w)
  PROVE  \/ UNCHANGED jobs
         \/ Finish(w)
         \/ Throw(w)
  BY DEF Returns, Read, SetReady, MarkRaw, DeleteRawFails, TooLong, Caught,
         DatabaseFails

(* Who moves, of the requests and of the workers. *)
LEMMA SessWriters ==
  ASSUME [Next]_vars
  PROVE  \/ UNCHANGED sess
         \/ \E p \in Sessions : \/ Continue(p) \/ Crash(p)
                                \/ \E r \in Recordings : Begin(p, r)
  BY DEF Next, vars, Work, Create, HourPasses, Put, Read, Convert, Upload,
         SetReady, DeleteRaw, MarkRaw, DeleteRawFails, TooLong, StepThrows,
         Caught, DatabaseFails, WorkerCrash, Take, Stall

LEMMA WorkWriters ==
  ASSUME [Next]_vars
  PROVE  \/ UNCHANGED worker
         \/ \E w \in Workers : \/ Work(w) \/ WorkerCrash(w)
                               \/ \E j \in Jobs : Take(w, j)
  BY DEF Next, vars, Begin, Continue, Create, HourPasses, Put, Start,
         CompleteRead, RetryRead, StaleRead, WithdrawRead, DeleteLater,
         RawSweepRead, CompleteHead, Discard, StartProcessing, Enqueue,
         DeleteRow, PurgeFiles, RawSweepDelete, RawSweepMark, Crash, Stall

-----------------------------------------------------------------------------
(* What no step takes back, whoever takes it. *)

RecordingOf(w) ==
  ~Working(w, "idle") => worker[w].job \in Jobs /\ RecOf(w) \in Recordings

LEMMA HasRecording ==
  ASSUME IInv, NEW w \in Workers
  PROVE  RecordingOf(w)
  BY DEF IInv, JobsOK, WorkersKnow, KnownTo, RecordingOf, RecOf

(* The order of the statuses. *)
LEMMA StatusMoves ==
  ASSUME IInv, [Next]_vars, NEW r \in Recordings
  PROVE  /\ status'[r] \in Statuses
         /\ status[r] # "none" => status'[r] # "none"
         /\ status[r] \notin {"none", "uploading"} => status'[r] # "uploading"
         /\ status[r] = "ready" => status'[r] \in Done
         /\ status[r] = "gone" => status'[r] = "gone"
  <1> USE DEF Done, Statuses
  <1>0. RowTypes
    BY TypeParts DEF IInv
  <1>1. ASSUME NEW p \in Sessions, StartProcessing(p)
        PROVE  /\ sess[p].rec \in Recordings
               /\ \/ status' = status
                  \/ /\ status' = [status EXCEPT ![sess[p].rec] = "processing"]
                     /\ status[sess[p].rec] \in {"uploading", "failed"}
    BY <1>1 DEF IInv, RequestsKnow, Known, StartProcessing, At
  <1>2. ASSUME NEW w \in Workers, SetReady(w) \/ TooLong(w) \/ Caught(w)
        PROVE  /\ RecOf(w) \in Recordings
               /\ \/ status' = status
                  \/ /\ status[RecOf(w)] = "processing"
                     /\ \/ status' = [status EXCEPT ![RecOf(w)] = "ready"]
                        \/ status' = [status EXCEPT ![RecOf(w)] = "failed"]
    <2>1. RecOf(w) \in Recordings
      BY <1>2, HasRecording DEF RecordingOf, Working, SetReady, TooLong, Caught
    <2>2. SetFailed(RecOf(w)) =>
            \/ status' = status
            \/ /\ status[RecOf(w)] = "processing"
               /\ status' = [status EXCEPT ![RecOf(w)] = "failed"]
      BY <1>0, <2>1 DEF SetFailed, RowTypes
    <2> QED BY <1>2, <2>1, <2>2 DEF SetReady, TooLong, Caught
  <1>3. ASSUME NEW q \in Recordings, Create(q)
        PROVE  status[q] = "none" /\ status' = [status EXCEPT ![q] = "uploading"]
    BY <1>3 DEF Create
  <1>4. ASSUME NEW p \in Sessions, DeleteRow(p)
        PROVE  status' = [status EXCEPT ![sess[p].rec] = "gone"]
    BY <1>4 DEF DeleteRow
  <1> QED BY <1>0, <1>1, <1>2, <1>3, <1>4, StatusWriters DEF RowTypes

(* What storage.delete does to the original. *)
LEMMA ObjectDeleted ==
  ASSUME FileTypes, NEW q \in Recordings, DeleteRawObject(q)
  PROVE  /\ raw' \in [Recordings -> BOOLEAN] /\ left' \subseteq Recordings
         /\ \A r \in Recordings \ {q} :
              raw'[r] = raw[r] /\ (r \in left' <=> r \in left)
         /\ status[q] = "ready" => ~raw'[q] \/ q \in left'
  BY DEF FileTypes, DeleteRawObject, RawIsThere

(* An original is not lost before the conversion has succeeded, but to a   *)
(* late complete(), and none comes beside a finished recording unnoticed.  *)
LEMMA RawMoves ==
  ASSUME IInv, [Next]_vars
  PROVE  /\ raw' \in [Recordings -> BOOLEAN]
         /\ left' \subseteq Recordings /\ cut' \subseteq Recordings
         /\ \A r \in Recordings :
              /\ status[r] \in Done /\ Accounted(r) => Accounted(r)'
              /\ Kept(r) /\ status'[r] \notin Done => Kept(r)'
  <1> DEFINE
        Types == /\ raw' \in [Recordings -> BOOLEAN]
                 /\ left' \subseteq Recordings /\ cut' \subseteq Recordings
        Moves(r) == /\ status[r] = "ready" /\ Accounted(r) =>
                         ~raw'[r] \/ r \in left' \/ status'[r] = "gone"
                    /\ Kept(r) /\ status[r] \notin Done =>
                         raw'[r] \/ r \in cut' \/ status'[r] = "gone"
        Goal == Types /\ \A r \in Recordings : Moves(r)
  <1>0. FileTypes /\ RowTypes
    BY TypeParts DEF IInv
  <1>1. ASSUME NEW q \in Recordings, Put(q) PROVE Goal
    BY <1>0, <1>1 DEF Put, RawIsThere, FileTypes, Accounted, Kept
  <1>2. ASSUME NEW p \in Sessions, Discard(p) PROVE Goal
    <2>1. sess[p].rec \in Recordings
      BY <1>2 DEF IInv, RequestsKnow, Known, Discard, At
    <2> QED BY <1>0, <1>2, <2>1, ObjectDeleted
            DEF Discard, FileTypes, Accounted, Kept
  <1>3. ASSUME NEW q \in Recordings, DeleteRawObject(q), UNCHANGED cut,
               status[q] \in Done
        PROVE  Goal
    BY <1>0, <1>3, ObjectDeleted DEF FileTypes, Accounted, Kept
  <1>4. ASSUME NEW p \in Sessions, PurgeFiles(p) \/ RawSweepDelete(p)
        PROVE  /\ sess[p].rec \in Recordings /\ status[sess[p].rec] \in Done
               /\ DeleteRawObject(sess[p].rec) /\ UNCHANGED cut
    BY <1>4
    DEF IInv, RequestsKnow, Known, PurgeFiles, RawSweepDelete, At, Done
  <1>5. ASSUME NEW w \in Workers, DeleteRaw(w)
        PROVE  /\ RecOf(w) \in Recordings /\ status[RecOf(w)] \in Done
               /\ DeleteRawObject(RecOf(w)) /\ UNCHANGED cut
    BY <1>5, HasRecording
    DEF IInv, WorkersKnow, KnownTo, DeleteRaw, Working, RecordingOf
  <1>6. ASSUME NEW p \in Sessions, DeleteRow(p) PROVE Goal
    <2>1. sess[p].rec \in Recordings
      BY <1>6 DEF IInv, RequestsKnow, Known, DeleteRow, At
    <2>2. /\ raw' = raw /\ left' = left \ {sess[p].rec}
          /\ cut' = cut \ {sess[p].rec} /\ status'[sess[p].rec] = "gone"
      BY <1>0, <1>6, <2>1 DEF DeleteRow, RowTypes
    <2> QED BY <1>0, <2>1, <2>2 DEF FileTypes, Accounted, Kept
  <1>7. ASSUME raw' = raw, left' = left, cut' = cut PROVE Goal
    <2>1. Types
      BY <1>0, <1>7 DEF FileTypes
    <2>2. \A r \in Recordings : Moves(r)
      BY <1>7 DEF Accounted, Kept
    <2> QED BY <2>1, <2>2
  <1>8. Goal
    <2>1. ASSUME NEW p \in Sessions, PurgeFiles(p) \/ RawSweepDelete(p)
          PROVE  Goal
      BY <1>3, <1>4, <2>1
    <2>2. ASSUME NEW w \in Workers, DeleteRaw(w) PROVE Goal
      BY <1>3, <1>5, <2>2
    <2>3. CASE UNCHANGED fileVars
      BY <1>7, <2>3 DEF fileVars
    <2>4. ASSUME NEW w \in Workers, Upload(w) PROVE Goal
      BY <1>7, <2>4 DEF Upload
    <2> HIDE DEF Goal
    <2> QED BY <1>1, <1>2, <1>6, <2>1, <2>2, <2>3, <2>4, FileWriters
  <1>9. ASSUME NEW r \in Recordings
        PROVE  /\ status[r] \in Done /\ Accounted(r) => Accounted(r)'
               /\ Kept(r) /\ status'[r] \notin Done => Kept(r)'
    <2>1. /\ status[r] \in Done => status'[r] \in Done
          /\ status[r] = "gone" => status'[r] = "gone"
      BY StatusMoves DEF Done
    <2> QED BY <1>8, <2>1 DEF Accounted, Kept, Done
  <1> QED BY <1>8, <1>9

(* A tape is only lost when its recording is gone. *)
LEMMA TapeMoves ==
  ASSUME IInv, [Next]_vars, NEW r \in Recordings
  PROVE  /\ tape'[r] \in BOOLEAN
         /\ tape[r] => tape'[r] \/ status[r] = "gone"
  <1>0. FileTypes
    BY TypeParts DEF IInv
  <1>1. ASSUME NEW p \in Sessions, PurgeFiles(p)
        PROVE  /\ tape'[r] \in BOOLEAN
               /\ tape[r] => tape'[r] \/ status[r] = "gone"
    <2>1. status[sess[p].rec] = "gone"
      BY <1>1 DEF IInv, RequestsKnow, Known, PurgeFiles, At
    <2>2. r # sess[p].rec => tape'[r] = tape[r]
      BY <1>0, <1>1 DEF PurgeFiles, FileTypes
    <2>3. r = sess[p].rec =>
            tape'[r] \in {tape[r], tape[r] /\ sess[p].seen # "ready"}
      BY <1>0, <1>1 DEF PurgeFiles, FileTypes
    <2> QED BY <1>0, <2>1, <2>2, <2>3 DEF FileTypes
  <1>2. ASSUME NEW w \in Workers, Upload(w)
        PROVE  tape'[r] \in BOOLEAN /\ (tape[r] => tape'[r])
    BY <1>0, <1>2 DEF Upload, FileTypes
  <1>3. CASE tape' = tape
    BY <1>0, <1>3 DEF FileTypes
  <1> QED BY <1>1, <1>2, <1>3, FileWriters
          DEF fileVars, Put, Discard, RawSweepDelete, DeleteRaw, DeleteRow

(* A job keeps its recording; a holder and its attempt come with Take. *)
JobKept(j) ==
  /\ jobs[j].state # "none" =>
       jobs'[j].state # "none" /\ jobs'[j].rec = jobs[j].rec
  /\ jobs'[j].holder # None =>
       \/ jobs'[j].holder = jobs[j].holder /\ jobs'[j].made = jobs[j].made
       \/ \E w \in Workers : Take(w, j)

(* The record that a job leaves behind, and what of it matters. *)
JobFits(j) ==
  /\ jobs[j] \in Job
  /\ jobs[j].state # "none" => jobs[j].rec \in Recordings
  /\ jobs[j].state \in {"waiting", "active"} => jobs[j].made < Attempts
  /\ jobs[j].holder # None => jobs[j].state = "active"

LEMMA JobStep ==
  ASSUME IInv, [Next]_vars
  PROVE  JobTypes' /\ JobsOK' /\ \A j \in Jobs : JobKept(j)
  <1> DEFINE Fine(j) == JobFits(j)' /\ JobKept(j)
  <1>0. /\ JobTypes /\ JobsOK /\ SessTypes /\ WorkTypes /\ Attempts \in Nat \ {0}
        /\ StallLimit \in Nat /\ None \notin Workers
    BY TypeParts, AttemptsAssumption, NoneAssumption DEF IInv
  <1>1. \A j \in Jobs : jobs[j] \in Job /\ JobFits(j)
    BY <1>0 DEF JobTypes, JobsOK, JobFits
  <1>2. ASSUME NEW j \in Jobs, jobs'[j] = jobs[j] PROVE Fine(j)
    BY <1>1, <1>2 DEF JobFits, JobKept
  <1>8. ASSUME NEW j \in Jobs, jobs[j].state = "active", jobs'[j] = Ended(j)
        PROVE  Fine(j)
    <2>1. jobs'[j] = [state |-> "over", rec |-> jobs[j].rec, made |-> 0,
                      stalls |-> 0, holder |-> None]
      BY <1>8 DEF Ended, NoJob
    <2> QED BY <1>0, <1>1, <1>8, <2>1 DEF Job, JobStates, JobFits, JobKept
  <1>3. ASSUME NEW p \in Sessions, Enqueue(p), NEW j \in Jobs PROVE Fine(j)
    <2> DEFINE new == CHOOSE k \in Unused : TRUE
    <2>1. new \in Unused /\ new \in Jobs
      BY <1>3 DEF Enqueue, Unused
    <2>2. jobs' = [jobs EXCEPT ![new] =
                     [NoJob EXCEPT !.state = "waiting", !.rec = sess[p].rec]]
      BY <1>3 DEF Enqueue
    <2>3. sess[p].rec \in Recordings
      BY <1>3 DEF Enqueue, At, IInv, RequestsKnow, Known
    <2> HIDE DEF new
    <2>4. CASE j = new
      <3>1. jobs[j] = NoJob
        BY <2>1, <2>4 DEF Unused
      <3>2. jobs'[j] = [NoJob EXCEPT !.state = "waiting", !.rec = sess[p].rec]
        BY <1>0, <2>1, <2>2, <2>4 DEF JobTypes
      <3>3. jobs'[j] = [state |-> "waiting", rec |-> sess[p].rec, made |-> 0,
                        stalls |-> 0, holder |-> None]
        BY <3>2 DEF NoJob
      <3>4. jobs'[j] \in Job
        BY <1>0, <2>3, <3>3 DEF Job, JobStates
      <3>5. jobs[j].state = "none"
        BY <3>1 DEF NoJob
      <3> QED BY <1>0, <2>3, <3>3, <3>4, <3>5 DEF JobFits, JobKept
    <2>5. CASE j # new
      BY <1>0, <1>2, <2>2, <2>5 DEF JobTypes
    <2> QED BY <2>4, <2>5
  <1>4. ASSUME NEW w \in Workers, Returns(w), NEW j \in Jobs PROVE Fine(j)
    <2>1. worker[w].job \in Jobs
      <3>1. ~Working(w, "idle")
        BY <1>4 DEF Returns, Read, SetReady, MarkRaw, DeleteRawFails, TooLong,
                    Caught, DatabaseFails, Working
      <3> QED BY <3>1 DEF IInv, WorkersKnow, KnownTo
    <2>2. CASE j # worker[w].job \/ ~Holds(w) \/ UNCHANGED jobs
      <3>1. jobs'[j] = jobs[j]
        <4>1. CASE Finish(w)
          BY <1>0, <2>1, <2>2, <4>1 DEF JobTypes, Finish
        <4>2. CASE Throw(w)
          BY <1>0, <2>1, <2>2, <4>2 DEF JobTypes, Throw
        <4> QED BY <1>4, <4>1, <4>2, JobReturned
      <3> QED BY <1>2, <3>1
    <2>3. CASE j = worker[w].job /\ Holds(w) /\ Finish(w)
      <3>1. jobs'[j] = Ended(j)
        BY <1>0, <2>1, <2>3 DEF JobTypes, Finish
      <3>2. jobs[j].state = "active"
        BY <1>0, <1>1, <2>3 DEF JobFits, Holds
      <3> QED BY <1>8, <3>1, <3>2
    <2>4. CASE j = worker[w].job /\ Holds(w) /\ Throw(w)
      <3>2. jobs[j].state = "active" /\ jobs[j].made < Attempts
        BY <1>0, <1>1, <2>4 DEF JobFits, Holds
      <3>6. CASE LastAttempt(j)
        <4>1. jobs'[j] = Ended(j)
          BY <1>0, <2>1, <2>4, <3>6 DEF JobTypes, Throw
        <4> QED BY <1>8, <3>2, <4>1
      <3>7. SUFFICES ASSUME ~LastAttempt(j) PROVE Fine(j)
        BY <3>6
      <3>1. jobs'[j] = [jobs[j] EXCEPT !.state = "waiting", !.made = @ + 1,
                                       !.holder = None]
        <4>1. jobs'[j] = Again(j)
          BY <1>0, <2>1, <2>4, <3>7 DEF JobTypes, Throw
        <4> QED BY <4>1 DEF Again
      <3>3. ~LastAttempt(j) => jobs[j].made + 1 < Attempts
        BY <1>0, <1>1 DEF LastAttempt, Job
      <3>4. jobs[j].made + 1 \in 0 .. Attempts
        BY <1>0, <1>1, <3>2 DEF Job
      <3>5. jobs'[j] \in Job
        BY <1>1, <3>1, <3>4 DEF Job, JobStates
      <3> QED BY <1>1, <3>1, <3>2, <3>3, <3>5, <3>7 DEF JobFits, JobKept, Job
    <2> QED BY <1>4, <2>2, <2>3, <2>4, JobReturned
  <1>5. ASSUME NEW w \in Workers, NEW k \in Jobs, Take(w, k), NEW j \in Jobs
        PROVE  Fine(j)
    <2>1. CASE j = k
      <3>1. /\ jobs'[j] = [jobs[j] EXCEPT !.state = "active", !.holder = w]
            /\ jobs[j].state = "waiting"
        BY <1>0, <1>5, <2>1 DEF Take, JobTypes
      <3> QED BY <1>1, <1>5, <2>1, <3>1 DEF JobFits, JobKept, Job, JobStates
    <2>2. CASE j # k
      BY <1>0, <1>2, <1>5, <2>2 DEF Take, JobTypes
    <2> QED BY <2>1, <2>2
  <1>6. ASSUME NEW k \in Jobs, Stall(k), NEW j \in Jobs PROVE Fine(j)
    <2>1. CASE j = k
      <3>1. jobs[j].state = "active"
        BY <1>6, <2>1 DEF Stall
      <3>2. CASE /\ jobs[j].stalls < StallLimit
                 /\ jobs'[j] = [jobs[j] EXCEPT !.state = "waiting",
                                   !.holder = None, !.stalls = @ + 1]
        <4>1. jobs[j].stalls + 1 \in 0 .. StallLimit
          BY <1>0, <1>1, <3>2 DEF Job
        <4> QED BY <1>1, <3>1, <3>2, <4>1 DEF JobFits, JobKept, Job, JobStates
      <3>3. CASE jobs'[j] = Ended(j)
        BY <1>8, <3>1, <3>3
      <3> QED BY <1>0, <1>6, <2>1, <3>2, <3>3 DEF Stall, JobTypes
    <2>2. CASE j # k
      BY <1>0, <1>2, <1>6, <2>2 DEF Stall, JobTypes
    <2> QED BY <2>1, <2>2
  <1>7. \A j \in Jobs : Fine(j)
    BY <1>2, <1>3, <1>4, <1>5, <1>6, JobWriters
  <1>9. DOMAIN jobs' = Jobs /\ jobs' = [j \in Jobs |-> jobs'[j]]
    BY <1>0, JobWriters, JobReturned
    DEF JobTypes, Enqueue, Finish, Throw, Take, Stall
  <1> QED BY <1>7, <1>9 DEF JobTypes, JobsOK, JobFits

-----------------------------------------------------------------------------
(* What a request knows stays true while others move. *)

LEMMA KnownStays ==
  ASSUME IInv, [Next]_vars, NEW p \in Sessions, sess'[p] = sess[p]
  PROVE  Known(p)'
  <1> SUFFICES ASSUME ~At(p, "idle") PROVE Known(p)'
    BY DEF Known, At
  <1> DEFINE r == sess[p].rec
  <1>1. Known(p) /\ r \in Recordings
    BY DEF IInv, RequestsKnow, Known
  <1>2. /\ status[r] # "none" /\ status'[r] # "none"
        /\ status[r] # "uploading" => status'[r] # "uploading"
        /\ status[r] \in Done => status'[r] \in Done
        /\ status[r] = "gone" => status'[r] = "gone"
    BY <1>1, StatusMoves DEF Known, Done
  <1>3. status[r] \in Done /\ Accounted(r) => Accounted(r)'
    BY <1>1, RawMoves
  <1>4. Kept(r) /\ status'[r] = "uploading" => Kept(r)'
    BY <1>1, RawMoves DEF Done
  <1> HIDE DEF r
  <1> QED BY <1>1, <1>2, <1>3, <1>4 DEF Known, At, r

(* A request that moves. *)
LEMMA RequestStep ==
  ASSUME IInv, [Next]_vars
  PROVE  SessTypes' /\ RequestsKnow'
  <1> DEFINE Moves(p) == /\ sess'[p] \in Request /\ Known(p)'
                         /\ sess' = [sess EXCEPT ![p] = sess'[p]]
  <1>0. SessTypes /\ RowTypes /\ FileTypes /\ RequestsKnow
    BY TypeParts DEF IInv
  <1>1. ASSUME NEW p \in Sessions, NEW pc, NEW r \in Recordings,
               NEW seen \in Statuses, Start(p, pc, r, seen),
               pc \in SessionPCs \ {"idle"}
        PROVE  /\ sess'[p] = [pc |-> pc, rec |-> r, seen |-> seen]
               /\ sess'[p] \in Request
               /\ sess' = [sess EXCEPT ![p] = sess'[p]]
               /\ status' = status /\ raw' = raw
    BY <1>0, <1>1
    DEF Start, SessTypes, Request, recVars, fileVars
  <1>2. ASSUME NEW p \in Sessions, NEW r \in Recordings, Begin(p, r)
        PROVE  Moves(p)
    <2>1. CASE CompleteRead(p, r)
      <3>1. Start(p, "head", r, "uploading") /\ status[r] # "none"
        BY <2>1 DEF CompleteRead
      <3>2. "head" \in SessionPCs \ {"idle"} /\ "uploading" \in Statuses
        BY DEF SessionPCs, Statuses
      <3>3. /\ sess'[p] = [pc |-> "head", rec |-> r, seen |-> "uploading"]
            /\ status'[r] = status[r]
        BY <1>1, <3>1, <3>2
      <3>4. Known(p)'
        BY <2>1, <3>1, <3>3 DEF CompleteRead, Known, At
      <3> QED BY <1>1, <3>1, <3>2, <3>4
    <2>2. CASE RetryRead(p, r)
      <3>1. Start(p, "start", r, "failed") /\ status[r] # "none"
        BY <2>2 DEF RetryRead
      <3>2. "start" \in SessionPCs \ {"idle"} /\ "failed" \in Statuses
        BY DEF SessionPCs, Statuses
      <3>3. /\ sess'[p] = [pc |-> "start", rec |-> r, seen |-> "failed"]
            /\ status'[r] = status[r]
        BY <1>1, <3>1, <3>2
      <3>4. Known(p)'
        BY <2>2, <3>1, <3>3 DEF RetryRead, Known, At
      <3> QED BY <1>1, <3>1, <3>2, <3>4
    <2>3. CASE StaleRead(p, r) \/ WithdrawRead(p, r)
      <3> DEFINE seen == IF status[r] = "ready" THEN "ready" ELSE "none"
      <3>1. Start(p, "delete", r, seen) /\ status[r] # "none"
        BY <2>3 DEF StaleRead, WithdrawRead, DeleteLater
      <3>2. "delete" \in SessionPCs \ {"idle"} /\ seen \in Statuses
        BY DEF SessionPCs, Statuses
      <3> HIDE DEF seen
      <3>3. /\ sess'[p] = [pc |-> "delete", rec |-> r, seen |-> seen]
            /\ status'[r] = status[r]
        BY <1>1, <3>1, <3>2
      <3>4. Known(p)'
        BY <3>1, <3>3 DEF Known, At
      <3> QED BY <1>1, <3>1, <3>2, <3>4
    <2>4. CASE RawSweepRead(p, r)
      <3>1. Start(p, "raw-delete", r, "ready") /\ status[r] # "none"
        BY <2>4 DEF RawSweepRead
      <3>2. "raw-delete" \in SessionPCs \ {"idle"} /\ "ready" \in Statuses
        BY DEF SessionPCs, Statuses
      <3>3. /\ sess'[p] = [pc |-> "raw-delete", rec |-> r, seen |-> "ready"]
            /\ status'[r] = status[r]
        BY <1>1, <3>1, <3>2
      <3>4. Known(p)'
        BY <2>4, <3>1, <3>3 DEF RawSweepRead, Known, At, Done
      <3> QED BY <1>1, <3>1, <3>2, <3>4
    <2> QED BY <1>2, <2>1, <2>2, <2>3, <2>4 DEF Begin
  <1>3. ASSUME NEW p \in Sessions, Stop(p) PROVE Moves(p)
    <2>1. sess'[p] = NoSession
      BY <1>0, <1>3 DEF Stop, SessTypes
    <2>2. sess' = [sess EXCEPT ![p] = sess'[p]]
      BY <1>3, <2>1 DEF Stop
    <2>3. sess'[p] \in Request /\ Known(p)'
      BY <2>1 DEF NoSession, Request, SessionPCs, Statuses, Known, At
    <2> QED BY <2>2, <2>3
  <1>4. ASSUME NEW p \in Sessions, NEW pc \in SessionPCs, Goto(p, pc),
               sess[p].rec \in Recordings
        PROVE  /\ sess'[p] \in Request /\ sess'[p].pc = pc
               /\ sess'[p].rec = sess[p].rec /\ sess'[p].seen = sess[p].seen
               /\ sess' = [sess EXCEPT ![p] = sess'[p]]
    <2>1. sess' = [sess EXCEPT ![p] = [sess[p] EXCEPT !.pc = pc]]
      BY <1>0, <1>4 DEF Goto, SessTypes
    <2> QED BY <1>0, <2>1 DEF SessTypes, Request
  <1>5. ASSUME NEW p \in Sessions, Continue(p) \/ Crash(p) PROVE Moves(p)
    <2> DEFINE r == sess[p].rec
    <2>0. Known(p) /\ r \in Recordings
      BY <1>0, <1>5
      DEF RequestsKnow, Known, Continue, Crash, CompleteHead, Discard,
          StartProcessing, Enqueue, DeleteRow, PurgeFiles, RawSweepDelete,
          RawSweepMark, At
    <2>1. CASE CompleteHead(p)
      <3>1. /\ At(p, "head") /\ status' = status
            /\ raw' = raw
        BY <2>1 DEF CompleteHead, recVars, fileVars
      <3>2. CASE raw[r] /\ Goto(p, "discard")
        BY <1>4, <2>0, <3>1, <3>2 DEF Known, At, SessionPCs
      <3>3. CASE raw[r] /\ Goto(p, "start")
        BY <1>4, <2>0, <3>1, <3>3 DEF Known, At, SessionPCs, Kept
      <3> QED BY <1>3, <2>1, <3>2, <3>3 DEF CompleteHead
    <2>2. CASE StartProcessing(p)
      <3>1. CASE /\ status' = [status EXCEPT ![r] = "processing"]
                 /\ Goto(p, "enqueue")
        BY <1>0, <1>4, <2>0, <2>2, <3>1
        DEF StartProcessing, Known, At, SessionPCs, RowTypes
      <3> QED BY <1>3, <2>2, <3>1 DEF StartProcessing
    <2>3. CASE DeleteRow(p)
      <3>1. Goto(p, "purge") /\ status'[r] = "gone"
        BY <1>0, <2>0, <2>3 DEF DeleteRow, RowTypes
      <3> QED BY <1>4, <2>0, <2>3, <3>1 DEF DeleteRow, Known, At, SessionPCs
    <2>4. CASE RawSweepDelete(p)
      <3>1. Goto(p, "raw-mark") /\ status' = status
        BY <2>4 DEF RawSweepDelete, recVars
      <3>2. status'[r] = "ready" => ~raw'[r] \/ r \in left'
        BY <1>0, <2>0, <2>4, <3>1, ObjectDeleted DEF RawSweepDelete
      <3> QED BY <1>4, <2>0, <2>4, <3>1, <3>2
              DEF RawSweepDelete, Known, At, SessionPCs, Accounted
    <2> QED BY <1>3, <1>5, <2>1, <2>2, <2>3, <2>4
            DEF Continue, Crash, Discard, Enqueue, PurgeFiles, RawSweepMark
  <1>6. ASSUME NEW p \in Sessions, Moves(p) PROVE SessTypes' /\ RequestsKnow'
    <2>1. \A q \in Sessions \ {p} : sess'[q] = sess[q]
      BY <1>0, <1>6 DEF SessTypes
    <2>2. SessTypes'
      BY <1>0, <1>6, <2>1 DEF SessTypes
    <2>3. \A q \in Sessions : Known(q)'
      BY <1>6, <2>1, KnownStays
    <2> QED BY <2>2, <2>3 DEF RequestsKnow
  <1>7. CASE UNCHANGED sess
    BY <1>0, <1>7, KnownStays DEF SessTypes, RequestsKnow
  <1> QED BY <1>2, <1>5, <1>6, <1>7, SessWriters

(* What a worker knows stays true while others move. *)
LEMMA KnownToStays ==
  ASSUME IInv, [Next]_vars, NEW w \in Workers, worker'[w] = worker[w]
  PROVE  KnownTo(w)'
  <1> SUFFICES ASSUME ~Working(w, "idle") PROVE KnownTo(w)'
    BY DEF KnownTo, Working
  <1> DEFINE j == worker[w].job
             r == RecOf(w)
  <1>1. KnownTo(w) /\ j \in Jobs /\ r \in Recordings /\ jobs[j].rec = r
    BY HasRecording DEF IInv, WorkersKnow, KnownTo, RecordingOf, RecOf
  <1>2. /\ jobs'[j].state # "none" /\ jobs'[j].rec = r
        /\ jobs'[j].holder # None =>
             \/ jobs'[j].holder = jobs[j].holder /\ jobs'[j].made = jobs[j].made
             \/ \E v \in Workers : Take(v, j)
    BY <1>1, JobStep DEF JobKept, KnownTo, RecOf
  <1>3. /\ status[r] \in Done => status'[r] \in Done
        /\ status[r] = "gone" => status'[r] = "gone"
        /\ tape[r] => tape'[r] \/ status[r] = "gone"
        /\ status[r] \in Done /\ Accounted(r) =>
             (status'[r] = "ready" => ~raw'[r] \/ r \in left')
    <2>1. \A q \in Recordings :
            status[q] \in Done /\ Accounted(q) => Accounted(q)'
      BY RawMoves
    <2>2. \A q \in Recordings :
            status[q] \in Done /\ Accounted(q) =>
              (status'[q] = "ready" => ~raw'[q] \/ q \in left')
      BY <2>1 DEF Accounted
    <2> HIDE DEF r
    <2> QED BY <1>1, <2>2, StatusMoves, TapeMoves DEF Done
  <1>4. ASSUME jobs'[j].holder = w
        PROVE  jobs[j].holder = w /\ jobs'[j].made = jobs[j].made
    <2>1. ASSUME NEW v \in Workers, Take(v, j) PROVE FALSE
      <3>1. v # w
        BY <2>1 DEF Take, Working
      <3>2. jobs'[j].holder = v
        BY <1>1, <2>1, TypeParts DEF Take, IInv, JobTypes, Job
      <3> QED BY <1>4, <3>1, <3>2
    <2> QED BY <1>2, <1>4, <2>1, NoneAssumption
  <1>5. RecOf(w)' = r /\ worker'[w].job = j
    BY <1>2 DEF RecOf
  <1> HIDE DEF j, r
  <1>6. (Holds(w) => worker[w].last = LastAttempt(j))'
    BY <1>1, <1>4, <1>5 DEF Holds, LastAttempt, KnownTo, j, Working
  <1>7. (Working(w, "raw-mark") => Accounted(RecOf(w)))'
    BY <1>1, <1>3, <1>5 DEF KnownTo, Working, Accounted, r
  <1> QED BY <1>1, <1>2, <1>3, <1>5, <1>6, <1>7 DEF KnownTo, Working, j, r

LEMMA WorkStep ==
  ASSUME IInv, [Next]_vars
  PROVE  WorkTypes' /\ WorkersKnow'
  <1> DEFINE Moves(w) == /\ worker'[w] \in Slot /\ KnownTo(w)'
                         /\ worker' = [worker EXCEPT ![w] = worker'[w]]
  <1>0. WorkTypes /\ JobTypes /\ WorkersKnow /\ FileTypes /\ RowTypes
    BY TypeParts DEF IInv
  <1>1. ASSUME NEW w \in Workers, worker' = [worker EXCEPT ![w] = NoWork]
        PROVE  Moves(w)
    <2>1. worker'[w] = NoWork
      BY <1>0, <1>1 DEF WorkTypes
    <2>2. worker'[w] \in Slot /\ KnownTo(w)'
      BY <2>1 DEF NoWork, Slot, WorkerPCs, KnownTo, Working
    <2> QED BY <1>1, <2>1, <2>2
  <1>2. ASSUME NEW w \in Workers, NEW j \in Jobs, Take(w, j) PROVE Moves(w)
    <2> DEFINE last == LastAttempt(j)
    <2>1. worker' = [worker EXCEPT ![w] =
                       [pc |-> "read", job |-> j, last |-> last]]
      BY <1>2 DEF Take
    <2>2. /\ jobs' = [jobs EXCEPT ![j].state = "active", ![j].holder = w]
          /\ jobs'[j].state = "active" /\ jobs'[j].made = jobs[j].made
      BY <1>0, <1>2 DEF Take, JobTypes, Job
    <2>3. last \in BOOLEAN /\ last = LastAttempt(j)'
      BY <2>2 DEF LastAttempt
    <2> HIDE DEF last
    <2>4. worker'[w] = [pc |-> "read", job |-> j, last |-> last]
      BY <1>0, <2>1 DEF WorkTypes
    <2>5. worker'[w] \in Slot
      BY <2>3, <2>4 DEF Slot, WorkerPCs
    <2>6. KnownTo(w)'
      BY <2>2, <2>3, <2>4 DEF KnownTo, Working
    <2>7. worker' = [worker EXCEPT ![w] = worker'[w]]
      BY <2>1, <2>4
    <2> QED BY <2>5, <2>6, <2>7
  <1>3. ASSUME NEW w \in Workers, NEW pc \in WorkerPCs \ {"idle"}, Turn(w, pc),
               ~Working(w, "idle"), UNCHANGED jobs,
               (pc = "set-ready" => tape[RecOf(w)] \/ status[RecOf(w)] = "gone")',
               (pc \in {"raw-delete", "raw-mark"} => status[RecOf(w)] \in Done)',
               (pc = "raw-mark" => Accounted(RecOf(w)))'
        PROVE  Moves(w)
    <2>1. /\ worker'[w] = [worker[w] EXCEPT !.pc = pc]
          /\ worker' = [worker EXCEPT ![w] = worker'[w]]
      BY <1>0, <1>3 DEF Turn, WorkTypes
    <2>2. /\ worker'[w].pc = pc /\ worker'[w].job = worker[w].job
          /\ worker'[w].last = worker[w].last /\ worker'[w] \in Slot
      BY <1>0, <2>1 DEF WorkTypes, Slot
    <2>3. RecOf(w)' = RecOf(w) /\ Holds(w)' = Holds(w)
          /\ LastAttempt(worker[w].job)' = LastAttempt(worker[w].job)
      BY <1>3, <2>2 DEF RecOf, Holds, LastAttempt
    <2>4. KnownTo(w)'
      BY <1>0, <1>3, <2>2, <2>3
      DEF WorkersKnow, KnownTo, Working, Holds, RecOf, LastAttempt
    <2> QED BY <2>1, <2>2, <2>4
  <1>4. ASSUME NEW w \in Workers, Work(w) \/ WorkerCrash(w) PROVE Moves(w)
    <2> DEFINE r == RecOf(w)
    <2>0. /\ KnownTo(w) /\ r \in Recordings /\ ~Working(w, "idle")
      <3>1. ~Working(w, "idle")
        BY <1>4
        DEF Work, Read, Convert, Upload, SetReady, DeleteRaw, MarkRaw,
            DeleteRawFails, TooLong, StepThrows, Caught, DatabaseFails,
            WorkerCrash, Working
      <3> QED BY <1>0, <3>1, HasRecording DEF RecordingOf, WorkersKnow
    <2>1. CASE Finish(w) \/ Throw(w) \/ WorkerCrash(w)
      BY <1>1, <2>1 DEF Finish, Throw, WorkerCrash
    <2>2. CASE UNCHANGED jobs /\ \E pc \in {"convert", "upload", "too-long",
                                           "caught"} : Turn(w, pc)
      BY <1>3, <2>0, <2>2 DEF WorkerPCs
    <2>3. CASE Upload(w)
      <3>1. RecOf(w)' = r
        BY <1>0, <2>3 DEF Upload, Turn, RecOf, queueVars, WorkTypes, Slot
      <3>2. tape'[r]
        BY <1>0, <2>0, <2>3 DEF Upload, FileTypes
      <3> QED BY <1>3, <2>0, <2>3, <3>1, <3>2 DEF Upload, queueVars, WorkerPCs
    <2>4. CASE SetReady(w) /\ Turn(w, "raw-delete")
      <3>1. /\ status[r] = "processing" \/ worker' = [worker EXCEPT ![w] = NoWork]
            /\ status[r] = "processing" =>
                 status'[r] = "ready" /\ UNCHANGED jobs
        BY <1>0, <2>0, <2>4 DEF SetReady, Finish, RowTypes
      <3>2. CASE status[r] = "processing"
        <4>1. RecOf(w)' = r
          BY <1>0, <2>4, <3>1, <3>2 DEF Turn, RecOf, WorkTypes, Slot
        <4> QED BY <1>3, <2>0, <2>4, <3>1, <3>2, <4>1 DEF WorkerPCs, Done
      <3> QED BY <1>1, <3>1, <3>2
    <2>5. CASE DeleteRaw(w)
      <3>1. RecOf(w)' = r
        BY <1>0, <2>5 DEF DeleteRaw, Turn, RecOf, queueVars, WorkTypes, Slot
      <3>2. status[r] \in Done /\ status' = status
        BY <2>0, <2>5 DEF DeleteRaw, KnownTo, Working, recVars
      <3>3. status'[r] = "ready" => ~raw'[r] \/ r \in left'
        BY <1>0, <2>0, <2>5, <3>2, ObjectDeleted DEF DeleteRaw
      <3>4. Accounted(RecOf(w))'
        BY <3>1, <3>3 DEF Accounted
      <3> QED BY <1>3, <2>0, <2>5, <3>1, <3>2, <3>4
              DEF DeleteRaw, queueVars, WorkerPCs
    <2>6. CASE Convert(w)
      <3>1. UNCHANGED jobs /\ \E pc \in {"convert", "upload", "too-long",
                                         "caught"} : Turn(w, pc)
        BY <2>6 DEF Convert, Outcomes, queueVars
      <3> QED BY <2>2, <3>1
    <2> QED BY <1>4, <2>1, <2>2, <2>3, <2>4, <2>5, <2>6
            DEF Work, Read, SetReady, MarkRaw, DeleteRawFails, TooLong,
                StepThrows, Caught, DatabaseFails, queueVars
  <1>5. ASSUME NEW w \in Workers, Moves(w) PROVE WorkTypes' /\ WorkersKnow'
    <2>1. \A v \in Workers \ {w} : worker'[v] = worker[v]
      BY <1>0, <1>5 DEF WorkTypes
    <2>2. WorkTypes'
      BY <1>0, <1>5, <2>1 DEF WorkTypes
    <2>3. \A v \in Workers : KnownTo(v)'
      BY <1>5, <2>1, KnownToStays
    <2> QED BY <2>2, <2>3 DEF WorkersKnow
  <1>6. CASE UNCHANGED worker
    BY <1>0, <1>6, KnownToStays DEF WorkTypes, WorkersKnow
  <1> QED BY <1>2, <1>4, <1>5, <1>6, WorkWriters

-----------------------------------------------------------------------------
(* The rows and the files. *)

LEMMA RowStep ==
  ASSUME IInv, [Next]_vars
  PROVE  RowTypes' /\ FileTypes' /\ RowsHold'
  <1>0. RowTypes /\ FileTypes /\ RowsHold
    BY TypeParts DEF IInv
  <1>1. status' \in [Recordings -> Statuses]
    <2>1. DOMAIN status' = Recordings /\ status' = [r \in Recordings |-> status'[r]]
      BY <1>0, StatusWriters
      DEF RowTypes, Create, StartProcessing, DeleteRow, SetReady, TooLong,
          Caught, SetFailed
    <2> QED BY <2>1, StatusMoves
  <1>2. rawDeleted' \in [Recordings -> BOOLEAN]
    BY <1>0, MarkWriters
    DEF RowTypes, RawSweepMark, MarkRaw, SetRawDeleted, DeleteRow
  <1>3. old' \in [Recordings -> BOOLEAN]
    <2>1. \/ old' = old
          \/ \E r \in Recordings : old' = [old EXCEPT ![r] = TRUE]
          \/ \E p \in Sessions : old' = [old EXCEPT ![sess[p].rec] = FALSE]
      BY DEF Next, vars, recVars, Begin, Continue, Work, Create, HourPasses,
             Put, Start, CompleteRead, RetryRead, StaleRead, WithdrawRead,
             DeleteLater, RawSweepRead, CompleteHead, Discard, StartProcessing,
             Enqueue, DeleteRow, PurgeFiles, RawSweepDelete, RawSweepMark,
             Crash, Read, Convert, Upload, SetReady, DeleteRaw, MarkRaw,
             DeleteRawFails, TooLong, StepThrows, Caught, DatabaseFails,
             WorkerCrash, Take, Stall
    <2> QED BY <1>0, <2>1 DEF RowTypes
  <1>4. FileTypes'
    <2>1. tape' = [r \in Recordings |-> tape'[r]]
      BY <1>0, FileWriters
      DEF FileTypes, fileVars, Put, Discard, PurgeFiles, RawSweepDelete, Upload,
          DeleteRaw, DeleteRow
    <2> QED BY <2>1, RawMoves, TapeMoves DEF FileTypes
  <1>5. ASSUME NEW r \in Recordings, status'[r] = "ready" PROVE tape'[r]
    <2>1. CASE status[r] = "ready"
      BY <1>0, <2>1, TapeMoves DEF RowsHold
    <2>2. CASE status[r] # "ready"
      <3>1. PICK w \in Workers : SetReady(w) /\ RecOf(w) = r
        <4>1. ASSUME NEW w \in Workers, TooLong(w) \/ Caught(w) PROVE FALSE
          BY <1>0, <1>5, <2>2, <4>1
          DEF TooLong, Caught, SetFailed, RowTypes
        <4>2. ASSUME NEW p \in Sessions, StartProcessing(p) \/ DeleteRow(p)
              PROVE  FALSE
          BY <1>0, <1>5, <2>2, <4>2 DEF StartProcessing, DeleteRow, RowTypes
        <4>3. ASSUME NEW q \in Recordings, Create(q) PROVE FALSE
          BY <1>0, <1>5, <2>2, <4>3 DEF Create, RowTypes
        <4>4. ASSUME NEW w \in Workers, SetReady(w) PROVE RecOf(w) = r
          BY <1>0, <1>5, <2>2, <4>4 DEF SetReady, RowTypes
        <4> QED BY <1>5, <2>2, <4>1, <4>2, <4>3, <4>4, StatusWriters
      <3>2. status[r] = "processing" /\ UNCHANGED tape
        BY <1>0, <1>5, <2>2, <3>1 DEF SetReady, fileVars
      <3>3. tape[r]
        BY <3>1, <3>2 DEF IInv, WorkersKnow, KnownTo, SetReady, Working
      <3> QED BY <3>2, <3>3
    <2> QED BY <2>1, <2>2
  <1>6. ASSUME NEW r \in Recordings, status'[r] \in {"processing", "failed"}
        PROVE  Kept(r)'
    <2>1. Kept(r)
      <3>1. CASE status[r] \in {"processing", "failed"}
        BY <1>0, <3>1 DEF RowsHold
      <3>2. CASE status[r] \notin {"processing", "failed"}
        <4>1. PICK p \in Sessions : StartProcessing(p) /\ sess[p].rec = r
          <5>1. ASSUME NEW w \in Workers, TooLong(w) \/ Caught(w) \/ SetReady(w)
                PROVE  FALSE
            BY <1>0, <1>6, <3>2, <5>1
            DEF TooLong, Caught, SetFailed, SetReady, RowTypes
          <5>2. ASSUME NEW q \in Recordings, Create(q) PROVE FALSE
            BY <1>0, <1>6, <3>2, <5>2 DEF Create, RowTypes
          <5>3. ASSUME NEW p \in Sessions, DeleteRow(p) PROVE FALSE
            BY <1>0, <1>6, <3>2, <5>3 DEF DeleteRow, RowTypes
          <5>4. ASSUME NEW p \in Sessions, StartProcessing(p)
                PROVE  sess[p].rec = r
            BY <1>0, <1>6, <3>2, <5>4 DEF StartProcessing, RowTypes
          <5> QED BY <1>6, <3>2, <5>1, <5>2, <5>3, <5>4, StatusWriters
        <4>2. status[r] = sess[p].seen
          BY <1>6, <3>2, <4>1 DEF StartProcessing
        <4> QED BY <3>2, <4>1, <4>2
                DEF IInv, RequestsKnow, Known, StartProcessing, At
      <3> QED BY <3>1, <3>2
    <2> QED BY <1>6, <2>1, RawMoves DEF Done
  <1>7. ASSUME NEW r \in Recordings, rawDeleted'[r]
        PROVE  Accounted(r)' /\ status'[r] = "ready"
    <2>1. Accounted(r) /\ status[r] \in Done
      <3>1. CASE rawDeleted[r]
        BY <1>0, <3>1 DEF RowsHold, Done
      <3>2. ASSUME NEW p \in Sessions, RawSweepMark(p), ~rawDeleted[r]
            PROVE  Accounted(r) /\ status[r] \in Done
        <4>1. sess[p].rec = r
          BY <1>0, <1>7, <3>2 DEF RawSweepMark, SetRawDeleted, RowTypes
        <4> QED BY <3>2, <4>1 DEF RawSweepMark, IInv, RequestsKnow, Known, At
      <3>3. ASSUME NEW w \in Workers, MarkRaw(w), ~rawDeleted[r]
            PROVE  Accounted(r) /\ status[r] \in Done
        <4>1. RecOf(w) = r
          BY <1>0, <1>7, <3>3 DEF MarkRaw, SetRawDeleted, RowTypes
        <4> QED BY <3>3, <4>1 DEF MarkRaw, IInv, WorkersKnow, KnownTo, Working
      <3>4. ASSUME NEW p \in Sessions, DeleteRow(p), ~rawDeleted[r] PROVE FALSE
        BY <1>0, <1>7, <3>4 DEF DeleteRow, RowTypes
      <3> QED BY <1>7, <3>1, <3>2, <3>3, <3>4, MarkWriters
    <2>2. status'[r] = "ready"
      <3>1. ASSUME status[r] = "gone" PROVE FALSE
        <4>1. ~rawDeleted[r]
          BY <1>0, <3>1 DEF RowsHold
        <4>2. ASSUME NEW p \in Sessions, RawSweepMark(p) PROVE FALSE
          BY <1>0, <1>7, <3>1, <4>1, <4>2
          DEF RawSweepMark, SetRawDeleted, RowTypes
        <4>3. ASSUME NEW w \in Workers, MarkRaw(w) PROVE FALSE
          BY <1>0, <1>7, <3>1, <4>1, <4>3 DEF MarkRaw, SetRawDeleted, RowTypes
        <4>4. ASSUME NEW p \in Sessions, DeleteRow(p) PROVE FALSE
          BY <1>0, <1>7, <4>1, <4>4 DEF DeleteRow, RowTypes
        <4> QED BY <1>7, <4>1, <4>2, <4>3, <4>4, MarkWriters
      <3>2. ASSUME status'[r] = "gone", status[r] = "ready" PROVE FALSE
        <4>1. PICK p \in Sessions : DeleteRow(p) /\ sess[p].rec = r
          BY <1>0, <3>2, StatusWriters
          DEF Create, StartProcessing, DeleteRow, SetReady, TooLong, Caught,
              SetFailed, RowTypes
        <4> QED BY <1>0, <1>7, <4>1 DEF DeleteRow, RowTypes
      <3> QED BY <2>1, <3>1, <3>2, StatusMoves DEF Done
    <2> QED BY <2>1, <2>2, RawMoves
  <1> QED BY <1>1, <1>2, <1>3, <1>4, <1>5, <1>6, <1>7 DEF RowTypes, RowsHold

-----------------------------------------------------------------------------
(* One conversion of an upload, and no conversion lost unnoticed. *)

LEMMA QueuedOnceStep ==
  ASSUME IInv, [Next]_vars
  PROVE  CompleteQueuesOnce'
  <1> DEFINE Queues(p) == At(p, "enqueue") /\ sess[p].seen = "uploading"
  <1>0. SessTypes /\ RowTypes /\ CompleteQueuesOnce /\ RequestsKnow
    BY TypeParts DEF IInv
  <1>1. ASSUME NEW p \in Sessions, Queues(p)'
        PROVE  \/ sess'[p] = sess[p]
               \/ /\ StartProcessing(p) /\ sess'[p].rec = sess[p].rec
                  /\ status[sess[p].rec] = "uploading"
                  /\ \A q \in Sessions \ {p} : sess'[q] = sess[q]
    <2>1. ASSUME NEW q \in Sessions, Crash(q) PROVE sess'[p] = sess[p]
      BY <1>0, <1>1, <2>1 DEF Crash, Stop, NoSession, SessTypes, At
    <2>2. ASSUME NEW q \in Sessions, NEW r \in Recordings, Begin(q, r)
          PROVE  sess'[p] = sess[p]
      <3>1. PICK pc \in SessionPCs \ {"enqueue"}, seen \in {"uploading", "failed",
                "ready", "none"} : Start(q, pc, r, seen)
        BY <2>2 DEF Begin, CompleteRead, RetryRead, StaleRead, WithdrawRead,
                    DeleteLater, RawSweepRead, SessionPCs
      <3> QED BY <1>0, <1>1, <3>1 DEF Start, SessTypes, At
    <2>3. ASSUME NEW q \in Sessions, Continue(q)
          PROVE  \/ sess'[p] = sess[p]
                 \/ /\ StartProcessing(p) /\ sess'[p].rec = sess[p].rec
                    /\ status[sess[p].rec] = "uploading"
                    /\ \A o \in Sessions \ {p} : sess'[o] = sess[o]
      <3>1. CASE Stop(q)
        BY <1>0, <1>1, <3>1 DEF Stop, NoSession, SessTypes, At
      <3>2. CASE \E pc \in SessionPCs \ {"enqueue"} : Goto(q, pc)
        BY <1>0, <1>1, <3>2 DEF Goto, SessTypes, Request, At
      <3>3. CASE StartProcessing(q) /\ Goto(q, "enqueue")
        <4>1. CASE q # p
          BY <1>0, <3>3, <4>1 DEF Goto, SessTypes
        <4>2. CASE q = p
          <5>1. /\ sess'[p].rec = sess[p].rec /\ sess'[p].seen = sess[p].seen
                /\ \A o \in Sessions \ {p} : sess'[o] = sess[o]
            BY <1>0, <3>3, <4>2 DEF Goto, SessTypes, Request
          <5>2. sess'[p] = NoSession => ~At(p, "enqueue")'
            BY DEF NoSession, At
          <5>3. status[sess[p].rec] = sess[p].seen \/ sess'[p] = NoSession
            BY <1>0, <3>3, <4>2 DEF StartProcessing, Stop, SessTypes
          <5> QED BY <1>1, <3>3, <4>2, <5>1, <5>2, <5>3
        <4> QED BY <4>1, <4>2
      <3> QED BY <2>3, <3>1, <3>2, <3>3
              DEF Continue, CompleteHead, Discard, StartProcessing, Enqueue,
                  DeleteRow, PurgeFiles, RawSweepDelete, RawSweepMark,
                  SessionPCs
    <2> QED BY <2>1, <2>2, <2>3, SessWriters
  <1> SUFFICES ASSUME NEW p \in Sessions, NEW q \in Sessions, Queues(p)',
                      Queues(q)', sess'[q].rec = sess'[p].rec
               PROVE  p = q
    BY DEF CompleteQueuesOnce, At
  <1>2. \A o \in Sessions : Queues(o) => status[sess[o].rec] # "uploading"
    BY <1>0 DEF RequestsKnow, Known, At
  <1>3. CASE sess'[p] = sess[p] /\ sess'[q] = sess[q]
    BY <1>0, <1>3 DEF CompleteQueuesOnce, At
  <1>4. CASE /\ StartProcessing(p) /\ sess'[p].rec = sess[p].rec
             /\ status[sess[p].rec] = "uploading"
             /\ \A o \in Sessions \ {p} : sess'[o] = sess[o]
    BY <1>2, <1>4 DEF At
  <1>5. CASE /\ StartProcessing(q) /\ sess'[q].rec = sess[q].rec
             /\ status[sess[q].rec] = "uploading"
             /\ \A o \in Sessions \ {q} : sess'[o] = sess[o]
    BY <1>2, <1>5 DEF At
  <1> QED BY <1>1, <1>3, <1>4, <1>5

(* Who is about to queue a recording does, or it is dropped.               *)
LEMMA QueueingEnds ==
  ASSUME IInv, [Next]_vars, NEW p \in Sessions, At(p, "enqueue"),
         NEW r \in Recordings, sess[p].rec = r, status[r] = "processing"
  PROVE  InProgress(r)' \/ r \in dropped'
  <1>0. SessTypes /\ JobTypes
    BY TypeParts DEF IInv
  <1>1. CASE Crash(p)
    BY <1>1 DEF Crash, Lost
  <1>2. CASE Enqueue(p)
    <2> DEFINE j == CHOOSE k \in Unused : TRUE
    <2>1. j \in Unused /\ j \in Jobs
      BY <1>2 DEF Enqueue, Unused
    <2>2. jobs' = [jobs EXCEPT ![j] =
                     [NoJob EXCEPT !.state = "waiting", !.rec = r]]
      BY <1>2 DEF Enqueue
    <2> HIDE DEF j
    <2>3. jobs'[j] = [NoJob EXCEPT !.state = "waiting", !.rec = r]
      BY <1>0, <2>1, <2>2 DEF JobTypes
    <2>4. jobs'[j].state = "waiting" /\ jobs'[j].rec = r
      BY <2>3 DEF NoJob
    <2> QED BY <2>1, <2>4 DEF InProgress
  <1>3. CASE sess'[p] = sess[p]
    BY <1>3 DEF InProgress, At
  <1>4. Crash(p) \/ Enqueue(p) \/ sess'[p] = sess[p]
    <2>1. ASSUME NEW q \in Sessions, q # p,
                 Continue(q) \/ Crash(q) \/ \E o \in Recordings : Begin(q, o)
          PROVE  sess'[p] = sess[p]
      BY <1>0, <2>1
      DEF SessTypes, Crash, Continue, Begin, CompleteRead, RetryRead, StaleRead,
          WithdrawRead, DeleteLater, RawSweepRead, Start, CompleteHead, Discard,
          StartProcessing, Enqueue, DeleteRow, PurgeFiles, RawSweepDelete,
          RawSweepMark, Stop, Goto
    <2>2. ASSUME NEW o \in Recordings, Begin(p, o) PROVE FALSE
      BY <2>2 DEF Begin, CompleteRead, RetryRead, StaleRead, WithdrawRead,
                  DeleteLater, RawSweepRead, Start, At
    <2>3. Continue(p) => Enqueue(p)
      BY DEF Continue, CompleteHead, Discard, StartProcessing, DeleteRow,
             PurgeFiles, RawSweepDelete, RawSweepMark, At
    <2> QED BY <2>1, <2>2, <2>3, SessWriters
  <1> QED BY <1>1, <1>2, <1>3, <1>4

(* A job that waits or runs goes on, unless its recording is done with or  *)
(* dropped.                                                                *)
LEMMA JobGoesOn ==
  ASSUME IInv, [Next]_vars, NEW j \in Jobs, NEW r \in Recordings,
         jobs[j].rec = r, jobs[j].state \in {"waiting", "active"},
         status'[r] = "processing"
  PROVE  InProgress(r)' \/ r \in dropped'
  <1>0. JobTypes /\ RowTypes /\ JobsOK
    BY TypeParts DEF IInv
  <1>1. CASE jobs'[j] = jobs[j]
    BY <1>1 DEF InProgress
  <1>2. ASSUME NEW w \in Workers, Take(w, j) PROVE InProgress(r)'
    <2>1. jobs'[j].state = "active" /\ jobs'[j].rec = r
      BY <1>0, <1>2 DEF Take, JobTypes, Job
    <2> QED BY <2>1 DEF InProgress
  <1>3. CASE Stall(j)
    <2>1. CASE jobs[j].stalls < StallLimit /\ jobs'[j].state = "waiting"
      <3>1. jobs'[j].rec = r
        BY <1>0, JobStep DEF JobKept
      <3> QED BY <2>1, <3>1 DEF InProgress
    <2>2. CASE Lost(r) /\ UNCHANGED recVars
      BY <2>2 DEF Lost, recVars
    <2> QED BY <1>0, <1>3, <2>1, <2>2 DEF Stall, JobTypes, Job
  <1>4. ASSUME NEW w \in Workers, Returns(w), worker[w].job = j, Holds(w),
               ~UNCHANGED jobs
        PROVE  InProgress(r)' \/ r \in dropped'
    <2>0. RecOf(w) = r
      BY <1>4 DEF RecOf
    <2>1. CASE Read(w)
      BY <1>0, <1>4, <2>0, <2>1 DEF Read, recVars
    <2>2. CASE SetReady(w)
      BY <1>0, <1>4, <2>0, <2>2 DEF SetReady, RowTypes
    <2>3. CASE MarkRaw(w) \/ DeleteRawFails(w)
      BY <2>0, <2>3
      DEF MarkRaw, DeleteRawFails, recVars, IInv, WorkersKnow, KnownTo, Working,
          Done
    <2>4. CASE TooLong(w)
      BY <1>0, <2>0, <2>4 DEF TooLong, SetFailed, RowTypes
    <2>5. CASE Throw(w) /\ (Caught(w) \/ DatabaseFails(w))
      <3>1. CASE ~LastAttempt(j)
        <4>1. jobs'[j].state = "waiting" /\ jobs'[j].rec = r
          BY <1>0, <1>4, <2>5, <3>1 DEF Throw, Again, JobTypes, Job
        <4> QED BY <4>1 DEF InProgress
      <3>2. CASE LastAttempt(j) /\ Caught(w)
        <4>1. worker[w].last
          BY <1>4, <3>2
          DEF IInv, WorkersKnow, KnownTo, Caught, Working
        <4> QED BY <1>0, <2>0, <3>2, <4>1 DEF Caught, SetFailed, RowTypes
      <3>3. CASE LastAttempt(j) /\ DatabaseFails(w)
        BY <1>4, <2>0, <3>3 DEF DatabaseFails, Lost, recVars
      <3> QED BY <2>5, <3>1, <3>2, <3>3
    <2> QED BY <1>4, <2>1, <2>2, <2>3, <2>4, <2>5
            DEF Returns, Caught, DatabaseFails
  <1>5. jobs'[j] = jobs[j] \/ Stall(j) \/ (\E w \in Workers : Take(w, j))
        \/ \E w \in Workers : /\ Returns(w) /\ worker[w].job = j /\ Holds(w)
                             /\ ~UNCHANGED jobs
    <2>1. ASSUME NEW p \in Sessions, Enqueue(p) PROVE jobs'[j] = jobs[j]
      <3> DEFINE k == CHOOSE i \in Unused : TRUE
      <3>1. k \in Unused /\ jobs[k] = NoJob
        BY <2>1 DEF Enqueue, Unused
      <3>2. jobs' = [jobs EXCEPT ![k] =
                       [NoJob EXCEPT !.state = "waiting", !.rec = sess[p].rec]]
        BY <2>1 DEF Enqueue
      <3> HIDE DEF k
      <3>3. k # j
        BY <3>1 DEF NoJob
      <3> QED BY <1>0, <3>2, <3>3 DEF JobTypes
    <2>2. ASSUME NEW w \in Workers, Returns(w),
                 worker[w].job # j \/ ~Holds(w)
          PROVE  jobs'[j] = jobs[j]
      <3>1. CASE Finish(w)
        BY <1>0, <2>2, <3>1 DEF Finish, JobTypes
      <3>2. CASE Throw(w)
        BY <1>0, <2>2, <3>2 DEF Throw, JobTypes
      <3> QED BY <2>2, <3>1, <3>2, JobReturned
    <2>3. ASSUME NEW w \in Workers, NEW k \in Jobs, Take(w, k), k # j
          PROVE  jobs'[j] = jobs[j]
      BY <1>0, <2>3 DEF Take, JobTypes
    <2>4. ASSUME NEW k \in Jobs, Stall(k), k # j PROVE jobs'[j] = jobs[j]
      BY <1>0, <2>4 DEF Stall, JobTypes
    <2> QED BY <2>1, <2>2, <2>3, <2>4, JobWriters
  <1> QED BY <1>1, <1>2, <1>3, <1>4, <1>5

LEMMA InProgressStep ==
  ASSUME IInv, [Next]_vars
  PROVE  DropTypes' /\ ProcessingIsInProgress'
  <1>0. /\ RowTypes /\ DropTypes /\ ProcessingIsInProgress /\ JobTypes
        /\ SessTypes
    BY TypeParts DEF IInv
  <1>1. /\ dropped' \subseteq Recordings
        /\ \A r \in Recordings :
             r \in dropped /\ status[r] = "processing" =>
               r \in dropped' \/ status'[r] # "processing"
    <2> DEFINE Grows == dropped \subseteq dropped' /\ dropped' \subseteq Recordings
    <2>1. \/ dropped' = dropped
          \/ \E p \in Sessions : Crash(p) \/ StartProcessing(p) \/ DeleteRow(p)
          \/ \E w \in Workers : DatabaseFails(w) \/ SetReady(w)
          \/ \E j \in Jobs : Stall(j)
      BY DEF Next, vars, queueVars, Begin, Continue, Work, Create, HourPasses,
             Put, Start, CompleteRead, RetryRead, StaleRead, WithdrawRead,
             DeleteLater, RawSweepRead, CompleteHead, Discard, Enqueue,
             PurgeFiles, RawSweepDelete, RawSweepMark, Read, Convert, Upload,
             DeleteRaw, MarkRaw, DeleteRawFails, TooLong, StepThrows, Caught,
             WorkerCrash, Take
    <2>2. ASSUME NEW p \in Sessions, Crash(p) PROVE Grows
      BY <1>0, <2>2 DEF Crash, Lost, DropTypes, At, IInv, RequestsKnow, Known
    <2>3. ASSUME NEW w \in Workers, DatabaseFails(w) PROVE Grows
      BY <1>0, <2>3, HasRecording
      DEF DatabaseFails, Lost, DropTypes, RecordingOf, Working
    <2>4. ASSUME NEW j \in Jobs, Stall(j) PROVE Grows
      BY <1>0, <2>4 DEF Stall, Lost, DropTypes, IInv, JobsOK
    <2>5. ASSUME NEW p \in Sessions, StartProcessing(p)
          PROVE  /\ \/ dropped' = dropped
                    \/ /\ dropped' = dropped \ {sess[p].rec}
                       /\ status[sess[p].rec] \in {"uploading", "failed"}
      BY <2>5 DEF StartProcessing, IInv, RequestsKnow, Known, At
    <2>6. ASSUME NEW p \in Sessions, DeleteRow(p)
          PROVE  /\ dropped' = dropped \ {sess[p].rec}
                 /\ sess[p].rec \in Recordings => status'[sess[p].rec] = "gone"
      BY <1>0, <2>6 DEF DeleteRow, RowTypes
    <2>7. ASSUME NEW w \in Workers, SetReady(w)
          PROVE  \/ dropped' = dropped
                 \/ \E q \in Recordings : /\ dropped' = dropped \ {q}
                                          /\ status'[q] # "processing"
      <3>1. RecOf(w) \in Recordings
        BY <2>7, HasRecording DEF SetReady, RecordingOf, Working
      <3> QED BY <1>0, <2>7, <3>1 DEF SetReady, RowTypes
    <2> QED BY <1>0, <2>1, <2>2, <2>3, <2>4, <2>5, <2>6, <2>7 DEF DropTypes
  <1>2. ASSUME NEW r \in Recordings, status'[r] = "processing"
        PROVE  InProgress(r)' \/ r \in dropped'
    <2>1. CASE status[r] = "processing"
      <3>1. CASE r \in dropped
        BY <1>1, <1>2, <2>1, <3>1
      <3>2. CASE \E p \in Sessions : At(p, "enqueue") /\ sess[p].rec = r
        BY <2>1, <3>2, QueueingEnds
      <3>3. CASE \E j \in Jobs : jobs[j].rec = r
                              /\ jobs[j].state \in {"waiting", "active"}
        BY <1>2, <3>3, JobGoesOn
      <3> QED BY <1>0, <2>1, <3>1, <3>2, <3>3
              DEF ProcessingIsInProgress, InProgress
    <2>2. CASE status[r] # "processing"
      <3>1. PICK p \in Sessions : StartProcessing(p)
        BY <1>0, <1>2, <2>2, StatusWriters
        DEF Create, DeleteRow, SetReady, TooLong, Caught, SetFailed, RowTypes
      <3>2. sess[p].rec = r /\ Goto(p, "enqueue")
        BY <1>0, <1>2, <2>2, <3>1 DEF StartProcessing, RowTypes
      <3>3. At(p, "enqueue")' /\ sess'[p].rec = r
        BY <1>0, <3>2 DEF Goto, SessTypes, Request, At
      <3> QED BY <3>3 DEF InProgress
    <2> QED BY <2>1, <2>2
  <1> QED BY <1>1, <1>2 DEF DropTypes, ProcessingIsInProgress

-----------------------------------------------------------------------------

LEMMA InitOK == Init => IInv
  <1> SUFFICES ASSUME Init PROVE IInv
    OBVIOUS
  <1> USE DEF Init
  <1>1. RowTypes /\ FileTypes /\ DropTypes
    BY DEF RowTypes, FileTypes, DropTypes, Statuses
  <1>2. JobTypes /\ JobsOK
    <2>1. NoJob \in Job
      BY AttemptsAssumption DEF NoJob, Job, JobStates
    <2> QED BY <2>1 DEF JobTypes, JobsOK, NoJob
  <1>3. SessTypes /\ RequestsKnow /\ CompleteQueuesOnce
    BY DEF SessTypes, Request, NoSession, SessionPCs, Statuses, RequestsKnow,
           Known, CompleteQueuesOnce, At
  <1>4. WorkTypes /\ WorkersKnow
    BY DEF WorkTypes, Slot, NoWork, WorkerPCs, WorkersKnow, KnownTo, Working
  <1>5. RowsHold /\ ProcessingIsInProgress
    BY DEF RowsHold, ProcessingIsInProgress
  <1> QED BY <1>1, <1>2, <1>3, <1>4, <1>5, TypeParts DEF IInv

LEMMA Inductive == Spec => []IInv
  <1>1. IInv /\ [Next]_vars => IInv'
    <2> SUFFICES ASSUME IInv, [Next]_vars PROVE IInv'
      OBVIOUS
    <2>1. /\ RowTypes' /\ FileTypes' /\ JobTypes' /\ SessTypes' /\ WorkTypes'
          /\ DropTypes'
      BY RowStep, JobStep, RequestStep, WorkStep, InProgressStep
    <2>2. TypeOK'
      BY <2>1 DEF TypeOK, RowTypes, FileTypes, JobTypes, SessTypes, WorkTypes,
                  DropTypes, Job, Request, Slot
    <2> QED BY <2>2, RowStep, JobStep, RequestStep, WorkStep, QueuedOnceStep,
               InProgressStep
            DEF IInv
  <1> QED BY <1>1, InitOK, PTL DEF Spec

(* The variables keep their types, however often a job stalls.             *)
THEOREM Typing == Spec => []TypeOK
  <1>1. IInv => TypeOK
    BY DEF IInv
  <1> QED BY <1>1, Inductive, PTL

(* A recording that is ready has its tape, one that is to be converted has *)
(* its original unless a late complete() took it away, and an original     *)
(* marked as deleted is unless the store kept it or the app uploaded it    *)
(* afterwards: for any number of workers, also those that were given up,   *)
(* of clean-ups and of uploads.                                            *)
THEOREM FilesAreThere == Spec => []FilesFollowStatus
  <1>1. IInv => FilesFollowStatus
    BY DEF IInv, RowsHold, FilesFollowStatus, ReadyHasTape, RawFollowsRow,
           RawKeptForRetry, MarkedIsDeleted, Kept, Accounted
  <1> QED BY <1>1, Inductive, PTL

(* An upload is queued once, however many requests complete it, and what   *)
(* is being converted has a job or a request that will queue one, but for  *)
(* the three ways to lose it (complete, RecordingsProcessor).              *)
THEOREM ConversionsAreKept == Spec => []ConversionsHold
  <1>1. IInv => ConversionsHold
    BY DEF IInv, ConversionsHold
  <1> QED BY <1>1, Inductive, PTL

(* Nothing takes a finished recording back but its deletion.               *)
THEOREM FinishedStays == Spec => ReadyStays
  <1> DEFINE Stays == \A r \in Recordings :
                        status[r] = "ready" => status'[r] \in {"ready", "gone"}
  <1>1. IInv /\ [Next]_vars => Stays
    BY StatusMoves DEF Done
  <1>2. ReadyStays <=> [][Stays]_vars
    BY DEF ReadyStays
  <1> HIDE DEF Stays
  <1>3. Spec => [][Stays]_vars
    BY <1>1, Inductive, PTL DEF Spec
  <1> QED BY <1>2, <1>3

=============================================================================
