----------------------------- MODULE Recordings -----------------------------
(***************************************************************************)
(* Recordings of users, from the place that POST /recordings makes to the  *)
(* "tape sound": upload to the store, queue, conversion by a worker,       *)
(* retry, and the jobs that clean up.  All recordings here are unsent.     *)
(*                                                                         *)
(* Every database statement, every call of the store and every operation   *)
(* of the queue is a step of its own; between any two of them the process  *)
(* may die, and the call may fail.                                         *)
(***************************************************************************)
EXTENDS Naturals, FiniteSets

CONSTANTS
  Recordings,
  Sessions,    \* requests of the API and runs of the hourly job
  Workers,     \* slots of RecordingsProcessor
  Jobs,        \* jobs that may be queued altogether (bound)
  Attempts,    \* attempts of a job
  StallLimit,  \* maxStalledCount of the queue
  None

ASSUME AttemptsAssumption == Attempts \in Nat \ {0} /\ StallLimit \in Nat

VARIABLES
  status,      \* recordings.status, "none" before and "gone" after the row
  rawDeleted,  \* raw_deleted_at is set
  old,         \* waits for its upload since more than STALE_UPLOAD_HOURS
  raw,         \* there is an object at raw_key
  tape,        \* there is an object at processed_key
  left,        \* history: originals of finished recordings that the store
               \* kept when told to delete them, or that were uploaded late
  cut,         \* history: originals that complete() deleted as too large, with
               \* nothing uploaded since
  jobs,        \* the queue
  sess,        \* what each session does
  worker,      \* what each worker does
  dropped      \* history: recordings being converted of which a request or a
               \* job was lost on the way

recVars   == <<status, rawDeleted, old>>
fileVars  == <<raw, tape, left, cut>>
queueVars == <<jobs, dropped>>
vars == <<status, rawDeleted, old, raw, tape, left, cut, jobs, sess, worker,
          dropped>>

Statuses == {"none", "uploading", "processing", "ready", "failed", "gone"}
ASSUME NoneAssumption == None \notin Workers
JobStates == {"none", "waiting", "active", "over"}
NoJob == [state |-> "none", rec |-> None, made |-> 0, stalls |-> 0,
          holder |-> None]
SessionPCs == {"idle", "head", "discard", "start", "enqueue", "delete",
               "purge", "raw-delete", "raw-mark"}
WorkerPCs == {"idle", "read", "convert", "upload", "set-ready", "too-long",
              "caught", "raw-delete", "raw-mark"}
NoSession == [pc |-> "idle", rec |-> None, seen |-> "none"]
NoWork == [pc |-> "idle", job |-> None, last |-> FALSE]

TypeOK ==
  /\ status \in [Recordings -> Statuses]
  /\ rawDeleted \in [Recordings -> BOOLEAN]
  /\ old \in [Recordings -> BOOLEAN]
  /\ raw \in [Recordings -> BOOLEAN]
  /\ tape \in [Recordings -> BOOLEAN]
  /\ left \subseteq Recordings
  /\ cut \subseteq Recordings
  /\ jobs \in [Jobs -> [state : JobStates, rec : Recordings \cup {None},
                        made : 0 .. Attempts, stalls : 0 .. StallLimit,
                        holder : Workers \cup {None}]]
  /\ sess \in [Sessions -> [pc : SessionPCs, rec : Recordings \cup {None},
                            seen : Statuses]]
  /\ worker \in [Workers -> [pc : WorkerPCs, job : Jobs \cup {None},
                             last : BOOLEAN]]
  /\ dropped \subseteq Recordings

Init ==
  /\ status = [r \in Recordings |-> "none"]
  /\ rawDeleted = [r \in Recordings |-> FALSE]
  /\ old = [r \in Recordings |-> FALSE]
  /\ raw = [r \in Recordings |-> FALSE]
  /\ tape = [r \in Recordings |-> FALSE]
  /\ left = {}
  /\ cut = {}
  /\ jobs = [j \in Jobs |-> NoJob]
  /\ sess = [p \in Sessions |-> NoSession]
  /\ worker = [w \in Workers |-> NoWork]
  /\ dropped = {}

-----------------------------------------------------------------------------
(* The app and the clock *)

(* RecordingsService.create; the length the app declares is within limits. *)
Create(r) ==
  /\ status[r] = "none"
  /\ status' = [status EXCEPT ![r] = "uploading"]
  /\ UNCHANGED <<rawDeleted, old, fileVars, queueVars, sess, worker>>

(* There is an original now; beside a finished recording it is left over. *)
RawIsThere(r) ==
  /\ raw' = [raw EXCEPT ![r] = TRUE]
  /\ left' = IF status[r] = "ready" THEN left \cup {r} ELSE left \ {r}

(* The app uploads with the presigned URL, which is valid for a quarter of *)
(* an hour, as often as it likes and whatever the API does meanwhile: the  *)
(* store does not know the status.  A recording that is old has no URL     *)
(* that is still valid; the age of one past its upload is not followed, so *)
(* that its URL is taken to be valid still.                                *)
Put(r) ==
  /\ status[r] # "none" /\ ~old[r]
  /\ RawIsThere(r)
  /\ cut' = cut \ {r}
  /\ UNCHANGED <<recVars, tape, queueVars, sess, worker>>

HourPasses(r) ==
  /\ status[r] = "uploading" /\ ~old[r]
  /\ old' = [old EXCEPT ![r] = TRUE]
  /\ UNCHANGED <<status, rawDeleted, fileVars, queueVars, sess, worker>>

-----------------------------------------------------------------------------
(* RecordingsService.complete and retry *)

At(p, pc) == sess[p].pc = pc
Goto(p, pc) == sess' = [sess EXCEPT ![p].pc = pc]
Stop(p) == sess' = [sess EXCEPT ![p] = NoSession]
Start(p, pc, r, seen) ==
  /\ At(p, "idle")
  /\ sess' = [sess EXCEPT ![p] = [pc |-> pc, rec |-> r, seen |-> seen]]
  /\ UNCHANGED <<recVars, fileVars, queueVars, worker>>

Unused == {j \in Jobs : jobs[j] = NoJob}

(* findOwned; a recording in any other status is returned as it is. *)
CompleteRead(p, r) ==
  status[r] = "uploading" /\ Start(p, "head", r, "uploading")
RetryRead(p, r) ==
  status[r] = "failed" /\ Unused # {} /\ Start(p, "start", r, "failed")

(* What there is may be larger than MAX_UPLOAD_BYTES or not; another size  *)
(* than the last time means that there was an upload in between.           *)
CompleteHead(p) ==
  /\ At(p, "head")
  /\ \/ ~raw[sess[p].rec] /\ Stop(p)
     \/ raw[sess[p].rec] /\ (Goto(p, "discard") \/ Goto(p, "start"))
  /\ UNCHANGED <<recVars, fileVars, queueVars, worker>>

(* storage.delete of an original.  S3 answers 200 for a key that it could  *)
(* not delete as well, with an error in the body that nobody looks at.     *)
DeleteRawObject(r) ==
  \/ /\ raw' = [raw EXCEPT ![r] = FALSE]
     /\ left' = left \ {r}
  \/ raw[r] /\ RawIsThere(r)

Discard(p) ==
  LET r == sess[p].rec
  IN  /\ At(p, "discard")
      /\ DeleteRawObject(r)
      /\ cut' = IF raw'[r] THEN cut ELSE cut \cup {r}
      /\ Stop(p)
      /\ UNCHANGED <<recVars, tape, queueVars, worker>>

\* Mutant: UPDATE by id only, so that two requests both queue a conversion.
StartProcessingById(p) ==
  /\ At(p, "start")
  /\ status' = [status EXCEPT ![sess[p].rec] = IF @ = "gone" THEN @
                                                             ELSE "processing"]
  /\ Goto(p, "enqueue")
  /\ UNCHANGED <<rawDeleted, old, fileVars, queueVars, worker>>

(* startProcessing: UPDATE ... WHERE status = from. *)
StartProcessing(p) ==
  LET r == sess[p].rec
  IN  /\ At(p, "start")
      /\ \/ /\ status[r] = sess[p].seen
            /\ status' = [status EXCEPT ![r] = "processing"]
            /\ old' = [old EXCEPT ![r] = FALSE]
            /\ Goto(p, "enqueue")
            /\ dropped' = dropped \ {r}
         \/ /\ status[r] # sess[p].seen
            /\ Stop(p)
            /\ UNCHANGED <<status, old, dropped>>
      /\ UNCHANGED <<rawDeleted, fileVars, jobs, worker>>

(* queue.add *)
Enqueue(p) ==
  /\ At(p, "enqueue")
  /\ Unused # {}
  /\ jobs' = [jobs EXCEPT ![CHOOSE j \in Unused : TRUE] =
                [NoJob EXCEPT !.state = "waiting", !.rec = sess[p].rec]]
  /\ Stop(p)
  /\ UNCHANGED <<recVars, fileVars, worker, dropped>>

(* Nothing is lost for a recording that is not being converted (any more). *)
Lost(r) ==
  dropped' = IF status[r] = "processing" THEN dropped \cup {r} ELSE dropped

(* The process dies, or the call throws: Redis or the store is away. *)
Crash(p) ==
  /\ ~At(p, "idle")
  /\ Stop(p)
  /\ IF At(p, "enqueue") THEN Lost(sess[p].rec) ELSE UNCHANGED dropped
  /\ UNCHANGED <<recVars, fileVars, jobs, worker>>

-----------------------------------------------------------------------------
(* Clean-up and withdrawal.  withdraw() is here for its unsent recordings. *)

(* cleanupStaleUploads and withdraw select first and delete by id later;   *)
(* whether there is a tape to purge is what the SELECT said.               *)
DeleteLater(p, r) ==
  Start(p, "delete", r, IF status[r] = "ready" THEN "ready" ELSE "none")
StaleRead(p, r) == status[r] = "uploading" /\ old[r] /\ DeleteLater(p, r)
WithdrawRead(p, r) == status[r] \notin {"none", "gone"} /\ DeleteLater(p, r)

(* The histories of a recording end with its row. *)
DeleteRow(p) ==
  LET r == sess[p].rec
  IN  /\ At(p, "delete")
      /\ status' = [status EXCEPT ![r] = "gone"]
      /\ rawDeleted' = [rawDeleted EXCEPT ![r] = FALSE]
      /\ left' = left \ {r}
      /\ cut' = cut \ {r}
      /\ dropped' = dropped \ {r}
      /\ Goto(p, "purge")
      /\ UNCHANGED <<old, raw, tape, jobs, worker>>

(* ShelfService.purgeFiles; a failure is logged and forgotten (Crash). *)
PurgeFiles(p) ==
  LET r == sess[p].rec
  IN  /\ At(p, "purge")
      /\ DeleteRawObject(r)
      /\ \/ tape' = [tape EXCEPT ![r] = @ /\ sess[p].seen # "ready"]
         \/ UNCHANGED tape
      /\ Stop(p)
      /\ UNCHANGED <<recVars, cut, queueVars, worker>>

(* cleanupReadyRaw, for one of the rows it selects. *)
RawSweepRead(p, r) ==
  status[r] = "ready" /\ ~rawDeleted[r] /\ Start(p, "raw-delete", r, "ready")

RawSweepDelete(p) ==
  /\ At(p, "raw-delete")
  /\ DeleteRawObject(sess[p].rec)
  /\ Goto(p, "raw-mark")
  /\ UNCHANGED <<recVars, tape, cut, queueVars, worker>>

(* UPDATE by id, of no row when the recording is gone. *)
SetRawDeleted(r) ==
  rawDeleted' = [rawDeleted EXCEPT ![r] = status[r] # "gone"]

RawSweepMark(p) ==
  /\ At(p, "raw-mark")
  /\ SetRawDeleted(sess[p].rec)
  /\ Stop(p)
  /\ UNCHANGED <<status, old, fileVars, queueVars, worker>>

-----------------------------------------------------------------------------
(* RecordingsProcessor, run by BullMQ *)

Working(w, pc) == worker[w].pc = pc
Turn(w, pc) == worker' = [worker EXCEPT ![w].pc = pc]
RecOf(w) == jobs[worker[w].job].rec
Holds(w) == jobs[worker[w].job].holder = w

LastAttempt(j) == jobs[j].made + 1 >= Attempts

(* A job that waits for its next attempt. *)
Again(j) == [jobs[j] EXCEPT !.state = "waiting", !.made = @ + 1,
                            !.holder = None]

(* What is left of a job that is over: workers that lost it still go on.   *)
Ended(j) == [NoJob EXCEPT !.state = "over", !.rec = jobs[j].rec]

(* The job has returned: removed from the queue, if w still holds it. *)
Finish(w) ==
  LET j == worker[w].job
  IN  /\ worker' = [worker EXCEPT ![w] = NoWork]
      /\ jobs' = [jobs EXCEPT ![j] = IF Holds(w) THEN Ended(j) ELSE @]

\* Mutant: jobs are tried again for ever.
ThrowForEver(w) ==
  LET j == worker[w].job
  IN  /\ worker' = [worker EXCEPT ![w] = NoWork]
      /\ IF ~Holds(w) THEN UNCHANGED jobs
         ELSE jobs' = [jobs EXCEPT ![j] = Again(j)]

(* The job has thrown: it waits for its next attempt, or it has failed. *)
Throw(w) ==
  LET j == worker[w].job
  IN  /\ worker' = [worker EXCEPT ![w] = NoWork]
      /\ IF ~Holds(w) THEN UNCHANGED jobs
         ELSE jobs' = [jobs EXCEPT ![j] = IF LastAttempt(j) THEN Ended(j)
                                                            ELSE Again(j)]

Take(w, j) ==
  /\ Working(w, "idle")
  /\ jobs[j].state = "waiting"
  /\ jobs' = [jobs EXCEPT ![j].state = "active", ![j].holder = w]
  /\ worker' = [worker EXCEPT ![w] =
       [pc |-> "read", job |-> j, last |-> LastAttempt(j)]]
  /\ UNCHANGED <<recVars, fileVars, sess, dropped>>

(* process: nothing to do unless the recording is still processing. *)
Read(w) ==
  /\ Working(w, "read")
  /\ IF status[RecOf(w)] = "processing" THEN Turn(w, "convert") /\ UNCHANGED jobs
                                        ELSE Finish(w)
  /\ UNCHANGED <<recVars, fileVars, sess, dropped>>

(* What may come of the original: a tape, a sound that is too long, or     *)
(* nothing that ffmpeg can read.  The worker does not look at its size.    *)
Outcomes(r) ==
  IF raw[r] THEN {"upload", "too-long", "caught"} ELSE {"caught"}

\* Mutant: the status is set before the tape is uploaded.
ConvertWithoutUpload(w) ==
  /\ Working(w, "convert")
  /\ \E pc \in Outcomes(RecOf(w)) :
       Turn(w, IF pc = "upload" THEN "set-ready" ELSE pc)
  /\ UNCHANGED <<recVars, fileVars, queueVars, sess>>

(* convert: download, ffmpeg, ffprobe, the limit on the length. *)
Convert(w) ==
  /\ Working(w, "convert")
  /\ \E pc \in Outcomes(RecOf(w)) : Turn(w, pc)
  /\ UNCHANGED <<recVars, fileVars, queueVars, sess>>

Upload(w) ==
  /\ Working(w, "upload")
  /\ tape' = [tape EXCEPT ![RecOf(w)] = TRUE]
  /\ Turn(w, "set-ready")
  /\ UNCHANGED <<recVars, raw, left, cut, queueVars, sess>>

(* UPDATE ... WHERE status = 'processing', with the key of the tape. *)
SetReady(w) ==
  LET r == RecOf(w)
  IN  /\ Working(w, "set-ready")
      /\ \/ /\ status[r] = "processing"
            /\ status' = [status EXCEPT ![r] = "ready"]
            /\ dropped' = dropped \ {r}
            /\ Turn(w, "raw-delete")
            /\ UNCHANGED jobs
         \/ /\ status[r] # "processing"
            /\ Finish(w)
            /\ UNCHANGED <<status, dropped>>
      /\ UNCHANGED <<rawDeleted, old, fileVars, sess>>

DeleteRaw(w) ==
  /\ Working(w, "raw-delete")
  /\ DeleteRawObject(RecOf(w))
  /\ Turn(w, "raw-mark")
  /\ UNCHANGED <<recVars, tape, cut, queueVars, sess>>

MarkRaw(w) ==
  /\ Working(w, "raw-mark")
  /\ SetRawDeleted(RecOf(w))
  /\ Finish(w)
  /\ UNCHANGED <<status, old, fileVars, sess, dropped>>

(* deleteRaw swallows what its two calls throw. *)
DeleteRawFails(w) ==
  /\ worker[w].pc \in {"raw-delete", "raw-mark"}
  /\ Finish(w)
  /\ UNCHANGED <<recVars, fileVars, sess, dropped>>

\* Mutant: UPDATE by id only.
SetFailedById(r) ==
  status' = [status EXCEPT ![r] = IF @ = "gone" THEN @ ELSE "failed"]

(* fail: UPDATE ... WHERE status = 'processing' *)
SetFailed(r) ==
  status' = [status EXCEPT ![r] = IF @ = "processing" THEN "failed" ELSE @]

TooLong(w) ==
  /\ Working(w, "too-long")
  /\ SetFailed(RecOf(w))
  /\ Finish(w)
  /\ UNCHANGED <<rawDeleted, old, fileVars, sess, dropped>>

(* Any call before the status is set may throw. *)
StepThrows(w) ==
  /\ worker[w].pc \in {"convert", "upload", "set-ready", "too-long"}
  /\ Turn(w, "caught")
  /\ UNCHANGED <<recVars, fileVars, queueVars, sess>>

(* The catch clause: fail() on the last attempt, then throw. *)
Caught(w) ==
  /\ Working(w, "caught")
  /\ IF worker[w].last THEN SetFailed(RecOf(w)) ELSE UNCHANGED status
  /\ Throw(w)
  /\ UNCHANGED <<rawDeleted, old, fileVars, sess, dropped>>

(* The SELECT of process() throws, or the UPDATE of fail(). *)
DatabaseFails(w) ==
  /\ Working(w, "read") \/ (Working(w, "caught") /\ worker[w].last)
  /\ Throw(w)
  /\ IF LastAttempt(worker[w].job) /\ Holds(w) THEN Lost(RecOf(w))
                                              ELSE UNCHANGED dropped
  /\ UNCHANGED <<recVars, fileVars, sess>>

WorkerCrash(w) ==
  /\ ~Working(w, "idle")
  /\ worker' = [worker EXCEPT ![w] = NoWork]
  /\ UNCHANGED <<recVars, fileVars, queueVars, sess>>

(* BullMQ: the lock of a job was not renewed, because its worker died or   *)
(* because it was late.  The job waits again, or fails for good without    *)
(* another run of process(); a worker that was only late goes on.          *)
Stall(j) ==
  /\ jobs[j].state = "active"
  /\ \/ /\ jobs[j].stalls < StallLimit
        /\ jobs' = [jobs EXCEPT ![j].state = "waiting", ![j].holder = None,
                                ![j].stalls = @ + 1]
        /\ UNCHANGED dropped
     \/ /\ jobs[j].stalls = StallLimit
        /\ jobs' = [jobs EXCEPT ![j] = Ended(j)]
        /\ Lost(jobs[j].rec)
  /\ UNCHANGED <<recVars, fileVars, sess, worker>>

-----------------------------------------------------------------------------

Begin(p, r) ==
  \/ CompleteRead(p, r) \/ RetryRead(p, r)
  \/ StaleRead(p, r) \/ WithdrawRead(p, r) \/ RawSweepRead(p, r)

Continue(p) ==
  \/ CompleteHead(p) \/ Discard(p) \/ StartProcessing(p) \/ Enqueue(p)
  \/ DeleteRow(p) \/ PurgeFiles(p) \/ RawSweepDelete(p) \/ RawSweepMark(p)

Work(w) ==
  \/ Read(w) \/ Convert(w) \/ Upload(w) \/ SetReady(w)
  \/ DeleteRaw(w) \/ MarkRaw(w) \/ DeleteRawFails(w)
  \/ TooLong(w) \/ StepThrows(w) \/ Caught(w) \/ DatabaseFails(w)

Next ==
  \/ \E r \in Recordings :
       \/ Create(r) \/ HourPasses(r)
       \/ Put(r)
       \/ \E p \in Sessions : Begin(p, r)
  \/ \E p \in Sessions : Continue(p) \/ Crash(p)
  \/ \E w \in Workers :
       Work(w) \/ WorkerCrash(w) \/ \E j \in Jobs : Take(w, j)
  \/ \E j \in Jobs : Stall(j)

Spec == Init /\ [][Next]_vars

(* The API and the workers go on with what they have begun.  Workers take  *)
(* the jobs that wait, and the queue notices those whose worker is gone.   *)
(* The hourly job comes again and again, and the store does not fail it    *)
(* every time.                                                             *)
Orphaned(j) == \A w \in Workers : worker[w].job # j
Fairness ==
  /\ \A p \in Sessions : SF_vars(Continue(p))
  /\ \A w \in Workers : WF_vars(Work(w))
  /\ \A j \in Jobs : /\ SF_vars(\E w \in Workers : Take(w, j))
                     /\ WF_vars(Orphaned(j) /\ Stall(j))
  /\ \A r \in Recordings : SF_vars(\E p \in Sessions : RawSweepRead(p, r))

FairSpec == Spec /\ Fairness

-----------------------------------------------------------------------------

(* A recording that can be listened to and sent has its tape in the store, *)
(* whichever of several workers converted it (convert).                    *)
ReadyHasTape == \A r \in Recordings : status[r] = "ready" => tape[r]

(* Until a conversion has succeeded the raw file is there for the next     *)
(* attempt and for retry(), whatever workers that were given up still do   *)
(* and whatever the clean-up deletes (convert, deleteRaw, cleanupReadyRaw);*)
(* the one way to lose it is a complete() that found an earlier upload too *)
(* large and deletes what is there by then (complete).                     *)
RawKeptForRetry ==
  \A r \in Recordings :
    status[r] \in {"processing", "failed"} => raw[r] \/ r \in cut

(* Where raw_deleted_at says that the original is deleted, it is, unless   *)
(* S3 kept it with an answer that nobody read, or the app uploaded it      *)
(* after the conversion.  No mark comes before its deletion, and no worker *)
(* or job leaves an original behind in a third way (deleteRaw,             *)
(* cleanupReadyRaw).                                                       *)
MarkedIsDeleted ==
  \A r \in Recordings : rawDeleted[r] => ~raw[r] \/ r \in left

(* The original is there as long as it is needed, and not when the row     *)
(* says that it has been deleted: see both parts.                          *)
RawFollowsRow == RawKeptForRetry /\ MarkedIsDeleted

(* What a row says of its files is true but for what the parts name. *)
FilesFollowStatus == ReadyHasTape /\ RawFollowsRow

(* Two requests to complete one upload start one conversion ("queued once  *)
(* even if it comes twice at a time", startProcessing).                    *)
CompleteQueuesOnce ==
  \A p, q \in Sessions :
    /\ At(p, "enqueue") /\ sess[p].seen = "uploading"
    /\ At(q, "enqueue") /\ sess[q].rec = sess[p].rec
    /\ sess[q].seen = "uploading"
    => p = q

(* A finished recording stays finished: no worker that lost its job, no    *)
(* late failure and no retry takes it back (the WHERE of fail and of       *)
(* startProcessing).                                                       *)
ReadyStays ==
  [][\A r \in Recordings :
       status[r] = "ready" => status'[r] \in {"ready", "gone"}]_vars

InProgress(r) ==
  \/ \E p \in Sessions : At(p, "enqueue") /\ sess[p].rec = r
  \/ \E j \in Jobs : jobs[j].rec = r /\ jobs[j].state \in {"waiting", "active"}

(* What is shown as being converted is being converted: there is a job for *)
(* it, or a request about to queue one.  It is lost in three ways only:    *)
(* queue.add not reached or failing after the status was set, the database *)
(* failing process() on the last attempt, and the queue giving up a job    *)
(* that stalled too often.                                                 *)
ProcessingIsInProgress ==
  \A r \in Recordings :
    status[r] = "processing" => InProgress(r) \/ r \in dropped

(* An upload is converted once, and as long as it is said to be converted. *)
ConversionsHold == CompleteQueuesOnce /\ ProcessingIsInProgress

(* docs/api.md, "recordings": three attempts, and if all of them fail the  *)
(* status becomes "failed".  So no recording is being converted for ever.  *)
ProcessingEnds ==
  \A r \in Recordings : status[r] = "processing" ~> status[r] # "processing"

=============================================================================
