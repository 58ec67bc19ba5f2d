------------------------------ MODULE Storage ------------------------------
(***************************************************************************)
(* Where the files are: StorageService over a bucket (S3StorageService) or *)
(* over a developer's disk (LocalStorageService).  One key, which either   *)
(* the app writes, through a signed URL that expires (the original of a    *)
(* recording), or the workers do (its tape).  A bucket takes an object as  *)
(* a whole; on the disk a file is seen while it is being written, and what *)
(* removes it does not stop who writes it.                                 *)
(***************************************************************************)
EXTENDS Naturals, Sequences

CONSTANTS
  Puts,      \* writers of the key, each of which may write again and again
  MaxSize,   \* chunks of the longest body (bound)
  Limit,     \* chunks that the local driver takes from the app
  None

StorageAssumption == MaxSize \in Nat /\ Limit \in 1 .. MaxSize

VARIABLES
  driver,    \* STORAGE_DRIVER: "s3" or "local"
  writer,    \* who writes the key: "app" or "worker"
  expired,   \* the signed URL has expired
  file,      \* there is something under the key
  text,      \* its chunks, each named by the put it came from
  typed,     \* its content type is kept (on disk, in its .meta.json)
  put,       \* per put: its step, its chunks in all and so far, whether it is
             \* the file under the key that it has open, and whether nobody
             \* else was at work meanwhile (history)
  removal,   \* delete(): its step, and whether no put was at work (history)
  expect,    \* history: the object after the last answer, <<>> for none
  sure,      \* history: that is known
  gone       \* history: deleted when no URL was good any more

vars == <<driver, writer, expired, file, text, typed, put, removal, expect,
          sure, gone>>

Out == [pc |-> "out", size |-> 1, done |-> 0, open |-> FALSE, alone |-> FALSE]
Idle == [pc |-> "out", alone |-> FALSE]
Hole == None

TypeOK ==
  /\ driver \in {"s3", "local"} /\ writer \in {"app", "worker"}
  /\ {expired, file, typed, sure, gone} \subseteq BOOLEAN
  /\ Len(text) <= MaxSize /\ \A i \in DOMAIN text : text[i] \in Puts \cup {Hole}
  /\ ~file => text = <<>>
  /\ put \in [Puts -> [pc : {"out", "write", "type"}, size : 1 .. MaxSize,
                       done : 0 .. MaxSize, open : BOOLEAN,
                       alone : BOOLEAN]]
  /\ removal \in [pc : {"out", "file", "type"}, alone : BOOLEAN]

Init ==
  /\ driver \in {"s3", "local"} /\ writer \in {"app", "worker"}
  /\ expired = FALSE
  /\ file = FALSE /\ text = <<>> /\ typed = FALSE
  /\ put = [p \in Puts |-> Out] /\ removal = Idle
  /\ expect = <<>> /\ sure = TRUE /\ gone = FALSE

-----------------------------------------------------------------------------
Local == driver = "local"
AtWork == {p \in Puts : put[p].pc # "out"}
Body(p) == [i \in 1 .. put[p].size |-> p]
Unlink == file' = FALSE /\ text' = <<>>
Promise(object) == expect' = object /\ sure' = TRUE
NoPromise == sure' = FALSE /\ UNCHANGED expect

(* head(), and what download() and a presigned GET bring. *)
Header == [size |-> Len(text), typed |-> file /\ typed]
Download == text

\* presignPut and presignGet: the only URL for the key is as old as the key.
Expire ==
  /\ writer = "app" /\ ~expired /\ expired' = TRUE
  /\ UNCHANGED <<driver, writer, file, text, typed, put, removal, expect,
                 sure, gone>>

(* verify: a URL that has expired opens nothing any more. *)
MayPut == writer = "app" => ~expired

(* On disk the file is made or, if it is there, opened and emptied. *)
PutBegin(p, size) ==
  /\ put[p].pc = "out" /\ MayPut
  /\ put' = [q \in Puts |->
       IF q = p THEN [pc |-> "write", size |-> size, done |-> 0,
                      open |-> Local, alone |-> AtWork = {} /\ removal = Idle]
       ELSE [put[q] EXCEPT !.alone = FALSE]]
  /\ removal' = [removal EXCEPT !.alone = FALSE]
  /\ IF Local THEN file' = TRUE /\ text' = <<>> ELSE UNCHANGED <<file, text>>
  /\ UNCHANGED <<driver, writer, expired, typed, expect, sure, gone>>

(* writeStream, or the copy of upload(): a chunk goes where the writer is, *)
(* wherever the end of the file is now.                                    *)
WithChunk(chunks, n, p) ==
  [i \in 1 .. (IF n > Len(chunks) THEN n ELSE Len(chunks)) |->
     IF i = n THEN p ELSE IF i <= Len(chunks) THEN chunks[i] ELSE Hole]

TooLong(p) == writer = "app" /\ put[p].done = Limit

Write(p) ==
  /\ Local /\ put[p].pc = "write"
  /\ put[p].done < put[p].size /\ ~TooLong(p)
  /\ text' = IF put[p].open THEN WithChunk(text, put[p].done + 1, p) ELSE text
  /\ put' = [put EXCEPT ![p].done = @ + 1]
  /\ UNCHANGED <<driver, writer, expired, file, typed, removal, expect, sure,
                 gone>>

\* The content type is written when the file is done.
Written(p) ==
  /\ Local /\ put[p].pc = "write" /\ put[p].done = put[p].size
  /\ put' = [put EXCEPT ![p].pc = "type"]
  /\ UNCHANGED <<driver, writer, expired, file, text, typed, removal, expect,
                 sure, gone>>

Typed(p) ==
  /\ Local /\ put[p].pc = "type"
  /\ typed' = TRUE
  /\ put' = [put EXCEPT ![p] = Out]
  /\ IF put[p].alone THEN Promise(Body(p)) ELSE NoPromise
  /\ UNCHANGED <<driver, writer, expired, file, text, removal, gone>>

\* A bucket takes a body of any size, with its type, once it has all of it.
Stored(p) ==
  /\ ~Local /\ put[p].pc = "write"
  /\ file' = TRUE /\ text' = Body(p) /\ typed' = TRUE
  /\ put' = [put EXCEPT ![p] = Out]
  /\ Promise(Body(p))
  /\ UNCHANGED <<driver, writer, expired, removal, gone>>

-----------------------------------------------------------------------------
\* Mutant: the file of a failed upload stays.
PutFailsOnly(p) ==
  /\ put[p].pc = "write"
  /\ put' = [put EXCEPT ![p] = Out]
  /\ IF ~Local THEN UNCHANGED <<expect, sure>>
     ELSE IF writer = "app" /\ put[p].alone THEN Promise(<<>>) ELSE NoPromise
  /\ UNCHANGED <<driver, writer, expired, file, text, typed, removal, gone>>

(* A body that is too long, a connection that breaks, a full disk.  The    *)
(* disk has lost the file by then, an earlier upload included; the app's   *)
(* is removed, a worker's copy stays as it is.  A bucket keeps what it had.*)
PutFails(p) ==
  /\ put[p].pc = "write"
  /\ IF Local /\ writer = "app"
     THEN /\ Unlink
          /\ put' = [q \in Puts |-> IF q = p THEN Out
                                    ELSE [put[q] EXCEPT !.open = FALSE]]
     ELSE put' = [put EXCEPT ![p] = Out] /\ UNCHANGED <<file, text>>
  /\ IF ~Local THEN UNCHANGED <<expect, sure>>
     ELSE IF writer = "app" /\ put[p].alone THEN Promise(<<>>) ELSE NoPromise
  /\ UNCHANGED <<driver, writer, expired, typed, removal, gone>>

\* The file stays where its type cannot be written.
TypeFails(p) ==
  /\ put[p].pc = "type"
  /\ put' = [put EXCEPT ![p] = Out]
  /\ NoPromise
  /\ UNCHANGED <<driver, writer, expired, file, text, typed, removal, gone>>

(* delete(): on disk the file and then its type.  Whoever writes the file  *)
(* goes on, into a file that has no name any more.                         *)
Delete ==
  /\ removal = Idle
  /\ removal' = [pc |-> "file", alone |-> AtWork = {}]
  /\ put' = [p \in Puts |-> [put[p] EXCEPT !.alone = FALSE]]
  /\ UNCHANGED <<driver, writer, expired, file, text, typed, expect, sure,
                 gone>>

Removed ==
  /\ removal' = Idle
  /\ typed' = FALSE
  /\ IF removal.alone \/ ~Local THEN Promise(<<>>) ELSE NoPromise
  /\ gone' = (gone \/ (expired /\ removal.alone))

DeleteFile ==
  /\ removal.pc = "file" /\ Unlink
  /\ put' = [p \in Puts |-> [put[p] EXCEPT !.open = FALSE]]
  /\ IF Local
     THEN /\ removal' = [removal EXCEPT !.pc = "type"]
          /\ UNCHANGED <<typed, expect, sure, gone>>
     ELSE Removed
  /\ UNCHANGED <<driver, writer, expired>>

DeleteType ==
  /\ removal.pc = "type" /\ Removed
  /\ UNCHANGED <<driver, writer, expired, file, text, put>>

(* DeleteObjects answers 200 with the keys that it could not delete: the   *)
(* answer is not looked at.  Or the call fails: the caller hears of it.    *)
DeleteFails ==
  /\ removal # Idle /\ removal' = Idle /\ NoPromise
  /\ UNCHANGED <<driver, writer, expired, file, text, typed, put, gone>>

(* The server dies; what the app sends to a bucket goes on. *)
Crash ==
  /\ AtWork # {} \/ removal # Idle
  /\ Local \/ writer = "worker"
  /\ put' = [p \in Puts |-> Out] /\ removal' = Idle
  /\ NoPromise
  /\ UNCHANGED <<driver, writer, expired, file, text, typed, gone>>

Next ==
  \/ \E p \in Puts :
       \/ \E size \in 1 .. MaxSize : PutBegin(p, size)
       \/ Write(p) \/ Written(p) \/ Typed(p) \/ Stored(p)
       \/ PutFails(p) \/ TypeFails(p)
  \/ Expire \/ Delete \/ DeleteFile \/ DeleteType \/ DeleteFails \/ Crash

Spec == Init /\ [][Next]_vars

-----------------------------------------------------------------------------
(* At rest the key holds what the last answer says: the whole body of an   *)
(* upload that was alone (on disk) or last (in a bucket), with its type,   *)
(* or nothing once it failed or was deleted.  A bucket never shows a part  *)
(* of a body, and what is deleted when no URL is good and no upload under  *)
(* way any more does not come back: cleanupStaleUploads counts on it.      *)
ObjectsHold ==
  /\ AtWork = {} /\ removal = Idle /\ sure =>
       /\ Download = expect
       /\ expect # <<>> => Header.typed
  /\ driver = "s3" => Header.size = 0 \/ \E p \in Puts, n \in 1 .. MaxSize :
                                         Download = [i \in 1 .. n |-> p]
  /\ gone => ~file

=============================================================================
