------------------------------- MODULE Paging -------------------------------
(***************************************************************************)
(* Reading a list page by page, newest first: the credit ledger            *)
(* (listLedger) and the sent tapes (listSent).  The cursor is the time and *)
(* the id of the last row of a page.  A row gets its time when its         *)
(* transaction begins and is seen when it commits, in any order.  sent_at  *)
(* is a Date of the program, in milliseconds; created_at is a timestamp of *)
(* the database, in microseconds, of which the cursor keeps milliseconds.  *)
(***************************************************************************)
EXTENDS Integers, FiniteSets, FiniteSetsExt, SequencesExt

CONSTANTS
  Rows,     \* ids of the rows; they sort as numbers
  Limit,    \* rows of a page
  Instants, \* last instant of the model (bound)
  Grain     \* instants of the database in one millisecond

PagingAssumption ==
  Rows \subseteq Nat /\ IsFiniteSet(Rows) /\ Limit \in Nat \ {0} /\ Instants \in Nat
    /\ Grain \in Nat \ {0}

VARIABLES
  list,    \* which list is read: its times are exact or not
  now,
  stamp,   \* time of a row, NoTime before its transaction begins
  stored,  \* rows that are committed
  reader   \* the pages read so far

vars == <<list, now, stamp, stored, reader>>

NoTime == 0 - 1
Milli(t) == t - (t % Grain)
Clock == IF list = "sent" THEN Milli(now) ELSE now

Start == [pages |-> <<>>, first |-> {}, done |-> FALSE]

TypeOK ==
  /\ list \in {"sent", "ledger"}
  /\ now \in 0 .. Instants
  /\ stamp \in [Rows -> {NoTime} \cup 0 .. Instants]
  /\ stored \subseteq {r \in Rows : stamp[r] # NoTime}
  /\ reader.pages \in Seq(Seq(Rows)) /\ reader.first \subseteq Rows
  /\ reader.done \in BOOLEAN

Init ==
  /\ list \in {"sent", "ledger"}
  /\ now = 0 /\ stamp = [r \in Rows |-> NoTime] /\ stored = {}
  /\ reader = Start

-----------------------------------------------------------------------------
Tick == /\ now < Instants /\ now' = now + 1
        /\ UNCHANGED <<list, stamp, stored, reader>>

BeginRow(r) == /\ stamp[r] = NoTime
               /\ stamp' = [stamp EXCEPT ![r] = Clock]
               /\ UNCHANGED <<list, now, stored, reader>>

CommitRow(r) == /\ stamp[r] # NoTime /\ r \notin stored
                /\ stored' = stored \cup {r}
                /\ UNCHANGED <<list, now, stamp, reader>>

(* ORDER BY time DESC, id DESC *)
Newer(r, s) == stamp[r] > stamp[s] \/ (stamp[r] = stamp[s] /\ r > s)
NewestFirst(S) ==
  [n \in 1 .. Cardinality(S) |->
     CHOOSE r \in S : Cardinality({s \in S : Newer(s, r)}) = n - 1]

Shown == {r \in Rows : \E n \in DOMAIN reader.pages :
                         r \in Range(reader.pages[n])}
LastRow == Last(Last(reader.pages))

\* Mutant: a cursor that compares the times only.
BelowCursorTime(r) == stamp[r] < Milli(stamp[LastRow])

(* (time, id) < (cursor.at, cursor.id) *)
BelowCursor(r) ==
  \/ stamp[r] < Milli(stamp[LastRow])
  \/ stamp[r] = Milli(stamp[LastRow]) /\ r < LastRow

(* One row more than the page is read to see whether there is a next one. *)
ReadPage ==
  LET found == NewestFirst(IF reader.pages = <<>> THEN stored
                           ELSE {r \in stored : BelowCursor(r)})
  IN  /\ ~reader.done
      /\ reader' = [pages |-> Append(reader.pages,
                                SubSeq(found, 1, Min({Limit, Len(found)}))),
                    first |-> IF reader.pages = <<>> THEN stored
                              ELSE reader.first,
                    done |-> Len(found) <= Limit]
      /\ UNCHANGED <<list, now, stamp, stored>>

(* The app reads the list again from the top. *)
Restart == /\ reader # Start
           /\ reader' = Start
           /\ UNCHANGED <<list, now, stamp, stored>>

Next == \/ Tick \/ ReadPage \/ Restart
        \/ \E r \in Rows : BeginRow(r) \/ CommitRow(r)

Spec == Init /\ [][Next]_vars

-----------------------------------------------------------------------------
LastRows == {Last(reader.pages[n]) : n \in
               {n \in DOMAIN reader.pages : reader.pages[n] # <<>>}}

(* Reading to the end shows every row that was there at the start, and no  *)
(* row twice, whatever commits meanwhile; in the ledger, rows that share   *)
(* the millisecond of the last row of a page may be skipped, because the   *)
(* cursor of wallet.service.ts:138 is coarser than created_at.             *)
PagesShowAll ==
  /\ \A m, n \in DOMAIN reader.pages :
       m # n => Range(reader.pages[m]) \cap Range(reader.pages[n]) = {}
  /\ reader.done =>
       \A r \in reader.first \ Shown :
         /\ list = "ledger"
         /\ \E l \in LastRows : Milli(stamp[r]) = Milli(stamp[l])

=============================================================================
