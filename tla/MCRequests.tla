----------------------------- MODULE MCRequests -----------------------------
(* The keys and the order of a drawer, the pages of a list, the reports of *)
(* a user, and the checks of receipts and tokens, each against requests    *)
(* that overlap, in one run: they share no state, so a behaviour is one of *)
(* one part, chosen at the start, and the others stay as they were.  The   *)
(* part "keys" has no steps: its initial states are the inputs.            *)
EXTENDS TLC, Sequences, Integers

CONSTANTS
  Requests, None,
  Base, NoKey, Items, Groups, Filled, FilledIn, Width, MaxWrites,
  Rows, Limit, Instants, Grain,
  Persons, Parcels, Friends, SenderOf, DailyLimit, Window, Retention, MaxNow,
  MaxKey, Faults,
  MaxWhole, MaxDigits

VARIABLES
  part,
  live, gone, group, opened, pos, writes, missed, req,
  list, now, stamp, stored, reader,
  day, here, members, friends, parcels, reports, blocked, told, holder, report,
  configured, newest, cache, certs, call, faults,
  gap

Drw == INSTANCE Drawer
Pag == INSTANCE Paging
Rep == INSTANCE Reports WITH now <- day, req <- report, Nobody <- None
Ver == INSTANCE Verifiers WITH req <- call

drawerVars == <<live, gone, group, opened, pos, writes, missed, req>>
pagingVars == <<list, now, stamp, stored, reader>>
reportVars == <<day, here, members, friends, parcels, reports, blocked, told,
                holder, report>>
verifierVars == <<configured, newest, cache, certs, call, faults>>
vars == <<part, drawerVars, pagingVars, reportVars, verifierVars, gap>>

(* Neighbours between which a key is to be found, as moves leave them. *)
Fractions == {f \in UNION {[1 .. n -> Drw!Digits] : n \in 0 .. MaxDigits} :
                f # <<>> => f[Len(f)] # 0}
Neighbours == {NoKey} \cup [int : 0 .. MaxWhole, frac : Fractions]
Gaps == {g \in Neighbours \X Neighbours : Drw!Below(g[1], g[2])}

MCFilledIn == [i \in Filled \cap Items |-> IF i = 1 THEN 11 ELSE None]
MCSenderOf == [d \in Parcels |-> CHOOSE u \in Persons : TRUE]
Symmetry == Permutations(Requests)

ASSUME PartsAssumption ==
  /\ Drw!BaseAssumption /\ Drw!DrawerAssumption
  /\ Pag!PagingAssumption /\ Rep!ReportsAssumption
  /\ Ver!VerifiersAssumption

Init == /\ part \in {"drawer", "paging", "reports", "verifiers", "keys"}
        /\ Drw!Init /\ Pag!Init /\ Rep!Init /\ Ver!Init
        /\ part # "paging" => list = "sent"
        /\ part # "verifiers" => configured
        /\ gap \in IF part = "keys" THEN Gaps ELSE {<<NoKey, NoKey>>}

Next ==
  /\ UNCHANGED <<part, gap>>
  /\ \/ /\ part = "drawer" /\ Drw!Next
        /\ UNCHANGED <<pagingVars, reportVars, verifierVars>>
     \/ /\ part = "paging" /\ Pag!Next
        /\ UNCHANGED <<drawerVars, reportVars, verifierVars>>
     \/ /\ part = "reports" /\ Rep!Next
        /\ UNCHANGED <<drawerVars, pagingVars, verifierVars>>
     \/ /\ part = "verifiers" /\ Ver!Next
        /\ UNCHANGED <<drawerVars, pagingVars, reportVars>>

Spec == Init /\ [][Next]_vars

(* Every variable of the four parts keeps its type: a key fits its column  *)
(* and a tape lies in a group that exists, pages are of rows, and the lock *)
(* of the reports is held by whoever is between Lock and the commit.       *)
TypeOK == Drw!TypeOK /\ Pag!TypeOK /\ Rep!TypeOK /\ Ver!TypeOK

(* The order of the drawer (ShelfService): only requests that overlapped   *)
(* give two things one place, and "play all" follows the order shown.      *)
DrawerOrderHolds == Drw!TiesAreRaces /\ Drw!PlayOrderIsDrawerOrder

(* A move lands where it was asked to, between neighbours that are in      *)
(* order, and takes a digit of the gap's room at most: for those of the    *)
(* drawer, and for every two keys of the part "keys" (keyBetween).         *)
MovesLand ==
  /\ Drw!LandsAfter /\ Drw!RoomLasts
  /\ part = "keys" => Drw!FitsBetween(gap[1], gap[2])

(* What reads a list misses nothing that was there: getShelf with its two  *)
(* queries, and listSent and listLedger with their cursors, but for the    *)
(* rows of the ledger that share a millisecond.                            *)
ReadsShowAll == Drw!ShelfShowsAll /\ Pag!PagesShowAll

(* Reports (ReportsService.create) keep to their limits however many are   *)
(* sent at once, and an answered report and its block are on record.       *)
ReportsHold == Rep!LimitsHold /\ Rep!AnswersAreReal

(* A receipt, callback or token is refused, accepted or answered with 503  *)
(* for a cause of its own (AdmobService, AppStoreService, ...).            *)
VerdictsHaveCauses == Ver!VerdictsHaveCauses

=============================================================================
