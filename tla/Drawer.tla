------------------------------- MODULE Drawer -------------------------------
(***************************************************************************)
(* The order inside one user's drawer (ShelfService): tapes and the groups *)
(* ("compartments") they lie in carry position keys, and a move writes one *)
(* key, computed from two neighbours that are read without a lock.         *)
(* Requests of the user's devices and arrivals of new tapes interleave     *)
(* between the statements of their transactions.                           *)
(*                                                                         *)
(* A tape and a group are both a thing with a place; the numbers of things *)
(* are the order of sent_at and of created_at.                             *)
(***************************************************************************)
EXTENDS Position, FiniteSets, FiniteSetsExt, SequencesExt

CONSTANTS
  Requests,   \* concurrent requests
  Items,      \* tapes that may arrive, numbered by sent_at
  Groups,     \* groups that may be made, numbered by created_at
  Filled,     \* what lies in the drawer at first, placed one by one
  FilledIn,   \* the group in which a tape lies at first
  Width,      \* digits that fit the column after the integer part
  MaxWrites,  \* bound on the transactions that write
  None        \* SQL NULL: the unsorted part of the drawer

DrawerAssumption ==
  /\ Items \cup Groups \subseteq Nat /\ Items \cap Groups = {}
  /\ IsFiniteSet(Items) /\ IsFiniteSet(Groups) /\ NoKey \notin Key
  /\ Width \in Nat /\ MaxWrites \in Nat
  /\ None \notin Items \cup Groups /\ Filled \subseteq Items \cup Groups
  /\ FilledIn \in [Items \cap Filled -> (Groups \cap Filled) \cup {None}]

VARIABLES
  live,    \* tapes that are visible, groups that exist
  gone,    \* things that were deleted
  group,   \* deliveries.group_id
  opened,  \* tapes with opened_at
  pos,     \* position
  writes,  \* transactions that wrote so far
  missed,  \* history: what was written while the place of a thing was chosen
  req      \* what each request is doing, and its local variables

vars == <<live, gone, group, opened, pos, writes, missed, req>>

Things == Items \cup Groups

Idle == [pc |-> "idle", x |-> None, to |-> None, after |-> None,
         lo |-> NoKey, hi |-> NoKey, order |-> <<>>, rows |-> {},
         groups |-> {}, missed |-> {}]
Task(pc, x) == [Idle EXCEPT !.pc = pc, !.x = x]

Request ==
  [pc : {"idle", "next", "write", "last", "empty", "shelf-groups",
         "shelf-items", "answer"},
   x : Things \cup {None}, to : Groups \cup {None}, after : Things \cup {None},
   lo : Key \cup {NoKey}, hi : Key \cup {NoKey}, order : Seq(Items),
   rows : SUBSET (Items \X (Groups \cup {None})), groups : SUBSET Groups,
   missed : SUBSET Things]

TypeOK ==
  /\ live \subseteq Things /\ gone \subseteq Things \ live
  /\ group \in [Items -> (Groups \cap live) \cup {None}]
  /\ opened \subseteq Items
  /\ pos \in [Things -> Key]
  /\ \A t \in Things : Len(pos[t].frac) <= Width
  /\ writes \in 0 .. MaxWrites
  /\ missed \in [Things -> SUBSET Things]
  /\ req \in [Requests -> Request]

Init ==
  /\ live = Filled /\ gone = {} /\ opened = Items \cap Filled
  /\ group = [i \in Items |-> IF i \in Filled THEN FilledIn[i] ELSE None]
  /\ pos = [t \in Things |->
              LET older == {s \in Filled : s < t}
              IN  IF t \notin Filled THEN Whole(0)
                  ELSE IF t \in Items
                  THEN Whole(0 - Cardinality(older \cap Items))
                  ELSE Whole(Cardinality(older \cap Groups))]
  /\ writes = 0
  /\ missed = [t \in Things |-> {}]
  /\ req = [p \in Requests |-> Idle]

-----------------------------------------------------------------------------
(* Lists and their edges. *)

Visible == live \cap Items
Standing == live \cap Groups
InGroup(g) == {i \in Visible : group[i] = g}

(* The list that the thing x is put into: the groups, or the tapes of to. *)
Peers(x, to) == (IF x \in Groups THEN Standing ELSE InGroup(to)) \ {x}

Lowest(S) == CHOOSE k \in S : \A l \in S : ~Less(l, k)
Highest(S) == CHOOSE k \in S : \A l \in S : ~Less(k, l)
FirstKey(S) == IF S = {} THEN NoKey ELSE Lowest({pos[t] : t \in S})
LastKey(S)  == IF S = {} THEN NoKey ELSE Highest({pos[t] : t \in S})

NextKey(S, lo) == FirstKey({t \in S : lo # NoKey => Less(lo, pos[t])})

(* The order of visibleItems: position, then sent_at descending. *)
TapeBefore(i, j) == Less(pos[i], pos[j]) \/ (pos[i] = pos[j] /\ i > j)
Listed(S) ==
  [n \in 1 .. Cardinality(S) |->
     CHOOSE i \in S : Cardinality({j \in S : TapeBefore(j, i)}) = n - 1]

(* Row locks held until the commit: FOR UPDATE on a moved tape, on a       *)
(* changed group and on a group that is being deleted.                     *)
Unlocked(x) ==
  \A q \in Requests :
    req[q].x = x => req[q].pc \notin {"next", "write", "last", "empty"}

\* Mutant: the group of a tape may be deleted while the tape is put into it.
GroupIgnored(p) == p \in Requests

(* The foreign-key check of a tape put into another group waits for the    *)
(* lock on that group and fails when it is gone.                           *)
GroupReady(p) ==
  LET r == req[p]
  IN  r.x \in Items /\ r.to # None /\ r.to # group[r.x]
        => r.to \in live /\ Unlocked(r.to)

(* Everybody who is choosing a place did not see this write. *)
Wrote(S, next) ==
  req' = [q \in Requests |->
            IF next[q].pc = "idle" THEN Idle
            ELSE [next[q] EXCEPT !.missed = @ \cup S]]
Done(p) == [req EXCEPT ![p] = Idle]

Goto(p, r) == /\ req' = [req EXCEPT ![p] = r]
              /\ UNCHANGED <<live, gone, group, opened, pos, writes, missed>>
Start(p, r) == req[p].pc = "idle" /\ Goto(p, r)
At(p, pc) == req[p].pc = pc

-----------------------------------------------------------------------------
(* Choosing a place. *)

Fresh(S) == {t \in S \ (live \cup gone) :
               \A q \in Requests : req[q].x # t}

(* A tape is sent to the user, or its link is claimed: topOfUnsortedKey. *)
Arrive(p) ==
  /\ Fresh(Items) # {}
  /\ Start(p, [Task("write", Min(Fresh(Items))) EXCEPT
                 !.hi = FirstKey(InGroup(None))])

CreateGroup(p) ==
  /\ Fresh(Groups) # {}
  /\ Start(p, [Task("write", Min(Fresh(Groups))) EXCEPT
                 !.lo = LastKey(Standing)])

(* moveItem locks the tape and updateGroup locks the group; each reads the *)
(* position it has to follow, and then the next one in that list.  An      *)
(* afterId that is not in the list is answered with 404.                   *)
Place(p, x, to, after) ==
  /\ Unlocked(x) /\ after \in Peers(x, to) \cup {None}
  /\ Start(p, IF after = None
              THEN [Task("write", x) EXCEPT !.to = to,
                      !.hi = FirstKey(Peers(x, to))]
              ELSE [Task("next", x) EXCEPT !.to = to, !.after = after,
                      !.lo = pos[after]])

MoveItem(p, i, to, after) ==
  /\ i \in Visible
  /\ to # None => to \in live /\ i \in opened
  /\ Place(p, i, to, after)

UpdateGroup(p, g, after) == g \in Standing /\ Place(p, g, None, after)

ReadNext(p) ==
  LET r == req[p]
  IN  /\ At(p, "next")
      /\ Goto(p, [r EXCEPT !.pc = "write",
                           !.hi = NextKey(Peers(r.x, r.to), r.lo)])

NewKey(p) == KeyBetween(req[p].lo, req[p].hi)

(* The INSERT or UPDATE, and the commit. *)
Write(p) ==
  LET r == req[p]
  IN  /\ At(p, "write")
      /\ writes < MaxWrites
      /\ GroupReady(p)
      /\ Len(NewKey(p).frac) <= Width
      /\ pos' = [pos EXCEPT ![r.x] = NewKey(p)]
      /\ live' = live \cup {r.x}
      /\ group' = IF r.x \in Items THEN [group EXCEPT ![r.x] = r.to] ELSE group
      /\ missed' = [missed EXCEPT ![r.x] = r.missed]
      /\ writes' = writes + 1
      /\ Wrote({r.x}, Done(p))
      /\ UNCHANGED <<gone, opened>>

(* The answer is sent; or the key is too long for its column, the group is *)
(* gone or the process died, and the transaction is rolled back.           *)
End(p) == req[p].pc # "idle" /\ Goto(p, Idle)

-----------------------------------------------------------------------------
(* Groups deleted, tapes opened and deleted. *)

DeleteGroup(p, g) ==
  /\ g \in Standing /\ Unlocked(g)
  /\ Start(p, [Task("last", g) EXCEPT
                 !.order = Listed(InGroup(g))])

ReadLast(p) ==
  /\ At(p, "last")
  /\ Goto(p, [req[p] EXCEPT !.pc = "empty", !.lo = LastKey(InGroup(None))])

(* A deleted row of shelf_groups, a delivery with deleted_at: its position *)
(* is never read again.                                                    *)
Discard(x, place, history) ==
  /\ writes < MaxWrites
  /\ live' = live \ {x}
  /\ gone' = gone \cup {x}
  /\ pos' = [place EXCEPT ![x] = Whole(0)]
  /\ missed' = [history EXCEPT ![x] = {}]

(* The tapes that were read go to the end of the unsorted part, one row    *)
(* after the other; a tape that is locked by a move makes it wait.         *)
EmptyGroup(p) ==
  LET r == req[p]
      moved == Range(r.order)
      keys == KeysAfter(r.lo, Len(r.order))
  IN  /\ At(p, "empty")
      /\ \A i \in moved : Unlocked(i)
      /\ Discard(r.x,
                [t \in Things |->
                   IF t \in moved \cap live
                   THEN keys[CHOOSE n \in DOMAIN keys : r.order[n] = t]
                   ELSE pos[t]],
                [t \in Things |-> IF t \in moved \cap live THEN r.missed
                                                           ELSE missed[t]])
      /\ group' = [i \in Items |-> IF i \in moved THEN None ELSE group[i]]
      /\ opened' = opened \cup moved
      /\ writes' = writes + 1
      /\ Wrote(moved \cup {r.x}, Done(p))

Open(i) ==
  /\ i \in Visible \ opened /\ Unlocked(i)
  /\ writes < MaxWrites /\ writes' = writes + 1
  /\ opened' = opened \cup {i}
  /\ UNCHANGED <<live, gone, group, pos, missed, req>>

DeleteItem(i) ==
  /\ i \in Visible /\ Unlocked(i)
  /\ Discard(i, pos, missed)
  /\ group' = [group EXCEPT ![i] = None]
  /\ writes' = writes + 1
  /\ Wrote({i}, req)
  /\ UNCHANGED opened

-----------------------------------------------------------------------------
(* getShelf: groups and tapes are read by two queries that run at once, so *)
(* in either order.                                                        *)

VisibleItems == {<<i, group[i]>> : i \in Visible}

ShelfGroupsFirst(p) ==
  Start(p, [Task("shelf-items", None) EXCEPT !.groups = Standing])
ShelfItemsFirst(p) ==
  Start(p, [Task("shelf-groups", None) EXCEPT !.rows = VisibleItems])
ShelfItems(p) ==
  /\ At(p, "shelf-items")
  /\ Goto(p, [req[p] EXCEPT !.pc = "answer", !.rows = VisibleItems])
ShelfGroups(p) ==
  /\ At(p, "shelf-groups")
  /\ Goto(p, [req[p] EXCEPT !.pc = "answer", !.groups = Standing])

(* stored counts every row; a tape is shown in its group or as unsorted. *)
Stored(r) == {t[1] : t \in r.rows}
Shown(r) == {t[1] : t \in {s \in r.rows : s[2] \in r.groups \cup {None}}}

(* The order of the tapes in the drawer as getShelf lists it: group after  *)
(* group, what is unsorted last.                                           *)
GroupBefore(g, h) == Less(pos[g], pos[h]) \/ (pos[g] = pos[h] /\ g < h)
ShelfBefore(i, j) ==
  LET g == group[i]
      h == group[j]
  IN  IF g = h THEN TapeBefore(i, j)
      ELSE g # None /\ (h = None \/ GroupBefore(g, h))

\* Mutant: the groups are not compared.
PlayedUngrouped(i, j) == TapeBefore(i, j)

(* The queue "play all" of tapesFrom: sorted by the key of the group only, *)
(* and stable.                                                             *)
PlayedBefore(i, j) ==
  LET g == group[i]
      h == group[j]
  IN  IF g = h \/ (g # None /\ h # None /\ pos[g] = pos[h])
      THEN TapeBefore(i, j)
      ELSE g # None /\ (h = None \/ Less(pos[g], pos[h]))

-----------------------------------------------------------------------------
Next ==
  \/ \E p \in Requests :
       \/ Arrive(p) \/ CreateGroup(p)
       \/ \E i \in Items, to \in Groups \cup {None}, a \in Items \cup {None} :
            MoveItem(p, i, to, a)
       \/ \E g \in Groups, a \in Groups \cup {None} : UpdateGroup(p, g, a)
       \/ ReadNext(p) \/ Write(p) \/ End(p)
       \/ \E g \in Groups : DeleteGroup(p, g)
       \/ ReadLast(p) \/ EmptyGroup(p)
       \/ ShelfGroupsFirst(p) \/ ShelfItemsFirst(p)
       \/ ShelfItems(p) \/ ShelfGroups(p)
  \/ \E i \in Items : Open(i) \/ DeleteItem(i)

Spec == Init /\ [][Next]_vars

-----------------------------------------------------------------------------
(* Properties. *)

Placing(p) == At(p, "write")
Together(x, y) ==
  \/ {x, y} \subseteq Standing
  \/ {x, y} \subseteq Visible /\ group[x] = group[y]

(* Two things of one list share a place only when the requests that placed *)
(* them overlapped (keyBetween of the same two neighbours, shelf.service   *)
(* .ts:241); a place chosen after another was written never collides.      *)
TiesAreRaces ==
  \A x, y \in live :
    x # y /\ Together(x, y) /\ pos[x] = pos[y]
      => x \in missed[y] \/ y \in missed[x]

(* "Play all" of a friend (tapesFrom) goes through the drawer in the order *)
(* in which getShelf shows it (docs/api.md:525), except between groups     *)
(* that overlapping requests gave one key: those it interleaves.           *)
PlayOrderIsDrawerOrder ==
  \A i, j \in Visible \cap opened :
    i # j => \/ PlayedBefore(i, j) <=> ShelfBefore(i, j)
             \/ /\ {group[i], group[j]} \subseteq Groups
                /\ group[i] \in missed[group[j]] \/ group[j] \in missed[group[i]]

(* A tape or a group that is moved "after" another while nothing else      *)
(* moves lands directly behind it (docs/api.md:675), or at the front, with *)
(* only what shares the place of that neighbour in between.                *)
LandsAfter ==
  \A p \in Requests :
    LET r == req[p]
    IN  Placing(p) /\ r.x \in live /\ r.missed = {} =>
          \A t \in Peers(r.x, r.to) :
            IF t = r.after THEN Less(pos[t], NewKey(p))
            ELSE \/ Less(NewKey(p), pos[t])
                 \/ r.after # None /\ ~Less(pos[r.after], pos[t])

(* The room of the column is used up one digit at a time, and only in the  *)
(* gap itself (FitsBetween), whatever was written since the neighbours     *)
(* were read; at either end of a list a key is whole, so that neither an   *)
(* arriving tape nor a new group is ever refused for lack of room.         *)
RoomLasts ==
  \A p \in Requests : Placing(p) => FitsBetween(req[p].lo, req[p].hi)

(* Every tape the answer of getShelf counts is shown in it, unless another *)
(* request moved that tape between the two queries.                        *)
ShelfShowsAll ==
  \A p \in Requests :
    At(p, "answer") => Stored(req[p]) \ Shown(req[p]) \subseteq req[p].missed

=============================================================================
