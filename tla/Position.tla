------------------------------ MODULE Position ------------------------------
(***************************************************************************)
(* Position keys of the drawer (fractional indexing): an integer part,     *)
(* whose encoding sorts as a string the way integers do, and a fraction,   *)
(* a string of digits without a trailing zero.  A new key between two      *)
(* others never changes them.                                              *)
(***************************************************************************)
EXTENDS Integers, Sequences

CONSTANTS
  Base,    \* digits of a key (62 in the program)
  NoKey    \* null: no neighbour on that side

BaseAssumption == Base \in Nat /\ Base > 1

Digits == 0 .. Base - 1
Fraction == {f \in Seq(Digits) : f # <<>> => f[Len(f)] # 0}
Key == [int : Int, frac : Fraction]
Whole(n) == [int |-> n, frac |-> <<>>]

FirstDigit(f) == IF f = <<>> THEN 0 ELSE f[1]
Rest(f) == IF f = <<>> THEN <<>> ELSE Tail(f)

(* String order, COLLATE "C". *)
FracLess(a, b) ==
  \E i \in 1 .. Len(b) : /\ \A j \in 1 .. i - 1 : j <= Len(a) /\ a[j] = b[j]
                         /\ i > Len(a) \/ a[i] < b[i]
Less(a, b) == a.int < b.int \/ (a.int = b.int /\ FracLess(a.frac, b.frac))

(* The fraction half-way from a to 1, and half-way from a to b. *)
Above[a \in Seq(Digits)] ==
  IF Base - FirstDigit(a) > 1
  THEN <<(FirstDigit(a) + Base + 1) \div 2>>
  ELSE <<a[1]>> \o Above[Tail(a)]

Midpoint[ab \in Seq(Digits) \X Seq(Digits)] ==
  LET a == ab[1]
      b == ab[2]
      x == FirstDigit(a)
      y == b[1]
  IN  IF x = y /\ Len(b) > 1 THEN <<y>> \o Midpoint[<<Rest(a), Tail(b)>>]
      ELSE IF y - x > 1 THEN <<(x + y + 1) \div 2>>
      ELSE IF Len(b) > 1 THEN <<y>>
      ELSE <<x>> \o Above[Rest(a)]

\* Mutant: the fraction of the upper neighbour is cut off without looking
\* whether its integer still lies above the lower one.
KeyBetweenShort(a, b) ==
  CASE a = NoKey /\ b = NoKey -> Whole(0)
    [] a = NoKey /\ b # NoKey -> Whole(b.int)
    [] a # NoKey /\ b = NoKey -> Whole(a.int + 1)
    [] OTHER -> IF a.int = b.int
                THEN [int |-> a.int, frac |-> Midpoint[<<a.frac, b.frac>>]]
                ELSE Whole(b.int)

KeyBetween(a, b) ==
  CASE a = NoKey /\ b = NoKey -> Whole(0)
    [] a = NoKey /\ b # NoKey -> IF b.frac = <<>> THEN Whole(b.int - 1)
                                                  ELSE Whole(b.int)
    [] a # NoKey /\ b = NoKey -> Whole(a.int + 1)
    [] OTHER -> IF a.int = b.int
                THEN [int |-> a.int, frac |-> Midpoint[<<a.frac, b.frac>>]]
                ELSE IF Less(Whole(a.int + 1), b) THEN Whole(a.int + 1)
                ELSE [int |-> a.int, frac |-> Above[a.frac]]

(* n keys after a, none above the last of them. *)
KeysAfter(a, n) ==
  [i \in 1 .. n |-> Whole((IF a = NoKey THEN 0 - 1 ELSE a.int) + i)]

-----------------------------------------------------------------------------
Below(a, b) == a = NoKey \/ b = NoKey \/ Less(a, b)

(* What keyBetween promises of two neighbours that are in order: the key   *)
(* lies between them, does not end in zero and is at most a digit longer   *)
(* than they are; and it takes a whole number wherever one fits in, so     *)
(* that room is only used up between two of them.                          *)
FitsBetween(a, b) ==
  LET k == KeyBetween(a, b)
  IN  /\ k \in Key
      /\ a # NoKey => Less(a, k)
      /\ b # NoKey => Less(k, b)
      /\ IF a = NoKey \/ b = NoKey THEN k.frac = <<>>
         ELSE /\ Len(k.frac) <= 1 + Len(a.frac) \/ Len(k.frac) <= 1 + Len(b.frac)
              /\ (\E n \in a.int .. b.int : Less(a, Whole(n)) /\ Less(Whole(n), b))
                   => k.frac = <<>>

=============================================================================
