------------------------- MODULE IdempotencyProofs -------------------------
(***************************************************************************)
(* For every number of copies of a request, sent at once or later, and     *)
(* wherever they fail or crash: one of them runs at a time, success is     *)
(* only reported of what happened, and a stored answer stays.              *)
(***************************************************************************)
EXTENDS Idempotency, FiniteSetTheorems, TLAPS

Holding == {"run", "reply", "complete", "abort"}

(* What a session has, by its program counter. *)
Local(s) ==
  /\ s.pc = "idle" => s.key = None
  /\ s.pc # "idle" => s.key \in Keys /\ s.body \in Bodies
  /\ s.pc \in {"reply", "complete"} =>
       s.answer \in Results /\ <<s.key, s.body>> \in effects
  /\ s.pc = "abort" => s.answer \in Answers \ Results

LocalsOK == \A p \in Sessions : Local(sess[p])

(* A session past begin() holds its key: the record is the one it wrote,   *)
(* and nobody else holds it.                                               *)
KeyHeld ==
  \A p \in Sessions : sess[p].pc \in Holding =>
    /\ record[sess[p].key] = [body |-> sess[p].body, result |-> None]
    /\ \A q \in Sessions :
         sess[q].pc \in Holding /\ sess[q].key = sess[p].key => q = p

(* What is stored as an answer is true. *)
StoredIsReal ==
  \A k \in Keys : record[k] # None /\ record[k].result # None =>
    <<k, record[k].body>> \in effects

IInv == TypeOK /\ LocalsOK /\ KeyHeld /\ StoredIsReal /\ SuccessIsReal

-----------------------------------------------------------------------------

LEMMA InitOK == Init => IInv
  BY NoneAssumption
  DEF Init, IInv, TypeOK, LocalsOK, Local, KeyHeld, StoredIsReal, Holding,
      SuccessIsReal, Idle, Session, PCs

(* A statement of one session: the others keep what they have.             *)
LEMMA TypeStep == TypeOK /\ LocalsOK /\ [Next]_vars => TypeOK'
  <1> SUFFICES ASSUME TypeOK, LocalsOK, [Next]_vars PROVE TypeOK'
    OBVIOUS
  <1> USE DEF TypeOK, Session, PCs, Answers, Outcomes, Results, Idle, Row
  <1>1. ASSUME NEW p \in Sessions, NEW k \in Keys, NEW b \in Bodies,
               Begin(p, k, b)
        PROVE  TypeOK'
    BY <1>1 DEF Begin
  <1>2. ASSUME NEW p \in Sessions, Lookup(p) PROVE TypeOK'
    BY <1>2 DEF Lookup, Reply, LocalsOK, Local, At
  <1>3. ASSUME NEW p \in Sessions, Handle(p) PROVE TypeOK'
    BY <1>3 DEF Handle, Goto, LocalsOK, Local, At
  <1>4. ASSUME NEW p \in Sessions, MakeReply(p) PROVE TypeOK'
    BY <1>4 DEF MakeReply, Goto
  <1>5. ASSUME NEW p \in Sessions, Complete(p) PROVE TypeOK'
    <2> DEFINE k == sess[p].key
    <2>1. k \in Keys /\ sess[p].body \in Bodies /\ sess[p].answer \in Results
      BY <1>5 DEF Complete, LocalsOK, Local, At
    <2>2. record' \in [Keys -> Row \cup {None}]
      BY <1>5, <2>1 DEF Complete
    <2>3. /\ sess' \in [Sessions -> Session] /\ effects' = effects
          /\ answers' \subseteq Keys \X Bodies \X Outcomes
      BY <1>5, <2>1 DEF Complete, Goto, Reply
    <2> QED BY <2>2, <2>3
  <1>6. ASSUME NEW p \in Sessions, Abort(p) PROVE TypeOK'
    BY <1>6 DEF Abort, Reply, LocalsOK, Local, At
  <1>7. ASSUME NEW p \in Sessions, Crash(p) PROVE TypeOK'
    BY <1>7 DEF Crash
  <1>8. ASSUME NEW k \in Keys, Expire(k) PROVE TypeOK'
    BY <1>8 DEF Expire
  <1>9. CASE UNCHANGED vars
    BY <1>9 DEF vars
  <1> QED BY <1>1, <1>2, <1>3, <1>4, <1>5, <1>6, <1>7, <1>8, <1>9
          DEF Next, Continue

LEMMA SessionsOK == IInv /\ [Next]_vars => LocalsOK' /\ KeyHeld'
  <1> SUFFICES ASSUME IInv, [Next]_vars PROVE LocalsOK' /\ KeyHeld'
    OBVIOUS
  <1> USE DEF IInv, TypeOK, LocalsOK, Local, KeyHeld, Holding, At
  <1>1. ASSUME NEW p \in Sessions, NEW k \in Keys, NEW b \in Bodies,
               Begin(p, k, b)
        PROVE  LocalsOK' /\ KeyHeld'
    <2>1. CASE record[k] = None
      <3>1. ASSUME NEW q \in Sessions, sess[q].pc \in Holding, sess[q].key = k
            PROVE  FALSE
        <4>1. record[k] = [body |-> sess[q].body, result |-> None]
          BY <3>1
        <4>2. sess[q].body \in Bodies
          BY <3>1
        <4>3. [body |-> sess[q].body, result |-> None] \in Row
          BY <4>2 DEF Row
        <4> QED BY <2>1, <4>1, <4>3, NoneAssumption
      <3> QED BY <1>1, <2>1, <3>1 DEF Begin
    <2>2. CASE record[k] # None
      BY <1>1, <2>2 DEF Begin
    <2> QED BY <2>1, <2>2
  <1>2. ASSUME NEW p \in Sessions, Lookup(p) PROVE LocalsOK' /\ KeyHeld'
    BY <1>2 DEF Lookup, Reply, Idle
  <1>3. ASSUME NEW p \in Sessions, Handle(p) PROVE LocalsOK' /\ KeyHeld'
    <2> DEFINE k == sess[p].key
               b == sess[p].body
    <2>1. k \in Keys /\ b \in Bodies /\ sess[p].pc = "run"
      BY <1>3 DEF Handle
    <2>2. \/ /\ sess' = [sess EXCEPT ![p].pc = "reply", ![p].answer = "first"]
             /\ effects' = effects \cup {<<k, b>>}
          \/ /\ sess' = [sess EXCEPT ![p].pc = "reply", ![p].answer = "again"]
             /\ effects' = effects /\ <<k, b>> \in effects
          \/ Goto(p, "abort", "done-before") /\ effects' = effects
          \/ Goto(p, "abort", "failed") /\ effects' = effects
      BY <1>3 DEF Handle, Goto, DoneBefore
    <2>3. record' = record
      BY <1>3 DEF Handle
    <2>4. CASE Goto(p, "abort", "done-before") /\ effects' = effects
      BY <2>1, <2>3, <2>4 DEF Goto, Answers, Outcomes, Results, Session
    <2>5. CASE Goto(p, "abort", "failed") /\ effects' = effects
      BY <2>1, <2>3, <2>5 DEF Goto, Answers, Outcomes, Results, Session
    <2> QED BY <2>1, <2>2, <2>3, <2>4, <2>5 DEF Results, Session
  <1>4. ASSUME NEW p \in Sessions, MakeReply(p) PROVE LocalsOK' /\ KeyHeld'
    BY <1>4 DEF MakeReply, Goto, Answers, Results, Session
  <1>5. ASSUME NEW p \in Sessions, Complete(p) PROVE LocalsOK' /\ KeyHeld'
    <2>1. CASE sess' = [sess EXCEPT ![p] = Idle]
      <3>1. \A q \in Sessions : sess[q].pc \in Holding /\ q # p =>
              record'[sess[q].key] = record[sess[q].key]
        BY <1>5 DEF Complete, Reply
      <3> QED BY <1>5, <2>1, <3>1 DEF Complete, Idle
    <2>2. CASE Goto(p, "abort", "failed") /\ UNCHANGED record
      BY <1>5, <2>2 DEF Complete, Goto, Answers, Results, Session
    <2> QED BY <1>5, <2>1, <2>2 DEF Complete, Reply
  <1>6. ASSUME NEW p \in Sessions, Abort(p) PROVE LocalsOK' /\ KeyHeld'
    BY <1>6 DEF Abort, Reply, Idle
  <1>7. ASSUME NEW p \in Sessions, Crash(p) PROVE LocalsOK' /\ KeyHeld'
    BY <1>7 DEF Crash, Idle
  <1>8. ASSUME NEW k \in Keys, Expire(k) PROVE LocalsOK' /\ KeyHeld'
    BY <1>8 DEF Expire, Owners
  <1>9. CASE UNCHANGED vars
    BY <1>9 DEF vars
  <1> QED BY <1>1, <1>2, <1>3, <1>4, <1>5, <1>6, <1>7, <1>8, <1>9
          DEF Next, Continue

LEMMA AnswersOK == IInv /\ [Next]_vars => StoredIsReal' /\ SuccessIsReal'
  <1> SUFFICES ASSUME IInv, [Next]_vars PROVE StoredIsReal' /\ SuccessIsReal'
    OBVIOUS
  <1> USE DEF IInv, TypeOK, StoredIsReal, SuccessIsReal, At
  <1>1. ASSUME NEW p \in Sessions, NEW k \in Keys, NEW b \in Bodies,
               Begin(p, k, b)
        PROVE  StoredIsReal' /\ SuccessIsReal'
    BY <1>1 DEF Begin
  <1>2. ASSUME NEW p \in Sessions, Lookup(p)
        PROVE  StoredIsReal' /\ SuccessIsReal'
    BY <1>2, NoneAssumption
       DEF Lookup, Reply, LocalsOK, Local, Outcomes, Results, Row
  <1>3. ASSUME NEW p \in Sessions, Handle(p)
        PROVE  StoredIsReal' /\ SuccessIsReal'
    BY <1>3 DEF Handle
  <1>4. ASSUME NEW p \in Sessions, MakeReply(p)
        PROVE  StoredIsReal' /\ SuccessIsReal'
    BY <1>4 DEF MakeReply
  <1>5. ASSUME NEW p \in Sessions, Complete(p)
        PROVE  StoredIsReal' /\ SuccessIsReal'
    <2>1. /\ sess[p].key \in Keys
          /\ <<sess[p].key, sess[p].body>> \in effects
          /\ record[sess[p].key] = [body |-> sess[p].body, result |-> None]
      BY <1>5 DEF Complete, LocalsOK, Local, KeyHeld, Holding
    <2> QED BY <1>5, <2>1 DEF Complete, Reply
  <1>6. ASSUME NEW p \in Sessions, Abort(p)
        PROVE  StoredIsReal' /\ SuccessIsReal'
    BY <1>6 DEF Abort, Reply, LocalsOK, Local
  <1>7. ASSUME NEW p \in Sessions, Crash(p)
        PROVE  StoredIsReal' /\ SuccessIsReal'
    BY <1>7 DEF Crash
  <1>8. ASSUME NEW k \in Keys, Expire(k)
        PROVE  StoredIsReal' /\ SuccessIsReal'
    BY <1>8 DEF Expire
  <1>9. CASE UNCHANGED vars
    BY <1>9 DEF vars
  <1> QED BY <1>1, <1>2, <1>3, <1>4, <1>5, <1>6, <1>7, <1>8, <1>9
          DEF Next, Continue

LEMMA Inductive == Spec => []IInv
  <1>1. IInv /\ [Next]_vars => IInv'
    BY TypeStep, SessionsOK, AnswersOK DEF IInv
  <1> QED BY <1>1, InitOK, PTL DEF Spec

(* The variables keep their types, whatever fails between two statements.  *)
THEOREM Typing == Spec => []TypeOK
  <1>1. IInv => TypeOK
    BY DEF IInv
  <1> QED BY <1>1, Inductive, PTL

(* However many copies of a request arrive, while one runs, fails or is    *)
(* completed: one runs at a time, and success is only told of what is      *)
(* committed (begin, complete, abort of IdempotencyService).               *)
THEOREM CopiesRunOnce == Spec => []RunsHold
  <1>1. IInv => OneRunPerKey
    <2> SUFFICES ASSUME IInv, NEW k \in Keys
                 PROVE  Cardinality(Owners(k)) <= 1
      BY DEF OneRunPerKey
    <2>1. \A p \in Owners(k) : sess[p].pc \in Holding /\ sess[p].key = k
      BY NoneAssumption
      DEF IInv, TypeOK, Session, PCs, Owners, At, LocalsOK, Local, Holding
    <2>2. \A p, q \in Owners(k) : p = q
      BY <2>1 DEF IInv, KeyHeld, Owners
    <2>3. CASE Owners(k) = {}
      BY <2>3, FS_EmptySet
    <2>4. CASE \E p : Owners(k) = {p}
      <3>1. Cardinality(Owners(k)) = 1
        BY <2>4, FS_Singleton
      <3> QED BY <3>1
    <2> QED BY <2>2, <2>3, <2>4
  <1>2. IInv => RunsHold
    BY <1>1 DEF RunsHold, IInv
  <1> QED BY <1>2, Inductive, PTL

(* No copy that fails, is refused or comes late changes a stored answer or *)
(* frees its key; only the clean-up does.                                  *)
THEOREM AnswersStay == Spec => StoredAnswerStays
  <1> DEFINE Stays ==
        \A k \in Keys : record[k] # None /\ record[k].result # None =>
          record'[k] = record[k] \/ Expire(k)
  <1>1. IInv /\ [Next]_vars => [Stays]_vars
    <2> SUFFICES ASSUME IInv, Next, NEW k \in Keys, record[k] # None,
                        record[k].result # None, ~ Expire(k)
                 PROVE  record'[k] = record[k]
      OBVIOUS
    <2>1. ASSUME NEW p \in Sessions, sess[p].pc \in Holding
          PROVE  sess[p].key # k
      <3>1. record[sess[p].key] = [body |-> sess[p].body, result |-> None]
        BY <2>1 DEF IInv, KeyHeld
      <3> QED BY <3>1
    <2>2. ASSUME NEW p \in Sessions, NEW c \in Keys, NEW b \in Bodies,
                 Begin(p, c, b)
          PROVE  record'[k] = record[k]
      BY <2>2 DEF Begin, IInv, TypeOK
    <2>3. ASSUME NEW p \in Sessions, Complete(p) \/ Abort(p)
          PROVE  record'[k] = record[k]
      BY <2>1, <2>3 DEF Complete, Abort, At, Holding, IInv, TypeOK
    <2>4. ASSUME NEW p \in Sessions,
                 Lookup(p) \/ Handle(p) \/ MakeReply(p) \/ Crash(p)
          PROVE  record'[k] = record[k]
      BY <2>4 DEF Lookup, Handle, MakeReply, Crash
    <2>5. ASSUME NEW c \in Keys, Expire(c), c # k PROVE record'[k] = record[k]
      BY <2>5 DEF Expire, IInv, TypeOK
    <2> QED BY <2>2, <2>3, <2>4, <2>5 DEF Next, Continue
  <1> QED BY <1>1, Inductive, PTL DEF Spec, StoredAnswerStays

=============================================================================
