--------------------------- MODULE OutsideProofs ---------------------------
(***************************************************************************)
(* For every number of logins, withdrawals, writers of a file, purchases   *)
(* and failures: the parts that MCOutside runs keep what they promise.     *)
(***************************************************************************)
EXTENDS MCOutside, Sequences, FiniteSetTheorems, TLAPS

-----------------------------------------------------------------------------
(* The tokens at Apple. *)

(* A token names a grant that was made. *)
TokensGranted ==
  /\ stored # None => stored \in 1 .. granted
  /\ \A l \in Logins : login[l].pc = "store" \/ login[l].token # None =>
       login[l].token \in 1 .. granted
  /\ \A w \in Withdrawals :
       leave[w].token # None => leave[w].token \in 1 .. granted

(* A login that met a withdrawal, or lost its user to one, is late. *)
LateLogins ==
  \A l \in Logins : login[l].pc # "out" =>
    /\ Apl!Leaving => login[l].late
    /\ ~user => login[l].late

(* What a withdrawal has read is what the row holds, but for late logins. *)
ReadIsStored ==
  \A w \in Withdrawals : leave[w].pc = "delete" =>
    stored \in {leave[w].token, None} \cup excused

(* Who will revoke, replace or excuse a token that Apple holds. *)
LiveTokens ==
  \A t \in live :
    \/ t \in excused
    \/ t = stored
    \/ \E l \in Logins : login[l].pc = "store" /\ login[l].token = t
    \/ \E w \in Withdrawals : leave[w].pc = "unlink" /\ leave[w].token = t

TypesHold == Apl!TypeOK /\ TokensGranted
TokensHold == LateLogins /\ ReadIsStored /\ LiveTokens
AppleInv == TypesHold /\ TokensHold

LoginTypes ==
  login \in [Logins -> [pc : {"out", "exchange", "store"},
                        token : Apl!Tokens \cup {None}, late : BOOLEAN]]
LeaveTypes ==
  leave \in [Withdrawals -> [pc : {"out", "delete", "unlink"},
                             token : Apl!Tokens \cup {None}]]
LEMMA AppleTypes ==
  PartsAssumption /\ AppleInv /\ Apl!Next => TypesHold'
  <1> SUFFICES ASSUME PartsAssumption, AppleInv, Apl!Next PROVE TypesHold'
    OBVIOUS
  <1> USE DEF AppleInv, TypesHold, Apl!TypeOK, Apl!TokensAssumption, PartsAssumption,
          TokensGranted, Apl!Tokens, Apl!NoLogin, Apl!NoLeave, Apl!Excuse
  <1>1. ASSUME NEW l \in Logins, Apl!Login(l) PROVE TypesHold'
    <2>1. LoginTypes'
      <3> DEFINE late == Apl!Leaving
      <3>1. late \in BOOLEAN
        BY DEF Apl!Leaving
      <3>2. login' = [login EXCEPT ![l] =
                        [Apl!NoLogin EXCEPT !.pc = "exchange", !.late = late]]
        BY <1>1, Zenon DEF Apl!Login
      <3> HIDE DEF late
      <3> QED BY <3>1, <3>2 DEF LoginTypes
    <2>2. LeaveTypes'
      BY <1>1 DEF Apl!Login, LeaveTypes
    <2>3. TokensGranted'
      BY <1>1 DEF Apl!Login
    <2> QED BY <1>1, <2>1, <2>2, <2>3 DEF Apl!Login, LoginTypes, LeaveTypes
  <1>2. ASSUME NEW l \in Logins, Apl!NoExchange(l) PROVE TypesHold'
    BY <1>2 DEF Apl!NoExchange
  <1>3. ASSUME NEW l \in Logins, Apl!Grant(l) PROVE TypesHold'
    <2>1. LoginTypes'
      <3>1. granted + 1 \in Apl!Tokens
        BY <1>3 DEF Apl!Grant
      <3>2. CASE login' = [login EXCEPT ![l].pc = "store",
                                        ![l].token = granted + 1]
        BY <3>1, <3>2 DEF LoginTypes
      <3>3. CASE login' = [login EXCEPT ![l] = Apl!NoLogin]
        BY <3>3 DEF LoginTypes
      <3> QED BY <1>3, <3>2, <3>3 DEF Apl!Grant
    <2>2. LeaveTypes'
      BY <1>3 DEF Apl!Grant, LeaveTypes
    <2>3. TokensGranted'
      BY <1>3 DEF Apl!Grant
    <2> QED BY <1>3, <2>1, <2>2, <2>3 DEF Apl!Grant, LoginTypes, LeaveTypes
  <1>4. ASSUME NEW l \in Logins, Apl!Store(l) PROVE TypesHold'
    <2>1. LoginTypes'
      BY <1>4 DEF Apl!Store, LoginTypes
    <2>2. LeaveTypes'
      BY <1>4 DEF Apl!Store, LeaveTypes
    <2>3. TokensGranted'
      BY <1>4 DEF Apl!Store
    <2>4. excused' \subseteq 1 .. granted
      <3>1. stored \in (1 .. granted) \cup {None} /\ login[l].token \in 1 .. granted
        BY <1>4 DEF Apl!Store
      <3>2. excused' \subseteq excused \cup ({stored} \ {None})
                                       \cup {login[l].token}
        BY <1>4 DEF Apl!Store
      <3> QED BY <3>1, <3>2
    <2>5. stored' \in Apl!Tokens \cup {None} /\ (stored' # None => user)
      BY <1>4 DEF Apl!Store
    <2>6. UNCHANGED <<user, waits, granted, live, leave>>
      BY <1>4 DEF Apl!Store
    <2> QED BY <2>1, <2>2, <2>3, <2>4, <2>5, <2>6 DEF LoginTypes
  <1>5. ASSUME NEW l \in Logins, Apl!LoginFails(l) PROVE TypesHold'
    BY <1>5 DEF Apl!LoginFails
  <1>6. ASSUME NEW w \in Withdrawals, Apl!Read(w) PROVE TypesHold'
    <2>1. LoginTypes'
      <3>1. ASSUME NEW l \in Logins
            PROVE  [login[l] EXCEPT !.late = @ \/ login[l].pc # "out"]
                     \in [pc : {"out", "exchange", "store"},
                          token : Apl!Tokens \cup {None}, late : BOOLEAN]
        OBVIOUS
      <3> QED BY <1>6, <3>1 DEF Apl!Read, LoginTypes
    <2>2. LeaveTypes'
      BY <1>6 DEF Apl!Read, LeaveTypes
    <2>3. TokensGranted'
      BY <1>6 DEF Apl!Read
    <2> QED BY <1>6, <2>1, <2>2, <2>3 DEF Apl!Read, LoginTypes, LeaveTypes
  <1>7. ASSUME NEW w \in Withdrawals, Apl!Delete(w) PROVE TypesHold'
    <2>1. LoginTypes'
      BY <1>7 DEF Apl!Delete, LoginTypes
    <2>2. LeaveTypes'
      BY <1>7 DEF Apl!Delete, LeaveTypes
    <2>3. TokensGranted'
      BY <1>7 DEF Apl!Delete
    <2> QED BY <1>7, <2>1, <2>2, <2>3 DEF Apl!Delete, LoginTypes, LeaveTypes
  <1>8. ASSUME NEW w \in Withdrawals, Apl!Unlink(w) PROVE TypesHold'
    BY <1>8 DEF Apl!Unlink
  <1>9. ASSUME NEW w \in Withdrawals, Apl!LeaveFails(w) PROVE TypesHold'
    <2>1. LoginTypes'
      BY <1>9 DEF Apl!LeaveFails, LoginTypes
    <2>2. LeaveTypes'
      BY <1>9 DEF Apl!LeaveFails, LeaveTypes
    <2>3. TokensGranted'
      BY <1>9 DEF Apl!LeaveFails
    <2>4. excused' \subseteq 1 .. granted
      <3>1. leave[w].token \in (1 .. granted) \cup {None}
        OBVIOUS
      <3>2. excused' \in {excused, excused \cup ({leave[w].token} \ {None})}
        BY <1>9 DEF Apl!LeaveFails
      <3> QED BY <3>1, <3>2
    <2>5. UNCHANGED <<user, waits, stored, granted, live, login>>
      BY <1>9 DEF Apl!LeaveFails
    <2> QED BY <2>2, <2>3, <2>4, <2>5 DEF LeaveTypes
  <1>10. ASSUME Apl!WaitOver PROVE TypesHold'
    BY <1>10 DEF Apl!WaitOver
  <1> QED BY <1>1, <1>2, <1>3, <1>4, <1>5, <1>6, <1>7, <1>8, <1>9,
             <1>10 DEF Apl!Next

LEMMA AppleTokens ==
  PartsAssumption /\ AppleInv /\ Apl!Next => TokensHold'
  <1> SUFFICES ASSUME PartsAssumption, AppleInv, Apl!Next PROVE TokensHold'
    OBVIOUS
  <1> USE DEF AppleInv, TypesHold, TokensHold, Apl!TypeOK, Apl!TokensAssumption, PartsAssumption,
          TokensGranted, LateLogins, ReadIsStored, LiveTokens, Apl!Leaving,
          Apl!Tokens, Apl!NoLogin, Apl!NoLeave, Apl!Excuse
  <1>1. ASSUME NEW l \in Logins, Apl!Login(l) PROVE TokensHold'
    BY <1>1 DEF Apl!Login
  <1>2. ASSUME NEW l \in Logins, Apl!NoExchange(l) PROVE TokensHold'
    BY <1>2 DEF Apl!NoExchange
  <1>3. ASSUME NEW l \in Logins, Apl!Grant(l) PROVE TokensHold'
    <2>1. LateLogins'
      BY <1>3 DEF Apl!Grant
    <2>2. ReadIsStored'
      BY <1>3 DEF Apl!Grant
    <2>3. LiveTokens'
      BY <1>3 DEF Apl!Grant
    <2> QED BY <2>1, <2>2, <2>3
  <1>4. ASSUME NEW l \in Logins, Apl!Store(l) PROVE TokensHold'
    <2>1. LateLogins'
      BY <1>4 DEF Apl!Store
    <2>2. ReadIsStored'
      BY <1>4 DEF Apl!Store
    <2>3. LiveTokens'
      BY <1>4 DEF Apl!Store
    <2> QED BY <2>1, <2>2, <2>3
  <1>5. ASSUME NEW l \in Logins, Apl!LoginFails(l) PROVE TokensHold'
    <2>1. LateLogins'
      BY <1>5 DEF Apl!LoginFails
    <2>2. ReadIsStored'
      BY <1>5 DEF Apl!LoginFails
    <2>3. LiveTokens'
      BY <1>5 DEF Apl!LoginFails
    <2> QED BY <2>1, <2>2, <2>3
  <1>6. ASSUME NEW w \in Withdrawals, Apl!Read(w) PROVE TokensHold'
    <2>0. \A l \in Logins : /\ login'[l].pc = login[l].pc
                            /\ login'[l].token = login[l].token
                            /\ login[l].pc # "out" => login'[l].late
      <3> SUFFICES ASSUME NEW l \in Logins
                   PROVE  /\ login'[l].pc = login[l].pc
                          /\ login'[l].token = login[l].token
                          /\ login[l].pc # "out" => login'[l].late
        OBVIOUS
      <3>1. login'[l] = [login[l] EXCEPT !.late = @ \/ login[l].pc # "out"]
        BY <1>6 DEF Apl!Read
      <3>2. login[l] \in [pc : {"out", "exchange", "store"},
                          token : Apl!Tokens \cup {None}, late : BOOLEAN]
        OBVIOUS
      <3> QED BY <3>1, <3>2
    <2>1. LateLogins'
      BY <1>6, <2>0 DEF Apl!Read
    <2>2. ReadIsStored'
      BY <1>6 DEF Apl!Read
    <2>3. LiveTokens'
      <3>1. \A v \in Withdrawals : leave[v].pc = "unlink" => leave'[v] = leave[v]
        BY <1>6 DEF Apl!Read
      <3>2. UNCHANGED <<stored, live, excused>>
        BY <1>6 DEF Apl!Read
      <3> QED BY <2>0, <3>1, <3>2
    <2> QED BY <2>1, <2>2, <2>3
  <1>7. ASSUME NEW w \in Withdrawals, Apl!Delete(w) PROVE TokensHold'
    <2>1. LateLogins'
      BY <1>7 DEF Apl!Delete
    <2>2. ReadIsStored'
      BY <1>7 DEF Apl!Delete
    <2>3. LiveTokens'
      BY <1>7 DEF Apl!Delete
    <2> QED BY <2>1, <2>2, <2>3
  <1>8. ASSUME NEW w \in Withdrawals, Apl!Unlink(w) PROVE TokensHold'
    <2>1. LateLogins'
      BY <1>8 DEF Apl!Unlink
    <2>2. ReadIsStored'
      BY <1>8 DEF Apl!Unlink
    <2>3. LiveTokens'
      BY <1>8 DEF Apl!Unlink
    <2> QED BY <2>1, <2>2, <2>3
  <1>9. ASSUME NEW w \in Withdrawals, Apl!LeaveFails(w) PROVE TokensHold'
    <2>1. LateLogins'
      BY <1>9 DEF Apl!LeaveFails
    <2>2. ReadIsStored'
      BY <1>9 DEF Apl!LeaveFails
    <2>3. LiveTokens'
      BY <1>9 DEF Apl!LeaveFails
    <2> QED BY <2>1, <2>2, <2>3
  <1>10. ASSUME Apl!WaitOver PROVE TokensHold'
    BY <1>10 DEF Apl!WaitOver
  <1> QED BY <1>1, <1>2, <1>3, <1>4, <1>5, <1>6, <1>7, <1>8, <1>9, <1>10
          DEF Apl!Next

-----------------------------------------------------------------------------
(* The files of the store. *)

StoreTypes == Sto!TypeOK /\ text \in Seq(Puts \cup {None})

(* A put that is alone on disk is writing the file that is seen.           *)
PutsHold ==
  \A p \in Puts :
    /\ put[p].pc = "type" => driver = "local" /\ put[p].done = put[p].size
    /\ put[p].open => file
    /\ put[p].alone =>
         /\ put[p].pc # "out" /\ removal.pc = "out"
         /\ \A q \in Puts \ {p} : put[q].pc = "out"
         /\ driver = "local" => /\ put[p].open
                                /\ text = [i \in 1 .. put[p].done |-> p]

(* A removal that is alone has, on disk, the file out of the way first.    *)
RemovalHolds ==
  /\ removal.pc = "out" => ~removal.alone
  /\ removal.pc = "type" => driver = "local"
  /\ removal.alone => \A p \in Puts : put[p].pc = "out"
  /\ removal.alone /\ removal.pc = "type" => ~file

(* A bucket holds what the last answer said at any time, a disk at rest.   *)
AnswersHold ==
  /\ sure /\ (driver = "s3" \/ (removal.pc = "out" /\ \A p \in Puts : put[p].pc = "out"))
       => text = expect /\ (expect # <<>> => file /\ typed)
  /\ driver = "s3" =>
       text = <<>> \/ \E p \in Puts, n \in 1 .. MaxSize : text = [i \in 1 .. n |-> p]
  /\ expired => writer = "app"
  /\ gone => expired /\ ~file /\ \A p \in Puts : put[p].pc = "out"

StoreInv == StoreTypes /\ PutsHold /\ RemovalHolds /\ AnswersHold

PutRecord ==
  [pc : {"out", "write", "type"}, size : 1 .. MaxSize, done : 0 .. MaxSize,
   open : BOOLEAN, alone : BOOLEAN]
PutTypes == put \in [Puts -> PutRecord]
RemovalTypes == removal \in [pc : {"out", "file", "type"}, alone : BOOLEAN]
TextTypes ==
  /\ Len(text) <= MaxSize /\ text \in Seq(Puts \cup {None})
  /\ file \in BOOLEAN /\ (~file => text = <<>>)
FlagTypes ==
  /\ driver \in {"s3", "local"} /\ writer \in {"app", "worker"}
  /\ {expired, typed, sure, gone} \subseteq BOOLEAN

LEMMA StoreParts ==
  StoreTypes <=> PutTypes /\ RemovalTypes /\ TextTypes /\ FlagTypes
  BY DEF StoreTypes, Sto!TypeOK, PutTypes, PutRecord, RemovalTypes, TextTypes,
         FlagTypes, Sto!Hole

LEMMA ChunksSeq ==
  ASSUME NEW S, NEW n \in Nat, NEW f \in [1 .. n -> S]
  PROVE  f \in Seq(S) /\ Len(f) = n
  OBVIOUS

LEMMA NoText ==
  PartsAssumption => /\ Len(<<>>) <= MaxSize /\ <<>> \in Seq(Puts \cup {None})
                     /\ FALSE \in BOOLEAN /\ TRUE \in BOOLEAN
  BY DEF PartsAssumption, Sto!StorageAssumption

LEMMA StoreTyping ==
  PartsAssumption /\ StoreTypes /\ PutsHold /\ Sto!Next => PutTypes' /\ RemovalTypes' /\ TextTypes' /\ FlagTypes'
  <1> SUFFICES ASSUME PartsAssumption, StoreTypes, PutsHold, Sto!Next PROVE PutTypes' /\ RemovalTypes' /\ TextTypes' /\ FlagTypes'
    OBVIOUS
  <1> USE DEF PartsAssumption, Sto!StorageAssumption,
          PutTypes, PutRecord, RemovalTypes, TextTypes, FlagTypes,
          Sto!Out, Sto!Idle, Sto!Local, Sto!AtWork
  <1>0. PutTypes /\ RemovalTypes /\ TextTypes /\ FlagTypes
    BY StoreParts
  <1>1. ASSUME Sto!Expire PROVE PutTypes' /\ RemovalTypes' /\ TextTypes' /\ FlagTypes'
    <2>1. PutTypes'
      BY <1>0, <1>1 DEF Sto!Expire
    <2>2. RemovalTypes'
      BY <1>0, <1>1 DEF Sto!Expire
    <2>3. TextTypes'
      BY <1>0, <1>1 DEF Sto!Expire
    <2>4. FlagTypes'
      BY <1>0, <1>1 DEF Sto!Expire
    <2> QED BY <2>1, <2>2, <2>3, <2>4
  <1>2. ASSUME NEW p \in Puts, NEW size \in 1 .. MaxSize, Sto!PutBegin(p, size) PROVE PutTypes' /\ RemovalTypes' /\ TextTypes' /\ FlagTypes'
    <2>1. PutTypes'
      <3> DEFINE only == Sto!AtWork = {} /\ removal = Sto!Idle
                 local == Sto!Local
      <3>1. only \in BOOLEAN /\ local \in BOOLEAN
        OBVIOUS
      <3>2. put' = [q \in Puts |->
              IF q = p THEN [pc |-> "write", size |-> size, done |-> 0,
                             open |-> local, alone |-> only]
              ELSE [put[q] EXCEPT !.alone = FALSE]]
        BY <1>2, Zenon DEF Sto!PutBegin
      <3> HIDE DEF only, local
      <3>3. [pc |-> "write", size |-> size, done |-> 0,
             open |-> local, alone |-> only] \in PutRecord
        BY <3>1
      <3>4. \A q \in Puts : [put[q] EXCEPT !.alone = FALSE] \in PutRecord
        BY <1>0
      <3> QED BY <3>2, <3>3, <3>4
    <2>2. RemovalTypes'
      BY <1>0, <1>2 DEF Sto!PutBegin
    <2>3. TextTypes'
      <3>1. CASE Sto!Local
        BY <1>2, <3>1, NoText DEF Sto!PutBegin
      <3>2. CASE ~Sto!Local
        BY <1>0, <1>2, <3>2 DEF Sto!PutBegin
      <3> QED BY <3>1, <3>2
    <2>4. FlagTypes'
      BY <1>0, <1>2 DEF Sto!PutBegin
    <2> QED BY <2>1, <2>2, <2>3, <2>4
  <1>3. ASSUME NEW p \in Puts, Sto!Write(p) PROVE PutTypes' /\ RemovalTypes' /\ TextTypes' /\ FlagTypes'
    <2>1. PutTypes'
      BY <1>0, <1>3 DEF Sto!Write
    <2>2. RemovalTypes'
      BY <1>0, <1>3 DEF Sto!Write
    <2>3. TextTypes'
      <3>1. put[p].done + 1 \in 1 .. MaxSize
        BY <1>0, <1>3 DEF Sto!Write
      <3>2. CASE put[p].open
        <4> DEFINE n == put[p].done + 1
                   chunks == Sto!WithChunk(text, n, p)
                   len == IF n > Len(text) THEN n ELSE Len(text)
        <4>1. len \in 0 .. MaxSize /\ Len(text) \in Nat
          BY <1>0, <3>1
        <4>2. chunks \in [1 .. len -> Puts \cup {None}]
          BY <1>0, <3>1, <4>1 DEF Sto!WithChunk, Sto!Hole
        <4>3. chunks \in Seq(Puts \cup {None}) /\ Len(chunks) = len
          <5> HIDE DEF chunks, len
          <5> QED BY <4>1, <4>2, ChunksSeq
        <4>4. text' = chunks /\ file' = file /\ file
          BY <1>0, <1>3, <3>2 DEF Sto!Write, PutsHold
        <4> HIDE DEF chunks, len
        <4> QED BY <1>0, <4>1, <4>3, <4>4
      <3>3. CASE ~put[p].open
        BY <1>0, <1>3, <3>3 DEF Sto!Write
      <3> QED BY <3>2, <3>3
    <2>4. FlagTypes'
      BY <1>0, <1>3 DEF Sto!Write
    <2> QED BY <2>1, <2>2, <2>3, <2>4
  <1>4. ASSUME NEW p \in Puts, Sto!Written(p) PROVE PutTypes' /\ RemovalTypes' /\ TextTypes' /\ FlagTypes'
    <2>1. PutTypes'
      BY <1>0, <1>4 DEF Sto!Written
    <2>2. RemovalTypes'
      BY <1>0, <1>4 DEF Sto!Written
    <2>3. TextTypes'
      BY <1>0, <1>4 DEF Sto!Written
    <2>4. FlagTypes'
      BY <1>0, <1>4 DEF Sto!Written
    <2> QED BY <2>1, <2>2, <2>3, <2>4
  <1>5. ASSUME NEW p \in Puts, Sto!Typed(p) PROVE PutTypes' /\ RemovalTypes' /\ TextTypes' /\ FlagTypes'
    <2>1. PutTypes'
      BY <1>0, <1>5 DEF Sto!Typed, Sto!Promise, Sto!NoPromise
    <2>2. RemovalTypes'
      BY <1>0, <1>5 DEF Sto!Typed, Sto!Promise, Sto!NoPromise
    <2>3. TextTypes'
      BY <1>0, <1>5 DEF Sto!Typed, Sto!Promise, Sto!NoPromise
    <2>4. FlagTypes'
      BY <1>0, <1>5 DEF Sto!Typed, Sto!Promise, Sto!NoPromise
    <2> QED BY <2>1, <2>2, <2>3, <2>4
  <1>6. ASSUME NEW p \in Puts, Sto!Stored(p) PROVE PutTypes' /\ RemovalTypes' /\ TextTypes' /\ FlagTypes'
    <2>1. PutTypes'
      BY <1>0, <1>6 DEF Sto!Stored, Sto!Promise, Sto!Body
    <2>2. RemovalTypes'
      BY <1>0, <1>6 DEF Sto!Stored, Sto!Promise, Sto!Body
    <2>3. TextTypes'
      BY <1>0, <1>6 DEF Sto!Stored, Sto!Promise, Sto!Body
    <2>4. FlagTypes'
      BY <1>0, <1>6 DEF Sto!Stored, Sto!Promise, Sto!Body
    <2> QED BY <2>1, <2>2, <2>3, <2>4
  <1>7. ASSUME NEW p \in Puts, Sto!PutFails(p) PROVE PutTypes' /\ RemovalTypes' /\ TextTypes' /\ FlagTypes'
    <2>1. PutTypes'
      <3>1. Sto!Out \in PutRecord
        OBVIOUS
      <3>2. ASSUME NEW q \in Puts
            PROVE  [put[q] EXCEPT !.open = FALSE] \in PutRecord
        BY <1>0
      <3>3. \/ put' = [q \in Puts |-> IF q = p THEN Sto!Out
                                     ELSE [put[q] EXCEPT !.open = FALSE]]
            \/ put' = [put EXCEPT ![p] = Sto!Out]
        BY <1>7 DEF Sto!PutFails
      <3> HIDE DEF PutRecord, Sto!Out
      <3> QED BY <1>0, <3>1, <3>2, <3>3
    <2>2. RemovalTypes'
      BY <1>0, <1>7 DEF Sto!PutFails, Sto!Promise, Sto!NoPromise, Sto!Unlink
    <2>3. TextTypes'
      <3>1. CASE Sto!Local /\ writer = "app"
        BY <1>7, <3>1, NoText DEF Sto!PutFails, Sto!Unlink
      <3>2. CASE ~(Sto!Local /\ writer = "app")
        BY <1>0, <1>7, <3>2 DEF Sto!PutFails
      <3> QED BY <3>1, <3>2
    <2>4. FlagTypes'
      BY <1>0, <1>7 DEF Sto!PutFails, Sto!Promise, Sto!NoPromise, Sto!Unlink
    <2> QED BY <2>1, <2>2, <2>3, <2>4
  <1>8. ASSUME NEW p \in Puts, Sto!TypeFails(p) PROVE PutTypes' /\ RemovalTypes' /\ TextTypes' /\ FlagTypes'
    <2>1. PutTypes'
      BY <1>0, <1>8 DEF Sto!TypeFails, Sto!NoPromise
    <2>2. RemovalTypes'
      BY <1>0, <1>8 DEF Sto!TypeFails, Sto!NoPromise
    <2>3. TextTypes'
      BY <1>0, <1>8 DEF Sto!TypeFails, Sto!NoPromise
    <2>4. FlagTypes'
      BY <1>0, <1>8 DEF Sto!TypeFails, Sto!NoPromise
    <2> QED BY <2>1, <2>2, <2>3, <2>4
  <1>9. ASSUME Sto!Delete PROVE PutTypes' /\ RemovalTypes' /\ TextTypes' /\ FlagTypes'
    <2>1. PutTypes'
      BY <1>0, <1>9 DEF Sto!Delete
    <2>2. RemovalTypes'
      BY <1>0, <1>9 DEF Sto!Delete
    <2>3. TextTypes'
      BY <1>0, <1>9 DEF Sto!Delete
    <2>4. FlagTypes'
      BY <1>0, <1>9 DEF Sto!Delete
    <2> QED BY <2>1, <2>2, <2>3, <2>4
  <1>10. ASSUME Sto!DeleteFile PROVE PutTypes' /\ RemovalTypes' /\ TextTypes' /\ FlagTypes'
    <2>1. PutTypes'
      BY <1>0, <1>10 DEF Sto!DeleteFile, Sto!Removed, Sto!Promise, Sto!NoPromise, Sto!Unlink
    <2>2. RemovalTypes'
      <3>1. CASE Sto!Local
        BY <1>0, <1>10, <3>1 DEF Sto!DeleteFile
      <3>2. CASE ~Sto!Local
        <4>1. removal' = [pc |-> "out", alone |-> FALSE]
          BY <1>10, <3>2 DEF Sto!DeleteFile, Sto!Removed
        <4> QED BY <4>1
      <3> QED BY <3>1, <3>2
    <2>3. TextTypes'
      BY <1>10, NoText DEF Sto!DeleteFile, Sto!Unlink
    <2>4. FlagTypes'
      BY <1>0, <1>10 DEF Sto!DeleteFile, Sto!Removed, Sto!Promise, Sto!NoPromise, Sto!Unlink
    <2> QED BY <2>1, <2>2, <2>3, <2>4
  <1>11. ASSUME Sto!DeleteType PROVE PutTypes' /\ RemovalTypes' /\ TextTypes' /\ FlagTypes'
    <2>1. PutTypes'
      BY <1>0, <1>11 DEF Sto!DeleteType, Sto!Removed, Sto!Promise, Sto!NoPromise
    <2>2. RemovalTypes'
      BY <1>0, <1>11 DEF Sto!DeleteType, Sto!Removed, Sto!Promise, Sto!NoPromise
    <2>3. TextTypes'
      BY <1>0, <1>11 DEF Sto!DeleteType, Sto!Removed, Sto!Promise, Sto!NoPromise
    <2>4. FlagTypes'
      BY <1>0, <1>11 DEF Sto!DeleteType, Sto!Removed, Sto!Promise, Sto!NoPromise
    <2> QED BY <2>1, <2>2, <2>3, <2>4
  <1>12. ASSUME Sto!DeleteFails PROVE PutTypes' /\ RemovalTypes' /\ TextTypes' /\ FlagTypes'
    <2>1. PutTypes'
      BY <1>0, <1>12 DEF Sto!DeleteFails, Sto!NoPromise
    <2>2. RemovalTypes'
      BY <1>0, <1>12 DEF Sto!DeleteFails, Sto!NoPromise
    <2>3. TextTypes'
      BY <1>0, <1>12 DEF Sto!DeleteFails, Sto!NoPromise
    <2>4. FlagTypes'
      BY <1>0, <1>12 DEF Sto!DeleteFails, Sto!NoPromise
    <2> QED BY <2>1, <2>2, <2>3, <2>4
  <1>13. ASSUME Sto!Crash PROVE PutTypes' /\ RemovalTypes' /\ TextTypes' /\ FlagTypes'
    <2>1. PutTypes'
      BY <1>0, <1>13 DEF Sto!Crash, Sto!NoPromise
    <2>2. RemovalTypes'
      BY <1>0, <1>13 DEF Sto!Crash, Sto!NoPromise
    <2>3. TextTypes'
      BY <1>0, <1>13 DEF Sto!Crash, Sto!NoPromise
    <2>4. FlagTypes'
      BY <1>0, <1>13 DEF Sto!Crash, Sto!NoPromise
    <2> QED BY <2>1, <2>2, <2>3, <2>4
  <1> QED BY <1>1, <1>2, <1>3, <1>4, <1>5, <1>6, <1>7, <1>8, <1>9, <1>10, <1>11, <1>12, <1>13 DEF Sto!Next

LEMMA StorePuts ==
  PartsAssumption /\ StoreInv /\ Sto!Next => PutsHold'
  <1> SUFFICES ASSUME PartsAssumption, StoreInv, Sto!Next PROVE PutsHold'
    OBVIOUS
  <1> USE DEF PartsAssumption, Sto!StorageAssumption, StoreInv, StoreTypes,
          Sto!TypeOK, Sto!Out, Sto!Idle, Sto!Hole, Sto!Local, Sto!AtWork,
          PutsHold, RemovalHolds
  <1>1. ASSUME Sto!Expire PROVE PutsHold'
    BY <1>1 DEF Sto!Expire
  <1>2. ASSUME NEW p \in Puts, NEW size \in 1 .. MaxSize, Sto!PutBegin(p, size) PROVE PutsHold'
    <2> DEFINE only == Sto!AtWork = {} /\ removal = Sto!Idle
               local == driver = "local"
    <2>1. put' = [q \in Puts |->
            IF q = p THEN [pc |-> "write", size |-> size, done |-> 0,
                           open |-> local, alone |-> only]
            ELSE [put[q] EXCEPT !.alone = FALSE]]
      BY <1>2, Zenon DEF Sto!PutBegin, Sto!Local
    <2>2. /\ only => removal.pc = "out" /\ \A q \in Puts : put[q].pc = "out"
          /\ only \in BOOLEAN /\ local \in BOOLEAN
      OBVIOUS
    <2>3. /\ local => file' /\ text' = <<>>
          /\ file => file'
          /\ removal'.pc = removal.pc /\ driver' = driver
      BY <1>2 DEF Sto!PutBegin
    <2>4. [i \in 1 .. 0 |-> p] = <<>>
      OBVIOUS
    <2> HIDE DEF only
    <2>5. /\ put'[p].pc = "write" /\ put'[p].done = 0
          /\ put'[p].open = local /\ put'[p].alone = only
      BY <2>1, <2>2
    <2>6. ASSUME NEW q \in Puts, q # p
          PROVE  /\ put'[q].pc = put[q].pc /\ put'[q].open = put[q].open
                 /\ put'[q].done = put[q].done /\ put'[q].size = put[q].size
                 /\ put'[q].alone = FALSE
      BY <2>1, <2>6
    <2>7. ASSUME NEW q \in Puts, q # p PROVE put'[q].open => file'
      <3>1. put[q].open => file
        OBVIOUS
      <3> QED BY <2>3, <2>6, <2>7, <3>1
    <2>8. put'[p].open => file'
      BY <2>3, <2>5
    <2>9. ASSUME put'[p].alone
          PROVE  /\ removal'.pc = "out"
                 /\ \A q \in Puts \ {p} : put'[q].pc = "out"
                 /\ driver' = "local" => put'[p].open /\ text' = <<>>
      BY <2>2, <2>3, <2>5, <2>6, <2>9
    <2>10. ASSUME NEW q \in Puts, put'[q].pc = "type"
           PROVE  driver' = "local" /\ put'[q].done = put'[q].size
      BY <2>3, <2>5, <2>6, <2>10
    <2> QED BY <2>4, <2>5, <2>6, <2>7, <2>8, <2>9, <2>10
  <1>3. ASSUME NEW p \in Puts, Sto!Write(p) PROVE PutsHold'
    <2>1. /\ put' = [put EXCEPT ![p].done = @ + 1]
          /\ put[p].pc = "write" /\ driver = "local"
          /\ UNCHANGED <<driver, file, removal>>
      BY <1>3 DEF Sto!Write
    <2>2. ASSUME put[p].alone
          PROVE  text' = [i \in 1 .. put[p].done + 1 |-> p]
      <3>1. put[p].open /\ text = [i \in 1 .. put[p].done |-> p]
        BY <2>1, <2>2
      <3>2. put[p].done \in Nat /\ Len(text) = put[p].done
        BY <3>1
      <3>3. text' = Sto!WithChunk(text, put[p].done + 1, p)
        BY <1>3, <3>1 DEF Sto!Write
      <3> QED BY <3>1, <3>2, <3>3 DEF Sto!WithChunk
    <2>3. \A q \in Puts \ {p} : put'[q] = put[q] /\ ~put[q].alone
      BY <2>1
    <2>4. /\ put'[p].pc = "write" /\ put'[p].open = put[p].open
          /\ put'[p].alone = put[p].alone /\ put'[p].done = put[p].done + 1
      BY <2>1
    <2> QED BY <2>1, <2>2, <2>3, <2>4
  <1>4. ASSUME NEW p \in Puts, Sto!Written(p) PROVE PutsHold'
    BY <1>4 DEF Sto!Written
  <1>5. ASSUME NEW p \in Puts, Sto!Typed(p) PROVE PutsHold'
    BY <1>5 DEF Sto!Typed, Sto!Promise, Sto!NoPromise, Sto!Body
  <1>6. ASSUME NEW p \in Puts, Sto!Stored(p) PROVE PutsHold'
    BY <1>6 DEF Sto!Stored, Sto!Promise, Sto!Body
  <1>7. ASSUME NEW p \in Puts, Sto!PutFails(p) PROVE PutsHold'
    <2>1. CASE Sto!Local /\ writer = "app"
      <3>1. put' = [q \in Puts |-> IF q = p THEN Sto!Out
                                   ELSE [put[q] EXCEPT !.open = FALSE]]
        BY <1>7, <2>1 DEF Sto!PutFails
      <3>2. UNCHANGED <<driver, removal>> /\ put[p].pc = "write"
        BY <1>7 DEF Sto!PutFails
      <3>3. \A q \in Puts : ~put'[q].alone
        BY <3>1, <3>2
      <3>4. \A q \in Puts : ~put'[q].open
        BY <3>1
      <3>5. \A q \in Puts : put'[q].pc = "type" =>
              put'[q].done = put'[q].size /\ driver' = "local"
        BY <3>1, <3>2
      <3> QED BY <3>3, <3>4, <3>5
    <2>2. CASE ~(Sto!Local /\ writer = "app")
      BY <1>7, <2>2 DEF Sto!PutFails
    <2> QED BY <2>1, <2>2
  <1>8. ASSUME NEW p \in Puts, Sto!TypeFails(p) PROVE PutsHold'
    BY <1>8 DEF Sto!TypeFails, Sto!NoPromise
  <1>9. ASSUME Sto!Delete PROVE PutsHold'
    BY <1>9 DEF Sto!Delete
  <1>10. ASSUME Sto!DeleteFile PROVE PutsHold'
    BY <1>10 DEF Sto!DeleteFile, Sto!Removed, Sto!Promise, Sto!NoPromise, Sto!Unlink
  <1>11. ASSUME Sto!DeleteType PROVE PutsHold'
    BY <1>11 DEF Sto!DeleteType, Sto!Removed, Sto!Promise, Sto!NoPromise
  <1>12. ASSUME Sto!DeleteFails PROVE PutsHold'
    BY <1>12 DEF Sto!DeleteFails, Sto!NoPromise
  <1>13. ASSUME Sto!Crash PROVE PutsHold'
    BY <1>13 DEF Sto!Crash, Sto!NoPromise
  <1> QED BY <1>1, <1>2, <1>3, <1>4, <1>5, <1>6, <1>7, <1>8, <1>9, <1>10, <1>11, <1>12, <1>13 DEF Sto!Next

LEMMA StoreRemoval ==
  PartsAssumption /\ StoreInv /\ Sto!Next => RemovalHolds'
  <1> SUFFICES ASSUME PartsAssumption, StoreInv, Sto!Next PROVE RemovalHolds'
    OBVIOUS
  <1> USE DEF PartsAssumption, Sto!StorageAssumption, StoreInv, StoreTypes,
          Sto!TypeOK, Sto!Out, Sto!Idle, Sto!Hole, Sto!Local, Sto!AtWork,
          PutsHold, RemovalHolds
  <1>1. ASSUME Sto!Expire PROVE RemovalHolds'
    BY <1>1 DEF Sto!Expire
  <1>2. ASSUME NEW p \in Puts, NEW size \in 1 .. MaxSize, Sto!PutBegin(p, size) PROVE RemovalHolds'
    BY <1>2 DEF Sto!PutBegin, Sto!MayPut
  <1>3. ASSUME NEW p \in Puts, Sto!Write(p) PROVE RemovalHolds'
    BY <1>3 DEF Sto!Write
  <1>4. ASSUME NEW p \in Puts, Sto!Written(p) PROVE RemovalHolds'
    BY <1>4 DEF Sto!Written
  <1>5. ASSUME NEW p \in Puts, Sto!Typed(p) PROVE RemovalHolds'
    BY <1>5 DEF Sto!Typed, Sto!Promise, Sto!NoPromise, Sto!Body
  <1>6. ASSUME NEW p \in Puts, Sto!Stored(p) PROVE RemovalHolds'
    BY <1>6 DEF Sto!Stored, Sto!Promise, Sto!Body
  <1>7. ASSUME NEW p \in Puts, Sto!PutFails(p) PROVE RemovalHolds'
    BY <1>7 DEF Sto!PutFails, Sto!Promise, Sto!NoPromise, Sto!Unlink
  <1>8. ASSUME NEW p \in Puts, Sto!TypeFails(p) PROVE RemovalHolds'
    BY <1>8 DEF Sto!TypeFails, Sto!NoPromise
  <1>9. ASSUME Sto!Delete PROVE RemovalHolds'
    BY <1>9 DEF Sto!Delete
  <1>10. ASSUME Sto!DeleteFile PROVE RemovalHolds'
    BY <1>10 DEF Sto!DeleteFile, Sto!Removed, Sto!Promise, Sto!NoPromise, Sto!Unlink
  <1>11. ASSUME Sto!DeleteType PROVE RemovalHolds'
    BY <1>11 DEF Sto!DeleteType, Sto!Removed, Sto!Promise, Sto!NoPromise
  <1>12. ASSUME Sto!DeleteFails PROVE RemovalHolds'
    BY <1>12 DEF Sto!DeleteFails, Sto!NoPromise
  <1>13. ASSUME Sto!Crash PROVE RemovalHolds'
    BY <1>13 DEF Sto!Crash, Sto!NoPromise
  <1> QED BY <1>1, <1>2, <1>3, <1>4, <1>5, <1>6, <1>7, <1>8, <1>9, <1>10, <1>11, <1>12, <1>13 DEF Sto!Next

LEMMA StoreAnswers ==
  PartsAssumption /\ StoreInv /\ Sto!Next => AnswersHold'
  <1> SUFFICES ASSUME PartsAssumption, StoreInv, Sto!Next PROVE AnswersHold'
    OBVIOUS
  <1> USE DEF PartsAssumption, Sto!StorageAssumption, StoreInv, StoreTypes,
          Sto!TypeOK, Sto!Out, Sto!Idle, Sto!Hole, Sto!Local, Sto!AtWork,
          PutsHold, RemovalHolds, AnswersHold
  <1>1. ASSUME Sto!Expire PROVE AnswersHold'
    BY <1>1 DEF Sto!Expire
  <1>2. ASSUME NEW p \in Puts, NEW size \in 1 .. MaxSize, Sto!PutBegin(p, size) PROVE AnswersHold'
    BY <1>2 DEF Sto!PutBegin, Sto!MayPut
  <1>3. ASSUME NEW p \in Puts, Sto!Write(p) PROVE AnswersHold'
    BY <1>3 DEF Sto!Write
  <1>4. ASSUME NEW p \in Puts, Sto!Written(p) PROVE AnswersHold'
    BY <1>4 DEF Sto!Written
  <1>5. ASSUME NEW p \in Puts, Sto!Typed(p) PROVE AnswersHold'
    BY <1>5 DEF Sto!Typed, Sto!Promise, Sto!NoPromise, Sto!Body
  <1>6. ASSUME NEW p \in Puts, Sto!Stored(p) PROVE AnswersHold'
    BY <1>6 DEF Sto!Stored, Sto!Promise, Sto!Body
  <1>7. ASSUME NEW p \in Puts, Sto!PutFails(p) PROVE AnswersHold'
    BY <1>7 DEF Sto!PutFails, Sto!Promise, Sto!NoPromise, Sto!Unlink
  <1>8. ASSUME NEW p \in Puts, Sto!TypeFails(p) PROVE AnswersHold'
    BY <1>8 DEF Sto!TypeFails, Sto!NoPromise
  <1>9. ASSUME Sto!Delete PROVE AnswersHold'
    BY <1>9 DEF Sto!Delete
  <1>10. ASSUME Sto!DeleteFile PROVE AnswersHold'
    BY <1>10 DEF Sto!DeleteFile, Sto!Removed, Sto!Promise, Sto!NoPromise, Sto!Unlink
  <1>11. ASSUME Sto!DeleteType PROVE AnswersHold'
    BY <1>11 DEF Sto!DeleteType, Sto!Removed, Sto!Promise, Sto!NoPromise
  <1>12. ASSUME Sto!DeleteFails PROVE AnswersHold'
    BY <1>12 DEF Sto!DeleteFails, Sto!NoPromise
  <1>13. ASSUME Sto!Crash PROVE AnswersHold'
    BY <1>13 DEF Sto!Crash, Sto!NoPromise
  <1> QED BY <1>1, <1>2, <1>3, <1>4, <1>5, <1>6, <1>7, <1>8, <1>9, <1>10, <1>11, <1>12, <1>13 DEF Sto!Next

-----------------------------------------------------------------------------
(* The page of a share link. *)

(* The element has no file before the first URL comes; a URL that comes    *)
(* later comes to a play() that waits for it.                              *)
FileFollowsUrl ==
  /\ media = "empty" => ~src /\ paused /\ ~warm /\ ~on
  /\ loading /\ ~waiting => media = "empty"
  /\ page = "none" => media = "empty" /\ ~loading /\ phase = "parcel"

(* Before the parcel is open only the muted play is under way.             *)
Unopened ==
  ~Lnk!Opened =>
    /\ ~heard /\ ~waiting /\ ~asked
    /\ paused \/ muted \/ media = "broken"

(* What the button shows is so, or is about to be settled.                 *)
ButtonFollows ==
  /\ on => Lnk!Playing \/ asked
  /\ Lnk!Playing => on \/ err \/ waiting
  /\ phase = "play" /\ ~Lnk!Playing => err \/ why # "none" \/ waiting \/ asked

PageInv == Lnk!TypeOK /\ FileFollowsUrl /\ Unopened /\ ButtonFollows

PageTypes ==
  /\ link \in {"free", "closed"} /\ page \in {"none", "tape", "error"}
  /\ phase \in {"parcel", "tearing", "insert", "play"}
  /\ media \in {"empty", "loading", "ready", "broken"}
  /\ why \in Lnk!Reasons /\ faults \in 0 .. Faults
UrlTypes ==
  /\ src \in BOOLEAN /\ fresh \in BOOLEAN /\ (fresh => src)
  /\ loading \in BOOLEAN /\ waiting \in BOOLEAN /\ (waiting => loading)
ElementTypes ==
  /\ paused \in BOOLEAN /\ muted \in BOOLEAN /\ warm \in BOOLEAN
  /\ asked \in BOOLEAN
  /\ (asked => ~paused /\ media = "loading") /\ (muted => warm)
ShownTypes == on \in BOOLEAN /\ err \in BOOLEAN /\ heard \in BOOLEAN

LEMMA PageParts ==
  Lnk!TypeOK <=> PageTypes /\ UrlTypes /\ ElementTypes /\ ShownTypes
  BY DEF Lnk!TypeOK, PageTypes, UrlTypes, ElementTypes, ShownTypes

PageTypingHold == PageTypes /\ UrlTypes /\ ElementTypes /\ ShownTypes
PageKeepsHold == FileFollowsUrl /\ Unopened /\ ButtonFollows

LEMMA PlayTyping ==
  ASSUME NEW gesture, UrlTypes, ElementTypes, Lnk!Play(gesture)
  PROVE  UrlTypes' /\ ElementTypes'
  <1> USE DEF UrlTypes, ElementTypes, Lnk!Usable
  <1>1. UNCHANGED <<src, fresh, media, muted, warm>>
    BY DEF Lnk!Play
  <1>2. CASE ~Lnk!Usable
    <2>1. loading' = TRUE /\ waiting' = TRUE /\ UNCHANGED <<paused, asked>>
      BY <1>2 DEF Lnk!Play
    <2> QED BY <1>1, <2>1
  <1>3. CASE Lnk!Usable
    <2>1. UNCHANGED <<loading, waiting>>
      BY <1>3 DEF Lnk!Play
    <2>2. \/ UNCHANGED <<paused, asked>>
          \/ paused' = FALSE /\ asked' = (media = "loading")
      BY <1>3 DEF Lnk!Play
    <2>3. UrlTypes'
      BY <1>1, <2>1
    <2>4. CASE UNCHANGED <<paused, asked>>
      BY <1>1, <2>3, <2>4
    <2>5. CASE paused' = FALSE /\ asked' = (media = "loading")
      <3>1. asked' \in BOOLEAN /\ (asked' => media = "loading")
        BY <2>5
      <3>2. ~paused' /\ paused' \in BOOLEAN
        BY <2>5
      <3> QED BY <1>1, <2>3, <3>1, <3>2
    <2> QED BY <2>2, <2>4, <2>5
  <1> QED BY <1>2, <1>3

LEMMA PageTyping ==
  PartsAssumption /\ Lnk!TypeOK /\ FileFollowsUrl /\ Unopened /\ Lnk!Next => PageTypingHold'
  <1> SUFFICES ASSUME PartsAssumption, Lnk!TypeOK, FileFollowsUrl, Unopened, Lnk!Next PROVE PageTypingHold'
    OBVIOUS
  <1> USE DEF PageTypingHold, PartsAssumption, Lnk!FaultsAssumption, PageTypes, UrlTypes,
          ElementTypes, ShownTypes, FileFollowsUrl, Unopened, Lnk!Playing,
          Lnk!Opened, Lnk!Reasons, Lnk!MayFault, Lnk!NoFault,
          Lnk!urls, Lnk!element, Lnk!shown
  <1>0. PageTypes /\ UrlTypes /\ ElementTypes /\ ShownTypes
    BY PageParts
  <1>1. ASSUME Lnk!Close PROVE PageTypingHold'
    BY <1>0, <1>1 DEF Lnk!Close
  <1>2. ASSUME Lnk!Page PROVE PageTypingHold'
    <2>1. PageTypes'
      BY <1>0, <1>2 DEF Lnk!Page, Lnk!Preview
    <2>2. UrlTypes'
      <3>1. CASE link = "free"
        BY <1>0, <1>2, <3>1 DEF Lnk!Page, Lnk!Preview
      <3>2. CASE link # "free"
        BY <1>0, <1>2, <3>2 DEF Lnk!Page, Lnk!Preview
      <3> QED BY <3>1, <3>2
    <2>3. ElementTypes'
      BY <1>0, <1>2 DEF Lnk!Page, Lnk!Preview
    <2>4. ShownTypes'
      BY <1>0, <1>2 DEF Lnk!Page, Lnk!Preview
    <2> QED BY <2>1, <2>2, <2>3, <2>4
  <1>3. ASSUME Lnk!Fetched PROVE PageTypingHold'
    <2>1. PageTypes'
      BY <1>0, <1>3 DEF Lnk!Fetched
    <2>2. UrlTypes'
      BY <1>0, <1>3 DEF Lnk!Fetched
    <2>3. ElementTypes'
      <3>1. CASE waiting
        BY <1>0, <1>3, <3>1 DEF Lnk!Fetched
      <3>2. CASE ~waiting
        <4>1. waiting = FALSE
          BY <1>0, <3>2
        <4>2. /\ paused' = TRUE /\ asked' = FALSE
              /\ warm' = FALSE /\ muted' = FALSE
          BY <1>3, <4>1 DEF Lnk!Fetched
        <4> QED BY <4>2
      <3> QED BY <3>1, <3>2
    <2>4. ShownTypes'
      BY <1>0, <1>3 DEF Lnk!Fetched
    <2> QED BY <2>1, <2>2, <2>3, <2>4
  <1>4. ASSUME Lnk!Refused PROVE PageTypingHold'
    <2>1. PageTypes'
      BY <1>0, <1>4 DEF Lnk!Refused, Lnk!FetchRejected
    <2>2. UrlTypes'
      BY <1>0, <1>4 DEF Lnk!Refused, Lnk!FetchRejected
    <2>3. ElementTypes'
      BY <1>0, <1>4 DEF Lnk!Refused, Lnk!FetchRejected
    <2>4. ShownTypes'
      BY <1>0, <1>4 DEF Lnk!Refused, Lnk!FetchRejected
    <2> QED BY <2>1, <2>2, <2>3, <2>4
  <1>5. ASSUME Lnk!FetchFails PROVE PageTypingHold'
    <2>1. PageTypes'
      BY <1>0, <1>5 DEF Lnk!FetchFails, Lnk!FetchRejected
    <2>2. UrlTypes'
      BY <1>0, <1>5 DEF Lnk!FetchFails, Lnk!FetchRejected
    <2>3. ElementTypes'
      BY <1>0, <1>5 DEF Lnk!FetchFails, Lnk!FetchRejected
    <2>4. ShownTypes'
      BY <1>0, <1>5 DEF Lnk!FetchFails, Lnk!FetchRejected
    <2> QED BY <2>1, <2>2, <2>3, <2>4
  <1>6. ASSUME Lnk!Ages PROVE PageTypingHold'
    <2>1. PageTypes'
      BY <1>0, <1>6 DEF Lnk!Ages
    <2>2. UrlTypes'
      BY <1>0, <1>6 DEF Lnk!Ages
    <2>3. ElementTypes'
      BY <1>0, <1>6 DEF Lnk!Ages
    <2>4. ShownTypes'
      BY <1>0, <1>6 DEF Lnk!Ages
    <2> QED BY <2>1, <2>2, <2>3, <2>4
  <1>7. ASSUME Lnk!FirstTap PROVE PageTypingHold'
    BY <1>0, <1>7 DEF Lnk!FirstTap
  <1>8. ASSUME Lnk!WarmedUp PROVE PageTypingHold'
    BY <1>0, <1>8 DEF Lnk!WarmedUp
  <1>9. ASSUME Lnk!Torn PROVE PageTypingHold'
    BY <1>0, <1>9 DEF Lnk!Torn, Lnk!Settled
  <1>10. ASSUME Lnk!AutoPlay PROVE PageTypingHold'
    <2>1. PageTypes'
      BY <1>0, <1>10 DEF Lnk!AutoPlay, Lnk!Settled, Lnk!Play, Lnk!Usable
    <2>2. UrlTypes' /\ ElementTypes'
      BY <1>0, <1>10, PlayTyping DEF Lnk!AutoPlay
    <2>4. ShownTypes'
      BY <1>0, <1>10 DEF Lnk!AutoPlay, Lnk!Settled, Lnk!Play, Lnk!Usable
    <2> QED BY <2>1, <2>2, <2>4
  <1>11. ASSUME Lnk!Tap PROVE PageTypingHold'
    <2>1. PageTypes'
      BY <1>0, <1>11 DEF Lnk!Tap, Lnk!Settled, Lnk!Play, Lnk!Usable
    <2>2. UrlTypes' /\ ElementTypes'
      <3>1. CASE paused
        BY <1>0, <1>11, <3>1, PlayTyping DEF Lnk!Tap
      <3>2. CASE ~paused
        <4>1. /\ paused' = TRUE /\ asked' = FALSE
              /\ warm' = FALSE /\ muted' = FALSE
              /\ UNCHANGED <<src, fresh, loading, waiting>>
          BY <1>11, <3>2 DEF Lnk!Tap
        <4> QED BY <1>0, <4>1
      <3> QED BY <3>1, <3>2
    <2>4. ShownTypes'
      BY <1>0, <1>11 DEF Lnk!Tap, Lnk!Settled, Lnk!Play, Lnk!Usable
    <2> QED BY <2>1, <2>2, <2>4
  <1>12. ASSUME Lnk!Loaded PROVE PageTypingHold'
    <2>1. PageTypes'
      BY <1>0, <1>12 DEF Lnk!Loaded
    <2>2. UrlTypes'
      BY <1>0, <1>12 DEF Lnk!Loaded
    <2>3. ElementTypes'
      BY <1>0, <1>12 DEF Lnk!Loaded
    <2>4. ShownTypes'
      BY <1>0, <1>12 DEF Lnk!Loaded
    <2> QED BY <2>1, <2>2, <2>3, <2>4
  <1>13. ASSUME Lnk!LoadFails PROVE PageTypingHold'
    <2>1. PageTypes'
      BY <1>0, <1>13 DEF Lnk!LoadFails, Lnk!OnError
    <2>2. UrlTypes'
      BY <1>0, <1>13 DEF Lnk!LoadFails, Lnk!OnError
    <2>3. ElementTypes'
      BY <1>0, <1>13 DEF Lnk!LoadFails, Lnk!OnError
    <2>4. ShownTypes'
      BY <1>0, <1>13 DEF Lnk!LoadFails, Lnk!OnError
    <2> QED BY <2>1, <2>2, <2>3, <2>4
  <1>14. ASSUME Lnk!CutOff PROVE PageTypingHold'
    <2>1. PageTypes'
      BY <1>0, <1>14 DEF Lnk!CutOff, Lnk!OnError
    <2>2. UrlTypes'
      BY <1>0, <1>14 DEF Lnk!CutOff, Lnk!OnError
    <2>3. ElementTypes'
      BY <1>0, <1>14 DEF Lnk!CutOff, Lnk!OnError
    <2>4. ShownTypes'
      BY <1>0, <1>14 DEF Lnk!CutOff, Lnk!OnError
    <2> QED BY <2>1, <2>2, <2>3, <2>4
  <1>15. ASSUME Lnk!Ends PROVE PageTypingHold'
    BY <1>0, <1>15 DEF Lnk!Ends
  <1> QED BY <1>1, <1>2, <1>3, <1>4, <1>5, <1>6, <1>7, <1>8, <1>9, <1>10, <1>11, <1>12, <1>13, <1>14, <1>15 DEF Lnk!Next

LEMMA PlayButton ==
  ASSUME NEW gesture, PageInv, Lnk!Play(gesture)
  PROVE  ButtonFollows'
  <1> USE DEF PageInv, Lnk!TypeOK, FileFollowsUrl, ButtonFollows, Lnk!Playing,
          Lnk!Usable
  <1>1. UNCHANGED <<src, fresh, media, muted, warm>>
    BY DEF Lnk!Play
  <1>2. CASE ~Lnk!Usable
    <2>1. waiting' = TRUE /\ UNCHANGED <<paused, asked, on>>
      BY <1>2 DEF Lnk!Play
    <2> QED BY <1>1, <2>1
  <1>3. CASE /\ src /\ media # "broken" /\ paused' = FALSE
             /\ asked' = (media = "loading") /\ on' = (on \/ media = "ready")
    <2>1. CASE media = "loading"
      BY <1>1, <1>3, <2>1
    <2>2. CASE media = "ready"
      BY <1>1, <1>3, <2>2
    <2> QED BY <1>3, <2>1, <2>2
  <1>4. CASE media = "broken" /\ on' = FALSE /\ err' = TRUE
    BY <1>1, <1>4
  <1>5. CASE /\ paused /\ on' = FALSE /\ why' = "permission"
             /\ UNCHANGED <<paused, asked>>
    BY <1>1, <1>5
  <1> QED BY <1>2, <1>3, <1>4, <1>5 DEF Lnk!Play

LEMMA PageKeeps ==
  PageInv /\ Lnk!Next => PageKeepsHold'
  <1> SUFFICES ASSUME PageInv, Lnk!Next PROVE PageKeepsHold'
    OBVIOUS
  <1> USE DEF PageKeepsHold, PageInv, Lnk!TypeOK, FileFollowsUrl, Unopened, ButtonFollows,
          Lnk!Playing, Lnk!Opened, Lnk!Reasons, Lnk!NoFault,
          Lnk!urls, Lnk!element, Lnk!shown
  <1>1. ASSUME Lnk!Close PROVE PageKeepsHold'
    BY <1>1 DEF Lnk!Close
  <1>2. ASSUME Lnk!Page PROVE PageKeepsHold'
    <2>1. CASE link = "free"
      BY <1>2, <2>1 DEF Lnk!Page, Lnk!Preview
    <2>2. CASE link # "free"
      BY <1>2, <2>2 DEF Lnk!Page, Lnk!Preview
    <2> QED BY <2>1, <2>2
  <1>3. ASSUME Lnk!Fetched PROVE PageKeepsHold'
    BY <1>3 DEF Lnk!Fetched
  <1>4. ASSUME Lnk!Refused PROVE PageKeepsHold'
    BY <1>4 DEF Lnk!Refused, Lnk!FetchRejected
  <1>5. ASSUME Lnk!FetchFails PROVE PageKeepsHold'
    BY <1>5 DEF Lnk!FetchFails, Lnk!FetchRejected
  <1>6. ASSUME Lnk!Ages PROVE PageKeepsHold'
    BY <1>6 DEF Lnk!Ages
  <1>7. ASSUME Lnk!FirstTap PROVE PageKeepsHold'
    BY <1>7 DEF Lnk!FirstTap
  <1>8. ASSUME Lnk!WarmedUp PROVE PageKeepsHold'
    BY <1>8 DEF Lnk!WarmedUp
  <1>9. ASSUME Lnk!Torn PROVE PageKeepsHold'
    BY <1>9 DEF Lnk!Torn, Lnk!Settled
  <1>10. ASSUME Lnk!AutoPlay PROVE PageKeepsHold'
    <2>1. FileFollowsUrl'
      BY <1>10 DEF Lnk!AutoPlay, Lnk!Settled, Lnk!Play, Lnk!Usable
    <2>2. Unopened'
      BY <1>10 DEF Lnk!AutoPlay
    <2>3. ButtonFollows'
      BY <1>10, PlayButton DEF Lnk!AutoPlay
    <2> QED BY <2>1, <2>2, <2>3
  <1>11. ASSUME Lnk!Tap PROVE PageKeepsHold'
    <2>1. FileFollowsUrl'
      BY <1>11 DEF Lnk!Tap, Lnk!Settled, Lnk!Play, Lnk!Usable
    <2>2. Unopened'
      BY <1>11 DEF Lnk!Tap
    <2>3. ButtonFollows'
      <3>1. CASE paused
        BY <1>11, <3>1, PlayButton DEF Lnk!Tap
      <3>2. CASE ~paused
        BY <1>11, <3>2 DEF Lnk!Tap
      <3> QED BY <3>1, <3>2
    <2> QED BY <2>1, <2>2, <2>3
  <1>12. ASSUME Lnk!Loaded PROVE PageKeepsHold'
    BY <1>12 DEF Lnk!Loaded
  <1>13. ASSUME Lnk!LoadFails PROVE PageKeepsHold'
    BY <1>13 DEF Lnk!LoadFails, Lnk!OnError
  <1>14. ASSUME Lnk!CutOff PROVE PageKeepsHold'
    BY <1>14 DEF Lnk!CutOff, Lnk!OnError
  <1>15. ASSUME Lnk!Ends PROVE PageKeepsHold'
    BY <1>15 DEF Lnk!Ends
  <1> QED BY <1>1, <1>2, <1>3, <1>4, <1>5, <1>6, <1>7, <1>8, <1>9, <1>10, <1>11, <1>12, <1>13, <1>14, <1>15 DEF Lnk!Next

-----------------------------------------------------------------------------
(* The hourly run. *)

(* HourlyJobs counts with the Cardinality of the FiniteSets it extends.     *)
LEMMA SameSize ==
  ASSUME NEW S
  PROVE  /\ Job!Cardinality(S) = Cardinality(S)
         /\ Job!IsFiniteSet(S) <=> IsFiniteSet(S)
  <1>1. Job!Cardinality(S) = Cardinality(S)
    BY DEF Cardinality, Job!Cardinality
  <1>2. Job!IsFiniteSet(S) <=> IsFiniteSet(S)
    BY DEF IsFiniteSet, Job!IsFiniteSet
  <1> QED BY <1>1, <1>2

BatchOf(S) == S \in SUBSET Purchases /\ Cardinality(S) <= Batch
JobTypes ==
  /\ job \in {0} \cup Job!Jobs
  /\ pending \subseteq Purchases /\ refused \subseteq Purchases
  /\ current \subseteq Purchases /\ Cardinality(current) <= 1
  /\ BatchOf(todo)
  /\ job # Job!ConsumeJob => todo = {} /\ current = {}
  /\ troubles \in 0 .. JobFaults

LEMMA JobParts == Job!TypeOK <=> JobTypes
  BY SameSize DEF Job!TypeOK, JobTypes, BatchOf

LEMMA NextJobType ==
  ASSUME job \in {0} \cup Job!Jobs, Job!NextJob
  PROVE  job' \in {0} \cup Job!Jobs /\ (job = Job!ConsumeJob => job' # job)
  <1>1. 1 \in Int /\ 7 \in Int
    OBVIOUS
  <1>2. Cardinality(1 .. 7) = IF 1 > 7 THEN 0 ELSE 7 - 1 + 1
    BY <1>1, FS_Interval
  <1>3. Cardinality(Job!Jobs) = 7
    BY <1>2 DEF Job!Jobs
  <1>4. job' = (job + 1) % (Cardinality(Job!Jobs) + 1)
    BY SameSize DEF Job!NextJob
  <1> QED BY <1>3, <1>4 DEF Job!Jobs, Job!ConsumeJob

(* What is left of a batch is no larger. *)
LEMMA RestOfBatch ==
  ASSUME PartsAssumption, NEW S, BatchOf(S), NEW r
  PROVE  BatchOf(S \ {r})
  <1>1. IsFiniteSet(Purchases) /\ Batch \in Nat
    BY SameSize DEF PartsAssumption, Job!JobsAssumption
  <1>2. IsFiniteSet(S)
    BY <1>1, FS_Subset DEF BatchOf
  <1>3. Cardinality(S \ {r}) <= Cardinality(S) /\ IsFiniteSet(S \ {r})
    BY <1>2, FS_Subset
  <1>4. Cardinality(S) \in Nat /\ Cardinality(S \ {r}) \in Nat
    BY <1>2, <1>3, FS_CardinalityType
  <1> QED BY <1>1, <1>3, <1>4 DEF BatchOf

LEMMA JobStep == PartsAssumption /\ Job!TypeOK /\ Job!Next => Job!TypeOK'
  <1> SUFFICES ASSUME PartsAssumption, JobTypes, Job!Next
               PROVE  JobTypes'
    <2>1. JobTypes' => Job!TypeOK'
      BY SameSize DEF Job!TypeOK, JobTypes, BatchOf
    <2> QED BY <2>1, JobParts
  <1>0. /\ Cardinality({}) = 0 /\ Batch \in Nat /\ JobFaults \in Nat
        /\ \A r : Cardinality({r}) = 1
    BY FS_EmptySet, FS_Singleton DEF PartsAssumption, Job!JobsAssumption
  <1>1. BatchOf({})
    BY <1>0 DEF BatchOf
  <1>2. CASE Job!Hour
    BY <1>2, NextJobType DEF Job!Hour, JobTypes, Job!ConsumeJob
  <1>3. CASE Job!OtherJob
    BY <1>3, NextJobType DEF Job!OtherJob, JobTypes
  <1>4. CASE Job!Take
    <2>1. BatchOf(todo') /\ current' = {} /\ job = Job!ConsumeJob
      <3>1. /\ job = Job!ConsumeJob /\ current' = {}
            /\ todo' \in SUBSET Purchases
            /\ \/ Job!Cardinality(todo') = Batch
               \/ Job!Cardinality(todo') < Batch
        BY <1>4 DEF Job!Take, JobTypes
      <3>2. Cardinality(todo') <= Batch
        <4>1. IsFiniteSet(Purchases)
          BY SameSize DEF PartsAssumption, Job!JobsAssumption
        <4>2. Cardinality(todo') \in Nat
          BY <3>1, <4>1, FS_Subset, FS_CardinalityType
        <4> QED BY <1>0, <3>1, <4>2, SameSize
      <3> QED BY <3>1, <3>2 DEF BatchOf
    <2>2. job' \in {0} \cup Job!Jobs /\ (job' # Job!ConsumeJob => todo' = {})
      BY <1>4, NextJobType DEF Job!Take, JobTypes
    <2> QED BY <1>0, <1>4, <2>1, <2>2 DEF Job!Take, JobTypes
  <1>5. CASE Job!TakeFails
    BY <1>0, <1>5, NextJobType DEF Job!TakeFails, Job!Trouble, JobTypes
  <1>6. CASE Job!Crash
    BY <1>0, <1>1, <1>6
    DEF Job!Crash, Job!Trouble, Job!Forget, JobTypes
  <1>7. ASSUME NEW r \in Purchases, Job!Consumed(r) PROVE JobTypes'
    <2>1. /\ r \in todo /\ current' = {r}
          /\ UNCHANGED <<job, pending, refused, todo, troubles>>
      BY <1>7 DEF Job!Consumed
    <2>2. Cardinality(current') <= 1
      BY <1>0, <2>1
    <2> QED BY <2>1, <2>2 DEF JobTypes
  <1>8. ASSUME NEW r \in Purchases,
               \/ Job!Note(r) \/ Job!Refused(r)
               \/ Job!ConsumeFails(r) \/ Job!NoteFails(r)
        PROVE  JobTypes'
    <2>1. r \in todo \cup current /\ Job!Goes(todo \ {r})
      BY <1>8 DEF Job!Note, Job!Refused, Job!ConsumeFails, Job!NoteFails,
                  Job!Forget
    <2>2. pending' \subseteq Purchases /\ refused' \subseteq Purchases
      BY <1>8 DEF Job!Note, Job!Refused, Job!ConsumeFails, Job!NoteFails,
                  Job!Forget, JobTypes
    <2>3. troubles' \in 0 .. JobFaults
      BY <1>0, <1>8
      DEF Job!Note, Job!Refused, Job!ConsumeFails, Job!NoteFails,
          Job!Trouble, JobTypes
    <2>4. job = Job!ConsumeJob
      BY <2>1 DEF JobTypes
    <2>5. BatchOf(todo')
      BY <2>1, RestOfBatch DEF Job!Goes, JobTypes
    <2>6. job' \in {0} \cup Job!Jobs /\ (job' # Job!ConsumeJob => todo' = {})
      BY <2>1, <2>4, NextJobType DEF Job!Goes, JobTypes
    <2> QED BY <1>0, <2>1, <2>2, <2>3, <2>5, <2>6 DEF Job!Goes, JobTypes
  <1>9. ASSUME NEW r \in Purchases, Job!Settled(r) PROVE JobTypes'
    BY <1>9 DEF Job!Settled, JobTypes
  <1> QED BY <1>2, <1>3, <1>4, <1>5, <1>6, <1>7, <1>8, <1>9
          DEF Job!Next, Job!Step

-----------------------------------------------------------------------------
(* All parts together: a step of one leaves the others alone. *)

IInv == AppleInv /\ StoreInv /\ PageInv /\ Job!TypeOK

LEMMA InitOK == PartsAssumption /\ Init => IInv
  <1> SUFFICES ASSUME PartsAssumption, Init PROVE IInv
    OBVIOUS
  <1>1. AppleInv
    <2>1. Apl!Init /\ MaxToken \in Nat
      BY DEF Init, PartsAssumption, Apl!TokensAssumption
    <2>2. LoginTypes /\ LeaveTypes
      BY <2>1 DEF Apl!Init, LoginTypes, LeaveTypes, Apl!NoLogin, Apl!NoLeave
    <2>3. /\ user = FALSE /\ waits = FALSE /\ stored = None /\ granted = 0
          /\ live = {} /\ excused = {}
      BY <2>1 DEF Apl!Init
    <2>4. Apl!TypeOK
      <3>1. {user, waits} \subseteq BOOLEAN /\ ~(user /\ waits)
        BY <2>3
      <3>2. granted \in 0 .. MaxToken
        BY <2>1, <2>3
      <3> QED BY <2>2, <2>3, <3>1, <3>2
              DEF Apl!TypeOK, LoginTypes, LeaveTypes
    <2>5. TokensGranted
      BY <2>1 DEF Apl!Init, TokensGranted, Apl!NoLogin, Apl!NoLeave
    <2>6. LateLogins
      BY <2>1 DEF Apl!Init, LateLogins, Apl!NoLogin
    <2>7. ReadIsStored
      BY <2>1 DEF Apl!Init, ReadIsStored, Apl!NoLeave
    <2>8. LiveTokens
      BY <2>3 DEF LiveTokens
    <2> QED BY <2>4, <2>5, <2>6, <2>7, <2>8 DEF AppleInv, TypesHold, TokensHold
  <1>2. StoreInv
    <2>1. Sto!Init
      BY DEF Init
    <2>2. PutTypes
      <3>1. Sto!Out \in PutRecord
        BY DEF PartsAssumption, Sto!StorageAssumption, PutRecord, Sto!Out
      <3> QED BY <2>1, <3>1 DEF Sto!Init, PutTypes
    <2>4. RemovalTypes
      BY <2>1 DEF Sto!Init, RemovalTypes, Sto!Idle
    <2>5. TextTypes
      BY <2>1, NoText DEF Sto!Init, TextTypes
    <2>6. FlagTypes
      BY <2>1 DEF Sto!Init, FlagTypes
    <2>3. PutsHold /\ RemovalHolds /\ AnswersHold
      BY <2>1 DEF Sto!Init, PutsHold, RemovalHolds, AnswersHold, Sto!Out, Sto!Idle
    <2> QED BY <2>2, <2>3, <2>4, <2>5, <2>6, StoreParts DEF StoreInv
  <1>3. PageInv
    <2>1. Lnk!Init
      BY DEF Init
    <2>2. PageTypes /\ UrlTypes /\ ElementTypes /\ ShownTypes
      <3>1. PageTypes
        <4>1. 0 \in 0 .. Faults
          BY DEF PartsAssumption, Lnk!FaultsAssumption
        <4> QED BY <2>1, <4>1 DEF Lnk!Init, PageTypes, Lnk!Reasons
      <3>2. UrlTypes /\ ShownTypes
        BY <2>1 DEF Lnk!Init, UrlTypes, ShownTypes
      <3>3. ElementTypes
        BY <2>1 DEF Lnk!Init, ElementTypes
      <3> QED BY <3>1, <3>2, <3>3
    <2>3. Lnk!TypeOK
      BY <2>2 DEF Lnk!TypeOK, PageTypes, UrlTypes, ElementTypes, ShownTypes
    <2>4. FileFollowsUrl
      BY <2>1 DEF Lnk!Init, FileFollowsUrl
    <2>5. Unopened
      BY <2>1 DEF Lnk!Init, Unopened, Lnk!Playing
    <2>6. ButtonFollows
      BY <2>1 DEF Lnk!Init, ButtonFollows, Lnk!Playing
    <2> QED BY <2>3, <2>4, <2>5, <2>6 DEF PageInv
  <1>4. JobTypes
    <2>1. Job!Init /\ Cardinality({}) = 0 /\ Batch \in Nat /\ JobFaults \in Nat
      BY FS_EmptySet DEF Init, PartsAssumption, Job!JobsAssumption
    <2> QED BY <2>1 DEF Job!Init, JobTypes, BatchOf, Job!ConsumeJob
  <1> QED BY <1>1, <1>2, <1>3, <1>4, JobParts DEF IInv

LEMMA StoreStep == PartsAssumption /\ StoreInv /\ Sto!Next => StoreInv'
  <1> SUFFICES ASSUME PartsAssumption, StoreInv, Sto!Next PROVE StoreInv'
    OBVIOUS
  <1>1. PutTypes' /\ RemovalTypes' /\ TextTypes' /\ FlagTypes'
    BY StoreTyping DEF StoreInv
  <1>2. StoreTypes'
    BY <1>1 DEF StoreTypes, Sto!TypeOK, PutTypes, PutRecord, RemovalTypes,
                TextTypes, FlagTypes, Sto!Hole
  <1> QED BY <1>2, StorePuts, StoreRemoval, StoreAnswers DEF StoreInv

LEMMA PageStep == PartsAssumption /\ PageInv /\ Lnk!Next => PageInv'
  <1> SUFFICES ASSUME PartsAssumption, PageInv, Lnk!Next PROVE PageInv'
    OBVIOUS
  <1>1. PageTypes' /\ UrlTypes' /\ ElementTypes' /\ ShownTypes'
    BY PageTyping DEF PageInv, PageTypingHold
  <1>2. Lnk!TypeOK'
    BY <1>1 DEF Lnk!TypeOK, PageTypes, UrlTypes, ElementTypes, ShownTypes
  <1> QED BY <1>2, PageKeeps DEF PageInv, PageKeepsHold

LEMMA NextOK == PartsAssumption /\ IInv /\ [Next]_vars => IInv'
  <1> SUFFICES ASSUME PartsAssumption, IInv, [Next]_vars PROVE IInv'
    OBVIOUS
  <1>1. ASSUME UNCHANGED appleVars PROVE AppleInv'
    BY <1>1 DEF IInv, appleVars, AppleInv, TypesHold, TokensHold, Apl!TypeOK,
       TokensGranted, LateLogins, ReadIsStored, LiveTokens, Apl!Leaving
  <1>2. ASSUME UNCHANGED storeVars PROVE StoreInv'
    BY <1>2 DEF IInv, storeVars, StoreInv, StoreTypes, Sto!TypeOK, PutsHold,
       RemovalHolds, AnswersHold
  <1>3. ASSUME UNCHANGED pageVars PROVE PageInv'
    BY <1>3 DEF IInv, pageVars, PageInv, Lnk!TypeOK, FileFollowsUrl, Unopened,
       ButtonFollows, Lnk!Playing, Lnk!Opened
  <1>4. ASSUME UNCHANGED jobVars PROVE Job!TypeOK'
    BY <1>4 DEF IInv, jobVars, Job!TypeOK
  <1>5. CASE Lnk!Next /\ UNCHANGED <<appleVars, storeVars, jobVars>>
    BY <1>1, <1>2, <1>4, <1>5, PageStep DEF IInv
  <1>6. CASE Apl!Next /\ UNCHANGED <<pageVars, storeVars, jobVars>>
    BY <1>2, <1>3, <1>4, <1>6, AppleTypes, AppleTokens DEF IInv, AppleInv
  <1>7. CASE Sto!Next /\ UNCHANGED <<pageVars, appleVars, jobVars>>
    BY <1>1, <1>3, <1>4, <1>7, StoreStep DEF IInv
  <1>8. CASE Job!Next /\ UNCHANGED <<pageVars, appleVars, storeVars>>
    BY <1>1, <1>2, <1>3, <1>8, JobStep DEF IInv
  <1>9. CASE UNCHANGED vars
    BY <1>1, <1>2, <1>3, <1>4, <1>9 DEF vars, IInv
  <1> QED BY <1>5, <1>6, <1>7, <1>8, <1>9 DEF Next

LEMMA Inductive == Spec => []IInv
  BY PartsAssumption, InitOK, NextOK, PTL DEF Spec

(* The variables of the four parts keep their types; the hourly run never  *)
(* takes more than a batch, whatever the database and Google answer.       *)
THEOREM Typing == Spec => []TypeOK
  <1>1. IInv => TypeOK
    BY DEF IInv, TypeOK, AppleInv, TypesHold, StoreInv, StoreTypes, PageInv
  <1> QED BY <1>1, Inductive, PTL

(* When an account is gone and nobody is at work, Apple holds no token of  *)
(* it but those excused, for any logins and withdrawals (unlinkSocial).    *)
THEOREM TokensAreRevoked == Spec => []TokensGoWithTheUser
  <1>1. IInv => TokensGoWithTheUser
    <2> DEFINE Calm == ~Apl!Leaving /\ \A l \in Logins : login[l].pc = "out"
    <2> SUFFICES ASSUME IInv, Calm PROVE live \subseteq excused \cup ({stored} \ {None})
      <3>1. IInv => (stored # None => user)
        BY DEF IInv, AppleInv, TypesHold, Apl!TypeOK
      <3> QED BY <3>1 DEF TokensGoWithTheUser, Apl!TokensGoWithTheUser
    <2>1. None \notin live
      <3>1. granted \in Nat /\ live \subseteq 1 .. granted
        BY PartsAssumption
        DEF IInv, AppleInv, TypesHold, Apl!TypeOK, Apl!TokensAssumption
      <3>2. \A t \in 1 .. granted : t \in Nat
        BY <3>1
      <3>3. None \notin Nat
        BY PartsAssumption, Zenon DEF Apl!TokensAssumption
      <3> QED BY <3>1, <3>2, <3>3
    <2>2. LiveTokens
      BY DEF IInv, AppleInv, TokensHold
    <2> QED BY <2>1, <2>2 DEF LiveTokens, Apl!Leaving
  <1> QED BY <1>1, Inductive, PTL

(* At rest, and as long as it is known what to expect, a key holds what    *)
(* the last answer of the store said; uploads to the disk that overlap,    *)
(* deletions that S3 refuses without a word, and crashes make it unknown.  *)
(* What a bucket holds is always one body as it was sent.                  *)
THEOREM AnswersAreTrue == Spec => []ObjectsHold
  <1>1. IInv => ObjectsHold
    BY DEF IInv, StoreInv, StoreTypes, Sto!TypeOK, RemovalHolds, AnswersHold,
       ObjectsHold, Sto!ObjectsHold, Sto!AtWork, Sto!Idle, Sto!Download,
       Sto!Header
  <1> QED BY <1>1, Inductive, PTL

(* The link page does not play before the parcel is open, and its button   *)
(* and its error agree with the element at rest, whatever fails.           *)
THEOREM PageIsTrue == Spec => []PageTellsTheTruth
  <1>1. IInv => PageTellsTheTruth
    BY DEF IInv, PageInv, Lnk!TypeOK, Unopened, ButtonFollows, Lnk!Playing,
       Lnk!AtRest, PageTellsTheTruth, Lnk!PageTellsTheTruth
  <1> QED BY <1>1, Inductive, PTL

=============================================================================
