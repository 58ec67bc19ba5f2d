--------------------------- MODULE RequestsProofs ---------------------------
(***************************************************************************)
(* What MCRequests checks on a small instance, for every number of         *)
(* requests, tapes, groups and rows, and every base and length of the      *)
(* keys: verdicts have causes, the reports of a user keep to their limits, *)
(* keyBetween finds a key between any two neighbours, the drawer keeps its *)
(* order, and reading page by page misses nothing.                         *)
(*                                                                         *)
(* Each part has an inductive invariant (VerInv, RepInv, DrwInv, PagInv),  *)
(* a lemma for each of its actions, and one that puts them together; the   *)
(* theorems are at the end.  The keys rest on two recursive functions, of  *)
(* which it is shown first that there are functions as their equations say *)
(* (UnfoldingExists); what they compute is shown by a counterexample of    *)
(* least length.                                                           *)
(***************************************************************************)
EXTENDS MCRequests, FiniteSetTheorems, SequenceTheorems, WellFoundedInduction,
        TLAPS

-----------------------------------------------------------------------------
(* Receipts, callbacks and tokens. *)

CallRecord ==
  [pc : {"idle", "cache", "ask", "sent", "certs", "wait", "call", "second"}
        \cup Ver!Verdicts,
   kind : Ver!Kinds, genuine : BOOLEAN, key : Ver!Keys, forced : BOOLEAN,
   sent : SUBSET Ver!Keys, failed : BOOLEAN,
   cause : {"none", "configuration", "status", "lost"}]

CacheRecord == [keys : SUBSET Ver!Keys, state : {"none", "fresh", "old"}]
CertStates == {"none", "loading", "loaded"}

VerTypes ==
  /\ configured \in BOOLEAN /\ newest \in Ver!Keys /\ faults \in 0 .. Faults
  /\ cache \in CacheRecord /\ certs \in CertStates
  /\ call \in [Requests -> CallRecord]

(* What holds of a request and of its verdict: a key that a genuine        *)
(* callback names has been published, and is in the answer of AdMob unless *)
(* it has been withdrawn by then.                                          *)
Judged(c, latest, conf, roots) ==
  /\ c.pc \in {"cache", "ask", "sent"} => c.kind = "admob"
  /\ c.pc = "cache" => ~c.forced
  /\ c.kind = "admob" /\ c.genuine => c.key <= latest
  /\ c.pc = "sent" /\ c.genuine => c.key \in c.sent \/ c.key < latest - 1
  /\ c.pc = "invalid" /\ c.genuine =>
       \/ c.kind = "admob" /\ (c.cause = "lost" \/ c.key < latest - 1)
       \/ c.kind = "rtdn" /\ c.failed
       \/ c.kind = "apple" /\ c.cause \in {"configuration", "status"}
       \/ c.kind \in {"appstore", "notice"} /\ c.failed
  /\ c.pc = "unavailable" => c.failed \/ ~conf
  /\ c.pc = "ok" => c.genuine
  /\ c.pc = "wait" => roots = "loading"

VerInv ==
  VerTypes /\ \A r \in Requests : Judged(call[r], newest, configured, certs)

-----------------------------------------------------------------------------
(* Reports. *)

ReportRecord ==
  [pc : {"idle", "lock", "check", "repeat", "store", "answer"},
   target : Rep!Targets \cup {None}, block : BOOLEAN,
   person : Persons \cup {None}, at : 0 .. MaxNow,
   report : Rep!Report \cup {Rep!NoReport}, created : BOOLEAN]

RepTypes ==
  /\ day \in 0 .. MaxNow /\ here \in BOOLEAN
  /\ members \subseteq Persons /\ friends \subseteq members
  /\ parcels \subseteq Parcels /\ blocked \subseteq members
  /\ reports \subseteq Rep!Report /\ told \subseteq Rep!Report
  /\ IsFiniteSet(reports)
  /\ holder \in Requests \cup {None}
  /\ report \in [Requests -> ReportRecord]

Locking(p) ==
  /\ report[p].pc \in {"check", "repeat", "store"} <=> holder = p
  /\ report[p].pc # "idle" => report[p].target \in Rep!Targets
  /\ report[p].pc \in {"repeat", "answer"} => report[p].report \in Rep!Report

Since(t) == {r \in reports : r.at > t}

(* Under the lock no report comes in between: what Check counted is still  *)
(* the most there is.                                                      *)
Counted(p) ==
  report[p].pc = "store" =>
    LET c == report[p]
    IN  /\ c.at \in {day, day - 1}
        /\ here => /\ Cardinality(Since(c.at - Window)) < DailyLimit
                   /\ \A r \in Since(c.at - Window) : r.target # c.target
                   /\ \A r \in reports : r.at <= c.at

OnRecord(r) ==
  r \in reports \/ Rep!Forget(r) \in reports \/ r.at < day - Retention

Answered(p) ==
  LET c == report[p]
  IN  /\ c.pc \in {"repeat", "answer"} => OnRecord(c.report)
      /\ c.pc = "answer" =>
           /\ c.block /\ c.person \in members /\ here => c.person \in blocked
           /\ c.created => /\ c.report.mine /\ c.report \notin told
                           /\ c.report.at \in {day, day - 1}
                           /\ here => c.report \in reports

(* The reports of somebody who has withdrawn are nobody's. *)
Signed ==
  /\ \A r \in reports : r.mine = here /\ r.at <= day
  /\ here => told \subseteq reports

Distinct ==
  \A p, q \in Requests :
    p # q /\ Rep!At(p, "answer") /\ Rep!At(q, "answer")
          /\ report[p].created /\ report[q].created
      => report[p].report # report[q].report

RepInv ==
  /\ RepTypes /\ Signed /\ Distinct /\ Rep!LimitsHold
  /\ \A p \in Requests : Locking(p) /\ Counted(p) /\ Answered(p)

-----------------------------------------------------------------------------
(* Receipts, callbacks and tokens: the steps.                              *)

(* A request goes on, and its verdict is justified.                        *)
LEMMA CallWritten ==
  ASSUME VerInv, NEW r \in Requests, NEW c \in CallRecord,
         call' = [call EXCEPT ![r] = c],
         Judged(c, newest, configured, certs'),
         UNCHANGED <<configured, newest>>, faults' \in 0 .. Faults,
         cache' \in CacheRecord, certs' \in CertStates,
         certs = "loading" => certs' = "loading"
  PROVE  VerInv'
  <1>1. VerTypes /\ VerTypes'
    BY DEF VerInv, VerTypes
  <1>2. ASSUME NEW x \in Requests
        PROVE  Judged(call'[x], newest', configured', certs')
    <2>1. CASE x = r
      BY <1>1, <2>1 DEF VerTypes
    <2>2. CASE x # r
      <3>1. call'[x] = call[x] /\ Judged(call[x], newest, configured, certs)
        BY <1>1, <2>2 DEF VerTypes, VerInv
      <3> QED BY <3>1 DEF Judged
    <2> QED BY <2>1, <2>2
  <1> QED BY <1>1, <1>2 DEF VerInv

(* The same when nothing but the request changes.                          *)
LEMMA CallGoes ==
  ASSUME VerInv, NEW r \in Requests, NEW c \in CallRecord,
         call' = [call EXCEPT ![r] = c],
         Judged(c, newest, configured, certs),
         UNCHANGED <<configured, newest, cache, certs, faults>>
  PROVE  VerInv'
  BY CallWritten DEF VerInv, VerTypes

LEMMA BeginsKeeps ==
  ASSUME VerInv, NEW r \in Requests, NEW kind \in Ver!Kinds,
         NEW genuine \in BOOLEAN, NEW key \in Ver!Keys,
         NEW pc \in {"cache", "certs", "call", "invalid", "unavailable"},
         Ver!Begins(r, kind, genuine, key, pc),
         pc = "cache" => kind = "admob",
         kind = "admob" /\ genuine => key <= newest,
         pc = "invalid" /\ genuine => kind = "apple" /\ ~configured,
         pc = "unavailable" => ~configured
  PROVE  VerInv'
  <1> DEFINE c == [Ver!Idle EXCEPT
                     !.pc = pc, !.kind = kind, !.genuine = genuine, !.key = key,
                     !.cause = IF configured THEN "none" ELSE "configuration"]
  <1>1. /\ call' = [call EXCEPT ![r] = c]
        /\ UNCHANGED <<configured, newest, cache, certs, faults>>
    BY DEF Ver!Begins
  <1>2. /\ c \in CallRecord
        /\ c.pc = pc /\ c.kind = kind /\ c.genuine = genuine /\ c.key = key
        /\ ~c.forced /\ (~configured => c.cause = "configuration")
    BY DEF Ver!Idle, CallRecord, Ver!Verdicts
  <1> HIDE DEF c
  <1>3. Judged(c, newest, configured, certs)
    BY <1>2 DEF Judged
  <1> QED BY <1>1, <1>2, <1>3, CallGoes

LEMMA AsksKeep ==
  ASSUME PartsAssumption, VerInv, NEW r \in Requests, NEW genuine \in BOOLEAN,
         \/ \E key \in Ver!Keys : Ver!AskAdmob(r, genuine, key)
         \/ \E kind \in {"appstore", "notice"} :
              Ver!AskAppStore(r, kind, genuine)
         \/ Ver!AskPlay(r, genuine) \/ Ver!AskPush(r, genuine)
         \/ Ver!AskKakao(r, genuine) \/ Ver!AskApple(r, genuine)
  PROVE  VerInv'
  <1> 0 \in Ver!Keys /\ newest \in Ver!Keys /\ Ver!Keys \subseteq Nat
    BY DEF PartsAssumption, Ver!VerifiersAssumption, Ver!Keys, VerInv, VerTypes
  <1>1. ASSUME NEW key \in Ver!Keys, Ver!AskAdmob(r, genuine, key)
        PROVE  VerInv'
    <2>1. genuine => key <= newest
      BY <1>1 DEF Ver!AskAdmob, Ver!Published
    <2>2. PICK pc \in {"cache"} \cup Ver!Malformed(genuine) :
            Ver!Begins(r, "admob", genuine, key, pc)
      BY <1>1 DEF Ver!AskAdmob
    <2>3. pc \in {"cache", "invalid"} /\ (pc = "invalid" => ~genuine)
      BY <2>2 DEF Ver!Malformed
    <2>4. "admob" \in Ver!Kinds
      BY DEF Ver!Kinds
    <2> QED BY <2>1, <2>2, <2>3, <2>4, BeginsKeeps
  <1>2. ASSUME NEW kind \in {"appstore", "notice"},
               Ver!AskAppStore(r, kind, genuine)
        PROVE  VerInv'
    <2>1. PICK pc \in {Ver!Configured("certs")} \cup Ver!Malformed(genuine) :
            Ver!Begins(r, kind, genuine, 0, pc)
      BY <1>2 DEF Ver!AskAppStore
    <2>2. /\ pc \in {"certs", "unavailable", "invalid"}
          /\ pc = "invalid" => ~genuine
          /\ pc = "unavailable" => ~configured
      BY <2>1 DEF Ver!Malformed, Ver!Configured
    <2>3. kind \in Ver!Kinds /\ kind # "admob"
      BY DEF Ver!Kinds
    <2> QED BY <2>1, <2>2, <2>3, BeginsKeeps
  <1>3. CASE Ver!AskPlay(r, genuine)
    <2> DEFINE pc == Ver!Configured("call")
    <2>1. Ver!Begins(r, "play", genuine, 0, pc)
      BY <1>3 DEF Ver!AskPlay
    <2>2. /\ pc \in {"call", "unavailable"} /\ (pc = "unavailable" => ~configured)
          /\ "play" \in Ver!Kinds
      BY DEF Ver!Configured, Ver!Kinds
    <2> HIDE DEF pc
    <2> QED BY <2>1, <2>2, BeginsKeeps
  <1>4. CASE Ver!AskPush(r, genuine)
    <2>1. PICK pc \in {Ver!Configured("call")} \cup
                      (IF configured THEN Ver!Malformed(genuine) ELSE {}) :
            Ver!Begins(r, "rtdn", genuine, 0, pc)
      BY <1>4 DEF Ver!AskPush
    <2>2. /\ pc \in {"call", "unavailable", "invalid"}
          /\ pc = "invalid" => ~genuine
          /\ pc = "unavailable" => ~configured
          /\ "rtdn" \in Ver!Kinds
      BY <2>1 DEF Ver!Malformed, Ver!Configured, Ver!Kinds
    <2> QED BY <2>1, <2>2, BeginsKeeps
  <1>5. CASE Ver!AskKakao(r, genuine)
    <2>1. Ver!Begins(r, "kakao", genuine, 0, "call") /\ "kakao" \in Ver!Kinds
      BY <1>5 DEF Ver!AskKakao, Ver!Kinds
    <2> QED BY <2>1, BeginsKeeps
  <1>6. CASE Ver!AskApple(r, genuine)
    <2> DEFINE pc == IF configured THEN "call" ELSE "invalid"
    <2>1. Ver!Begins(r, "apple", genuine, 0, pc)
      BY <1>6 DEF Ver!AskApple
    <2>2. /\ pc \in {"call", "invalid"} /\ (pc = "invalid" => ~configured)
          /\ "apple" \in Ver!Kinds
      BY DEF Ver!Kinds
    <2> HIDE DEF pc
    <2> QED BY <2>1, <2>2, BeginsKeeps
  <1> QED BY <1>1, <1>2, <1>3, <1>4, <1>5, <1>6

(* The lookup of a key: refused only when it was looked for in an answer   *)
(* of AdMob that is no older than the callback.                            *)
LEMMA LookupGoes ==
  ASSUME NEW r \in Requests, NEW keys
  PROVE  /\ Ver!AfterLookup(r, keys) \in {"ok", "invalid", "ask"}
         /\ Ver!AfterLookup(r, keys) = "ok" => call[r].genuine
         /\ Ver!AfterLookup(r, keys) = "invalid" /\ call[r].genuine =>
              call[r].forced /\ call[r].key \notin keys
  BY DEF Ver!AfterLookup

LEMMA AdmobKeeps ==
  ASSUME PartsAssumption, VerInv, NEW r \in Requests,
         \/ Ver!ReadCache(r) \/ Ver!Send(r)
         \/ Ver!Fetched(r) \/ Ver!FetchFails(r)
  PROVE  VerInv'
  <1>1. /\ call[r] \in CallRecord /\ cache \in CacheRecord
        /\ newest \in Ver!Keys /\ Ver!Keys \subseteq Nat
        /\ faults \in 0 .. Faults /\ certs \in CertStates
        /\ Judged(call[r], newest, configured, certs)
        /\ Faults \in Nat /\ newest \in Int
    BY DEF VerInv, VerTypes, Ver!Keys, PartsAssumption, Ver!VerifiersAssumption
  <1>2. CASE Ver!ReadCache(r)
    <2> DEFINE pc == IF cache.state = "fresh" THEN Ver!AfterLookup(r, cache.keys)
                     ELSE "ask"
               forced == cache.state = "fresh"
               c == [call[r] EXCEPT !.pc = pc, !.forced = forced]
    <2>1. /\ call' = [call EXCEPT ![r] = c] /\ call[r].pc = "cache"
          /\ UNCHANGED <<configured, newest, cache, certs, faults>>
      BY <1>2 DEF Ver!ReadCache, Ver!At
    <2>2. ~call[r].forced
      BY <1>1, <2>1 DEF Judged
    <2>3. /\ pc \in {"ok", "invalid", "ask"}
          /\ pc = "ok" => call[r].genuine
          /\ pc = "invalid" => ~call[r].genuine
      BY <2>2, LookupGoes
    <2>a. forced \in BOOLEAN
      OBVIOUS
    <2> HIDE DEF pc, forced
    <2>4. /\ c \in CallRecord /\ c.pc = pc /\ c.kind = call[r].kind
          /\ c.genuine = call[r].genuine /\ c.key = call[r].key
      BY <1>1, <2>3, <2>a DEF CallRecord, Ver!Verdicts
    <2> HIDE DEF c
    <2>5. Judged(c, newest, configured, certs)
      BY <1>1, <2>1, <2>3, <2>4 DEF Judged
    <2> QED BY <2>1, <2>4, <2>5, CallGoes
  <1>3. CASE Ver!Send(r)
    <2> DEFINE sent == Ver!Published
               c == [call[r] EXCEPT !.pc = "sent", !.sent = sent]
    <2>1. /\ call' = [call EXCEPT ![r] = c] /\ call[r].pc = "ask"
          /\ UNCHANGED <<configured, newest, cache, certs, faults>>
      BY <1>3 DEF Ver!Send, Ver!At
    <2>2. /\ sent \subseteq Ver!Keys
          /\ \A k \in Ver!Keys : k <= newest => k \in sent \/ k < newest - 1
      BY <1>1 DEF Ver!Published
    <2> HIDE DEF sent
    <2>3. /\ c \in CallRecord /\ c.pc = "sent" /\ c.kind = call[r].kind
          /\ c.genuine = call[r].genuine /\ c.key = call[r].key
          /\ c.sent = sent
      BY <1>1, <2>2 DEF CallRecord
    <2> HIDE DEF c
    <2>4. Judged(c, newest, configured, certs)
      BY <1>1, <2>1, <2>2, <2>3 DEF Judged, CallRecord
    <2> QED BY <2>1, <2>3, <2>4, CallGoes
  <1>4. CASE Ver!Fetched(r)
    <2> DEFINE keys == call[r].sent
               pc == Ver!AfterLookup(r, keys)
               c == [call[r] EXCEPT !.pc = pc, !.forced = TRUE,
                                    !.sent = {}, !.cause = "none"]
    <2>1. /\ call' = [call EXCEPT ![r] = c] /\ call[r].pc = "sent"
          /\ cache' = [keys |-> keys, state |-> "fresh"]
          /\ UNCHANGED <<configured, newest, certs, faults>>
      BY <1>4 DEF Ver!Fetched, Ver!At
    <2>2. /\ pc \in {"ok", "invalid", "ask"}
          /\ pc = "ok" => call[r].genuine
          /\ pc = "invalid" /\ call[r].genuine => call[r].key \notin keys
      BY LookupGoes
    <2> HIDE DEF pc
    <2>3. /\ c \in CallRecord /\ c.pc = pc /\ c.kind = call[r].kind
          /\ c.genuine = call[r].genuine /\ c.key = call[r].key
      BY <1>1, <2>2 DEF CallRecord, Ver!Verdicts
    <2> HIDE DEF c
    <2>4. cache' \in CacheRecord
      BY <1>1, <2>1 DEF CallRecord, CacheRecord
    <2>5. Judged(c, newest, configured, certs)
      BY <1>1, <2>1, <2>2, <2>3 DEF Judged
    <2> QED BY <1>1, <2>1, <2>3, <2>4, <2>5, CallWritten
  <1>5. CASE Ver!FetchFails(r)
    <2> DEFINE pc == IF cache.state = "none" THEN "unavailable"
                     ELSE Ver!AfterLookup(r, cache.keys)
               c == [call[r] EXCEPT !.pc = pc, !.forced = TRUE,
                            !.sent = {}, !.failed = TRUE, !.cause = "lost"]
    <2>1. /\ call' = [call EXCEPT ![r] = c] /\ call[r].pc \in {"ask", "sent"}
          /\ faults < Faults /\ faults' = faults + 1
          /\ UNCHANGED <<configured, newest, cache, certs>>
      BY <1>5 DEF Ver!FetchFails, Ver!Fault
    <2>2. /\ pc \in {"ok", "invalid", "ask", "unavailable"}
          /\ pc = "ok" => call[r].genuine
      BY LookupGoes
    <2> HIDE DEF pc
    <2>3. /\ c \in CallRecord /\ c.pc = pc /\ c.kind = call[r].kind
          /\ c.genuine = call[r].genuine /\ c.key = call[r].key
          /\ c.failed /\ c.cause = "lost"
      BY <1>1, <2>2 DEF CallRecord, Ver!Verdicts
    <2> HIDE DEF c
    <2>4. Judged(c, newest, configured, certs)
      BY <1>1, <2>1, <2>2, <2>3 DEF Judged
    <2>5. faults' \in 0 .. Faults
      BY <1>1, <2>1
    <2> QED BY <1>1, <2>1, <2>3, <2>4, <2>5, CallWritten
  <1> QED BY <1>2, <1>3, <1>4, <1>5

LEMMA CertsKeep ==
  ASSUME PartsAssumption, VerInv,
         \/ \E r \in Requests : Ver!NeedCerts(r)
         \/ Ver!CertsLoaded \/ Ver!CertsFail
  PROVE  VerInv'
  <1>1. /\ VerTypes /\ Faults \in Nat
        /\ \A r \in Requests : Judged(call[r], newest, configured, certs)
    BY DEF VerInv, PartsAssumption, Ver!VerifiersAssumption
  <1>2. ASSUME NEW r \in Requests, Ver!NeedCerts(r) PROVE VerInv'
    <2> DEFINE pc == IF certs = "loaded" THEN "call" ELSE "wait"
               c == [call[r] EXCEPT !.pc = pc]
    <2>1. /\ call' = [call EXCEPT ![r] = c] /\ call[r].pc = "certs"
          /\ certs' = IF certs = "loaded" THEN certs ELSE "loading"
          /\ UNCHANGED <<configured, newest, cache, faults>>
          /\ call[r] \in CallRecord
      BY <1>1, <1>2 DEF Ver!NeedCerts, Ver!Goes, Ver!At, VerTypes
    <2>2. pc \in {"call", "wait"} /\ (pc = "wait" => certs' = "loading")
      BY <2>1
    <2> HIDE DEF pc
    <2>3. /\ c \in CallRecord /\ c.pc = pc /\ c.kind = call[r].kind
          /\ c.genuine = call[r].genuine /\ c.key = call[r].key
      BY <2>1, <2>2 DEF CallRecord
    <2> HIDE DEF c
    <2>4. Judged(c, newest, configured, certs')
      BY <1>1, <2>2, <2>3 DEF Judged
    <2>5. /\ certs' \in CertStates /\ (certs = "loading" => certs' = "loading")
          /\ cache' \in CacheRecord /\ faults' \in 0 .. Faults
      BY <1>1, <2>1 DEF VerTypes, CertStates
    <2> QED BY <2>1, <2>3, <2>4, <2>5, CallWritten
  <1>3. CASE Ver!CertsLoaded
    <2>1. /\ call' = [r \in Requests |->
                        IF Ver!At(r, "wait") THEN [call[r] EXCEPT !.pc = "call"]
                                             ELSE call[r]]
          /\ certs' = "loaded"
          /\ UNCHANGED <<configured, newest, cache, faults>>
      BY <1>3 DEF Ver!CertsLoaded
    <2>2. ASSUME NEW r \in Requests
          PROVE  /\ call'[r] \in CallRecord
                 /\ Judged(call'[r], newest, configured, "loaded")
      <3>1. call[r] \in CallRecord
        BY <1>1 DEF VerTypes
      <3>2. CASE Ver!At(r, "wait")
        <4>1. call'[r] = [call[r] EXCEPT !.pc = "call"]
          BY <2>1, <3>2
        <4>2. /\ call'[r] \in CallRecord /\ call'[r].pc = "call"
              /\ call'[r].kind = call[r].kind /\ call'[r].key = call[r].key
              /\ call'[r].genuine = call[r].genuine
          BY <3>1, <4>1 DEF CallRecord
        <4> QED BY <1>1, <4>2 DEF Judged
      <3>3. CASE ~Ver!At(r, "wait")
        BY <1>1, <2>1, <3>1, <3>3 DEF Judged, Ver!At
      <3> QED BY <3>2, <3>3
    <2>3. call' \in [Requests -> CallRecord]
      BY <2>1, <2>2
    <2> QED BY <1>1, <2>1, <2>2, <2>3 DEF VerInv, VerTypes, CertStates
  <1>4. CASE Ver!CertsFail
    <2>1. /\ call' = [r \in Requests |->
                        IF Ver!At(r, "wait")
                        THEN [call[r] EXCEPT !.pc = "unavailable", !.failed = TRUE]
                        ELSE call[r]]
          /\ certs' = "none" /\ faults < Faults /\ faults' = faults + 1
          /\ UNCHANGED <<configured, newest, cache>>
      BY <1>4 DEF Ver!CertsFail, Ver!Fault
    <2>2. ASSUME NEW r \in Requests
          PROVE  /\ call'[r] \in CallRecord
                 /\ Judged(call'[r], newest, configured, "none")
      <3>1. call[r] \in CallRecord
        BY <1>1 DEF VerTypes
      <3>2. CASE Ver!At(r, "wait")
        <4>1. call'[r] = [call[r] EXCEPT !.pc = "unavailable", !.failed = TRUE]
          BY <2>1, <3>2
        <4>2. /\ call'[r] \in CallRecord /\ call'[r].pc = "unavailable"
              /\ call'[r].kind = call[r].kind /\ call'[r].key = call[r].key
              /\ call'[r].genuine = call[r].genuine /\ call'[r].failed
          BY <3>1, <4>1 DEF CallRecord, Ver!Verdicts
        <4> QED BY <1>1, <4>2 DEF Judged
      <3>3. CASE ~Ver!At(r, "wait")
        BY <1>1, <2>1, <3>1, <3>3 DEF Judged, Ver!At
      <3> QED BY <3>2, <3>3
    <2>3. call' \in [Requests -> CallRecord]
      BY <2>1, <2>2
    <2>4. faults' \in 0 .. Faults
      <3>1. faults \in 0 .. Faults /\ Faults \in Nat
        BY <1>1 DEF VerTypes
      <3>2. faults < Faults /\ faults' = faults + 1
        BY <2>1
      <3> QED BY <3>1, <3>2
    <2> QED BY <1>1, <2>1, <2>2, <2>3, <2>4 DEF VerInv, VerTypes, CertStates
  <1> QED BY <1>2, <1>3, <1>4

LEMMA SaidKeeps ==
  ASSUME VerInv, NEW r \in Requests, NEW kind \in Ver!Kinds \ {"admob"},
         NEW twice \in BOOLEAN, Ver!Said(r, kind, twice)
  PROVE  VerInv'
  <1> DEFINE pc == IF ~call[r].genuine THEN "invalid"
                   ELSE IF twice /\ Ver!At(r, "call") THEN "second"
                   ELSE "ok"
             c == [call[r] EXCEPT !.pc = pc]
  <1>1. /\ call' = [call EXCEPT ![r] = c] /\ call[r].kind # "admob"
        /\ UNCHANGED <<configured, newest, cache, certs, faults>>
        /\ call[r] \in CallRecord
        /\ Judged(call[r], newest, configured, certs)
    BY DEF Ver!Said, Ver!Goes, Ver!Calling, VerInv, VerTypes
  <1>2. /\ pc \in {"invalid", "second", "ok"}
        /\ pc = "invalid" => ~call[r].genuine
        /\ pc = "ok" => call[r].genuine
    OBVIOUS
  <1> HIDE DEF pc
  <1>3. /\ c \in CallRecord /\ c.pc = pc /\ c.kind = call[r].kind
        /\ c.genuine = call[r].genuine /\ c.key = call[r].key
    BY <1>1, <1>2 DEF CallRecord, Ver!Verdicts
  <1> HIDE DEF c
  <1>4. Judged(c, newest, configured, certs)
    BY <1>1, <1>2, <1>3 DEF Judged
  <1> QED BY <1>1, <1>3, <1>4, CallGoes

LEMMA FailsKeeps ==
  ASSUME PartsAssumption, VerInv, NEW r \in Requests,
         NEW kind \in Ver!Kinds \ {"admob"}, NEW how \in {"status", "lost"},
         NEW pcs \in SUBSET {"invalid", "unavailable"},
         Ver!FailsAs(r, kind, how, pcs),
         "invalid" \in pcs => \/ kind \in {"appstore", "notice", "rtdn"}
                              \/ kind = "apple" /\ how = "status"
  PROVE  VerInv'
  <1>1. /\ call[r].kind = kind /\ faults < Faults /\ faults' = faults + 1
        /\ UNCHANGED <<configured, newest, cache, certs>>
        /\ VerTypes /\ call[r] \in CallRecord /\ Faults \in Nat
        /\ Judged(call[r], newest, configured, certs)
    BY DEF Ver!FailsAs, Ver!Calling, Ver!Fault, VerInv, VerTypes,
           PartsAssumption, Ver!VerifiersAssumption
  <1>2. PICK pc \in pcs :
          call' = [call EXCEPT ![r].pc = pc, ![r].failed = TRUE,
                               ![r].cause = how]
    BY DEF Ver!FailsAs
  <1> DEFINE c == [call[r] EXCEPT !.pc = pc, !.failed = TRUE, !.cause = how]
  <1>3. call' = [call EXCEPT ![r] = c] /\ pc \in {"invalid", "unavailable"}
    BY <1>2
  <1>4. /\ c \in CallRecord /\ c.pc = pc /\ c.kind = kind
        /\ c.genuine = call[r].genuine /\ c.key = call[r].key
        /\ c.failed /\ c.cause = how
    BY <1>1, <1>3 DEF CallRecord, Ver!Verdicts
  <1> HIDE DEF c
  <1>5. Judged(c, newest, configured, certs)
    BY <1>1, <1>2, <1>3, <1>4 DEF Judged
  <1>6. /\ faults' \in 0 .. Faults /\ cache' \in CacheRecord
        /\ certs' \in CertStates /\ certs' = certs
    BY <1>1 DEF VerTypes
  <1> QED BY <1>1, <1>3, <1>4, <1>5, <1>6, CallWritten

LEMMA AnswersKeep ==
  ASSUME PartsAssumption, VerInv, NEW r \in Requests,
         \/ Ver!Transaction(r) \/ Ver!Notification(r) \/ Ver!ProductPurchase(r)
         \/ Ver!PushToken(r) \/ Ver!KakaoUser(r) \/ Ver!AppleToken(r)
         \/ \E how \in {"status", "lost"} :
              \/ Ver!TransactionFails(r, how) \/ Ver!NotificationFails(r, how)
              \/ Ver!PurchaseCallFails(r, how) \/ Ver!PushTokenFails(r, how)
              \/ Ver!KakaoFails(r, how) \/ Ver!AppleFails(r, how)
  PROVE  VerInv'
  <1>1. \A kind \in Ver!Kinds \ {"admob"}, twice \in BOOLEAN :
          Ver!Said(r, kind, twice) => VerInv'
    BY SaidKeeps
  <1>2. {"appstore", "notice", "play", "rtdn", "kakao", "apple"}
          = Ver!Kinds \ {"admob"}
    BY DEF Ver!Kinds
  <1>3. CASE \/ Ver!Transaction(r) \/ Ver!Notification(r)
             \/ Ver!ProductPurchase(r) \/ Ver!PushToken(r)
             \/ Ver!KakaoUser(r) \/ Ver!AppleToken(r)
    BY <1>1, <1>2, <1>3
    DEF Ver!Transaction, Ver!Notification, Ver!ProductPurchase,
        Ver!PushToken, Ver!KakaoUser, Ver!AppleToken
  <1>4. ASSUME NEW how \in {"status", "lost"},
               Ver!TransactionFails(r, how) \/ Ver!NotificationFails(r, how)
        PROVE  VerInv'
    <2>1. \A kind \in {"appstore", "notice"} :
            Ver!FailsAs(r, kind, how, {"invalid", "unavailable"}) => VerInv'
      BY <1>2, FailsKeeps
    <2> QED BY <1>4, <2>1 DEF Ver!TransactionFails, Ver!NotificationFails
  <1>5. ASSUME NEW how \in {"status", "lost"},
               Ver!PurchaseCallFails(r, how) \/ Ver!KakaoFails(r, how)
        PROVE  VerInv'
    <2>1. \A kind \in {"play", "kakao"} :
            Ver!FailsAs(r, kind, how, {"unavailable"}) => VerInv'
      BY <1>2, FailsKeeps
    <2> QED BY <1>5, <2>1 DEF Ver!PurchaseCallFails, Ver!KakaoFails
  <1>6. ASSUME NEW how \in {"status", "lost"}, Ver!PushTokenFails(r, how)
        PROVE  VerInv'
    <2>1. Ver!FailsAs(r, "rtdn", how, {"invalid"})
      BY <1>6 DEF Ver!PushTokenFails
    <2> QED BY <1>2, <2>1, FailsKeeps
  <1>7. ASSUME NEW how \in {"status", "lost"}, Ver!AppleFails(r, how)
        PROVE  VerInv'
    <2> DEFINE pc == IF how = "status" THEN "invalid" ELSE "unavailable"
    <2>1. Ver!FailsAs(r, "apple", how, {pc})
      BY <1>7 DEF Ver!AppleFails
    <2>2. pc \in {"invalid", "unavailable"} /\ (pc = "invalid" => how = "status")
      OBVIOUS
    <2> HIDE DEF pc
    <2>3. {pc} \in SUBSET {"invalid", "unavailable"}
          /\ ("invalid" \in {pc} => how = "status")
      BY <2>2
    <2> DEFINE pcs == {pc}
    <2> HIDE DEF pcs
    <2>4. /\ Ver!FailsAs(r, "apple", how, pcs)
          /\ pcs \in SUBSET {"invalid", "unavailable"}
          /\ "invalid" \in pcs => how = "status"
      BY <2>1, <2>3 DEF pcs
    <2> QED BY <1>2, <2>4, FailsKeeps
  <1> QED BY <1>3, <1>4, <1>5, <1>6, <1>7

LEMMA RestKeeps ==
  ASSUME PartsAssumption, VerInv,
         \/ \E r \in Requests : Ver!Lapses(r) \/ Ver!Again(r)
         \/ Ver!Rotate \/ Ver!Ages
         \/ UNCHANGED verifierVars
  PROVE  VerInv'
  <1>1. /\ VerTypes /\ MaxKey \in Nat /\ Ver!Keys = 0 .. MaxKey
        /\ \A r \in Requests : /\ Judged(call[r], newest, configured, certs)
                               /\ call[r] \in CallRecord
    BY DEF VerInv, VerTypes, PartsAssumption, Ver!VerifiersAssumption, Ver!Keys
  <1>2. ASSUME NEW r \in Requests, Ver!Lapses(r) PROVE VerInv'
    <2> DEFINE c == [call[r] EXCEPT !.genuine = FALSE]
    <2>1. /\ call' = [call EXCEPT ![r] = c]
          /\ call[r].pc \in {"certs", "wait", "call", "second"}
          /\ UNCHANGED <<configured, newest, cache, certs, faults>>
      BY <1>2 DEF Ver!Lapses
    <2>2. c \in CallRecord /\ c.pc = call[r].pc /\ ~c.genuine
      BY <1>1 DEF CallRecord
    <2> HIDE DEF c
    <2>3. Judged(c, newest, configured, certs)
      BY <1>1, <2>1, <2>2 DEF Judged
    <2> QED BY <2>1, <2>2, <2>3, CallGoes
  <1>3. ASSUME NEW r \in Requests, Ver!Again(r) PROVE VerInv'
    <2>1. /\ call' = [call EXCEPT ![r] = Ver!Idle]
          /\ UNCHANGED <<configured, newest, cache, certs, faults>>
      BY <1>3 DEF Ver!Again
    <2>2. /\ Ver!Idle \in CallRecord
          /\ Judged(Ver!Idle, newest, configured, certs)
      BY <1>1 DEF CallRecord, Judged, Ver!Idle, Ver!Kinds
    <2> QED BY <2>1, <2>2, CallGoes
  <1>4. CASE Ver!Rotate
    <2>1. /\ newest < MaxKey /\ newest' = newest + 1
          /\ UNCHANGED <<configured, cache, certs, call, faults>>
      BY <1>4 DEF Ver!Rotate
    <2>2. newest \in Int /\ newest' \in Ver!Keys
      BY <1>1, <2>1 DEF VerTypes
    <2>3. ASSUME NEW r \in Requests
          PROVE  Judged(call[r], newest + 1, configured, certs)
      <3>1. call[r].key \in Int
        BY <1>1 DEF CallRecord
      <3> QED BY <1>1, <2>2, <3>1 DEF Judged
    <2> QED BY <1>1, <2>1, <2>2, <2>3 DEF VerInv, VerTypes
  <1>5. CASE Ver!Ages
    <2>1. /\ cache' = [cache EXCEPT !.state = "old"]
          /\ UNCHANGED <<configured, newest, certs, call, faults>>
      BY <1>5 DEF Ver!Ages
    <2>2. cache' \in CacheRecord
      BY <1>1, <2>1 DEF VerTypes, CacheRecord
    <2> QED BY <1>1, <2>1, <2>2 DEF VerInv, VerTypes
  <1>6. CASE UNCHANGED verifierVars
    BY <1>1, <1>6 DEF VerInv, VerTypes, verifierVars
  <1> QED BY <1>2, <1>3, <1>4, <1>5, <1>6

LEMMA VerSteps ==
  ASSUME PartsAssumption, VerInv, Ver!Next \/ UNCHANGED verifierVars
  PROVE  VerInv'
  <1>1. CASE \E r \in Requests, genuine \in BOOLEAN :
               \/ \E key \in Ver!Keys : Ver!AskAdmob(r, genuine, key)
               \/ \E kind \in {"appstore", "notice"} :
                    Ver!AskAppStore(r, kind, genuine)
               \/ Ver!AskPlay(r, genuine) \/ Ver!AskPush(r, genuine)
               \/ Ver!AskKakao(r, genuine) \/ Ver!AskApple(r, genuine)
    BY <1>1, AsksKeep
  <1>2. CASE \E r \in Requests :
               \/ Ver!ReadCache(r) \/ Ver!Send(r)
               \/ Ver!Fetched(r) \/ Ver!FetchFails(r)
    BY <1>2, AdmobKeeps
  <1>3. CASE \/ \E r \in Requests : Ver!NeedCerts(r)
             \/ Ver!CertsLoaded \/ Ver!CertsFail
    BY <1>3, CertsKeep
  <1>4. CASE \E r \in Requests :
               \/ Ver!Transaction(r) \/ Ver!Notification(r)
               \/ Ver!ProductPurchase(r)
               \/ Ver!PushToken(r) \/ Ver!KakaoUser(r) \/ Ver!AppleToken(r)
               \/ \E how \in {"status", "lost"} :
                    \/ Ver!TransactionFails(r, how)
                    \/ Ver!NotificationFails(r, how)
                    \/ Ver!PurchaseCallFails(r, how)
                    \/ Ver!PushTokenFails(r, how)
                    \/ Ver!KakaoFails(r, how) \/ Ver!AppleFails(r, how)
    BY <1>4, AnswersKeep
  <1>5. CASE \/ \E r \in Requests : Ver!Lapses(r) \/ Ver!Again(r)
             \/ Ver!Rotate \/ Ver!Ages
             \/ UNCHANGED verifierVars
    BY <1>5, RestKeeps
  <1> QED BY <1>1, <1>2, <1>3, <1>4, <1>5 DEF Ver!Next

LEMMA VerStarts ==
  ASSUME PartsAssumption, Ver!Init
  PROVE  VerInv
  <1>1. /\ 0 \in Ver!Keys /\ 0 \in 0 .. Faults /\ MaxKey \in Nat
    BY DEF PartsAssumption, Ver!VerifiersAssumption, Ver!Keys
  <1>2. /\ Ver!Idle \in CallRecord /\ Ver!NoKeys \in CacheRecord
        /\ Judged(Ver!Idle, newest, configured, certs)
    BY <1>1
    DEF CallRecord, CacheRecord, Judged, Ver!Idle, Ver!Kinds, Ver!NoKeys
  <1> QED BY <1>1, <1>2 DEF Ver!Init, VerInv, VerTypes, CertStates

LEMMA VerInductive == Spec => []VerInv
  <1>1. Init => VerInv
    BY VerStarts, PartsAssumption DEF Init
  <1>2. VerInv /\ [Next]_vars => VerInv'
    BY VerSteps, PartsAssumption DEF Next, vars, verifierVars
  <1> QED BY <1>1, <1>2, PTL DEF Spec

-----------------------------------------------------------------------------
(* Reports: the steps of a request.                                        *)

LEMMA RepConstants ==
  ASSUME PartsAssumption
  PROVE  /\ Window \in Nat \ {0} /\ Retention \in Nat /\ Retention >= Window
         /\ DailyLimit \in Nat \ {0} /\ MaxNow \in Nat
         /\ None \notin Persons /\ None \notin Requests
         /\ Friends \subseteq Persons /\ SenderOf \in [Parcels -> Persons]
  BY DEF PartsAssumption, Rep!ReportsAssumption

(* The instance counts as this module does.                                *)
LEMMA SameCount ==
  ASSUME NEW S
  PROVE  Rep!Cardinality(S) = Cardinality(S)
  BY DEF Rep!Cardinality, Cardinality

(* A request goes on, and no report is made or lost: whoever is told of a  *)
(* report or blocked besides, the others keep what they know.              *)
LEMMA RequestWritten ==
  ASSUME RepInv, NEW p \in Requests, NEW c \in ReportRecord,
         report' = [report EXCEPT ![p] = c],
         UNCHANGED <<day, here, members, parcels, reports>>,
         friends' \subseteq friends,
         blocked \subseteq blocked', blocked' \subseteq members,
         \/ told' = told
         \/ /\ report[p].pc = "answer" /\ report[p].created
            /\ told' = told \cup {report[p].report},
         holder' \in Requests \cup {None},
         \A q \in Requests \ {p} : holder' = q <=> holder = q,
         c.pc \in {"check", "repeat", "store"} <=> holder' = p,
         c.pc # "idle" => c.target \in Rep!Targets,
         c.pc \in {"repeat", "answer"} => c.report \in Rep!Report,
         c.pc = "store" =>
           /\ c.at = day
           /\ here => /\ Cardinality(Since(c.at - Window)) < DailyLimit
                      /\ \A r \in Since(c.at - Window) : r.target # c.target
                      /\ \A r \in reports : r.at <= c.at,
         c.pc \in {"repeat", "answer"} => OnRecord(c.report),
         c.pc = "answer" =>
           /\ ~c.created
           /\ c.block /\ c.person \in members /\ here => c.person \in blocked'
  PROVE  RepInv'
  <1>1. /\ RepTypes /\ Signed /\ Distinct /\ Rep!LimitsHold
        /\ \A q \in Requests : Locking(q) /\ Counted(q) /\ Answered(q)
    BY DEF RepInv
  <1>2. /\ report' \in [Requests -> ReportRecord] /\ report'[p] = c
        /\ \A q \in Requests \ {p} : report'[q] = report[q]
    BY <1>1 DEF RepTypes
  <1>3. told' \subseteq Rep!Report /\ Signed'
    BY <1>1 DEF Locking, Answered, RepTypes, Signed
  <1>4. RepTypes'
    BY <1>1, <1>2, <1>3 DEF RepTypes
  <1>5. \A q \in Requests : Locking(q)'
    BY <1>1, <1>2 DEF Locking
  <1>6. \A q \in Requests : Counted(q)'
    <2>1. \A t : Since(t)' = Since(t)
      BY DEF Since
    <2>2. Counted(p)'
      BY <1>2, <2>1 DEF Counted
    <2>3. ASSUME NEW q \in Requests \ {p} PROVE Counted(q)'
      BY <1>1, <1>2, <2>1 DEF Counted
    <2> QED BY <2>2, <2>3
  <1>7. \A q \in Requests : Answered(q)'
    <2>1. \A r : OnRecord(r) => OnRecord(r)'
      BY DEF OnRecord
    <2>2. Answered(p)'
      BY <1>2, <2>1 DEF Answered
    <2>3. ASSUME NEW q \in Requests \ {p} PROVE Answered(q)'
      <3>1. /\ report'[q] = report[q] /\ Answered(q)
        BY <1>1, <1>2
      <3>2. report[q].pc = "answer" /\ report[q].created =>
              report[q].report \notin told'
        BY <1>1, <3>1 DEF Answered, Distinct, Rep!At
      <3> QED BY <2>1, <3>1, <3>2 DEF Answered
    <2> QED BY <2>2, <2>3
  <1>8. Distinct'
    BY <1>1, <1>2 DEF Distinct, Rep!At
  <1>9. Rep!LimitsHold'
    BY <1>1 DEF Rep!LimitsHold
  <1> QED BY <1>3, <1>4, <1>5, <1>6, <1>7, <1>8, <1>9 DEF RepInv

LEMMA IdleTyped ==
  ASSUME PartsAssumption
  PROVE  Rep!Idle \in ReportRecord /\ Rep!Idle.pc = "idle"
  BY RepConstants DEF Rep!Idle, ReportRecord, Rep!NoReport

LEMMA BeginReport ==
  ASSUME PartsAssumption, RepInv, NEW p \in Requests,
         NEW t \in Rep!Targets, NEW b \in BOOLEAN, Rep!Begin(p, t, b)
  PROVE  RepInv'
  <1> DEFINE c == [Rep!Idle EXCEPT !.pc = "lock", !.target = t, !.block = b]
  <1>1. /\ report' = [report EXCEPT ![p] = c] /\ report[p].pc = "idle"
        /\ UNCHANGED <<day, here, members, friends, parcels, reports, blocked,
                       told, holder>>
    BY DEF Rep!Begin, Rep!At, Rep!data
  <1>2. c \in ReportRecord /\ c.pc = "lock" /\ c.target = t
    BY IdleTyped DEF ReportRecord
  <1> HIDE DEF c
  <1>3. RepTypes /\ Locking(p)
    BY DEF RepInv
  <1>4. holder # p
    BY <1>1, <1>3 DEF Locking
  <1> QED BY <1>1, <1>2, <1>3, <1>4, RequestWritten DEF RepTypes

LEMMA LockReport ==
  ASSUME PartsAssumption, RepInv, NEW p \in Requests, Rep!Lock(p)
  PROVE  RepInv'
  <1> DEFINE c == [report[p] EXCEPT !.pc = "check"]
  <1>1. /\ report' = [report EXCEPT ![p] = c] /\ report[p].pc = "lock"
        /\ holder = None /\ holder' = p
        /\ UNCHANGED <<day, here, members, friends, parcels, reports, blocked,
                       told>>
    BY DEF Rep!Lock, Rep!At, Rep!data
  <1>2. RepTypes /\ Locking(p) /\ report[p] \in ReportRecord
    BY DEF RepInv, RepTypes
  <1>3. c \in ReportRecord /\ c.pc = "check" /\ c.target = report[p].target
    BY <1>2 DEF ReportRecord
  <1>4. c.target \in Rep!Targets
    BY <1>1, <1>2, <1>3 DEF Locking
  <1> HIDE DEF c
  <1> QED BY <1>1, <1>2, <1>3, <1>4, RepConstants, RequestWritten DEF RepTypes

(* The reports of a target within the window are one at most, so the       *)
(* latest of them is it.                                                   *)
LEMMA RecentIsOne ==
  ASSUME PartsAssumption, RepInv, NEW t \in Rep!Targets, Rep!Recent(t) # {}
  PROVE  /\ Rep!Latest(Rep!Recent(t)) \in reports
         /\ Rep!Latest(Rep!Recent(t)) \in Rep!Report
  <1>1. /\ Signed /\ reports \subseteq Rep!Report /\ day \in Int
        /\ \A r \in reports : r.at \in Int
        /\ Rep!LimitsHold /\ Window \in Nat
    BY RepConstants DEF RepInv, RepTypes, Rep!Report
  <1>2. PICK r \in Rep!Recent(t) : TRUE
    OBVIOUS
  <1>3. \A s \in Rep!Recent(t) :
          s \in reports /\ s.target = t /\ s.at > day - Window /\ s.at <= day
    BY <1>1 DEF Rep!Recent, Rep!Mine, Signed
  <1>4. ASSUME NEW s \in Rep!Recent(t), NEW x \in Rep!Recent(t), s.at <= x.at
        PROVE  s = x
    <2>1. s.at > x.at - Window
      BY <1>1, <1>3, <1>4
    <2> QED BY <1>3, <1>4, <2>1, <1>1 DEF Rep!LimitsHold
  <1>5. \A s \in Rep!Recent(t) : s.at <= r.at
    <2>1. ASSUME NEW s \in Rep!Recent(t) PROVE s.at <= r.at
      <3>1. s.at <= r.at \/ r.at <= s.at
        BY <1>1, <1>3
      <3>2. s.at <= r.at \/ r = s
        BY <1>2, <1>4, <3>1
      <3> QED BY <1>1, <1>3, <3>2
    <2> QED BY <2>1
  <1>6. Rep!Latest(Rep!Recent(t)) \in Rep!Recent(t)
    BY <1>2, <1>5 DEF Rep!Latest
  <1> QED BY <1>1, <1>3, <1>6

LEMMA CheckReport ==
  ASSUME PartsAssumption, RepInv, NEW p \in Requests, Rep!Check(p)
  PROVE  RepInv'
  <1> DEFINE t == report[p].target
             person == Rep!PersonOf(t)
             latest == Rep!Latest(Rep!Recent(t))
  <1>1. /\ report[p].pc = "check"
        /\ UNCHANGED <<day, here, members, friends, parcels, reports, blocked,
                       told, holder>>
    BY DEF Rep!Check, Rep!At, Rep!data
  <1>2. /\ RepTypes /\ Locking(p) /\ report[p] \in ReportRecord /\ Signed
        /\ t \in Rep!Targets /\ day \in 0 .. MaxNow /\ day \in Int
        /\ members \subseteq Persons
    BY <1>1, RepConstants DEF RepInv, RepTypes, Locking
  <1>3. person \in Persons \cup {None}
    BY <1>2, RepConstants DEF Rep!PersonOf, Rep!Targets
  <1> HIDE DEF person, latest
  <1>4. CASE /\ Rep!Recent(t) # {}
             /\ report' = [report EXCEPT ![p].pc = "repeat", ![p].at = day,
                                         ![p].person = person,
                                         ![p].report = latest]
    <2> DEFINE c == [report[p] EXCEPT !.pc = "repeat", !.at = day,
                                      !.person = person, !.report = latest]
    <2>1. latest \in reports /\ latest \in Rep!Report
      BY <1>2, <1>4, RecentIsOne DEF latest
    <2>2. /\ c \in ReportRecord /\ c.pc = "repeat" /\ c.target = t
          /\ c.report = latest
      BY <1>2, <1>3, <2>1 DEF ReportRecord
    <2>3. report' = [report EXCEPT ![p] = c]
      BY <1>4
    <2> HIDE DEF c
    <2>4. OnRecord(c.report)
      BY <2>1, <2>2 DEF OnRecord
    <2>5. holder = p
      BY <1>1, <1>2 DEF Locking
    <2> QED BY <1>1, <1>2, <2>1, <2>2, <2>3, <2>4, <2>5, RequestWritten
            DEF RepTypes
  <1>5. CASE /\ Rep!Recent(t) = {}
             /\ Cardinality(Rep!Mine(day - Window)) < DailyLimit
             /\ report' = [report EXCEPT ![p].pc = "store", ![p].at = day,
                                         ![p].person = person]
    <2> DEFINE c == [report[p] EXCEPT !.pc = "store", !.at = day,
                                      !.person = person]
    <2>1. /\ c \in ReportRecord /\ c.pc = "store" /\ c.target = t /\ c.at = day
      BY <1>2, <1>3 DEF ReportRecord
    <2>2. report' = [report EXCEPT ![p] = c]
      BY <1>5
    <2> HIDE DEF c
    <2>3. here => Rep!Mine(day - Window) = Since(day - Window)
      BY <1>2 DEF Signed, Rep!Mine, Since
    <2>4. here => \A r \in Since(day - Window) : r.target # t
      BY <1>5, <2>3 DEF Rep!Recent
    <2>5. \A r \in reports : r.at <= day
      BY <1>2 DEF Signed
    <2>6. holder = p
      BY <1>1, <1>2 DEF Locking
    <2>7. here => /\ Cardinality(Since(c.at - Window)) < DailyLimit
                  /\ \A r \in Since(c.at - Window) : r.target # c.target
                  /\ \A r \in reports : r.at <= c.at
      BY <1>5, <2>1, <2>3, <2>4, <2>5
    <2>8. /\ friends' \subseteq friends /\ blocked \subseteq blocked'
          /\ blocked' \subseteq members /\ told' = told
          /\ holder' \in Requests \cup {None} /\ holder' = holder
      BY <1>1, <1>2 DEF RepTypes
    <2> QED BY <1>1, <1>2, <2>1, <2>2, <2>6, <2>7, <2>8, RequestWritten
  <1>6. \/ /\ Rep!Recent(t) # {}
           /\ report' = [report EXCEPT ![p].pc = "repeat", ![p].at = day,
                                       ![p].person = Rep!PersonOf(t),
                                       ![p].report =
                                          Rep!Latest(Rep!Recent(t))]
        \/ /\ Rep!Recent(t) = {}
           /\ Cardinality(Rep!Mine(day - Window)) < DailyLimit
           /\ report' = [report EXCEPT ![p].pc = "store", ![p].at = day,
                                       ![p].person = Rep!PersonOf(t)]
    BY SameCount DEF Rep!Check
  <1> QED BY <1>4, <1>5, <1>6 DEF person, latest

LEMMA RepeatReport ==
  ASSUME PartsAssumption, RepInv, NEW p \in Requests, Rep!Repeat(p)
  PROVE  RepInv'
  <1> DEFINE c == [report[p] EXCEPT !.pc = "answer",
                                    !.report = report[p].report,
                                    !.created = FALSE]
  <1>1. /\ report[p].pc = "repeat"
        /\ report' = [report EXCEPT ![p] = c]
        /\ holder' = IF holder = p THEN None ELSE holder
        /\ UNCHANGED <<day, here, members, parcels, told, reports>>
    BY DEF Rep!Repeat, Rep!Commit, Rep!At
  <1>2. /\ RepTypes /\ Locking(p) /\ Answered(p) /\ report[p] \in ReportRecord
    BY DEF RepInv, RepTypes
  <1>3. /\ c \in ReportRecord /\ c.pc = "answer" /\ ~c.created
        /\ c.report = report[p].report /\ c.target = report[p].target
        /\ c.block = report[p].block /\ c.person = report[p].person
    BY <1>2 DEF ReportRecord
  <1> HIDE DEF c
  <1>4. /\ friends' \subseteq friends /\ blocked \subseteq blocked'
        /\ blocked' \subseteq members
        /\ c.block /\ c.person \in members /\ here => c.person \in blocked'
    BY <1>2, <1>3, RepConstants DEF RepTypes, Rep!Repeat, Rep!Block
  <1>5. /\ OnRecord(c.report) /\ c.report \in Rep!Report
        /\ c.target \in Rep!Targets
    BY <1>1, <1>2, <1>3 DEF Answered, Locking
  <1>6. /\ holder' \in Requests \cup {None} /\ holder' # p
        /\ \A q \in Requests \ {p} : holder' = q <=> holder = q
    BY <1>1, <1>2, RepConstants DEF RepTypes
  <1> QED BY <1>1, <1>3, <1>4, <1>5, <1>6, RequestWritten

LEMMA EndReport ==
  ASSUME PartsAssumption, RepInv, NEW p \in Requests,
         Rep!Tell(p) \/ Rep!Fail(p)
  PROVE  RepInv'
  <1> DEFINE c == Rep!Idle
  <1>1. /\ report' = [report EXCEPT ![p] = c]
        /\ UNCHANGED <<day, here, members, friends, parcels, reports, blocked>>
    BY DEF Rep!Tell, Rep!Fail, Rep!data
  <1>2. c \in ReportRecord /\ c.pc = "idle"
    BY IdleTyped
  <1> HIDE DEF c
  <1>3. RepTypes /\ Locking(p)
    BY DEF RepInv
  <1>4. \/ told' = told
        \/ /\ report[p].pc = "answer" /\ report[p].created
           /\ told' = told \cup {report[p].report}
    BY DEF Rep!Tell, Rep!Fail, Rep!At
  <1>5. /\ holder' \in Requests \cup {None} /\ holder' # p
        /\ \A q \in Requests \ {p} : holder' = q <=> holder = q
    BY <1>3, RepConstants DEF RepTypes, Locking, Rep!Tell, Rep!Fail, Rep!At
  <1> QED BY <1>1, <1>2, <1>3, <1>4, <1>5, RequestWritten DEF RepTypes

(* The new report is within the limits: what Check counted is all there is *)
(* of its day, and it is the last of that day.                             *)
LEMMA StoredWithinLimits ==
  ASSUME PartsAssumption, RepInv, here, NEW r \in Rep!Report,
         reports' = reports \cup {r},
         Cardinality(Since(r.at - Window)) < DailyLimit,
         \A s \in Since(r.at - Window) : s.target # r.target,
         \A s \in reports : s.at <= r.at
  PROVE  Rep!LimitsHold' /\ IsFiniteSet(reports')
  <1> DEFINE Day(S, s) == {x \in S : x.at <= s.at /\ x.at > s.at - Window}
             new == Since(r.at - Window)
  <1>1. /\ RepTypes /\ Window \in Nat \ {0} /\ DailyLimit \in Nat \ {0}
        /\ IsFiniteSet(reports) /\ r.at \in Int
        /\ \A s \in reports : s.at \in Int
        /\ \A s \in reports : /\ Cardinality(Day(reports, s)) <= DailyLimit
                              /\ \A x \in Day(reports, s) :
                                   x.target = s.target => x = s
    <2>1. \A s \in reports : /\ Rep!Cardinality(Day(reports, s)) <= DailyLimit
                             /\ \A x \in Day(reports, s) :
                                  x.target = s.target => x = s
      BY DEF RepInv, Rep!LimitsHold
    <2>2. /\ RepTypes /\ IsFiniteSet(reports) /\ r.at \in Int
          /\ \A s \in reports : s.at \in Int
      BY RepConstants DEF RepInv, RepTypes, Rep!Report
    <2> HIDE DEF Day
    <2> QED BY <2>1, <2>2, RepConstants, SameCount
  <1>2. IsFiniteSet(reports') /\ IsFiniteSet(new)
    BY <1>1, FS_AddElement, FS_Subset DEF Since
  <1>3. Cardinality(new \cup {r}) <= DailyLimit
    <2>1. /\ Cardinality(new) \in Nat
          /\ Cardinality(new \cup {r}) \in {Cardinality(new), Cardinality(new) + 1}
      BY <1>2, FS_AddElement, FS_CardinalityType
    <2> QED BY <1>1, <2>1
  <1>4. ASSUME NEW s \in reports'
        PROVE  /\ Cardinality(Day(reports', s)) <= DailyLimit
               /\ \A x \in Day(reports', s) : x.target = s.target => x = s
    <2>1. CASE s.at = r.at
      <3>1. Day(reports', s) = new \cup {r}
        BY <1>1, <2>1 DEF Since
      <3>2. ASSUME NEW x \in Day(reports', s), x.target = s.target
            PROVE  x = s
        <4>1. CASE s = r
          BY <3>1, <3>2, <4>1
        <4>2. CASE s # r
          <5>1. s \in reports /\ s \in new
            BY <1>1, <2>1, <4>2 DEF Since
          <5>2. x \in reports /\ x \in Day(reports, s)
            BY <3>1, <3>2, <5>1 DEF Since
          <5> QED BY <1>1, <3>2, <5>1, <5>2
        <4> QED BY <4>1, <4>2
      <3> QED BY <1>3, <3>1, <3>2
    <2>2. CASE s.at # r.at
      <3>1. s \in reports /\ s.at < r.at
        BY <1>1, <2>2
      <3>2. Day(reports', s) = Day(reports, s)
        BY <1>1, <3>1
      <3> QED BY <1>1, <3>1, <3>2
    <2> QED BY <2>1, <2>2
  <1>5. \A s \in reports' :
          LET d == {x \in reports' : x.at <= s.at /\ x.at > s.at - Window}
          IN  /\ Rep!Cardinality(d) <= DailyLimit
              /\ \A x \in d : x.target = s.target => x = s
    BY <1>4, SameCount
  <1> QED BY <1>2, <1>5 DEF Rep!LimitsHold

LEMMA StoreReport ==
  ASSUME PartsAssumption, RepInv, NEW p \in Requests, Rep!Store(p)
  PROVE  RepInv'
  <1> DEFINE r == [target |-> report[p].target, at |-> report[p].at,
                   mine |-> TRUE]
             c == [report[p] EXCEPT !.pc = "answer", !.report = r,
                                    !.created = TRUE]
  <1>1. /\ report[p].pc = "store" /\ here /\ reports' = reports \cup {r}
        /\ report' = [report EXCEPT ![p] = c]
        /\ holder' = IF holder = p THEN None ELSE holder
        /\ UNCHANGED <<day, here, members, parcels, told>>
    BY DEF Rep!Store, Rep!Commit, Rep!At
  <1>2. /\ RepTypes /\ Signed /\ Distinct /\ report[p] \in ReportRecord
        /\ \A q \in Requests : Locking(q) /\ Counted(q) /\ Answered(q)
    BY DEF RepInv, RepTypes
  <1>3. report[p].target \in Rep!Targets /\ holder = p
    BY <1>1, <1>2 DEF Locking
  <1>4. /\ r \in Rep!Report /\ r.target = report[p].target
        /\ r.at = report[p].at /\ r.mine
    BY <1>2, <1>3 DEF Rep!Report, ReportRecord
  <1> HIDE DEF r
  <1>5. /\ c \in ReportRecord /\ c.pc = "answer" /\ c.created /\ c.report = r
        /\ c.target = report[p].target
        /\ c.block = report[p].block /\ c.person = report[p].person
    BY <1>2, <1>4 DEF ReportRecord
  <1> HIDE DEF c
  <1>6. /\ report' \in [Requests -> ReportRecord] /\ report'[p] = c
        /\ \A q \in Requests \ {p} : report'[q] = report[q]
    BY <1>1, <1>2, <1>5 DEF RepTypes
  <1>7. /\ r.at \in {day, day - 1}
        /\ Cardinality(Since(r.at - Window)) < DailyLimit
        /\ \A s \in Since(r.at - Window) : s.target # r.target
        /\ \A s \in reports : s.at <= r.at
    BY <1>1, <1>2, <1>4 DEF Counted
  <1>8. Rep!LimitsHold' /\ IsFiniteSet(reports')
    BY <1>1, <1>4, <1>7, StoredWithinLimits
  <1>9. r.at \in Int /\ day \in Int /\ r.at <= day
    BY <1>2, <1>4, <1>7, RepConstants DEF Rep!Report, RepTypes
  <1>10. r \notin reports /\ r \notin told
    <2>1. r \notin reports
      <3>1. r.at > r.at - Window
        BY <1>9, RepConstants
      <3> QED BY <1>7, <3>1 DEF Since
    <2> QED BY <1>1, <1>2, <2>1 DEF Signed
  <1>11. /\ friends' \subseteq friends /\ blocked \subseteq blocked'
         /\ blocked' \subseteq members
         /\ c.block /\ c.person \in members /\ here => c.person \in blocked'
    BY <1>1, <1>2, <1>5, RepConstants DEF RepTypes, Rep!Store, Rep!Block
  <1>12. holder' = None /\ None \notin Requests
    BY <1>1, <1>3, RepConstants
  <1>13. RepTypes' /\ Signed'
    BY <1>1, <1>2, <1>4, <1>6, <1>8, <1>9, <1>11, <1>12 DEF RepTypes, Signed
  <1>14. Distinct'
    <2>1. \A q \in Requests \ {p} :
            report[q].pc = "answer" /\ report[q].created => report[q].report # r
      BY <1>1, <1>2, <1>10 DEF Answered
    <2> QED BY <1>2, <1>5, <1>6, <2>1 DEF Distinct, Rep!At
  <1>15. ASSUME NEW q \in Requests \ {p}
         PROVE  Locking(q)' /\ Counted(q)' /\ Answered(q)'
    <2>1. report'[q] = report[q] /\ holder # q
      BY <1>3, <1>6
    <2>2. report[q].pc \notin {"check", "repeat", "store"}
      BY <1>2, <2>1 DEF Locking
    <2>3. Locking(q)' /\ Counted(q)'
      BY <1>2, <1>12, <2>1, <2>2 DEF Locking, Counted
    <2>4. \A s : OnRecord(s) => OnRecord(s)'
      BY <1>1 DEF OnRecord
    <2>5. Answered(q)'
      BY <1>1, <1>2, <1>11, <2>1, <2>4 DEF Answered
    <2> QED BY <2>3, <2>5
  <1>16. Locking(p)' /\ Counted(p)'
    BY <1>3, <1>4, <1>5, <1>6, <1>12 DEF Locking, Counted
  <1>17. Answered(p)'
    <2>1. r \in reports'
      BY <1>1
    <2> QED BY <1>1, <1>4, <1>5, <1>6, <1>7, <1>10, <1>11, <2>1
            DEF Answered, OnRecord
  <1> QED BY <1>8, <1>13, <1>14, <1>15, <1>16, <1>17 DEF RepInv

-----------------------------------------------------------------------------
(* Reports: the clock, the clean-up and the others.                        *)

LEMMA TickReports ==
  ASSUME PartsAssumption, RepInv, Rep!Tick
  PROVE  RepInv'
  <1>1. /\ day < MaxNow /\ day' = day + 1
        /\ UNCHANGED <<here, members, friends, parcels, reports, blocked, told,
                       holder, report>>
        /\ \A p \in Requests : Rep!Short(p)
    BY DEF Rep!Tick, Rep!data
  <1>2. /\ RepTypes /\ Signed /\ Distinct /\ Rep!LimitsHold
        /\ \A p \in Requests : Locking(p) /\ Counted(p) /\ Answered(p)
        /\ day \in Int /\ \A r \in Rep!Report : r.at \in Int
        /\ day' \in 0 .. MaxNow
    BY <1>1, RepConstants DEF RepInv, RepTypes, Rep!Report
  <1>3. RepTypes'
    BY <1>1, <1>2 DEF RepTypes
  <1>4. Signed'
    BY <1>1, <1>2 DEF Signed, RepTypes
  <1>5. Rep!LimitsHold' /\ Distinct'
    BY <1>1, <1>2 DEF Rep!LimitsHold, Distinct, Rep!At
  <1>6. ASSUME NEW p \in Requests
        PROVE  Locking(p)' /\ Counted(p)' /\ Answered(p)'
    <2>1. Locking(p)'
      BY <1>1, <1>2 DEF Locking
    <2>2. Counted(p)'
      BY <1>1, <1>2 DEF Counted, Rep!Short, Since
    <2>3. \A r \in Rep!Report : OnRecord(r) => OnRecord(r)'
      BY <1>1, <1>2, RepConstants DEF OnRecord
    <2>4. Answered(p)'
      <3>1. ASSUME report[p].pc \in {"repeat", "answer"}
            PROVE  OnRecord(report[p].report)'
        <4>1. report[p].report \in Rep!Report /\ OnRecord(report[p].report)
          BY <1>2, <3>1 DEF Locking, Answered
        <4>2. \/ report[p].report \in reports
              \/ Rep!Forget(report[p].report) \in reports
              \/ report[p].report.at < day' - Retention
          BY <1>1, <1>2, <4>1, RepConstants DEF OnRecord
        <4> QED BY <1>1, <4>2 DEF OnRecord
      <3>2. report[p].pc = "answer" /\ report[p].created =>
              report[p].report.at = day' - 1
        BY <1>1, <1>2 DEF Rep!Short, Rep!At
      <3> QED BY <1>1, <1>2, <3>1, <3>2 DEF Answered
    <2> QED BY <2>1, <2>2, <2>4
  <1> QED BY <1>3, <1>4, <1>5, <1>6 DEF RepInv

LEMMA PurgeReports ==
  ASSUME PartsAssumption, RepInv, Rep!PurgeExpired
  PROVE  RepInv'
  <1>1. /\ reports' = {r \in reports : r.at >= day - Retention}
        /\ told' = told \cap reports'
        /\ UNCHANGED <<day, here, members, friends, parcels, blocked, holder,
                       report>>
    BY DEF Rep!PurgeExpired, Rep!data
  <1>2. /\ RepTypes /\ Signed /\ Distinct /\ Rep!LimitsHold
        /\ \A p \in Requests : Locking(p) /\ Counted(p) /\ Answered(p)
        /\ day \in Int /\ \A r \in Rep!Report : r.at \in Int
    BY RepConstants DEF RepInv, RepTypes, Rep!Report
  <1>3. reports' \subseteq reports /\ IsFiniteSet(reports')
        /\ IsFiniteSet(reports) /\ reports \subseteq Rep!Report
    BY <1>1, <1>2, FS_Subset DEF RepTypes
  <1>4. RepTypes' /\ Signed'
    BY <1>1, <1>2, <1>3 DEF RepTypes, Signed
  <1>5. Rep!LimitsHold'
    <2> SUFFICES ASSUME NEW r \in reports'
                 PROVE  LET d == {s \in reports' :
                                    s.at <= r.at /\ s.at > r.at - Window}
                        IN  /\ Rep!Cardinality(d) <= DailyLimit
                            /\ \A s \in d : s.target = r.target => s = r
      BY DEF Rep!LimitsHold
    <2> DEFINE d == {s \in reports : s.at <= r.at /\ s.at > r.at - Window}
               e == {s \in reports' : s.at <= r.at /\ s.at > r.at - Window}
    <2>1. /\ r \in reports /\ Rep!Cardinality(d) <= DailyLimit
          /\ \A s \in d : s.target = r.target => s = r
      BY <1>2, <1>3 DEF Rep!LimitsHold
    <2>2. e \subseteq d /\ d \subseteq reports
      BY <1>3
    <2> HIDE DEF d, e
    <2>3. /\ IsFiniteSet(d) /\ IsFiniteSet(e)
          /\ Cardinality(e) <= Cardinality(d)
          /\ Cardinality(d) \in Nat /\ Cardinality(e) \in Nat
      BY <1>3, <2>2, FS_Subset, FS_CardinalityType
    <2>4. Rep!Cardinality(e) <= DailyLimit
      BY <2>1, <2>3, SameCount, RepConstants
    <2> QED BY <2>1, <2>2, <2>4 DEF e
  <1>6. ASSUME NEW p \in Requests
        PROVE  Locking(p)' /\ Counted(p)' /\ Answered(p)'
    <2>1. Locking(p)'
      BY <1>1, <1>2 DEF Locking
    <2>2. Counted(p)'
      <3> SUFFICES ASSUME report[p].pc = "store", here
                   PROVE  LET c == report[p]
                          IN  /\ Cardinality(Since(c.at - Window)') < DailyLimit
                              /\ \A r \in Since(c.at - Window)' :
                                   r.target # c.target
                              /\ \A r \in reports' : r.at <= c.at
        BY <1>1, <1>2 DEF Counted, Since
      <3> DEFINE c == report[p]
                 S == {r \in reports : r.at > c.at - Window}
                 T == {r \in reports' : r.at > c.at - Window}
      <3>1. /\ Cardinality(S) < DailyLimit
            /\ \A r \in S : r.target # c.target
            /\ \A r \in reports : r.at <= c.at
        BY <1>2 DEF Counted, Since
      <3>2. T \subseteq S /\ S \subseteq reports
        BY <1>3
      <3>3. /\ IsFiniteSet(S) /\ IsFiniteSet(T)
            /\ Cardinality(T) <= Cardinality(S)
            /\ Cardinality(S) \in Nat /\ Cardinality(T) \in Nat
        <4> HIDE DEF S, T
        <4> QED BY <1>3, <3>2, FS_Subset, FS_CardinalityType
      <3>4. Cardinality(T) < DailyLimit
        <4> HIDE DEF S, T
        <4> QED BY <3>1, <3>3, RepConstants
      <3>5. T = Since(c.at - Window)'
        BY <1>1 DEF Since
      <3> QED BY <1>3, <3>1, <3>2, <3>4, <3>5
    <2>3. \A r \in Rep!Report : OnRecord(r) => OnRecord(r)'
      <3>1. \A r \in Rep!Report : Rep!Forget(r).at = r.at
        BY DEF Rep!Forget, Rep!Report
      <3>2. ASSUME NEW r \in Rep!Report, OnRecord(r)
            PROVE  \/ r \in reports' \/ Rep!Forget(r) \in reports'
                   \/ r.at < day - Retention
        BY <1>1, <1>2, <3>1, <3>2, RepConstants DEF OnRecord
      <3> QED BY <1>1, <3>2 DEF OnRecord
    <2>4. report[p].pc = "answer" /\ report[p].created /\ here =>
            report[p].report \in reports'
      <3>1. ASSUME report[p].pc = "answer", report[p].created, here
            PROVE  report[p].report \in reports'
        <4>1. /\ report[p].report \in reports
              /\ report[p].report.at \in {day, day - 1}
          BY <1>2, <3>1 DEF Answered
        <4>2. report[p].report.at >= day - Retention
          BY <1>2, <4>1, RepConstants
        <4> QED BY <1>1, <4>1, <4>2
      <3> QED BY <3>1
    <2>5. report[p].pc \in {"repeat", "answer"} => OnRecord(report[p].report)'
      BY <1>1, <1>2, <2>3 DEF Locking, Answered
    <2>6. Answered(p)'
      BY <1>1, <1>2, <2>4, <2>5 DEF Answered
    <2> QED BY <2>1, <2>2, <2>6
  <1>7. Distinct'
    BY <1>1, <1>2 DEF Distinct, Rep!At
  <1> QED BY <1>4, <1>5, <1>6, <1>7 DEF RepInv

LEMMA ReporterLeaves ==
  ASSUME PartsAssumption, RepInv, Rep!ReporterWithdraws
  PROVE  RepInv'
  <1>1. /\ here /\ here' = FALSE
        /\ reports' = {Rep!Forget(r) : r \in reports}
        /\ told' = {Rep!Forget(r) : r \in told}
        /\ blocked' = {} /\ friends' = {} /\ parcels' = {}
        /\ UNCHANGED <<day, members, holder, report>>
    BY DEF Rep!ReporterWithdraws
  <1>2. /\ RepTypes /\ Signed /\ Distinct /\ Rep!LimitsHold
        /\ \A p \in Requests : Locking(p) /\ Counted(p) /\ Answered(p)
        /\ reports \subseteq Rep!Report /\ told \subseteq Rep!Report
        /\ IsFiniteSet(reports)
    BY DEF RepInv, RepTypes
  <1>3. \A r \in Rep!Report :
          /\ Rep!Forget(r) \in Rep!Report /\ Rep!Forget(r).at = r.at
          /\ Rep!Forget(r).target = r.target /\ ~Rep!Forget(r).mine
          /\ Rep!Forget(Rep!Forget(r)) = Rep!Forget(r)
    BY DEF Rep!Forget, Rep!Report
  <1> DEFINE f == [r \in reports |-> Rep!Forget(r)]
  <1>4. IsFiniteSet(reports')
    <2>1. f \in Surjection(reports, reports')
      BY <1>1 DEF Surjection
    <2> QED BY <1>2, <2>1, FS_Surjection
  <1>5. RepTypes' /\ Signed'
    <2>1. reports' \subseteq Rep!Report /\ told' \subseteq Rep!Report
      BY <1>1, <1>2, <1>3
    <2>2. RepTypes'
      BY <1>1, <1>2, <1>4, <2>1 DEF RepTypes
    <2>3. \A q \in reports' : q.mine = FALSE /\ q.at <= day
      <3> SUFFICES ASSUME NEW q \in reports'
                   PROVE  q.mine = FALSE /\ q.at <= day
        OBVIOUS
      <3>1. PICK r \in reports : q = Rep!Forget(r)
        BY <1>1
      <3>2. r.at <= day /\ r \in Rep!Report
        BY <1>2 DEF Signed
      <3> QED BY <3>1, <3>2 DEF Rep!Forget, Rep!Report
    <2> QED BY <1>1, <2>2, <2>3 DEF Signed
  <1>6. Rep!LimitsHold'
    <2> SUFFICES ASSUME NEW q \in reports'
                 PROVE  LET d == {s \in reports' :
                                    s.at <= q.at /\ s.at > q.at - Window}
                        IN  /\ Rep!Cardinality(d) <= DailyLimit
                            /\ \A s \in d : s.target = q.target => s = q
      BY DEF Rep!LimitsHold
    <2>1. PICK r \in reports : q = Rep!Forget(r)
      BY <1>1
    <2> DEFINE d == {s \in reports : s.at <= r.at /\ s.at > r.at - Window}
               e == {s \in reports' : s.at <= q.at /\ s.at > q.at - Window}
    <2>2. /\ Rep!Cardinality(d) <= DailyLimit
          /\ \A s \in d : s.target = r.target => s = r
          /\ d \subseteq reports /\ r.at = q.at /\ r.target = q.target
      BY <1>2, <1>3, <2>1 DEF Rep!LimitsHold
    <2>3. e = {Rep!Forget(s) : s \in d}
      BY <1>1, <1>2, <1>3, <2>2
    <2>4. \A s \in e : s.target = q.target => s = q
      BY <1>2, <1>3, <2>1, <2>2, <2>3
    <2> HIDE DEF d, e
    <2> DEFINE h == [s \in d |-> Rep!Forget(s)]
    <2>5. IsFiniteSet(d) /\ h \in Surjection(d, e)
      <3>1. IsFiniteSet(d)
        BY <1>2, <2>2, FS_Subset
      <3>2. h \in Surjection(d, e)
        BY <2>3 DEF Surjection
      <3> QED BY <3>1, <3>2
    <2> HIDE DEF h
    <2>6. /\ Cardinality(e) <= Cardinality(d) /\ IsFiniteSet(e)
          /\ Cardinality(d) \in Nat /\ Cardinality(e) \in Nat
      BY <2>5, FS_Surjection, FS_CardinalityType
    <2>7. Rep!Cardinality(e) <= DailyLimit
      BY <2>2, <2>6, SameCount, RepConstants
    <2> QED BY <2>4, <2>7 DEF e
  <1>7. ASSUME NEW p \in Requests
        PROVE  Locking(p)' /\ Counted(p)' /\ Answered(p)'
    <2>1. Locking(p)' /\ Counted(p)'
      BY <1>1, <1>2 DEF Locking, Counted
    <2>2. report[p].pc \in {"repeat", "answer"} => OnRecord(report[p].report)'
      <3>1. ASSUME report[p].pc \in {"repeat", "answer"}
            PROVE  LET r == report[p].report
                   IN  \/ Rep!Forget(r) \in reports'
                       \/ r.at < day - Retention
        <4>1. report[p].report \in Rep!Report /\ OnRecord(report[p].report)
          BY <1>2, <3>1 DEF Locking, Answered
        <4>2. CASE Rep!Forget(report[p].report) \in reports
          <5>1. Rep!Forget(Rep!Forget(report[p].report))
                  = Rep!Forget(report[p].report)
            BY <1>3, <4>1
          <5> QED BY <1>1, <4>2, <5>1
        <4> QED BY <1>1, <4>1, <4>2 DEF OnRecord
      <3> QED BY <1>1, <3>1 DEF OnRecord
    <2>3. report[p].pc = "answer" /\ report[p].created =>
            report[p].report \notin told'
      BY <1>1, <1>2, <1>3 DEF Answered
    <2>4. Answered(p)'
      BY <1>1, <1>2, <2>2, <2>3 DEF Answered
    <2> QED BY <2>1, <2>4
  <1>8. Distinct'
    BY <1>1, <1>2 DEF Distinct, Rep!At
  <1> QED BY <1>5, <1>6, <1>7, <1>8 DEF RepInv

(* Others withdraw, tapes are deleted, or nothing happens.                 *)
LEMMA OthersLeave ==
  ASSUME PartsAssumption, RepInv,
         \/ \E u \in Persons : Rep!PersonWithdraws(u)
         \/ \E d \in Parcels : Rep!DeleteParcel(d)
         \/ UNCHANGED reportVars
  PROVE  RepInv'
  <1>1. /\ UNCHANGED <<day, here, reports, told, holder, report>>
        /\ members' \subseteq members /\ friends' \subseteq members'
        /\ blocked' \subseteq members' /\ parcels' \subseteq parcels
        /\ blocked \cap members' \subseteq blocked'
    BY DEF RepInv, RepTypes, Rep!PersonWithdraws, Rep!DeleteParcel, reportVars
  <1>2. /\ RepTypes /\ Signed /\ Distinct /\ Rep!LimitsHold
        /\ \A p \in Requests : Locking(p) /\ Counted(p) /\ Answered(p)
    BY DEF RepInv
  <1>3. RepTypes' /\ Signed' /\ Distinct' /\ Rep!LimitsHold'
    BY <1>1, <1>2 DEF RepTypes, Signed, Distinct, Rep!LimitsHold, Rep!At
  <1>4. ASSUME NEW p \in Requests
        PROVE  Locking(p)' /\ Counted(p)' /\ Answered(p)'
    <2>1. Locking(p)' /\ Counted(p)'
      BY <1>1, <1>2 DEF Locking, Counted, Since
    <2>2. \A r : OnRecord(r) => OnRecord(r)'
      BY <1>1 DEF OnRecord
    <2> QED BY <1>1, <1>2, <2>1, <2>2 DEF Answered
  <1> QED BY <1>3, <1>4 DEF RepInv

LEMMA RepSteps ==
  ASSUME PartsAssumption, RepInv, Rep!Next \/ UNCHANGED reportVars
  PROVE  RepInv'
  <1>1. ASSUME NEW p \in Requests,
               \/ \E t \in Rep!Targets, b \in BOOLEAN : Rep!Begin(p, t, b)
               \/ Rep!Lock(p) \/ Rep!Check(p) \/ Rep!Repeat(p)
               \/ Rep!Store(p) \/ Rep!Tell(p) \/ Rep!Fail(p)
        PROVE  RepInv'
    BY <1>1, BeginReport, LockReport, CheckReport, RepeatReport, StoreReport,
       EndReport
  <1> QED BY <1>1, TickReports, PurgeReports, ReporterLeaves, OthersLeave
          DEF Rep!Next

LEMMA RepStarts ==
  ASSUME PartsAssumption, Rep!Init
  PROVE  RepInv
  <1>1. /\ day = 0 /\ here = TRUE /\ members = Persons /\ friends = Friends
        /\ parcels = Parcels /\ reports = {} /\ blocked = {} /\ told = {}
        /\ holder = None /\ report = [p \in Requests |-> Rep!Idle]
    BY DEF Rep!Init
  <1>2. RepTypes
    BY <1>1, IdleTyped, RepConstants, FS_EmptySet DEF RepTypes
  <1>3. Signed /\ Rep!LimitsHold
    BY <1>1 DEF Signed, Rep!LimitsHold
  <1>4. \A p \in Requests : report[p].pc = "idle"
    BY <1>1, IdleTyped
  <1>5. Distinct /\ \A p \in Requests : Locking(p) /\ Counted(p) /\ Answered(p)
    BY <1>1, <1>4, RepConstants
    DEF Distinct, Locking, Counted, Answered, Rep!At
  <1> QED BY <1>2, <1>3, <1>5 DEF RepInv

LEMMA RepInductive == Spec => []RepInv
  <1>1. Init => RepInv
    BY RepStarts, PartsAssumption DEF Init
  <1>2. RepInv /\ [Next]_vars => RepInv'
    BY RepSteps, PartsAssumption DEF Next, vars, reportVars
  <1> QED BY <1>1, <1>2, PTL DEF Spec

-----------------------------------------------------------------------------
(* Finite sets, and functions by recursion. *)

(* Natural numbers have a least among them. *)
LEMMA LeastNumber ==
  ASSUME NEW T \in SUBSET Nat, T # {}
  PROVE  \E n \in T : \A m \in T : n <= m
  <1>1. PICK n \in T : \A m \in T : ~(<<m, n>> \in OpToRel(<, Nat))
    BY NatLessThanWellFounded, WFMin
  <1>2. ASSUME NEW m \in T
        PROVE  n <= m
    <2>1. <<m, n>> \notin {ss \in Nat \X Nat : ss[1] < ss[2]}
      BY <1>1 DEF OpToRel
    <2>2. m \in Nat /\ n \in Nat
      OBVIOUS
    <2> QED BY <2>1, <2>2
  <1> QED BY <1>2

(* Recursion: what f is in x is given, or follows from what it is in next  *)
(* of x, which is of a lower rank.                                         *)
Unfolds(f, S, stop, base, pre, next) ==
  f = [x \in S |-> IF x \in stop THEN base[x] ELSE pre[x] \o f[next[x]]]

UpTo(S, rank, n) == {x \in S : rank[x] <= n}

(* Two functions that unfold up to a rank agree where both do. *)
LEMMA OneUnfolding ==
  ASSUME NEW S, NEW stop, NEW base, NEW pre, NEW next, NEW rank \in [S -> Nat],
         \A x \in S \ stop : next[x] \in S /\ rank[next[x]] < rank[x],
         NEW n \in Nat, NEW m \in Nat, NEW f, NEW g,
         Unfolds(f, UpTo(S, rank, n), stop, base, pre, next),
         Unfolds(g, UpTo(S, rank, m), stop, base, pre, next)
  PROVE  \A x \in UpTo(S, rank, n) \cap UpTo(S, rank, m) : f[x] = g[x]
  <1> DEFINE D == UpTo(S, rank, n) \cap UpTo(S, rank, m)
             T == {rank[x] : x \in {y \in D : f[y] # g[y]}}
  <1> SUFFICES ASSUME \E x \in D : f[x] # g[x]
               PROVE  FALSE
    OBVIOUS
  <1>1. D \subseteq S
    BY DEF UpTo
  <1>2. T \in SUBSET Nat /\ T # {}
    BY <1>1
  <1>3. PICK k \in T : \A l \in T : k <= l
    <2> HIDE DEF T
    <2> QED BY <1>2, LeastNumber
  <1>4. PICK x \in D : rank[x] = k /\ f[x] # g[x]
    OBVIOUS
  <1>5. /\ f[x] = IF x \in stop THEN base[x] ELSE pre[x] \o f[next[x]]
        /\ g[x] = IF x \in stop THEN base[x] ELSE pre[x] \o g[next[x]]
    BY DEF Unfolds
  <1>6. x \in S \ stop
    BY <1>1, <1>4, <1>5
  <1>7. next[x] \in D /\ rank[next[x]] < k /\ rank[next[x]] \in Nat
    <2>1. next[x] \in S /\ rank[next[x]] < rank[x]
      BY <1>6
    <2>2. rank[next[x]] \in Nat /\ rank[x] \in Nat
      BY <2>1, <1>6
    <2>3. rank[x] <= n /\ rank[x] <= m
      BY DEF UpTo
    <2> QED BY <1>4, <2>1, <2>2, <2>3 DEF UpTo
  <1>8. f[next[x]] = g[next[x]]
    <2>1. rank[next[x]] \notin T
      <3>1. k \in Nat /\ \A l \in T : k <= l
        BY <1>2, <1>3
      <3> HIDE DEF T
      <3> QED BY <3>1, <1>7
    <2> QED BY <2>1, <1>7
  <1> QED BY <1>4, <1>5, <1>6, <1>8

(* There is one that unfolds up to a rank, ... *)
LEMMA SomeUnfolding ==
  ASSUME NEW S, NEW stop, NEW base, NEW pre, NEW next, NEW rank \in [S -> Nat],
         \A x \in S \ stop : next[x] \in S /\ rank[next[x]] < rank[x]
  PROVE  \A n \in Nat :
           \E f : Unfolds(f, UpTo(S, rank, n), stop, base, pre, next)
  <1> DEFINE T == {n \in Nat :
                    ~\E f : Unfolds(f, UpTo(S, rank, n), stop, base, pre, next)}
  <1> SUFFICES ASSUME T # {}
               PROVE  FALSE
    OBVIOUS
  <1>1. PICK n \in T : \A m \in T : n <= m
    <2>1. T \in SUBSET Nat
      OBVIOUS
    <2> HIDE DEF T
    <2> QED BY <2>1, LeastNumber
  <1>2. n \in Nat
    OBVIOUS
  <1>3. \A x \in S \ stop : rank[next[x]] \in Nat /\ rank[x] \in Nat
    OBVIOUS
  <1>4. \E f : \A x \in UpTo(S, rank, n) \ stop :
          /\ next[x] \in DOMAIN f
          /\ Unfolds(f, DOMAIN f, stop, base, pre, next)
          /\ \E m \in Nat : m < n /\ DOMAIN f = UpTo(S, rank, m)
    <2>1. CASE n = 0
      BY <2>1, <1>3 DEF UpTo
    <2>2. CASE n # 0
      <3>1. n - 1 \in Nat /\ n - 1 \notin T
        BY <1>1, <1>2, <2>2
      <3>2. PICK f : Unfolds(f, UpTo(S, rank, n - 1), stop, base, pre, next)
        BY <3>1
      <3>3. DOMAIN f = UpTo(S, rank, n - 1)
        BY <3>2 DEF Unfolds
      <3>4. \A x \in UpTo(S, rank, n) \ stop : next[x] \in UpTo(S, rank, n - 1)
        BY <1>2, <1>3 DEF UpTo
      <3> QED BY <3>1, <3>2, <3>3, <3>4, <1>2
    <2> QED BY <2>1, <2>2
  <1>5. PICK f : \A x \in UpTo(S, rank, n) \ stop :
          /\ next[x] \in DOMAIN f
          /\ Unfolds(f, DOMAIN f, stop, base, pre, next)
          /\ \E m \in Nat : m < n /\ DOMAIN f = UpTo(S, rank, m)
    BY <1>4
  <1> DEFINE g == [x \in UpTo(S, rank, n) |->
                     IF x \in stop THEN base[x] ELSE pre[x] \o f[next[x]]]
  <1>6. ASSUME NEW x \in UpTo(S, rank, n), x \notin stop
        PROVE  g[next[x]] = f[next[x]]
    <2>1. PICK m \in Nat : m < n /\ DOMAIN f = UpTo(S, rank, m)
      BY <1>5, <1>6
    <2>2. next[x] \in UpTo(S, rank, m) /\ next[x] \in UpTo(S, rank, n)
      BY <1>2, <1>3, <1>5, <1>6, <2>1 DEF UpTo
    <2>3. f[next[x]] = IF next[x] \in stop THEN base[next[x]]
                       ELSE pre[next[x]] \o f[next[next[x]]]
      BY <1>5, <1>6, <2>1, <2>2 DEF Unfolds
    <2> QED BY <2>2, <2>3
  <1>7. Unfolds(g, UpTo(S, rank, n), stop, base, pre, next)
    BY <1>6 DEF Unfolds
  <1> QED BY <1>7

(* So there is one function that unfolds everywhere.                       *)
LEMMA UnfoldingExists ==
  ASSUME NEW S, NEW stop, NEW base, NEW pre, NEW next, NEW rank \in [S -> Nat],
         \A x \in S \ stop : next[x] \in S /\ rank[next[x]] < rank[x]
  PROVE  \E f : Unfolds(f, S, stop, base, pre, next)
  <1> DEFINE G == [n \in Nat |->
                     CHOOSE f : Unfolds(f, UpTo(S, rank, n), stop, base, pre, next)]
             F == [x \in S |-> G[rank[x]][x]]
  <1>1. \A n \in Nat : Unfolds(G[n], UpTo(S, rank, n), stop, base, pre, next)
    BY SomeUnfolding
  <1> HIDE DEF G
  <1>2. ASSUME NEW x \in S
        PROVE  F[x] = IF x \in stop THEN base[x] ELSE pre[x] \o F[next[x]]
    <2>1. rank[x] \in Nat /\ x \in UpTo(S, rank, rank[x])
      BY DEF UpTo
    <2>2. G[rank[x]][x] = IF x \in stop THEN base[x]
                          ELSE pre[x] \o G[rank[x]][next[x]]
      BY <1>1, <2>1 DEF Unfolds
    <2>3. ASSUME x \notin stop
          PROVE  G[rank[x]][next[x]] = F[next[x]]
      <3>1. next[x] \in S /\ rank[next[x]] < rank[x] /\ rank[next[x]] \in Nat
        BY <2>3
      <3>2. next[x] \in UpTo(S, rank, rank[x]) \cap UpTo(S, rank, rank[next[x]])
        BY <2>1, <3>1 DEF UpTo
      <3>3. G[rank[x]][next[x]] = G[rank[next[x]]][next[x]]
        <4>1. /\ Unfolds(G[rank[x]], UpTo(S, rank, rank[x]),
                         stop, base, pre, next)
              /\ Unfolds(G[rank[next[x]]], UpTo(S, rank, rank[next[x]]),
                         stop, base, pre, next)
          BY <1>1, <2>1, <3>1
        <4> QED BY <2>1, <3>1, <3>2, <4>1, OneUnfolding
      <3> QED BY <3>1, <3>3
    <2> QED BY <2>2, <2>3
  <1>3. Unfolds(F, S, stop, base, pre, next)
    BY <1>2 DEF Unfolds
  <1> QED BY <1>3

-----------------------------------------------------------------------------
(* The order of keys, and what keyBetween finds between two of them. *)

(* What the assumptions say of the digits. *)
LEMMA KeyConstants ==
  PartsAssumption => /\ Base \in Nat /\ Base > 1
                     /\ Drw!Digits \subseteq Nat /\ 0 \in Drw!Digits
  BY DEF PartsAssumption, Drw!BaseAssumption, Drw!Digits

(* A digit written before both keeps the order. *)
LEMMA PrefixKeepsOrder ==
  ASSUME NEW x \in Drw!Digits, NEW a \in Seq(Drw!Digits),
         NEW b \in Seq(Drw!Digits), Drw!FracLess(a, b)
  PROVE  Drw!FracLess(<<x>> \o a, <<x>> \o b)
  <1>1. PICK i \in 1 .. Len(b) :
              /\ \A j \in 1 .. i - 1 : j <= Len(a) /\ a[j] = b[j]
              /\ i > Len(a) \/ a[i] < b[i]
    BY DEF Drw!FracLess
  <1> DEFINE c == <<x>> \o a
             d == <<x>> \o b
  <1>2. /\ Len(c) = Len(a) + 1 /\ Len(d) = Len(b) + 1
        /\ c[1] = x /\ d[1] = x
        /\ \A j \in 1 .. Len(a) : c[j + 1] = a[j]
        /\ \A j \in 1 .. Len(b) : d[j + 1] = b[j]
    OBVIOUS
  <1> HIDE DEF c, d
  <1>3. i + 1 \in 1 .. Len(d)
    BY <1>2
  <1>4. \A j \in 1 .. i : j <= Len(c) /\ c[j] = d[j]
    <2> SUFFICES ASSUME NEW j \in 1 .. i
                 PROVE  j <= Len(c) /\ c[j] = d[j]
      OBVIOUS
    <2>1. CASE j = 1
      BY <2>1, <1>2
    <2>2. CASE j # 1
      <3>1. j - 1 \in 1 .. i - 1 /\ j - 1 <= Len(a) /\ a[j - 1] = b[j - 1]
        BY <2>2, <1>1
      <3>2. j - 1 \in 1 .. Len(a) /\ j - 1 \in 1 .. Len(b) /\ j = (j - 1) + 1
        BY <3>1
      <3> QED BY <3>1, <3>2, <1>2
    <2> QED BY <2>1, <2>2
  <1>5. i + 1 > Len(c) \/ c[i + 1] < d[i + 1]
    <2>1. CASE i > Len(a)
      BY <2>1, <1>2
    <2>2. CASE ~(i > Len(a))
      <3>1. i \in 1 .. Len(a) /\ a[i] < b[i]
        BY <1>1, <2>2
      <3> QED BY <3>1, <1>2
    <2> QED BY <2>1, <2>2
  <1>6. Drw!FracLess(c, d)
    BY <1>3, <1>4, <1>5 DEF Drw!FracLess
  <1> QED BY <1>6 DEF c, d

(* The first digits decide, unless they are equal. *)
LEMMA FirstDigitDecides ==
  ASSUME PartsAssumption, NEW a \in Seq(Drw!Digits), NEW b \in Seq(Drw!Digits)
  PROVE  /\ Drw!FirstDigit(a) \in Drw!Digits
         /\ b # <<>> /\ (a = <<>> \/ Drw!FirstDigit(a) < b[1])
              => Drw!FracLess(a, b)
         /\ Drw!FracLess(a, b) =>
              b # <<>> /\ b[1] \in Drw!Digits /\ Drw!FirstDigit(a) <= b[1]
  <1>1. Drw!FirstDigit(a) \in Drw!Digits
    BY KeyConstants DEF Drw!FirstDigit
  <1>2. ASSUME b # <<>>, a = <<>> \/ Drw!FirstDigit(a) < b[1]
        PROVE  Drw!FracLess(a, b)
    <2>1. 1 \in 1 .. Len(b) /\ (1 > Len(a) \/ a[1] < b[1])
      BY <1>2 DEF Drw!FirstDigit
    <2>2. 1 .. 1 - 1 = {}
      OBVIOUS
    <2> QED BY <2>1, <2>2 DEF Drw!FracLess
  <1>3. ASSUME Drw!FracLess(a, b)
        PROVE  b # <<>> /\ b[1] \in Drw!Digits /\ Drw!FirstDigit(a) <= b[1]
    <2>1. PICK i \in 1 .. Len(b) :
                /\ \A j \in 1 .. i - 1 : j <= Len(a) /\ a[j] = b[j]
                /\ i > Len(a) \/ a[i] < b[i]
      BY <1>3 DEF Drw!FracLess
    <2>2. b # <<>> /\ b[1] \in Drw!Digits /\ b[1] \in Nat
      BY <2>1, KeyConstants
    <2>3. CASE i = 1
      BY <2>1, <2>2, <2>3, KeyConstants DEF Drw!FirstDigit
    <2>4. CASE i # 1
      <3>1. 1 \in 1 .. i - 1
        BY <2>4
      <3> QED BY <2>1, <2>2, <3>1 DEF Drw!FirstDigit
    <2> QED BY <2>2, <2>3, <2>4
  <1> QED BY <1>1, <1>2, <1>3

(* Where they are equal, what follows decides. *)
LEMMA RestDecides ==
  ASSUME PartsAssumption, NEW a \in Seq(Drw!Digits), NEW b \in Seq(Drw!Digits),
         Drw!FracLess(a, b), Drw!FirstDigit(a) = b[1], b[Len(b)] # 0
  PROVE  /\ Len(b) > 1 /\ Tail(b) \in Seq(Drw!Digits)
         /\ Len(Tail(b)) = Len(b) - 1 /\ Tail(b)[Len(Tail(b))] # 0
         /\ Drw!Rest(a) \in Seq(Drw!Digits)
         /\ Drw!FracLess(Drw!Rest(a), Tail(b))
  <1>1. PICK i \in 1 .. Len(b) :
              /\ \A j \in 1 .. i - 1 : j <= Len(a) /\ a[j] = b[j]
              /\ i > Len(a) \/ a[i] < b[i]
    BY DEF Drw!FracLess
  <1>2. b # <<>> /\ Len(b) \in Nat /\ Len(b) >= 1 /\ b[1] \in Nat
    BY <1>1, KeyConstants
  <1>3. CASE a = <<>>
    <2>1. b[1] = 0
      BY <1>3 DEF Drw!FirstDigit
    <2>2. Len(b) > 1
      BY <1>2, <2>1
    <2>3. /\ Tail(b) \in Seq(Drw!Digits) /\ Len(Tail(b)) = Len(b) - 1
          /\ \A j \in 1 .. Len(b) - 1 : Tail(b)[j] = b[j + 1]
      BY <1>2
    <2>4. Tail(b) # <<>> /\ <<>> \in Seq(Drw!Digits)
      <3>1. Len(Tail(b)) # 0
        BY <1>2, <2>2, <2>3
      <3>2. Len(<<>>) = 0 /\ <<>> \in Seq(Drw!Digits)
        OBVIOUS
      <3> QED BY <3>1, <3>2
    <2>5. Drw!Rest(a) = <<>>
      BY <1>3 DEF Drw!Rest
    <2>6. Drw!FracLess(<<>>, Tail(b))
      BY <2>3, <2>4, FirstDigitDecides
    <2> QED BY <1>2, <2>2, <2>3, <2>5, <2>6
  <1>4. CASE a # <<>>
    <2>1. a[1] = b[1] /\ a[1] \in Nat /\ Len(a) \in Nat /\ Len(a) >= 1
      BY <1>4, KeyConstants DEF Drw!FirstDigit
    <2>2. i # 1
      BY <1>1, <2>1
    <2>3. /\ Tail(b) \in Seq(Drw!Digits) /\ Len(Tail(b)) = Len(b) - 1
          /\ \A j \in 1 .. Len(b) - 1 : Tail(b)[j] = b[j + 1]
          /\ Len(b) > 1
      BY <1>1, <1>2, <2>2
    <2>4. /\ Drw!Rest(a) = Tail(a) /\ Tail(a) \in Seq(Drw!Digits)
          /\ Len(Tail(a)) = Len(a) - 1
          /\ \A j \in 1 .. Len(a) - 1 : Tail(a)[j] = a[j + 1]
      BY <1>4 DEF Drw!Rest
    <2>5. i - 1 \in 1 .. Len(Tail(b))
      BY <1>1, <2>2, <2>3
    <2>6. ASSUME NEW j \in 1 .. i - 2
          PROVE  j <= Len(Tail(a)) /\ Tail(a)[j] = Tail(b)[j]
      <3>1. j + 1 \in 1 .. i - 1 /\ j \in 1 .. Len(b) - 1
        OBVIOUS
      <3>2. j + 1 <= Len(a) /\ a[j + 1] = b[j + 1] /\ j \in 1 .. Len(a) - 1
        BY <1>1, <2>1, <3>1
      <3> QED BY <2>3, <2>4, <3>1, <3>2
    <2>7. i - 1 > Len(Tail(a)) \/ Tail(a)[i - 1] < Tail(b)[i - 1]
      <3>1. CASE i > Len(a)
        BY <2>4, <2>1, <3>1
      <3>2. CASE ~(i > Len(a))
        <4>1. a[i] < b[i] /\ i - 1 \in 1 .. Len(a) - 1 /\ (i - 1) + 1 = i
          BY <1>1, <2>1, <2>2, <3>2
        <4>2. Tail(a)[i - 1] = a[i] /\ Tail(b)[i - 1] = b[i]
          BY <2>3, <2>4, <2>5, <4>1
        <4> QED BY <4>1, <4>2
      <3> QED BY <3>1, <3>2
    <2>8. (i - 1) - 1 = i - 2
      OBVIOUS
    <2>9. Drw!FracLess(Tail(a), Tail(b))
      BY <2>5, <2>6, <2>7, <2>8 DEF Drw!FracLess
    <2>10. Tail(b)[Len(Tail(b))] = b[Len(b)]
      BY <2>3, <1>2
    <2> QED BY <2>3, <2>4, <2>9, <2>10
  <1> QED BY <1>3, <1>4

(* The recursive functions of keyBetween are what their equations say. *)
LEMMA AboveUnfolds ==
  ASSUME PartsAssumption, NEW a \in Seq(Drw!Digits)
  PROVE  Drw!Above[a] = IF Base - Drw!FirstDigit(a) > 1
                        THEN <<(Drw!FirstDigit(a) + Base + 1) \div 2>>
                        ELSE <<a[1]>> \o Drw!Above[Tail(a)]
  <1> DEFINE S == Seq(Drw!Digits)
             stop == {c \in S : Base - Drw!FirstDigit(c) > 1}
             base == [c \in S |-> <<(Drw!FirstDigit(c) + Base + 1) \div 2>>]
             pre == [c \in S |-> <<c[1]>>]
             next == [c \in S |-> Tail(c)]
             rank == [c \in S |-> Len(c)]
             Eq(f) == f = [c \in S |->
                             IF Base - Drw!FirstDigit(c) > 1
                             THEN <<(Drw!FirstDigit(c) + Base + 1) \div 2>>
                             ELSE <<c[1]>> \o f[Tail(c)]]
  <1>1. ASSUME NEW c \in S \ stop
        PROVE  next[c] \in S /\ rank[next[c]] < rank[c]
    <2>1. c # <<>>
      BY KeyConstants DEF Drw!FirstDigit
    <2>2. Tail(c) \in S /\ Len(Tail(c)) = Len(c) - 1 /\ Len(c) \in Nat
      BY <2>1
    <2> QED BY <2>2
  <1>2. rank \in [S -> Nat]
    OBVIOUS
  <1>3. \E f : Unfolds(f, S, stop, base, pre, next)
    <2> HIDE DEF S, stop, base, pre, next, rank
    <2> QED BY <1>1, <1>2, UnfoldingExists
  <1>4. ASSUME NEW f, Unfolds(f, S, stop, base, pre, next)
        PROVE  Eq(f)
    <2>1. f = [c \in S |-> IF c \in stop THEN base[c] ELSE pre[c] \o f[next[c]]]
      BY <1>4 DEF Unfolds
    <2>2. \A c \in S : (IF c \in stop THEN base[c] ELSE pre[c] \o f[next[c]])
                       = IF Base - Drw!FirstDigit(c) > 1
                         THEN <<(Drw!FirstDigit(c) + Base + 1) \div 2>>
                         ELSE <<c[1]>> \o f[Tail(c)]
      OBVIOUS
    <2> QED BY <2>1, <2>2
  <1>5. Eq(Drw!Above)
    <2>1. \E f : Eq(f)
      BY <1>3, <1>4
    <2> QED BY <2>1 DEF Drw!Above
  <1> QED BY <1>5

LEMMA MidpointUnfolds ==
  ASSUME PartsAssumption, NEW a \in Seq(Drw!Digits), NEW b \in Seq(Drw!Digits)
  PROVE  LET x == Drw!FirstDigit(a)
             y == b[1]
         IN  Drw!Midpoint[<<a, b>>] =
               IF x = y /\ Len(b) > 1 THEN <<y>> \o Drw!Midpoint[<<Drw!Rest(a), Tail(b)>>]
               ELSE IF y - x > 1 THEN <<(x + y + 1) \div 2>>
               ELSE IF Len(b) > 1 THEN <<y>>
               ELSE <<x>> \o Drw!Above[Drw!Rest(a)]
  <1> DEFINE S == Seq(Drw!Digits) \X Seq(Drw!Digits)
             X(c) == Drw!FirstDigit(c[1])
             Y(c) == c[2][1]
             stop == {c \in S : ~(X(c) = Y(c) /\ Len(c[2]) > 1)}
             base == [c \in S |->
                        IF Y(c) - X(c) > 1 THEN <<(X(c) + Y(c) + 1) \div 2>>
                        ELSE IF Len(c[2]) > 1 THEN <<Y(c)>>
                        ELSE <<X(c)>> \o Drw!Above[Drw!Rest(c[1])]]
             pre == [c \in S |-> <<Y(c)>>]
             next == [c \in S |-> <<Drw!Rest(c[1]), Tail(c[2])>>]
             rank == [c \in S |-> Len(c[2])]
             Eq(f) == f = [c \in Seq(Drw!Digits) \X Seq(Drw!Digits) |->
                             LET d == c[1]
                                 e == c[2]
                                 x == Drw!FirstDigit(d)
                                 y == e[1]
                             IN  IF x = y /\ Len(e) > 1
                                 THEN <<y>> \o f[<<Drw!Rest(d), Tail(e)>>]
                                 ELSE IF y - x > 1 THEN <<(x + y + 1) \div 2>>
                                 ELSE IF Len(e) > 1 THEN <<y>>
                                 ELSE <<x>> \o Drw!Above[Drw!Rest(d)]]
  <1>1. ASSUME NEW c \in S \ stop
        PROVE  next[c] \in S /\ rank[next[c]] < rank[c]
    <2>1. /\ c[1] \in Seq(Drw!Digits) /\ c[2] \in Seq(Drw!Digits)
          /\ Len(c[2]) > 1 /\ Len(c[2]) \in Nat
      OBVIOUS
    <2>2. Drw!Rest(c[1]) \in Seq(Drw!Digits)
      BY <2>1 DEF Drw!Rest
    <2>3. Tail(c[2]) \in Seq(Drw!Digits) /\ Len(Tail(c[2])) = Len(c[2]) - 1
      BY <2>1
    <2>4. next[c] \in S
      BY <2>2, <2>3
    <2> QED BY <2>1, <2>3, <2>4
  <1>2. rank \in [S -> Nat]
    OBVIOUS
  <1>3. \E f : Unfolds(f, S, stop, base, pre, next)
    <2> HIDE DEF S, stop, base, pre, next, rank
    <2> QED BY <1>1, <1>2, UnfoldingExists
  <1>4. ASSUME NEW f, Unfolds(f, S, stop, base, pre, next)
        PROVE  Eq(f)
    <2>1. f = [c \in S |-> IF c \in stop THEN base[c] ELSE pre[c] \o f[next[c]]]
      BY <1>4 DEF Unfolds
    <2> DEFINE R(c) == IF X(c) = Y(c) /\ Len(c[2]) > 1
                       THEN <<Y(c)>> \o f[<<Drw!Rest(c[1]), Tail(c[2])>>]
                       ELSE IF Y(c) - X(c) > 1 THEN <<(X(c) + Y(c) + 1) \div 2>>
                       ELSE IF Len(c[2]) > 1 THEN <<Y(c)>>
                       ELSE <<X(c)>> \o Drw!Above[Drw!Rest(c[1])]
    <2>2. \A c \in S : (IF c \in stop THEN base[c] ELSE pre[c] \o f[next[c]])
                       = R(c)
      OBVIOUS
    <2>3. f = [c \in S |-> R(c)]
      <3> HIDE DEF R, stop, base, pre, next
      <3> QED BY <2>1, <2>2
    <2> QED BY <2>3
  <1>5. Eq(Drw!Midpoint)
    <2>1. \E f : Eq(f)
      BY <1>3, <1>4
    <2> QED BY <2>1 DEF Drw!Midpoint
  <1> QED BY <1>5

(* A digit before a fraction that is not empty. *)
LEMMA LongerFraction ==
  ASSUME NEW x \in Drw!Digits, NEW f \in Drw!Fraction, f # <<>>
  PROVE  /\ <<x>> \o f \in Drw!Fraction /\ <<x>> \o f # <<>>
         /\ Len(<<x>> \o f) = Len(f) + 1 /\ (<<x>> \o f)[1] = x
  <1> DEFINE m == <<x>> \o f
  <1>1. f \in Seq(Drw!Digits) /\ Len(f) \in Nat /\ Len(f) >= 1 /\ f[Len(f)] # 0
    BY DEF Drw!Fraction
  <1>2. /\ m \in Seq(Drw!Digits) /\ Len(m) = Len(f) + 1 /\ m[1] = x
        /\ m[Len(f) + 1] = f[Len(f)]
    BY <1>1
  <1>3. m # <<>> /\ m[Len(m)] # 0
    BY <1>1, <1>2
  <1> QED BY <1>2, <1>3 DEF Drw!Fraction

(* A fraction of one digit. *)
LEMMA OneDigit ==
  ASSUME NEW x \in Drw!Digits, x # 0
  PROVE  /\ <<x>> \in Drw!Fraction /\ <<x>> # <<>>
         /\ Len(<<x>>) = 1 /\ <<x>>[1] = x
  BY DEF Drw!Fraction

(* What lies above a fraction. *)
IsAbove(a) ==
  LET m == Drw!Above[a]
  IN  /\ m \in Drw!Fraction /\ m # <<>>
      /\ Drw!FracLess(a, m) /\ Len(m) <= Len(a) + 1

LEMMA AboveIsAbove ==
  ASSUME PartsAssumption
  PROVE  \A a \in Seq(Drw!Digits) : IsAbove(a)
  <1> SUFFICES ASSUME NEW c0 \in Seq(Drw!Digits), ~IsAbove(c0)
               PROVE  FALSE
    OBVIOUS
  <1> DEFINE T == {Len(a) : a \in {c \in Seq(Drw!Digits) : ~IsAbove(c)}}
  <1>1. T \in SUBSET Nat /\ T # {}
    <2>1. \A c \in Seq(Drw!Digits) : Len(c) \in Nat
      OBVIOUS
    <2>2. Len(c0) \in T
      OBVIOUS
    <2> QED BY <2>1, <2>2
  <1>2. PICK k \in T : \A l \in T : k <= l
    <2> HIDE DEF T
    <2> QED BY <1>1, LeastNumber
  <1>3. PICK a \in Seq(Drw!Digits) : ~IsAbove(a) /\ Len(a) = k
    OBVIOUS
  <1>4. \A c \in Seq(Drw!Digits) : Len(c) < k => IsAbove(c)
    <2>1. k \in Nat /\ \A l \in T : k <= l
      BY <1>1, <1>2
    <2>2. ASSUME NEW c \in Seq(Drw!Digits), Len(c) < k, ~IsAbove(c)
          PROVE  FALSE
      <3>1. Len(c) \in T /\ Len(c) \in Nat
        BY <2>2
      <3> HIDE DEF T
      <3> QED BY <2>1, <2>2, <3>1
    <2> QED BY <2>2
  <1> HIDE DEF T
  <1> DEFINE x == Drw!FirstDigit(a)
  <1>5. x \in Drw!Digits /\ x \in Nat /\ x <= Base - 1
    BY FirstDigitDecides, KeyConstants DEF Drw!Digits
  <1>6. CASE Base - x > 1
    <2> DEFINE d == (x + Base + 1) \div 2
    <2>1. d \in Drw!Digits /\ d > x /\ d # 0
      BY <1>5, <1>6, KeyConstants DEF Drw!Digits
    <2>2. Drw!Above[a] = <<d>>
      BY <1>6, AboveUnfolds
    <2> HIDE DEF d
    <2>3. /\ <<d>> \in Drw!Fraction /\ <<d>> # <<>> /\ Len(<<d>>) = 1
          /\ <<d>>[1] = d /\ <<d>> \in Seq(Drw!Digits)
      BY <2>1, OneDigit DEF Drw!Fraction
    <2>4. Drw!FracLess(a, <<d>>)
      BY <2>1, <2>3, FirstDigitDecides
    <2> QED BY <1>3, <2>2, <2>3, <2>4 DEF IsAbove
  <1>7. CASE ~(Base - x > 1)
    <2>1. a # <<>> /\ a[1] = x
      BY <1>7, KeyConstants DEF Drw!FirstDigit
    <2>2. /\ Tail(a) \in Seq(Drw!Digits) /\ Len(Tail(a)) = Len(a) - 1
          /\ a = <<x>> \o Tail(a) /\ Len(a) \in Nat
      BY <2>1
    <2> DEFINE t == Drw!Above[Tail(a)]
    <2>3. /\ t \in Drw!Fraction /\ t # <<>> /\ Drw!FracLess(Tail(a), t)
          /\ Len(t) <= Len(a)
      <3>1. Len(Tail(a)) < k
        BY <1>3, <2>2
      <3>2. IsAbove(Tail(a))
        BY <1>4, <2>2, <3>1
      <3> QED BY <2>2, <3>2 DEF IsAbove
    <2>4. Drw!Above[a] = <<x>> \o t
      BY <1>7, <2>1, AboveUnfolds
    <2> HIDE DEF t, x
    <2>5. t \in Seq(Drw!Digits)
      BY <2>3 DEF Drw!Fraction
    <2>6. Drw!FracLess(<<x>> \o Tail(a), <<x>> \o t)
      BY <1>5, <2>2, <2>3, <2>5, PrefixKeepsOrder
    <2>7. /\ <<x>> \o t \in Drw!Fraction /\ <<x>> \o t # <<>>
          /\ Len(<<x>> \o t) = Len(t) + 1
      BY <1>5, <2>3, LongerFraction
    <2>8. Len(t) \in Nat
      BY <2>5
    <2>9. Drw!FracLess(a, Drw!Above[a])
      BY <2>2, <2>4, <2>6
    <2>10. Len(Drw!Above[a]) <= Len(a) + 1
      BY <2>2, <2>3, <2>4, <2>7, <2>8
    <2> QED BY <1>3, <2>4, <2>7, <2>9, <2>10 DEF IsAbove
  <1> QED BY <1>6, <1>7

(* What lies between two fractions. *)
IsBetween(a, b) ==
  LET m == Drw!Midpoint[<<a, b>>]
  IN  /\ m \in Drw!Fraction /\ m # <<>>
      /\ Drw!FracLess(a, m) /\ Drw!FracLess(m, b)
      /\ Len(m) <= 1 + Len(a) \/ Len(m) <= 1 + Len(b)

InOrder(a, b) == Drw!FracLess(a, b) /\ b[Len(b)] # 0

LEMMA MidpointIsBetween ==
  ASSUME PartsAssumption
  PROVE  \A a, b \in Seq(Drw!Digits) : InOrder(a, b) => IsBetween(a, b)
  <1> SUFFICES ASSUME NEW a0 \in Seq(Drw!Digits), NEW b0 \in Seq(Drw!Digits),
                      InOrder(a0, b0), ~IsBetween(a0, b0)
               PROVE  FALSE
    OBVIOUS
  <1> DEFINE Bad(b) == \E a \in Seq(Drw!Digits) : InOrder(a, b) /\ ~IsBetween(a, b)
             T == {Len(b) : b \in {c \in Seq(Drw!Digits) : Bad(c)}}
  <1>0. Bad(b0)
    OBVIOUS
  <1> HIDE DEF Bad
  <1>1. T \in SUBSET Nat /\ T # {}
    <2>1. \A c \in Seq(Drw!Digits) : Len(c) \in Nat
      OBVIOUS
    <2>2. Len(b0) \in T
      BY <1>0
    <2> QED BY <2>1, <2>2
  <1>2. PICK k \in T : \A l \in T : k <= l
    <2> HIDE DEF T
    <2> QED BY <1>1, LeastNumber
  <1>3. PICK b \in Seq(Drw!Digits) : Bad(b) /\ Len(b) = k
    OBVIOUS
  <1>4. \A c \in Seq(Drw!Digits) : Len(c) < k => ~Bad(c)
    <2>1. k \in Nat /\ \A l \in T : k <= l
      BY <1>1, <1>2
    <2>2. ASSUME NEW c \in Seq(Drw!Digits), Len(c) < k, Bad(c)
          PROVE  FALSE
      <3>1. Len(c) \in T /\ Len(c) \in Nat
        BY <2>2
      <3> HIDE DEF T
      <3> QED BY <2>1, <2>2, <3>1
    <2> QED BY <2>2
  <1> HIDE DEF T
  <1>5. PICK a \in Seq(Drw!Digits) : InOrder(a, b) /\ ~IsBetween(a, b)
    BY <1>3 DEF Bad
  <1> DEFINE x == Drw!FirstDigit(a)
             y == b[1]
             m == Drw!Midpoint[<<a, b>>]
  <1>6. /\ x \in Drw!Digits /\ y \in Drw!Digits /\ x \in Nat /\ y \in Nat
        /\ x <= y /\ b # <<>> /\ Len(b) \in Nat /\ Len(b) >= 1
        /\ b[Len(b)] # 0 /\ Drw!FracLess(a, b) /\ Len(a) \in Nat
    BY <1>5, FirstDigitDecides, KeyConstants DEF InOrder
  <1>11. m = IF x = y /\ Len(b) > 1
             THEN <<y>> \o Drw!Midpoint[<<Drw!Rest(a), Tail(b)>>]
             ELSE IF y - x > 1 THEN <<(x + y + 1) \div 2>>
             ELSE IF Len(b) > 1 THEN <<y>>
             ELSE <<x>> \o Drw!Above[Drw!Rest(a)]
    BY MidpointUnfolds
  <1>7. CASE x = y
    <2>1. /\ Len(b) > 1 /\ Tail(b) \in Seq(Drw!Digits)
          /\ Len(Tail(b)) = Len(b) - 1 /\ Tail(b)[Len(Tail(b))] # 0
          /\ Drw!Rest(a) \in Seq(Drw!Digits)
          /\ Drw!FracLess(Drw!Rest(a), Tail(b))
      BY <1>6, <1>7, RestDecides
    <2> DEFINE t == Drw!Midpoint[<<Drw!Rest(a), Tail(b)>>]
    <2>2. IsBetween(Drw!Rest(a), Tail(b))
      <3>1. Len(Tail(b)) < k
        BY <1>3, <1>6, <2>1
      <3>2. ~Bad(Tail(b))
        BY <1>4, <2>1, <3>1
      <3>3. InOrder(Drw!Rest(a), Tail(b))
        BY <2>1 DEF InOrder
      <3> QED BY <2>1, <3>2, <3>3 DEF Bad
    <2>3. /\ t \in Drw!Fraction /\ t # <<>> /\ t \in Seq(Drw!Digits)
          /\ Drw!FracLess(Drw!Rest(a), t) /\ Drw!FracLess(t, Tail(b))
          /\ Len(t) <= 1 + Len(Drw!Rest(a)) \/ Len(t) <= Len(b)
      BY <1>6, <2>1, <2>2 DEF IsBetween, Drw!Fraction
    <2>4. m = <<y>> \o t
      BY <1>7, <1>11, <2>1
    <2>5. b = <<y>> \o Tail(b)
      BY <1>6
    <2> HIDE DEF t, m
    <2>6. /\ m \in Drw!Fraction /\ m # <<>> /\ Len(m) = Len(t) + 1
          /\ m[1] = y /\ m \in Seq(Drw!Digits) /\ Len(t) \in Nat
      BY <1>6, <2>3, <2>4, LongerFraction DEF Drw!Fraction
    <2>7. Drw!FracLess(m, b)
      <3>1. Drw!FracLess(<<y>> \o t, <<y>> \o Tail(b))
        BY <1>6, <2>1, <2>3, PrefixKeepsOrder
      <3> QED BY <2>4, <2>5, <3>1
    <2>8. CASE a = <<>>
      <3>1. Drw!FracLess(a, m)
        BY <2>6, <2>8, FirstDigitDecides
      <3>2. Len(Drw!Rest(a)) = 0
        BY <2>8 DEF Drw!Rest
      <3>3. Len(m) <= 1 + Len(b)
        BY <1>6, <2>1, <2>3, <2>6, <3>2
      <3> QED BY <1>5, <2>6, <2>7, <3>1, <3>3 DEF IsBetween, m
    <2>9. CASE a # <<>>
      <3>1. /\ Drw!Rest(a) = Tail(a) /\ a[1] = y /\ Len(Tail(a)) = Len(a) - 1
            /\ a = <<y>> \o Tail(a) /\ Tail(a) \in Seq(Drw!Digits)
        BY <1>6, <1>7, <2>9 DEF Drw!Rest, Drw!FirstDigit
      <3>2. Drw!FracLess(<<y>> \o Tail(a), <<y>> \o t)
        BY <1>6, <2>3, <3>1, PrefixKeepsOrder
      <3>3. Drw!FracLess(a, m)
        BY <2>4, <3>1, <3>2
      <3>4. Len(m) <= 1 + Len(a) \/ Len(m) <= 1 + Len(b)
        BY <1>6, <2>3, <2>6, <3>1
      <3> QED BY <1>5, <2>6, <2>7, <3>3, <3>4 DEF IsBetween, m
    <2> QED BY <2>8, <2>9
  <1>8. CASE y - x > 1
    <2> DEFINE d == (x + y + 1) \div 2
    <2>1. d \in Drw!Digits /\ x < d /\ d < y /\ d # 0
      <3> HIDE DEF x, y
      <3>1. Drw!Digits = 0 .. Base - 1 /\ Base \in Nat
        BY KeyConstants DEF Drw!Digits
      <3>2. d \in Nat /\ x < d /\ d < y
        BY <1>6, <1>8
      <3> QED BY <1>6, <3>1, <3>2
    <2>2. m = <<d>>
      <3>1. x # y
        BY <1>6, <1>8
      <3> QED BY <1>8, <1>11, <3>1
    <2> HIDE DEF d
    <2>3. /\ <<d>> \in Drw!Fraction /\ <<d>> # <<>> /\ Len(<<d>>) = 1
          /\ <<d>>[1] = d /\ <<d>> \in Seq(Drw!Digits)
      BY <2>1, OneDigit DEF Drw!Fraction
    <2>4. Drw!FracLess(a, <<d>>)
      BY <2>1, <2>3, FirstDigitDecides
    <2>5. Drw!FirstDigit(<<d>>) = d
      BY <2>3 DEF Drw!FirstDigit
    <2>6. Drw!FracLess(<<d>>, b)
      BY <1>6, <2>1, <2>3, <2>5, FirstDigitDecides
    <2> QED BY <1>5, <1>6, <2>2, <2>3, <2>4, <2>6 DEF IsBetween
  <1>9. CASE y - x = 1 /\ Len(b) > 1
    <2>1. x # y /\ ~(y - x > 1) /\ y # 0 /\ x < y
      <3> HIDE DEF x, y
      <3> QED BY <1>6, <1>9
    <2>0. m = <<y>>
      BY <1>9, <1>11, <2>1
    <2>2. /\ <<y>> \in Drw!Fraction /\ <<y>> # <<>> /\ Len(<<y>>) = 1
          /\ <<y>>[1] = y /\ <<y>> \in Seq(Drw!Digits)
      BY <1>6, <2>1, OneDigit DEF Drw!Fraction
    <2>3. Drw!FracLess(a, <<y>>)
      BY <2>1, <2>2, FirstDigitDecides
    <2>4. Drw!FracLess(<<y>>, b)
      <3>1. 2 \in 1 .. Len(b) /\ 2 > Len(<<y>>)
        BY <1>6, <1>9, <2>2
      <3>2. \A j \in 1 .. 2 - 1 : j <= Len(<<y>>) /\ <<y>>[j] = b[j]
        BY <2>2
      <3> QED BY <3>1, <3>2 DEF Drw!FracLess
    <2> QED BY <1>5, <1>6, <2>0, <2>2, <2>3, <2>4 DEF IsBetween
  <1>10. CASE y - x = 1 /\ ~(Len(b) > 1)
    <2> DEFINE t == Drw!Above[Drw!Rest(a)]
    <2>1. m = <<x>> \o t
      <3>1. x # y /\ ~(y - x > 1)
        <4> HIDE DEF x, y
        <4> QED BY <1>6, <1>10
      <3> QED BY <1>10, <1>11, <3>1
    <2>2. Drw!Rest(a) \in Seq(Drw!Digits)
      BY DEF Drw!Rest
    <2>3. /\ t \in Drw!Fraction /\ t # <<>> /\ t \in Seq(Drw!Digits)
          /\ Drw!FracLess(Drw!Rest(a), t) /\ Len(t) <= Len(Drw!Rest(a)) + 1
      BY <2>2, AboveIsAbove DEF IsAbove, Drw!Fraction
    <2> HIDE DEF t, m
    <2>4. /\ m \in Drw!Fraction /\ m # <<>> /\ Len(m) = Len(t) + 1
          /\ m[1] = x /\ m \in Seq(Drw!Digits) /\ Len(t) \in Nat
      BY <1>6, <2>1, <2>3, LongerFraction DEF Drw!Fraction
    <2>5. Drw!FirstDigit(m) = x
      BY <2>4 DEF Drw!FirstDigit
    <2>6. Drw!FracLess(m, b)
      BY <1>6, <1>10, <2>4, <2>5, FirstDigitDecides
    <2>7. CASE a = <<>>
      <3>1. Drw!FracLess(a, m)
        BY <2>4, <2>7, FirstDigitDecides
      <3>2. Len(Drw!Rest(a)) = 0
        BY <2>7 DEF Drw!Rest
      <3>3. Len(m) <= 1 + Len(b)
        BY <1>6, <2>3, <2>4, <3>2
      <3> QED BY <1>5, <2>4, <2>6, <3>1, <3>3 DEF IsBetween, m
    <2>8. CASE a # <<>>
      <3>1. /\ Drw!Rest(a) = Tail(a) /\ a[1] = x /\ Len(Tail(a)) = Len(a) - 1
            /\ a = <<x>> \o Tail(a) /\ Tail(a) \in Seq(Drw!Digits)
        BY <2>8 DEF Drw!Rest, Drw!FirstDigit
      <3>2. Drw!FracLess(<<x>> \o Tail(a), <<x>> \o t)
        BY <1>6, <2>3, <3>1, PrefixKeepsOrder
      <3>3. Drw!FracLess(a, m)
        BY <2>1, <3>1, <3>2
      <3>4. Len(m) <= 1 + Len(a)
        BY <1>6, <2>3, <2>4, <3>1
      <3> QED BY <1>5, <2>4, <2>6, <3>3, <3>4 DEF IsBetween, m
    <2> QED BY <2>7, <2>8
  <1> QED BY <1>6, <1>7, <1>8, <1>9, <1>10

(* The order of keys is a strict and a total one. *)
LEMMA FractionsInOrder ==
  ASSUME PartsAssumption, NEW a \in Seq(Drw!Digits), NEW b \in Seq(Drw!Digits),
         NEW c \in Seq(Drw!Digits)
  PROVE  /\ ~Drw!FracLess(a, a)
         /\ Drw!FracLess(a, b) /\ Drw!FracLess(b, c) => Drw!FracLess(a, c)
         /\ a = b \/ Drw!FracLess(a, b) \/ Drw!FracLess(b, a)
  <1>0. \A f \in Seq(Drw!Digits) : \A j \in 1 .. Len(f) : f[j] \in Nat
    <2>1. \A f \in Seq(Drw!Digits) : \A j \in 1 .. Len(f) : f[j] \in Drw!Digits
      OBVIOUS
    <2> QED BY <2>1, KeyConstants
  <1>1. ~Drw!FracLess(a, a)
    <2> SUFFICES ASSUME NEW i \in 1 .. Len(a), i > Len(a) \/ a[i] < a[i]
                 PROVE  FALSE
      BY DEF Drw!FracLess
    <2>1. a[i] \in Nat /\ Len(a) \in Nat
      BY <1>0
    <2> QED BY <2>1
  <1>2. ASSUME Drw!FracLess(a, b), Drw!FracLess(b, c)
        PROVE  Drw!FracLess(a, c)
    <2>1. PICK i \in 1 .. Len(b) :
                /\ \A j \in 1 .. i - 1 : j <= Len(a) /\ a[j] = b[j]
                /\ i > Len(a) \/ a[i] < b[i]
      BY <1>2 DEF Drw!FracLess
    <2>2. PICK k \in 1 .. Len(c) :
                /\ \A j \in 1 .. k - 1 : j <= Len(b) /\ b[j] = c[j]
                /\ k > Len(b) \/ b[k] < c[k]
      BY <1>2 DEF Drw!FracLess
    <2>3. Len(a) \in Nat /\ Len(b) \in Nat /\ Len(c) \in Nat
      OBVIOUS
    <2>4. CASE i < k
      <3>1. i \in 1 .. k - 1 /\ i \in 1 .. Len(c)
        BY <2>3, <2>4
      <3>2. b[i] = c[i]
        BY <2>2, <3>1
      <3>3. i > Len(a) \/ a[i] < c[i]
        BY <2>1, <3>2
      <3>4. \A j \in 1 .. i - 1 : j <= Len(a) /\ a[j] = c[j]
        <4>1. \A j \in 1 .. i - 1 : j \in 1 .. k - 1
          BY <2>4
        <4> QED BY <2>1, <2>2, <4>1
      <3> QED BY <3>1, <3>3, <3>4 DEF Drw!FracLess
    <2>5. CASE i = k
      <3>1. b[i] < c[i]
        BY <2>2, <2>3, <2>5
      <3>2. i > Len(a) \/ a[i] < c[i]
        <4>1. b[i] \in Nat /\ c[i] \in Nat /\ (i \in 1 .. Len(a) => a[i] \in Nat)
          BY <1>0, <2>5
        <4> QED BY <2>1, <2>3, <3>1, <4>1
      <3>3. \A j \in 1 .. i - 1 : j <= Len(a) /\ a[j] = c[j]
        BY <2>1, <2>2, <2>5
      <3>4. i \in 1 .. Len(c)
        BY <2>5
      <3> QED BY <3>2, <3>3, <3>4 DEF Drw!FracLess
    <2>6. CASE k < i
      <3>1. k \in 1 .. i - 1 /\ k <= Len(b)
        BY <2>3, <2>6
      <3>2. k <= Len(a) /\ a[k] = b[k] /\ b[k] < c[k]
        BY <2>1, <2>2, <2>3, <3>1
      <3>3. \A j \in 1 .. k - 1 : j <= Len(a) /\ a[j] = c[j]
        <4>1. \A j \in 1 .. k - 1 : j \in 1 .. i - 1
          BY <2>6
        <4> QED BY <2>1, <2>2, <4>1
      <3>4. a[k] < c[k]
        BY <3>2
      <3> QED BY <3>3, <3>4 DEF Drw!FracLess
    <2> QED BY <2>4, <2>5, <2>6
  <1>3. ASSUME a # b, ~Drw!FracLess(a, b)
        PROVE  Drw!FracLess(b, a)
    <2> DEFINE Differs(i) == \/ i > Len(a) /\ i <= Len(b)
                             \/ i <= Len(a) /\ i > Len(b)
                             \/ i <= Len(a) /\ i <= Len(b) /\ a[i] # b[i]
               T == {i \in Nat \ {0} : Differs(i)}
    <2>1. Len(a) \in Nat /\ Len(b) \in Nat
      OBVIOUS
    <2>2. T # {}
      <3>1. CASE Len(a) < Len(b)
        BY <2>1, <3>1
      <3>2. CASE Len(a) > Len(b)
        BY <2>1, <3>2
      <3>3. CASE Len(a) = Len(b)
        <4>1. PICK i \in 1 .. Len(a) : a[i] # b[i]
          BY <1>3, <3>3
        <4> QED BY <2>1, <3>3, <4>1
      <3> QED BY <2>1, <3>1, <3>2, <3>3
    <2>3. PICK i \in T : \A j \in T : i <= j
      <3>1. T \in SUBSET Nat
        OBVIOUS
      <3> HIDE DEF T
      <3> QED BY <2>2, <3>1, LeastNumber
    <2>4. i \in Nat \ {0} /\ Differs(i)
      OBVIOUS
    <2>5. ASSUME NEW j \in 1 .. i - 1
          PROVE  ~Differs(j)
      <3>1. j \in Nat \ {0} /\ ~(i <= j)
        BY <2>4
      <3> HIDE DEF Differs
      <3> QED BY <2>3, <3>1
    <2>6. \A j \in 1 .. i - 1 : j <= Len(a) /\ j <= Len(b) /\ a[j] = b[j]
      <3> SUFFICES ASSUME NEW j \in 1 .. i - 1
                   PROVE  j <= Len(a) /\ j <= Len(b) /\ a[j] = b[j]
        OBVIOUS
      <3>1. (j <= Len(a) /\ j <= Len(b)) \/ (j > Len(a) /\ j > Len(b))
        BY <2>1, <2>4, <2>5
      <3>2. i <= Len(a) \/ i <= Len(b)
        BY <2>4
      <3>3. j <= Len(a) /\ j <= Len(b)
        BY <2>1, <2>4, <3>1, <3>2
      <3> QED BY <2>5, <3>3
    <2>7. CASE i > Len(a) /\ i <= Len(b)
      <3>1. i \in 1 .. Len(b)
        BY <2>1, <2>4, <2>7
      <3> QED BY <1>3, <2>6, <2>7, <3>1 DEF Drw!FracLess
    <2>8. CASE i <= Len(a) /\ i > Len(b)
      <3>1. i \in 1 .. Len(a)
        BY <2>1, <2>4, <2>8
      <3> QED BY <2>6, <2>8, <3>1 DEF Drw!FracLess
    <2>9. CASE i <= Len(a) /\ i <= Len(b) /\ a[i] # b[i]
      <3>1. i \in 1 .. Len(a) /\ i \in 1 .. Len(b)
        BY <2>1, <2>4, <2>9
      <3>2. a[i] \in Nat /\ b[i] \in Nat
        BY <1>0, <3>1
      <3>3. a[i] < b[i] \/ b[i] < a[i]
        BY <2>9, <3>2
      <3> QED BY <1>3, <2>6, <3>1, <3>3 DEF Drw!FracLess
    <2> QED BY <2>4, <2>7, <2>8, <2>9
  <1> QED BY <1>1, <1>2, <1>3

LEMMA KeysInOrder ==
  ASSUME PartsAssumption, NEW a \in Drw!Key, NEW b \in Drw!Key, NEW c \in Drw!Key
  PROVE  /\ ~Drw!Less(a, a)
         /\ Drw!Less(a, b) /\ Drw!Less(b, c) => Drw!Less(a, c)
         /\ a = b \/ Drw!Less(a, b) \/ Drw!Less(b, a)
  <1>1. /\ a.int \in Int /\ b.int \in Int /\ c.int \in Int
        /\ a.frac \in Seq(Drw!Digits) /\ b.frac \in Seq(Drw!Digits)
        /\ c.frac \in Seq(Drw!Digits)
        /\ a.int = b.int /\ a.frac = b.frac => a = b
    BY DEF Drw!Key, Drw!Fraction
  <1>2. /\ ~Drw!FracLess(a.frac, a.frac)
        /\ Drw!FracLess(a.frac, b.frac) /\ Drw!FracLess(b.frac, c.frac)
             => Drw!FracLess(a.frac, c.frac)
        /\ \/ a.frac = b.frac \/ Drw!FracLess(a.frac, b.frac)
           \/ Drw!FracLess(b.frac, a.frac)
    BY <1>1, FractionsInOrder
  <1> QED BY <1>1, <1>2 DEF Drw!Less

(* keyBetween keeps its promise to every two neighbours. *)
LEMMA KeyFits ==
  ASSUME PartsAssumption, NEW a \in Drw!Key \cup {NoKey},
         NEW b \in Drw!Key \cup {NoKey}, Drw!Below(a, b)
  PROVE  Drw!FitsBetween(a, b)
  <1> DEFINE k == Drw!KeyBetween(a, b)
  <1>1. \A n \in Int : /\ Drw!Whole(n) \in Drw!Key
                       /\ Drw!Whole(n).int = n /\ Drw!Whole(n).frac = <<>>
    BY DEF Drw!Whole, Drw!Key, Drw!Fraction
  <1>2. \A f \in Seq(Drw!Digits) :
          /\ ~Drw!FracLess(f, <<>>) /\ (f # <<>> => Drw!FracLess(<<>>, f))
    <2>1. \A f \in Seq(Drw!Digits) : ~Drw!FracLess(f, <<>>)
      BY DEF Drw!FracLess
    <2>2. <<>> \in Seq(Drw!Digits)
      OBVIOUS
    <2> QED BY <2>1, <2>2, FirstDigitDecides
  <1>3. \A c \in Drw!Key : /\ c.int \in Int /\ c.frac \in Seq(Drw!Digits)
                           /\ c.frac \in Drw!Fraction /\ c.int - 1 \in Int
                           /\ c.int + 1 \in Int
    BY DEF Drw!Key, Drw!Fraction
  <1>4. CASE a = NoKey /\ b = NoKey
    <2>1. k = Drw!Whole(0)
      BY <1>4 DEF Drw!KeyBetween
    <2> QED BY <1>1, <1>4, <2>1 DEF Drw!FitsBetween
  <1>5. CASE a = NoKey /\ b # NoKey
    <2>1. b \in Drw!Key
      BY <1>5
    <2>2. k = IF b.frac = <<>> THEN Drw!Whole(b.int - 1) ELSE Drw!Whole(b.int)
      BY <1>5 DEF Drw!KeyBetween
    <2>3. k \in Drw!Key /\ k.frac = <<>>
      BY <1>1, <1>3, <2>1, <2>2
    <2>4. Drw!Less(k, b)
      BY <1>1, <1>2, <1>3, <2>1, <2>2 DEF Drw!Less
    <2> QED BY <1>5, <2>3, <2>4 DEF Drw!FitsBetween
  <1>6. CASE a # NoKey /\ b = NoKey
    <2>1. a \in Drw!Key
      BY <1>6
    <2>2. k = Drw!Whole(a.int + 1)
      BY <1>6 DEF Drw!KeyBetween
    <2>3. k \in Drw!Key /\ k.frac = <<>> /\ Drw!Less(a, k)
      BY <1>1, <1>3, <2>1, <2>2 DEF Drw!Less
    <2> QED BY <1>6, <2>3 DEF Drw!FitsBetween
  <1>7. CASE a # NoKey /\ b # NoKey
    <2>1. /\ a \in Drw!Key /\ b \in Drw!Key
          /\ a.int < b.int \/ (a.int = b.int /\ Drw!FracLess(a.frac, b.frac))
      BY <1>7 DEF Drw!Below, Drw!Less
    <2>2. k = IF a.int = b.int
              THEN [int |-> a.int, frac |-> Drw!Midpoint[<<a.frac, b.frac>>]]
              ELSE IF Drw!Less(Drw!Whole(a.int + 1), b)
              THEN Drw!Whole(a.int + 1)
              ELSE [int |-> a.int, frac |-> Drw!Above[a.frac]]
      BY <1>7 DEF Drw!KeyBetween
    <2> HIDE DEF k
    <2>3. SUFFICES
            /\ k \in Drw!Key /\ Drw!Less(a, k) /\ Drw!Less(k, b)
            /\ Len(k.frac) <= 1 + Len(a.frac) \/ Len(k.frac) <= 1 + Len(b.frac)
            /\ (\E n \in a.int .. b.int :
                  Drw!Less(a, Drw!Whole(n)) /\ Drw!Less(Drw!Whole(n), b))
                 => k.frac = <<>>
      BY <1>7 DEF Drw!FitsBetween, k
    <2>4. CASE a.int = b.int
      <3> DEFINE m == Drw!Midpoint[<<a.frac, b.frac>>]
      <3>1. k = [int |-> a.int, frac |-> m]
        BY <2>2, <2>4
      <3>2. Drw!FracLess(a.frac, b.frac) /\ b.frac # <<>>
        BY <1>2, <1>3, <2>1, <2>4
      <3>3. InOrder(a.frac, b.frac)
        BY <1>3, <2>1, <3>2 DEF InOrder, Drw!Fraction
      <3>4. IsBetween(a.frac, b.frac)
        BY <1>3, <2>1, <3>3, MidpointIsBetween
      <3>5. /\ m \in Drw!Fraction /\ Drw!FracLess(a.frac, m)
            /\ Drw!FracLess(m, b.frac)
            /\ Len(m) <= 1 + Len(a.frac) \/ Len(m) <= 1 + Len(b.frac)
        BY <3>4 DEF IsBetween
      <3> HIDE DEF m
      <3>6. k \in Drw!Key /\ k.int = a.int /\ k.frac = m
        BY <1>3, <2>1, <3>1, <3>5 DEF Drw!Key
      <3>7. \A n \in a.int .. b.int : ~Drw!Less(a, Drw!Whole(n))
        BY <1>1, <1>2, <1>3, <2>1, <2>4 DEF Drw!Less
      <3> QED BY <2>4, <3>5, <3>6, <3>7 DEF Drw!Less
    <2>5. CASE a.int # b.int /\ Drw!Less(Drw!Whole(a.int + 1), b)
      <3>1. k = Drw!Whole(a.int + 1)
        BY <2>2, <2>5
      <3>2. k \in Drw!Key /\ k.int = a.int + 1 /\ k.frac = <<>>
        BY <1>1, <1>3, <2>1, <3>1
      <3>3. Drw!Less(a, k) /\ Drw!Less(k, b)
        BY <1>3, <2>1, <2>5, <3>1, <3>2 DEF Drw!Less
      <3>4. Len(k.frac) = 0 /\ Len(a.frac) \in Nat
        BY <1>3, <2>1, <3>2
      <3> QED BY <3>2, <3>3, <3>4
    <2>6. CASE a.int # b.int /\ ~Drw!Less(Drw!Whole(a.int + 1), b)
      <3> DEFINE m == Drw!Above[a.frac]
      <3>1. k = [int |-> a.int, frac |-> m] /\ a.int < b.int
        BY <2>1, <2>2, <2>6
      <3>2. IsAbove(a.frac)
        BY <1>3, <2>1, AboveIsAbove
      <3>3. /\ m \in Drw!Fraction /\ Drw!FracLess(a.frac, m)
            /\ Len(m) <= Len(a.frac) + 1 /\ Len(a.frac) \in Nat /\ Len(m) \in Nat
        BY <1>3, <2>1, <3>2 DEF IsAbove, Drw!Fraction
      <3> HIDE DEF m
      <3>4. k \in Drw!Key /\ k.int = a.int /\ k.frac = m
        BY <1>3, <2>1, <3>1, <3>3 DEF Drw!Key
      <3>5. ASSUME NEW n \in a.int .. b.int, Drw!Less(a, Drw!Whole(n)),
                   Drw!Less(Drw!Whole(n), b)
            PROVE  FALSE
        <4>1. a.int \in Int /\ b.int \in Int /\ n \in Int
          BY <1>3, <2>1
        <4>2. n >= a.int + 1
          BY <1>1, <1>2, <1>3, <2>1, <3>5, <4>1 DEF Drw!Less
        <4>3. n < b.int \/ (n = b.int /\ Drw!FracLess(<<>>, b.frac))
          BY <1>1, <3>5, <4>1 DEF Drw!Less
        <4>4. Drw!Less(Drw!Whole(a.int + 1), b)
          BY <1>1, <3>1, <4>1, <4>2, <4>3 DEF Drw!Less
        <4> QED BY <2>6, <4>4
      <3>6. Drw!Less(a, k) /\ Drw!Less(k, b)
        BY <3>1, <3>3, <3>4 DEF Drw!Less
      <3> QED BY <3>3, <3>4, <3>5, <3>6
    <2> QED BY <2>4, <2>5, <2>6
  <1> QED BY <1>4, <1>5, <1>6, <1>7

-----------------------------------------------------------------------------
(* Lists sorted by rank. *)

(* Sorting by rank.  R is the order as a set of pairs. *)
Orders(R, S) ==
  /\ \A x \in S : <<x, x>> \notin R
  /\ \A x, y, z \in S : <<x, y>> \in R /\ <<y, z>> \in R => <<x, z>> \in R
  /\ \A x, y \in S : x = y \/ <<x, y>> \in R \/ <<y, x>> \in R

Before(R, S, x) == {y \in S : <<y, x>> \in R}
RankOf(R, S, x) == Cardinality(Before(R, S, x))

(* What comes later has more before it, and nothing has everything. *)
LEMMA RankGrows ==
  ASSUME NEW R, NEW S, IsFiniteSet(S), NEW x \in S, NEW y \in S,
         \A u \in S : <<u, u>> \notin R,
         \A u, v, w \in S : <<u, v>> \in R /\ <<v, w>> \in R => <<u, w>> \in R,
         <<x, y>> \in R
  PROVE  /\ RankOf(R, S, x) \in Nat /\ RankOf(R, S, y) \in Nat
         /\ RankOf(R, S, x) < RankOf(R, S, y)
  <1> DEFINE A == Before(R, S, x)
             B == Before(R, S, y)
  <1>1. A \subseteq S /\ B \subseteq S /\ A \subseteq B /\ x \in B /\ x \notin A
    BY DEF Before
  <1> HIDE DEF A, B
  <1>2. /\ IsFiniteSet(A) /\ IsFiniteSet(B)
        /\ Cardinality(A) \in Nat /\ Cardinality(B) \in Nat
    BY <1>1, FS_Subset, FS_CardinalityType
  <1>3. Cardinality(A) <= Cardinality(B) /\ (Cardinality(B) = Cardinality(A) => B = A)
    BY <1>1, <1>2, FS_Subset
  <1>4. Cardinality(A) < Cardinality(B)
    BY <1>1, <1>2, <1>3
  <1> QED BY <1>2, <1>4 DEF A, B, RankOf

LEMMA RankBounded ==
  ASSUME NEW R, NEW S, IsFiniteSet(S), NEW x \in S,
         \A u \in S : <<u, u>> \notin R
  PROVE  RankOf(R, S, x) \in 0 .. Cardinality(S) - 1
  <1> DEFINE A == Before(R, S, x)
  <1>1. A \subseteq S /\ A # S
    BY DEF Before
  <1> HIDE DEF A
  <1>2. /\ IsFiniteSet(A) /\ Cardinality(A) \in Nat /\ Cardinality(S) \in Nat
        /\ Cardinality(A) <= Cardinality(S)
        /\ Cardinality(S) = Cardinality(A) => S = A
    BY <1>1, FS_Subset, FS_CardinalityType
  <1> QED BY <1>1, <1>2 DEF A, RankOf

(* One of finitely many that has none before it. *)
LEMMA FirstOfAll ==
  ASSUME NEW R, NEW S, IsFiniteSet(S), S # {},
         \A u \in S : <<u, u>> \notin R,
         \A u, v, w \in S : <<u, v>> \in R /\ <<v, w>> \in R => <<u, w>> \in R
  PROVE  \E x \in S : \A y \in S : <<y, x>> \notin R
  <1> DEFINE T == {RankOf(R, S, x) : x \in S}
  <1>1. T \in SUBSET Nat /\ T # {}
    <2>1. \A x \in S : RankOf(R, S, x) \in Nat
      BY RankBounded
    <2> QED BY <2>1
  <1>2. PICK k \in T : \A l \in T : k <= l
    <2> HIDE DEF T
    <2> QED BY <1>1, LeastNumber
  <1>3. PICK x \in S : RankOf(R, S, x) = k
    OBVIOUS
  <1>4. ASSUME NEW y \in S, <<y, x>> \in R
        PROVE  FALSE
    <2>1. /\ RankOf(R, S, y) \in Nat /\ k \in Nat /\ RankOf(R, S, y) < k
      BY <1>3, <1>4, RankGrows
    <2>2. RankOf(R, S, y) \in T
      OBVIOUS
    <2>3. k <= RankOf(R, S, y)
      BY <1>2, <2>2
    <2> HIDE DEF T
    <2> QED BY <2>1, <2>3
  <1> QED BY <1>4

Sorted(R, S) ==
  [n \in 1 .. Cardinality(S) |-> CHOOSE x \in S : RankOf(R, S, x) = n - 1]

(* Each of them by its rank: a list of all of them, in their order. *)
LEMMA SortedLists ==
  ASSUME NEW R, NEW S, IsFiniteSet(S), Orders(R, S)
  PROVE  LET s == Sorted(R, S)
         IN  /\ Cardinality(S) \in Nat
             /\ s \in [1 .. Cardinality(S) -> S]
             /\ \A x \in S : \E n \in 1 .. Cardinality(S) : s[n] = x
             /\ \A m, n \in 1 .. Cardinality(S) : m < n => <<s[m], s[n]>> \in R
             /\ \A m, n \in 1 .. Cardinality(S) : s[m] = s[n] => m = n
  <1> DEFINE N == Cardinality(S)
             s == Sorted(R, S)
             rank == [x \in S |-> RankOf(R, S, x)]
  <1>1. N \in Nat /\ IsFiniteSet(0 .. N - 1) /\ Cardinality(0 .. N - 1) = N
    <2>1. N \in Nat
      BY FS_CardinalityType
    <2>2. /\ IsFiniteSet(0 .. N - 1)
          /\ Cardinality(0 .. N - 1) = IF 0 > N - 1 THEN 0 ELSE (N - 1) - 0 + 1
      <3> HIDE DEF N
      <3>1. 0 \in Int /\ N - 1 \in Int
        BY <2>1
      <3> QED BY <3>1, FS_Interval
    <2> HIDE DEF N
    <2> QED BY <2>1, <2>2
  <1>2. \A x \in S : RankOf(R, S, x) \in 0 .. N - 1
    BY RankBounded DEF Orders
  <1>3. \A x, y \in S : <<x, y>> \in R =>
          /\ RankOf(R, S, x) \in Nat /\ RankOf(R, S, y) \in Nat
          /\ RankOf(R, S, x) < RankOf(R, S, y)
    BY RankGrows DEF Orders
  <1>4. \A x, y \in S : RankOf(R, S, x) = RankOf(R, S, y) => x = y
    <2> SUFFICES ASSUME NEW x \in S, NEW y \in S,
                        RankOf(R, S, x) = RankOf(R, S, y), x # y
                 PROVE  FALSE
      OBVIOUS
    <2>1. <<x, y>> \in R \/ <<y, x>> \in R
      BY DEF Orders
    <2>2. CASE <<x, y>> \in R
      <3>1. RankOf(R, S, x) \in Nat /\ RankOf(R, S, x) < RankOf(R, S, y)
        BY <1>3, <2>2
      <3> QED BY <3>1
    <2>3. CASE <<y, x>> \in R
      <3>1. RankOf(R, S, x) \in Nat /\ RankOf(R, S, y) < RankOf(R, S, x)
        BY <1>3, <2>3
      <3> QED BY <3>1
    <2> QED BY <2>1, <2>2, <2>3
  <1>5. rank \in Surjection(S, 0 .. N - 1)
    <2>1. rank \in Injection(S, 0 .. N - 1)
      <3>1. rank \in [S -> 0 .. N - 1]
        BY <1>2
      <3>2. \A x, y \in S : rank[x] = rank[y] => x = y
        BY <1>4
      <3> HIDE DEF rank, N
      <3> QED BY <3>1, <3>2 DEF Injection, IsInjective
    <2> HIDE DEF rank
    <2> QED BY <1>1, <2>1, FS_Injection
  <1>6. \A n \in 1 .. N : s[n] \in S /\ RankOf(R, S, s[n]) = n - 1
    <2> SUFFICES ASSUME NEW n \in 1 .. N
                 PROVE  s[n] \in S /\ RankOf(R, S, s[n]) = n - 1
      OBVIOUS
    <2>1. n - 1 \in 0 .. N - 1
      BY <1>1
    <2>2. \E x \in S : RankOf(R, S, x) = n - 1
      BY <1>5, <2>1 DEF Surjection
    <2>3. s[n] = CHOOSE x \in S : RankOf(R, S, x) = n - 1
      BY DEF Sorted
    <2> QED BY <2>2, <2>3
  <1>7. s \in [1 .. N -> S]
    BY <1>6 DEF Sorted
  <1>8. \A x \in S : \E n \in 1 .. N : s[n] = x
    <2> SUFFICES ASSUME NEW x \in S
                 PROVE  \E n \in 1 .. N : s[n] = x
      OBVIOUS
    <2>1. RankOf(R, S, x) \in 0 .. N - 1
      BY <1>2
    <2>2. RankOf(R, S, x) + 1 \in 1 .. N
      BY <1>1, <2>1
    <2>3. (RankOf(R, S, x) + 1) - 1 = RankOf(R, S, x)
      BY <2>1
    <2>4. s[RankOf(R, S, x) + 1] = x
      BY <1>4, <1>6, <2>2, <2>3
    <2> QED BY <2>2, <2>4
  <1>9. \A m, n \in 1 .. N : m < n => <<s[m], s[n]>> \in R
    <2> SUFFICES ASSUME NEW m \in 1 .. N, NEW n \in 1 .. N, m < n
                 PROVE  <<s[m], s[n]>> \in R
      OBVIOUS
    <2>1. /\ s[m] \in S /\ s[n] \in S /\ RankOf(R, S, s[m]) = m - 1
          /\ RankOf(R, S, s[n]) = n - 1
      BY <1>6
    <2>2. s[m] # s[n]
      BY <2>1
    <2>3. <<s[n], s[m]>> \notin R
      BY <1>3, <2>1
    <2> QED BY <2>1, <2>2, <2>3 DEF Orders
  <1>10. \A m, n \in 1 .. N : s[m] = s[n] => m = n
    BY <1>6
  <1> QED BY <1>1, <1>7, <1>8, <1>9, <1>10

-----------------------------------------------------------------------------
(* The drawer. *)

Holding == {"next", "write", "last", "empty"}

DrwRequest ==
  [pc : {"idle", "next", "write", "last", "empty", "shelf-groups",
         "shelf-items", "answer"},
   x : Drw!Things \cup {None}, to : Groups \cup {None},
   after : Drw!Things \cup {None},
   lo : Drw!Key \cup {NoKey}, hi : Drw!Key \cup {NoKey}, order : Seq(Items),
   rows : SUBSET (Items \X (Groups \cup {None})), groups : SUBSET Groups,
   missed : SUBSET Drw!Things]

DrwTypes ==
  /\ live \subseteq Drw!Things /\ gone \subseteq Drw!Things
  /\ group \in [Items -> Groups \cup {None}]
  /\ opened \subseteq Items
  /\ pos \in [Drw!Things -> Drw!Key]
  /\ \A t \in Drw!Things : Len(pos[t].frac) <= Width
  /\ writes \in 0 .. MaxWrites
  /\ missed \in [Drw!Things -> SUBSET Drw!Things]
  /\ req \in [Requests -> DrwRequest]

(* What is deleted is not live, and a tape lies only in a group that is. *)
Lies ==
  /\ gone \cap live = {}
  /\ \A i \in Items : group[i] # None => i \in live /\ group[i] \in live

(* One request at a time holds the lock of a thing. *)
OneHolder ==
  \A p, q \in Requests :
    p # q /\ req[p].pc \in Holding /\ req[q].pc \in Holding
      => req[p].x # req[q].x

(* The key k does not lie between lo and hi. *)
Outside(k, lo, hi) ==
  (lo # NoKey /\ ~Drw!Less(lo, k)) \/ (hi # NoKey /\ ~Drw!Less(k, hi))

(* What holds of a request by the statement it is at: what it read is      *)
(* true still, but for the things that were written since.                 *)
Moving(r) ==
  r.pc \in {"next", "write"} =>
    /\ r.x \in Drw!Things
    /\ r.x \in live \/ (r.pc = "write" /\ r.x \notin gone /\ r.to = None)
    /\ r.pc = "next" => r.lo # NoKey
    /\ r.x \in live /\ r.after = None => r.lo = NoKey
    /\ r.after # None /\ r.missed = {} => r.lo = pos[r.after]

Choosing(r) ==
  r.pc = "write" =>
    /\ Drw!Below(r.lo, r.hi)
    /\ \A y \in Drw!Peers(r.x, r.to) :
         y \in r.missed \/ Outside(pos[y], r.lo, r.hi)

Emptying(r) ==
  r.pc \in {"last", "empty"} =>
    /\ r.x \in Groups \cap live
    /\ \A i \in Items :
         group[i] = r.x => \E n \in 1 .. Len(r.order) : r.order[n] = i
    /\ r.pc = "empty" =>
         \A y \in Drw!InGroup(None) :
           y \in r.missed \/ (r.lo # NoKey /\ ~Drw!Less(r.lo, pos[y]))

Reading(r) ==
  /\ r.pc = "shelf-items" =>
       \A i \in Drw!Visible : group[i] \in r.groups \cup {None} \/ i \in r.missed
  /\ r.pc = "shelf-groups" =>
       \A t \in r.rows : \/ t[1] \in r.missed
                         \/ t[1] \in live /\ group[t[1]] = t[2]
  /\ r.pc = "answer" =>
       \A t \in r.rows : t[2] \in r.groups \cup {None} \/ t[1] \in r.missed

Truly(r) == Moving(r) /\ Choosing(r) /\ Emptying(r) /\ Reading(r)

DrwInv ==
  /\ DrwTypes /\ Lies /\ OneHolder /\ Drw!TiesAreRaces
  /\ \A p \in Requests : Truly(req[p])

(* What the assumptions say of the drawer. *)
LEMMA DrwConstants ==
  PartsAssumption =>
    /\ Drw!Things = Items \cup Groups /\ Drw!Things \subseteq Nat
    /\ Items \cap Groups = {} /\ None \notin Drw!Things
    /\ IsFiniteSet(Items) /\ IsFiniteSet(Groups)
    /\ IsFiniteSet(Drw!Things) /\ NoKey \notin Drw!Key
    /\ Width \in Nat /\ MaxWrites \in Nat /\ Filled \subseteq Drw!Things
    /\ FilledIn \in [Items \cap Filled -> (Groups \cap Filled) \cup {None}]
  <1> SUFFICES ASSUME PartsAssumption
               PROVE  /\ Drw!Things = Items \cup Groups /\ Drw!Things \subseteq Nat
                      /\ Items \cap Groups = {} /\ None \notin Drw!Things
                      /\ IsFiniteSet(Items) /\ IsFiniteSet(Groups)
                      /\ IsFiniteSet(Drw!Things) /\ NoKey \notin Drw!Key
                      /\ Width \in Nat /\ MaxWrites \in Nat
                      /\ Filled \subseteq Drw!Things
                      /\ FilledIn \in [Items \cap Filled ->
                                         (Groups \cap Filled) \cup {None}]
    OBVIOUS
  <1>1. Drw!DrawerAssumption
    BY DEF PartsAssumption
  <1>2. IsFiniteSet(Items) /\ IsFiniteSet(Groups)
    BY <1>1 DEF Drw!DrawerAssumption, Drw!IsFiniteSet, IsFiniteSet
  <1>3. IsFiniteSet(Items \cup Groups)
    BY <1>2, FS_Union
  <1> QED BY <1>1, <1>2, <1>3 DEF Drw!DrawerAssumption, Drw!Things

LEMMA SameCardinality == \A S : Drw!Cardinality(S) = Cardinality(S)
  BY DEF Drw!Cardinality, Cardinality

(* The edges of a list. *)
LEMMA FirstKeyIsFirst ==
  ASSUME PartsAssumption, pos \in [Drw!Things -> Drw!Key],
         NEW S \in SUBSET Drw!Things
  PROVE  /\ Drw!FirstKey(S) \in Drw!Key \cup {NoKey}
         /\ \A t \in S : /\ Drw!FirstKey(S) # NoKey
                         /\ ~Drw!Less(pos[t], Drw!FirstKey(S))
         /\ Drw!FirstKey(S) # NoKey => \E t \in S : pos[t] = Drw!FirstKey(S)
  <1>1. CASE S = {}
    BY <1>1 DEF Drw!FirstKey
  <1>2. CASE S # {}
    <2> DEFINE K == {pos[t] : t \in S}
               f == [t \in S |-> pos[t]]
               R == {ab \in Drw!Key \X Drw!Key : Drw!Less(ab[1], ab[2])}
    <2>1. IsFiniteSet(K)
      <3>1. IsFiniteSet(S)
        BY DrwConstants, FS_Subset
      <3>2. f \in Surjection(S, K)
        BY DEF Surjection
      <3> HIDE DEF f, K
      <3> QED BY <3>1, <3>2, FS_Surjection
    <2>2. K # {} /\ K \subseteq Drw!Key
      BY <1>2
    <2>3. \A a, b \in Drw!Key : <<a, b>> \in R <=> Drw!Less(a, b)
      OBVIOUS
    <2>4. /\ \A u \in K : <<u, u>> \notin R
          /\ \A u, v, w \in K : <<u, v>> \in R /\ <<v, w>> \in R => <<u, w>> \in R
      <3> HIDE DEF K, R
      <3> QED BY <2>2, <2>3, KeysInOrder
    <2>5. PICK k \in K : \A l \in K : <<l, k>> \notin R
      <3> HIDE DEF K, R
      <3> QED BY <2>1, <2>2, <2>4, FirstOfAll
    <2>6. \A l \in K : ~Drw!Less(l, k)
      <3> HIDE DEF K, R
      <3> QED BY <2>2, <2>3, <2>5
    <2>7. Drw!FirstKey(S) = CHOOSE j \in K : \A l \in K : ~Drw!Less(l, j)
      BY <1>2 DEF Drw!FirstKey, Drw!Lowest
    <2>8. /\ Drw!FirstKey(S) \in K
          /\ \A l \in K : ~Drw!Less(l, Drw!FirstKey(S))
      <3> HIDE DEF K, R
      <3> QED BY <2>6, <2>7
    <2> QED BY <2>2, <2>8, DrwConstants
  <1> QED BY <1>1, <1>2

LEMMA LastKeyIsLast ==
  ASSUME PartsAssumption, pos \in [Drw!Things -> Drw!Key],
         NEW S \in SUBSET Drw!Things
  PROVE  /\ Drw!LastKey(S) \in Drw!Key \cup {NoKey}
         /\ \A t \in S : /\ Drw!LastKey(S) # NoKey
                         /\ ~Drw!Less(Drw!LastKey(S), pos[t])
  <1>1. CASE S = {}
    BY <1>1 DEF Drw!LastKey
  <1>2. CASE S # {}
    <2> DEFINE K == {pos[t] : t \in S}
               f == [t \in S |-> pos[t]]
               R == {ab \in Drw!Key \X Drw!Key : Drw!Less(ab[2], ab[1])}
    <2>1. IsFiniteSet(K)
      <3>1. IsFiniteSet(S)
        BY DrwConstants, FS_Subset
      <3>2. f \in Surjection(S, K)
        BY DEF Surjection
      <3> HIDE DEF f, K
      <3> QED BY <3>1, <3>2, FS_Surjection
    <2>2. K # {} /\ K \subseteq Drw!Key
      BY <1>2
    <2>3. \A a, b \in Drw!Key : <<a, b>> \in R <=> Drw!Less(b, a)
      OBVIOUS
    <2>4. /\ \A u \in K : <<u, u>> \notin R
          /\ \A u, v, w \in K : <<u, v>> \in R /\ <<v, w>> \in R => <<u, w>> \in R
      <3> HIDE DEF K, R
      <3> QED BY <2>2, <2>3, KeysInOrder
    <2>5. PICK k \in K : \A l \in K : <<l, k>> \notin R
      <3> HIDE DEF K, R
      <3> QED BY <2>1, <2>2, <2>4, FirstOfAll
    <2>6. \A l \in K : ~Drw!Less(k, l)
      <3> HIDE DEF K, R
      <3> QED BY <2>2, <2>3, <2>5
    <2>7. Drw!LastKey(S) = CHOOSE j \in K : \A l \in K : ~Drw!Less(j, l)
      BY <1>2 DEF Drw!LastKey, Drw!Highest
    <2>8. /\ Drw!LastKey(S) \in K
          /\ \A l \in K : ~Drw!Less(Drw!LastKey(S), l)
      <3> HIDE DEF K, R
      <3> QED BY <2>6, <2>7
    <2> QED BY <2>2, <2>8, DrwConstants
  <1> QED BY <1>1, <1>2

(* The tapes of a group that is deleted are all in the list of them. *)
LEMMA ListedHasAll ==
  ASSUME PartsAssumption, DrwTypes, NEW S \in SUBSET Items
  PROVE  /\ Drw!Listed(S) \in Seq(Items)
         /\ \A i \in S : \E n \in 1 .. Len(Drw!Listed(S)) : Drw!Listed(S)[n] = i
  <1> DEFINE R == {ij \in Items \X Items : Drw!TapeBefore(ij[1], ij[2])}
             N == Cardinality(S)
  <1>1. IsFiniteSet(S) /\ S \subseteq Items /\ Items \subseteq Nat
    BY DrwConstants, FS_Subset
  <1>2. \A i, j \in Items : <<i, j>> \in R <=> Drw!TapeBefore(i, j)
    OBVIOUS
  <1>3. Orders(R, S)
    <2>1. \A i \in Items : i \in Nat /\ pos[i] \in Drw!Key
      BY <1>1, DrwConstants DEF DrwTypes
    <2>2. \A i, j, k \in Items :
            /\ ~Drw!TapeBefore(i, i)
            /\ Drw!TapeBefore(i, j) /\ Drw!TapeBefore(j, k) => Drw!TapeBefore(i, k)
            /\ i = j \/ Drw!TapeBefore(i, j) \/ Drw!TapeBefore(j, i)
      <3> SUFFICES ASSUME NEW i \in Items, NEW j \in Items, NEW k \in Items
                   PROVE  /\ ~Drw!TapeBefore(i, i)
                          /\ Drw!TapeBefore(i, j) /\ Drw!TapeBefore(j, k)
                               => Drw!TapeBefore(i, k)
                          /\ i = j \/ Drw!TapeBefore(i, j) \/ Drw!TapeBefore(j, i)
        OBVIOUS
      <3>1. /\ i \in Nat /\ j \in Nat /\ k \in Nat /\ pos[i] \in Drw!Key
            /\ pos[j] \in Drw!Key /\ pos[k] \in Drw!Key
        BY <2>1
      <3>2. /\ ~Drw!Less(pos[i], pos[i])
            /\ Drw!Less(pos[i], pos[j]) /\ Drw!Less(pos[j], pos[k])
                 => Drw!Less(pos[i], pos[k])
            /\ pos[i] = pos[j] \/ Drw!Less(pos[i], pos[j])
                               \/ Drw!Less(pos[j], pos[i])
        BY <3>1, KeysInOrder
      <3> QED BY <3>1, <3>2 DEF Drw!TapeBefore
    <2> HIDE DEF R
    <2> QED BY <1>1, <1>2, <2>2 DEF Orders
  <1>4. /\ N \in Nat /\ Sorted(R, S) \in [1 .. N -> S]
        /\ \A i \in S : \E n \in 1 .. N : Sorted(R, S)[n] = i
    BY <1>1, <1>3, SortedLists
  <1>5. \A i \in S : RankOf(R, S, i)
                        = Drw!Cardinality({j \in S : Drw!TapeBefore(j, i)})
    <2> SUFFICES ASSUME NEW i \in S
                 PROVE  RankOf(R, S, i)
                          = Drw!Cardinality({j \in S : Drw!TapeBefore(j, i)})
      OBVIOUS
    <2>1. Before(R, S, i) = {j \in S : Drw!TapeBefore(j, i)}
      BY <1>1, <1>2 DEF Before
    <2> QED BY <2>1, SameCardinality DEF RankOf
  <1>6. Drw!Listed(S) = [n \in 1 .. N |-> Drw!Listed(S)[n]]
    <2> DEFINE e(n) == CHOOSE i \in S :
                 Drw!Cardinality({j \in S : Drw!TapeBefore(j, i)}) = n - 1
    <2>1. Drw!Listed(S) = [n \in 1 .. N |-> e(n)]
      BY SameCardinality, Zenon DEF Drw!Listed
    <2> HIDE DEF e
    <2> QED BY <2>1
  <1>7. \A n \in 1 .. N : Drw!Listed(S)[n] = Sorted(R, S)[n]
    <2> SUFFICES ASSUME NEW n \in 1 .. N
                 PROVE  Drw!Listed(S)[n] = Sorted(R, S)[n]
      OBVIOUS
    <2>1. (CHOOSE i \in S :
             Drw!Cardinality({j \in S : Drw!TapeBefore(j, i)}) = n - 1)
          = (CHOOSE x \in S : RankOf(R, S, x) = n - 1)
      BY <1>5
    <2>2. Sorted(R, S)[n] = CHOOSE x \in S : RankOf(R, S, x) = n - 1
      BY DEF Sorted
    <2>3. Drw!Listed(S)[n] = CHOOSE i \in S :
             Drw!Cardinality({j \in S : Drw!TapeBefore(j, i)}) = n - 1
      BY SameCardinality DEF Drw!Listed
    <2> QED BY <2>1, <2>2, <2>3
  <1> HIDE DEF R, N
  <1>8. Drw!Listed(S) \in [1 .. N -> S]
    BY <1>4, <1>6, <1>7
  <1>9. Drw!Listed(S) \in [1 .. N -> Items]
    BY <1>1, <1>8
  <1>10. Drw!Listed(S) \in Seq(Items)
    BY <1>4, <1>9, SeqDef
  <1>11. Len(Drw!Listed(S)) = N
    BY <1>4, <1>9, <1>10
  <1> QED BY <1>4, <1>7, <1>10, <1>11

(* A request that sees what others wrote, in S, and does nothing itself. *)
LEMMA OtherKeeps ==
  ASSUME PartsAssumption, DrwTypes, Lies,
         NEW S \in SUBSET Drw!Things, NEW q \in Requests, Truly(req[q]),
         req'[q] = [req[q] EXCEPT !.missed = @ \cup S],
         \A t \in Drw!Things \ S :
           /\ t \in live' <=> t \in live
           /\ t \in gone' <=> t \in gone
           /\ pos'[t] = pos[t],
         \A i \in Items \ S : group'[i] = group[i],
         req[q].pc \in Holding => req[q].x \notin S,
         req[q].pc \in {"last", "empty"} =>
           \A i \in Items : group'[i] = req[q].x => group[i] = req[q].x,
         live' \subseteq Drw!Things
  PROVE  Truly(req[q])'
  <1> DEFINE r == req[q]
             s == req'[q]
  <1>1. /\ r \in DrwRequest
        /\ s.pc = r.pc /\ s.x = r.x /\ s.to = r.to /\ s.after = r.after
        /\ s.lo = r.lo /\ s.hi = r.hi /\ s.order = r.order
        /\ s.rows = r.rows /\ s.groups = r.groups
        /\ s.missed = r.missed \cup S
    BY DEF DrwTypes, DrwRequest
  <1>2. /\ r.x \in Drw!Things \cup {None} /\ r.after \in Drw!Things \cup {None}
        /\ r.to \in Groups \cup {None} /\ r.rows \subseteq Items \X (Groups \cup {None})
        /\ r.order \in Seq(Items)
    BY <1>1 DEF DrwRequest
  <1>3. Moving(r) /\ Choosing(r) /\ Emptying(r) /\ Reading(r)
    BY DEF Truly
  <1>4. /\ Drw!Things = Items \cup Groups /\ Items \cap Groups = {}
        /\ None \notin Drw!Things
    BY DrwConstants
  <1> HIDE DEF r, s
  <1>5. Moving(req[q])'
    <2> SUFFICES ASSUME s.pc \in {"next", "write"}
                 PROVE  /\ s.x \in Drw!Things
                        /\ \/ s.x \in live'
                           \/ s.pc = "write" /\ s.x \notin gone' /\ s.to = None
                        /\ s.pc = "next" => s.lo # NoKey
                        /\ s.x \in live' /\ s.after = None => s.lo = NoKey
                        /\ s.after # None /\ s.missed = {}
                             => s.lo = pos'[s.after]
      BY DEF Moving, s
    <2>1. r.x \in Drw!Things \ S
      BY <1>1, <1>3 DEF Moving, Holding, r
    <2>2. s.after # None /\ s.missed = {} => r.after \in Drw!Things \ S
      BY <1>1, <1>2
    <2> QED BY <1>1, <1>3, <2>1, <2>2 DEF Moving
  <1>6. Choosing(req[q])'
    <2> SUFFICES ASSUME s.pc = "write"
                 PROVE  /\ Drw!Below(s.lo, s.hi)
                        /\ \A y \in Drw!Peers(req[q].x, req[q].to)' :
                             y \in s.missed \/ Outside(pos'[y], s.lo, s.hi)
      BY DEF Choosing, s, Outside, Drw!Below, Drw!Less, Drw!FracLess
    <2>1. Drw!Below(s.lo, s.hi)
      BY <1>1, <1>3 DEF Choosing
    <2>2. ASSUME NEW y \in Drw!Peers(req[q].x, req[q].to)', y \notin s.missed
          PROVE  Outside(pos'[y], s.lo, s.hi)
      <3>1. y \in Drw!Things \ S /\ y \notin r.missed
        BY <1>1, <1>4, <2>2
        DEF Drw!Peers, Drw!Standing, Drw!InGroup, Drw!Visible, s
      <3>2. y \in Drw!Peers(r.x, r.to)
        BY <1>1, <1>4, <2>2, <3>1
        DEF Drw!Peers, Drw!Standing, Drw!InGroup, Drw!Visible, s
      <3>3. Outside(pos[y], r.lo, r.hi)
        BY <1>1, <1>3, <3>1, <3>2 DEF Choosing
      <3> QED BY <1>1, <3>1, <3>3
    <2> QED BY <2>1, <2>2
  <1>7. Emptying(req[q])'
    <2> SUFFICES ASSUME s.pc \in {"last", "empty"}
                 PROVE  /\ s.x \in Groups \cap live'
                        /\ \A i \in Items :
                             group'[i] = s.x =>
                               \E n \in 1 .. Len(s.order) : s.order[n] = i
                        /\ s.pc = "empty" =>
                             \A y \in Drw!InGroup(None)' :
                               \/ y \in s.missed
                               \/ s.lo # NoKey /\ ~Drw!Less(s.lo, pos'[y])
      BY DEF Emptying, s, Drw!Less, Drw!FracLess
    <2>1. r.x \in Groups \cap live /\ r.x \notin S
      BY <1>1, <1>3 DEF Emptying, Holding, r
    <2>2. \A i \in Items : group'[i] = r.x => group[i] = r.x
      BY <1>1 DEF r
    <2>3. ASSUME s.pc = "empty", NEW y \in Drw!InGroup(None)', y \notin s.missed
          PROVE  s.lo # NoKey /\ ~Drw!Less(s.lo, pos'[y])
      <3>1. y \in Drw!Things \ S /\ y \notin r.missed /\ y \in Drw!InGroup(None)
        BY <1>1, <1>4, <2>3 DEF Drw!InGroup, Drw!Visible
      <3> QED BY <1>1, <1>3, <2>3, <3>1 DEF Emptying
    <2> QED BY <1>1, <1>3, <1>4, <2>1, <2>2, <2>3 DEF Emptying
  <1>8. Reading(req[q])'
    <2>1. ASSUME s.pc = "shelf-items", NEW i \in Drw!Visible', i \notin s.missed
          PROVE  group'[i] \in s.groups \cup {None}
      <3>1. i \in Items \ S /\ i \notin r.missed /\ i \in Drw!Visible
        BY <1>1, <1>4, <2>1 DEF Drw!Visible
      <3> QED BY <1>1, <1>3, <2>1, <3>1 DEF Reading
    <2>2. ASSUME s.pc = "shelf-groups", NEW t \in s.rows, t[1] \notin s.missed
          PROVE  t[1] \in live' /\ group'[t[1]] = t[2]
      <3>1. t[1] \in Items \ S /\ t[1] \notin r.missed /\ t[1] \in Drw!Things
        BY <1>1, <1>2, <1>4, <2>2
      <3> QED BY <1>1, <1>3, <2>2, <3>1 DEF Reading
    <2>3. s.pc = "answer" =>
            \A t \in s.rows : t[2] \in s.groups \cup {None} \/ t[1] \in s.missed
      BY <1>1, <1>3 DEF Reading
    <2> QED BY <2>1, <2>2, <2>3 DEF Reading, s
  <1> QED BY <1>5, <1>6, <1>7, <1>8 DEF Truly

(* A request that reads, begins or ends, and writes nothing. *)
LEMMA GoesOn ==
  ASSUME PartsAssumption, DrwInv, NEW p \in Requests, NEW r \in DrwRequest,
         Drw!Goto(p, r), Truly(r),
         r.pc \in Holding =>
           \A q \in Requests \ {p} : req[q].pc \in Holding => req[q].x # r.x
  PROVE  DrwInv'
  <1>1. /\ req' = [req EXCEPT ![p] = r]
        /\ UNCHANGED <<live, gone, group, opened, pos, writes, missed>>
    BY DEF Drw!Goto
  <1>2. /\ DrwTypes /\ Lies /\ OneHolder /\ Drw!TiesAreRaces
        /\ \A q \in Requests : Truly(req[q])
    BY DEF DrwInv
  <1>3. DrwTypes' /\ Lies'
    BY <1>1, <1>2 DEF DrwTypes, Lies
  <1>4. \A q \in Requests : req'[q] = IF q = p THEN r ELSE req[q]
    BY <1>1, <1>2 DEF DrwTypes
  <1>5. OneHolder'
    BY <1>2, <1>4 DEF OneHolder
  <1>6. Drw!TiesAreRaces'
    BY <1>1, <1>2
    DEF Drw!TiesAreRaces, Drw!Together, Drw!Standing, Drw!Visible
  <1>7. ASSUME NEW q \in Requests
        PROVE  Truly(req[q])'
    <2> DEFINE s == req'[q]
    <2>1. Truly(s)
      BY <1>2, <1>4
    <2> HIDE DEF s
    <2>2. Moving(req[q])'
      BY <1>1, <2>1 DEF Truly, Moving, s
    <2>3. Choosing(req[q])'
      <3> SUFFICES ASSUME s.pc = "write"
                   PROVE  /\ Drw!Below(s.lo, s.hi)
                          /\ \A y \in Drw!Peers(req[q].x, req[q].to)' :
                               y \in s.missed \/ Outside(pos'[y], s.lo, s.hi)
        BY DEF Choosing, s, Outside, Drw!Below, Drw!Less, Drw!FracLess
      <3>1. Drw!Peers(req[q].x, req[q].to)' = Drw!Peers(s.x, s.to)
        BY <1>1 DEF Drw!Peers, Drw!Standing, Drw!InGroup, Drw!Visible, s
      <3> QED BY <1>1, <2>1, <3>1 DEF Truly, Choosing
    <2>4. Emptying(req[q])'
      BY <1>1, <2>1
      DEF Truly, Emptying, s, Drw!InGroup, Drw!Visible
    <2>5. Reading(req[q])'
      BY <1>1, <2>1 DEF Truly, Reading, s, Drw!Visible
    <2> QED BY <2>2, <2>3, <2>4, <2>5 DEF Truly
  <1> QED BY <1>3, <1>5, <1>6, <1>7 DEF DrwInv

(* A request that begins, and one that does nothing. *)
LEMMA Tasks ==
  ASSUME PartsAssumption,
         NEW pc \in {"next", "write", "last", "empty", "shelf-groups",
                     "shelf-items", "answer"},
         NEW x \in Drw!Things \cup {None}
  PROVE  /\ Drw!Idle \in DrwRequest /\ Drw!Idle.pc = "idle" /\ Truly(Drw!Idle)
         /\ Drw!Task(pc, x) \in DrwRequest
         /\ Drw!Task(pc, x).pc = pc /\ Drw!Task(pc, x).x = x
         /\ Drw!Task(pc, x).to = None /\ Drw!Task(pc, x).after = None
         /\ Drw!Task(pc, x).lo = NoKey /\ Drw!Task(pc, x).hi = NoKey
         /\ Drw!Task(pc, x).missed = {}
  <1>1. /\ Drw!Idle \in DrwRequest /\ Drw!Idle.pc = "idle"
        /\ Drw!Idle.to = None /\ Drw!Idle.after = None
        /\ Drw!Idle.lo = NoKey /\ Drw!Idle.hi = NoKey
        /\ Drw!Idle.missed = {}
    BY DEF Drw!Idle, DrwRequest
  <1>2. Truly(Drw!Idle)
    BY <1>1 DEF Truly, Moving, Choosing, Emptying, Reading
  <1> QED BY <1>1, <1>2 DEF Drw!Task, DrwRequest

(* The oldest of what is new. *)
LEMMA MinIsMember ==
  ASSUME PartsAssumption, NEW S \in SUBSET Drw!Things, S # {}
  PROVE  Drw!Min(S) \in S
  <1>1. S \in SUBSET Nat
    BY DrwConstants
  <1>2. \E n \in S : \A m \in S : n <= m
    BY <1>1, LeastNumber
  <1> QED BY <1>2 DEF Drw!Min

(* The gap before the first of a list, and after the last. *)
LEMMA NothingBefore ==
  ASSUME PartsAssumption, pos \in [Drw!Things -> Drw!Key],
         NEW S \in SUBSET Drw!Things
  PROVE  /\ Drw!FirstKey(S) \in Drw!Key \cup {NoKey}
         /\ Drw!Below(NoKey, Drw!FirstKey(S))
         /\ \A y \in S : Outside(pos[y], NoKey, Drw!FirstKey(S))
  BY FirstKeyIsFirst DEF Outside, Drw!Below

LEMMA NothingBehind ==
  ASSUME PartsAssumption, pos \in [Drw!Things -> Drw!Key],
         NEW S \in SUBSET Drw!Things
  PROVE  /\ Drw!LastKey(S) \in Drw!Key \cup {NoKey}
         /\ Drw!Below(Drw!LastKey(S), NoKey)
         /\ \A y \in S : Outside(pos[y], Drw!LastKey(S), NoKey)
  BY LastKeyIsLast DEF Outside, Drw!Below

(* ... and the gap behind a neighbour that was read. *)
LEMMA NothingBetween ==
  ASSUME PartsAssumption, pos \in [Drw!Things -> Drw!Key],
         NEW S \in SUBSET Drw!Things, NEW lo \in Drw!Key
  PROVE  /\ Drw!NextKey(S, lo) \in Drw!Key \cup {NoKey}
         /\ Drw!Below(lo, Drw!NextKey(S, lo))
         /\ \A y \in S : Outside(pos[y], lo, Drw!NextKey(S, lo))
  <1> DEFINE T == {t \in S : lo # NoKey => Drw!Less(lo, pos[t])}
  <1>1. lo # NoKey
    BY DrwConstants
  <1>2. T \in SUBSET Drw!Things /\ Drw!NextKey(S, lo) = Drw!FirstKey(T)
    BY DEF Drw!NextKey
  <1>3. \A y \in S : y \in T \/ ~Drw!Less(lo, pos[y])
    OBVIOUS
  <1>4. \A t \in T : Drw!Less(lo, pos[t])
    BY <1>1
  <1> HIDE DEF T
  <1>5. /\ Drw!FirstKey(T) \in Drw!Key \cup {NoKey}
        /\ \A t \in T : /\ Drw!FirstKey(T) # NoKey
                        /\ ~Drw!Less(pos[t], Drw!FirstKey(T))
        /\ Drw!FirstKey(T) # NoKey => \E t \in T : pos[t] = Drw!FirstKey(T)
    BY <1>2, FirstKeyIsFirst
  <1> QED BY <1>1, <1>2, <1>3, <1>4, <1>5 DEF Outside, Drw!Below

(* A tape arrives or a group is made: at the edge of its list. *)
LEMMA ArrivesOrBegins ==
  ASSUME PartsAssumption, DrwInv, NEW p \in Requests,
         Drw!Arrive(p) \/ Drw!CreateGroup(p)
  PROVE  DrwInv'
  <1>1. /\ DrwTypes /\ pos \in [Drw!Things -> Drw!Key]
        /\ Drw!InGroup(None) \in SUBSET Drw!Things
        /\ Drw!Standing \in SUBSET Drw!Things
        /\ Items \cup Groups = Drw!Things /\ Items \cap Groups = {}
        /\ None \notin Drw!Things
    BY DrwConstants
    DEF DrwInv, DrwTypes, Drw!InGroup, Drw!Visible, Drw!Standing
  <1>2. ASSUME NEW x \in Drw!Things, x \notin live \cup gone,
               \A q \in Requests : req[q].x # x,
               NEW lo \in Drw!Key \cup {NoKey}, NEW hi \in Drw!Key \cup {NoKey},
               Drw!Below(lo, hi),
               \A y \in Drw!Peers(x, None) : Outside(pos[y], lo, hi),
               NEW r \in DrwRequest, r.pc = "write", r.x = x, r.to = None,
               r.after = None, r.lo = lo, r.hi = hi, r.missed = {},
               Drw!Goto(p, r)
        PROVE  DrwInv'
    <2>2. Truly(r)
      BY <1>2 DEF Truly, Moving, Choosing, Emptying, Reading
    <2>3. \A q \in Requests \ {p} : req[q].x # r.x
      BY <1>2
    <2> QED BY <1>2, <2>2, <2>3, GoesOn
  <1>3. CASE Drw!Arrive(p)
    <2> DEFINE F == Drw!Fresh(Items)
               x == Drw!Min(F)
               hi == Drw!FirstKey(Drw!InGroup(None))
    <2>1. F # {} /\ F \in SUBSET Drw!Things
      BY <1>1, <1>3 DEF Drw!Arrive, Drw!Fresh
    <2>2. x \in F
      BY <2>1, MinIsMember
    <2>3. /\ x \in Items /\ x \notin live \cup gone
          /\ \A q \in Requests : req[q].x # x
      BY <2>2 DEF Drw!Fresh
    <2>4. Drw!Peers(x, None) \subseteq Drw!InGroup(None)
      BY <1>1, <2>3 DEF Drw!Peers
    <2>5. Drw!Goto(p, [Drw!Task("write", x) EXCEPT !.hi = hi])
      BY <1>3 DEF Drw!Arrive, Drw!Start
    <2> HIDE DEF F, x, hi
    <2> DEFINE r == [Drw!Task("write", x) EXCEPT !.hi = hi]
    <2>7. /\ hi \in Drw!Key \cup {NoKey} /\ Drw!Below(NoKey, hi)
          /\ \A y \in Drw!Peers(x, None) : Outside(pos[y], NoKey, hi)
      BY <1>1, <2>4, NothingBefore DEF hi
    <2>8. /\ r \in DrwRequest /\ r.pc = "write" /\ r.x = x /\ r.to = None
          /\ r.after = None /\ r.lo = NoKey /\ r.hi = hi /\ r.missed = {}
      <3> DEFINE t == Drw!Task("write", x)
      <3>1. /\ t \in DrwRequest /\ t.pc = "write" /\ t.x = x
            /\ t.to = None /\ t.after = None /\ t.lo = NoKey
            /\ t.hi = NoKey /\ t.missed = {}
        BY <1>1, <2>3, <2>7, DrwConstants, Tasks
      <3> QED BY <1>1, <2>3, <2>7, <3>1 DEF DrwRequest
    <2> HIDE DEF r
    <2> QED BY <1>1, <1>2, <2>3, <2>5, <2>7, <2>8 DEF r
  <1>4. CASE Drw!CreateGroup(p)
    <2> DEFINE F == Drw!Fresh(Groups)
               x == Drw!Min(F)
               lo == Drw!LastKey(Drw!Standing)
    <2>1. F # {} /\ F \in SUBSET Drw!Things
      BY <1>1, <1>4 DEF Drw!CreateGroup, Drw!Fresh
    <2>2. x \in F
      BY <2>1, MinIsMember
    <2>3. /\ x \in Groups /\ x \notin live \cup gone
          /\ \A q \in Requests : req[q].x # x
      BY <2>2 DEF Drw!Fresh
    <2>4. Drw!Peers(x, None) \subseteq Drw!Standing
      BY <1>1, <2>3 DEF Drw!Peers
    <2>5. Drw!Goto(p, [Drw!Task("write", x) EXCEPT !.lo = lo])
      BY <1>4 DEF Drw!CreateGroup, Drw!Start
    <2> HIDE DEF F, x, lo
    <2> DEFINE r == [Drw!Task("write", x) EXCEPT !.lo = lo]
    <2>7. /\ lo \in Drw!Key \cup {NoKey} /\ Drw!Below(lo, NoKey)
          /\ \A y \in Drw!Peers(x, None) : Outside(pos[y], lo, NoKey)
      BY <1>1, <2>4, NothingBehind DEF lo
    <2>8. /\ r \in DrwRequest /\ r.pc = "write" /\ r.x = x /\ r.to = None
          /\ r.after = None /\ r.lo = lo /\ r.hi = NoKey /\ r.missed = {}
      <3> DEFINE t == Drw!Task("write", x)
      <3>1. /\ t \in DrwRequest /\ t.pc = "write" /\ t.x = x
            /\ t.to = None /\ t.after = None /\ t.lo = NoKey
            /\ t.hi = NoKey /\ t.missed = {}
        BY <1>1, <2>3, <2>7, DrwConstants, Tasks
      <3> QED BY <1>1, <2>3, <2>7, <3>1 DEF DrwRequest
    <2> HIDE DEF r
    <2> QED BY <1>1, <1>2, <2>3, <2>5, <2>7, <2>8 DEF r
  <1> QED BY <1>3, <1>4

(* A tape or a group is moved: after None is the edge of the list. *)
LEMMA Places ==
  ASSUME PartsAssumption, DrwInv, NEW p \in Requests,
         NEW x \in live, NEW to \in Groups \cup {None},
         NEW after \in Drw!Things \cup {None}, Drw!Place(p, x, to, after)
  PROVE  DrwInv'
  <1>1. /\ DrwTypes /\ pos \in [Drw!Things -> Drw!Key]
        /\ live \subseteq Drw!Things /\ gone \cap live = {}
        /\ Drw!Peers(x, to) \in SUBSET Drw!Things
        /\ Items \cup Groups = Drw!Things /\ None \notin Drw!Things
        /\ NoKey \notin Drw!Key
    BY DrwConstants
    DEF DrwInv, DrwTypes, Lies, Drw!Peers, Drw!InGroup, Drw!Visible, Drw!Standing
  <1>2. \A q \in Requests : req[q].pc \in Holding => req[q].x # x
    BY DEF Drw!Place, Drw!Unlocked, Holding
  <1>3. CASE after = None
    <2> DEFINE hi == Drw!FirstKey(Drw!Peers(x, to))
               r == [Drw!Task("write", x) EXCEPT !.to = to, !.hi = hi]
    <2>1. Drw!Goto(p, r)
      BY <1>3 DEF Drw!Place, Drw!Start
    <2>2. /\ hi \in Drw!Key \cup {NoKey} /\ Drw!Below(NoKey, hi)
          /\ \A y \in Drw!Peers(x, to) : Outside(pos[y], NoKey, hi)
      BY <1>1, NothingBefore
    <2> HIDE DEF hi
    <2>3. /\ r \in DrwRequest /\ r.pc = "write" /\ r.x = x /\ r.to = to
          /\ r.after = None /\ r.lo = NoKey /\ r.hi = hi /\ r.missed = {}
      <3> DEFINE t == Drw!Task("write", x)
      <3>1. /\ t \in DrwRequest /\ t.pc = "write" /\ t.x = x
            /\ t.to = None /\ t.after = None /\ t.lo = NoKey
            /\ t.hi = NoKey /\ t.missed = {}
        BY <1>1, <2>2, DrwConstants, Tasks
      <3> QED BY <1>1, <2>2, <3>1 DEF DrwRequest
    <2> HIDE DEF r
    <2>5. Truly(r)
      BY <1>1, <2>2, <2>3 DEF Truly, Moving, Choosing, Emptying, Reading
    <2> QED BY <1>2, <2>1, <2>3, <2>5, GoesOn
  <1>4. CASE after # None
    <2> DEFINE r == [Drw!Task("next", x) EXCEPT !.to = to, !.after = after,
                       !.lo = pos[after]]
    <2>1. Drw!Goto(p, r)
      BY <1>4 DEF Drw!Place, Drw!Start
    <2>3. pos[after] \in Drw!Key
      BY <1>1, <1>4
    <2>2. /\ r \in DrwRequest /\ r.pc = "next" /\ r.x = x /\ r.to = to
          /\ r.after = after /\ r.lo = pos[after] /\ r.missed = {}
      <3> DEFINE t == Drw!Task("next", x)
      <3>1. /\ t \in DrwRequest /\ t.pc = "next" /\ t.x = x
            /\ t.to = None /\ t.after = None /\ t.lo = NoKey
            /\ t.hi = NoKey /\ t.missed = {}
        BY <1>1, <2>3, DrwConstants, Tasks
      <3> QED BY <1>1, <2>3, <3>1 DEF DrwRequest
    <2> HIDE DEF r
    <2>5. Truly(r)
      BY <1>1, <1>4, <2>2, <2>3
      DEF Truly, Moving, Choosing, Emptying, Reading
    <2> QED BY <1>2, <2>1, <2>2, <2>5, GoesOn
  <1> QED BY <1>3, <1>4

LEMMA Moves ==
  ASSUME PartsAssumption, DrwInv, NEW p \in Requests,
         \/ \E i \in Items, to \in Groups \cup {None}, a \in Items \cup {None} :
              Drw!MoveItem(p, i, to, a)
         \/ \E g \in Groups, a \in Groups \cup {None} : Drw!UpdateGroup(p, g, a)
  PROVE  DrwInv'
  <1>1. Items \cup Groups = Drw!Things
    BY DrwConstants
  <1> QED BY <1>1, Places
          DEF Drw!MoveItem, Drw!UpdateGroup, Drw!Visible, Drw!Standing

(* The neighbour that follows is read. *)
LEMMA ReadsNext ==
  ASSUME PartsAssumption, DrwInv, NEW p \in Requests, Drw!ReadNext(p)
  PROVE  DrwInv'
  <1> DEFINE r == req[p]
             hi == Drw!NextKey(Drw!Peers(r.x, r.to), r.lo)
             s == [r EXCEPT !.pc = "write", !.hi = hi]
  <1>1. r.pc = "next" /\ Drw!Goto(p, s)
    BY DEF Drw!ReadNext, Drw!At
  <1>2. /\ DrwTypes /\ pos \in [Drw!Things -> Drw!Key] /\ r \in DrwRequest
        /\ Drw!Peers(r.x, r.to) \in SUBSET Drw!Things
        /\ Moving(r) /\ OneHolder
    BY DrwConstants
    DEF DrwInv, DrwTypes, Truly, Drw!Peers, Drw!InGroup, Drw!Visible,
        Drw!Standing
  <1>3. r.lo \in Drw!Key
    BY <1>1, <1>2 DEF Moving, DrwRequest
  <1>4. /\ hi \in Drw!Key \cup {NoKey} /\ Drw!Below(r.lo, hi)
        /\ \A y \in Drw!Peers(r.x, r.to) : Outside(pos[y], r.lo, hi)
    BY <1>2, <1>3, NothingBetween
  <1> HIDE DEF hi
  <1>5. /\ s \in DrwRequest /\ s.pc = "write" /\ s.hi = hi /\ s.x = r.x
        /\ s.lo = r.lo /\ s.to = r.to /\ s.after = r.after
        /\ s.missed = r.missed
    BY <1>2, <1>4 DEF DrwRequest
  <1> HIDE DEF s
  <1>6. Truly(s)
    BY <1>1, <1>2, <1>4, <1>5 DEF Truly, Moving, Choosing, Emptying, Reading
  <1>7. \A q \in Requests \ {p} : req[q].pc \in Holding => req[q].x # s.x
    BY <1>1, <1>2, <1>5 DEF OneHolder, Holding
  <1> QED BY <1>1, <1>5, <1>6, <1>7, GoesOn

(* A request ends. *)
LEMMA Ends ==
  ASSUME PartsAssumption, DrwInv, NEW p \in Requests, Drw!End(p)
  PROVE  DrwInv'
  <1>1. Drw!Goto(p, Drw!Idle)
    BY DEF Drw!End
  <1>2. Drw!Idle \in DrwRequest /\ Drw!Idle.pc = "idle" /\ Truly(Drw!Idle)
    BY Tasks
  <1> QED BY <1>1, <1>2, GoesOn DEF Holding

(* The tapes of a group that is deleted are read, and then the last place. *)
LEMMA DeletesGroup ==
  ASSUME PartsAssumption, DrwInv, NEW p \in Requests, NEW g \in Groups,
         Drw!DeleteGroup(p, g)
  PROVE  DrwInv'
  <1> DEFINE o == Drw!Listed(Drw!InGroup(g))
             r == [Drw!Task("last", g) EXCEPT !.order = o]
  <1>1. /\ g \in live /\ Drw!Goto(p, r)
        /\ \A q \in Requests : req[q].pc \in Holding => req[q].x # g
    BY DEF Drw!DeleteGroup, Drw!Start, Drw!Standing, Drw!Unlocked, Holding
  <1>2. DrwTypes /\ Lies /\ g \in Drw!Things /\ None \notin Drw!Things
    BY DrwConstants DEF DrwInv
  <1>3. /\ o \in Seq(Items)
        /\ \A i \in Drw!InGroup(g) : \E n \in 1 .. Len(o) : o[n] = i
    <2>1. Drw!InGroup(g) \in SUBSET Items
      BY DEF Drw!InGroup, Drw!Visible
    <2> QED BY <1>2, <2>1, ListedHasAll
  <1>4. \A i \in Items : group[i] = g => i \in Drw!InGroup(g)
    BY <1>2 DEF Lies, Drw!InGroup, Drw!Visible
  <1> HIDE DEF o
  <1>5. r \in DrwRequest /\ r.pc = "last" /\ r.x = g /\ r.order = o
    <2> DEFINE t == Drw!Task("last", g)
    <2>1. /\ t \in DrwRequest /\ t.pc = "last" /\ t.x = g
          /\ t.to = None /\ t.after = None /\ t.lo = NoKey
          /\ t.hi = NoKey /\ t.missed = {}
      BY <1>2, <1>3, DrwConstants, Tasks
    <2> QED BY <1>2, <1>3, <2>1 DEF DrwRequest
  <1> HIDE DEF r
  <1>7. Truly(r)
    BY <1>1, <1>3, <1>4, <1>5 DEF Truly, Moving, Choosing, Emptying, Reading
  <1> QED BY <1>1, <1>5, <1>7, GoesOn

LEMMA ReadsLast ==
  ASSUME PartsAssumption, DrwInv, NEW p \in Requests, Drw!ReadLast(p)
  PROVE  DrwInv'
  <1> DEFINE r == req[p]
             lo == Drw!LastKey(Drw!InGroup(None))
             s == [r EXCEPT !.pc = "empty", !.lo = lo]
  <1>1. r.pc = "last" /\ Drw!Goto(p, s)
    BY DEF Drw!ReadLast, Drw!At
  <1>2. /\ DrwTypes /\ pos \in [Drw!Things -> Drw!Key] /\ r \in DrwRequest
        /\ Drw!InGroup(None) \in SUBSET Drw!Things
        /\ Emptying(r) /\ OneHolder
    BY DrwConstants DEF DrwInv, DrwTypes, Truly, Drw!InGroup, Drw!Visible
  <1>3. /\ lo \in Drw!Key \cup {NoKey}
        /\ \A y \in Drw!InGroup(None) : lo # NoKey /\ ~Drw!Less(lo, pos[y])
    BY <1>2, LastKeyIsLast
  <1> HIDE DEF lo
  <1>4. /\ s \in DrwRequest /\ s.pc = "empty" /\ s.lo = lo /\ s.x = r.x
        /\ s.order = r.order
    BY <1>2, <1>3 DEF DrwRequest
  <1> HIDE DEF s
  <1>5. Truly(s)
    BY <1>1, <1>2, <1>3, <1>4 DEF Truly, Moving, Choosing, Emptying, Reading
  <1>6. \A q \in Requests \ {p} : req[q].pc \in Holding => req[q].x # s.x
    BY <1>1, <1>2, <1>4 DEF OneHolder, Holding
  <1> QED BY <1>1, <1>4, <1>5, <1>6, GoesOn

(* The two queries of getShelf. *)
LEMMA ReadsShelf ==
  ASSUME PartsAssumption, DrwInv, NEW p \in Requests,
         \/ Drw!ShelfGroupsFirst(p) \/ Drw!ShelfItemsFirst(p)
         \/ Drw!ShelfItems(p) \/ Drw!ShelfGroups(p)
  PROVE  DrwInv'
  <1>1. /\ DrwTypes /\ Lies /\ req[p] \in DrwRequest /\ Reading(req[p])
        /\ group \in [Items -> Groups \cup {None}]
    BY DEF DrwInv, DrwTypes, Truly
  <1>2. /\ Drw!Standing \subseteq Groups
        /\ Drw!VisibleItems \subseteq Items \X (Groups \cup {None})
        /\ \A i \in Drw!Visible : group[i] \in Drw!Standing \cup {None}
        /\ \A t \in Drw!VisibleItems :
             t[1] \in Drw!Visible /\ t[1] \in live /\ group[t[1]] = t[2]
        /\ \A i \in Items : i \in live => group[i] \in Drw!Standing \cup {None}
    BY <1>1
    DEF Drw!Standing, Drw!VisibleItems, Drw!Visible, Lies
  <1>3. ASSUME NEW s \in DrwRequest, Reading(s), Drw!Goto(p, s),
               s.pc \in {"shelf-items", "shelf-groups", "answer"}
        PROVE  DrwInv'
    <2>1. Truly(s) /\ s.pc \notin Holding
      BY <1>3 DEF Truly, Moving, Choosing, Emptying, Holding
    <2> QED BY <1>3, <2>1, GoesOn
  <1>4. CASE Drw!ShelfGroupsFirst(p)
    <2> DEFINE s == [Drw!Task("shelf-items", None) EXCEPT
                       !.groups = Drw!Standing]
    <2>1. Drw!Goto(p, s)
      BY <1>4 DEF Drw!ShelfGroupsFirst, Drw!Start
    <2>2. /\ s \in DrwRequest /\ s.pc = "shelf-items"
          /\ s.groups = Drw!Standing
      <3> DEFINE t == Drw!Task("shelf-items", None)
      <3>1. /\ t \in DrwRequest /\ t.pc = "shelf-items" /\ t.x = None
            /\ t.to = None /\ t.after = None /\ t.lo = NoKey
            /\ t.hi = NoKey /\ t.missed = {}
        BY <1>2, DrwConstants, Tasks
      <3> QED BY <1>2, <3>1 DEF DrwRequest
    <2> HIDE DEF s
    <2>3. Reading(s)
      BY <1>2, <2>2 DEF Reading
    <2> QED BY <1>3, <2>1, <2>2, <2>3
  <1>5. CASE Drw!ShelfItemsFirst(p)
    <2> DEFINE s == [Drw!Task("shelf-groups", None) EXCEPT
                       !.rows = Drw!VisibleItems]
    <2>1. Drw!Goto(p, s)
      BY <1>5 DEF Drw!ShelfItemsFirst, Drw!Start
    <2>2. /\ s \in DrwRequest /\ s.pc = "shelf-groups"
          /\ s.rows = Drw!VisibleItems
      <3> DEFINE t == Drw!Task("shelf-groups", None)
      <3>1. /\ t \in DrwRequest /\ t.pc = "shelf-groups" /\ t.x = None
            /\ t.to = None /\ t.after = None /\ t.lo = NoKey
            /\ t.hi = NoKey /\ t.missed = {}
        BY <1>2, DrwConstants, Tasks
      <3> QED BY <1>2, <3>1 DEF DrwRequest
    <2> HIDE DEF s
    <2>3. Reading(s)
      BY <1>2, <2>2 DEF Reading
    <2> QED BY <1>3, <2>1, <2>2, <2>3
  <1>6. CASE Drw!ShelfItems(p)
    <2> DEFINE r == req[p]
               s == [r EXCEPT !.pc = "answer", !.rows = Drw!VisibleItems]
    <2>1. r.pc = "shelf-items" /\ Drw!Goto(p, s)
      BY <1>6 DEF Drw!ShelfItems, Drw!At
    <2>2. /\ s \in DrwRequest /\ s.pc = "answer" /\ s.groups = r.groups
          /\ s.rows = Drw!VisibleItems /\ s.missed = r.missed
      BY <1>1, <1>2 DEF DrwRequest
    <2> HIDE DEF s
    <2>3. Reading(s)
      BY <1>1, <1>2, <2>1, <2>2 DEF Reading
    <2> QED BY <1>3, <2>1, <2>2, <2>3
  <1>7. CASE Drw!ShelfGroups(p)
    <2> DEFINE r == req[p]
               s == [r EXCEPT !.pc = "answer", !.groups = Drw!Standing]
    <2>1. r.pc = "shelf-groups" /\ Drw!Goto(p, s)
      BY <1>7 DEF Drw!ShelfGroups, Drw!At
    <2>2. /\ s \in DrwRequest /\ s.pc = "answer" /\ s.groups = Drw!Standing
          /\ s.rows = r.rows /\ s.missed = r.missed
      BY <1>1, <1>2 DEF DrwRequest
    <2>3. \A t \in r.rows : t[1] \in Items
      BY <1>1 DEF DrwRequest
    <2> HIDE DEF s
    <2>4. Reading(s)
      BY <1>1, <1>2, <2>1, <2>2, <2>3 DEF Reading
    <2> QED BY <1>3, <2>1, <2>2, <2>4
  <1> QED BY <1>4, <1>5, <1>6, <1>7

(* What everybody but p knows after a write of the things S. *)
LEMMA Written ==
  ASSUME PartsAssumption, DrwTypes, NEW S \in SUBSET Drw!Things,
         NEW p \in Requests, Drw!Wrote(S, Drw!Done(p))
  PROVE  /\ req' \in [Requests -> DrwRequest]
         /\ req'[p] = Drw!Idle /\ req'[p].pc = "idle"
         /\ \A q \in Requests \ {p} :
              req'[q] = IF req[q].pc = "idle" THEN Drw!Idle
                        ELSE [req[q] EXCEPT !.missed = @ \cup S]
         /\ \A q \in Requests \ {p} :
              req'[q].pc = req[q].pc
                /\ (req[q].pc # "idle" => req'[q].x = req[q].x)
  <1> DEFINE next == Drw!Done(p)
  <1>1. /\ next \in [Requests -> DrwRequest]
        /\ \A q \in Requests : next[q] = IF q = p THEN Drw!Idle ELSE req[q]
    <2>1. Drw!Idle \in DrwRequest
      BY Tasks
    <2> QED BY <2>1 DEF DrwTypes, Drw!Done
  <1>2. req' = [q \in Requests |->
                  IF next[q].pc = "idle" THEN Drw!Idle
                  ELSE [next[q] EXCEPT !.missed = @ \cup S]]
    BY DEF Drw!Wrote
  <1> HIDE DEF next
  <1>3. Drw!Idle \in DrwRequest /\ Drw!Idle.pc = "idle"
    BY Tasks
  <1>4. \A r \in DrwRequest :
          /\ [r EXCEPT !.missed = @ \cup S] \in DrwRequest
          /\ [r EXCEPT !.missed = @ \cup S].pc = r.pc
          /\ [r EXCEPT !.missed = @ \cup S].x = r.x
    BY DEF DrwRequest
  <1>5. req' \in [Requests -> DrwRequest]
    BY <1>1, <1>2, <1>3, <1>4
  <1>6. \A q \in Requests \ {p} :
          req'[q] = IF req[q].pc = "idle" THEN Drw!Idle
                    ELSE [req[q] EXCEPT !.missed = @ \cup S]
    BY <1>1, <1>2
  <1>7. req'[p] = Drw!Idle
    BY <1>1, <1>2, <1>3
  <1>8. \A q \in Requests : req[q] \in DrwRequest
    BY DEF DrwTypes
  <1> QED BY <1>3, <1>4, <1>5, <1>6, <1>7, <1>8

(* Ties among what was not written stay what they were. *)
LEMMA TiesKeep ==
  ASSUME PartsAssumption, DrwTypes, live' \subseteq Drw!Things,
         Drw!TiesAreRaces, NEW S \in SUBSET Drw!Things,
         \A t \in Drw!Things \ S :
           /\ t \in live' <=> t \in live
           /\ pos'[t] = pos[t]
           /\ missed'[t] = missed[t],
         \A i \in Items \ S : group'[i] = group[i],
         \A x \in S \cap live' : \A y \in live' :
           x # y /\ pos'[x] = pos'[y]
           /\ \/ x \in Groups /\ y \in Groups
              \/ x \in Items /\ y \in Items /\ group'[x] = group'[y]
             => x \in missed'[y] \/ y \in missed'[x]
  PROVE  Drw!TiesAreRaces'
  <1>1. Drw!Things = Items \cup Groups /\ Items \cap Groups = {}
    BY DrwConstants
  <1> SUFFICES ASSUME NEW x \in live', NEW y \in live', x # y,
                      \/ x \in Groups /\ y \in Groups
                      \/ x \in Items /\ y \in Items /\ group'[x] = group'[y],
                      pos'[x] = pos'[y]
               PROVE  x \in missed'[y] \/ y \in missed'[x]
    BY DEF Drw!TiesAreRaces, Drw!Together, Drw!Standing, Drw!Visible
  <1>2. CASE x \in S
    BY <1>2
  <1>3. CASE y \in S
    BY <1>3
  <1>4. CASE x \notin S /\ y \notin S
    <2>1. x \in live /\ y \in live /\ x \in Drw!Things \ S /\ y \in Drw!Things \ S
      BY <1>4
    <2>2. Drw!Together(x, y)
      BY <1>1, <1>4, <2>1
      DEF Drw!Together, Drw!Standing, Drw!Visible
    <2> QED BY <2>1, <2>2 DEF Drw!TiesAreRaces
  <1> QED BY <1>2, <1>3, <1>4

(* The transaction that moves or makes a thing commits. *)
LEMMA Writes ==
  ASSUME PartsAssumption, DrwInv, NEW p \in Requests, Drw!Write(p)
  PROVE  DrwInv'
  <1> DEFINE r == req[p]
             k == Drw!NewKey(p)
  <1>1. /\ r.pc = "write" /\ writes < MaxWrites /\ Drw!GroupReady(p)
        /\ Len(k.frac) <= Width
        /\ pos' = [pos EXCEPT ![r.x] = k]
        /\ live' = live \cup {r.x}
        /\ group' = IF r.x \in Items THEN [group EXCEPT ![r.x] = r.to]
                                     ELSE group
        /\ missed' = [missed EXCEPT ![r.x] = r.missed]
        /\ writes' = writes + 1 /\ gone' = gone /\ opened' = opened
        /\ Drw!Wrote({r.x}, Drw!Done(p))
    BY DEF Drw!Write, Drw!At
  <1>2. /\ DrwTypes /\ Lies /\ OneHolder /\ Drw!TiesAreRaces
        /\ \A q \in Requests : Truly(req[q])
        /\ r \in DrwRequest /\ Moving(r) /\ Choosing(r)
    BY DEF DrwInv, DrwTypes, Truly
  <1>3. /\ Drw!Things = Items \cup Groups /\ Items \cap Groups = {}
        /\ None \notin Drw!Things /\ Width \in Nat /\ MaxWrites \in Nat
        /\ NoKey \notin Drw!Key
    BY DrwConstants
  <1>4. /\ r.x \in Drw!Things /\ r.to \in Groups \cup {None}
        /\ r.missed \in SUBSET Drw!Things /\ r.x \notin gone
        /\ r.lo \in Drw!Key \cup {NoKey} /\ r.hi \in Drw!Key \cup {NoKey}
        /\ r.x \in live \/ r.to = None
    BY <1>1, <1>2 DEF Moving, DrwRequest, Lies
  <1>5. Drw!FitsBetween(r.lo, r.hi)
    BY <1>1, <1>2, <1>4, KeyFits DEF Choosing
  <1>6. /\ k \in Drw!Key
        /\ r.lo # NoKey => Drw!Less(r.lo, k)
        /\ r.hi # NoKey => Drw!Less(k, r.hi)
    BY <1>5 DEF Drw!FitsBetween, Drw!NewKey
  <1> HIDE DEF k
  <1>7. {r.x} \in SUBSET Drw!Things
    BY <1>4
  <1>8. /\ req' \in [Requests -> DrwRequest]
        /\ req'[p] = Drw!Idle /\ req'[p].pc = "idle"
        /\ \A q \in Requests \ {p} :
             /\ req'[q] = IF req[q].pc = "idle" THEN Drw!Idle
                          ELSE [req[q] EXCEPT !.missed = @ \cup {r.x}]
             /\ req'[q].pc = req[q].pc
             /\ req[q].pc # "idle" => req'[q].x = req[q].x
    BY <1>1, <1>2, <1>7, Written
  <1>9. \A t \in Drw!Things \ {r.x} :
          /\ (t \in live' <=> t \in live) /\ (t \in gone' <=> t \in gone)
          /\ pos'[t] = pos[t] /\ missed'[t] = missed[t]
    BY <1>1, <1>2 DEF DrwTypes
  <1>10. \A i \in Items \ {r.x} : group'[i] = group[i]
    BY <1>1, <1>2 DEF DrwTypes
  <1>11. r.x \in Items => group'[r.x] = r.to
    BY <1>1, <1>2 DEF DrwTypes
  <1>12. pos'[r.x] = k /\ missed'[r.x] = r.missed
    BY <1>1, <1>2, <1>4 DEF DrwTypes
  <1>13. DrwTypes'
    <2>1. live' \subseteq Drw!Things /\ gone' \subseteq Drw!Things
      BY <1>1, <1>2, <1>4 DEF DrwTypes
    <2>2. group' \in [Items -> Groups \cup {None}]
      BY <1>1, <1>2, <1>4 DEF DrwTypes
    <2>3. pos' \in [Drw!Things -> Drw!Key]
      BY <1>1, <1>2, <1>4, <1>6 DEF DrwTypes
    <2>4. \A t \in Drw!Things : Len(pos'[t].frac) <= Width
      BY <1>1, <1>2, <1>9, <1>12 DEF DrwTypes
    <2>5. writes' \in 0 .. MaxWrites
      BY <1>1, <1>2, <1>3 DEF DrwTypes
    <2>6. missed' \in [Drw!Things -> SUBSET Drw!Things]
      BY <1>1, <1>2, <1>4 DEF DrwTypes
    <2> QED BY <1>1, <1>2, <1>8, <2>1, <2>2, <2>3, <2>4, <2>5, <2>6
            DEF DrwTypes
  <1>14. Lies'
    <2>1. gone' \cap live' = {}
      BY <1>1, <1>2, <1>4 DEF Lies
    <2>2. ASSUME NEW i \in Items, group'[i] # None
          PROVE  i \in live' /\ group'[i] \in live'
      <3>1. CASE i = r.x
        <4>1. group'[i] = r.to /\ i \in live' /\ r.to # None
          BY <1>1, <1>11, <2>2, <3>1
        <4>2. CASE r.to = group[r.x]
          BY <1>1, <1>2, <2>2, <3>1, <4>1, <4>2 DEF Lies
        <4>3. CASE r.to # group[r.x]
          BY <1>1, <3>1, <4>1, <4>3 DEF Drw!GroupReady
        <4> QED BY <4>2, <4>3
      <3>2. CASE i # r.x
        BY <1>1, <1>2, <1>10, <2>2, <3>2 DEF Lies
      <3> QED BY <3>1, <3>2
    <2> QED BY <2>1, <2>2 DEF Lies
  <1>15. OneHolder'
    BY <1>2, <1>8 DEF OneHolder, Holding
  <1>16. Drw!TiesAreRaces'
    <2>1. ASSUME NEW x \in {r.x} \cap live', NEW y \in live', x # y,
                 pos'[x] = pos'[y],
                 \/ x \in Groups /\ y \in Groups
                 \/ x \in Items /\ y \in Items /\ group'[x] = group'[y]
          PROVE  y \in missed'[x]
      <3>1. y \in live /\ y \in Drw!Things \ {r.x} /\ pos[y] = k
        BY <1>1, <1>2, <1>9, <1>12, <2>1 DEF DrwTypes
      <3>2. y \in Drw!Peers(r.x, r.to)
        BY <1>3, <1>10, <1>11, <2>1, <3>1
        DEF Drw!Peers, Drw!Standing, Drw!InGroup, Drw!Visible
      <3>3. y \in r.missed \/ Outside(pos[y], r.lo, r.hi)
        BY <1>1, <1>2, <3>2 DEF Choosing
      <3>4. ~Outside(k, r.lo, r.hi)
        BY <1>6 DEF Outside
      <3> QED BY <1>12, <2>1, <3>1, <3>3, <3>4
    <2> DEFINE S == {r.x}
    <2>2. \A x \in S \cap live' : \A y \in live' :
            x # y /\ pos'[x] = pos'[y]
            /\ \/ x \in Groups /\ y \in Groups
               \/ x \in Items /\ y \in Items /\ group'[x] = group'[y]
              => x \in missed'[y] \/ y \in missed'[x]
      BY <2>1
    <2>3. /\ S \in SUBSET Drw!Things /\ live' \subseteq Drw!Things
          /\ \A t \in Drw!Things \ S :
               /\ t \in live' <=> t \in live
               /\ pos'[t] = pos[t] /\ missed'[t] = missed[t]
          /\ \A i \in Items \ S : group'[i] = group[i]
      BY <1>7, <1>9, <1>10, <1>13 DEF DrwTypes
    <2> HIDE DEF S
    <2> QED BY <1>2, <2>2, <2>3, TiesKeep
  <1>17. ASSUME NEW q \in Requests
         PROVE  Truly(req[q])'
    <2>1. CASE q = p \/ req[q].pc = "idle"
      <3>1. req'[q] = Drw!Idle /\ Drw!Idle.pc = "idle"
        BY <1>8, <2>1, Tasks
      <3> QED BY <3>1 DEF Truly, Moving, Choosing, Emptying, Reading
    <2>2. CASE q # p /\ req[q].pc # "idle"
      <3>1. req[q].pc \in Holding => req[q].x \notin {r.x}
        BY <1>1, <1>2, <2>2 DEF OneHolder, Holding
      <3>2. ASSUME req[q].pc \in {"last", "empty"}, NEW i \in Items,
                   group'[i] = req[q].x
            PROVE  group[i] = req[q].x
        <4>1. CASE i # r.x
          BY <1>10, <3>2, <4>1
        <4>2. CASE i = r.x
          <5>1. r.to = req[q].x /\ req[q].x \in Groups
            BY <1>2, <1>11, <3>2, <4>2 DEF Truly, Emptying
          <5>2. ~Drw!Unlocked(r.to)
            BY <3>2, <5>1 DEF Drw!Unlocked
          <5>3. r.to # None
            BY <1>3, <5>1
          <5> QED BY <1>1, <4>2, <5>1, <5>2, <5>3 DEF Drw!GroupReady
        <4> QED BY <4>1, <4>2
      <3>3. req'[q] = [req[q] EXCEPT !.missed = @ \cup {r.x}]
        BY <1>8, <2>2
      <3>4. live' \subseteq Drw!Things
        BY <1>13 DEF DrwTypes
      <3> HIDE DEF r
      <3> QED BY <1>2, <1>7, <1>9, <1>10, <3>1, <3>2, <3>3, <3>4, OtherKeeps
    <2> QED BY <2>1, <2>2
  <1> QED BY <1>13, <1>14, <1>15, <1>16, <1>17 DEF DrwInv

(* Whole keys keep the order of their numbers. *)
LEMMA WholeKeys ==
  ASSUME PartsAssumption, NEW a \in Drw!Key, NEW n \in Int, n > a.int,
         NEW m \in Int
  PROVE  /\ Drw!Whole(n) \in Drw!Key /\ Drw!Less(a, Drw!Whole(n))
         /\ Len(Drw!Whole(n).frac) = 0
         /\ Drw!Whole(m) = Drw!Whole(n) => m = n
  BY DEF Drw!Whole, Drw!Key, Drw!Fraction, Drw!Less

LEMMA AnyWhole ==
  ASSUME NEW n \in Int, NEW m \in Int
  PROVE  /\ Drw!Whole(n) \in Drw!Key /\ Len(Drw!Whole(n).frac) = 0
         /\ Drw!Whole(m) = Drw!Whole(n) => m = n
  BY DEF Drw!Whole, Drw!Key, Drw!Fraction

(* The transaction that deletes a group commits. *)
LEMMA EmptiesGroup ==
  ASSUME PartsAssumption, DrwInv, NEW p \in Requests, Drw!EmptyGroup(p)
  PROVE  DrwInv'
  <1> DEFINE r == req[p]
             moved == Drw!Range(r.order)
             keys == Drw!KeysAfter(r.lo, Len(r.order))
             at(t) == CHOOSE n \in DOMAIN keys : r.order[n] = t
             S == moved \cup {r.x}
  <1>1. /\ r.pc = "empty" /\ \A i \in moved : Drw!Unlocked(i)
        /\ writes < MaxWrites /\ writes' = writes + 1
        /\ live' = live \ {r.x} /\ gone' = gone \cup {r.x}
        /\ pos' = [[t \in Drw!Things |->
                      IF t \in moved \cap live THEN keys[at(t)] ELSE pos[t]]
                   EXCEPT ![r.x] = Drw!Whole(0)]
        /\ missed' = [[t \in Drw!Things |->
                         IF t \in moved \cap live THEN r.missed ELSE missed[t]]
                      EXCEPT ![r.x] = {}]
        /\ group' = [i \in Items |-> IF i \in moved THEN None ELSE group[i]]
        /\ opened' = opened \cup moved
        /\ Drw!Wrote(S, Drw!Done(p))
    BY DEF Drw!EmptyGroup, Drw!Discard, Drw!At
  <1>2. /\ DrwTypes /\ Lies /\ OneHolder /\ Drw!TiesAreRaces
        /\ \A q \in Requests : Truly(req[q])
        /\ r \in DrwRequest /\ Emptying(r)
    BY DEF DrwInv, DrwTypes, Truly
  <1>3. /\ Drw!Things = Items \cup Groups /\ Items \cap Groups = {}
        /\ None \notin Drw!Things /\ Width \in Nat /\ MaxWrites \in Nat
        /\ NoKey \notin Drw!Key
    BY DrwConstants
  <1>4. /\ r.x \in Groups \cap live /\ r.order \in Seq(Items)
        /\ r.lo \in Drw!Key \cup {NoKey} /\ r.missed \in SUBSET Drw!Things
        /\ \A i \in Items :
             group[i] = r.x => \E n \in 1 .. Len(r.order) : r.order[n] = i
        /\ \A y \in Drw!InGroup(None) :
             y \in r.missed \/ (r.lo # NoKey /\ ~Drw!Less(r.lo, pos[y]))
    BY <1>1, <1>2 DEF Emptying, DrwRequest
  <1>5. /\ moved \subseteq Items
        /\ \A i \in Items : group[i] = r.x => i \in moved
        /\ \A t \in moved : \E n \in 1 .. Len(r.order) : r.order[n] = t
        /\ r.x \notin moved
    BY <1>3, <1>4 DEF Drw!Range
  <1>6. PICK base \in Int :
          /\ r.lo # NoKey => base = r.lo.int
          /\ DOMAIN keys = 1 .. Len(r.order)
          /\ \A n \in 1 .. Len(r.order) : keys[n] = Drw!Whole(base + n)
    <2> DEFINE b == IF r.lo = NoKey THEN 0 - 1 ELSE r.lo.int
    <2>1. b \in Int
      BY <1>4 DEF Drw!Key
    <2>2. keys = [n \in 1 .. Len(r.order) |-> Drw!Whole(b + n)]
      BY DEF Drw!KeysAfter
    <2> HIDE DEF b, keys
    <2>3. /\ DOMAIN keys = 1 .. Len(r.order)
          /\ \A n \in 1 .. Len(r.order) : keys[n] = Drw!Whole(b + n)
      BY <2>2
    <2>4. r.lo # NoKey => b = r.lo.int
      BY DEF b
    <2> QED BY <2>1, <2>3, <2>4
  <1> HIDE DEF moved, keys
  <1>7. \A t \in moved : /\ at(t) \in 1 .. Len(r.order) /\ r.order[at(t)] = t
                         /\ at(t) \in Int /\ at(t) > 0
                         /\ keys[at(t)] = Drw!Whole(base + at(t))
    <2> SUFFICES ASSUME NEW t \in moved
                 PROVE  /\ at(t) \in 1 .. Len(r.order) /\ r.order[at(t)] = t
                        /\ at(t) \in Int /\ at(t) > 0
                        /\ keys[at(t)] = Drw!Whole(base + at(t))
      OBVIOUS
    <2>1. \E n \in DOMAIN keys : r.order[n] = t
      BY <1>5, <1>6
    <2>2. at(t) \in 1 .. Len(r.order) /\ r.order[at(t)] = t
      BY <1>6, <2>1
    <2>3. Len(r.order) \in Nat
      BY <1>4
    <2> HIDE DEF at, r
    <2> QED BY <1>6, <2>2, <2>3
  <1> HIDE DEF at, r
  <1>8. \A t \in moved : /\ keys[at(t)] \in Drw!Key
                         /\ Len(keys[at(t)].frac) = 0
    BY <1>7, AnyWhole
  <1>9. S \in SUBSET Drw!Things
    BY <1>3, <1>4, <1>5
  <1>10. /\ req' \in [Requests -> DrwRequest]
         /\ req'[p] = Drw!Idle /\ req'[p].pc = "idle"
         /\ \A q \in Requests \ {p} :
              /\ req'[q] = IF req[q].pc = "idle" THEN Drw!Idle
                           ELSE [req[q] EXCEPT !.missed = @ \cup S]
              /\ req'[q].pc = req[q].pc
              /\ req[q].pc # "idle" => req'[q].x = req[q].x
    <2> HIDE DEF S
    <2> QED BY <1>1, <1>2, <1>9, Written
  <1>11. \A t \in Drw!Things \ S :
           /\ (t \in live' <=> t \in live) /\ (t \in gone' <=> t \in gone)
           /\ pos'[t] = pos[t] /\ missed'[t] = missed[t]
    BY <1>1
  <1>12. \A i \in Items \ S : group'[i] = group[i]
    BY <1>1
  <1>13. \A t \in moved \cap live :
           /\ pos'[t] = Drw!Whole(base + at(t)) /\ missed'[t] = r.missed
           /\ group'[t] = None
    BY <1>1, <1>3, <1>5, <1>7
  <1>14. DrwTypes'
    <2>1. Drw!Whole(0) \in Drw!Key /\ Len(Drw!Whole(0).frac) = 0
      BY AnyWhole
    <2>2. pos' \in [Drw!Things -> Drw!Key]
      BY <1>1, <1>2, <1>8, <2>1 DEF DrwTypes
    <2>3. \A t \in Drw!Things : Len(pos'[t].frac) <= Width
      BY <1>1, <1>2, <1>3, <1>8, <2>1 DEF DrwTypes
    <2>4. missed' \in [Drw!Things -> SUBSET Drw!Things]
      BY <1>1, <1>2, <1>4 DEF DrwTypes
    <2>5. /\ live' \subseteq Drw!Things /\ gone' \subseteq Drw!Things
          /\ opened' \subseteq Items
          /\ group' \in [Items -> Groups \cup {None}]
      BY <1>1, <1>2, <1>3, <1>4, <1>5 DEF DrwTypes
    <2>6. writes' \in 0 .. MaxWrites
      BY <1>1, <1>2, <1>3 DEF DrwTypes
    <2> QED BY <1>10, <2>2, <2>3, <2>4, <2>5, <2>6 DEF DrwTypes
  <1>15. Lies'
    <2>1. gone' \cap live' = {}
      BY <1>1, <1>2 DEF Lies
    <2>2. ASSUME NEW i \in Items, group'[i] # None
          PROVE  i \in live' /\ group'[i] \in live'
      <3>1. i \notin moved /\ group'[i] = group[i] /\ group[i] # r.x
        BY <1>1, <1>5, <2>2
      <3>2. i \in live /\ group[i] \in live /\ i # r.x
        BY <1>2, <1>3, <1>4, <2>2, <3>1 DEF Lies
      <3> QED BY <1>1, <3>1, <3>2
    <2> QED BY <2>1, <2>2 DEF Lies
  <1>16. OneHolder'
    BY <1>2, <1>10 DEF OneHolder, Holding
  <1>17. Drw!TiesAreRaces'
    <2>1. ASSUME NEW x \in S \cap live', NEW y \in live', x # y,
                 pos'[x] = pos'[y],
                 \/ x \in Groups /\ y \in Groups
                 \/ x \in Items /\ y \in Items /\ group'[x] = group'[y]
          PROVE  x \in missed'[y] \/ y \in missed'[x]
      <3>1. x \in moved \cap live /\ x \in Items /\ y \in Items /\ y \in live
        BY <1>1, <1>3, <1>5, <2>1
      <3>2. /\ pos'[x] = Drw!Whole(base + at(x)) /\ missed'[x] = r.missed
            /\ group'[y] = None
        BY <1>13, <2>1, <3>1, <1>3
      <3>3. CASE y \in moved
        <4>1. pos'[y] = Drw!Whole(base + at(y))
          BY <1>13, <3>1, <3>3
        <4>2. at(x) # at(y)
          BY <1>7, <2>1, <3>1, <3>3
        <4>3. base + at(x) \in Int /\ base + at(y) \in Int
                /\ base + at(x) # base + at(y)
          BY <1>7, <3>1, <3>3, <4>2
        <4> QED BY <2>1, <3>2, <4>1, <4>3, AnyWhole
      <3>4. CASE y \notin moved
        <4>1. group[y] = None /\ pos'[y] = pos[y]
          BY <1>1, <1>3, <1>4, <3>1, <3>2, <3>4
        <4>2. y \in Drw!InGroup(None)
          BY <3>1, <4>1 DEF Drw!InGroup, Drw!Visible
        <4>3. CASE r.lo # NoKey /\ ~Drw!Less(r.lo, pos[y])
          <5>1. /\ r.lo \in Drw!Key /\ base + at(x) \in Int
                /\ base + at(x) > r.lo.int
            BY <1>4, <1>6, <1>7, <3>1, <4>3
          <5>2. Drw!Less(r.lo, Drw!Whole(base + at(x)))
            BY <5>1, WholeKeys
          <5> QED BY <2>1, <3>2, <4>1, <4>3, <5>2
        <4> QED BY <1>4, <3>2, <4>2, <4>3
      <3> QED BY <3>3, <3>4
    <2>2. live' \subseteq Drw!Things
      BY <1>14 DEF DrwTypes
    <2> HIDE DEF S
    <2> QED BY <1>2, <1>9, <1>11, <1>12, <2>1, <2>2, TiesKeep
  <1>18. ASSUME NEW q \in Requests
         PROVE  Truly(req[q])'
    <2>1. CASE q = p \/ req[q].pc = "idle"
      <3>1. req'[q] = Drw!Idle /\ Drw!Idle.pc = "idle"
        BY <1>10, <2>1, Tasks
      <3> QED BY <3>1 DEF Truly, Moving, Choosing, Emptying, Reading
    <2>2. CASE q # p /\ req[q].pc # "idle"
      <3>1. req[q].pc \in Holding => req[q].x \notin S
        <4>1. req[q].pc \in Holding => req[q].x # r.x
          BY <1>1, <1>2, <2>2 DEF OneHolder, Holding, r
        <4>2. req[q].pc \in Holding => req[q].x \notin moved
          BY <1>1 DEF Drw!Unlocked, Holding
        <4> QED BY <4>1, <4>2
      <3>2. req[q].pc \in {"last", "empty"} =>
              \A i \in Items : group'[i] = req[q].x => group[i] = req[q].x
        <4>1. req[q].pc \in {"last", "empty"} => req[q].x # None
          BY <1>2, <1>3 DEF Truly, Emptying
        <4> QED BY <1>1, <4>1
      <3>3. req'[q] = [req[q] EXCEPT !.missed = @ \cup S]
        BY <1>10, <2>2
      <3>4. live' \subseteq Drw!Things
        BY <1>14 DEF DrwTypes
      <3> HIDE DEF S
      <3> QED BY <1>2, <1>9, <1>11, <1>12, <3>1, <3>2, <3>3, <3>4, OtherKeeps
    <2> QED BY <2>1, <2>2
  <1> QED BY <1>14, <1>15, <1>16, <1>17, <1>18 DEF DrwInv

(* A tape is opened, or deleted. *)
LEMMA OpensItem ==
  ASSUME PartsAssumption, DrwInv, NEW i \in Items,
         Drw!Open(i)
  PROVE  DrwInv'
  <1>1. /\ UNCHANGED <<live, gone, group, pos, missed, req>>
        /\ opened' \subseteq Items /\ writes' \in 0 .. MaxWrites
    BY DrwConstants DEF DrwInv, DrwTypes, Drw!Open
  <1> QED
    BY <1>1
    DEF DrwInv, DrwTypes, Lies, OneHolder, Truly, Moving, Choosing, Emptying,
        Reading, Drw!TiesAreRaces, Drw!Together, Drw!Standing, Drw!Visible,
        Drw!InGroup, Drw!Peers

LEMMA DeletesItem ==
  ASSUME PartsAssumption, DrwInv, NEW i \in Items, Drw!DeleteItem(i)
  PROVE  DrwInv'
  <1> DEFINE S == {i}
  <1>1. /\ i \in live /\ Drw!Unlocked(i) /\ writes < MaxWrites
        /\ writes' = writes + 1 /\ opened' = opened
        /\ live' = live \ {i} /\ gone' = gone \cup {i}
        /\ pos' = [pos EXCEPT ![i] = Drw!Whole(0)]
        /\ missed' = [missed EXCEPT ![i] = {}]
        /\ group' = [group EXCEPT ![i] = None]
        /\ Drw!Wrote(S, req)
    BY DEF Drw!DeleteItem, Drw!Discard, Drw!Visible
  <1>2. /\ DrwTypes /\ Lies /\ OneHolder /\ Drw!TiesAreRaces
        /\ \A q \in Requests : Truly(req[q]) /\ req[q] \in DrwRequest
    BY DEF DrwInv, DrwTypes
  <1>3. /\ Drw!Things = Items \cup Groups /\ Items \cap Groups = {}
        /\ None \notin Drw!Things /\ MaxWrites \in Nat /\ Width \in Nat
        /\ S \in SUBSET Drw!Things
    BY DrwConstants
  <1>4. \A q \in Requests :
          /\ req'[q] = IF req[q].pc = "idle" THEN Drw!Idle
                       ELSE [req[q] EXCEPT !.missed = @ \cup S]
          /\ req'[q] \in DrwRequest
          /\ req'[q].pc = req[q].pc
          /\ req[q].pc # "idle" => req'[q].x = req[q].x
    <2>1. Drw!Idle \in DrwRequest /\ Drw!Idle.pc = "idle"
      BY Tasks
    <2>2. \A r \in DrwRequest :
            /\ [r EXCEPT !.missed = @ \cup S] \in DrwRequest
            /\ [r EXCEPT !.missed = @ \cup S].pc = r.pc
            /\ [r EXCEPT !.missed = @ \cup S].x = r.x
      BY <1>3 DEF DrwRequest
    <2>3. \A q \in Requests :
            req'[q] = IF req[q].pc = "idle" THEN Drw!Idle
                      ELSE [req[q] EXCEPT !.missed = @ \cup S]
      BY <1>1 DEF Drw!Wrote
    <2> SUFFICES ASSUME NEW q \in Requests
                 PROVE  /\ req'[q] \in DrwRequest /\ req'[q].pc = req[q].pc
                        /\ req[q].pc # "idle" => req'[q].x = req[q].x
      BY <2>3
    <2> HIDE DEF S
    <2>4. CASE req[q].pc = "idle"
      BY <2>1, <2>3, <2>4
    <2>5. CASE req[q].pc # "idle"
      BY <1>2, <2>2, <2>3, <2>5
    <2> QED BY <2>4, <2>5
  <1>5. req' \in [Requests -> DrwRequest]
    <2>1. req' = [q \in Requests |-> req'[q]]
      BY <1>1 DEF Drw!Wrote
    <2> QED BY <1>4, <2>1
  <1>6. \A t \in Drw!Things \ S :
          /\ (t \in live' <=> t \in live) /\ (t \in gone' <=> t \in gone)
          /\ pos'[t] = pos[t] /\ missed'[t] = missed[t]
    BY <1>1, <1>2 DEF DrwTypes
  <1>7. \A j \in Items \ S : group'[j] = group[j]
    BY <1>1, <1>2 DEF DrwTypes
  <1>8. group'[i] = None
    BY <1>1, <1>2 DEF DrwTypes
  <1>9. DrwTypes'
    <2>1. Drw!Whole(0) \in Drw!Key /\ Len(Drw!Whole(0).frac) = 0
      BY AnyWhole
    <2>2. pos' \in [Drw!Things -> Drw!Key]
      BY <1>1, <1>2, <2>1 DEF DrwTypes
    <2>3. \A t \in Drw!Things : Len(pos'[t].frac) <= Width
      BY <1>1, <1>2, <1>3, <2>1 DEF DrwTypes
    <2>4. /\ missed' \in [Drw!Things -> SUBSET Drw!Things]
          /\ live' \subseteq Drw!Things /\ gone' \subseteq Drw!Things
          /\ group' \in [Items -> Groups \cup {None}]
      BY <1>1, <1>2, <1>3 DEF DrwTypes
    <2>5. writes' \in 0 .. MaxWrites
      BY <1>1, <1>2, <1>3 DEF DrwTypes
    <2> QED BY <1>1, <1>2, <1>5, <2>2, <2>3, <2>4, <2>5 DEF DrwTypes
  <1>10. Lies'
    <2>1. gone' \cap live' = {}
      BY <1>1, <1>2 DEF Lies
    <2>2. ASSUME NEW j \in Items, group'[j] # None
          PROVE  j \in live' /\ group'[j] \in live'
      <3>1. j # i /\ group'[j] = group[j] /\ group[j] \in Groups
        BY <1>2, <1>7, <1>8, <2>2 DEF DrwTypes
      <3> QED BY <1>1, <1>2, <1>3, <2>2, <3>1 DEF Lies
    <2> QED BY <2>1, <2>2 DEF Lies
  <1>11. OneHolder'
    <2> HIDE DEF S
    <2>1. \A q \in Requests : req'[q].pc \in Holding =>
                             /\ req[q].pc \in Holding
                             /\ req'[q].x = req[q].x
      BY <1>4 DEF Holding
    <2> QED BY <1>2, <2>1 DEF OneHolder
  <1>12. Drw!TiesAreRaces'
    <2>1. S \cap live' = {} /\ live' \subseteq Drw!Things
      BY <1>1, <1>9 DEF DrwTypes
    <2> HIDE DEF S
    <2> QED BY <1>2, <1>3, <1>6, <1>7, <2>1, TiesKeep
  <1>13. ASSUME NEW q \in Requests
         PROVE  Truly(req[q])'
    <2>1. CASE req[q].pc = "idle"
      <3>1. req'[q].pc = "idle"
        BY <1>4, <2>1
      <3> QED BY <3>1 DEF Truly, Moving, Choosing, Emptying, Reading
    <2>2. CASE req[q].pc # "idle"
      <3>1. req[q].pc \in Holding => req[q].x \notin S
        BY <1>1 DEF Drw!Unlocked, Holding
      <3>2. req[q].pc \in {"last", "empty"} =>
              \A j \in Items : group'[j] = req[q].x => group[j] = req[q].x
        <4>1. req[q].pc \in {"last", "empty"} => req[q].x # None
          BY <1>2, <1>3 DEF Truly, Emptying
        <4> QED BY <1>7, <1>8, <4>1
      <3>3. req'[q] = [req[q] EXCEPT !.missed = @ \cup S]
        BY <1>4, <2>2
      <3>4. live' \subseteq Drw!Things
        BY <1>9 DEF DrwTypes
      <3> HIDE DEF S
      <3> QED BY <1>2, <1>3, <1>6, <1>7, <3>1, <3>2, <3>3, <3>4, OtherKeeps
    <2> QED BY <2>1, <2>2
  <1> QED BY <1>9, <1>10, <1>11, <1>12, <1>13 DEF DrwInv

(* Every step of the drawer, and the first state. *)
LEMMA DrwSteps ==
  ASSUME PartsAssumption, DrwInv, Drw!Next \/ UNCHANGED drawerVars
  PROVE  DrwInv'
  <1>1. ASSUME NEW p \in Requests,
               \/ Drw!Arrive(p) \/ Drw!CreateGroup(p)
               \/ \E i \in Items, to \in Groups \cup {None},
                     a \in Items \cup {None} : Drw!MoveItem(p, i, to, a)
               \/ \E g \in Groups, a \in Groups \cup {None} :
                    Drw!UpdateGroup(p, g, a)
               \/ Drw!ReadNext(p) \/ Drw!Write(p) \/ Drw!End(p)
               \/ \E g \in Groups : Drw!DeleteGroup(p, g)
               \/ Drw!ReadLast(p) \/ Drw!EmptyGroup(p)
               \/ Drw!ShelfGroupsFirst(p) \/ Drw!ShelfItemsFirst(p)
               \/ Drw!ShelfItems(p) \/ Drw!ShelfGroups(p)
        PROVE  DrwInv'
    BY <1>1, ArrivesOrBegins, Moves, ReadsNext, Writes, Ends, DeletesGroup,
       ReadsLast, EmptiesGroup, ReadsShelf
  <1>2. ASSUME UNCHANGED drawerVars
        PROVE  DrwInv'
    BY <1>2
    DEF drawerVars, DrwInv, DrwTypes, Lies, OneHolder, Truly, Moving, Choosing,
        Emptying, Reading, Drw!TiesAreRaces, Drw!Together, Drw!Standing,
        Drw!Visible, Drw!InGroup, Drw!Peers
  <1> QED BY <1>1, <1>2, OpensItem, DeletesItem DEF Drw!Next

(* At first the places of the tapes, and of the groups, are their numbers  *)
(* in the order in which they came.                                        *)
LEMMA OlderAreFewer ==
  ASSUME PartsAssumption, NEW T \in SUBSET Drw!Things
  PROVE  /\ \A t \in T \cap Filled :
              Drw!Cardinality({s \in Filled : s < t} \cap T) \in Nat
         /\ \A x \in T \cap Filled : \A y \in T \cap Filled :
              Drw!Cardinality({s \in Filled : s < x} \cap T)
                = Drw!Cardinality({s \in Filled : s < y} \cap T) => x = y
  <1> DEFINE S == T \cap Filled
             R == {ab \in Nat \X Nat : ab[1] < ab[2]}
             N == Cardinality(S)
  <1>1. IsFiniteSet(S) /\ S \in SUBSET Nat
    BY DrwConstants, FS_Subset
  <1>2. \A a, b \in Nat : <<a, b>> \in R <=> a < b
    OBVIOUS
  <1>3. \A t \in S : Drw!Cardinality({s \in Filled : s < t} \cap T)
                       = RankOf(R, S, t)
    <2> SUFFICES ASSUME NEW t \in S
                 PROVE  Drw!Cardinality({s \in Filled : s < t} \cap T)
                          = RankOf(R, S, t)
      OBVIOUS
    <2>1. {s \in Filled : s < t} \cap T = Before(R, S, t)
      <3> HIDE DEF R
      <3> QED BY <1>1, <1>2 DEF Before
    <2> QED BY <2>1, SameCardinality DEF RankOf
  <1>4. /\ \A u \in S : <<u, u>> \notin R
        /\ \A u, v, w \in S : <<u, v>> \in R /\ <<v, w>> \in R => <<u, w>> \in R
    <2> HIDE DEF R, S
    <2> QED BY <1>1, <1>2
  <1>5. \A t \in S : RankOf(R, S, t) \in 0 .. N - 1
    <2> HIDE DEF R, S
    <2> QED BY <1>1, <1>4, RankBounded DEF N
  <1>6. ASSUME NEW x \in S, NEW y \in S, x # y
        PROVE  RankOf(R, S, x) # RankOf(R, S, y)
    <2>1. <<x, y>> \in R \/ <<y, x>> \in R
      BY <1>1, <1>2, <1>6
    <2> HIDE DEF R, S
    <2>2. CASE <<x, y>> \in R
      <3>1. RankOf(R, S, x) \in Nat /\ RankOf(R, S, x) < RankOf(R, S, y)
        BY <1>1, <1>4, <2>2, RankGrows
      <3> QED BY <3>1
    <2>3. CASE <<y, x>> \in R
      <3>1. RankOf(R, S, y) \in Nat /\ RankOf(R, S, y) < RankOf(R, S, x)
        BY <1>1, <1>4, <2>3, RankGrows
      <3> QED BY <3>1
    <2> QED BY <2>1, <2>2, <2>3
  <1>7. \A t \in S : RankOf(R, S, t) \in Nat
    <2>1. N \in Nat
      BY <1>1, FS_CardinalityType
    <2> HIDE DEF R, S, N
    <2> QED BY <1>5, <2>1
  <1> HIDE DEF R
  <1> QED BY <1>3, <1>6, <1>7

LEMMA DrwStarts ==
  ASSUME PartsAssumption, Drw!Init
  PROVE  DrwInv
  <1> DEFINE older(t, T) ==
               Drw!Cardinality({s \in Filled : s < t} \cap T)
  <1>1. /\ live = Filled /\ gone = {} /\ opened = Items \cap Filled
        /\ group = [i \in Items |-> IF i \in Filled THEN FilledIn[i] ELSE None]
        /\ pos = [t \in Drw!Things |->
                    IF t \notin Filled THEN Drw!Whole(0)
                    ELSE IF t \in Items THEN Drw!Whole(0 - older(t, Items))
                    ELSE Drw!Whole(older(t, Groups))]
        /\ writes = 0 /\ missed = [t \in Drw!Things |-> {}]
        /\ req = [p \in Requests |-> Drw!Idle]
    BY DEF Drw!Init
  <1>2. /\ Drw!Things = Items \cup Groups /\ Items \cap Groups = {}
        /\ None \notin Drw!Things /\ Filled \subseteq Drw!Things
        /\ Width \in Nat /\ MaxWrites \in Nat
        /\ FilledIn \in [Items \cap Filled -> (Groups \cap Filled) \cup {None}]
    BY DrwConstants
  <1>3. /\ \A t \in Items \cap Filled : older(t, Items) \in Nat
        /\ \A t \in Groups \cap Filled : older(t, Groups) \in Nat
        /\ \A x, y \in Items \cap Filled :
             older(x, Items) = older(y, Items) => x = y
        /\ \A x, y \in Groups \cap Filled :
             older(x, Groups) = older(y, Groups) => x = y
    BY <1>2, OlderAreFewer
  <1> HIDE DEF older
  <1>4. \A t \in Drw!Things : pos[t] \in Drw!Key /\ Len(pos[t].frac) = 0
    <2> SUFFICES ASSUME NEW t \in Drw!Things
                 PROVE  \E n \in Int : pos[t] = Drw!Whole(n)
      BY AnyWhole
    <2>1. CASE t \notin Filled
      BY <1>1, <2>1
    <2>2. CASE t \in Filled /\ t \in Items
      <3>1. 0 - older(t, Items) \in Int
        BY <1>3, <2>2
      <3> QED BY <1>1, <2>2, <3>1
    <2>3. CASE t \in Filled /\ t \notin Items
      <3>1. older(t, Groups) \in Int
        BY <1>2, <1>3, <2>3
      <3> QED BY <1>1, <2>3, <3>1
    <2> QED BY <2>1, <2>2, <2>3
  <1>5. DrwTypes
    <2>1. Drw!Idle \in DrwRequest
      BY Tasks
    <2>2. pos \in [Drw!Things -> Drw!Key]
      <3>1. pos = [t \in Drw!Things |-> pos[t]]
        BY <1>1
      <3> QED BY <1>4, <3>1
    <2>3. req \in [Requests -> DrwRequest]
      BY <1>1, <2>1
    <2>4. group \in [Items -> Groups \cup {None}]
      BY <1>1, <1>2
    <2>5. missed \in [Drw!Things -> SUBSET Drw!Things]
      BY <1>1
    <2>6. \A t \in Drw!Things : Len(pos[t].frac) <= Width
      BY <1>2, <1>4
    <2>7. /\ live \subseteq Drw!Things /\ gone \subseteq Drw!Things
          /\ opened \subseteq Items /\ writes \in 0 .. MaxWrites
      BY <1>1, <1>2
    <2> QED BY <2>2, <2>3, <2>4, <2>5, <2>6, <2>7 DEF DrwTypes
  <1>6. Lies
    BY <1>1, <1>2 DEF Lies
  <1>7. \A p \in Requests : req[p] = Drw!Idle /\ Drw!Idle.pc = "idle"
    BY <1>1, Tasks
  <1>8. OneHolder
    BY <1>7 DEF OneHolder, Holding
  <1>9. Drw!TiesAreRaces
    <2> SUFFICES ASSUME NEW x \in live, NEW y \in live, x # y,
                        Drw!Together(x, y), pos[x] = pos[y]
                 PROVE  FALSE
      BY DEF Drw!TiesAreRaces
    <2>1. CASE x \in Groups /\ y \in Groups
      <3>1. /\ pos[x] = Drw!Whole(older(x, Groups))
            /\ pos[y] = Drw!Whole(older(y, Groups))
        BY <1>1, <1>2, <2>1
      <3>2. older(x, Groups) \in Int /\ older(y, Groups) \in Int
        BY <1>1, <1>3, <2>1
      <3>3. older(x, Groups) = older(y, Groups)
        BY <3>1, <3>2, AnyWhole
      <3> QED BY <1>1, <1>3, <2>1, <3>3
    <2>2. CASE x \in Items /\ y \in Items
      <3>1. /\ pos[x] = Drw!Whole(0 - older(x, Items))
            /\ pos[y] = Drw!Whole(0 - older(y, Items))
        BY <1>1, <1>2, <2>2
      <3>2. older(x, Items) \in Nat /\ older(y, Items) \in Nat
        BY <1>1, <1>3, <2>2
      <3>3. 0 - older(x, Items) \in Int /\ 0 - older(y, Items) \in Int
        BY <3>2
      <3>4. 0 - older(x, Items) = 0 - older(y, Items)
        BY <3>1, <3>3, AnyWhole
      <3>5. older(x, Items) = older(y, Items)
        BY <3>2, <3>4
      <3> QED BY <1>1, <1>3, <2>2, <3>5
    <2> QED BY <2>1, <2>2 DEF Drw!Together, Drw!Standing, Drw!Visible
  <1>10. \A p \in Requests : Truly(req[p])
    BY <1>7 DEF Truly, Moving, Choosing, Emptying, Reading
  <1> QED BY <1>5, <1>6, <1>8, <1>9, <1>10 DEF DrwInv

LEMMA DrwInductive == Spec => []DrwInv
  <1>1. Init => DrwInv
    BY DrwStarts, PartsAssumption DEF Init
  <1>2. DrwInv /\ [Next]_vars => DrwInv'
    BY DrwSteps, PartsAssumption DEF Next, vars, drawerVars
  <1> QED BY <1>1, <1>2, PTL DEF Spec

(* What follows. *)

LEMMA DrwTyped == DrwInv => Drw!TypeOK
  <1> SUFFICES ASSUME DrwInv PROVE Drw!TypeOK
    OBVIOUS
  <1>1. DrwTypes /\ Lies
    BY DEF DrwInv
  <1>2. /\ gone \subseteq Drw!Things \ live
        /\ group \in [Items -> (Groups \cap live) \cup {None}]
    BY <1>1 DEF DrwTypes, Lies
  <1>3. req \in [Requests -> Drw!Request]
    BY <1>1 DEF DrwTypes, DrwRequest, Drw!Request
  <1> QED BY <1>1, <1>2, <1>3 DEF DrwTypes, Drw!TypeOK

(* Only overlapping requests put two things into one place, ... *)
LEMMA PlayedAsShown ==
  ASSUME PartsAssumption, DrwInv
  PROVE  Drw!PlayOrderIsDrawerOrder
  <1> SUFFICES ASSUME NEW i \in Drw!Visible \cap opened,
                      NEW j \in Drw!Visible \cap opened, i # j,
                      ~(Drw!PlayedBefore(i, j) <=> Drw!ShelfBefore(i, j))
               PROVE  /\ {group[i], group[j]} \subseteq Groups
                      /\ \/ group[i] \in missed[group[j]]
                         \/ group[j] \in missed[group[i]]
    BY DEF Drw!PlayOrderIsDrawerOrder
  <1> DEFINE g == group[i]
             h == group[j]
  <1>1. /\ i \in Items /\ j \in Items /\ g \in Groups \cup {None}
        /\ h \in Groups \cup {None} /\ None \notin Groups
        /\ g # None => g \in live
        /\ h # None => h \in live
    BY DrwConstants DEF DrwInv, DrwTypes, Lies, Drw!Visible
  <1>2. g # h /\ g # None /\ h # None /\ pos[g] = pos[h]
    BY DEF Drw!PlayedBefore, Drw!ShelfBefore, Drw!GroupBefore
  <1>3. Drw!Together(g, h)
    BY <1>1, <1>2 DEF Drw!Together, Drw!Standing
  <1> QED BY <1>1, <1>2, <1>3 DEF DrwInv, Drw!TiesAreRaces

(* ... moves land where they were asked to, ... *)
LEMMA MovesAreBetween ==
  ASSUME PartsAssumption, DrwInv
  PROVE  Drw!LandsAfter /\ Drw!RoomLasts
  <1>1. ASSUME NEW p \in Requests, Drw!Placing(p)
        PROVE  /\ Drw!FitsBetween(req[p].lo, req[p].hi)
               /\ req[p] \in DrwRequest /\ Moving(req[p]) /\ Choosing(req[p])
               /\ req[p].pc = "write"
    <2>1. /\ req[p] \in DrwRequest /\ Moving(req[p]) /\ Choosing(req[p])
          /\ req[p].pc = "write"
      BY <1>1 DEF DrwInv, DrwTypes, Truly, Drw!Placing, Drw!At
    <2>2. /\ Drw!Below(req[p].lo, req[p].hi)
          /\ req[p].lo \in Drw!Key \cup {NoKey}
          /\ req[p].hi \in Drw!Key \cup {NoKey}
      BY <2>1 DEF Choosing, DrwRequest
    <2> QED BY <2>1, <2>2, KeyFits
  <1>2. ASSUME NEW p \in Requests, Drw!Placing(p), req[p].x \in live,
               req[p].missed = {}, NEW t \in Drw!Peers(req[p].x, req[p].to)
        PROVE  IF t = req[p].after THEN Drw!Less(pos[t], Drw!NewKey(p))
               ELSE \/ Drw!Less(Drw!NewKey(p), pos[t])
                    \/ /\ req[p].after # None
                       /\ ~Drw!Less(pos[req[p].after], pos[t])
    <2> DEFINE r == req[p]
               k == Drw!NewKey(p)
    <2>1. /\ k \in Drw!Key
          /\ r.lo # NoKey => Drw!Less(r.lo, k)
          /\ r.hi # NoKey => Drw!Less(k, r.hi)
      BY <1>1, <1>2 DEF Drw!FitsBetween, Drw!NewKey
    <2> HIDE DEF k
    <2>2. /\ r.lo # NoKey /\ r.after # None => r.lo = pos[r.after]
          /\ r.after = None => r.lo = NoKey
          /\ r.after # None => r.lo = pos[r.after]
          /\ Outside(pos[t], r.lo, r.hi)
          /\ r.hi \in Drw!Key \cup {NoKey} /\ r.lo \in Drw!Key \cup {NoKey}
      BY <1>1, <1>2 DEF Moving, Choosing, DrwRequest
    <2>3. /\ t \in Drw!Things /\ t # None /\ pos[t] \in Drw!Key
          /\ NoKey \notin Drw!Key
      BY DrwConstants
      DEF DrwInv, DrwTypes, Drw!Peers, Drw!Standing, Drw!InGroup, Drw!Visible
    <2>4. CASE t = r.after
      BY <2>1, <2>2, <2>3, <2>4 DEF k
    <2>5. CASE t # r.after /\ r.hi # NoKey /\ ~Drw!Less(pos[t], r.hi)
      <3>1. Drw!Less(k, pos[t])
        BY <2>1, <2>2, <2>3, <2>5, KeysInOrder
      <3> QED BY <2>5, <3>1 DEF k
    <2>6. CASE t # r.after /\ r.lo # NoKey /\ ~Drw!Less(r.lo, pos[t])
      BY <2>2, <2>6
    <2> QED BY <2>2, <2>4, <2>5, <2>6 DEF Outside, k
  <1> QED BY <1>1, <1>2 DEF Drw!LandsAfter, Drw!RoomLasts

(* ... and the shelf shows what it counts. *)
LEMMA ShelfIsWhole == DrwInv => Drw!ShelfShowsAll
  BY DEF DrwInv, Truly, Reading, Drw!ShelfShowsAll, Drw!At, Drw!Stored,
         Drw!Shown

-----------------------------------------------------------------------------
(* Pages. *)

ReaderRecord ==
  [pages : Seq(Seq(Rows)), first : SUBSET Rows, done : BOOLEAN]

PagTypes ==
  /\ list \in {"sent", "ledger"} /\ now \in 0 .. Instants
  /\ stamp \in [Rows -> {Pag!NoTime} \cup 0 .. Instants]
  /\ stored \subseteq Rows /\ \A r \in stored : stamp[r] # Pag!NoTime
  /\ list = "sent" =>
       \A r \in Rows : stamp[r] # Pag!NoTime => Pag!Milli(stamp[r]) = stamp[r]
  /\ reader \in ReaderRecord

(* A row that a cursor may skip. *)
Excused(r) ==
  list = "ledger" /\ \E l \in Pag!LastRows : Pag!Milli(stamp[r]) = Pag!Milli(stamp[l])

Reached ==
  /\ reader.pages # <<>> => Pag!Last(reader.pages) # <<>>
  /\ \A r \in Pag!Shown : r = Pag!LastRow \/ Pag!Newer(r, Pag!LastRow)

PagesHold ==
  /\ reader.first \subseteq stored /\ Pag!Shown \subseteq stored
  /\ reader.pages = <<>> => reader.first = {} /\ ~reader.done
  /\ \A m, n \in DOMAIN reader.pages :
       m # n => Pag!Range(reader.pages[m]) \cap Pag!Range(reader.pages[n]) = {}
  /\ ~reader.done => Reached
  /\ \A r \in reader.first \ Pag!Shown :
       Excused(r) \/ (~reader.done /\ Pag!BelowCursor(r))

PagInv == PagTypes /\ PagesHold

(* What the assumptions say of the pages. *)
LEMMA PagConstants ==
  PartsAssumption => /\ Rows \subseteq Nat /\ IsFiniteSet(Rows)
                     /\ Limit \in Nat /\ Limit > 0 /\ Instants \in Nat
                     /\ Grain \in Nat /\ Grain > 0
  BY DEF PartsAssumption, Pag!PagingAssumption, Pag!IsFiniteSet, IsFiniteSet

(* Division: the milliseconds of the instants. *)
LEMMA Multiples ==
  ASSUME NEW g \in Nat, g > 0, NEW t \in Nat
  PROVE  /\ t % g \in 0 .. g - 1 /\ t \div g \in Nat
         /\ t - (t % g) = g * (t \div g)
  OBVIOUS

LEMMA OneMultiple ==
  ASSUME NEW g \in Nat, g > 0, NEW p \in Nat, NEW q \in Nat, NEW t \in Nat,
         g * p <= t, t < g * p + g, g * q <= t, t < g * q + g
  PROVE  p = q
  <1>1. ASSUME NEW a \in Nat, NEW b \in Nat, a < b
        PROVE  g * a + g <= g * b
    <2>1. a + 1 <= b /\ a + 1 \in Nat
      BY <1>1
    <2>2. g * (a + 1) <= g * b
      BY <2>1
    <2>3. g * (a + 1) = g * a + g
      OBVIOUS
    <2> QED BY <2>2, <2>3
  <1>2. g * p \in Nat /\ g * q \in Nat
    OBVIOUS
  <1>3. ~(p < q)
    BY <1>1, <1>2
  <1>4. ~(q < p)
    BY <1>1, <1>2
  <1> QED BY <1>3, <1>4

LEMMA Millis ==
  ASSUME PartsAssumption, NEW t \in Nat, NEW u \in Nat
  PROVE  /\ Pag!Milli(t) \in Nat /\ Pag!Milli(t) <= t
         /\ Pag!Milli(Pag!Milli(t)) = Pag!Milli(t)
         /\ Pag!Milli(u) <= t /\ t <= u => Pag!Milli(t) = Pag!Milli(u)
  <1>1. Grain \in Nat /\ Grain > 0
    BY PagConstants
  <1>2. \A v \in Nat : /\ v % Grain \in 0 .. Grain - 1 /\ v \div Grain \in Nat
                       /\ Pag!Milli(v) = Grain * (v \div Grain)
                       /\ Pag!Milli(v) = v - (v % Grain)
    BY <1>1, Multiples DEF Pag!Milli
  <1>3. \A v \in Nat : /\ Pag!Milli(v) \in Nat /\ Pag!Milli(v) <= v
                       /\ v < Pag!Milli(v) + Grain
    <2> SUFFICES ASSUME NEW v \in Nat
                 PROVE  /\ Pag!Milli(v) \in Nat /\ Pag!Milli(v) <= v
                        /\ v < Pag!Milli(v) + Grain
      OBVIOUS
    <2>1. Grain * (v \div Grain) \in Nat
      BY <1>1, <1>2
    <2>2. v % Grain >= 0 /\ v % Grain < Grain /\ v % Grain \in Int
      BY <1>1, <1>2
    <2>3. Pag!Milli(v) \in Nat
      BY <1>2, <2>1
    <2> QED BY <1>1, <1>2, <2>2, <2>3
  <1>4. ASSUME NEW v \in Nat, NEW w \in Nat, Pag!Milli(w) <= v, v <= w
        PROVE  Pag!Milli(v) = Pag!Milli(w)
    <2> DEFINE p == v \div Grain
               q == w \div Grain
    <2>1. /\ p \in Nat /\ q \in Nat
          /\ Pag!Milli(v) = Grain * p /\ Pag!Milli(w) = Grain * q
      BY <1>2
    <2> HIDE DEF p, q
    <2>2. /\ Grain * p <= v /\ v < Grain * p + Grain
          /\ Grain * q <= v /\ v < Grain * q + Grain
      BY <1>1, <1>3, <1>4, <2>1
    <2>3. p = q
      BY <1>1, <2>1, <2>2, OneMultiple
    <2> QED BY <2>1, <2>3
  <1>5. Pag!Milli(Pag!Milli(t)) = Pag!Milli(t)
    BY <1>3, <1>4
  <1> QED BY <1>3, <1>4, <1>5

(* A page lists rows in their order. *)
LEMMA NewestFirstSorts ==
  ASSUME PartsAssumption, PagTypes, NEW S \in SUBSET stored
  PROVE  /\ Pag!NewestFirst(S) \in Seq(S)
         /\ \A r \in S : \E n \in 1 .. Len(Pag!NewestFirst(S)) :
              Pag!NewestFirst(S)[n] = r
         /\ \A m, n \in 1 .. Len(Pag!NewestFirst(S)) :
              m < n => Pag!Newer(Pag!NewestFirst(S)[m], Pag!NewestFirst(S)[n])
  <1> DEFINE R == {rs \in Rows \X Rows : Pag!Newer(rs[1], rs[2])}
             N == Cardinality(S)
             s == Pag!NewestFirst(S)
             e(n) == CHOOSE i \in S :
                       Pag!Cardinality({j \in S : Pag!Newer(j, i)}) = n - 1
  <1>0. \A T : Pag!Cardinality(T) = Cardinality(T)
    BY DEF Pag!Cardinality, Cardinality
  <1>1. IsFiniteSet(S) /\ S \subseteq Rows /\ Rows \subseteq Nat
    BY PagConstants, FS_Subset DEF PagTypes
  <1>2. \A i, j \in Rows : <<i, j>> \in R <=> Pag!Newer(i, j)
    OBVIOUS
  <1>3. Orders(R, S)
    <2>1. \A i \in S : i \in Nat /\ stamp[i] \in Int
      BY <1>1, PagConstants DEF PagTypes, Pag!NoTime
    <2>2. \A i, j, k \in S :
            /\ ~Pag!Newer(i, i)
            /\ Pag!Newer(i, j) /\ Pag!Newer(j, k) => Pag!Newer(i, k)
            /\ i = j \/ Pag!Newer(i, j) \/ Pag!Newer(j, i)
      BY <2>1 DEF Pag!Newer
    <2> HIDE DEF R
    <2> QED BY <1>1, <1>2, <2>2 DEF Orders
  <1>4. /\ N \in Nat /\ Sorted(R, S) \in [1 .. N -> S]
        /\ \A i \in S : \E n \in 1 .. N : Sorted(R, S)[n] = i
        /\ \A m, n \in 1 .. N :
             m < n => <<Sorted(R, S)[m], Sorted(R, S)[n]>> \in R
    BY <1>1, <1>3, SortedLists
  <1>5. \A i \in S : RankOf(R, S, i)
                        = Pag!Cardinality({j \in S : Pag!Newer(j, i)})
    <2> SUFFICES ASSUME NEW i \in S
                 PROVE  RankOf(R, S, i)
                          = Pag!Cardinality({j \in S : Pag!Newer(j, i)})
      OBVIOUS
    <2>1. Before(R, S, i) = {j \in S : Pag!Newer(j, i)}
      BY <1>1, <1>2 DEF Before
    <2> QED BY <2>1, <1>0 DEF RankOf
  <1>6. s = [n \in 1 .. N |-> e(n)]
    BY <1>0, Zenon DEF Pag!NewestFirst
  <1>7. \A n \in 1 .. N : e(n) = Sorted(R, S)[n]
    <2> SUFFICES ASSUME NEW n \in 1 .. N
                 PROVE  e(n) = Sorted(R, S)[n]
      OBVIOUS
    <2>1. e(n) = (CHOOSE x \in S : RankOf(R, S, x) = n - 1)
      BY <1>5
    <2>2. Sorted(R, S)[n] = CHOOSE x \in S : RankOf(R, S, x) = n - 1
      BY DEF Sorted
    <2> QED BY <2>1, <2>2
  <1> HIDE DEF R, N, s, e
  <1>8. s \in [1 .. N -> S] /\ \A n \in 1 .. N : s[n] = Sorted(R, S)[n]
    BY <1>4, <1>6, <1>7
  <1>9. s \in Seq(S)
    BY <1>4, <1>8, SeqDef
  <1>10. Len(s) = N
    BY <1>4, <1>8, <1>9
  <1>11. \A m, n \in 1 .. N : m < n => Pag!Newer(s[m], s[n])
    <2> SUFFICES ASSUME NEW m \in 1 .. N, NEW n \in 1 .. N, m < n
                 PROVE  Pag!Newer(s[m], s[n])
      OBVIOUS
    <2>1. <<s[m], s[n]>> \in R /\ s[m] \in Rows /\ s[n] \in Rows
      BY <1>1, <1>4, <1>8
    <2> QED BY <1>2, <2>1
  <1> QED BY <1>4, <1>8, <1>9, <1>10, <1>11 DEF s

(* The last row of a page is a row of it. *)
LEMMA LastRowsAreShown ==
  ASSUME reader \in ReaderRecord
  PROVE  /\ Pag!LastRows \subseteq Pag!Shown
         /\ reader.pages # <<>> /\ Pag!Last(reader.pages) # <<>>
              => Pag!LastRow \in Pag!Shown
  <1> DEFINE s == reader.pages
  <1>1. s \in Seq(Seq(Rows))
    BY DEF ReaderRecord
  <1>2. ASSUME NEW n \in DOMAIN s, s[n] # <<>>
        PROVE  Pag!Last(s[n]) \in Pag!Shown
    <2>1. s[n] \in Seq(Rows) /\ n \in 1 .. Len(s)
      BY <1>1, <1>2
    <2>2. Len(s[n]) \in DOMAIN s[n] /\ s[n][Len(s[n])] \in Rows
      BY <1>2, <2>1
    <2> QED BY <1>2, <2>2 DEF Pag!Shown, Pag!Last, Pag!Range
  <1>3. s # <<>> => Len(s) \in DOMAIN s
    BY <1>1
  <1>4. s # <<>> /\ Pag!Last(s) # <<>> => Pag!LastRow \in Pag!Shown
    BY <1>2, <1>3 DEF Pag!LastRow, Pag!Last
  <1> QED BY <1>2, <1>4 DEF Pag!LastRows

(* The clock, and the transactions that store rows. *)
LEMMA RowsKeep ==
  ASSUME PartsAssumption, PagInv, PagTypes', reader' = reader, list' = list,
         stored \subseteq stored', \A r \in stored : stamp'[r] = stamp[r]
  PROVE  PagInv'
  <1>1. PagTypes /\ PagesHold /\ reader \in ReaderRecord
    BY DEF PagInv, PagTypes
  <1>2. /\ Pag!Shown' = Pag!Shown /\ Pag!LastRow' = Pag!LastRow
        /\ Pag!LastRows' = Pag!LastRows
    BY DEF Pag!Shown, Pag!LastRow, Pag!LastRows
  <1>3. /\ Pag!LastRows \subseteq Pag!Shown /\ Pag!Shown \subseteq stored
        /\ reader.first \subseteq stored
        /\ reader.pages # <<>> /\ Pag!Last(reader.pages) # <<>>
              => Pag!LastRow \in Pag!Shown
    BY <1>1, LastRowsAreShown DEF PagesHold
  <1>4. ASSUME ~reader.done
        PROVE  Reached'
    <2>1. Reached
      BY <1>1, <1>4 DEF PagesHold
    <2>2. ASSUME NEW r \in Pag!Shown, r # Pag!LastRow
          PROVE  Pag!Newer(r, Pag!LastRow)'
      <3>1. reader.pages # <<>>
        BY <2>2 DEF Pag!Shown
      <3>2. stamp'[r] = stamp[r] /\ stamp'[Pag!LastRow] = stamp[Pag!LastRow]
        BY <1>3, <2>1, <2>2, <3>1 DEF Reached
      <3> QED BY <1>2, <2>1, <2>2, <3>2 DEF Reached, Pag!Newer
    <2> QED BY <1>2, <2>1, <2>2 DEF Reached
  <1>5. ASSUME NEW r \in reader.first \ Pag!Shown
        PROVE  Excused(r)' \/ (~reader.done /\ Pag!BelowCursor(r)')
    <2>1. stamp'[r] = stamp[r]
      BY <1>3, <1>5
    <2>2. CASE Excused(r)
      <3>1. PICK l \in Pag!LastRows : Pag!Milli(stamp[r]) = Pag!Milli(stamp[l])
        BY <2>2 DEF Excused
      <3>2. stamp'[l] = stamp[l]
        BY <1>3, <3>1
      <3>3. (Pag!Milli(stamp[r]) = Pag!Milli(stamp[l]))'
        BY <2>1, <3>1, <3>2 DEF Pag!Milli
      <3> QED BY <1>2, <2>2, <3>1, <3>3 DEF Excused
    <2>3. CASE ~reader.done /\ Pag!BelowCursor(r)
      <3>1. Reached /\ reader.pages # <<>>
        BY <1>1, <1>5, <2>3 DEF PagesHold
      <3>2. stamp'[Pag!LastRow] = stamp[Pag!LastRow]
        BY <1>3, <3>1 DEF Reached
      <3> QED BY <1>2, <2>1, <2>3, <3>2 DEF Pag!BelowCursor, Pag!Milli
    <2> QED BY <1>1, <1>5, <2>2, <2>3 DEF PagesHold
  <1>6. PagesHold'
    BY <1>1, <1>2, <1>3, <1>4, <1>5 DEF PagesHold
  <1> QED BY <1>6 DEF PagInv

LEMMA RowsCome ==
  ASSUME PartsAssumption, PagInv,
         \/ Pag!Tick \/ UNCHANGED pagingVars
         \/ \E r \in Rows : Pag!BeginRow(r) \/ Pag!CommitRow(r)
  PROVE  PagInv'
  <1>1. /\ PagTypes /\ Instants \in Nat
        /\ now \in Nat /\ now <= Instants /\ reader \in ReaderRecord
    BY PagConstants DEF PagInv, PagTypes
  <1>2. CASE Pag!Tick \/ UNCHANGED pagingVars
    <2>1. /\ UNCHANGED <<list, stamp, stored, reader>>
          /\ now' \in 0 .. Instants
      BY <1>1, <1>2 DEF PagTypes, Pag!Tick, pagingVars
    <2>2. PagTypes'
      BY <1>1, <2>1 DEF PagTypes, Pag!Milli
    <2> QED BY <2>1, <2>2, RowsKeep
  <1>3. ASSUME NEW r \in Rows, Pag!BeginRow(r)
        PROVE  PagInv'
    <2>1. /\ stamp[r] = Pag!NoTime /\ stamp' = [stamp EXCEPT ![r] = Pag!Clock]
          /\ UNCHANGED <<list, now, stored, reader>>
      BY <1>3 DEF Pag!BeginRow
    <2>2. /\ Pag!Clock \in 0 .. Instants
          /\ list = "sent" => Pag!Milli(Pag!Clock) = Pag!Clock
      <3>1. /\ Pag!Milli(now) \in Nat /\ Pag!Milli(now) <= now
            /\ Pag!Milli(Pag!Milli(now)) = Pag!Milli(now)
        BY <1>1, Millis
      <3> QED BY <1>1, <3>1 DEF Pag!Clock
    <2>3. \A s \in stored : s # r /\ stamp'[s] = stamp[s]
      BY <1>1, <2>1 DEF PagTypes
    <2>4. Pag!Clock # Pag!NoTime
      BY <1>1, <2>2 DEF Pag!NoTime
    <2> HIDE DEF Pag!Clock
    <2>5. stamp' \in [Rows -> {Pag!NoTime} \cup 0 .. Instants]
      BY <1>1, <2>1, <2>2 DEF PagTypes
    <2>6. \A s \in Rows : stamp'[s] = IF s = r THEN Pag!Clock ELSE stamp[s]
      BY <1>1, <2>1 DEF PagTypes
    <2>7. ASSUME list' = "sent", NEW s \in Rows, stamp'[s] # Pag!NoTime
          PROVE  (Pag!Milli(stamp[s]) = stamp[s])'
      <3>1. Pag!Milli(stamp'[s]) = stamp'[s]
        BY <1>1, <2>1, <2>2, <2>6, <2>7 DEF PagTypes
      <3> QED BY <3>1 DEF Pag!Milli
    <2>8. PagTypes'
      BY <1>1, <2>1, <2>3, <2>5, <2>7 DEF PagTypes
    <2> QED BY <2>1, <2>3, <2>8, RowsKeep
  <1>4. ASSUME NEW r \in Rows, Pag!CommitRow(r)
        PROVE  PagInv'
    <2>1. /\ stamp[r] # Pag!NoTime /\ stored' = stored \cup {r}
          /\ UNCHANGED <<list, now, stamp, reader>>
      BY <1>4 DEF Pag!CommitRow
    <2>2. PagTypes'
      BY <1>1, <2>1 DEF PagTypes, Pag!Milli
    <2> QED BY <2>1, <2>2, RowsKeep
  <1> QED BY <1>2, <1>3, <1>4

(* The list is read from the top. *)
LEMMA StartsAgain ==
  ASSUME PagTypes, list' = list, now' = now, stamp' = stamp, stored' = stored,
         reader' = Pag!Start
  PROVE  PagInv'
  <1>1. /\ Pag!Start \in ReaderRecord /\ Pag!Start.pages = <<>>
        /\ Pag!Start.first = {} /\ ~Pag!Start.done
    BY DEF Pag!Start, ReaderRecord
  <1>2. PagTypes'
    BY <1>1 DEF PagTypes, Pag!Milli
  <1>3. Pag!Shown' = {}
    BY <1>1 DEF Pag!Shown
  <1>4. PagesHold'
    BY <1>1, <1>3 DEF PagesHold, Reached
  <1> QED BY <1>2, <1>4 DEF PagInv

(* What follows the last row of a page and is not below the cursor has the *)
(* millisecond of that row, and its time is not exact.                     *)
LEMMA CursorSkips ==
  ASSUME PartsAssumption, NEW u \in Nat, NEW t \in Nat, NEW l \in Nat,
         NEW r \in Nat, u > t \/ (u = t /\ l > r),
         ~(t < Pag!Milli(u)), ~(t = Pag!Milli(u) /\ r < l)
  PROVE  Pag!Milli(t) = Pag!Milli(u) /\ Pag!Milli(u) # u
  <1>1. Pag!Milli(u) \in Nat /\ Pag!Milli(u) <= u
    BY Millis
  <1>2. Pag!Milli(u) <= t /\ t <= u
    BY <1>1
  <1>3. Pag!Milli(t) = Pag!Milli(u)
    BY <1>2, Millis
  <1> QED BY <1>1, <1>2, <1>3

(* A page is read. *)
LEMMA ReadsPage ==
  ASSUME PartsAssumption, PagInv, Pag!ReadPage
  PROVE  PagInv'
  <1> DEFINE s == reader.pages
             S == IF s = <<>> THEN stored
                  ELSE {r \in stored : Pag!BelowCursor(r)}
             f == Pag!NewestFirst(S)
             k == Pag!Min({Limit, Len(f)})
             page == SubSeq(f, 1, k)
             t == reader'.pages
  <1>1. /\ ~reader.done
        /\ reader' = [pages |-> Append(s, page),
                      first |-> IF s = <<>> THEN stored ELSE reader.first,
                      done |-> Len(f) <= Limit]
        /\ UNCHANGED <<list, now, stamp, stored>>
    BY DEF Pag!ReadPage
  <1>2. /\ PagTypes /\ PagesHold /\ Reached
        /\ s \in Seq(Seq(Rows)) /\ reader.first \subseteq Rows
        /\ stored \subseteq Rows
    BY <1>1 DEF PagInv, PagTypes, PagesHold, ReaderRecord
  <1>3. Limit \in Nat /\ Limit > 0 /\ Rows \subseteq Nat
    BY PagConstants
  <1>4. \A r \in stored : r \in Nat /\ stamp[r] \in Nat
    <2>1. ASSUME NEW r \in stored
          PROVE  r \in Nat /\ stamp[r] \in Nat
      <3>1. /\ r \in Rows /\ stamp[r] # Pag!NoTime
            /\ stamp[r] \in {Pag!NoTime} \cup 0 .. Instants
        BY <1>2, <2>1 DEF PagTypes
      <3>2. stamp[r] \in 0 .. Instants /\ Instants \in Nat
        BY <3>1, PagConstants
      <3> QED BY <1>3, <3>1, <3>2
    <2> QED BY <2>1
  <1>5. S \in SUBSET stored
    OBVIOUS
  <1>6. /\ f \in Seq(S)
        /\ \A r \in S : \E n \in 1 .. Len(f) : f[n] = r
        /\ \A m, n \in 1 .. Len(f) : m < n => Pag!Newer(f[m], f[n])
    <2> HIDE DEF S
    <2> QED BY <1>2, <1>5, NewestFirstSorts
  <1> HIDE DEF f
  <1>7. /\ Len(f) \in Nat /\ k \in Nat /\ k <= Len(f)
        /\ k = IF Limit <= Len(f) THEN Limit ELSE Len(f)
    <2>1. Len(f) \in Nat
      BY <1>6
    <2>2. \E x \in {Limit, Len(f)} : \A y \in {Limit, Len(f)} : x <= y
      BY <1>3, <2>1
    <2>3. k \in {Limit, Len(f)} /\ k <= Limit /\ k <= Len(f)
      BY <2>2 DEF Pag!Min
    <2> QED BY <1>3, <2>1, <2>3
  <1> HIDE DEF k
  <1>8. /\ page \in Seq(S) /\ Len(page) = k
        /\ \A n \in 1 .. k : page[n] = f[n]
    <2> HIDE DEF S
    <2> QED BY <1>6, <1>7
  <1> HIDE DEF page
  <1>9. /\ Pag!Range(page) \subseteq S
        /\ \A n \in 1 .. k : f[n] \in Pag!Range(page)
        /\ \A r \in Pag!Range(page) : \E n \in 1 .. k : r = f[n]
    <2> HIDE DEF S
    <2> QED BY <1>7, <1>8 DEF Pag!Range
  <1>10. page \in Seq(Rows)
    <2>1. S \subseteq Rows
      BY <1>2, <1>5
    <2> HIDE DEF S
    <2> QED BY <1>8, <2>1
  <1>11. /\ t = Append(s, page) /\ t \in Seq(Seq(Rows)) /\ t # <<>>
         /\ Len(t) = Len(s) + 1 /\ DOMAIN t = 1 .. Len(s) + 1
         /\ DOMAIN s = 1 .. Len(s) /\ Len(s) \in Nat
         /\ t[Len(s) + 1] = page /\ \A n \in 1 .. Len(s) : t[n] = s[n]
    BY <1>1, <1>2, <1>10
  <1>12. /\ reader'.done \in BOOLEAN /\ (reader'.done <=> Len(f) <= Limit)
         /\ reader'.first = IF s = <<>> THEN stored ELSE reader.first
    <2>1. /\ reader'.done = (Len(f) <= Limit)
          /\ reader'.first = IF s = <<>> THEN stored ELSE reader.first
      BY <1>1
    <2>2. CASE Len(f) <= Limit
      <3>1. reader'.done = TRUE
        BY <2>1, <2>2
      <3> QED BY <2>1, <2>2, <3>1
    <2>3. CASE ~(Len(f) <= Limit)
      <3>1. (Len(f) <= Limit) = FALSE
        BY <2>3
      <3>2. reader'.done = FALSE
        BY <2>1, <3>1, Zenon
      <3> QED BY <2>1, <2>3, <3>2
    <2> QED BY <2>2, <2>3
  <1>13. PagTypes'
    <2>1. reader' \in ReaderRecord
      BY <1>1, <1>2, <1>10, <1>11, <1>12 DEF ReaderRecord
    <2> HIDE DEF t
    <2> QED BY <1>1, <1>2, <2>1 DEF PagTypes, Pag!Milli
  <1> HIDE DEF S
  <1>14. Pag!Shown' = Pag!Shown \cup Pag!Range(page)
    <2>1. Pag!Shown' = {r \in Rows : \E n \in DOMAIN t : r \in Pag!Range(t[n])}
      BY DEF Pag!Shown, Pag!Range
    <2>2. Pag!Shown = {r \in Rows : \E n \in DOMAIN s : r \in Pag!Range(s[n])}
      BY DEF Pag!Shown
    <2>3. Pag!Range(page) \subseteq Rows
      BY <1>2, <1>5, <1>9
    <2>4. \A r : (\E n \in DOMAIN t : r \in Pag!Range(t[n]))
                   <=> (\E n \in DOMAIN s : r \in Pag!Range(s[n]))
                        \/ r \in Pag!Range(page)
      <3> HIDE DEF s, t
      <3>1. /\ Len(s) + 1 \in DOMAIN t
            /\ \A n \in DOMAIN t : n \in DOMAIN s \/ n = Len(s) + 1
            /\ DOMAIN s \subseteq DOMAIN t
        BY <1>11
      <3> QED BY <1>11, <3>1
    <2> HIDE DEF s, t
    <2> QED BY <2>1, <2>2, <2>3, <2>4
  <1>15. Pag!LastRows \subseteq Pag!LastRows'
    <2> SUFFICES ASSUME NEW n \in DOMAIN s, s[n] # <<>>
                 PROVE  Pag!Last(s[n]) \in Pag!LastRows'
      BY DEF Pag!LastRows
    <2>1. n \in DOMAIN t /\ t[n] = s[n]
      BY <1>11
    <2> QED BY <2>1 DEF Pag!LastRows, Pag!Last
  <1>16. s = <<>> => Pag!Shown = {} /\ reader.first = {}
    BY <1>2 DEF Pag!Shown, PagesHold
  <1>17. s # <<>> => /\ Pag!LastRow \in stored
                     /\ \A r \in S : Pag!Newer(Pag!LastRow, r)
    <2> SUFFICES ASSUME s # <<>>
                 PROVE  /\ Pag!LastRow \in stored
                        /\ \A r \in S : Pag!Newer(Pag!LastRow, r)
      OBVIOUS
    <2>1. Pag!LastRow \in stored
      BY <1>2, LastRowsAreShown DEF Reached, PagesHold, PagTypes
    <2>2. ASSUME NEW r \in S
          PROVE  Pag!Newer(Pag!LastRow, r)
      <3>1. r \in stored /\ Pag!BelowCursor(r)
        BY <2>2 DEF S
      <3>2. /\ Pag!Milli(stamp[Pag!LastRow]) <= stamp[Pag!LastRow]
            /\ Pag!Milli(stamp[Pag!LastRow]) \in Nat
        BY <1>4, <2>1, Millis
      <3> QED BY <1>4, <2>1, <3>1, <3>2 DEF Pag!BelowCursor, Pag!Newer
    <2> QED BY <2>1, <2>2
  <1>18. Pag!Range(page) \cap Pag!Shown = {}
    <2> SUFFICES ASSUME NEW r \in Pag!Range(page), r \in Pag!Shown
                 PROVE  FALSE
      OBVIOUS
    <2>1. s # <<>> /\ r \in S /\ r \in stored
      BY <1>5, <1>9, <1>16
    <2>2. r = Pag!LastRow \/ Pag!Newer(r, Pag!LastRow)
      BY <1>2, <2>1 DEF Reached
    <2> QED BY <1>4, <1>17, <2>1, <2>2 DEF Pag!Newer
  <1>19. \A m, n \in DOMAIN t :
           m # n => Pag!Range(t[m]) \cap Pag!Range(t[n]) = {}
    <2>1. \A n \in DOMAIN s : Pag!Range(t[n]) \subseteq Pag!Shown
      <3>1. \A n \in DOMAIN s : s[n] \in Seq(Rows)
        BY <1>2
      <3>2. \A n \in DOMAIN s : Pag!Range(s[n]) \subseteq Rows
        BY <3>1 DEF Pag!Range
      <3> QED BY <1>11, <3>2 DEF Pag!Shown
    <2>2. \A m, n \in DOMAIN s :
            m # n => Pag!Range(t[m]) \cap Pag!Range(t[n]) = {}
      BY <1>2, <1>11 DEF PagesHold
    <2>3. \A n \in DOMAIN t : n \in DOMAIN s \/ n = Len(s) + 1
      BY <1>11
    <2> HIDE DEF s, t
    <2> QED BY <1>11, <1>18, <2>1, <2>2, <2>3
  <1>20. Pag!Shown' \subseteq stored' /\ reader'.first \subseteq stored'
    BY <1>1, <1>2, <1>5, <1>9, <1>12, <1>14 DEF PagesHold
  <1>21. ASSUME ~reader'.done
         PROVE  /\ k = Limit /\ Limit \in 1 .. Len(f)
                /\ Pag!Last(t) = page /\ page # <<>>
                /\ Pag!Last(page) = f[Limit] /\ f[Limit] \in S
    <2>1. k = Limit /\ Limit \in 1 .. Len(f)
      BY <1>3, <1>7, <1>12, <1>21
    <2>2. Pag!Last(t) = page
      BY <1>11 DEF Pag!Last
    <2> HIDE DEF t, s
    <2>3. page # <<>> /\ Pag!Last(page) = f[Limit]
      BY <1>3, <1>8, <2>1 DEF Pag!Last
    <2>4. f[Limit] \in S
      BY <1>6, <2>1
    <2> QED BY <2>1, <2>2, <2>3, <2>4
  <1>22. ~reader'.done => Pag!LastRow' = f[Limit]
    BY <1>21 DEF Pag!LastRow, Pag!Last
  <1>23. ASSUME ~reader'.done
         PROVE  Reached'
    <2> DEFINE l == f[Limit]
    <2>1. l \in S /\ l \in stored /\ k = Limit /\ Limit \in 1 .. Len(f)
      BY <1>5, <1>21, <1>23
    <2>2. ASSUME NEW r \in Pag!Shown \cup Pag!Range(page)
          PROVE  r = l \/ Pag!Newer(r, l)
      <3>1. CASE r \in Pag!Range(page)
        <4>1. PICK n \in 1 .. k : r = f[n]
          BY <1>9, <3>1
        <4>2. n = Limit \/ (n < Limit /\ n \in 1 .. Len(f))
          BY <1>3, <1>7, <2>1
        <4> QED BY <1>6, <2>1, <4>1, <4>2
      <3>2. CASE r \in Pag!Shown
        <4>1. s # <<>> /\ r \in stored
          BY <1>2, <1>16, <3>2 DEF PagesHold
        <4>2. /\ r = Pag!LastRow \/ Pag!Newer(r, Pag!LastRow)
              /\ Pag!Newer(Pag!LastRow, l) /\ Pag!LastRow \in stored
          BY <1>2, <1>17, <2>1, <3>2, <4>1 DEF Reached
        <4> QED BY <1>4, <2>1, <4>1, <4>2 DEF Pag!Newer
      <3> QED BY <2>2, <3>1, <3>2
    <2>3. \A r \in Pag!Shown' : r = Pag!LastRow' \/ Pag!Newer(r, Pag!LastRow)'
      BY <1>1, <1>14, <1>22, <1>23, <2>2 DEF Pag!Newer
    <2>4. Pag!Last(reader.pages)' # <<>>
      BY <1>21, <1>23 DEF Pag!Last
    <2> QED BY <2>3, <2>4 DEF Reached
  <1>24. ASSUME NEW r \in reader'.first \ Pag!Shown'
         PROVE  Excused(r)' \/ (~reader'.done /\ Pag!BelowCursor(r)')
    <2>1. r \notin Pag!Shown /\ r \notin Pag!Range(page) /\ r \in stored
      BY <1>1, <1>14, <1>20, <1>24
    <2>2. r \in S \/ Excused(r)
      BY <1>1, <1>2, <1>12, <1>24, <2>1 DEF PagesHold, S
    <2>3. CASE Excused(r)
      <3>1. PICK l \in Pag!LastRows : Pag!Milli(stamp[r]) = Pag!Milli(stamp[l])
        BY <2>3 DEF Excused
      <3>2. (Pag!Milli(stamp[r]) = Pag!Milli(stamp[l]))'
        BY <1>1, <3>1 DEF Pag!Milli
      <3> QED BY <1>1, <1>15, <2>3, <3>1, <3>2 DEF Excused
    <2>4. CASE r \in S
      <3>1. PICK n \in 1 .. Len(f) : f[n] = r
        BY <1>6, <2>4
      <3>2. ~(n <= k)
        BY <1>9, <2>1, <3>1, <1>7
      <3>3. ~reader'.done
        BY <1>3, <1>7, <1>12, <3>2
      <3>4. PICK l \in stored : l = f[Limit]
        BY <1>5, <1>21, <3>3
      <3>5. /\ l \in stored /\ Pag!Newer(l, r) /\ Pag!LastRow' = l
            /\ l \in Pag!LastRows'
        <4>1. l \in stored /\ Limit \in 1 .. Len(f) /\ Limit < n
          BY <1>3, <1>5, <1>7, <1>21, <3>2, <3>3, <3>4
        <4>2. Pag!Newer(l, r)
          BY <1>6, <3>1, <3>4, <4>1
        <4>3. Len(s) + 1 \in DOMAIN t /\ t[Len(s) + 1] = page
          BY <1>11
        <4>4. Pag!Last(page) \in Pag!LastRows'
          BY <1>21, <3>3, <4>3 DEF Pag!LastRows, Pag!Last
        <4> QED BY <1>21, <1>22, <3>3, <3>4, <4>1, <4>2, <4>4
      <3>6. CASE \/ stamp[r] < Pag!Milli(stamp[l])
                 \/ stamp[r] = Pag!Milli(stamp[l]) /\ r < l
        BY <1>1, <3>3, <3>5, <3>6 DEF Pag!BelowCursor, Pag!Milli
      <3>7. CASE ~ \/ stamp[r] < Pag!Milli(stamp[l])
                   \/ stamp[r] = Pag!Milli(stamp[l]) /\ r < l
        <4>1. /\ Pag!Milli(stamp[r]) = Pag!Milli(stamp[l])
              /\ Pag!Milli(stamp[l]) # stamp[l]
          <5>1. /\ r \in Nat /\ l \in Nat /\ stamp[r] \in Nat /\ stamp[l] \in Nat
                /\ stamp[l] > stamp[r] \/ (stamp[l] = stamp[r] /\ l > r)
            BY <1>4, <2>1, <3>5 DEF Pag!Newer
          <5> QED BY <3>7, <5>1, CursorSkips
        <4>2. list = "ledger"
          BY <1>2, <3>5, <4>1 DEF PagTypes
        <4>3. (Pag!Milli(stamp[r]) = Pag!Milli(stamp[l]))'
          BY <1>1, <4>1 DEF Pag!Milli
        <4> QED BY <1>1, <3>5, <4>2, <4>3 DEF Excused
      <3> QED BY <3>6, <3>7
    <2> QED BY <2>2, <2>3, <2>4
  <1>25. PagesHold'
    BY <1>11, <1>19, <1>20, <1>23, <1>24 DEF PagesHold
  <1> QED BY <1>13, <1>25 DEF PagInv

LEMMA PagInductive == Spec => []PagInv
  <1>1. Init => PagInv
    <2> SUFFICES ASSUME Pag!Init
                 PROVE  PagInv
      BY DEF Init
    <2>1. /\ list \in {"sent", "ledger"} /\ now = 0 /\ stored = {}
          /\ stamp = [r \in Rows |-> Pag!NoTime] /\ reader = Pag!Start
      BY DEF Pag!Init
    <2>2. /\ Pag!Start \in ReaderRecord /\ Pag!Start.pages = <<>>
          /\ Pag!Start.first = {} /\ ~Pag!Start.done
      BY DEF Pag!Start, ReaderRecord
    <2>3. PagTypes
      BY <2>1, <2>2, PagConstants, PartsAssumption DEF PagTypes
    <2>4. Pag!Shown = {}
      BY <2>1, <2>2 DEF Pag!Shown
    <2>5. PagesHold
      BY <2>1, <2>2, <2>4 DEF PagesHold, Reached
    <2> QED BY <2>3, <2>5 DEF PagInv
  <1>2. PagInv /\ [Next]_vars => PagInv'
    <2>1. ASSUME PagInv, Pag!Restart
          PROVE  PagInv'
      BY <2>1, StartsAgain DEF Pag!Restart, PagInv
    <2>2. PagInv /\ (Pag!Next \/ UNCHANGED pagingVars) => PagInv'
      BY <2>1, RowsCome, ReadsPage, PartsAssumption DEF Pag!Next
    <2> QED BY <2>2 DEF Next, vars, pagingVars
  <1> QED BY <1>1, <1>2, PTL DEF Spec

LEMMA PagTyped == PagInv => Pag!TypeOK
  BY DEF PagInv, PagTypes, ReaderRecord, Pag!TypeOK

-----------------------------------------------------------------------------
(* The theorems. *)

(* Whatever is asked of the outside services, however requests overlap and *)
(* whatever is lost on the way, every variable of the four parts keeps its *)
(* type: the advisory lock of ReportsService.create is held by exactly the *)
(* request between Lock and the commit, the keys ShelfService writes are   *)
(* keys and fit their column, a tape lies only in a group that exists, and *)
(* pages are of rows.                                                      *)
THEOREM PartsAreTyped == Spec => []TypeOK
  <1>1. VerInv => Ver!TypeOK
    BY DEF VerInv, VerTypes, CallRecord, CacheRecord, CertStates, Ver!TypeOK
  <1>2. RepInv => Rep!TypeOK
    BY DEF RepInv, RepTypes, Locking, ReportRecord, Rep!TypeOK
  <1>3. VerInv /\ RepInv /\ DrwInv /\ PagInv => TypeOK
    BY <1>1, <1>2, DrwTyped, PagTyped DEF TypeOK
  <1> QED BY <1>3, VerInductive, RepInductive, DrwInductive, PagInductive, PTL

(* What is genuine is refused, or answered with 503, only for one of the   *)
(* causes that VerdictsHaveCauses lists (AdmobService.verify,              *)
(* AppStoreService, GooglePlayService, KakaoService, AppleService): the    *)
(* keys of AdMob that requests share, and the certificates that one of     *)
(* them loads for all, are never held against another.                     *)
THEOREM VerdictsAreCaused == Spec => []VerdictsHaveCauses
  <1>1. PartsAssumption /\ VerInv => VerdictsHaveCauses
    <2> SUFFICES ASSUME PartsAssumption, VerInv, NEW r \in Requests
                 PROVE  /\ Ver!At(r, "invalid") /\ call[r].genuine
                             => \/ Ver!Mistakable(r)
                                \/ /\ call[r].kind = "admob"
                                   /\ call[r].key \notin Ver!Published
                        /\ Ver!At(r, "unavailable")
                             => call[r].failed \/ ~configured
                        /\ Ver!At(r, "ok") => call[r].genuine
                        /\ Ver!At(r, "wait") => certs = "loading"
      BY DEF VerdictsHaveCauses, Ver!VerdictsHaveCauses
    <2>1. Judged(call[r], newest, configured, certs)
      BY DEF VerInv
    <2>2. newest \in Int /\ call[r].key \in Int
      BY DEF VerInv, VerTypes, CallRecord, Ver!Keys
    <2>3. call[r].key < newest - 1 => call[r].key \notin Ver!Published
      BY <2>2 DEF Ver!Published
    <2> QED BY <2>1, <2>3 DEF Judged, Ver!At, Ver!Mistakable
  <1> QED BY <1>1, VerInductive, PartsAssumption, PTL

(* However many reports a user sends at once, in any 24 hours one of a     *)
(* target and DailyLimit in all are stored, because ReportsService.create  *)
(* counts them under the lock it keeps until the commit; and an answered   *)
(* report and the block it asked for are on record.                        *)
THEOREM LimitsAreKept == Spec => []ReportsHold
  <1>1. RepInv => ReportsHold
    BY DEF RepInv, Answered, OnRecord, ReportsHold, Rep!AnswersAreReal,
           Rep!At
  <1> QED BY <1>1, RepInductive, PTL

(* Of two things of one list that have one position, the request that      *)
(* placed one overlapped with the request that placed the other            *)
(* (ShelfService.moveItem, createGroup, deleteGroup and topOfUnsortedKey   *)
(* read their neighbours without a lock); and "play all" (tapesFrom) goes  *)
(* through the drawer in the order getShelf shows, but for the tapes of    *)
(* two such groups.                                                        *)
THEOREM DrawerOrderIsKept == Spec => []DrawerOrderHolds
  <1>1. PartsAssumption /\ DrwInv => DrawerOrderHolds
    BY PlayedAsShown DEF DrawerOrderHolds, DrwInv
  <1> QED BY <1>1, DrwInductive, PartsAssumption, PTL

(* A tape or a group that is moved while nothing else moves lands directly *)
(* behind the one it was to follow, or at the front; and keyBetween keeps  *)
(* its promise to every two neighbours that are in order, whatever was     *)
(* written since they were read: a key between them, at most a digit       *)
(* longer than they are, and whole wherever a whole number fits.           *)
THEOREM MovesLandWhereAsked == Spec => []MovesLand
  <1> DEFINE Between == part = "keys" =>
                /\ gap[1] \in Drw!Key \cup {NoKey}
                /\ gap[2] \in Drw!Key \cup {NoKey}
                /\ Drw!Below(gap[1], gap[2])
  <1>1. Init => Between
    <2> SUFFICES ASSUME gap \in Gaps
                 PROVE  /\ gap[1] \in Drw!Key \cup {NoKey}
                        /\ gap[2] \in Drw!Key \cup {NoKey}
                        /\ Drw!Below(gap[1], gap[2])
      BY DEF Init
    <2>1. gap[1] \in Neighbours /\ gap[2] \in Neighbours
            /\ Drw!Below(gap[1], gap[2])
      BY DEF Gaps
    <2>2. Fractions \subseteq Drw!Fraction
      <3> SUFFICES ASSUME NEW n \in 0 .. MaxDigits,
                          NEW f \in [1 .. n -> Drw!Digits],
                          f # <<>> => f[Len(f)] # 0
                   PROVE  f \in Drw!Fraction
        BY DEF Fractions
      <3>1. n \in Nat
        OBVIOUS
      <3>2. f \in Seq(Drw!Digits)
        BY <3>1, SeqDef
      <3> QED BY <3>2 DEF Drw!Fraction
    <2>3. Neighbours \subseteq Drw!Key \cup {NoKey}
      BY <2>2 DEF Neighbours, Drw!Key
    <2> QED BY <2>1, <2>3
  <1>2. Between /\ [Next]_vars => Between'
    BY DEF Next, vars, Drw!Below, Drw!Less, Drw!FracLess
  <1>3. PartsAssumption /\ DrwInv /\ Between => MovesLand
    BY MovesAreBetween, KeyFits DEF MovesLand
  <1> QED BY <1>1, <1>2, <1>3, DrwInductive, PartsAssumption, PTL DEF Spec

(* Every tape that getShelf counts is shown in a drawer, whichever of its  *)
(* two queries comes first, unless a request moved it in between; and who  *)
(* reads a list to its end (listSent, listLedger) gets no row twice and    *)
(* every row that was there at the start, but for rows of the ledger that  *)
(* share the millisecond of the last row of a page.                        *)
THEOREM ReadsMissNothing == Spec => []ReadsShowAll
  <1>1. PagInv => Pag!PagesShowAll
    BY DEF PagInv, PagesHold, Excused, Pag!PagesShowAll
  <1>2. DrwInv /\ PagInv => ReadsShowAll
    BY <1>1, ShelfIsWhole DEF ReadsShowAll
  <1> QED BY <1>2, DrwInductive, PagInductive, PTL

=============================================================================
