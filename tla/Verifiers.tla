----------------------------- MODULE Verifiers -----------------------------
(***************************************************************************)
(* How the server decides whether a receipt, a notification or a social    *)
(* token is genuine: one call of an outside service after another, any of  *)
(* which may fail, and two things that requests share, the cached keys of  *)
(* AdMob and the root certificates of the App Store.                       *)
(***************************************************************************)
EXTENDS Integers, FiniteSets

CONSTANTS
  Requests,
  MaxKey,     \* AdMob publishes keys n and n + 1, up to MaxKey (bound)
  Faults      \* calls that fail (bound)

VerifiersAssumption == MaxKey \in Nat \ {0} /\ Faults \in Nat

VARIABLES
  configured,   \* keys, app ids and certificates are configured
  newest,       \* newest key that AdMob has published
  cache,        \* AdmobService.cache
  certs,        \* AppStoreService.rootCerts: null, pending or fulfilled
  req,          \* per request: what it asks about, and whether that is
                \* genuine, as far as the configuration can tell
  faults

vars == <<configured, newest, cache, certs, req, faults>>

Kinds == {"admob", "appstore", "notice", "play", "rtdn", "kakao", "apple"}
Keys == 0 .. MaxKey
Published == {newest - 1, newest} \cap Keys
NoKeys == [keys |-> {}, state |-> "none"]
Idle == [pc |-> "idle", kind |-> "admob", genuine |-> FALSE, key |-> 0,
         forced |-> FALSE, sent |-> {}, failed |-> FALSE, cause |-> "none"]
Verdicts == {"ok", "invalid", "unavailable"}

TypeOK ==
  /\ configured \in BOOLEAN /\ newest \in Keys /\ faults \in 0 .. Faults
  /\ cache.keys \subseteq Keys /\ cache.state \in {"none", "fresh", "old"}
  /\ certs \in {"none", "loading", "loaded"}
  /\ \A r \in Requests :
       /\ req[r].pc \in {"idle", "cache", "ask", "sent", "certs", "wait",
                         "call", "second"} \cup Verdicts
       /\ req[r].kind \in Kinds /\ req[r].key \in Keys
       /\ req[r].sent \subseteq Keys
       /\ req[r].cause \in {"none", "configuration", "status", "lost"}

Init ==
  /\ configured \in BOOLEAN
  /\ newest = 0 /\ cache = NoKeys /\ certs = "none"
  /\ req = [r \in Requests |-> Idle]
  /\ faults = 0

-----------------------------------------------------------------------------
At(r, pc) == req[r].pc = pc
Goes(r, pc) == req' = [req EXCEPT ![r].pc = pc]
Fault == faults < Faults /\ faults' = faults + 1

(* "unavailable" is 503, or 500 where the error of a call is not caught.   *)
Begins(r, kind, genuine, key, pc) ==
  /\ At(r, "idle")
  /\ req' = [req EXCEPT ![r] =
       [Idle EXCEPT !.pc = pc, !.kind = kind, !.genuine = genuine, !.key = key,
                    !.cause = IF configured THEN "none" ELSE "configuration"]]
  /\ UNCHANGED <<configured, newest, cache, certs, faults>>

Configured(pc) == IF configured THEN pc ELSE "unavailable"
Malformed(genuine) == IF genuine THEN {} ELSE {"invalid"}

(* AdMob: without a signature or a key the callback is refused at once.  A *)
(* genuine one names a key that is valid.  The keys need no configuration. *)
AskAdmob(r, genuine, key) ==
  /\ genuine => key \in Published
  /\ \E pc \in {"cache"} \cup Malformed(genuine) :
       Begins(r, "admob", genuine, key, pc)

(* App Store: a receipt or a notification, whose payload names the         *)
(* environment.  Where sandbox receipts are not allowed none is genuine.   *)
AskAppStore(r, kind, genuine) ==
  \E pc \in {Configured("certs")} \cup Malformed(genuine) :
    Begins(r, kind, genuine, 0, pc)

(* Google Play, and the Pub/Sub push that tells of a refund.               *)
AskPlay(r, genuine) == Begins(r, "play", genuine, 0, Configured("call"))

AskPush(r, genuine) ==
  \E pc \in {Configured("call")} \cup
            (IF configured THEN Malformed(genuine) ELSE {}) :
    Begins(r, "rtdn", genuine, 0, pc)

\* Without KAKAO_APP_ID only the check of the application is skipped.
AskKakao(r, genuine) == Begins(r, "kakao", genuine, 0, "call")

\* Without APPLE_CLIENT_IDS every login is refused, as if by its token.
AskApple(r, genuine) ==
  Begins(r, "apple", genuine, 0, IF configured THEN "call" ELSE "invalid")

Again(r) ==
  /\ req[r].pc \in Verdicts
  /\ req' = [req EXCEPT ![r] = Idle]
  /\ UNCHANGED <<configured, newest, cache, certs, faults>>

-----------------------------------------------------------------------------
(* AdMob.  An unknown key may be a new one: the keys are fetched once more *)
(* before the callback is refused.                                         *)

\* Mutant: an unknown key is refused at once.
AfterLookupOnce(r, keys) ==
  IF req[r].key \in keys /\ req[r].genuine THEN "ok" ELSE "invalid"

AfterLookup(r, keys) ==
  IF req[r].key \in keys
  THEN IF req[r].genuine THEN "ok" ELSE "invalid"
  ELSE IF req[r].forced THEN "invalid" ELSE "ask"

ReadCache(r) ==
  /\ At(r, "cache")
  /\ LET pc == IF cache.state = "fresh" THEN AfterLookup(r, cache.keys)
               ELSE "ask"
     IN  req' = [req EXCEPT ![r].pc = pc,
                            ![r].forced = (cache.state = "fresh")]
  /\ UNCHANGED <<configured, newest, cache, certs, faults>>

\* Google reads its keys; the answer may overtake another or be overtaken.
Send(r) ==
  /\ At(r, "ask")
  /\ req' = [req EXCEPT ![r].pc = "sent", ![r].sent = Published]
  /\ UNCHANGED <<configured, newest, cache, certs, faults>>

Fetched(r) ==
  /\ At(r, "sent")
  /\ cache' = [keys |-> req[r].sent, state |-> "fresh"]
  /\ req' = [req EXCEPT ![r].pc = AfterLookup(r, req[r].sent),
                        ![r].forced = TRUE, ![r].sent = {},
                        ![r].cause = "none"]
  /\ UNCHANGED <<configured, newest, certs, faults>>

(* A failed fetch is made up for by the cache, however old. *)
FetchFails(r) ==
  /\ req[r].pc \in {"ask", "sent"} /\ Fault
  /\ LET pc == IF cache.state = "none" THEN "unavailable"
               ELSE AfterLookup(r, cache.keys)
     IN  req' = [req EXCEPT ![r].pc = pc, ![r].forced = TRUE,
                            ![r].sent = {}, ![r].failed = TRUE,
                            ![r].cause = "lost"]
  /\ UNCHANGED <<configured, newest, cache, certs>>

Rotate ==
  /\ newest < MaxKey /\ newest' = newest + 1
  /\ UNCHANGED <<configured, cache, certs, req, faults>>

\* KEYS_TTL_MS is over.
Ages ==
  /\ cache.state = "fresh" /\ cache' = [cache EXCEPT !.state = "old"]
  /\ UNCHANGED <<configured, newest, certs, req, faults>>

-----------------------------------------------------------------------------
(* App Store: whoever needs the certificates first loads them for all.  A  *)
(* load that fails is forgotten and refused to all who waited for it.      *)
NeedCerts(r) ==
  /\ At(r, "certs")
  /\ IF certs = "loaded" THEN Goes(r, "call") /\ UNCHANGED certs
     ELSE Goes(r, "wait") /\ certs' = "loading"
  /\ UNCHANGED <<configured, newest, cache, faults>>

CertsLoaded ==
  /\ certs = "loading" /\ certs' = "loaded"
  /\ req' = [r \in Requests |->
       IF At(r, "wait") THEN [req[r] EXCEPT !.pc = "call"] ELSE req[r]]
  /\ UNCHANGED <<configured, newest, cache, faults>>

CertsFail ==
  /\ certs = "loading" /\ certs' = "none" /\ Fault
  /\ req' = [r \in Requests |->
       IF At(r, "wait")
       THEN [req[r] EXCEPT !.pc = "unavailable", !.failed = TRUE]
       ELSE req[r]]
  /\ UNCHANGED <<configured, newest, cache>>

-----------------------------------------------------------------------------
(* What is answered of what was asked, and when a call fails: with a       *)
(* status that is not 2xx, or without one.                                 *)
Calling(r, kind) == req[r].kind = kind /\ req[r].pc \in {"call", "second"}

Said(r, kind, twice) ==
  /\ Calling(r, kind)
  /\ Goes(r, IF ~req[r].genuine THEN "invalid"
             ELSE IF twice /\ At(r, "call") THEN "second"
             ELSE "ok")
  /\ UNCHANGED <<configured, newest, cache, certs, faults>>

FailsAs(r, kind, how, pcs) ==
  /\ Calling(r, kind) /\ Fault
  /\ \E pc \in pcs :
       req' = [req EXCEPT ![r].pc = pc, ![r].failed = TRUE, ![r].cause = how]
  /\ UNCHANGED <<configured, newest, cache, certs>>

(* verifyTransaction.  The library asks Apple whether its certificates are *)
(* revoked, and may report that it could not as a VerificationException.   *)
Transaction(r) == Said(r, "appstore", FALSE)
TransactionFails(r, how) ==
  FailsAs(r, "appstore", how, {"invalid", "unavailable"})

(* verifyNotification: the payload, and then the transaction in it.        *)
Notification(r) == Said(r, "notice", TRUE)
NotificationFails(r, how) ==
  FailsAs(r, "notice", how, {"invalid", "unavailable"})

(* getProductPurchase: 400, 404 and 410 are Google's no; any other status, *)
(* or none, is a failure.                                                  *)
ProductPurchase(r) == Said(r, "play", FALSE)
PurchaseCallFails(r, how) == FailsAs(r, "play", how, {"unavailable"})

(* verifyPushToken takes any error for a bad token. *)
PushToken(r) == Said(r, "rtdn", FALSE)
PushTokenFails(r, how) == FailsAs(r, "rtdn", how, {"invalid"})

(* KakaoService.verify: the token, and then whose it is.  Only 400 and 401 *)
(* are a no.                                                               *)
KakaoUser(r) == Said(r, "kakao", TRUE)
KakaoFails(r, how) == FailsAs(r, "kakao", how, {"unavailable"})

(* AppleService.verify: jose reports a status of the JWKS, though not a    *)
(* timeout, as a JOSEError.                                                *)
AppleToken(r) == Said(r, "apple", FALSE)
AppleFails(r, how) ==
  FailsAs(r, "apple", how, {IF how = "status" THEN "invalid" ELSE "unavailable"})

\* A token ends, or a purchase is refunded, while it is being verified.
Lapses(r) ==
  /\ req[r].pc \in {"certs", "wait", "call", "second"} /\ req[r].genuine
  /\ req' = [req EXCEPT ![r].genuine = FALSE]
  /\ UNCHANGED <<configured, newest, cache, certs, faults>>

Next ==
  \/ \E r \in Requests, genuine \in BOOLEAN :
       \/ \E key \in Keys : AskAdmob(r, genuine, key)
       \/ \E kind \in {"appstore", "notice"} : AskAppStore(r, kind, genuine)
       \/ AskPlay(r, genuine) \/ AskPush(r, genuine)
       \/ AskKakao(r, genuine) \/ AskApple(r, genuine)
  \/ \E r \in Requests :
       \/ ReadCache(r) \/ Send(r) \/ Fetched(r) \/ FetchFails(r)
       \/ NeedCerts(r) \/ Lapses(r) \/ Again(r)
       \/ Transaction(r) \/ Notification(r) \/ ProductPurchase(r)
       \/ PushToken(r) \/ KakaoUser(r) \/ AppleToken(r)
  \/ \E r \in Requests, how \in {"status", "lost"} :
       \/ TransactionFails(r, how) \/ NotificationFails(r, how)
       \/ PurchaseCallFails(r, how) \/ PushTokenFails(r, how)
       \/ KakaoFails(r, how) \/ AppleFails(r, how)
  \/ Rotate \/ Ages \/ CertsLoaded \/ CertsFail

Spec == Init /\ [][Next]_vars

-----------------------------------------------------------------------------
(* Where a failure of a service, or of the configuration, may be answered  *)
(* as if what it was asked about were not genuine.                         *)
Mistakable(r) ==
  \/ req[r].kind = "admob" /\ req[r].cause = "lost"
  \/ req[r].kind = "rtdn" /\ req[r].failed
  \/ req[r].kind = "apple" /\ req[r].cause \in {"configuration", "status"}
  \/ req[r].kind \in {"appstore", "notice"} /\ req[r].failed

(* What is genuine is refused only in the four cases above or, if it is an *)
(* AdMob callback, when its key has been withdrawn since; 503 is answered  *)
(* only to requests one of whose own calls failed, or without              *)
(* configuration: neither a stale cache, an answer that was overtaken nor  *)
(* somebody else's earlier failure is held against a request; and nothing  *)
(* else is accepted.                                                       *)
VerdictsHaveCauses ==
  \A r \in Requests :
    /\ At(r, "invalid") /\ req[r].genuine
         => Mistakable(r) \/ (req[r].kind = "admob" /\ req[r].key \notin Published)
    /\ At(r, "unavailable") => req[r].failed \/ ~configured
    /\ At(r, "ok") => req[r].genuine
    /\ At(r, "wait") => certs = "loading"

=============================================================================
