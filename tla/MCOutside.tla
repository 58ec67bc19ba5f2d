----------------------------- MODULE MCOutside -----------------------------
(* What stands between the server and others in one run: the page of a     *)
(* share link, the tokens at Apple, the files of the store, and the hourly *)
(* run that consumes what Google Play has sold.                            *)
(* They share no state; a behaviour is one of one part.                    *)
EXTENDS Naturals

CONSTANTS
  Faults,
  Logins, Withdrawals, MaxToken, None,
  Puts, MaxSize, Limit,
  Purchases, Batch, JobFaults

VARIABLES
  part,
  link, page, phase, src, fresh, loading, waiting, media, paused, muted, warm,
  asked, on, err, heard, why, faults,
  user, waits, stored, granted, live, login, leave, excused,
  driver, writer, expired, file, text, typed, put, removal, expect, sure, gone,
  job, pending, refused, todo, current, troubles

Lnk == INSTANCE LinkPage
Apl == INSTANCE AppleTokens
Sto == INSTANCE Storage
Job == INSTANCE HourlyJobs WITH Faults <- JobFaults

pageVars == <<link, page, phase, src, fresh, loading, waiting, media, paused,
              muted, warm, asked, on, err, heard, why, faults>>
appleVars == <<user, waits, stored, granted, live, login, leave, excused>>
storeVars == <<driver, writer, expired, file, text, typed, put, removal,
               expect, sure, gone>>
jobVars == <<job, pending, refused, todo, current, troubles>>
vars == <<part, pageVars, appleVars, storeVars, jobVars>>

ASSUME PartsAssumption ==
  /\ Lnk!FaultsAssumption /\ Apl!TokensAssumption
  /\ Sto!StorageAssumption /\ Job!JobsAssumption

Init == /\ part \in {"page", "apple", "storage", "jobs"}
        /\ Lnk!Init /\ Apl!Init /\ Sto!Init /\ Job!Init
        /\ part # "storage" => driver = "s3" /\ writer = "app"
        /\ part # "jobs" => refused = {}

Next ==
  /\ UNCHANGED part
  /\ \/ /\ part = "page" /\ Lnk!Next
        /\ UNCHANGED <<appleVars, storeVars, jobVars>>
     \/ /\ part = "apple" /\ Apl!Next
        /\ UNCHANGED <<pageVars, storeVars, jobVars>>
     \/ /\ part = "storage" /\ Sto!Next
        /\ UNCHANGED <<pageVars, appleVars, jobVars>>
     \/ /\ part = "jobs" /\ Job!Next
        /\ UNCHANGED <<pageVars, appleVars, storeVars>>

Spec == /\ Init /\ [][Next]_vars
        /\ part = "page" => Lnk!Fairness
        /\ part = "jobs" => Job!Fairness

(* Every variable of the four parts keeps its type; on the page, nothing   *)
(* waits but for a URL that is being fetched, and muted is the element     *)
(* only while the muted play is pending.                                   *)
TypeOK == Lnk!TypeOK /\ Apl!TypeOK /\ Sto!TypeOK /\ Job!TypeOK

(* The link page says what it does: nothing is heard before the parcel is  *)
(* open, and at rest the button and the error agree with the element.      *)
PageTellsTheTruth == Lnk!PageTellsTheTruth

(* What is due comes: whoever opens the page of a free link and keeps      *)
(* tapping hears the tape, or the link is closed before; and what Google   *)
(* Play has sold is consumed, unless Google refuses it, or refuses a whole *)
(* batch of others for good (retryPlayConsumes).                           *)
WhatIsDueComes ==
  /\ part = "page" => Lnk!TapesAreHeard
  /\ part = "jobs" => Job!PurchasesAreConsumed

(* When an Apple account has no user, Apple holds no token of it but those *)
(* named in AppleTokens (AuthService, UsersService.withdraw).              *)
TokensGoWithTheUser == Apl!TokensGoWithTheUser

(* At rest a key holds what the last answer of the store says, as far as   *)
(* that is known (LocalStorageService, S3StorageService).                  *)
ObjectsHold == Sto!ObjectsHold

=============================================================================
