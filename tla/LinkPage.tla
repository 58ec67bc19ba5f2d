----------------------------- MODULE LinkPage ------------------------------
(***************************************************************************)
(* The web page of a share link: the page or its error page, and the       *)
(* script that unwraps the parcel and plays the tape.  The script has one  *)
(* <audio> element, one request for its URL at a time, timers, and a       *)
(* muted play within the first tap that makes the later one permitted.     *)
(* The element behaves as the HTML standard says.                          *)
(***************************************************************************)
EXTENDS Naturals

CONSTANT Faults   \* failures of the network or the browser (bound)

FaultsAssumption == Faults \in Nat

VARIABLES
  link,      \* free, or closed: claimed, expired or without its file
  page,      \* what the browser shows: nothing, the tape or the error page
  phase,     \* phase of the script; insert is play before the second timer
  src, fresh,        \* there is a URL; it has more than 30 s to live
  loading, waiting,  \* the URL is being fetched; calls of play() wait for it
  media,     \* state of the element's file
  paused, muted,     \* attributes of the element
  warm,      \* the promise of the muted play is pending
  asked,     \* promises of play() are pending
  on, err,   \* the button shows "playing"; an error is shown
  heard,     \* history: the tape could be heard
  why,       \* history: why the tape is silent without an error
  faults

urls == <<src, fresh, loading, waiting>>
element == <<media, paused, muted, warm, asked>>
shown == <<on, err>>
vars == <<link, page, phase, urls, element, shown, heard, why, faults>>

Playing == ~paused /\ media = "ready"
Opened == phase \in {"insert", "play"}
Reasons == {"none", "listener", "end", "permission", "warm-up"}

TypeOK ==
  /\ link \in {"free", "closed"}
  /\ page \in {"none", "tape", "error"}
  /\ phase \in {"parcel", "tearing", "insert", "play"}
  /\ {src, fresh, loading, paused, muted, warm, asked, on, err, heard}
       \subseteq BOOLEAN
  /\ waiting \in BOOLEAN /\ (waiting => loading) /\ (fresh => src)
  /\ media \in {"empty", "loading", "ready", "broken"}
  /\ why \in Reasons /\ faults \in 0 .. Faults
  /\ asked => ~paused /\ media = "loading"
  /\ muted => warm

Init ==
  /\ link = "free" /\ page = "none" /\ phase = "parcel"
  /\ src = FALSE /\ fresh = FALSE /\ loading = FALSE /\ waiting = FALSE
  /\ media = "empty" /\ paused = TRUE /\ muted = FALSE
  /\ warm = FALSE /\ asked = FALSE
  /\ on = FALSE /\ err = FALSE
  /\ heard = FALSE /\ why = "none" /\ faults = 0

-----------------------------------------------------------------------------
\* The link is claimed in an app, expires, or its file is purged.
Close ==
  /\ link = "free" /\ link' = "closed"
  /\ UNCHANGED <<page, phase, urls, element, shown, heard, why, faults>>

(* webPreview finds the tape, or refuses. *)
Preview == IF link = "free" THEN "tape" ELSE "error"

(* GET /t/{token}: the page, whose script asks for the URL at once, or the *)
(* error page.                                                             *)
Page ==
  /\ page = "none"
  /\ page' = Preview
  /\ loading' = (page' = "tape")
  /\ UNCHANGED <<link, phase, src, fresh, waiting, element, shown, heard, why,
                 faults>>

MayFault == faults < Faults /\ faults' = faults + 1
NoFault == UNCHANGED faults

(* What the catch of a play() that waited for the URL shows. *)
FetchRejected ==
  /\ loading' = FALSE /\ waiting' = FALSE
  /\ IF waiting THEN on' = FALSE /\ err' = TRUE ELSE UNCHANGED shown
  /\ UNCHANGED <<link, page, phase, src, fresh, element, heard, why>>

\* The link is closed: LINK_TAKEN, LINK_EXPIRED or AUDIO_NOT_READY.
Refused == loading /\ link = "closed" /\ NoFault /\ FetchRejected
FetchFails == loading /\ MayFault /\ FetchRejected

(* The answer of webAudio.  audio.src = url loads the file anew: pending   *)
(* promises are rejected with AbortError, which play() shows and the muted *)
(* play does not; then every call that waited plays, if it is permitted.   *)
Fetched ==
  /\ loading /\ link = "free"
  /\ loading' = FALSE /\ waiting' = FALSE
  /\ src' = TRUE /\ fresh' = TRUE
  /\ media' = "loading" /\ warm' = FALSE /\ muted' = FALSE
  /\ err' = (err \/ asked)
  /\ \/ /\ asked' = waiting /\ paused' = ~waiting /\ NoFault
        /\ on' = (on /\ ~asked) /\ UNCHANGED why
     \/ /\ waiting /\ asked' = FALSE /\ paused' = TRUE /\ MayFault
        /\ on' = FALSE /\ why' = "permission"
  /\ UNCHANGED <<link, page, phase, heard>>

\* Less than 30 s are left of the URL's time.
Ages ==
  /\ fresh /\ fresh' = FALSE
  /\ UNCHANGED <<link, page, phase, src, loading, waiting, element, shown,
                 heard, why, faults>>

-----------------------------------------------------------------------------
\* Mutant: a URL is used whatever its age.
UsableAnyAge == src

Usable == src /\ fresh

(* play(): without a usable URL it waits for one; otherwise the element     *)
(* plays, refuses for want of a user's gesture, or has a broken file.      *)
Play(gesture) ==
  /\ UNCHANGED <<src, fresh, media, muted, warm>>
  /\ \/ /\ ~Usable
        /\ loading' = TRUE /\ waiting' = TRUE
        /\ err' = FALSE /\ why' = "none"
        /\ UNCHANGED <<paused, asked, on, heard, faults>>
     \/ /\ Usable /\ UNCHANGED <<loading, waiting>>
        /\ \/ /\ media # "broken"
              /\ paused' = FALSE /\ asked' = (media = "loading")
              /\ on' = (on \/ media = "ready")
              /\ heard' = (heard \/ (media = "ready" /\ ~muted))
              /\ err' = FALSE /\ why' = "none" /\ NoFault
           \/ /\ media = "broken"
              /\ on' = FALSE /\ err' = TRUE /\ why' = "none"
              /\ UNCHANGED <<paused, asked, heard, faults>>
           \/ /\ ~gesture /\ paused /\ MayFault
              /\ on' = FALSE /\ err' = FALSE /\ why' = "permission"
              /\ UNCHANGED <<paused, asked, heard>>

(* A play() on a file at hand settles before the next timer or tap. *)
Settled == ~(warm /\ media = "ready")

(* The first tap, with a muted play when there is a URL, fresh or not. *)
FirstTap ==
  /\ page = "tape" /\ phase = "parcel" /\ phase' = "tearing"
  /\ IF src /\ media # "broken"
     THEN /\ paused' = FALSE /\ warm' = TRUE /\ muted' = TRUE
          /\ on' = (media = "ready")
     ELSE UNCHANGED <<paused, warm, muted, on>>
  /\ UNCHANGED <<link, page, urls, media, asked, err, heard, why, faults>>

(* The muted play has begun: the element is paused again.  When the file   *)
(* arrives only after the second timer, this stops the real play as well.  *)
WarmedUp ==
  /\ warm /\ media = "ready"
  /\ paused' = TRUE /\ warm' = FALSE /\ muted' = FALSE
  /\ on' = FALSE /\ why' = "warm-up"
  /\ UNCHANGED <<link, page, phase, urls, media, asked, err, heard, faults>>

\* 750 ms after the first tap.
Torn ==
  /\ phase = "tearing" /\ Settled /\ phase' = "insert"
  /\ UNCHANGED <<link, page, urls, element, shown, heard, why, faults>>

\* 700 ms later, whatever the listener did meanwhile.
AutoPlay ==
  /\ phase = "insert" /\ Settled /\ phase' = "play"
  /\ Play(FALSE)
  /\ UNCHANGED <<link, page>>

\* The button: pause() rejects what is pending, which play() shows.
Tap ==
  /\ Opened /\ Settled
  /\ \/ /\ paused
        /\ Play(TRUE)
     \/ /\ ~paused /\ paused' = TRUE
        /\ asked' = FALSE /\ warm' = FALSE /\ muted' = FALSE
        /\ on' = FALSE /\ err' = (err \/ asked) /\ why' = "listener"
        /\ UNCHANGED <<urls, media, heard, faults>>
  /\ UNCHANGED <<link, page, phase>>

-----------------------------------------------------------------------------
\* The file is at hand; an element that is not paused plays it.
Loaded ==
  /\ media = "loading" /\ media' = "ready"
  /\ asked' = FALSE
  /\ on' = (on \/ ~paused)
  /\ heard' = (heard \/ (~paused /\ ~muted))
  /\ UNCHANGED <<link, page, phase, urls, paused, muted, warm, err, why,
                 faults>>

(* The listener of error, which does nothing before the tape is opened. *)
OnError ==
  IF Opened
  THEN on' = FALSE /\ src' = FALSE /\ fresh' = FALSE /\ err' = TRUE
  ELSE /\ IF asked THEN on' = FALSE /\ err' = TRUE ELSE UNCHANGED shown
       /\ UNCHANGED <<src, fresh>>

(* The file cannot be loaded, as is always so with a URL whose time is     *)
(* over: what is pending is rejected, and the element is not paused.       *)
LoadFails ==
  /\ media = "loading" /\ media' = "broken"
  /\ IF fresh THEN MayFault ELSE NoFault
  /\ asked' = FALSE /\ warm' = FALSE /\ muted' = FALSE
  /\ OnError
  /\ UNCHANGED <<link, page, phase, loading, waiting, paused, heard, why>>

\* Mutant: an error while the tape plays is not shown.
CutOffUnseen ==
  /\ Playing /\ Opened /\ ~warm /\ MayFault
  /\ media' = "broken" /\ src' = FALSE /\ fresh' = FALSE
  /\ UNCHANGED <<link, page, phase, loading, waiting, paused, muted, warm,
                 asked, shown, heard, why>>

CutOff ==
  /\ Playing /\ Opened /\ ~warm /\ MayFault
  /\ media' = "broken" /\ OnError
  /\ UNCHANGED <<link, page, phase, loading, waiting, paused, muted, warm,
                 asked, heard, why>>

Ends ==
  /\ Playing /\ Opened /\ ~warm
  /\ paused' = TRUE /\ on' = FALSE /\ why' = "end"
  /\ UNCHANGED <<link, page, phase, urls, media, muted, warm, asked, err,
                 heard, faults>>

Next ==
  \/ Close \/ Page \/ Fetched \/ Refused \/ FetchFails \/ Ages
  \/ FirstTap \/ WarmedUp \/ Torn \/ AutoPlay \/ Tap
  \/ Loaded \/ LoadFails \/ CutOff \/ Ends

(* Requests end, timers fire, URLs age, the listener keeps tapping, and a  *)
(* file that is to be played again and again, with a fresh URL, is loaded  *)
(* at last.                                                                *)
Fairness ==
  /\ WF_vars(Page) /\ WF_vars(Fetched \/ Refused \/ FetchFails)
  /\ WF_vars(Ages) /\ WF_vars(FirstTap) /\ WF_vars(WarmedUp)
  /\ WF_vars(Torn) /\ WF_vars(AutoPlay) /\ WF_vars(Tap)
  /\ SF_vars(Loaded /\ fresh /\ ~paused)

Spec == Init /\ [][Next]_vars /\ Fairness

-----------------------------------------------------------------------------
AtRest == phase = "play" /\ ~loading /\ ~asked /\ ~warm

(* Nothing is heard before the parcel is open.  Once everything that was   *)
(* begun has ended, the button shows what the element does, unless there   *)
(* is an error; and a tape that is silent without an error was paused by   *)
(* the listener, is over, needs a gesture, or was stopped by a muted play  *)
(* that began too late (link-page.ts:538 means it to help).                *)
PageTellsTheTruth ==
  /\ (Playing /\ ~muted) \/ heard => Opened
  /\ AtRest =>
       /\ on => Playing
       /\ Playing => on \/ err
       /\ ~Playing => err \/ why # "none"

(* Whoever opens the page and keeps tapping hears the tape, after finitely *)
(* many failures, or the link is closed before.                            *)
TapesAreHeard == page = "tape" ~> heard \/ link = "closed"

=============================================================================
