---------------------------- MODULE AppleTokens ----------------------------
(***************************************************************************)
(* What an Apple account leaves at Apple.  A login may bring an            *)
(* authorization code, for which Apple grants a refresh token; it is kept  *)
(* in the identity's row once the login is done.  withdraw() reads the     *)
(* row, deletes the user in a transaction, and then revokes the token that *)
(* it read.                                                                *)
(***************************************************************************)
EXTENDS Naturals

CONSTANTS
  Logins,       \* concurrent logins
  Withdrawals,  \* concurrent withdrawals
  MaxToken,     \* tokens granted (bound)
  None

TokensAssumption == MaxToken \in Nat /\ None \notin Nat

VARIABLES
  user,      \* the account has a user
  waits,     \* it may not sign up again yet (RejoinService)
  stored,    \* auth_identities.provider_refresh_token
  granted,   \* number of tokens granted so far
  live,      \* tokens that Apple has not revoked
  login,     \* per login: its step, its token, and whether a withdrawal
             \* was under way meanwhile (history)
  leave,     \* per withdrawal: its step and the token it read
  excused    \* history: tokens replaced, lost in a failure, or late

vars == <<user, waits, stored, granted, live, login, leave, excused>>

Tokens == 1 .. MaxToken
NoLogin == [pc |-> "out", token |-> None, late |-> FALSE]
NoLeave == [pc |-> "out", token |-> None]

TypeOK ==
  /\ {user, waits} \subseteq BOOLEAN /\ ~(user /\ waits)
  /\ stored \in Tokens \cup {None} /\ (stored # None => user)
  /\ granted \in 0 .. MaxToken
  /\ live \subseteq 1 .. granted /\ excused \subseteq 1 .. granted
  /\ login \in [Logins -> [pc : {"out", "exchange", "store"},
                           token : Tokens \cup {None}, late : BOOLEAN]]
  /\ leave \in [Withdrawals -> [pc : {"out", "delete", "unlink"},
                                token : Tokens \cup {None}]]

Init ==
  /\ user = FALSE /\ waits = FALSE /\ stored = None
  /\ granted = 0 /\ live = {} /\ excused = {}
  /\ login = [l \in Logins |-> NoLogin]
  /\ leave = [w \in Withdrawals |-> NoLeave]

-----------------------------------------------------------------------------
Leaving == \E w \in Withdrawals : leave[w].pc # "out"
Excuse(t) == excused' = excused \cup ({t} \ {None})

(* login(): the account's user, or a new one; its answer follows Store.    *)
Login(l) ==
  /\ login[l].pc = "out" /\ (user \/ ~waits)
  /\ user' = TRUE
  /\ login' = [login EXCEPT ![l] = [NoLogin EXCEPT !.pc = "exchange",
                                                   !.late = Leaving]]
  /\ UNCHANGED <<waits, stored, granted, live, leave, excused>>

(* exchangeCode: it fails, there is no code or no key; or Apple grants a   *)
(* token, and the answer may be lost.                                      *)
NoExchange(l) ==
  /\ login[l].pc = "exchange"
  /\ login' = [login EXCEPT ![l] = NoLogin]
  /\ UNCHANGED <<user, waits, stored, granted, live, leave, excused>>

Grant(l) ==
  /\ login[l].pc = "exchange" /\ granted < MaxToken
  /\ granted' = granted + 1 /\ live' = live \cup {granted'}
  /\ \/ /\ login' = [login EXCEPT ![l].pc = "store", ![l].token = granted']
        /\ UNCHANGED excused
     \/ /\ login' = [login EXCEPT ![l] = NoLogin]
        /\ Excuse(granted')
  /\ UNCHANGED <<user, waits, stored, leave>>

\* Mutant: the row is saved whether it is there or not.
StoreSaved(l) ==
  /\ login[l].pc = "store"
  /\ stored' = login[l].token
  /\ Excuse(stored)
  /\ login' = [login EXCEPT ![l] = NoLogin]
  /\ UNCHANGED <<user, waits, granted, live, leave>>

(* The UPDATE of the identity's row, which may be gone, or may be about to *)
(* go without having been read again.                                      *)
Store(l) ==
  /\ login[l].pc = "store"
  /\ stored' = IF user THEN login[l].token ELSE stored
  /\ excused' = excused \cup ((IF user THEN {stored} ELSE {}) \ {None})
                  \cup (IF login[l].late THEN {login[l].token} ELSE {})
  /\ login' = [login EXCEPT ![l] = NoLogin]
  /\ UNCHANGED <<user, waits, granted, live, leave>>

LoginFails(l) ==
  /\ login[l].pc = "store"
  /\ Excuse(login[l].token)
  /\ login' = [login EXCEPT ![l] = NoLogin]
  /\ UNCHANGED <<user, waits, stored, granted, live, leave>>

-----------------------------------------------------------------------------
\* Mutant: the identities are read when they are gone.
ReadNothing(w) ==
  /\ leave[w].pc = "out" /\ user
  /\ leave' = [leave EXCEPT ![w] = [pc |-> "delete", token |-> None]]
  /\ login' = [l \in Logins |->
       [login[l] EXCEPT !.late = @ \/ login[l].pc # "out"]]
  /\ UNCHANGED <<user, waits, stored, granted, live, excused>>

Read(w) ==
  /\ leave[w].pc = "out" /\ user
  /\ leave' = [leave EXCEPT ![w] = [pc |-> "delete", token |-> stored]]
  /\ login' = [l \in Logins |->
       [login[l] EXCEPT !.late = @ \/ login[l].pc # "out"]]
  /\ UNCHANGED <<user, waits, stored, granted, live, excused>>

(* The transaction: who comes second gets 404 and unlinks nothing. *)
Delete(w) ==
  /\ leave[w].pc = "delete"
  /\ IF user
     THEN /\ user' = FALSE /\ waits' = TRUE /\ stored' = None
          /\ leave' = [leave EXCEPT ![w].pc = "unlink"]
     ELSE /\ leave' = [leave EXCEPT ![w] = NoLeave]
          /\ UNCHANGED <<user, waits, stored>>
  /\ UNCHANGED <<granted, live, login, excused>>

(* unlinkSocial *)
Unlink(w) ==
  /\ leave[w].pc = "unlink"
  /\ live' = live \ {leave[w].token}
  /\ leave' = [leave EXCEPT ![w] = NoLeave]
  /\ UNCHANGED <<user, waits, stored, granted, login, excused>>

\* revoke fails or has no key, or the process dies: nothing comes back to it.
LeaveFails(w) ==
  /\ leave[w].pc # "out"
  /\ IF leave[w].pc = "unlink" THEN Excuse(leave[w].token)
     ELSE UNCHANGED excused
  /\ leave' = [leave EXCEPT ![w] = NoLeave]
  /\ UNCHANGED <<user, waits, stored, granted, live, login>>

\* Days later: the requests of then are over.
WaitOver ==
  /\ waits /\ waits' = FALSE
  /\ ~Leaving /\ \A l \in Logins : login[l].pc = "out"
  /\ UNCHANGED <<user, stored, granted, live, login, leave, excused>>

Next ==
  \/ \E l \in Logins :
       Login(l) \/ NoExchange(l) \/ Grant(l) \/ Store(l) \/ LoginFails(l)
  \/ \E w \in Withdrawals : Read(w) \/ Delete(w) \/ Unlink(w) \/ LeaveFails(w)
  \/ WaitOver

Spec == Init /\ [][Next]_vars

-----------------------------------------------------------------------------
(* When nobody is at work and the account has no user, Apple holds no      *)
(* token of it but those that a later login replaced, that were lost with  *)
(* a call or a process, or whose login overlapped a withdrawal: the row is *)
(* read before the transaction (users.service.ts:111).                     *)
TokensGoWithTheUser ==
  /\ ~Leaving /\ ~user /\ (\A l \in Logins : login[l].pc = "out")
       => live \subseteq excused
  /\ user /\ ~Leaving /\ (\A l \in Logins : login[l].pc = "out")
       => live \subseteq excused \cup {stored}

=============================================================================
