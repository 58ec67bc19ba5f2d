------------------------------ MODULE Accounts ------------------------------
(***************************************************************************)
(* Accounts and what hangs on them: a social account logs in and is signed *)
(* up, refresh tokens are exchanged, devices registered for pushes, and a  *)
(* user who withdraws may not sign up again for a while.                   *)
(*                                                                         *)
(* A step is a statement whose result a later one relies on.  What the     *)
(* transaction of a sign-up or a withdrawal writes appears with its        *)
(* commit; the only lock that is held in between is on the record of a     *)
(* withdrawal that a sign-up deletes (Held).                               *)
(***************************************************************************)
EXTENDS Naturals

CONSTANTS
  Accounts,    \* social accounts: provider and sub
  Restricted,  \* those of Kakao and Apple; the others are for development
  Devices,     \* FCM tokens
  Sessions,    \* requests under way at a time
  MaxUser,     \* users there ever are (bound)
  MaxToken,    \* refresh tokens there ever are (bound)
  None

Ids == 1 .. MaxUser
Tokens == 1 .. MaxToken

ASSUME BoundsAssumption ==
  /\ Restricted \subseteq Accounts
  /\ MaxUser \in Nat /\ MaxToken \in Nat
  /\ None \notin Ids \cup Tokens \cup [user : Ids, expired : BOOLEAN]

VARIABLES
  users,       \* ids in table users
  born,        \* how many there have been
  identity,    \* table auth_identities, by its UNIQUE (provider, sub): user_id
  withdrawn,   \* table withdrawn_identities: withdrawn_at
  refresh,     \* table refresh_tokens: user_id, expires_at
  issued,      \* how many tokens there have been
  device,      \* table device_tokens: user_id
  dead,        \* FCM tokens of apps that have been removed
  sess,        \* requests under way
  exchanged,   \* history: how often a token has been exchanged
  cooling,     \* history: accounts whose user left less than 30 days ago
  overtaken    \* history: sign-ups during which a user of the account left

accountVars == <<users, born, identity, withdrawn>>
tokenVars == <<refresh, issued, exchanged>>
deviceVars == <<device, dead>>
historyVars == <<cooling, overtaken>>
vars == <<accountVars, tokenVars, deviceVars, historyVars, sess>>

PCs == {"idle", "sign-up", "clear", "register", "find-again", "issue",
        "withdraw", "register-device", "unregister-device", "push"}
Idle == [pc |-> "idle", account |-> None, user |-> None, held |-> FALSE,
         rows |-> {}]

(* A request: the account that logs in or the user, and what it has read.  *)
Session ==
  [pc : PCs, account : Accounts \cup {None}, user : Ids \cup {None},
   held : BOOLEAN, rows : SUBSET (Accounts \cup Devices)]

TypeOK ==
  /\ born \in 0 .. MaxUser
  /\ users \subseteq 1 .. born
  /\ identity \in [Accounts -> Ids \cup {None}]
  /\ withdrawn \in [Accounts -> {"none", "recent", "past"}]
  /\ issued \in 0 .. MaxToken
  /\ refresh \in [Tokens -> [user : Ids, expired : BOOLEAN] \cup {None}]
  /\ \A t \in Tokens : refresh[t] # None => t <= issued
  /\ device \in [Devices -> Ids \cup {None}]
  /\ dead \subseteq Devices
  /\ sess \in [Sessions -> Session]
  /\ \A p \in Sessions : sess[p].held => sess[p].pc = "register"
  /\ exchanged \in [Tokens -> Nat]
  /\ cooling \subseteq Accounts
  /\ overtaken \subseteq Sessions

Init ==
  /\ users = {} /\ born = 0
  /\ identity = [a \in Accounts |-> None]
  /\ withdrawn = [a \in Accounts |-> "none"]
  /\ refresh = [t \in Tokens |-> None] /\ issued = 0
  /\ device = [d \in Devices |-> None] /\ dead = {}
  /\ sess = [p \in Sessions |-> Idle]
  /\ exchanged = [t \in Tokens |-> 0]
  /\ cooling = {} /\ overtaken = {}

-----------------------------------------------------------------------------
(* Requests *)

At(p, pc) == sess[p].pc = pc

Begin(p, request) == At(p, "idle") /\ sess' = [sess EXCEPT ![p] = request]

End(p) ==
  /\ sess' = [sess EXCEPT ![p] = Idle]
  /\ overtaken' = overtaken \ {p}

Request(pc, u, rows) == [Idle EXCEPT !.pc = pc, !.user = u, !.rows = rows]

(* JwtAuthGuard: an access token of a user who exists still. *)
Authenticated(u) == u \in users

(* The record of a withdrawal that the transaction of a sign-up has        *)
(* deleted: others wait for its end.                                       *)
Held(a) == \E p \in Sessions : sess[p].held /\ sess[p].account = a

-----------------------------------------------------------------------------
(* AuthService.login *)

LoginFind(p, a) ==
  /\ Begin(p, [Idle EXCEPT !.pc = IF identity[a] = None THEN "sign-up"
                                                        ELSE "issue",
                           !.account = a, !.user = identity[a]])
  /\ UNCHANGED <<accountVars, tokenVars, deviceVars, historyVars>>

CanSignUp(a) == a \in Restricted => withdrawn[a] # "recent"

(* RejoinService.assertCanSignUp: a withdrawal less than 30 days ago ends  *)
(* the request (REJOIN_RESTRICTED); the record of an older one is deleted. *)
AssertCanSignUp(p) ==
  LET a == sess[p].account
  IN  /\ At(p, "sign-up")
      /\ CanSignUp(a)
      /\ sess' = [sess EXCEPT ![p].pc =
                    IF a \in Restricted /\ withdrawn[a] = "past"
                    THEN "clear" ELSE "register"]
      /\ UNCHANGED <<accountVars, tokenVars, deviceVars, historyVars>>

RejoinRestricted(p) ==
  /\ At(p, "sign-up")
  /\ ~CanSignUp(sess[p].account)
  /\ End(p)
  /\ UNCHANGED <<accountVars, tokenVars, deviceVars, cooling>>

(* The DELETE: by the hash alone. *)
ClearRecord(p) ==
  LET a == sess[p].account
  IN  /\ At(p, "clear")
      /\ ~Held(a)
      /\ sess' = [sess EXCEPT ![p].pc = "register",
                              ![p].held = withdrawn[a] # "none"]
      /\ UNCHANGED <<accountVars, tokenVars, deviceVars, historyVars>>

(* signUp: the user, the login account and, in Wallet, the gift.           *)
Register(p) ==
  LET a == sess[p].account
      u == born + 1
  IN  /\ At(p, "register")
      /\ born < MaxUser
      /\ identity[a] = None
      /\ born' = u /\ users' = users \cup {u}
      /\ identity' = [identity EXCEPT ![a] = u]
      /\ withdrawn' = [withdrawn EXCEPT ![a] = IF sess[p].held THEN "none"
                                                               ELSE @]
      /\ sess' = [sess EXCEPT ![p].pc = "issue", ![p].user = u,
                              ![p].held = FALSE]
      /\ overtaken' = overtaken \ {p}
      /\ UNCHANGED <<tokenVars, deviceVars, cooling>>

\* Mutant: the violation is caught inside the transaction, which goes on.
RegisterRefusedInside(p) ==
  /\ At(p, "register")
  /\ identity[sess[p].account] # None
  /\ sess' = [sess EXCEPT ![p].pc = "find-again"]
  /\ overtaken' = overtaken \ {p}
  /\ UNCHANGED <<accountVars, tokenVars, deviceVars, cooling>>

(* Another sign-up of the account was first: the UNIQUE refuses this one.  *)
RegisterRefused(p) ==
  /\ At(p, "register")
  /\ identity[sess[p].account] # None
  /\ sess' = [sess EXCEPT ![p].pc = "find-again", ![p].held = FALSE]
  /\ overtaken' = overtaken \ {p}
  /\ UNCHANGED <<accountVars, tokenVars, deviceVars, cooling>>

FindAgain(p) ==
  LET u == identity[sess[p].account]
  IN  /\ At(p, "find-again")
      /\ IF u = None THEN End(p)
         ELSE /\ sess' = [sess EXCEPT ![p].pc = "issue", ![p].user = u]
              /\ UNCHANGED overtaken
      /\ UNCHANGED <<accountVars, tokenVars, deviceVars, cooling>>

-----------------------------------------------------------------------------
(* Refresh tokens *)

(* The clean-up of issueTokens. *)
Cleaned(u, t) ==
  refresh[t] # None /\ refresh[t].user = u /\ refresh[t].expired

MayHaveToken(u) == u \in users

IssueTokens(p) ==
  LET u == sess[p].user
  IN  /\ At(p, "issue")
      /\ MayHaveToken(u)
      /\ issued < MaxToken
      /\ issued' = issued + 1
      /\ refresh' = [t \in Tokens |->
           IF t = issued + 1 THEN [user |-> u, expired |-> FALSE]
           ELSE IF Cleaned(u, t) THEN None ELSE refresh[t]]
      /\ End(p)
      /\ UNCHANGED <<accountVars, deviceVars, cooling, exchanged>>

(* The user has left meanwhile: the foreign key refuses the token.         *)
IssueRefused(p) ==
  /\ At(p, "issue")
  /\ ~MayHaveToken(sess[p].user)
  /\ End(p)
  /\ UNCHANGED <<accountVars, tokenVars, deviceVars, cooling>>

Exchange(p, t) ==
  /\ refresh[t] # None /\ ~refresh[t].expired
  /\ Begin(p, Request("issue", refresh[t].user, {}))
  /\ exchanged' = [exchanged EXCEPT ![t] = @ + 1]
  /\ UNCHANGED <<accountVars, deviceVars, historyVars, issued>>

\* Mutant: SELECT; the token is deleted when it is found expired.
RefreshRead(p, t) == Exchange(p, t) /\ UNCHANGED refresh

(* AuthService.refresh: DELETE ... RETURNING.  Any other token is refused. *)
Refresh(p, t) ==
  Exchange(p, t) /\ refresh' = [refresh EXCEPT ![t] = None]

Logout(t) ==
  /\ refresh[t] # None
  /\ refresh' = [refresh EXCEPT ![t] = None]
  /\ UNCHANGED <<accountVars, deviceVars, historyVars, sess, issued, exchanged>>

(* Sixty days pass. *)
ExpireToken(t) ==
  /\ refresh[t] # None /\ ~refresh[t].expired
  /\ refresh' = [refresh EXCEPT ![t].expired = TRUE]
  /\ UNCHANGED <<accountVars, deviceVars, historyVars, sess, issued, exchanged>>

-----------------------------------------------------------------------------
(* UsersService.withdraw *)

AccountsOf(u) == {a \in Accounts : identity[a] = u}

WithdrawRead(p, u) ==
  /\ Authenticated(u)
  /\ Begin(p, Request("withdraw", u, AccountsOf(u)))
  /\ UNCHANGED <<accountVars, tokenVars, deviceVars, historyVars>>

\* Mutant: a record that is there is left as it is (ON CONFLICT DO NOTHING).
RecordOnce(a) == IF withdrawn[a] = "none" THEN "recent" ELSE withdrawn[a]

(* RejoinService.recordWithdrawal: the upsert. *)
RecordWithdrawal(a) == "recent"

(* The record, DELETE FROM users and its cascades. *)
WithdrawCommit(p) ==
  LET u == sess[p].user
      left == sess[p].rows
  IN  /\ At(p, "withdraw")
      /\ u \in users
      /\ \A a \in left : ~Held(a)
      /\ users' = users \ {u}
      /\ identity' = [a \in Accounts |-> IF identity[a] = u THEN None
                                         ELSE identity[a]]
      /\ withdrawn' = [a \in Accounts |->
           IF a \in left \cap Restricted THEN RecordWithdrawal(a)
           ELSE withdrawn[a]]
      /\ refresh' = [t \in Tokens |->
           IF refresh[t] # None /\ refresh[t].user = u THEN None
           ELSE refresh[t]]
      /\ device' = [d \in Devices |-> IF device[d] = u THEN None ELSE device[d]]
      /\ cooling' = cooling \cup AccountsOf(u)
      /\ overtaken' = (overtaken \cup
           {q \in Sessions : /\ sess[q].pc \in {"sign-up", "clear", "register"}
                             /\ sess[q].account \in AccountsOf(u)}) \ {p}
      /\ sess' = [sess EXCEPT ![p] = Idle]
      /\ UNCHANGED <<born, issued, exchanged, dead>>

(* USER_NOT_FOUND, and nothing recorded: another withdrawal was first.     *)
WithdrawRefused(p) ==
  /\ At(p, "withdraw")
  /\ sess[p].user \notin users
  /\ End(p)
  /\ UNCHANGED <<accountVars, tokenVars, deviceVars, cooling>>

(* REJOIN_COOLDOWN_DAYS pass since the last withdrawal of the account.     *)
CoolDown(a) ==
  /\ a \in cooling
  /\ cooling' = cooling \ {a}
  /\ withdrawn' = [withdrawn EXCEPT ![a] = IF @ = "recent" THEN "past" ELSE @]
  /\ UNCHANGED <<users, born, identity, tokenVars, deviceVars, overtaken, sess>>

Expired(a) == withdrawn[a] = "past"

(* RejoinService.cleanupExpired, hourly. *)
CleanupExpired(a) ==
  /\ Expired(a) /\ ~Held(a)
  /\ withdrawn' = [withdrawn EXCEPT ![a] = "none"]
  /\ UNCHANGED <<users, born, identity, tokenVars, deviceVars, historyVars,
                 sess>>

-----------------------------------------------------------------------------
(* NotificationsService: a request for a device, and the pushes to a user  *)

DeviceRequest(p, u, d) ==
  /\ Authenticated(u)
  /\ \E pc \in {"register-device", "unregister-device"} :
       Begin(p, Request(pc, u, {d}))
  /\ UNCHANGED <<accountVars, tokenVars, deviceVars, historyVars>>

(* The upsert; the foreign key refuses a user who has left.                *)
RegisterDevice(p) ==
  LET u == sess[p].user
  IN  /\ At(p, "register-device")
      /\ device' = [d \in Devices |->
           IF d \in sess[p].rows /\ u \in users THEN u ELSE device[d]]
      /\ End(p)
      /\ UNCHANGED <<accountVars, tokenVars, dead, cooling>>

Unregisters(u, d) == device[d] = u

UnregisterDevice(p) ==
  /\ At(p, "unregister-device")
  /\ device' = [d \in Devices |->
       IF d \in sess[p].rows /\ Unregisters(sess[p].user, d) THEN None
       ELSE device[d]]
  /\ End(p)
  /\ UNCHANGED <<accountVars, tokenVars, dead, cooling>>

(* push reads the devices of a user, *)
PushRead(p, u) ==
  /\ u \in users
  /\ Begin(p, Request("push", u, {d \in Devices : device[d] = u}))
  /\ UNCHANGED <<accountVars, tokenVars, deviceVars, historyVars>>

(* FcmService.send: of a token whose app is gone FCM says that it is not   *)
(* valid, unless the call fails or pushes are disabled.                    *)
SaidInvalid(tokens) == SUBSET (tokens \cap dead)

(* and sends to each; tokens that FCM does not know any more are deleted.  *)
PushSend(p) ==
  /\ At(p, "push")
  /\ \E invalid \in SaidInvalid(sess[p].rows) :
       device' = [d \in Devices |-> IF d \in invalid THEN None ELSE device[d]]
  /\ End(p)
  /\ UNCHANGED <<accountVars, tokenVars, dead, cooling>>

RemoveApp(d) ==
  /\ d \notin dead
  /\ dead' = dead \cup {d}
  /\ UNCHANGED <<accountVars, tokenVars, device, historyVars, sess>>

(* The process dies or a statement fails: the transaction is rolled back.  *)
Crash(p) ==
  /\ ~At(p, "idle")
  /\ End(p)
  /\ UNCHANGED <<accountVars, tokenVars, deviceVars, cooling>>

-----------------------------------------------------------------------------

Next ==
  \/ \E p \in Sessions :
       \/ \E a \in Accounts : LoginFind(p, a)
       \/ \E t \in Tokens : Refresh(p, t)
       \/ \E u \in Ids : \/ WithdrawRead(p, u) \/ PushRead(p, u)
                         \/ \E d \in Devices : DeviceRequest(p, u, d)
       \/ AssertCanSignUp(p) \/ RejoinRestricted(p) \/ ClearRecord(p)
       \/ Register(p) \/ RegisterRefused(p) \/ FindAgain(p)
       \/ IssueTokens(p) \/ IssueRefused(p)
       \/ WithdrawCommit(p) \/ WithdrawRefused(p)
       \/ RegisterDevice(p) \/ UnregisterDevice(p) \/ PushSend(p)
       \/ Crash(p)
  \/ \E t \in Tokens : Logout(t) \/ ExpireToken(t)
  \/ \E a \in Accounts : CoolDown(a) \/ CleanupExpired(a)
  \/ \E d \in Devices : RemoveApp(d)

Spec == Init /\ [][Next]_vars

-----------------------------------------------------------------------------

(* First logins of one account at once make one user: every user has       *)
(* exactly one login account, so that nobody is signed up and lost         *)
(* (signUp in one transaction, and the UNIQUE that login falls back on).   *)
OneUserPerAccount ==
  \A u \in users : \E a \in Accounts : AccountsOf(u) = {a}

(* A refresh token is exchanged once, however many requests present it at  *)
(* once: "not to be used again" (refresh).                                 *)
ExchangedOnce == \A t \in Tokens : exchanged[t] <= 1

(* Nobody who has left has a token or a registered device, though a login, *)
(* a refresh or a registration that began before goes on after the         *)
(* withdrawal ("at once", docs/api.md).                                    *)
GoneHaveNothing ==
  /\ \A t \in Tokens : refresh[t] # None => refresh[t].user \in users
  /\ \A d \in Devices : device[d] # None => device[d] \in users

(* Overlapping logins, refreshes, registrations and withdrawals leave one  *)
(* user per account, one exchange per token, and nothing of who left.      *)
AccountsHold == OneUserPerAccount /\ ExchangedOnce /\ GoneHaveNothing

(* A device stays logged in whatever the user does on others: a token that *)
(* has not expired ends when it is exchanged or logged out, or its user    *)
(* leaves (issueTokens cleans up).                                         *)
TokenKept ==
  [][\A t \in Tokens :
       LET old == refresh[t]
       IN  old # None /\ ~old.expired /\ refresh'[t] = None =>
             \/ exchanged'[t] > exchanged[t]
             \/ Logout(t) \/ old.user \notin users']_vars

(* For 30 days after a withdrawal nobody signs up with the account, but    *)
(* for a sign-up that had begun before the user left (assertCanSignUp).    *)
RejoinWaits ==
  [][\A a \in Restricted \cap cooling :
       identity[a] = None /\ identity'[a] # None =>
         \E p \in overtaken : At(p, "register") /\ sess[p].account = a]_vars

(* A device is registered for whoever registered it last: a request of the *)
(* previous user to unregister it that arrives late takes nothing away     *)
(* (unregisterDevice, push).                                               *)
DeviceKept ==
  [][\A d \in Devices :
       device[d] # None /\ device'[d] = None =>
         \/ device[d] \notin users' \/ d \in dead
         \/ \E p \in Sessions : /\ At(p, "unregister-device")
                                /\ sess[p].user = device[d]]_vars

(* Nobody else's request, and no clean-up, logs a device out or silences   *)
(* it.                                                                     *)
DevicesStay == TokenKept /\ DeviceKept

(* Nothing of an account begins or ends too early: no sign-up within the   *)
(* cool-down but one that was under way, no session and no device's        *)
(* registration by somebody else's request or a clean-up.                  *)
NothingTooEarly == RejoinWaits /\ DevicesStay

=============================================================================
