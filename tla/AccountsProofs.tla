--------------------------- MODULE AccountsProofs ---------------------------
(***************************************************************************)
(* For every number of social accounts, requests, users, tokens and        *)
(* devices: overlapping logins, refreshes, registrations and withdrawals   *)
(* leave one user per account, exchange a token once, and leave nothing of *)
(* who has left.                                                           *)
(***************************************************************************)
EXTENDS Accounts, TLAPS

(* TypeOK in parts. *)
AccountTypes ==
  /\ born \in 0 .. MaxUser
  /\ users \subseteq 1 .. born
  /\ identity \in [Accounts -> Ids \cup {None}]
  /\ withdrawn \in [Accounts -> {"none", "recent", "past"}]
TokenTypes ==
  /\ issued \in 0 .. MaxToken
  /\ refresh \in [Tokens -> [user : Ids, expired : BOOLEAN] \cup {None}]
  /\ \A t \in Tokens : refresh[t] # None => t <= issued
  /\ exchanged \in [Tokens -> Nat]
DeviceTypes == device \in [Devices -> Ids \cup {None}] /\ dead \subseteq Devices
SessTypes ==
  /\ sess \in [Sessions -> Session]
  /\ \A p \in Sessions : sess[p].held => sess[p].pc = "register"
HistoryTypes == cooling \subseteq Accounts /\ overtaken \subseteq Sessions

(* What a request has, by the step it is at. *)
SigningUp == {"sign-up", "clear", "register", "find-again"}
OfUser == {"issue", "withdraw", "register-device", "unregister-device", "push"}
LocalsOK ==
  \A p \in Sessions :
    /\ sess[p].pc \in SigningUp => sess[p].account \in Accounts
    /\ sess[p].pc \in OfUser => sess[p].user \in 1 .. born

(* A withdrawal has read the accounts of its user, while there is the user. *)
AccountsRead ==
  \A p \in Sessions : sess[p].pc = "withdraw" /\ sess[p].user \in users =>
    sess[p].rows = AccountsOf(sess[p].user)

(* Login accounts and users, one to one. *)
OneToOne ==
  /\ \A a \in Accounts : identity[a] # None => identity[a] \in users
  /\ \A a, b \in Accounts :
       identity[a] # None /\ identity[a] = identity[b] => a = b
  /\ \A u \in users : \E a \in Accounts : identity[a] = u

(* A token that has been exchanged is gone, and does not come back. *)
Exchanged ==
  \A t \in Tokens : exchanged[t] > 0 =>
    exchanged[t] = 1 /\ refresh[t] = None /\ t <= issued

(* A withdrawal is on record for 30 days, or a sign-up that it overtook    *)
(* has been done.                                                          *)
OnRecord ==
  \A a \in Restricted \cap cooling :
    identity[a] = None => withdrawn[a] = "recent"

(* A sign-up past assertCanSignUp within those 30 days was overtaken.      *)
Overtaken ==
  \A p \in Sessions :
    /\ sess[p].pc \in {"clear", "register"}
    /\ sess[p].account \in Restricted \cap cooling
    /\ identity[sess[p].account] = None
    => p \in overtaken

IInv ==
  /\ TypeOK /\ LocalsOK /\ AccountsRead /\ OneToOne /\ Exchanged
  /\ GoneHaveNothing /\ OnRecord /\ Overtaken

LEMMA TypeParts ==
  TypeOK <=> AccountTypes /\ TokenTypes /\ DeviceTypes /\ SessTypes
               /\ HistoryTypes
  BY DEF TypeOK, AccountTypes, TokenTypes, DeviceTypes, SessTypes, HistoryTypes

-----------------------------------------------------------------------------
(* Who writes which tables. *)

LEMMA AccountWriters ==
  ASSUME [Next]_vars
  PROVE  \/ UNCHANGED accountVars /\ cooling' = cooling
         \/ \E p \in Sessions : Register(p) \/ WithdrawCommit(p)
         \/ \E a \in Accounts : CoolDown(a) \/ CleanupExpired(a)
  BY DEF Next, vars, historyVars, LoginFind, Refresh, Exchange, WithdrawRead,
         PushRead, DeviceRequest, AssertCanSignUp, RejoinRestricted,
         ClearRecord, RegisterRefused, FindAgain, IssueTokens, IssueRefused,
         WithdrawRefused, RegisterDevice, UnregisterDevice, PushSend, Crash,
         Logout, ExpireToken, RemoveApp

LEMMA TokenWriters ==
  ASSUME [Next]_vars
  PROVE  \/ UNCHANGED tokenVars
         \/ \E p \in Sessions : \/ IssueTokens(p) \/ WithdrawCommit(p)
                                \/ \E t \in Tokens : Refresh(p, t)
         \/ \E t \in Tokens : Logout(t) \/ ExpireToken(t)
  BY DEF Next, vars, LoginFind, WithdrawRead, PushRead, DeviceRequest,
         AssertCanSignUp, RejoinRestricted, ClearRecord, Register,
         RegisterRefused, FindAgain, IssueRefused, WithdrawRefused,
         RegisterDevice, UnregisterDevice, PushSend, Crash, CoolDown,
         CleanupExpired, RemoveApp

LEMMA DeviceWriters ==
  ASSUME [Next]_vars
  PROVE  \/ UNCHANGED device /\ UNCHANGED dead
         \/ \E p \in Sessions : \/ RegisterDevice(p) \/ UnregisterDevice(p)
                                \/ PushSend(p) \/ WithdrawCommit(p)
         \/ \E d \in Devices : RemoveApp(d)
  BY DEF Next, vars, deviceVars, LoginFind, Refresh, Exchange, WithdrawRead,
         PushRead, DeviceRequest, AssertCanSignUp, RejoinRestricted,
         ClearRecord, Register, RegisterRefused, FindAgain, IssueTokens,
         IssueRefused, WithdrawRefused, Crash, Logout, ExpireToken, CoolDown,
         CleanupExpired

LEMMA UsersAreIds == BoundsAssumption /\ AccountTypes => users \subseteq Ids
  BY DEF BoundsAssumption, AccountTypes, Ids

LEMMA AccountStep ==
  ASSUME BoundsAssumption, IInv, [Next]_vars
  PROVE  AccountTypes'
  <1> USE DEF AccountTypes, Ids
  <1>0. AccountTypes /\ SessTypes /\ HistoryTypes /\ MaxUser \in Nat
    BY TypeParts DEF IInv, BoundsAssumption
  <1>1. CASE UNCHANGED accountVars
    BY <1>0, <1>1 DEF accountVars
  <1>2. ASSUME NEW p \in Sessions, Register(p) PROVE AccountTypes'
    <2>1. born' = born + 1 /\ born + 1 \in Ids /\ users' = users \cup {born + 1}
      BY <1>0, <1>2 DEF Register
    <2>2. identity' \in [Accounts -> Ids \cup {None}]
      BY <1>0, <1>2, <2>1 DEF Register
    <2>3. withdrawn' \in [Accounts -> {"none", "recent", "past"}]
      BY <1>0, <1>2 DEF Register
    <2> QED BY <1>0, <2>1, <2>2, <2>3
  <1>3. ASSUME NEW p \in Sessions, WithdrawCommit(p) PROVE AccountTypes'
    BY <1>0, <1>3 DEF WithdrawCommit, RecordWithdrawal
  <1>4. ASSUME NEW a \in Accounts, CoolDown(a) PROVE AccountTypes'
    BY <1>0, <1>4 DEF CoolDown
  <1>5. ASSUME NEW a \in Accounts, CleanupExpired(a) PROVE AccountTypes'
    BY <1>0, <1>5 DEF CleanupExpired
  <1> QED BY <1>1, <1>2, <1>3, <1>4, <1>5, AccountWriters

LEMMA TokenStep ==
  ASSUME BoundsAssumption, IInv, [Next]_vars
  PROVE  TokenTypes' /\ Exchanged'
  <1> USE DEF TokenTypes, Exchanged
  <1>0. /\ TokenTypes /\ Exchanged /\ SessTypes /\ AccountTypes
        /\ MaxUser \in Nat /\ MaxToken \in Nat
        /\ None \notin [user : Ids, expired : BOOLEAN]
    BY TypeParts DEF IInv, BoundsAssumption
  <1>1. CASE UNCHANGED tokenVars
    BY <1>0, <1>1 DEF tokenVars
  <1>2. ASSUME NEW p \in Sessions, IssueTokens(p)
        PROVE  TokenTypes' /\ Exchanged'
    <2>1. /\ sess[p].user \in Ids /\ issued' = issued + 1
          /\ issued' \in 0 .. MaxToken
      BY <1>0, <1>2, UsersAreIds DEF IssueTokens, MayHaveToken
    <2>2. ASSUME NEW t \in Tokens
          PROVE  /\ refresh'[t] \in [user : Ids, expired : BOOLEAN] \cup {None}
                 /\ refresh'[t] # None => t <= issued'
                 /\ t <= issued => refresh'[t] \in {refresh[t], None}
      BY <1>0, <1>2, <2>1 DEF IssueTokens, Tokens
    <2>3. refresh' \in [Tokens -> [user : Ids, expired : BOOLEAN] \cup {None}]
      BY <1>2, <2>2 DEF IssueTokens
    <2>4. exchanged' = exchanged
      BY <1>2 DEF IssueTokens
    <2> QED BY <1>0, <2>1, <2>2, <2>3, <2>4 DEF Tokens
  <1>3. ASSUME NEW p \in Sessions, WithdrawCommit(p)
        PROVE  TokenTypes' /\ Exchanged'
    BY <1>0, <1>3 DEF WithdrawCommit
  <1>4. ASSUME NEW p \in Sessions, NEW t \in Tokens, Refresh(p, t)
        PROVE  TokenTypes' /\ Exchanged'
    BY <1>0, <1>4 DEF Refresh, Exchange
  <1>5. ASSUME NEW t \in Tokens, Logout(t) PROVE TokenTypes' /\ Exchanged'
    BY <1>0, <1>5 DEF Logout
  <1>6. ASSUME NEW t \in Tokens, ExpireToken(t) PROVE TokenTypes' /\ Exchanged'
    BY <1>0, <1>6 DEF ExpireToken
  <1> QED BY <1>1, <1>2, <1>3, <1>4, <1>5, <1>6, TokenWriters

LEMMA DeviceStep ==
  ASSUME BoundsAssumption, IInv, [Next]_vars
  PROVE  DeviceTypes'
  <1> USE DEF DeviceTypes
  <1>0. DeviceTypes /\ SessTypes /\ AccountTypes /\ MaxUser \in Nat
    BY TypeParts DEF IInv, BoundsAssumption
  <1>1. CASE UNCHANGED device /\ UNCHANGED dead
    BY <1>0, <1>1
  <1>2. ASSUME NEW p \in Sessions, RegisterDevice(p) PROVE DeviceTypes'
    BY <1>0, <1>2, UsersAreIds DEF RegisterDevice
  <1>3. ASSUME NEW p \in Sessions, UnregisterDevice(p) PROVE DeviceTypes'
    BY <1>0, <1>3 DEF UnregisterDevice
  <1>4. ASSUME NEW p \in Sessions, PushSend(p) PROVE DeviceTypes'
    BY <1>0, <1>4 DEF PushSend
  <1>5. ASSUME NEW p \in Sessions, WithdrawCommit(p) PROVE DeviceTypes'
    BY <1>0, <1>5 DEF WithdrawCommit
  <1>6. ASSUME NEW d \in Devices, RemoveApp(d) PROVE DeviceTypes'
    BY <1>0, <1>6 DEF RemoveApp
  <1> QED BY <1>1, <1>2, <1>3, <1>4, <1>5, <1>6, DeviceWriters

(* A request is begun, goes on or ends; the others stay as they are. *)
LEMMA SessStep ==
  ASSUME BoundsAssumption, IInv, [Next]_vars
  PROVE  SessTypes' /\ LocalsOK'
  <1> DEFINE Kept == SessTypes' /\ LocalsOK'
             Typed == /\ SessTypes /\ LocalsOK /\ AccountTypes
                      /\ users \subseteq Ids
  <1> USE DEF SessTypes, LocalsOK, SigningUp, OfUser, Session, PCs, Idle, At,
              Begin, End, Request
  <1>0. Typed
    BY TypeParts, UsersAreIds DEF IInv
  <1>1. ASSUME NEW p \in Sessions, NEW a \in Accounts, LoginFind(p, a)
        PROVE  Kept
    <2>1. identity[a] \in Ids \cup {None} /\ born' = born
      BY <1>0, <1>1 DEF AccountTypes, LoginFind, accountVars
    <2>2. identity[a] # None => identity[a] \in 1 .. born
      BY <1>0 DEF IInv, OneToOne, AccountTypes
    <2> QED BY <1>0, <1>1, <2>1, <2>2 DEF LoginFind
  <1>2. ASSUME NEW p \in Sessions, NEW t \in Tokens, Refresh(p, t)
        PROVE  Kept
    <2>1. refresh[t].user \in users /\ born' = born
      BY <1>2 DEF IInv, GoneHaveNothing, Refresh, Exchange, accountVars
    <2> QED BY <1>0, <1>2, <2>1 DEF Refresh, Exchange, AccountTypes
  <1>3. ASSUME NEW p \in Sessions, NEW u \in Ids, WithdrawRead(p, u)
        PROVE  Kept
    BY <1>0, <1>3
    DEF WithdrawRead, Authenticated, AccountsOf, accountVars, AccountTypes
  <1>4. ASSUME NEW p \in Sessions, NEW u \in Ids, PushRead(p, u)
        PROVE  Kept
    BY <1>0, <1>4 DEF PushRead, accountVars, AccountTypes
  <1>5. ASSUME NEW p \in Sessions, NEW u \in Ids, NEW d \in Devices,
               DeviceRequest(p, u, d)
        PROVE  Kept
    <2>1. u \in 1 .. born /\ born' = born
      BY <1>0, <1>5 DEF DeviceRequest, Authenticated, accountVars, AccountTypes
    <2>2. \/ sess' = [sess EXCEPT ![p] = Request("register-device", u, {d})]
          \/ sess' = [sess EXCEPT ![p] = Request("unregister-device", u, {d})]
      BY <1>5 DEF DeviceRequest
    <2>3. CASE sess' = [sess EXCEPT ![p] = Request("register-device", u, {d})]
      BY <1>0, <2>1, <2>3
    <2>4. CASE sess' = [sess EXCEPT ![p] = Request("unregister-device", u, {d})]
      BY <1>0, <2>1, <2>4
    <2> QED BY <2>2, <2>3, <2>4
  <1>6. ASSUME NEW p \in Sessions,
               \/ AssertCanSignUp(p) \/ ClearRecord(p)
               \/ RegisterRefused(p)
        PROVE  Kept
    BY <1>0, <1>6 DEF AssertCanSignUp, ClearRecord, RegisterRefused, accountVars
  <1>7. ASSUME NEW p \in Sessions,
               \/ RejoinRestricted(p) \/ IssueRefused(p) \/ WithdrawRefused(p)
               \/ RegisterDevice(p) \/ UnregisterDevice(p) \/ PushSend(p)
               \/ Crash(p) \/ IssueTokens(p) \/ WithdrawCommit(p)
        PROVE  Kept
    <2>1. sess' = [sess EXCEPT ![p] = Idle] /\ born' = born
      BY <1>7
      DEF RejoinRestricted, IssueRefused, WithdrawRefused, RegisterDevice,
          UnregisterDevice, PushSend, Crash, IssueTokens, WithdrawCommit,
          accountVars
    <2> QED BY <1>0, <2>1
  <1>8. ASSUME NEW p \in Sessions, Register(p) PROVE Kept
    <2>1. born' = born + 1 /\ born + 1 \in Ids
      BY <1>0, <1>8 DEF Register, AccountTypes, BoundsAssumption, Ids
    <2>2. 1 .. born \subseteq 1 .. born' /\ born + 1 \in 1 .. born'
      BY <1>0, <2>1 DEF AccountTypes
    <2>3. sess' = [sess EXCEPT ![p].pc = "issue", ![p].user = born + 1,
                               ![p].held = FALSE]
      BY <1>8 DEF Register
    <2>4. SessTypes'
      <3>1. [sess[p] EXCEPT !.pc = "issue", !.user = born + 1, !.held = FALSE]
              \in Session
        BY <1>0, <2>1
      <3>2. sess' \in [Sessions -> Session]
        BY <1>0, <2>3, <3>1
      <3> QED BY <1>0, <2>3, <3>2
    <2>5. LocalsOK'
      BY <1>0, <2>2, <2>3
    <2> QED BY <2>4, <2>5
  <1>9. ASSUME NEW p \in Sessions, FindAgain(p) PROVE Kept
    <2>1. sess[p].account \in Accounts /\ born' = born
      BY <1>0, <1>9 DEF FindAgain, accountVars
    <2>2. identity[sess[p].account] # None =>
            identity[sess[p].account] \in 1 .. born
      BY <1>0, <2>1 DEF IInv, OneToOne, AccountTypes
    <2> DEFINE u == identity[sess[p].account]
    <2>3. CASE u = None
      <3>1. sess' = [sess EXCEPT ![p] = Idle]
        BY <1>9, <2>3 DEF FindAgain
      <3> QED BY <1>0, <2>1, <3>1
    <2>4. CASE u # None
      <3>1. sess' = [sess EXCEPT ![p].pc = "issue", ![p].user = u]
        BY <1>9, <2>4 DEF FindAgain
      <3>2. u \in 1 .. born /\ u \in Ids
        BY <1>0, <2>1, <2>2, <2>4 DEF AccountTypes
      <3>3. [sess[p] EXCEPT !.pc = "issue", !.user = u] \in Session
        BY <1>0, <3>2
      <3> HIDE DEF u
      <3>4. sess' \in [Sessions -> Session]
        BY <1>0, <3>1, <3>3
      <3>5. SessTypes'
        BY <1>0, <1>9, <3>1, <3>4 DEF FindAgain
      <3> QED BY <1>0, <2>1, <3>1, <3>2, <3>5
    <2> QED BY <2>3, <2>4
  <1>10. CASE UNCHANGED <<sess, born>>
    BY <1>0, <1>10
  <1>11. ASSUME NEW a \in Accounts, CoolDown(a) \/ CleanupExpired(a)
         PROVE  UNCHANGED <<sess, born>>
    BY <1>11 DEF CoolDown, CleanupExpired
  <1>12. ASSUME NEW t \in Tokens, Logout(t) \/ ExpireToken(t)
         PROVE  UNCHANGED <<sess, born>>
    BY <1>12 DEF Logout, ExpireToken, accountVars
  <1>13. ASSUME NEW d \in Devices, RemoveApp(d) PROVE UNCHANGED <<sess, born>>
    BY <1>13 DEF RemoveApp, accountVars
  <1>14. CASE UNCHANGED vars
    BY <1>10, <1>14 DEF vars, accountVars
  <1> QED BY <1>1, <1>2, <1>3, <1>4, <1>5, <1>6, <1>7, <1>8, <1>9, <1>10,
             <1>11, <1>12, <1>13, <1>14 DEF Next

(* Users come with their account and leave with it. *)
LEMMA OneToOneStep ==
  ASSUME BoundsAssumption, IInv, [Next]_vars
  PROVE  OneToOne'
  <1> USE DEF OneToOne
  <1>0. OneToOne /\ AccountTypes /\ LocalsOK /\ MaxUser \in Nat
        /\ None \notin Ids
    BY TypeParts DEF IInv, BoundsAssumption
  <1>1. CASE UNCHANGED accountVars
    BY <1>0, <1>1 DEF accountVars
  <1>2. ASSUME NEW p \in Sessions, Register(p) PROVE OneToOne'
    <2> DEFINE a == sess[p].account
    <2>1. a \in Accounts /\ identity[a] = None
      BY <1>0, <1>2 DEF Register, LocalsOK, SigningUp, At
    <2>2. /\ users' = users \cup {born + 1} /\ born + 1 \notin users
          /\ born + 1 \in Ids
          /\ identity' = [identity EXCEPT ![a] = born + 1]
      BY <1>0, <1>2 DEF Register, AccountTypes, Ids
    <2>3. identity'[a] = born + 1
          /\ \A b \in Accounts \ {a} : identity'[b] = identity[b]
      BY <1>0, <2>1, <2>2 DEF AccountTypes
    <2>4. \A u \in users' : \E b \in Accounts : identity'[b] = u
      <3>1. ASSUME NEW u \in users PROVE \E b \in Accounts : identity'[b] = u
        <4>1. PICK b \in Accounts : identity[b] = u
          BY <1>0
        <4>2. b # a
          BY <1>0, <2>1, <4>1, UsersAreIds
        <4> QED BY <2>3, <4>1, <4>2
      <3> QED BY <2>1, <2>2, <2>3, <3>1
    <2>5. \A b \in Accounts : identity'[b] # None => identity'[b] \in users'
      BY <1>0, <2>2, <2>3
    <2>6. \A b, c \in Accounts :
            identity'[b] # None /\ identity'[b] = identity'[c] => b = c
      BY <1>0, <2>2, <2>3
    <2> QED BY <2>4, <2>5, <2>6
  <1>3. ASSUME NEW p \in Sessions, WithdrawCommit(p) PROVE OneToOne'
    BY <1>0, <1>3 DEF WithdrawCommit, AccountTypes
  <1>4. ASSUME NEW a \in Accounts, CoolDown(a) \/ CleanupExpired(a)
        PROVE  OneToOne'
    BY <1>0, <1>4 DEF CoolDown, CleanupExpired
  <1> QED BY <1>1, <1>2, <1>3, <1>4, AccountWriters

(* Only a sign-up or a withdrawal changes who exists. *)
LEMMA UsersStay ==
  ASSUME BoundsAssumption, IInv, [Next]_vars
  PROVE  \/ users' = users /\ identity' = identity
         \/ \E p \in Sessions : Register(p) \/ WithdrawCommit(p)
  BY AccountWriters DEF CoolDown, CleanupExpired, accountVars

LEMMA GoneStep ==
  ASSUME BoundsAssumption, IInv, [Next]_vars
  PROVE  GoneHaveNothing'
  <1> USE DEF GoneHaveNothing
  <1>0. /\ GoneHaveNothing /\ TokenTypes /\ DeviceTypes /\ AccountTypes
        /\ None \notin Ids /\ users \subseteq Ids
    BY TypeParts, UsersAreIds DEF IInv, BoundsAssumption
  <1>1. CASE \E p \in Sessions : WithdrawCommit(p)
    BY <1>0, <1>1 DEF WithdrawCommit, TokenTypes, DeviceTypes
  <1>2. CASE users \subseteq users'
    <2>1. \A t \in Tokens : refresh'[t] # None => refresh'[t].user \in users'
      <3>1. CASE UNCHANGED tokenVars
        BY <1>0, <1>2, <3>1 DEF tokenVars
      <3>2. ASSUME NEW p \in Sessions, IssueTokens(p)
            PROVE  \A t \in Tokens :
                     refresh'[t] # None => refresh'[t].user \in users'
        BY <1>0, <1>2, <3>2 DEF IssueTokens, MayHaveToken, TokenTypes
      <3>3. ASSUME NEW p \in Sessions, NEW s \in Tokens, Refresh(p, s)
            PROVE  \A t \in Tokens :
                     refresh'[t] # None => refresh'[t].user \in users'
        BY <1>0, <1>2, <3>3 DEF Refresh, TokenTypes
      <3>4. ASSUME NEW s \in Tokens, Logout(s)
            PROVE  \A t \in Tokens :
                     refresh'[t] # None => refresh'[t].user \in users'
        BY <1>0, <1>2, <3>4 DEF Logout, TokenTypes
      <3>5. ASSUME NEW s \in Tokens, ExpireToken(s)
            PROVE  \A t \in Tokens :
                     refresh'[t] # None => refresh'[t].user \in users'
        BY <1>0, <1>2, <3>5 DEF ExpireToken, TokenTypes
      <3> QED BY <1>1, <3>1, <3>2, <3>3, <3>4, <3>5, TokenWriters DEF tokenVars
    <2>2. \A d \in Devices : device'[d] # None => device'[d] \in users'
      <3>1. ASSUME NEW p \in Sessions,
                   RegisterDevice(p) \/ UnregisterDevice(p) \/ PushSend(p)
            PROVE  \A d \in Devices : device'[d] # None => device'[d] \in users'
        BY <1>0, <1>2, <3>1
        DEF RegisterDevice, UnregisterDevice, PushSend, DeviceTypes
      <3>2. CASE device' = device
        BY <1>0, <1>2, <3>2
      <3> QED BY <1>1, <3>1, <3>2, DeviceWriters DEF RemoveApp
    <2> QED BY <2>1, <2>2
  <1> QED BY <1>1, <1>2, UsersStay DEF Register

(* What a withdrawal has read stays true while its user is there. *)
LEMMA ReadStep ==
  ASSUME BoundsAssumption, IInv, [Next]_vars
  PROVE  AccountsRead'
  <1> SUFFICES ASSUME NEW q \in Sessions, sess'[q].pc = "withdraw",
                      sess'[q].user \in users'
               PROVE  sess'[q].rows = {a \in Accounts :
                                         identity'[a] = sess'[q].user}
    BY DEF AccountsRead, AccountsOf
  <1>0. /\ AccountsRead /\ OneToOne /\ LocalsOK /\ AccountTypes /\ SessTypes
        /\ users \subseteq 1 .. born /\ born \in Nat
    BY TypeParts DEF IInv, AccountTypes
  <1>1. CASE sess'[q] = sess[q]
    <2>1. sess[q].user \in 1 .. born /\ sess[q].user # born + 1
      BY <1>0, <1>1 DEF LocalsOK, OfUser
    <2>2. CASE users' = users /\ identity' = identity
      BY <1>0, <1>1, <2>2 DEF AccountsRead, AccountsOf
    <2>3. ASSUME NEW p \in Sessions, Register(p)
          PROVE  sess'[q].rows = {a \in Accounts :
                                    identity'[a] = sess'[q].user}
      <3>1. /\ sess[q].user \in users
            /\ \A a \in Accounts : identity'[a] = sess[q].user <=>
                                    identity[a] = sess[q].user
        <4> DEFINE u == sess[q].user
        <4>1. u \in users
          BY <1>1, <2>1, <2>3 DEF Register
        <4>2. PICK b \in Accounts : identity' = [identity EXCEPT ![b] = born + 1]
                                   /\ identity[b] = None
          BY <1>0, <2>3 DEF Register, LocalsOK, SigningUp, At
        <4>3. u # None
          BY <1>0, <4>1, UsersAreIds DEF BoundsAssumption
        <4>4. \A a \in Accounts : identity'[a] = u <=> identity[a] = u
          BY <1>0, <2>1, <4>2, <4>3 DEF AccountTypes
        <4> QED BY <4>1, <4>4
      <3> QED BY <1>0, <1>1, <3>1 DEF AccountsRead, AccountsOf
    <2>4. ASSUME NEW p \in Sessions, WithdrawCommit(p)
          PROVE  sess'[q].rows = {a \in Accounts :
                                    identity'[a] = sess'[q].user}
      <3>1. /\ sess[q].user \in users
            /\ \A a \in Accounts : identity'[a] = sess[q].user <=>
                                    identity[a] = sess[q].user
        <4>1. sess[q].user \in users /\ sess[q].user # sess[p].user
          BY <1>0, <1>1, <2>4 DEF WithdrawCommit
        <4>2. sess[q].user # None
          BY <1>0, <4>1, UsersAreIds DEF BoundsAssumption
        <4> QED BY <1>0, <1>1, <2>4, <4>1, <4>2 DEF WithdrawCommit, AccountTypes
      <3> QED BY <1>0, <1>1, <3>1 DEF AccountsRead, AccountsOf
    <2> QED BY <2>2, <2>3, <2>4, UsersStay
  <1>2. ASSUME NEW u \in Ids, WithdrawRead(q, u)
        PROVE  sess'[q].rows = {a \in Accounts :
                                  identity'[a] = sess'[q].user}
    BY <1>0, <1>2
    DEF WithdrawRead, Begin, Request, Idle, AccountsOf, accountVars, SessTypes
  <1>3. sess'[q] = sess[q] \/ \E u \in Ids : WithdrawRead(q, u)
    <2> USE DEF Begin, End, Request, Idle, SessTypes
    <2>1. ASSUME NEW p \in Sessions,
                 \/ RejoinRestricted(p) \/ IssueRefused(p)
                 \/ WithdrawRefused(p) \/ RegisterDevice(p)
                 \/ UnregisterDevice(p) \/ PushSend(p) \/ Crash(p)
                 \/ IssueTokens(p) \/ WithdrawCommit(p)
          PROVE  sess'[q] = sess[q]
      BY <1>0, <2>1
      DEF RejoinRestricted, IssueRefused, WithdrawRefused, RegisterDevice,
          UnregisterDevice, PushSend, Crash, IssueTokens, WithdrawCommit
    <2>2. ASSUME NEW p \in Sessions,
                 \/ AssertCanSignUp(p) \/ ClearRecord(p) \/ Register(p)
                 \/ RegisterRefused(p) \/ FindAgain(p)
          PROVE  sess'[q] = sess[q]
      <3>1. CASE p # q
        BY <1>0, <2>2, <3>1
        DEF AssertCanSignUp, ClearRecord, Register, RegisterRefused, FindAgain
      <3>2. sess'[p].pc # "withdraw"
        BY <1>0, <2>2
        DEF AssertCanSignUp, ClearRecord, Register, RegisterRefused, FindAgain,
            Session
      <3> QED BY <3>1, <3>2
    <2>3. ASSUME NEW p \in Sessions, NEW a \in Accounts, LoginFind(p, a)
          PROVE  sess'[q] = sess[q]
      BY <1>0, <2>3 DEF LoginFind
    <2>4. ASSUME NEW p \in Sessions, NEW t \in Tokens, Refresh(p, t)
          PROVE  sess'[q] = sess[q]
      BY <1>0, <2>4 DEF Refresh, Exchange
    <2>5. ASSUME NEW p \in Sessions, NEW u \in Ids, PushRead(p, u)
          PROVE  sess'[q] = sess[q]
      BY <1>0, <2>5 DEF PushRead
    <2>6. ASSUME NEW p \in Sessions, NEW u \in Ids, NEW d \in Devices,
                 DeviceRequest(p, u, d)
          PROVE  sess'[q] = sess[q]
      BY <1>0, <2>6 DEF DeviceRequest
    <2>7. ASSUME NEW p \in Sessions, NEW u \in Ids, WithdrawRead(p, u), p # q
          PROVE  sess'[q] = sess[q]
      BY <1>0, <2>7 DEF WithdrawRead
    <2>8. ASSUME \/ \E t \in Tokens : Logout(t) \/ ExpireToken(t)
                 \/ \E a \in Accounts : CoolDown(a) \/ CleanupExpired(a)
                 \/ \E d \in Devices : RemoveApp(d)
                 \/ UNCHANGED vars
          PROVE  sess'[q] = sess[q]
      BY <2>8 DEF Logout, ExpireToken, CoolDown, CleanupExpired, RemoveApp, vars
    <2> QED BY <2>1, <2>2, <2>3, <2>4, <2>5, <2>6, <2>7, <2>8 DEF Next
  <1> QED BY <1>1, <1>2, <1>3

-----------------------------------------------------------------------------
(* The 30 days *)

(* Before somebody leaves an account of a user, it is on record. *)
LEMMA RecordStep ==
  ASSUME BoundsAssumption, IInv, [Next]_vars
  PROVE  OnRecord'
  <1> USE DEF OnRecord
  <1>0. /\ OnRecord /\ AccountTypes /\ LocalsOK /\ HistoryTypes
        /\ None \notin Ids /\ Restricted \subseteq Accounts
    BY TypeParts DEF IInv, BoundsAssumption
  <1>1. CASE UNCHANGED accountVars /\ cooling' = cooling
    BY <1>0, <1>1 DEF accountVars
  <1>2. ASSUME NEW p \in Sessions, Register(p) PROVE OnRecord'
    <2> DEFINE a == sess[p].account
    <2>1. /\ a \in Accounts /\ identity' = [identity EXCEPT ![a] = born + 1]
          /\ born + 1 # None /\ cooling' = cooling
          /\ withdrawn' = [withdrawn EXCEPT ![a] = IF sess[p].held THEN "none"
                                                                  ELSE @]
      <3>1. born + 1 \in Ids
        BY <1>0, <1>2 DEF Register, AccountTypes, Ids
      <3> QED BY <1>0, <1>2, <3>1 DEF Register, LocalsOK, SigningUp, At
    <2> QED BY <1>0, <2>1 DEF AccountTypes
  <1>3. ASSUME NEW p \in Sessions, WithdrawCommit(p) PROVE OnRecord'
    <2> DEFINE u == sess[p].user
    <2>1. sess[p].rows = AccountsOf(u)
      BY <1>3 DEF WithdrawCommit, IInv, AccountsRead, At
    <2>2. ASSUME NEW a \in Restricted, a \in cooling', identity'[a] = None
          PROVE  withdrawn'[a] = "recent"
      <3>1. CASE identity[a] = u
        BY <1>0, <1>3, <2>1, <3>1
        DEF WithdrawCommit, RecordWithdrawal, AccountsOf, AccountTypes
      <3>2. CASE identity[a] # u
        BY <1>0, <1>3, <2>1, <2>2, <3>2
        DEF WithdrawCommit, RecordWithdrawal, AccountsOf, AccountTypes
      <3> QED BY <3>1, <3>2
    <2> QED BY <2>2
  <1>4. ASSUME NEW a \in Accounts, CoolDown(a) PROVE OnRecord'
    BY <1>0, <1>4 DEF CoolDown, AccountTypes
  <1>5. ASSUME NEW a \in Accounts, CleanupExpired(a) PROVE OnRecord'
    BY <1>0, <1>5 DEF CleanupExpired, Expired, historyVars, AccountTypes
  <1> QED BY <1>1, <1>2, <1>3, <1>4, <1>5, AccountWriters

LEMMA OvertakenStep ==
  ASSUME BoundsAssumption, IInv, [Next]_vars
  PROVE  Overtaken'
  <1> USE DEF Overtaken
  <1>0. /\ Overtaken /\ AccountTypes /\ LocalsOK /\ HistoryTypes /\ SessTypes
        /\ None \notin Ids /\ Restricted \subseteq Accounts /\ OnRecord
    BY TypeParts DEF IInv, BoundsAssumption
  <1> USE DEF Begin, End, Request, Idle, SessTypes, At
  <1>1. ASSUME NEW p \in Sessions,
               \/ RejoinRestricted(p) \/ IssueRefused(p) \/ WithdrawRefused(p)
               \/ RegisterDevice(p) \/ UnregisterDevice(p) \/ PushSend(p)
               \/ Crash(p) \/ IssueTokens(p)
        PROVE  Overtaken'
    BY <1>0, <1>1
    DEF RejoinRestricted, IssueRefused, WithdrawRefused, RegisterDevice,
        UnregisterDevice, PushSend, Crash, IssueTokens, accountVars
  <1>2. ASSUME NEW p \in Sessions, AssertCanSignUp(p) PROVE Overtaken'
    BY <1>0, <1>2
    DEF AssertCanSignUp, CanSignUp, OnRecord, accountVars, historyVars
  <1>3. ASSUME NEW p \in Sessions, ClearRecord(p) PROVE Overtaken'
    BY <1>0, <1>3 DEF ClearRecord, accountVars, historyVars
  <1>4. ASSUME NEW p \in Sessions, Register(p) PROVE Overtaken'
    <2> DEFINE a == sess[p].account
    <2>1. /\ a \in Accounts /\ identity' = [identity EXCEPT ![a] = born + 1]
          /\ identity[a] = None /\ overtaken' = overtaken \ {p}
          /\ cooling' = cooling
      BY <1>0, <1>4 DEF Register, LocalsOK, SigningUp
    <2>2. /\ sess'[p].pc = "issue"
          /\ \A q \in Sessions \ {p} : sess'[q] = sess[q]
      BY <1>0, <1>4 DEF Register, Session
    <2>3. born + 1 # None
      BY <1>0, <1>4 DEF Register, AccountTypes, Ids
    <2> QED BY <1>0, <2>1, <2>2, <2>3 DEF AccountTypes
  <1>5. ASSUME NEW p \in Sessions, RegisterRefused(p) PROVE Overtaken'
    BY <1>0, <1>5 DEF RegisterRefused, accountVars, Session
  <1>6. ASSUME NEW p \in Sessions, FindAgain(p) PROVE Overtaken'
    BY <1>0, <1>6 DEF FindAgain, accountVars, Session
  <1>7. ASSUME NEW p \in Sessions, WithdrawCommit(p) PROVE Overtaken'
    BY <1>0, <1>7
    DEF WithdrawCommit, AccountsOf, AccountTypes, LocalsOK, SigningUp
  <1>8. ASSUME NEW p \in Sessions,
               \/ \E a \in Accounts : LoginFind(p, a)
               \/ \E t \in Tokens : Refresh(p, t)
               \/ \E u \in Ids : \/ WithdrawRead(p, u) \/ PushRead(p, u)
                                 \/ \E d \in Devices : DeviceRequest(p, u, d)
        PROVE  Overtaken'
    <2>1. UNCHANGED accountVars /\ UNCHANGED historyVars
      BY <1>8
      DEF LoginFind, Refresh, Exchange, WithdrawRead, PushRead, DeviceRequest
    <2>2. /\ sess'[p].pc \notin {"clear", "register"}
          /\ \A q \in Sessions \ {p} : sess'[q] = sess[q]
      <3>1. ASSUME NEW a \in Accounts, LoginFind(p, a)
            PROVE  sess'[p].pc \in {"sign-up", "issue"}
        BY <1>0, <3>1 DEF LoginFind
      <3>2. CASE ~\E a \in Accounts : LoginFind(p, a)
        BY <1>0, <1>8, <3>2
        DEF Refresh, Exchange, WithdrawRead, PushRead, DeviceRequest
      <3>3. \A q \in Sessions \ {p} : sess'[q] = sess[q]
        BY <1>0, <1>8
        DEF LoginFind, Refresh, Exchange, WithdrawRead, PushRead, DeviceRequest
      <3> QED BY <3>1, <3>2, <3>3
    <2> QED BY <1>0, <2>1, <2>2 DEF accountVars, historyVars
  <1>9. ASSUME NEW a \in Accounts, CoolDown(a) \/ CleanupExpired(a)
        PROVE  Overtaken'
    BY <1>0, <1>9 DEF CoolDown, CleanupExpired, historyVars
  <1>10. CASE \/ \E t \in Tokens : Logout(t) \/ ExpireToken(t)
              \/ \E d \in Devices : RemoveApp(d)
              \/ UNCHANGED vars
    <2>1. UNCHANGED <<sess, identity, cooling, overtaken>>
      BY <1>10 DEF Logout, ExpireToken, RemoveApp, accountVars, historyVars, vars
    <2> QED BY <1>0, <2>1
  <1> QED BY <1>1, <1>2, <1>3, <1>4, <1>5, <1>6, <1>7, <1>8, <1>9, <1>10
          DEF Next

LEMMA HistoryStep ==
  ASSUME BoundsAssumption, IInv, [Next]_vars
  PROVE  HistoryTypes'
  <1> USE DEF HistoryTypes
  <1>0. HistoryTypes
    BY TypeParts DEF IInv
  <1> QED
    BY <1>0
    DEF Next, vars, historyVars, deviceVars, accountVars, LoginFind, Refresh,
        Exchange, WithdrawRead, PushRead, DeviceRequest, AssertCanSignUp,
        RejoinRestricted, ClearRecord, Register, RegisterRefused, FindAgain,
        IssueTokens, IssueRefused, WithdrawCommit, WithdrawRefused,
        RegisterDevice, UnregisterDevice, PushSend, Crash, Logout,
        ExpireToken, CoolDown, CleanupExpired, RemoveApp, End, AccountsOf

-----------------------------------------------------------------------------

LEMMA InitOK == BoundsAssumption /\ Init => IInv
  <1> SUFFICES ASSUME BoundsAssumption, Init PROVE IInv
    OBVIOUS
  <1>1. AccountTypes /\ TokenTypes /\ DeviceTypes /\ HistoryTypes
    BY DEF BoundsAssumption, Init, AccountTypes, TokenTypes, DeviceTypes,
           HistoryTypes
  <1>2. SessTypes /\ LocalsOK /\ AccountsRead /\ Overtaken
    BY DEF Init, SessTypes, Idle, Session, PCs, LocalsOK, SigningUp, OfUser,
           AccountsRead, Overtaken
  <1>3. OneToOne /\ Exchanged /\ GoneHaveNothing /\ OnRecord
    BY DEF Init, OneToOne, Exchanged, GoneHaveNothing, OnRecord
  <1> QED BY <1>1, <1>2, <1>3, TypeParts DEF IInv

LEMMA Inductive == Spec => []IInv
  <1>1. IInv /\ [Next]_vars => IInv'
    <2> SUFFICES ASSUME IInv, [Next]_vars PROVE IInv'
      OBVIOUS
    <2>1. /\ AccountTypes' /\ TokenTypes' /\ DeviceTypes' /\ SessTypes'
          /\ HistoryTypes'
      BY BoundsAssumption, AccountStep, TokenStep, DeviceStep, SessStep,
         HistoryStep
    <2>2. TypeOK'
      BY <2>1 DEF TypeOK, AccountTypes, TokenTypes, DeviceTypes, SessTypes,
                  HistoryTypes
    <2> QED BY <2>2, BoundsAssumption, SessStep, ReadStep, OneToOneStep,
               TokenStep, GoneStep, RecordStep, OvertakenStep
            DEF IInv
  <1> QED BY <1>1, BoundsAssumption, InitOK, PTL DEF Spec

(* The variables keep their types; what is held is held by a sign-up.      *)
THEOREM Typing == Spec => []TypeOK
  <1>1. IInv => TypeOK
    BY DEF IInv
  <1> QED BY <1>1, Inductive, PTL

(* Whatever logins, refreshes, registrations of devices and withdrawals    *)
(* overlap: a user has exactly one login account, a token is exchanged     *)
(* once, and who has left has neither token nor device.                    *)
THEOREM AccountsAreKept == Spec => []AccountsHold
  <1>1. IInv => OneUserPerAccount
    <2> SUFFICES ASSUME IInv, NEW u \in users
                 PROVE  \E a \in Accounts : AccountsOf(u) = {a}
      BY DEF OneUserPerAccount
    <2>1. PICK a \in Accounts : identity[a] = u
      BY DEF IInv, OneToOne
    <2>2. u # None
      BY BoundsAssumption, TypeParts, UsersAreIds DEF IInv, BoundsAssumption
    <2>3. \A b \in Accounts : identity[b] = u => b = a
      BY <2>1, <2>2 DEF IInv, OneToOne
    <2> QED BY <2>1, <2>3 DEF AccountsOf
  <1>2. IInv => ExchangedOnce
    <2> SUFFICES ASSUME IInv, NEW t \in Tokens PROVE exchanged[t] <= 1
      BY DEF ExchangedOnce
    <2>1. exchanged[t] \in Nat /\ (exchanged[t] > 0 => exchanged[t] = 1)
      BY DEF IInv, Exchanged, TypeOK
    <2> QED BY <2>1
  <1>3. IInv => AccountsHold
    BY <1>1, <1>2 DEF AccountsHold, IInv
  <1> QED BY <1>3, Inductive, PTL

-----------------------------------------------------------------------------

LEMMA RejoinStep ==
  ASSUME BoundsAssumption, IInv, [Next]_vars,
         NEW a \in Restricted \cap cooling,
         identity[a] = None, identity'[a] # None
  PROVE  \E p \in overtaken : At(p, "register") /\ sess[p].account = a
  <1>0. a \in Accounts /\ AccountTypes /\ LocalsOK /\ None \notin Ids
    BY TypeParts DEF IInv, BoundsAssumption
  <1>1. PICK p \in Sessions : Register(p)
    <2>1. ASSUME NEW p \in Sessions, WithdrawCommit(p) PROVE identity'[a] = None
      BY <1>0, <2>1 DEF WithdrawCommit
    <2> QED BY <2>1, UsersStay
  <1>2. /\ sess[p].account \in Accounts /\ At(p, "register")
        /\ identity' = [identity EXCEPT ![sess[p].account] = born + 1]
    BY <1>0, <1>1 DEF Register, LocalsOK, SigningUp, At
  <1>3. sess[p].account = a
    BY <1>0, <1>2 DEF AccountTypes
  <1>4. p \in overtaken
    BY <1>2, <1>3 DEF IInv, Overtaken, At
  <1> QED BY <1>2, <1>3, <1>4

LEMMA TokenKeptStep ==
  ASSUME BoundsAssumption, IInv, [Next]_vars, NEW t \in Tokens,
         refresh[t] # None, ~refresh[t].expired, refresh'[t] = None
  PROVE  \/ exchanged'[t] > exchanged[t]
         \/ Logout(t) \/ refresh[t].user \notin users'
  <1> DEFINE Ended == \/ exchanged'[t] > exchanged[t]
                      \/ Logout(t) \/ refresh[t].user \notin users'
  <1>0. /\ TokenTypes /\ None \notin [user : Ids, expired : BOOLEAN]
        /\ issued \in Nat /\ t <= issued /\ t \in Nat
    BY TypeParts DEF IInv, BoundsAssumption, TokenTypes, Tokens
  <1>1. ASSUME NEW p \in Sessions, IssueTokens(p) PROVE FALSE
    <2>1. t # issued + 1 /\ ~Cleaned(sess[p].user, t)
      BY <1>0 DEF Cleaned
    <2> QED BY <1>1, <2>1 DEF IssueTokens
  <1>2. ASSUME NEW p \in Sessions, WithdrawCommit(p) PROVE Ended
    BY <1>2 DEF WithdrawCommit
  <1>3. ASSUME NEW p \in Sessions, NEW s \in Tokens, Refresh(p, s) PROVE Ended
    <2>1. s = t
      BY <1>0, <1>3 DEF Refresh, TokenTypes
    <2> QED BY <1>0, <1>3, <2>1 DEF Refresh, Exchange, TokenTypes
  <1>4. ASSUME NEW s \in Tokens, Logout(s) PROVE Ended
    <2>1. s = t
      BY <1>0, <1>4 DEF Logout, TokenTypes
    <2> QED BY <1>4, <2>1
  <1>5. ASSUME NEW s \in Tokens, ExpireToken(s) PROVE FALSE
    <2>1. s = t
      BY <1>0, <1>5 DEF ExpireToken, TokenTypes
    <2>2. refresh'[t] = [refresh[t] EXCEPT !.expired = TRUE]
      BY <1>0, <1>5, <2>1 DEF ExpireToken, TokenTypes
    <2>3. refresh'[t] \in [user : Ids, expired : BOOLEAN]
      BY <1>0, <2>2 DEF TokenTypes
    <2> QED BY <1>0, <2>3
  <1>6. CASE UNCHANGED tokenVars
    BY <1>6 DEF tokenVars
  <1> QED BY <1>1, <1>2, <1>3, <1>4, <1>5, <1>6, TokenWriters

LEMMA DeviceKeptStep ==
  ASSUME BoundsAssumption, IInv, [Next]_vars, NEW d \in Devices,
         device[d] # None, device'[d] = None
  PROVE  \/ device[d] \notin users' \/ d \in dead
         \/ \E p \in Sessions : /\ At(p, "unregister-device")
                                /\ sess[p].user = device[d]
  <1>0. DeviceTypes /\ users \subseteq Ids /\ None \notin Ids
    BY TypeParts, UsersAreIds DEF IInv, BoundsAssumption
  <1>1. ASSUME NEW p \in Sessions, RegisterDevice(p) PROVE FALSE
    BY <1>0, <1>1 DEF RegisterDevice
  <1>2. ASSUME NEW p \in Sessions, UnregisterDevice(p)
        PROVE  At(p, "unregister-device") /\ sess[p].user = device[d]
    BY <1>0, <1>2 DEF UnregisterDevice, Unregisters
  <1>3. ASSUME NEW p \in Sessions, PushSend(p) PROVE d \in dead
    BY <1>3 DEF PushSend, SaidInvalid
  <1>4. ASSUME NEW p \in Sessions, WithdrawCommit(p)
        PROVE  device[d] \notin users'
    BY <1>4 DEF WithdrawCommit
  <1> QED BY <1>1, <1>2, <1>3, <1>4, DeviceWriters DEF RemoveApp

(* Whatever overlaps: no sign-up within the 30 days but one that a         *)
(* withdrawal overtook, no token and no device that ends by somebody       *)
(* else's request or by a clean-up (assertCanSignUp, issueTokens,          *)
(* unregisterDevice, push).                                                *)
THEOREM NothingEndsEarly == Spec => NothingTooEarly
  <1> DEFINE Rejoins ==
               \A a \in Restricted \cap cooling :
                 identity[a] = None /\ identity'[a] # None =>
                   \E p \in overtaken : At(p, "register") /\ sess[p].account = a
             NoTokenLost ==
               \A t \in Tokens :
                 LET old == refresh[t]
                 IN  old # None /\ ~old.expired /\ refresh'[t] = None =>
                       \/ exchanged'[t] > exchanged[t]
                       \/ Logout(t) \/ old.user \notin users'
             NoDeviceLost ==
               \A d \in Devices :
                 device[d] # None /\ device'[d] = None =>
                   \/ device[d] \notin users' \/ d \in dead
                   \/ \E p \in Sessions : /\ At(p, "unregister-device")
                                          /\ sess[p].user = device[d]
  <1>1. IInv /\ [Next]_vars => Rejoins
    BY BoundsAssumption, RejoinStep
  <1>2. IInv /\ [Next]_vars => NoTokenLost
    BY BoundsAssumption, TokenKeptStep
  <1>3. IInv /\ [Next]_vars => NoDeviceLost
    BY BoundsAssumption, DeviceKeptStep
  <1>4. /\ RejoinWaits <=> [][Rejoins]_vars
        /\ TokenKept <=> [][NoTokenLost]_vars
        /\ DeviceKept <=> [][NoDeviceLost]_vars
    BY DEF RejoinWaits, TokenKept, DeviceKept
  <1> HIDE DEF Rejoins, NoTokenLost, NoDeviceLost
  <1>5. Spec => [][Rejoins]_vars /\ [][NoTokenLost]_vars /\ [][NoDeviceLost]_vars
    BY <1>1, <1>2, <1>3, Inductive, PTL DEF Spec
  <1> QED BY <1>4, <1>5 DEF NothingTooEarly, DevicesStay

=============================================================================
