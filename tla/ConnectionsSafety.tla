---------------------------- MODULE ConnectionsSafety ----------------------------
(***************************************************************************)
(* Proofs about the social accounts of a workspace.  Refreshing tokens: for *)
(* any number of operations, of tokens and of faults.  Connecting accounts: *)
(* for any number of logins, requests, people and accounts, and whatever   *)
(* happens how often.  Each request knows something of the login it works  *)
(* on, by its step; one request at a time carries a login's code or tokens. *)
(***************************************************************************)
EXTENDS Connections, FiniteSetTheorems, TLAPS

-----------------------------------------------------------------------------
(* Tokens.                                                                 *)

(* A document put together field by field is a document.                    *)
LEMMA AccountByFields ==
  ASSUME NEW a, a = [f \in Fields |-> a[f]],
         a.status \in Statuses, a.tokens \in Gens, a.refreshed \in Gens, a.lease \in Leases
  PROVE  a \in Account
  BY SMT DEF Account, Fields

(* Setting fields of a copy to values of their types keeps its type.        *)
LEMMA SetTyped ==
  ASSUME NEW u \in User, NEW values, DOMAIN values \subseteq Fields,
         "status" \in DOMAIN values => values["status"] \in Statuses,
         "tokens" \in DOMAIN values => values["tokens"] \in Gens,
         "refreshed" \in DOMAIN values => values["refreshed"] \in Gens,
         "lease" \in DOMAIN values => values["lease"] \in Leases
  PROVE  Set(u, values) \in User
<1> DEFINE copy == [f \in Fields |-> IF f \in DOMAIN values THEN values[f] ELSE u.copy[f]]
<1>1. u.copy \in Account
  BY DEF User
<1>2. copy \in Account
  BY <1>1, AccountByFields, SMT DEF Account, Fields
<1>3. u.dirty \cup {f \in DOMAIN values : values[f] # u.copy[f]} \in SUBSET Fields
  BY Zenon DEF User
<1> QED
  BY <1>2, <1>3, Zenon DEF Set, User

LEMMA IdleTyped == Idle \in User
  BY BoundsAssumption, SMT DEF Idle, User, Steps, Kinds, Account, Statuses, Gens, NoTokens,
     Leases, Fields, Nobody

LEMMA SaveTyped ==
  ASSUME TypeOK, NEW c \in Users, Save(c)
  PROVE  account' \in Account
<1>1. user[c].copy \in Account /\ account \in Account
  BY SMT DEF TypeOK, User
<1> QED
  BY <1>1, AccountByFields, SMT DEF Save, Account, Fields

(* Everything but the budget keeps its type in a step of one operation.     *)
LEMMA SpendTyped ==
  ASSUME TypeOK, NEW what \in Events, Spend(what)
  PROVE  budget' \in [Events -> Nat]
  BY SMT DEF TypeOK, Spend

(* A copy that is put back keeps the type of all operations.                *)
LEMMA UserTyped ==
  ASSUME TypeOK, NEW c \in Users, NEW u \in User, user' = [user EXCEPT ![c] = u]
  PROVE  user' \in [Users -> User]
  BY Zenon DEF TypeOK

(* Only the step of an operation changes.                                   *)
LEMMA StepTyped ==
  ASSUME NEW u \in User, NEW step \in Steps
  PROVE  [u EXCEPT !.pc = step] \in User
  BY SMT DEF User

LEMMA GotoTyped ==
  ASSUME TypeOK, NEW c \in Users, NEW step \in Steps, Goto(c, step)
  PROVE  user' \in [Users -> User]
<1>1. [user[c] EXCEPT !.pc = step] \in User
  BY StepTyped, Zenon DEF TypeOK
<1> QED
  BY <1>1, UserTyped, Zenon DEF Goto

LEMMA RestTyped ==
  ASSUME TypeOK, NEW c \in Users, Rest(c)
  PROVE  user' \in [Users -> User]
  BY IdleTyped, UserTyped, Zenon DEF Rest

(* An operation that begins.                                                *)
LEMMA NewTyped ==
  ASSUME TypeOK, NEW kind \in Kinds, NEW step \in Steps, NEW early \in BOOLEAN
  PROVE  New(kind, step, early) \in User
<1>1. account \in Account /\ account.refreshed \in Gens /\ account.tokens \in Gens
  BY SMT DEF TypeOK, Account
<1> QED
  BY <1>1, Zenon DEF New, User

(* A document that was read without its tokens.                             *)
LEMMA SetUnreadTyped ==
  ASSUME NEW u, NEW values, Set(u, values) \in User
  PROVE  SetUnread(u, values) \in User
  BY SMT DEF SetUnread, User, Fields

LEMMA AfterFailureTyped ==
  ASSUME NEW u \in User
  PROVE  AfterFailure(u) \in User
<1>1. "operate" \in Steps
  BY DEF Steps
<1> QED
  BY <1>1, IdleTyped, StepTyped, Zenon DEF AfterFailure

-----------------------------------------------------------------------------
(* Type correctness, one lemma for each action.                             *)

LEMMA InitTyped == Init => TypeOK
<1> SUFFICES ASSUME Init PROVE TypeOK
  OBVIOUS
<1>1. account \in Account
  BY BoundsAssumption, SMT DEF Init, Account, Statuses, Gens, NoTokens, Leases
<1>2. user \in [Users -> User]
  BY IdleTyped, Zenon DEF Init
<1>3. age \in [1..MaxGen -> Ages]
  BY SMT DEF Init, Ages
<1>4. platform \in [current : 1..MaxGen, revoked : BOOLEAN]
  BY BoundsAssumption, SMT DEF Init
<1>5. lost \in BOOLEAN /\ undone \in BOOLEAN /\ budget \in [Events -> Nat]
  BY BoundsAssumption, Zenon DEF Init
<1> QED
  BY <1>1, <1>2, <1>3, <1>4, <1>5, Zenon DEF TypeOK

LEMMA LoadTyped ==
  ASSUME TypeOK, NEW c \in Users, NEW kind \in Kinds, Load(c, kind)
  PROVE  TypeOK'
<1>1. {"acquire", "operate"} \subseteq Steps
  BY DEF Steps
<1>2. user' \in [Users -> User]
  BY <1>1, NewTyped, UserTyped, Zenon DEF Load
<1>3. budget' \in [Events -> Nat]
  BY SpendTyped, Zenon DEF Load, Events
<1> QED
  BY <1>2, <1>3, Zenon DEF Load, TypeOK

LEMMA LoadExpiringTyped ==
  ASSUME TypeOK, NEW c \in Users, LoadExpiring(c)
  PROVE  TypeOK'
<1>1. "acquire" \in Steps /\ "sweep" \in Kinds
  BY DEF Steps, Kinds
<1>2. user' \in [Users -> User]
  BY <1>1, NewTyped, UserTyped, Zenon DEF LoadExpiring
<1>3. budget' \in [Events -> Nat]
  BY SpendTyped, Zenon DEF LoadExpiring, Events
<1> QED
  BY <1>2, <1>3, Zenon DEF LoadExpiring, TypeOK

LEMMA AcquireTyped ==
  ASSUME TypeOK, NEW c \in Users, Acquire(c)
  PROVE  TypeOK'
<1>1. account' \in Account
  BY SMT DEF Acquire, TypeOK, Account, Leases
<1>2. user' \in [Users -> User]
  BY GotoTyped, Zenon DEF Acquire, Steps
<1> QED
  BY <1>1, <1>2, Zenon DEF Acquire, TypeOK

LEMMA StopWaitingTyped ==
  ASSUME TypeOK, NEW c \in Users, StopWaiting(c)
  PROVE  TypeOK'
<1>1. user[c] \in User
  BY Zenon DEF TypeOK
<1>2. user' \in [Users -> User]
  BY <1>1, AfterFailureTyped, UserTyped, Zenon DEF StopWaiting
<1> QED
  BY <1>2, Zenon DEF StopWaiting, TypeOK

LEMMA ReloadTyped ==
  ASSUME TypeOK, NEW c \in Users, Reload(c)
  PROVE  TypeOK'
<1> DEFINE u == Reloaded(user[c])
           values == [f \in {"status", "tokens", "refreshed"} |-> account[f]]
<1>1. user[c] \in User /\ account \in Account
  BY Zenon DEF TypeOK
<1>2. u \in User
  <2>1. /\ DOMAIN values = {"status", "tokens", "refreshed"}
        /\ values["status"] = account["status"]
        /\ values["tokens"] = account["tokens"]
        /\ values["refreshed"] = account["refreshed"]
    BY SMT
  <2>2. /\ account["status"] \in Statuses
        /\ account["tokens"] \in Gens
        /\ account["refreshed"] \in Gens
    BY <1>1, SMT DEF Account
  <2>3. DOMAIN values \subseteq Fields /\ "lease" \notin DOMAIN values
    BY <2>1, SMT DEF Fields
  <2> HIDE DEF values
  <2>4. Set(user[c], values) \in User
    BY <1>1, <2>1, <2>2, <2>3, SetTyped, Zenon
  <2> QED
    BY <2>4, Zenon DEF Reloaded, values
<1>3. \E step \in Steps : user' = [user EXCEPT ![c] = [u EXCEPT !.pc = step]]
  <2>1. {"release", "expire", "refresh"} \subseteq Steps
    BY DEF Steps
  <2> DEFINE next == IF Renewed(u) THEN "release"
                     ELSE IF ~HasTokens(u.copy) \/ AgeOf(u.copy) = "lapsed" THEN "expire" ELSE "refresh"
  <2>2. next \in Steps
    BY <2>1, Zenon
  <2>3. user' = [user EXCEPT ![c] = [u EXCEPT !.pc = next]]
    BY Zenon DEF Reload
  <2> HIDE DEF next, u
  <2> QED
    BY <2>2, <2>3, Zenon
<1>4. user' \in [Users -> User]
  <2> HIDE DEF u
  <2> QED
    BY <1>2, <1>3, StepTyped, UserTyped, Zenon
<1> QED
  BY <1>4, Zenon DEF Reload, TypeOK

(* A document that gets a new status and moves on.                          *)
LEMMA StatusTyped ==
  ASSUME NEW u \in User, NEW status \in Statuses, NEW step \in Steps
  PROVE  [Set(u, [status |-> status]) EXCEPT !.pc = step] \in User
<1> DEFINE values == [status |-> status]
<1>1. DOMAIN values = {"status"} /\ values["status"] = status
  BY SMT
<1>2. DOMAIN values \subseteq Fields
  BY <1>1, SMT DEF Fields
<1> HIDE DEF values
<1>3. Set(u, values) \in User
  BY <1>1, <1>2, SetTyped, SMT
<1> QED
  BY <1>3, StepTyped, Zenon DEF values

LEMMA ExpireTyped ==
  ASSUME TypeOK, NEW c \in Users, Expire(c)
  PROVE  TypeOK'
<1>1. user[c] \in User
  BY Zenon DEF TypeOK
<1>2. "EXPIRED" \in Statuses /\ "saveFailure" \in Steps
  BY DEF Statuses, Steps
<1>3. user' \in [Users -> User]
  BY <1>1, <1>2, StatusTyped, UserTyped, Zenon DEF Expire
<1> QED
  BY <1>3, Zenon DEF Expire, TypeOK

LEMMA RefusedTyped ==
  ASSUME TypeOK, NEW c \in Users, NEW status \in {"REAUTH_REQUIRED", "ERROR"},
         Refused(c, status)
  PROVE  user' \in [Users -> User]
<1>1. user[c] \in User
  BY Zenon DEF TypeOK
<1>2. status \in Statuses /\ "saveFailure" \in Steps
  BY SMT DEF Statuses, Steps
<1> QED
  BY <1>1, <1>2, StatusTyped, UserTyped, Zenon DEF Refused

(* What the platform grants next.                                           *)
LEMMA GrantTyped ==
  ASSUME TypeOK, platform.current < MaxGen
  PROVE  /\ platform.current + 1 \in 1..MaxGen
         /\ platform.current + 1 \in Gens
  BY BoundsAssumption, SMT DEF TypeOK, Gens, NoTokens

LEMMA RefreshTyped ==
  ASSUME TypeOK, NEW c \in Users, Refresh(c)
  PROVE  TypeOK'
<1>1. user[c] \in User
  BY Zenon DEF TypeOK
<1>2. CASE Grants(c) /\ platform.current < MaxGen
           /\ platform' = [platform EXCEPT !.current = @ + 1]
           /\ user' = [user EXCEPT ![c] =
                [Set(@, [tokens |-> platform'.current, refreshed |-> platform'.current,
                         status |-> "CONNECTED"]) EXCEPT !.pc = "saveTokens"]]
  <2> DEFINE values == [tokens |-> platform'.current, refreshed |-> platform'.current,
                        status |-> "CONNECTED"]
  <2>1. platform' \in [current : 1..MaxGen, revoked : BOOLEAN] /\ platform'.current \in Gens
    BY <1>2, GrantTyped, SMT DEF TypeOK
  <2>2. "CONNECTED" \in Statuses /\ "saveTokens" \in Steps
    BY DEF Statuses, Steps
  <2>3. /\ DOMAIN values = {"tokens", "refreshed", "status"}
        /\ values["tokens"] = platform'.current
        /\ values["refreshed"] = platform'.current
        /\ values["status"] = "CONNECTED"
    BY SMT
  <2>4. DOMAIN values \subseteq Fields /\ "lease" \notin DOMAIN values
    BY <2>3, SMT DEF Fields
  <2>5. user' = [user EXCEPT ![c] = [Set(user[c], values) EXCEPT !.pc = "saveTokens"]]
    BY <1>2
  <2> HIDE DEF values
  <2>6. Set(user[c], values) \in User
    BY <1>1, <2>1, <2>2, <2>3, <2>4, SetTyped, Zenon
  <2>7. user' \in [Users -> User]
    BY <2>2, <2>5, <2>6, StepTyped, UserTyped, Zenon
  <2> QED
    BY <2>1, <2>7, Zenon DEF Refresh, TypeOK
<1>3. CASE /\ \E status \in {"REAUTH_REQUIRED", "ERROR"} : Refused(c, status)
           /\ UNCHANGED platform
  <2>1. user' \in [Users -> User]
    BY <1>3, RefusedTyped, Zenon
  <2> QED
    BY <1>3, <2>1, Zenon DEF Refresh, TypeOK
<1> QED
  BY <1>2, <1>3, Zenon DEF Refresh

LEMMA RefreshFailsTyped ==
  ASSUME TypeOK, NEW c \in Users, RefreshFails(c)
  PROVE  TypeOK'
<1>1. user' \in [Users -> User]
  BY GotoTyped, Zenon DEF RefreshFails, Steps
<1>2. budget' \in [Events -> Nat]
  BY SpendTyped, Zenon DEF RefreshFails, Events
<1> QED
  BY <1>1, <1>2, Zenon DEF RefreshFails, TypeOK

LEMMA LoseAnswerTyped ==
  ASSUME TypeOK, NEW c \in Users, LoseAnswer(c)
  PROVE  TypeOK'
<1>1. user' \in [Users -> User]
  BY GotoTyped, Zenon DEF LoseAnswer, Steps
<1>2. budget' \in [Events -> Nat]
  BY SpendTyped, Zenon DEF LoseAnswer, Events
<1>3. platform' \in [current : 1..MaxGen, revoked : BOOLEAN]
  BY GrantTyped, SMT DEF LoseAnswer, TypeOK
<1> QED
  BY <1>1, <1>2, <1>3, Zenon DEF LoseAnswer, TypeOK

(* A copy that was saved has nothing modified.                              *)
LEMMA TokensSavedTyped ==
  ASSUME NEW u \in User, NEW step \in Steps
  PROVE  /\ [u EXCEPT !.pc = step, !.dirty = {}] \in User
         /\ [u EXCEPT !.pc = step, !.dirty = {}, !.failed = TRUE] \in User
<1> DEFINE v == [u EXCEPT !.pc = step]
           w == [v EXCEPT !.dirty = {}]
<1>1. v \in User
  BY StepTyped
<1>2. w \in User
  <2> HIDE DEF v
  <2> QED
    BY <1>1, SMT DEF User
<1>3. [w EXCEPT !.failed = TRUE] \in User
  <2> HIDE DEF w
  <2> QED
    BY <1>2, Zenon DEF User
<1>4. /\ [u EXCEPT !.pc = step, !.dirty = {}] = w
      /\ [u EXCEPT !.pc = step, !.dirty = {}, !.failed = TRUE] = [w EXCEPT !.failed = TRUE]
  BY SMT DEF User
<1> QED
  BY <1>2, <1>3, <1>4, Zenon

LEMMA SaveTokensTyped ==
  ASSUME TypeOK, NEW c \in Users, SaveTokens(c)
  PROVE  TypeOK'
<1>1. "release" \in Steps
  BY DEF Steps
<1>2. [user[c] EXCEPT !.pc = "release", !.dirty = {}] \in User
  BY <1>1, TokensSavedTyped, Zenon DEF TypeOK
<1>4. user' \in [Users -> User]
  BY <1>2, UserTyped, Zenon DEF SaveTokens
<1>3. account' \in Account
  BY SaveTyped, Zenon DEF SaveTokens
<1> QED
  BY <1>3, <1>4, Zenon DEF SaveTokens, TypeOK

LEMMA SaveFailureTyped ==
  ASSUME TypeOK, NEW c \in Users, SaveFailure(c)
  PROVE  TypeOK'
<1>1. "release" \in Steps
  BY DEF Steps
<1>2. [user[c] EXCEPT !.pc = "release", !.dirty = {}, !.failed = TRUE] \in User
  BY <1>1, TokensSavedTyped, Zenon DEF TypeOK
<1>4. user' \in [Users -> User]
  BY <1>2, UserTyped, Zenon DEF SaveFailure
<1>3. account' \in Account
  BY SaveTyped, Zenon DEF SaveFailure
<1> QED
  BY <1>3, <1>4, Zenon DEF SaveFailure, TypeOK

LEMMA ReleaseTyped ==
  ASSUME TypeOK, NEW c \in Users, Release(c)
  PROVE  TypeOK'
<1> DEFINE u == Set(user[c], [lease |-> "none"])
<1>1. user[c] \in User /\ "none" \in Leases /\ "operate" \in Steps
  BY Zenon DEF TypeOK, Leases, Steps
<1>2. u \in User
  <2> DEFINE values == [lease |-> "none"]
  <2>1. DOMAIN values = {"lease"} /\ values["lease"] = "none"
    BY SMT
  <2>2. DOMAIN values \subseteq Fields
    BY <2>1, SMT DEF Fields
  <2> HIDE DEF values
  <2>3. Set(user[c], values) \in User
    BY <1>1, <2>1, <2>2, SetTyped, SMT
  <2> QED
    BY <2>3 DEF values
<1>3. account' \in Account
  BY <1>1, SMT DEF Release, TypeOK, Account
<1>4. user' = [user EXCEPT ![c] =
         IF u.failed THEN AfterFailure(u)
         ELSE IF u.kind = "sweep" THEN Idle ELSE [u EXCEPT !.pc = "operate"]]
  BY Zenon DEF Release
<1> HIDE DEF u
<1>5. user' \in [Users -> User]
  BY <1>1, <1>2, <1>4, AfterFailureTyped, IdleTyped, StepTyped, UserTyped, Zenon
<1> QED
  BY <1>3, <1>5, Zenon DEF Release, TypeOK

LEMMA OperateTyped ==
  ASSUME TypeOK, NEW c \in Users, Operate(c)
  PROVE  TypeOK'
<1> DEFINE answer(status) == [Set(user[c], [status |-> status]) EXCEPT !.pc = "saveOutcome"]
<1>1. user[c] \in User /\ "saveOutcome" \in Steps
  BY Zenon DEF TypeOK, Steps
<1>2. \A status \in Statuses : answer(status) \in User
  BY <1>1, StatusTyped, Zenon
<1>3. {"EXPIRED", "REAUTH_REQUIRED", "ERROR", "CONNECTED"} \subseteq Statuses
  BY DEF Statuses
<1>4. [user[c] EXCEPT !.pc = "saveOutcome"] \in User
  BY <1>1, StepTyped, Zenon
<1>5. PICK v \in {Idle, [user[c] EXCEPT !.pc = "saveOutcome"]}
               \cup {answer(status) : status \in Statuses} :
        user' = [user EXCEPT ![c] = v]
  <2> HIDE DEF answer
  <2>1. \E v \in {Idle, [user[c] EXCEPT !.pc = "saveOutcome"]}
               \cup (IF platform.revoked
                       THEN {answer("EXPIRED"), answer("REAUTH_REQUIRED"), answer("ERROR")}
                     ELSE IF user[c].kind = "test" THEN {answer("CONNECTED")} ELSE {}) :
        user' = [user EXCEPT ![c] = v]
    BY Zenon DEF Operate, answer
  <2>2. {answer("EXPIRED"), answer("REAUTH_REQUIRED"), answer("ERROR"), answer("CONNECTED")}
          \subseteq {answer(status) : status \in Statuses}
    BY <1>3, Zenon
  <2> QED
    BY <2>1, <2>2, Zenon
<1>6. user' \in [Users -> User]
  <2> HIDE DEF answer
  <2> QED
    BY <1>2, <1>4, <1>5, IdleTyped, UserTyped, Zenon
<1> QED
  BY <1>6, Zenon DEF Operate, TypeOK

LEMMA SaveOutcomeTyped ==
  ASSUME TypeOK, NEW c \in Users, SaveOutcome(c)
  PROVE  TypeOK'
  BY SaveTyped, RestTyped, Zenon DEF SaveOutcome, TypeOK

LEMMA SavePersonTyped ==
  ASSUME TypeOK, NEW c \in Users, SavePerson(c)
  PROVE  TypeOK'
  BY SaveTyped, RestTyped, Zenon DEF SavePerson, TypeOK

(* A document read without its tokens that gets a status and tokens.        *)
LEMMA PersonTyped ==
  ASSUME TypeOK, NEW c \in Users, NEW status \in Statuses, NEW tokens \in Gens,
         user' = [user EXCEPT ![c] =
           SetUnread(New("use", "save", FALSE), [status |-> status, tokens |-> tokens])]
  PROVE  user' \in [Users -> User]
<1> DEFINE values == [status |-> status, tokens |-> tokens]
<1>1. New("use", "save", FALSE) \in User
  BY NewTyped, Zenon DEF Kinds, Steps
<1>2. /\ DOMAIN values = {"status", "tokens"}
      /\ values["status"] = status
      /\ values["tokens"] = tokens
  BY SMT
<1>3. DOMAIN values \subseteq Fields /\ "lease" \notin DOMAIN values
      /\ "refreshed" \notin DOMAIN values
  BY <1>2, SMT DEF Fields
<1>4. user' = [user EXCEPT ![c] = SetUnread(New("use", "save", FALSE), values)]
  BY Zenon
<1> HIDE DEF values
<1>5. Set(New("use", "save", FALSE), values) \in User
  BY <1>1, <1>2, <1>3, SetTyped, Zenon
<1> QED
  BY <1>4, <1>5, SetUnreadTyped, UserTyped, Zenon

LEMMA DisconnectTyped ==
  ASSUME TypeOK, NEW c \in Users, Disconnect(c)
  PROVE  TypeOK'
<1>1. "DISCONNECTED" \in Statuses /\ NoTokens \in Gens
  BY BoundsAssumption, SMT DEF Statuses, Gens, NoTokens
<1>2. user' \in [Users -> User]
  BY <1>1, PersonTyped, Zenon DEF Disconnect
<1>3. budget' \in [Events -> Nat]
  BY SpendTyped, Zenon DEF Disconnect, Events
<1> QED
  BY <1>2, <1>3, Zenon DEF Disconnect, TypeOK

LEMMA StoreConnectionTyped ==
  ASSUME TypeOK, NEW c \in Users, StoreConnection(c)
  PROVE  TypeOK'
<1>1. "CONNECTED" \in Statuses /\ user[c].copy.tokens \in Gens
  BY SMT DEF TypeOK, User, Account, Statuses
<1>2. user' \in [Users -> User]
  BY <1>1, PersonTyped, Zenon DEF StoreConnection
<1> QED
  BY <1>2, Zenon DEF StoreConnection, TypeOK

LEMMA AuthorizeTyped ==
  ASSUME TypeOK, NEW c \in Users, Authorize(c)
  PROVE  TypeOK'
<1> DEFINE values == [tokens |-> platform'.current]
<1>1. New("use", "authorized", FALSE) \in User
  BY NewTyped, Zenon DEF Kinds, Steps
<1>2. platform' \in [current : 1..MaxGen, revoked : BOOLEAN] /\ platform'.current \in Gens
  BY GrantTyped, SMT DEF Authorize
<1>3. /\ DOMAIN values = {"tokens"} /\ values["tokens"] = platform'.current
      /\ "status" \notin DOMAIN values /\ "lease" \notin DOMAIN values
      /\ "refreshed" \notin DOMAIN values
  BY SMT
<1>4. DOMAIN values \subseteq Fields
  BY <1>3, SMT DEF Fields
<1>5. user' = [user EXCEPT ![c] = Set(New("use", "authorized", FALSE), values)]
  BY Zenon DEF Authorize
<1> HIDE DEF values
<1>6. Set(New("use", "authorized", FALSE), values) \in User
  BY <1>1, <1>2, <1>3, <1>4, SetTyped, Zenon
<1>7. user' \in [Users -> User]
  BY <1>5, <1>6, UserTyped, Zenon
<1>8. budget' \in [Events -> Nat]
  BY SpendTyped, Zenon DEF Authorize, Events
<1> QED
  BY <1>2, <1>7, <1>8, Zenon DEF Authorize, TypeOK

LEMMA AgeTyped ==
  ASSUME TypeOK, NEW g \in 1..MaxGen, Age(g)
  PROVE  TypeOK'
<1>1. age' \in [1..MaxGen -> Ages]
  <2>1. Older[age[g]] \in Ages
    BY SMT DEF Age, Older, Ages
  <2> QED
    BY <2>1, SMT DEF Age, TypeOK
<1>2. user' \in [Users -> User]
  <2>1. \A u \in User : [u EXCEPT !.aged = TRUE] \in User
    BY Zenon DEF User
  <2> QED
    BY <2>1, IdleTyped, Zenon DEF Age, TypeOK
<1>3. budget' \in [Events -> Nat]
  BY SpendTyped, Zenon DEF Age, Events
<1> QED
  BY <1>1, <1>2, <1>3, Zenon DEF Age, TypeOK

LEMMA RevokeTyped ==
  ASSUME TypeOK, Revoke
  PROVE  TypeOK'
<1>1. platform' \in [current : 1..MaxGen, revoked : BOOLEAN]
  BY Zenon DEF Revoke, TypeOK
<1>2. budget' \in [Events -> Nat]
  BY SpendTyped, Zenon DEF Revoke, Events
<1> QED
  BY <1>1, <1>2, Zenon DEF Revoke, TypeOK

LEMMA LeaseExpiresTyped ==
  ASSUME TypeOK, LeaseExpires
  PROVE  TypeOK'
<1>1. account' \in Account
  BY SMT DEF LeaseExpires, TypeOK, Account, Leases
<1> QED
  BY <1>1, Zenon DEF LeaseExpires, TypeOK

LEMMA CrashTyped ==
  ASSUME TypeOK, NEW c \in Users, Crash(c)
  PROVE  TypeOK'
<1>1. lost' \in BOOLEAN
  BY Zenon DEF Crash
<1>2. budget' \in [Events -> Nat]
  BY SpendTyped, Zenon DEF Crash, Events
<1> QED
  BY <1>1, <1>2, RestTyped, Zenon DEF Crash, TypeOK

LEMMA TokenStepTyped ==
  ASSUME TypeOK, [Next]_vars
  PROVE  TypeOK'
<1>1. ASSUME NEW c \in Users, UserNext(c) PROVE TypeOK'
  <2>1. {"use", "test"} \subseteq Kinds
    BY DEF Kinds
  <2> QED
    BY <1>1, <2>1, LoadTyped, LoadExpiringTyped, AcquireTyped, StopWaitingTyped, ReloadTyped,
       ExpireTyped, RefreshTyped, RefreshFailsTyped, LoseAnswerTyped, SaveTokensTyped,
       SaveFailureTyped, ReleaseTyped, OperateTyped, SaveOutcomeTyped, DisconnectTyped,
       AuthorizeTyped, StoreConnectionTyped, SavePersonTyped, CrashTyped, Zenon DEF UserNext
<1>2. CASE UNCHANGED vars
  BY <1>2, Zenon DEF vars, TypeOK
<1> QED
  BY <1>1, <1>2, AgeTyped, RevokeTyped, LeaseExpiresTyped, Zenon DEF Next

(* Every document, copy and token keeps its type.                           *)
THEOREM TokensTyped == Spec => []TypeOK
<1>1. Init => TypeOK
  BY InitTyped
<1>2. TypeOK /\ [Next]_vars => TypeOK'
  BY TokenStepTyped
<1> QED
  BY <1>1, <1>2, PTL DEF Spec

-----------------------------------------------------------------------------
(* Tokens: what the lease protects, as long as nobody reconnected the       *)
(* account and no save came between (Reconnected, undone).                  *)

Calm == ~Reconnected /\ ~undone

(* The newest tokens that the database has, or will have of it once nothing *)
(* is left to save: the ones just granted are not there yet, and never are  *)
(* when they were lost.                                                     *)
Granting == \E c \in Users : At(c, "saveTokens")
Newest == IF lost \/ Granting THEN platform.current - 1 ELSE platform.current
(* The platform refuses whatever the database has.                          *)
Frozen == platform.revoked \/ lost
Usable == {"CONNECTED", "DISCONNECTED"}

(* After a refresh the copy may still have reloaded tokens to save.         *)
Leaving == {"release", "operate", "saveOutcome"}
Reloads(u) == u.pc \in Leaving /\ "tokens" \in u.dirty
Carried == \E c \in Users : Reloads(user[c])
Healthy == account.status \in Usable /\ ~Carried

OneHolds ==
  /\ \A c, d \in Users : user[c].pc \in Refreshing /\ user[d].pc \in Refreshing => c = d
  /\ (\E c \in Users : user[c].pc \in Refreshing) => account.lease = "held"

AccountIsNewest ==
  /\ Newest \in 1..MaxGen
  /\ account.tokens \in {NoTokens, Newest}
  /\ account.refreshed <= Newest
  /\ HasTokens(account) => account.refreshed = account.tokens
  /\ ~Frozen => /\ account.status \in Usable \union {"EXPIRED"}
                /\ account.status = "EXPIRED" /\ HasTokens(account) => age[Newest] = "lapsed"

(* What an operation may rely on, by its step.  A copy in which the tokens  *)
(* are not modified has them as they were read.                             *)
Tidy(u) ==
  /\ "lease" \notin u.dirty
  /\ HasTokens(u.copy) => /\ u.copy.refreshed = u.copy.tokens
                          /\ "tokens" \in u.dirty <=> "refreshed" \in u.dirty
  /\ ~HasTokens(u.copy) => "tokens" \in u.dirty
Waits(u) ==
  u.pc \in {"acquire", "reload"} =>
    /\ u.dirty = {}
    /\ u.copy.tokens = u.readAt /\ u.copy.refreshed = u.readAt /\ u.began = u.readAt
    /\ u.readAt \in 1..Newest
    /\ ~Frozen => age[u.readAt] # "fresh"
Presents(u) ==
  u.pc = "refresh" =>
    /\ Tidy(u) /\ u.copy.tokens = Newest
    /\ ~Frozen => u.copy.status \in Usable /\ Healthy
GivesUp(u) ==
  u.pc = "expire" =>
    /\ Tidy(u) /\ u.copy.tokens \in {NoTokens, Newest} /\ u.copy.refreshed <= Newest
    /\ IF HasTokens(u.copy) THEN age[Newest] = "lapsed" ELSE ~HasTokens(account)
    /\ ~Frozen => u.copy.status \in Usable \union {"EXPIRED"}
WasGranted(u) ==
  u.pc = "saveTokens" =>
    /\ u.copy.tokens = platform.current /\ u.copy.refreshed = platform.current
    /\ {"tokens", "refreshed"} \subseteq u.dirty /\ "lease" \notin u.dirty
    /\ u.copy.status = "CONNECTED"
    /\ ~lost
    /\ ~Frozen => Healthy
Failed(u) ==
  u.pc = "saveFailure" =>
    /\ Tidy(u) /\ u.copy.tokens \in {NoTokens, Newest} /\ u.copy.refreshed <= Newest
    /\ ~Frozen =>
         \/ /\ ~HasTokens(u.copy) /\ ~HasTokens(account)
            /\ u.copy.status \in Usable \union {"EXPIRED"}
         \/ age[Newest] = "lapsed" /\ u.copy.status \in Usable \union {"EXPIRED"}
         \/ u.copy.status \in Usable /\ Healthy
(* Reloaded tokens are still fresh when their copy is saved: who began      *)
(* before they were granted keeps them from growing old.                    *)
Leaves(u) ==
  u.pc \in Leaving =>
    /\ "lease" \in u.dirty => u.copy.lease = "none" /\ u.pc # "release"
    /\ "tokens" \notin u.dirty => "refreshed" \notin u.dirty /\ (~Frozen => "status" \notin u.dirty)
    /\ ~(u.pc = "release" /\ u.failed) /\ ~Frozen => u.copy.status = "CONNECTED"
    /\ "tokens" \in u.dirty =>
         /\ u.copy.tokens = Newest /\ u.copy.refreshed = Newest /\ "refreshed" \in u.dirty
         /\ ~Granting
         /\ ~Frozen => /\ age[Newest] = "fresh" /\ u.began < Newest
                       /\ ~HasTokens(account) \/ account.status = "CONNECTED"
Takes(u) ==
  /\ u.pc = "save" => /\ u.copy.tokens = NoTokens /\ u.copy.status = "DISCONNECTED"
                      /\ "tokens" \in u.dirty /\ u.dirty \subseteq {"status", "tokens"}
  /\ u.pc # "authorized"
RefreshKnows(u) ==
  Waits(u) /\ Presents(u) /\ GivesUp(u) /\ WasGranted(u) /\ Failed(u) /\ Leaves(u) /\ Takes(u)

LeaseHolds == OneHolds /\ AccountIsNewest /\ \A c \in Users : RefreshKnows(user[c])

(* The inductive invariant.                                                 *)
TokenInv == TypeOK /\ budget.reconnect <= Budget.reconnect /\ (Calm => LeaseHolds)

-----------------------------------------------------------------------------
(* What the operators of the model give.                                    *)

LEMMA SetGives ==
  ASSUME NEW u \in User, NEW values, DOMAIN values \subseteq Fields
  PROVE  /\ Set(u, values).pc = u.pc /\ Set(u, values).kind = u.kind
         /\ Set(u, values).readAt = u.readAt /\ Set(u, values).began = u.began
         /\ Set(u, values).early = u.early /\ Set(u, values).failed = u.failed
         /\ \A f \in Fields :
              Set(u, values).copy[f] = IF f \in DOMAIN values THEN values[f] ELSE u.copy[f]
         /\ \A f \in Fields :
              f \in Set(u, values).dirty
                <=> f \in u.dirty \/ (f \in DOMAIN values /\ values[f] # u.copy[f])
<1>1. u.copy \in Account /\ u.dirty \subseteq Fields
  BY Zenon DEF User
<1>2. u.copy = [f \in Fields |-> u.copy[f]]
  BY <1>1, SMT DEF Account, Fields
<1> DEFINE copy == [f \in Fields |-> IF f \in DOMAIN values THEN values[f] ELSE u.copy[f]]
           dirty == u.dirty \cup {f \in DOMAIN values : values[f] # u.copy[f]}
<1>3. Set(u, values) = [u EXCEPT !.copy = copy, !.dirty = dirty]
  BY Zenon DEF Set
<1>4. \A f \in Fields : f \in dirty <=> f \in u.dirty \/ (f \in DOMAIN values /\ values[f] # u.copy[f])
  BY Zenon
<1>5. \A f \in Fields : copy[f] = IF f \in DOMAIN values THEN values[f] ELSE u.copy[f]
  BY Zenon
<1> HIDE DEF copy, dirty
<1>6. /\ Set(u, values).pc = u.pc /\ Set(u, values).kind = u.kind
      /\ Set(u, values).readAt = u.readAt /\ Set(u, values).began = u.began
      /\ Set(u, values).early = u.early /\ Set(u, values).failed = u.failed
      /\ Set(u, values).copy = copy /\ Set(u, values).dirty = dirty
  BY <1>3, SMT DEF User
<1> QED
  BY <1>4, <1>5, <1>6, Zenon

(* Only the step changes.                                                   *)
LEMMA StepGives ==
  ASSUME NEW u \in User, NEW step \in Steps, NEW v, v = [u EXCEPT !.pc = step]
  PROVE  /\ v \in User /\ v.pc = step /\ v.kind = u.kind /\ v.readAt = u.readAt
         /\ v.began = u.began /\ v.early = u.early /\ v.failed = u.failed
         /\ v.copy = u.copy /\ v.dirty = u.dirty
  BY SMT DEF User

(* Only the status changes, and the step.                                   *)
StatusSet(v, u, status, step) ==
  /\ v \in User /\ v.pc = step /\ v.kind = u.kind /\ v.readAt = u.readAt
  /\ v.began = u.began /\ v.early = u.early /\ v.failed = u.failed
  /\ v.copy.status = status /\ v.copy.tokens = u.copy.tokens
  /\ v.copy.refreshed = u.copy.refreshed /\ v.copy.lease = u.copy.lease
  /\ "status" \in v.dirty <=> "status" \in u.dirty \/ status # u.copy.status
  /\ "tokens" \in v.dirty <=> "tokens" \in u.dirty
  /\ "refreshed" \in v.dirty <=> "refreshed" \in u.dirty
  /\ "lease" \in v.dirty <=> "lease" \in u.dirty
LEMMA StatusGives ==
  ASSUME NEW u \in User, NEW status \in Statuses, NEW step \in Steps
  PROVE  StatusSet([Set(u, [status |-> status]) EXCEPT !.pc = step], u, status, step)
<1>0. PICK v : v = [Set(u, [status |-> status]) EXCEPT !.pc = step]
  OBVIOUS
<1> DEFINE values == [status |-> status]
<1>1. DOMAIN values = {"status"} /\ values["status"] = status
  BY SMT
<1>2. DOMAIN values \subseteq Fields /\ {"status", "tokens", "refreshed", "lease"} \subseteq Fields
  BY <1>1, SMT DEF Fields
<1>3. v \in User
  BY <1>0, StatusTyped, Zenon
<1>4. Set(u, values) \in User /\ v = [Set(u, values) EXCEPT !.pc = step]
  <2> HIDE DEF values
  <2>1. Set(u, values) \in User
    BY <1>1, <1>2, SetTyped, SMT
  <2> QED
    BY <1>0, <2>1, Zenon DEF values
<1> HIDE DEF values
<1>5. PICK s \in User : s = Set(u, values) /\ v = [s EXCEPT !.pc = step]
  BY <1>4, Zenon
<1>6. /\ v.pc = step /\ v.kind = s.kind /\ v.readAt = s.readAt /\ v.began = s.began
      /\ v.early = s.early /\ v.failed = s.failed /\ v.copy = s.copy /\ v.dirty = s.dirty
  <2>1. v = [s EXCEPT !.pc = step]
    BY <1>5
  <2> QED
    BY ONLY <2>1, s \in User, step \in Steps, SMT DEF User
<1>7. /\ s.kind = u.kind /\ s.readAt = u.readAt /\ s.began = u.began
      /\ s.early = u.early /\ s.failed = u.failed
      /\ \A f \in Fields :
           s.copy[f] = IF f \in DOMAIN values THEN values[f] ELSE u.copy[f]
      /\ \A f \in Fields : f \in s.dirty
             <=> f \in u.dirty \/ (f \in DOMAIN values /\ values[f] # u.copy[f])
  <2>1. s = Set(u, values)
    BY <1>5
  <2> QED
    BY ONLY <1>2, <2>1, SetGives, u \in User
<1>8. /\ s.copy["status"] = status /\ s.copy["tokens"] = u.copy["tokens"]
      /\ s.copy["refreshed"] = u.copy["refreshed"] /\ s.copy["lease"] = u.copy["lease"]
      /\ "status" \in s.dirty <=> "status" \in u.dirty \/ status # u.copy["status"]
      /\ "tokens" \in s.dirty <=> "tokens" \in u.dirty
      /\ "refreshed" \in s.dirty <=> "refreshed" \in u.dirty
      /\ "lease" \in s.dirty <=> "lease" \in u.dirty
  BY <1>1, <1>2, <1>7, SMT
<1>9. StatusSet(v, u, status, step)
  BY ONLY <1>3, <1>6, <1>7, <1>8, SMT DEF StatusSet
<1> QED
  BY <1>0, <1>9, Zenon

(* Saving writes the modified fields.                                       *)
LEMMA SaveGives ==
  ASSUME NEW c \in Users, Save(c)
  PROVE  /\ account'.status = IF "status" \in user[c].dirty THEN user[c].copy.status ELSE account.status
         /\ account'.tokens = IF "tokens" \in user[c].dirty THEN user[c].copy.tokens ELSE account.tokens
         /\ account'.refreshed = IF "refreshed" \in user[c].dirty THEN user[c].copy.refreshed
                                                                  ELSE account.refreshed
         /\ account'.lease = IF "lease" \in user[c].dirty THEN user[c].copy.lease ELSE account.lease
  BY SMT DEF Save, Fields

(* One operation moves.                                                     *)
LEMMA OneMoves ==
  ASSUME TypeOK, NEW c \in Users, NEW v, user' = [user EXCEPT ![c] = v]
  PROVE  user'[c] = v /\ \A d \in Users \ {c} : user'[d] = user[d]
  BY Zenon DEF TypeOK

-----------------------------------------------------------------------------
(* What an operation relies on outlives the steps of the others.            *)

LEMMA KnowsOfCopy ==
  ASSUME NEW d \in Users, NEW u, user'[d] = u, RefreshKnows(u)'
  PROVE  RefreshKnows(user[d])'
  BY Zenon DEF RefreshKnows, Waits, Presents, GivesUp, WasGranted, Failed, Leaves, Takes, Tidy,
     HasTokens

(* Of an operation that does not hold the lease.                            *)
LEMMA KnowsAway ==
  ASSUME TypeOK, NEW u \in User, RefreshKnows(u), u.pc \notin Refreshing,
         Newest \in Nat, Newest' \in Nat, Newest' >= Newest, Frozen => Frozen',
         u.pc = "acquire" /\ ~Frozen' /\ age[u.readAt] # "fresh" => age'[u.readAt] # "fresh",
         Reloads(u) =>
           /\ Newest' = Newest /\ ~Granting'
           /\ ~Frozen' => /\ age'[Newest] = "fresh"
                          /\ ~HasTokens(account)' \/ account'.status = "CONNECTED"
  PROVE  RefreshKnows(u)'
<1>1. u.pc \notin {"reload", "expire", "refresh", "saveTokens", "saveFailure"}
  BY DEF Refreshing
<1>2. Waits(u)'
  BY <1>1, SMT DEF RefreshKnows, Waits
<1>3. Presents(u)' /\ GivesUp(u)' /\ WasGranted(u)' /\ Failed(u)' /\ Takes(u)'
  BY <1>1, SMT DEF RefreshKnows, Presents, GivesUp, WasGranted, Failed, Takes
<1>4. Leaves(u)'
  BY SMT DEF RefreshKnows, Leaves, Reloads, HasTokens
<1> QED
  BY <1>2, <1>3, <1>4, Zenon DEF RefreshKnows

(* Of any operation, while tokens at most age and nothing that was away     *)
(* comes back.                                                              *)
LEMMA KnowsThrough ==
  ASSUME TypeOK, NEW u \in User, RefreshKnows(u),
         ~HasTokens(account) => ~HasTokens(account)',
         ~Frozen' /\ account.status \in Usable => account'.status \in Usable,
         Reloads(u) /\ ~Frozen' => ~HasTokens(account)' \/ account'.status = "CONNECTED",
         Newest \in Nat, Newest' = Newest, Granting' => Granting, Frozen => Frozen',
         u.pc \in Refreshing /\ Carried' => Carried,
         u.pc = "saveTokens" => platform'.current = platform.current /\ ~lost',
         u.pc \in {"acquire", "reload"} /\ age[u.readAt] # "fresh" => age'[u.readAt] # "fresh",
         age[Newest] = "lapsed" => age'[Newest] = "lapsed",
         Reloads(u) /\ ~Frozen' /\ age[Newest] = "fresh" => age'[Newest] = "fresh"
  PROVE  RefreshKnows(u)'
<1>1. Waits(u)'
  BY SMT DEF RefreshKnows, Waits
<1>2. Presents(u)'
  BY SMT DEF RefreshKnows, Presents, Tidy, Healthy, HasTokens, Refreshing
<1>3. GivesUp(u)'
  BY SMT DEF RefreshKnows, GivesUp, Tidy, HasTokens
<1>4. WasGranted(u)'
  BY SMT DEF RefreshKnows, WasGranted, Healthy, Refreshing
<1>5. Failed(u)'
  BY SMT DEF RefreshKnows, Failed, Tidy, Healthy, HasTokens, Refreshing
<1>6. Leaves(u)'
  BY SMT DEF RefreshKnows, Leaves, Reloads, HasTokens
<1>7. Takes(u)'
  BY SMT DEF RefreshKnows, Takes
<1> QED
  BY <1>1, <1>2, <1>3, <1>4, <1>5, <1>6, <1>7, Zenon DEF RefreshKnows

(* In particular while the database stays.                                  *)
LEMMA RefreshKept ==
  ASSUME TypeOK, NEW u \in User, RefreshKnows(u),
         account'.tokens = account.tokens, account'.status = account.status,
         Newest \in Nat, Newest' = Newest, Granting' => Granting, Frozen => Frozen',
         u.pc \in Refreshing /\ Carried' => Carried,
         u.pc = "saveTokens" => platform'.current = platform.current /\ ~lost',
         u.pc \in {"acquire", "reload"} /\ age[u.readAt] # "fresh" => age'[u.readAt] # "fresh",
         age[Newest] = "lapsed" => age'[Newest] = "lapsed",
         Reloads(u) /\ ~Frozen' /\ age[Newest] = "fresh" => age'[Newest] = "fresh"
  PROVE  RefreshKnows(u)'
<1>1. Reloads(u) /\ ~Frozen' => ~HasTokens(account)' \/ account'.status = "CONNECTED"
  BY Zenon DEF RefreshKnows, Leaves, Reloads, HasTokens
<1>2. ~HasTokens(account) => ~HasTokens(account)'
  BY DEF HasTokens
<1> QED
  BY <1>1, <1>2, KnowsThrough, Zenon

-----------------------------------------------------------------------------
(* What a step of one operation leaves alone.                               *)

LEMMA GrantingKept ==
  ASSUME TypeOK, NEW c \in Users, NEW v, user' = [user EXCEPT ![c] = v],
         v.pc = "saveTokens" <=> At(c, "saveTokens")
  PROVE  Granting' <=> Granting
<1>1. user'[c] = v /\ \A d \in Users \ {c} : user'[d] = user[d]
  BY OneMoves, Zenon
<1> QED
  BY <1>1, Zenon DEF Granting, At

LEMMA CarriedKept ==
  ASSUME TypeOK, NEW c \in Users, NEW v, user' = [user EXCEPT ![c] = v],
         Reloads(v) => Reloads(user[c]), Carried'
  PROVE  Carried
<1>1. user'[c] = v /\ \A d \in Users \ {c} : user'[d] = user[d]
  BY OneMoves, Zenon
<1> QED
  BY <1>1, Zenon DEF Carried, Reloads

LEMMA OneHoldsKept ==
  ASSUME TypeOK, OneHolds, NEW c \in Users, NEW v, user' = [user EXCEPT ![c] = v],
         v.pc \in Refreshing => user[c].pc \in Refreshing,
         account'.lease = account.lease
  PROVE  OneHolds'
<1>1. user'[c] = v /\ \A d \in Users \ {c} : user'[d] = user[d]
  BY OneMoves, Zenon
<1>2. \A d \in Users : user'[d].pc \in Refreshing => user[d].pc \in Refreshing
  BY <1>1, Zenon
<1> QED
  BY <1>2, Zenon DEF OneHolds

LEMMA NewestKept ==
  ASSUME TypeOK, Granting' <=> Granting, platform' = platform, lost' = lost
  PROVE  Newest' = Newest /\ (Frozen' <=> Frozen)
  BY Zenon DEF Newest, Frozen

LEMMA NewestTyped ==
  ASSUME TypeOK, AccountIsNewest
  PROVE  Newest \in Nat /\ Newest \in 1..MaxGen
  BY BoundsAssumption, SMT DEF AccountIsNewest

(* A step in which the operation c becomes v, and whatever it does to the   *)
(* lease nothing else changes.                                              *)
LEMMA QuietStep ==
  ASSUME TypeOK, LeaseHolds, NEW c \in Users, NEW v \in User, user' = [user EXCEPT ![c] = v],
         account'.tokens = account.tokens, account'.status = account.status,
         account'.refreshed = account.refreshed,
         age' = age, platform' = platform, lost' = lost,
         v.pc = "saveTokens" <=> At(c, "saveTokens"),
         OneHolds',
         user[c].pc \in Refreshing \/ (Reloads(v) => Reloads(user[c])),
         RefreshKnows(v)'
  PROVE  LeaseHolds' /\ Newest' >= Newest
<1>1. user'[c] = v /\ \A d \in Users \ {c} : user'[d] = user[d]
  BY OneMoves, Zenon
<1>2. Granting' <=> Granting
  BY GrantingKept
<1>3. Newest' = Newest /\ (Frozen' <=> Frozen)
  BY <1>2, NewestKept, Zenon
<1>4. Newest \in Nat /\ Newest \in 1..MaxGen
  BY NewestTyped, Zenon DEF LeaseHolds
<1>5. AccountIsNewest'
  BY <1>3, SMT DEF LeaseHolds, AccountIsNewest, HasTokens
<1>6. ASSUME NEW d \in Users \ {c} PROVE RefreshKnows(user[d])'
  <2>1. PICK u \in User : u = user[d]
    BY Zenon DEF TypeOK
  <2>2. u.pc \in Refreshing /\ Carried' => Carried
    <3>1. CASE user[c].pc \in Refreshing
      BY <2>1, <3>1, Zenon DEF LeaseHolds, OneHolds
    <3>2. CASE Reloads(v) => Reloads(user[c])
      BY <3>2, CarriedKept, Zenon
    <3> QED
      BY <3>1, <3>2
  <2>3. u.pc = "saveTokens" => ~lost'
    BY <2>1, Zenon DEF LeaseHolds, RefreshKnows, WasGranted
  <2>4. RefreshKnows(u)
    BY <2>1, Zenon DEF LeaseHolds
  <2>5. RefreshKnows(u)'
    BY <1>2, <1>3, <1>4, <2>2, <2>3, <2>4, RefreshKept, Zenon
  <2> QED
    BY <1>1, <2>1, <2>5, KnowsOfCopy, Zenon
<1>7. RefreshKnows(user[c])'
  BY <1>1, KnowsOfCopy, Zenon
<1> QED
  BY <1>3, <1>4, <1>5, <1>6, <1>7, SMT DEF LeaseHolds

-----------------------------------------------------------------------------
(* Operations that begin, wait and end.                                     *)

LEMMA NewGives ==
  ASSUME TypeOK, NEW kind \in Kinds, NEW step \in Steps, NEW early \in BOOLEAN
  PROVE  /\ New(kind, step, early) \in User
         /\ New(kind, step, early).pc = step
         /\ New(kind, step, early).copy = account /\ New(kind, step, early).dirty = {}
         /\ New(kind, step, early).readAt = account.refreshed
         /\ New(kind, step, early).began = account.tokens
<1>1. New(kind, step, early) \in User
  BY NewTyped, Zenon
<1> QED
  BY <1>1, SMT DEF New

LEMMA IdleKnows ==
  ASSUME TypeOK
  PROVE  /\ Idle \in User /\ Idle.pc = "idle" /\ ~Reloads(Idle)
         /\ RefreshKnows(Idle) /\ RefreshKnows(Idle)'
<1>1. Idle.pc = "idle"
  BY SMT DEF Idle
<1> QED
  BY <1>1, IdleTyped, Zenon DEF Reloads, Leaving, RefreshKnows, Waits, Presents, GivesUp,
     WasGranted, Failed, Leaves, Takes

(* A copy of the account whose tokens need to be refreshed, or one that can *)
(* be used.                                                                 *)
LEMMA BeginsWell ==
  ASSUME TypeOK, LeaseHolds, NEW c \in Users, At(c, "idle"), HasTokens(account),
         NEW kind \in Kinds, NEW step \in {"acquire", "operate"}, NEW early \in BOOLEAN,
         NEW v, v = New(kind, step, early), user' = [user EXCEPT ![c] = v],
         step = "acquire" => account.status = "EXPIRED" \/ AgeOf(account) # "fresh",
         step = "operate" => account.status = "CONNECTED",
         account' = account, age' = age, platform' = platform, lost' = lost
  PROVE  LeaseHolds' /\ Newest' >= Newest
<1>1. step \in Steps
  BY DEF Steps
<1>2. /\ v \in User /\ v.pc = step /\ v.copy = account /\ v.dirty = {}
      /\ v.readAt = account.refreshed /\ v.began = account.tokens
  BY <1>1, NewGives
<1>3. /\ v.pc \notin Refreshing /\ v.pc # "saveTokens" /\ ~Reloads(v) /\ ~At(c, "saveTokens")
  BY <1>2, SMT DEF Refreshing, Reloads, At
<1>4. OneHolds'
  BY <1>3, OneHoldsKept DEF LeaseHolds
<1>5. Newest' = Newest /\ (Frozen' <=> Frozen)
  BY <1>3, GrantingKept, NewestKept, Zenon
<1>6. /\ Newest \in Nat /\ Newest \in 1..MaxGen
      /\ account.tokens = Newest /\ account.refreshed = Newest
      /\ ~Frozen /\ account.status = "EXPIRED" => age[Newest] = "lapsed"
  BY NewestTyped, SMT DEF LeaseHolds, AccountIsNewest, HasTokens
<1>7. Waits(v)'
  BY <1>2, <1>5, <1>6, SMT DEF Waits, AgeOf
<1>8. Leaves(v)'
  BY <1>2, <1>5, SMT DEF Leaves, Leaving
<1>9. RefreshKnows(v)'
  BY <1>2, <1>7, <1>8, SMT DEF RefreshKnows, Presents, GivesUp, WasGranted, Failed, Takes
<1> QED
  BY <1>2, <1>3, <1>4, <1>9, QuietStep, Zenon

LEMMA LoadHolds ==
  ASSUME TypeOK, LeaseHolds, NEW c \in Users, NEW kind \in Kinds, Load(c, kind)
  PROVE  LeaseHolds' /\ Newest' >= Newest
<1>1. /\ At(c, "idle") /\ HasTokens(account) /\ account.status \in {"CONNECTED", "EXPIRED"}
      /\ UNCHANGED <<account, age, platform, lost>>
  BY Zenon DEF Load
<1>2. CASE MustRefresh
  <2>1. user' = [user EXCEPT ![c] = New(kind, "acquire", FALSE)]
    BY <1>2, Zenon DEF Load
  <2>2. account.status = "EXPIRED" \/ AgeOf(account) # "fresh"
    BY <1>2, Zenon DEF MustRefresh
  <2> QED
    BY <1>1, <2>1, <2>2, BeginsWell, Zenon
<1>3. CASE ~MustRefresh /\ AgeOf(account) = "soon"
  <2>1. user' = [user EXCEPT ![c] = New(kind, "acquire", TRUE)]
    BY <1>3, Zenon DEF Load
  <2>2. AgeOf(account) # "fresh"
    BY <1>3, Zenon
  <2> QED
    BY <1>1, <2>1, <2>2, BeginsWell, Zenon
<1>4. CASE ~MustRefresh /\ AgeOf(account) # "soon"
  <2>1. user' = [user EXCEPT ![c] = New(kind, "operate", FALSE)]
    BY <1>4, Zenon DEF Load
  <2>2. account.status = "CONNECTED"
    BY <1>1, <1>4, Zenon DEF MustRefresh
  <2> QED
    BY <1>1, <2>1, <2>2, BeginsWell, Zenon
<1> QED
  BY <1>2, <1>3, <1>4

LEMMA LoadExpiringHolds ==
  ASSUME TypeOK, LeaseHolds, NEW c \in Users, LoadExpiring(c)
  PROVE  LeaseHolds' /\ Newest' >= Newest
<1>1. /\ At(c, "idle") /\ HasTokens(account) /\ AgeOf(account) # "fresh"
      /\ UNCHANGED <<account, age, platform, lost>>
      /\ user' = [user EXCEPT ![c] = New("sweep", "acquire", FALSE)]
  BY Zenon DEF LoadExpiring
<1>2. "sweep" \in Kinds
  BY DEF Kinds
<1> QED
  BY <1>1, <1>2, BeginsWell, Zenon

(* An operation that is over.                                               *)
LEMMA RestsWell ==
  ASSUME TypeOK, LeaseHolds, NEW c \in Users, Rest(c), ~At(c, "saveTokens"),
         account' = account, age' = age, platform' = platform, lost' = lost
  PROVE  LeaseHolds' /\ Newest' >= Newest
<1>1. Idle \in User /\ Idle.pc = "idle" /\ ~Reloads(Idle) /\ RefreshKnows(Idle)'
  BY IdleKnows
<1>2. user' = [user EXCEPT ![c] = Idle]
  BY DEF Rest
<1>3. Idle.pc \notin Refreshing /\ Idle.pc # "saveTokens"
  BY <1>1, Zenon DEF Refreshing
<1>4. OneHolds'
  BY <1>2, <1>3, OneHoldsKept DEF LeaseHolds
<1> QED
  BY <1>1, <1>2, <1>3, <1>4, QuietStep, Zenon

LEMMA StopWaitingHolds ==
  ASSUME TypeOK, LeaseHolds, NEW c \in Users, StopWaiting(c)
  PROVE  LeaseHolds' /\ Newest' >= Newest
<1>1. PICK u \in User : u = user[c] /\ u.pc = "acquire" /\ RefreshKnows(u)
  BY Zenon DEF TypeOK, StopWaiting, At, LeaseHolds
<1>2. /\ user' = [user EXCEPT ![c] = AfterFailure(u)]
      /\ account' = account /\ age' = age /\ platform' = platform /\ lost' = lost
      /\ ~At(c, "saveTokens")
  BY <1>1, Zenon DEF StopWaiting, At
<1>3. CASE AfterFailure(u) = Idle
  BY <1>2, <1>3, RestsWell, Zenon DEF Rest
<1>4. CASE u.copy.status = "CONNECTED" /\ AfterFailure(u) = [u EXCEPT !.pc = "operate"]
  <2>1. PICK v : v = [u EXCEPT !.pc = "operate"]
    OBVIOUS
  <2>2. "operate" \in Steps
    BY DEF Steps
  <2>3. v \in User /\ v.pc = "operate" /\ v.copy = u.copy /\ v.dirty = u.dirty /\ u.dirty = {}
    BY ONLY <1>1, <2>1, <2>2, StepGives, SMT DEF RefreshKnows, Waits
  <2>4. user' = [user EXCEPT ![c] = v]
    BY <1>2, <1>4, <2>1
  <2>5. v.pc \notin Refreshing /\ v.pc # "saveTokens" /\ ~Reloads(v)
    BY <2>3, SMT DEF Refreshing, Reloads
  <2>6. OneHolds'
    BY <1>2, <2>4, <2>5, OneHoldsKept DEF LeaseHolds
  <2>7. RefreshKnows(v)'
    BY <1>4, <2>3, SMT DEF RefreshKnows, Waits, Presents, GivesUp, WasGranted, Failed, Leaves,
       Takes, Leaving
  <2> QED
    BY <1>2, <2>3, <2>4, <2>5, <2>6, <2>7, QuietStep, Zenon
<1> QED
  BY <1>3, <1>4, Zenon DEF AfterFailure

-----------------------------------------------------------------------------
(* Refreshing: from the lease to the platform's answer.                     *)

LEMMA AcquireHolds ==
  ASSUME TypeOK, LeaseHolds, NEW c \in Users, Acquire(c)
  PROVE  LeaseHolds' /\ Newest' >= Newest
<1>1. PICK u \in User : u = user[c] /\ u.pc = "acquire" /\ RefreshKnows(u)
  BY Zenon DEF TypeOK, Acquire, At, LeaseHolds
<1>2. PICK v : v = [u EXCEPT !.pc = "reload"]
  OBVIOUS
<1>3. "reload" \in Steps
  BY DEF Steps
<1>4. /\ v \in User /\ v.pc = "reload" /\ v.readAt = u.readAt /\ v.began = u.began
      /\ v.copy = u.copy /\ v.dirty = u.dirty
  BY ONLY <1>1, <1>2, <1>3, StepGives
<1>5. user' = [user EXCEPT ![c] = v]
  BY <1>1, <1>2 DEF Acquire, Goto
<1>6. /\ account'.tokens = account.tokens /\ account'.status = account.status
      /\ account'.refreshed = account.refreshed /\ account'.lease = "held"
  BY SMT DEF Acquire, TypeOK, Account
<1>7. age' = age /\ platform' = platform /\ lost' = lost /\ account.lease # "held"
  BY Zenon DEF Acquire, LeaseFree
<1>8. ~At(c, "saveTokens") /\ v.pc # "saveTokens" /\ ~Reloads(v)
  BY <1>1, <1>4, SMT DEF At, Reloads, Leaving
<1>9. OneHolds'
  <2>1. user'[c] = v /\ \A d \in Users \ {c} : user'[d] = user[d]
    BY <1>5, OneMoves, Zenon
  <2>2. \A d \in Users : user[d].pc \notin Refreshing
    BY <1>7, Zenon DEF LeaseHolds, OneHolds
  <2> QED
    BY <1>6, <2>1, <2>2, Zenon DEF OneHolds
<1>10. Newest' = Newest /\ (Frozen' <=> Frozen)
  BY <1>5, <1>7, <1>8, GrantingKept, NewestKept, Zenon
<1>11. RefreshKnows(v)'
  BY <1>1, <1>4, <1>7, <1>10, SMT DEF RefreshKnows, Waits, Presents, GivesUp, WasGranted, Failed,
     Leaves, Takes, Leaving
<1> QED
  BY <1>4, <1>5, <1>6, <1>7, <1>8, <1>9, <1>11, QuietStep, Zenon

(* reloadTokens: the copy has the tokens of the account, and those it did   *)
(* not have are modified in it.                                             *)
LEMMA ReloadGives ==
  ASSUME TypeOK, NEW u \in User, NEW v, v = Reloaded(u)
  PROVE  /\ v \in User /\ v.readAt = u.readAt /\ v.began = u.began
         /\ v.failed = u.failed /\ v.kind = u.kind
         /\ v.copy.status = account.status /\ v.copy.tokens = account.tokens
         /\ v.copy.refreshed = account.refreshed
         /\ "status" \in v.dirty <=> "status" \in u.dirty \/ account.status # u.copy.status
         /\ "tokens" \in v.dirty <=> "tokens" \in u.dirty \/ account.tokens # u.copy.tokens
         /\ "refreshed" \in v.dirty
              <=> "refreshed" \in u.dirty \/ account.refreshed # u.copy.refreshed
         /\ "lease" \in v.dirty <=> "lease" \in u.dirty
<1> DEFINE values == [f \in {"status", "tokens", "refreshed"} |-> account[f]]
<1>1. /\ DOMAIN values = {"status", "tokens", "refreshed"}
      /\ values["status"] = account["status"]
      /\ values["tokens"] = account["tokens"]
      /\ values["refreshed"] = account["refreshed"]
  BY SMT
<1>2. /\ account["status"] \in Statuses /\ account["tokens"] \in Gens
      /\ account["refreshed"] \in Gens
  BY SMT DEF TypeOK, Account
<1>3. /\ DOMAIN values \subseteq Fields /\ "lease" \notin DOMAIN values
      /\ {"status", "tokens", "refreshed", "lease"} \subseteq Fields
  BY <1>1, SMT DEF Fields
<1>4. v = Set(u, values)
  BY Zenon DEF Reloaded
<1> HIDE DEF values
<1>5. v \in User
  BY <1>1, <1>2, <1>3, <1>4, SetTyped, Zenon
<1>6. /\ v.readAt = u.readAt /\ v.began = u.began /\ v.failed = u.failed /\ v.kind = u.kind
      /\ \A f \in Fields : v.copy[f] = IF f \in DOMAIN values THEN values[f] ELSE u.copy[f]
      /\ \A f \in Fields : f \in v.dirty
             <=> f \in u.dirty \/ (f \in DOMAIN values /\ values[f] # u.copy[f])
  BY ONLY <1>3, <1>4, SetGives, u \in User
<1>7. /\ v.copy["status"] = account["status"] /\ v.copy["tokens"] = account["tokens"]
      /\ v.copy["refreshed"] = account["refreshed"]
      /\ "status" \in v.dirty <=> "status" \in u.dirty \/ account["status"] # u.copy["status"]
      /\ "tokens" \in v.dirty <=> "tokens" \in u.dirty \/ account["tokens"] # u.copy["tokens"]
      /\ "refreshed" \in v.dirty
           <=> "refreshed" \in u.dirty \/ account["refreshed"] # u.copy["refreshed"]
      /\ "lease" \in v.dirty <=> "lease" \in u.dirty
  BY ONLY <1>1, <1>3, <1>6, SMT
<1> QED
  BY ONLY <1>5, <1>6, <1>7, SMT

LEMMA ReloadHolds ==
  ASSUME TypeOK, LeaseHolds, NEW c \in Users, Reload(c)
  PROVE  LeaseHolds' /\ Newest' >= Newest
<1>1. PICK u \in User : u = user[c] /\ u.pc = "reload" /\ RefreshKnows(u)
  BY Zenon DEF TypeOK, Reload, At, LeaseHolds
<1>2. PICK w \in User : w = Reloaded(u)
  BY <1>1, ReloadGives
<1>3. /\ w.readAt = u.readAt /\ w.began = u.began
      /\ w.copy.status = account.status /\ w.copy.tokens = account.tokens
      /\ w.copy.refreshed = account.refreshed
      /\ "status" \in w.dirty <=> "status" \in u.dirty \/ account.status # u.copy.status
      /\ "tokens" \in w.dirty <=> "tokens" \in u.dirty \/ account.tokens # u.copy.tokens
      /\ "refreshed" \in w.dirty
           <=> "refreshed" \in u.dirty \/ account.refreshed # u.copy.refreshed
      /\ "lease" \in w.dirty <=> "lease" \in u.dirty
  BY <1>1, <1>2, ReloadGives
<1> DEFINE next == IF Renewed(w) THEN "release"
                   ELSE IF ~HasTokens(w.copy) \/ AgeOf(w.copy) = "lapsed" THEN "expire"
                   ELSE "refresh"
<1>4. PICK v : v = [w EXCEPT !.pc = next]
  OBVIOUS
<1>5. next \in {"release", "expire", "refresh"} /\ next \in Steps
  BY SMT DEF Steps
<1>6. user' = [user EXCEPT ![c] = v] /\ account' = account /\ age' = age
      /\ platform' = platform /\ lost' = lost
  BY <1>1, <1>2, <1>4, Zenon DEF Reload
<1>7. /\ v \in User /\ v.pc = next /\ v.readAt = w.readAt /\ v.began = w.began
      /\ v.copy = w.copy /\ v.dirty = w.dirty
  <2> HIDE DEF next
  <2> QED
    BY ONLY <1>4, <1>5, StepGives, w \in User
<1>8. /\ v.pc # "saveTokens" /\ ~At(c, "saveTokens") /\ user[c].pc \in Refreshing
  BY <1>1, <1>5, <1>7, SMT DEF At, Refreshing
<1>9. OneHolds'
  BY <1>6, <1>8, OneHoldsKept DEF LeaseHolds
<1>10. (Granting' <=> Granting) /\ Newest' = Newest /\ (Frozen' <=> Frozen)
  BY <1>6, <1>8, GrantingKept, NewestKept, Zenon
<1>11. v.pc # "release" /\ Carried' => Carried
  <2>1. v.pc # "release" => ~Reloads(v)
    BY <1>5, <1>7, SMT DEF Reloads, Leaving
  <2> QED
    BY <1>6, <2>1, CarriedKept, Zenon
(* Nobody else is in the middle of granting, and reloaded tokens that are   *)
(* not renewed are those of the account.                                    *)
<1>12. ~Granting
  BY <1>1, SMT DEF LeaseHolds, OneHolds, Granting, At, Refreshing
<1>13. Newest \in Nat /\ Newest \in 1..MaxGen
  BY NewestTyped, Zenon DEF LeaseHolds
<1>14. /\ u.dirty = {} /\ u.copy.tokens = u.readAt /\ u.copy.refreshed = u.readAt
       /\ u.began = u.readAt /\ u.readAt \in 1..Newest /\ (~Frozen => age[u.readAt] # "fresh")
  BY <1>1, Zenon DEF RefreshKnows, Waits
<1>15. /\ account.tokens \in {NoTokens, Newest} /\ account.refreshed <= Newest
       /\ HasTokens(account) => account.refreshed = account.tokens
       /\ ~Frozen => /\ account.status \in Usable \union {"EXPIRED"}
                     /\ account.status = "EXPIRED" /\ HasTokens(account) => age[Newest] = "lapsed"
  BY Zenon DEF LeaseHolds, AccountIsNewest
<1>16. Tidy(v)
  BY <1>3, <1>7, <1>14, <1>15, SMT DEF Tidy, HasTokens, NoTokens
<1>17. CASE Renewed(w)
  <2>1. /\ v.pc = "release" /\ v.copy.tokens = Newest /\ v.copy.refreshed = Newest
        /\ age[Newest] = "fresh" /\ v.copy.status = "CONNECTED" /\ u.readAt < Newest
        /\ {"tokens", "refreshed"} \subseteq v.dirty /\ v.began < Newest
    BY <1>3, <1>7, <1>13, <1>14, <1>15, <1>17, SMT DEF Renewed, HasTokens, AgeOf
  <2>2. Leaves(v)'
    BY <1>3, <1>6, <1>7, <1>10, <1>12, <1>16, <2>1, SMT DEF Leaves, Tidy
  <2>3. RefreshKnows(v)'
    BY <2>1, <2>2, SMT DEF RefreshKnows, Waits, Presents, GivesUp, WasGranted,
       Failed, Takes
  <2> QED
    BY <1>6, <1>7, <1>8, <1>9, <2>3, QuietStep, Zenon
<1>18. CASE ~Renewed(w) /\ next = "expire"
  <2>1. ~HasTokens(w.copy) \/ age[w.copy.tokens] = "lapsed"
    BY <1>18, Zenon DEF AgeOf
  <2>2. GivesUp(v)'
    BY <1>3, <1>6, <1>7, <1>10, <1>13, <1>15, <1>16, <2>1, SMT DEF GivesUp, HasTokens, Tidy
  <2>3. RefreshKnows(v)'
    BY <1>7, <1>18, <2>2, SMT DEF RefreshKnows, Waits, Presents, Leaves, WasGranted,
       Failed, Takes, Leaving
  <2> QED
    BY <1>6, <1>7, <1>8, <1>9, <2>3, QuietStep, Zenon
<1>19. CASE ~Renewed(w) /\ next = "refresh"
  <2>1. w.copy.tokens = Newest /\ HasTokens(account) /\ age[Newest] # "lapsed"
    BY <1>3, <1>15, <1>19, SMT DEF HasTokens, AgeOf
  <2>2. ~Frozen => v.copy.status \in Usable /\ account.status \in Usable
    BY <1>3, <1>7, <1>15, <2>1, SMT
  (* Reloaded tokens that somebody still carries are fresh: not renewing    *)
  (* them would mean that they are not newer than those it had.             *)
  <2>3. ~Frozen => ~Carried
    <3> SUFFICES ASSUME ~Frozen, Carried PROVE FALSE
      OBVIOUS
    <3>1. PICK d \in Users : Reloads(user[d])
      BY DEF Carried
    <3>2. /\ age[Newest] = "fresh"
          /\ ~HasTokens(account) \/ account.status = "CONNECTED"
      BY <3>1, Zenon DEF LeaseHolds, RefreshKnows, Leaves, Reloads
    <3>3. account.refreshed = Newest /\ account.status = "CONNECTED" /\ u.readAt # Newest
      BY <1>3, <1>14, <1>15, <2>1, <3>2, SMT DEF HasTokens
    <3> QED
      BY <1>3, <1>13, <1>14, <1>19, <2>1, <3>2, <3>3, SMT DEF Renewed, AgeOf, HasTokens
  <2>4. Presents(v)'
    BY <1>3, <1>6, <1>7, <1>10, <1>11, <1>16, <1>19, <2>1, <2>2, <2>3, SMT DEF Presents, Tidy, Healthy,
       HasTokens
  <2>5. RefreshKnows(v)'
    BY <1>7, <1>19, <2>4, SMT DEF RefreshKnows, Waits, GivesUp, Leaves, WasGranted,
       Failed, Takes, Leaving
  <2> QED
    BY <1>6, <1>7, <1>8, <1>9, <2>5, QuietStep, Zenon
<1> QED
  BY <1>17, <1>18, <1>19, Zenon

(* The holder gives up, and saves why.                                      *)
LEMMA FailsWell ==
  ASSUME TypeOK, LeaseHolds, NEW c \in Users, NEW u \in User, u = user[c],
         u.pc \in {"expire", "refresh"}, NEW v \in User, v.pc = "saveFailure",
         v.copy.tokens = u.copy.tokens, v.copy.refreshed = u.copy.refreshed,
         "tokens" \in v.dirty <=> "tokens" \in u.dirty,
         "refreshed" \in v.dirty <=> "refreshed" \in u.dirty,
         "lease" \in v.dirty <=> "lease" \in u.dirty,
         v.copy.status = u.copy.status \/ (v.copy.status = "EXPIRED" /\ u.pc = "expire") \/ Frozen,
         user' = [user EXCEPT ![c] = v],
         account' = account, age' = age, platform' = platform, lost' = lost
  PROVE  LeaseHolds' /\ Newest' >= Newest
<1>1. RefreshKnows(u)
  BY Zenon DEF LeaseHolds
<1>2. v.pc # "saveTokens" /\ ~At(c, "saveTokens") /\ user[c].pc \in Refreshing /\ ~Reloads(v)
  BY SMT DEF At, Refreshing, Reloads, Leaving
<1>3. OneHolds'
  BY <1>2, OneHoldsKept DEF LeaseHolds
<1>4. Newest' = Newest /\ (Frozen' <=> Frozen)
  BY <1>2, GrantingKept, NewestKept, Zenon
<1>5. Carried' => Carried
  BY <1>2, CarriedKept, Zenon
<1>6. Newest \in Nat /\ Newest \in 1..MaxGen
  BY NewestTyped, Zenon DEF LeaseHolds
<1>7. Tidy(u) /\ Tidy(v)
  BY <1>1, SMT DEF RefreshKnows, Presents, GivesUp, Tidy, HasTokens
<1>8. Failed(v)'
  <2>1. Tidy(v)' /\ v.copy.tokens \in {NoTokens, Newest} /\ v.copy.refreshed <= Newest
    BY <1>1, <1>6, <1>7, SMT DEF RefreshKnows, Presents, GivesUp, Tidy, HasTokens, NoTokens
  <2>2. ASSUME ~Frozen, u.pc = "expire"
        PROVE  \/ /\ ~HasTokens(v.copy) /\ ~HasTokens(account)
                  /\ v.copy.status \in Usable \union {"EXPIRED"}
               \/ age[Newest] = "lapsed" /\ v.copy.status \in Usable \union {"EXPIRED"}
    BY <1>1, <2>2, SMT DEF RefreshKnows, GivesUp, HasTokens
  <2>3. ASSUME ~Frozen, u.pc = "refresh"
        PROVE  v.copy.status \in Usable /\ Healthy
    BY <1>1, <2>3, SMT DEF RefreshKnows, Presents
  <2> QED
    BY <1>4, <1>5, <2>1, <2>2, <2>3, SMT DEF Failed, Healthy, HasTokens
<1>9. RefreshKnows(v)'
  BY <1>8, SMT DEF RefreshKnows, Waits, Presents, GivesUp, WasGranted, Leaves, Takes, Leaving
<1> QED
  BY <1>2, <1>3, <1>9, QuietStep, Zenon

LEMMA ExpireHolds ==
  ASSUME TypeOK, LeaseHolds, NEW c \in Users, Expire(c)
  PROVE  LeaseHolds' /\ Newest' >= Newest
<1>1. PICK u \in User : u = user[c] /\ u.pc = "expire"
  BY Zenon DEF TypeOK, Expire, At
<1>2. "EXPIRED" \in Statuses /\ "saveFailure" \in Steps
  BY DEF Statuses, Steps
<1>3. PICK v : /\ v = [Set(u, [status |-> "EXPIRED"]) EXCEPT !.pc = "saveFailure"]
               /\ StatusSet(v, u, "EXPIRED", "saveFailure")
  BY <1>1, <1>2, StatusGives, Zenon
<1>4. /\ v \in User /\ v.pc = "saveFailure"
      /\ v.copy.status = "EXPIRED" /\ v.copy.tokens = u.copy.tokens
      /\ v.copy.refreshed = u.copy.refreshed
      /\ "tokens" \in v.dirty <=> "tokens" \in u.dirty
      /\ "refreshed" \in v.dirty <=> "refreshed" \in u.dirty
      /\ "lease" \in v.dirty <=> "lease" \in u.dirty
  BY <1>3, Zenon DEF StatusSet
<1>5. /\ user' = [user EXCEPT ![c] = v]
      /\ account' = account /\ age' = age /\ platform' = platform /\ lost' = lost
  BY <1>1, <1>3, Zenon DEF Expire
<1> QED
  BY <1>1, <1>4, <1>5, FailsWell, Zenon

LEMMA RefreshFailsHolds ==
  ASSUME TypeOK, LeaseHolds, NEW c \in Users, RefreshFails(c)
  PROVE  LeaseHolds' /\ Newest' >= Newest
<1>1. PICK u \in User : u = user[c] /\ u.pc = "refresh"
  BY Zenon DEF TypeOK, RefreshFails, At
<1>2. "saveFailure" \in Steps
  BY DEF Steps
<1>3. PICK v : v = [u EXCEPT !.pc = "saveFailure"]
  OBVIOUS
<1>4. v \in User /\ v.pc = "saveFailure" /\ v.copy = u.copy /\ v.dirty = u.dirty
  BY ONLY <1>1, <1>2, <1>3, StepGives
<1>5. /\ user' = [user EXCEPT ![c] = v]
      /\ account' = account /\ age' = age /\ platform' = platform /\ lost' = lost
  BY <1>1, <1>3, Zenon DEF RefreshFails, Goto
<1> QED
  BY <1>1, <1>4, <1>5, FailsWell, Zenon

(* The tokens of who asks are the newest, and nobody else is being granted  *)
(* any: the platform refuses them only if it refuses everything.            *)
LEMMA WhoAsks ==
  ASSUME TypeOK, LeaseHolds, NEW c \in Users, NEW u \in User, u = user[c], u.pc = "refresh"
  PROVE  /\ RefreshKnows(u) /\ Presents(u) /\ ~Granting /\ u.copy.tokens = Newest
         /\ Newest = IF lost THEN platform.current - 1 ELSE platform.current
         /\ platform.current \in Nat /\ Newest \in 1..MaxGen /\ Newest \in Nat
<1>1. RefreshKnows(u) /\ Presents(u) /\ u.copy.tokens = Newest
  BY Zenon DEF LeaseHolds, RefreshKnows, Presents
<1>2. ~Granting
  BY SMT DEF LeaseHolds, OneHolds, Granting, At, Refreshing
<1>3. Newest = IF lost THEN platform.current - 1 ELSE platform.current
  BY <1>2, Zenon DEF Newest
<1>4. platform.current \in Nat /\ Newest \in Nat /\ Newest \in 1..MaxGen
  BY BoundsAssumption, NewestTyped, SMT DEF TypeOK, LeaseHolds
<1> QED
  BY <1>1, <1>2, <1>3, <1>4

LEMMA RefusedHolds ==
  ASSUME TypeOK, LeaseHolds, NEW c \in Users, At(c, "refresh"), ~Grants(c),
         NEW status \in {"REAUTH_REQUIRED", "ERROR"}, Refused(c, status),
         account' = account, age' = age, platform' = platform, lost' = lost
  PROVE  LeaseHolds' /\ Newest' >= Newest
<1>1. PICK u \in User : u = user[c] /\ u.pc = "refresh"
  BY Zenon DEF TypeOK, At
<1>2. status \in Statuses /\ "saveFailure" \in Steps
  BY SMT DEF Statuses, Steps
<1>3. PICK v : /\ v = [Set(u, [status |-> status]) EXCEPT !.pc = "saveFailure"]
               /\ StatusSet(v, u, status, "saveFailure")
  BY <1>1, <1>2, StatusGives, Zenon
<1>4. /\ v \in User /\ v.pc = "saveFailure" /\ v.copy.tokens = u.copy.tokens
      /\ v.copy.refreshed = u.copy.refreshed
      /\ "tokens" \in v.dirty <=> "tokens" \in u.dirty
      /\ "refreshed" \in v.dirty <=> "refreshed" \in u.dirty
      /\ "lease" \in v.dirty <=> "lease" \in u.dirty
  BY <1>3, Zenon DEF StatusSet
<1>5. user' = [user EXCEPT ![c] = v]
  BY <1>1, <1>3, Zenon DEF Refused
<1>6. Frozen
  BY <1>1, WhoAsks, SMT DEF Grants, Frozen, TypeOK
<1> QED
  BY <1>1, <1>4, <1>5, <1>6, FailsWell, Zenon

(* What a granted copy holds.                                               *)
GrantSet(v, u, n) ==
  /\ v \in User /\ v.pc = "saveTokens" /\ v.copy.status = "CONNECTED"
  /\ v.copy.tokens = n /\ v.copy.refreshed = n
  /\ n # u.copy.tokens => "tokens" \in v.dirty
  /\ n # u.copy.refreshed => "refreshed" \in v.dirty
  /\ "lease" \in v.dirty <=> "lease" \in u.dirty
LEMMA GrantGives ==
  ASSUME NEW u \in User, NEW n \in Gens
  PROVE  GrantSet([Set(u, [tokens |-> n, refreshed |-> n, status |-> "CONNECTED"])
                     EXCEPT !.pc = "saveTokens"], u, n)
<1>0. PICK v : v = [Set(u, [tokens |-> n, refreshed |-> n, status |-> "CONNECTED"])
                      EXCEPT !.pc = "saveTokens"]
  OBVIOUS
<1> DEFINE values == [tokens |-> n, refreshed |-> n, status |-> "CONNECTED"]
<1>1. /\ DOMAIN values = {"tokens", "refreshed", "status"} /\ values["tokens"] = n
      /\ values["refreshed"] = n /\ values["status"] = "CONNECTED"
  BY SMT
<1>2. /\ DOMAIN values \subseteq Fields /\ "lease" \notin DOMAIN values
      /\ {"status", "tokens", "refreshed", "lease"} \subseteq Fields
      /\ "CONNECTED" \in Statuses /\ "saveTokens" \in Steps
  BY <1>1, SMT DEF Fields, Statuses, Steps
<1>3. v = [Set(u, values) EXCEPT !.pc = "saveTokens"]
  BY <1>0, Zenon
<1> HIDE DEF values
<1>4. Set(u, values) \in User
  BY <1>1, <1>2, SetTyped, Zenon
<1>5. PICK s \in User : s = Set(u, values) /\ v = [s EXCEPT !.pc = "saveTokens"]
  BY <1>3, <1>4, Zenon
<1>6. v \in User /\ v.pc = "saveTokens" /\ v.copy = s.copy /\ v.dirty = s.dirty
  <2>1. v = [s EXCEPT !.pc = "saveTokens"]
    BY <1>5
  <2> QED
    BY ONLY <1>2, <2>1, s \in User, SMT DEF User
<1>7. /\ \A f \in Fields : s.copy[f] = IF f \in DOMAIN values THEN values[f] ELSE u.copy[f]
      /\ \A f \in Fields : f \in s.dirty
             <=> f \in u.dirty \/ (f \in DOMAIN values /\ values[f] # u.copy[f])
  <2>1. s = Set(u, values)
    BY <1>5
  <2> QED
    BY ONLY <1>2, <2>1, SetGives, u \in User
<1>8. /\ s.copy["status"] = "CONNECTED" /\ s.copy["tokens"] = n /\ s.copy["refreshed"] = n
      /\ n # u.copy["tokens"] => "tokens" \in s.dirty
      /\ n # u.copy["refreshed"] => "refreshed" \in s.dirty
      /\ "lease" \in s.dirty <=> "lease" \in u.dirty
  BY ONLY <1>1, <1>2, <1>7, SMT
<1>9. GrantSet(v, u, n)
  BY ONLY <1>6, <1>8, SMT DEF GrantSet
<1> QED
  BY <1>0, <1>9, Zenon

(* Somebody else's step while c holds the lease and something is granted:   *)
(* who carries reloaded tokens would have kept c from asking.               *)
LEMMA GrantedHolds ==
  ASSUME TypeOK, LeaseHolds, NEW c \in Users, At(c, "refresh"), Grants(c),
         platform.current < MaxGen, NEW v, user' = [user EXCEPT ![c] = v],
         v = [Set(user[c], [tokens |-> platform'.current, refreshed |-> platform'.current,
                            status |-> "CONNECTED"]) EXCEPT !.pc = "saveTokens"],
         platform' = [platform EXCEPT !.current = @ + 1],
         account' = account, age' = age, lost' = lost
  PROVE  LeaseHolds' /\ Newest' >= Newest
<1>1. PICK u \in User : u = user[c] /\ u.pc = "refresh"
  BY Zenon DEF TypeOK, At
<1>2. PICK n \in Gens : n = platform'.current /\ n = platform.current + 1
  BY GrantTyped, SMT DEF TypeOK
<1>3. v = [Set(u, [tokens |-> n, refreshed |-> n, status |-> "CONNECTED"])
             EXCEPT !.pc = "saveTokens"]
  BY <1>1, <1>2, Zenon
<1>4. v \in User /\ GrantSet(v, u, n)
  <2>1. GrantSet(v, u, n)
    BY ONLY <1>3, GrantGives, u \in User, n \in Gens, Zenon
  <2> QED
    BY <2>1, Zenon DEF GrantSet
<1>5. /\ RefreshKnows(u) /\ Presents(u) /\ ~Granting /\ u.copy.tokens = Newest
      /\ Newest = IF lost THEN platform.current - 1 ELSE platform.current
      /\ platform.current \in Nat /\ Newest \in 1..MaxGen /\ Newest \in Nat
  BY <1>1, WhoAsks, Zenon
<1>6. ~lost /\ ~platform.revoked /\ ~Frozen /\ Newest = platform.current
  BY <1>1, <1>5, SMT DEF Grants, TypeOK, Frozen
<1>7. user'[c] = v /\ \A d \in Users \ {c} : user'[d] = user[d]
  BY OneMoves, Zenon
<1>8. Granting'
  BY <1>4, <1>7, Zenon DEF Granting, At, GrantSet
<1>9. Newest' = Newest
  BY <1>2, <1>5, <1>6, <1>8, SMT DEF Newest
<1>10. ~Frozen'
  BY <1>6, SMT DEF Frozen, TypeOK
<1>11. OneHolds'
  <2>1. v.pc \in Refreshing /\ user[c].pc \in Refreshing
    BY <1>1, <1>4, SMT DEF Refreshing, GrantSet
  <2> QED
    BY <2>1, OneHoldsKept DEF LeaseHolds
<1>12. AccountIsNewest'
  BY <1>6, <1>9, <1>10, SMT DEF LeaseHolds, AccountIsNewest, HasTokens
<1>13. /\ Tidy(u) /\ account.status \in Usable /\ ~Carried
  BY <1>1, <1>5, <1>6, Zenon DEF Presents, Healthy
<1>14. RefreshKnows(user[c])'
  <2>1. ~Carried'
    <3>1. ~Reloads(v)
      BY <1>4, SMT DEF Reloads, Leaving, GrantSet
    <3> QED
      BY <1>13, <3>1, CarriedKept, Zenon
  <2>2. /\ "tokens" \in v.dirty /\ "refreshed" \in v.dirty /\ "lease" \notin v.dirty
    BY <1>2, <1>4, <1>5, <1>6, <1>13, SMT DEF Tidy, GrantSet, HasTokens, NoTokens
  <2>3. WasGranted(v)'
    BY <1>2, <1>4, <1>6, <1>13, <2>1, <2>2, SMT DEF WasGranted, GrantSet, Healthy
  <2>4. RefreshKnows(v)'
    BY <1>4, <2>3, SMT DEF GrantSet, RefreshKnows, Waits, Presents, GivesUp, Failed, Leaves, Takes, Leaving
  <2> QED
    BY <1>7, <2>4, KnowsOfCopy, Zenon
<1>15. ASSUME NEW d \in Users \ {c} PROVE RefreshKnows(user[d])'
  <2>1. PICK w \in User : w = user[d] /\ RefreshKnows(w)
    BY Zenon DEF TypeOK, LeaseHolds
  <2>2. w.pc \notin Refreshing /\ ~Reloads(w)
    BY <1>1, <1>13, <2>1, SMT DEF LeaseHolds, OneHolds, Carried, Refreshing
  <2>3. RefreshKnows(w)'
    BY <1>5, <1>6, <1>9, <2>1, <2>2, KnowsAway, SMT
  <2> QED
    BY <1>7, <2>1, <2>3, KnowsOfCopy, Zenon
<1> QED
  BY <1>5, <1>9, <1>11, <1>12, <1>14, <1>15, SMT DEF LeaseHolds

LEMMA RefreshHolds ==
  ASSUME TypeOK, LeaseHolds, NEW c \in Users, Refresh(c)
  PROVE  LeaseHolds' /\ Newest' >= Newest
<1>1. At(c, "refresh") /\ account' = account /\ age' = age /\ lost' = lost
  BY Zenon DEF Refresh
<1>2. CASE /\ Grants(c) /\ platform.current < MaxGen
           /\ platform' = [platform EXCEPT !.current = @ + 1]
           /\ user' = [user EXCEPT ![c] =
                [Set(@, [tokens |-> platform'.current, refreshed |-> platform'.current,
                         status |-> "CONNECTED"]) EXCEPT !.pc = "saveTokens"]]
  BY <1>1, <1>2, GrantedHolds, Zenon
<1>3. CASE /\ ~Grants(c) /\ UNCHANGED platform
           /\ \E status \in {"REAUTH_REQUIRED", "ERROR"} : Refused(c, status)
  BY <1>1, <1>3, RefusedHolds, Zenon
<1> QED
  BY <1>2, <1>3, Zenon DEF Refresh

LEMMA LoseAnswerHolds ==
  ASSUME TypeOK, LeaseHolds, NEW c \in Users, LoseAnswer(c)
  PROVE  LeaseHolds' /\ Newest' >= Newest
<1>1. PICK u \in User : u = user[c] /\ u.pc = "refresh"
  BY Zenon DEF TypeOK, LoseAnswer, At
<1>2. /\ Grants(c) /\ platform' = [platform EXCEPT !.current = @ + 1] /\ lost' = TRUE
      /\ account' = account /\ age' = age
  BY Zenon DEF LoseAnswer
<1>3. "saveFailure" \in Steps
  BY DEF Steps
<1>4. PICK v : v = [u EXCEPT !.pc = "saveFailure"]
  OBVIOUS
<1>5. v \in User /\ v.pc = "saveFailure" /\ v.copy = u.copy /\ v.dirty = u.dirty
  BY ONLY <1>1, <1>3, <1>4, StepGives
<1>6. user' = [user EXCEPT ![c] = v]
  BY <1>1, <1>4, Zenon DEF LoseAnswer, Goto
<1>7. /\ RefreshKnows(u) /\ Presents(u) /\ ~Granting /\ u.copy.tokens = Newest
      /\ Newest = IF lost THEN platform.current - 1 ELSE platform.current
      /\ platform.current \in Nat /\ Newest \in 1..MaxGen /\ Newest \in Nat
  BY <1>1, WhoAsks, Zenon
<1>8. Newest' = Newest /\ Frozen'
  <2>1. platform'.current = platform.current + 1
    BY <1>2, SMT DEF TypeOK
  <2>2. Newest = platform.current
    BY <1>1, <1>2, <1>7, SMT DEF Grants
  <2> QED
    BY <1>2, <1>7, <2>1, <2>2, SMT DEF Newest, Frozen
<1>9. user'[c] = v /\ \A d \in Users \ {c} : user'[d] = user[d]
  BY <1>6, OneMoves, Zenon
<1>10. ~Granting'
  <2>1. v.pc # "saveTokens" /\ ~At(c, "saveTokens")
    BY <1>1, <1>5, SMT DEF At
  <2> QED
    BY <1>6, <1>7, <2>1, GrantingKept, Zenon
<1>11. OneHolds'
  <2>1. v.pc \in Refreshing /\ user[c].pc \in Refreshing /\ account'.lease = account.lease
    BY <1>1, <1>2, <1>5, SMT DEF Refreshing
  <2> QED
    BY <1>6, <2>1, OneHoldsKept DEF LeaseHolds
<1>12. AccountIsNewest'
  BY <1>2, <1>8, SMT DEF LeaseHolds, AccountIsNewest, HasTokens
<1>13. RefreshKnows(user[c])'
  <2>1. Failed(v)'
    BY <1>1, <1>5, <1>7, <1>8, BoundsAssumption, SMT DEF Failed, Presents, Tidy, HasTokens, NoTokens
  <2>2. RefreshKnows(v)'
    BY <1>5, <2>1, SMT DEF RefreshKnows, Waits, Presents, GivesUp, WasGranted, Leaves, Takes, Leaving
  <2> QED
    BY <1>9, <2>2, KnowsOfCopy, Zenon
<1>14. ASSUME NEW d \in Users \ {c} PROVE RefreshKnows(user[d])'
  <2>1. PICK w \in User : w = user[d] /\ RefreshKnows(w)
    BY Zenon DEF TypeOK, LeaseHolds
  <2>2. w.pc \notin Refreshing
    BY <1>1, <2>1, SMT DEF LeaseHolds, OneHolds, Refreshing
  <2>3. RefreshKnows(w)'
    BY <1>2, <1>7, <1>8, <1>10, <2>1, <2>2, KnowsAway, SMT
  <2> QED
    BY <1>9, <2>1, <2>3, KnowsOfCopy, Zenon
<1> QED
  BY <1>7, <1>8, <1>11, <1>12, <1>13, <1>14, SMT DEF LeaseHolds

(* A copy that was saved has nothing modified.                              *)
LEMMA SavedGives ==
  ASSUME NEW u \in User
  PROVE  /\ [u EXCEPT !.pc = "release", !.dirty = {}].pc = "release"
         /\ [u EXCEPT !.pc = "release", !.dirty = {}].dirty = {}
         /\ [u EXCEPT !.pc = "release", !.dirty = {}].copy = u.copy
         /\ [u EXCEPT !.pc = "release", !.dirty = {}, !.failed = TRUE].pc = "release"
         /\ [u EXCEPT !.pc = "release", !.dirty = {}, !.failed = TRUE].dirty = {}
         /\ [u EXCEPT !.pc = "release", !.dirty = {}, !.failed = TRUE].failed = TRUE
         /\ [u EXCEPT !.pc = "release", !.dirty = {}] \in User
         /\ [u EXCEPT !.pc = "release", !.dirty = {}, !.failed = TRUE] \in User
<1>1. "release" \in Steps
  BY DEF Steps
<1>2. /\ [u EXCEPT !.pc = "release", !.dirty = {}] \in User
      /\ [u EXCEPT !.pc = "release", !.dirty = {}, !.failed = TRUE] \in User
  BY <1>1, TokensSavedTyped, Zenon
<1>3. /\ [u EXCEPT !.pc = "release", !.dirty = {}].pc = "release"
      /\ [u EXCEPT !.pc = "release", !.dirty = {}].dirty = {}
      /\ [u EXCEPT !.pc = "release", !.dirty = {}].copy = u.copy
  BY SMT DEF User
<1>4. /\ [u EXCEPT !.pc = "release", !.dirty = {}, !.failed = TRUE].pc = "release"
      /\ [u EXCEPT !.pc = "release", !.dirty = {}, !.failed = TRUE].dirty = {}
      /\ [u EXCEPT !.pc = "release", !.dirty = {}, !.failed = TRUE].failed = TRUE
  BY SMT DEF User
<1> QED
  BY <1>2, <1>3, <1>4

LEMMA SaveTokensHolds ==
  ASSUME TypeOK, LeaseHolds, NEW c \in Users, SaveTokens(c)
  PROVE  LeaseHolds' /\ Newest' >= Newest
<1>1. PICK u \in User : u = user[c] /\ u.pc = "saveTokens" /\ RefreshKnows(u)
  BY Zenon DEF TypeOK, SaveTokens, At, LeaseHolds
<1>2. PICK v : v = [u EXCEPT !.pc = "release", !.dirty = {}]
  OBVIOUS
<1>3. v \in User /\ v.pc = "release" /\ v.dirty = {} /\ v.copy = u.copy
  BY ONLY <1>1, <1>2, SavedGives, Zenon
<1>4. /\ user' = [user EXCEPT ![c] = v]
      /\ Save(c) /\ age' = age /\ platform' = platform /\ lost' = lost
  BY <1>1, <1>2, Zenon DEF SaveTokens
<1>5. /\ u.copy.tokens = platform.current /\ u.copy.refreshed = platform.current
      /\ {"tokens", "refreshed"} \subseteq u.dirty /\ "lease" \notin u.dirty
      /\ u.copy.status = "CONNECTED" /\ ~lost
      /\ ~Frozen => account.status \in Usable /\ ~Carried
  BY <1>1, Zenon DEF RefreshKnows, WasGranted, Healthy
<1>6. /\ account'.tokens = platform.current /\ account'.refreshed = platform.current
      /\ account'.lease = account.lease
      /\ account'.status = "CONNECTED" \/ account'.status = account.status
  BY <1>1, <1>4, <1>5, SaveGives, SMT
<1>7. user'[c] = v /\ \A d \in Users \ {c} : user'[d] = user[d]
  BY <1>4, OneMoves, Zenon
<1>8. Granting /\ ~Granting'
  <2>1. \A d \in Users \ {c} : user[d].pc # "saveTokens"
    BY <1>1, SMT DEF LeaseHolds, OneHolds, Refreshing
  <2> QED
    BY <1>1, <1>3, <1>7, <2>1, SMT DEF Granting, At
<1>9. /\ Newest = platform.current - 1 /\ Newest' = platform.current
      /\ Newest \in Nat /\ platform.current \in 1..MaxGen
  BY <1>4, <1>5, <1>8, NewestTyped, SMT DEF Newest, LeaseHolds, TypeOK
<1>10. Frozen' <=> Frozen
  BY <1>4, Zenon DEF Frozen
<1>11. OneHolds'
  <2>1. v.pc \in Refreshing /\ user[c].pc \in Refreshing
    BY <1>1, <1>3, SMT DEF Refreshing
  <2> QED
    BY <1>4, <1>6, <2>1, OneHoldsKept DEF LeaseHolds
<1>12. AccountIsNewest'
  BY <1>5, <1>6, <1>9, <1>10, BoundsAssumption, SMT DEF AccountIsNewest, HasTokens, Usable
<1>13. RefreshKnows(user[c])'
  <2>1. Leaves(v)'
    BY <1>3, <1>5, SMT DEF Leaves, Leaving
  <2>2. RefreshKnows(v)'
    BY <1>3, <2>1, SMT DEF RefreshKnows, Waits, Presents, GivesUp, WasGranted, Failed, Takes
  <2> QED
    BY <1>7, <2>2, KnowsOfCopy, Zenon
<1>14. ASSUME NEW d \in Users \ {c} PROVE RefreshKnows(user[d])'
  <2>1. PICK w \in User : w = user[d] /\ RefreshKnows(w)
    BY Zenon DEF TypeOK, LeaseHolds
  <2>2. w.pc \notin Refreshing
    BY <1>1, <2>1, SMT DEF LeaseHolds, OneHolds, Refreshing
  <2>3. ~Reloads(w)
    BY <1>8, <2>1, Zenon DEF RefreshKnows, Leaves, Reloads
  <2>4. Newest' >= Newest /\ Newest' \in Nat
    BY <1>9, SMT
  <2>5. RefreshKnows(w)'
    BY <1>4, <1>9, <1>10, <2>1, <2>2, <2>3, <2>4, KnowsAway, Zenon
  <2> QED
    BY <1>7, <2>1, <2>5, KnowsOfCopy, Zenon
<1> QED
  BY <1>9, <1>11, <1>12, <1>13, <1>14, SMT DEF LeaseHolds

LEMMA SaveFailureHolds ==
  ASSUME TypeOK, LeaseHolds, NEW c \in Users, SaveFailure(c)
  PROVE  LeaseHolds' /\ Newest' >= Newest
<1>1. PICK u \in User : u = user[c] /\ u.pc = "saveFailure" /\ RefreshKnows(u)
  BY Zenon DEF TypeOK, SaveFailure, At, LeaseHolds
<1>2. PICK v : v = [u EXCEPT !.pc = "release", !.dirty = {}, !.failed = TRUE]
  OBVIOUS
<1>3. v \in User /\ v.pc = "release" /\ v.dirty = {} /\ v.failed
  BY ONLY <1>1, <1>2, SavedGives, Zenon
<1>4. /\ user' = [user EXCEPT ![c] = v]
      /\ Save(c) /\ age' = age /\ platform' = platform /\ lost' = lost
  BY <1>1, <1>2, Zenon DEF SaveFailure
<1>5. /\ Tidy(u) /\ u.copy.tokens \in {NoTokens, Newest} /\ u.copy.refreshed <= Newest
      /\ ~Frozen =>
           \/ /\ ~HasTokens(u.copy) /\ ~HasTokens(account)
              /\ u.copy.status \in Usable \union {"EXPIRED"}
           \/ age[Newest] = "lapsed" /\ u.copy.status \in Usable \union {"EXPIRED"}
           \/ u.copy.status \in Usable /\ account.status \in Usable /\ ~Carried
  BY <1>1, Zenon DEF RefreshKnows, Failed, Healthy
<1>6. /\ account'.status = IF "status" \in u.dirty THEN u.copy.status ELSE account.status
      /\ account'.tokens = IF "tokens" \in u.dirty THEN u.copy.tokens ELSE account.tokens
      /\ account'.refreshed = IF "refreshed" \in u.dirty THEN u.copy.refreshed
                                                        ELSE account.refreshed
      /\ account'.lease = account.lease
  BY <1>1, <1>4, <1>5, SaveGives, SMT DEF Tidy
<1>7. user'[c] = v /\ \A d \in Users \ {c} : user'[d] = user[d]
  BY <1>4, OneMoves, Zenon
<1>8. (Granting' <=> Granting) /\ ~Granting
  <2>1. v.pc # "saveTokens" /\ ~At(c, "saveTokens")
    BY <1>1, <1>3, SMT DEF At
  <2>2. ~Granting
    BY <1>1, SMT DEF LeaseHolds, OneHolds, Granting, At, Refreshing
  <2> QED
    BY <1>4, <2>1, <2>2, GrantingKept, Zenon
<1>9. Newest' = Newest /\ (Frozen' <=> Frozen) /\ Newest \in Nat /\ Newest \in 1..MaxGen
  BY <1>4, <1>8, NewestKept, NewestTyped, Zenon DEF LeaseHolds
<1>10. OneHolds'
  <2>1. v.pc \in Refreshing /\ user[c].pc \in Refreshing
    BY <1>1, <1>3, SMT DEF Refreshing
  <2> QED
    BY <1>4, <1>6, <2>1, OneHoldsKept DEF LeaseHolds
<1>11. AccountIsNewest'
  <2>1. /\ account.tokens \in {NoTokens, Newest} /\ account.refreshed <= Newest
        /\ HasTokens(account) => account.refreshed = account.tokens
        /\ ~Frozen => /\ account.status \in Usable \union {"EXPIRED"}
                      /\ account.status = "EXPIRED" /\ HasTokens(account) => age[Newest] = "lapsed"
    BY Zenon DEF LeaseHolds, AccountIsNewest
  <2>2. /\ account'.tokens \in {NoTokens, Newest} /\ account'.refreshed <= Newest
        /\ account'.tokens # NoTokens => account'.refreshed = account'.tokens
    BY <1>5, <1>6, <2>1, SMT DEF Tidy, HasTokens
  <2>3. ASSUME ~Frozen
        PROVE  /\ account'.status \in Usable \union {"EXPIRED"}
               /\ account'.status = "EXPIRED" /\ account'.tokens # NoTokens
                    => age[Newest] = "lapsed"
    <3>1. CASE ~HasTokens(u.copy) /\ ~HasTokens(account)
      BY <1>5, <1>6, <2>1, <2>3, <3>1, SMT DEF Tidy, HasTokens, Usable
    <3>2. CASE age[Newest] = "lapsed" /\ u.copy.status \in Usable \union {"EXPIRED"}
      BY <1>6, <2>1, <2>3, <3>2, SMT
    <3>3. CASE u.copy.status \in Usable /\ account.status \in Usable
      BY <1>6, <3>3, SMT DEF Usable
    <3> QED
      BY <1>5, <2>3, <3>1, <3>2, <3>3, Zenon
  <2> QED
    BY <1>4, <1>9, <2>2, <2>3, SMT DEF AccountIsNewest, HasTokens
<1>12. RefreshKnows(user[c])'
  <2>1. Leaves(v)'
    BY <1>3, SMT DEF Leaves, Leaving
  <2>2. RefreshKnows(v)'
    BY <1>3, <2>1, SMT DEF RefreshKnows, Waits, Presents, GivesUp, WasGranted, Failed, Takes
  <2> QED
    BY <1>7, <2>2, KnowsOfCopy, Zenon
<1>13. ASSUME NEW d \in Users \ {c} PROVE RefreshKnows(user[d])'
  <2>1. PICK w \in User : w = user[d] /\ RefreshKnows(w)
    BY Zenon DEF TypeOK, LeaseHolds
  <2>2. w.pc \notin Refreshing
    BY <1>1, <2>1, SMT DEF LeaseHolds, OneHolds, Refreshing
  (* Who carries reloaded tokens carries fresh ones: the failure was not    *)
  (* that they lapsed, and took none away but what was away.                *)
  <2>3. ASSUME Reloads(w), ~Frozen
        PROVE  age[Newest] = "fresh" /\ account'.tokens = NoTokens
    <3>1. age[Newest] = "fresh" /\ Carried
      BY <2>1, <2>3, Zenon DEF RefreshKnows, Leaves, Reloads, Carried
    <3> QED
      BY <1>5, <1>6, <2>3, <3>1, SMT DEF Tidy, HasTokens
  <2>4. Reloads(w) /\ ~Frozen' =>
          age'[Newest] = "fresh" /\ (~HasTokens(account)' \/ account'.status = "CONNECTED")
    BY <1>4, <1>9, <2>3, Zenon DEF HasTokens
  <2>5. Newest' >= Newest
    BY <1>9, SMT
  <2>6. RefreshKnows(w)'
    BY <1>4, <1>8, <1>9, <2>1, <2>2, <2>4, <2>5, KnowsAway, Zenon
  <2> QED
    BY <1>7, <2>1, <2>6, KnowsOfCopy, Zenon
<1> QED
  BY <1>9, <1>10, <1>11, <1>12, <1>13, SMT DEF LeaseHolds

LEMMA ReleaseHolds ==
  ASSUME TypeOK, LeaseHolds, NEW c \in Users, Release(c)
  PROVE  LeaseHolds' /\ Newest' >= Newest
<1>1. PICK u \in User : u = user[c] /\ u.pc = "release" /\ RefreshKnows(u)
  BY Zenon DEF TypeOK, Release, At, LeaseHolds
<1> DEFINE values == [lease |-> "none"]
<1>2. DOMAIN values = {"lease"} /\ values["lease"] = "none"
  BY SMT
<1>3. /\ DOMAIN values \subseteq Fields /\ {"status", "tokens", "refreshed", "lease"} \subseteq Fields
      /\ "none" \in Leases
  BY <1>2, SMT DEF Fields, Leases
<1>4. PICK w : w = Set(u, values)
  OBVIOUS
<1>5. /\ user' = [user EXCEPT ![c] = IF w.failed THEN AfterFailure(w)
                                     ELSE IF w.kind = "sweep" THEN Idle
                                     ELSE [w EXCEPT !.pc = "operate"]]
  BY <1>1, <1>4, Zenon DEF Release
<1> HIDE DEF values
<1>6. w \in User
  BY <1>1, <1>2, <1>3, <1>4, SetTyped, SMT
<1>7. /\ w.began = u.began /\ w.failed = u.failed
      /\ \A f \in Fields : w.copy[f] = IF f \in DOMAIN values THEN values[f] ELSE u.copy[f]
      /\ \A f \in Fields : f \in w.dirty
             <=> f \in u.dirty \/ (f \in DOMAIN values /\ values[f] # u.copy[f])
  BY ONLY <1>3, <1>4, SetGives, u \in User
<1>8. /\ w.copy["status"] = u.copy["status"] /\ w.copy["tokens"] = u.copy["tokens"]
      /\ w.copy["refreshed"] = u.copy["refreshed"] /\ w.copy["lease"] = "none"
      /\ "status" \in w.dirty <=> "status" \in u.dirty
      /\ "tokens" \in w.dirty <=> "tokens" \in u.dirty
      /\ "refreshed" \in w.dirty <=> "refreshed" \in u.dirty
  BY ONLY <1>2, <1>3, <1>7, SMT
<1>9. /\ account'.tokens = account.tokens /\ account'.status = account.status
      /\ account'.refreshed = account.refreshed
      /\ age' = age /\ platform' = platform /\ lost' = lost
  BY SMT DEF Release, TypeOK, Account
<1>10. PICK v : /\ user' = [user EXCEPT ![c] = v]
                /\ v = Idle \/ (v = [w EXCEPT !.pc = "operate"]
                                /\ (w.failed => w.copy.status = "CONNECTED"))
  BY <1>5, Zenon DEF AfterFailure
<1>11. user[c].pc \in Refreshing /\ ~At(c, "saveTokens")
  BY <1>1, SMT DEF Refreshing, At
<1>12. ASSUME v.pc \notin Refreshing PROVE OneHolds'
  <2>1. user'[c] = v /\ \A d \in Users \ {c} : user'[d] = user[d]
    BY <1>10, OneMoves, Zenon
  <2>2. \A d \in Users : user'[d].pc \notin Refreshing
    BY <1>11, <1>12, <2>1, Zenon DEF LeaseHolds, OneHolds
  <2> QED
    BY <2>2, Zenon DEF OneHolds
<1>13. CASE v = Idle
  <2>1. Idle \in User /\ Idle.pc = "idle" /\ RefreshKnows(Idle)'
    BY IdleKnows, Zenon
  <2>2. v \in User /\ v.pc \notin Refreshing /\ v.pc # "saveTokens"
    BY <1>13, <2>1, Zenon DEF Refreshing
  <2>3. RefreshKnows(Idle)' /\ user' = [user EXCEPT ![c] = Idle] /\ Idle.pc # "saveTokens"
    BY <1>10, <1>13, <2>1, <2>2, Zenon
  <2> QED
    BY <1>9, <1>11, <1>12, <2>1, <2>2, <2>3, QuietStep, Zenon
<1>14. CASE v = [w EXCEPT !.pc = "operate"] /\ (w.failed => w.copy.status = "CONNECTED")
  <2>1. "operate" \in Steps
    BY DEF Steps
  <2>2. v = [w EXCEPT !.pc = "operate"]
    BY <1>14
  <2>3. v \in User /\ v.pc = "operate" /\ v.began = w.began /\ v.copy = w.copy /\ v.dirty = w.dirty
    BY ONLY <1>6, <2>1, <2>2, StepGives
  <2>4. v.pc \notin Refreshing /\ v.pc # "saveTokens"
    BY <2>3, SMT DEF Refreshing
  <2>5. Newest' = Newest /\ (Frozen' <=> Frozen) /\ (Granting' <=> Granting)
    BY <1>9, <1>10, <1>11, <2>4, GrantingKept, NewestKept, Zenon
  <2>6. Leaves(u)
    BY <1>1, Zenon DEF RefreshKnows
  <2>7. /\ v.copy.lease = "none" /\ v.copy.status = u.copy.status
        /\ v.copy.tokens = u.copy.tokens /\ v.copy.refreshed = u.copy.refreshed
        /\ ~Frozen => v.copy.status = "CONNECTED"
    BY <1>1, <1>7, <1>8, <1>14, <2>3, <2>6, SMT DEF Leaves, Leaving
  <2>8. Leaves(v)'
    BY <1>1, <1>7, <1>8, <1>9, <2>3, <2>5, <2>6, <2>7, SMT DEF Leaves, Leaving, HasTokens
  <2>9. RefreshKnows(v)'
    BY <2>3, <2>8, SMT DEF RefreshKnows, Waits, Presents, GivesUp, WasGranted, Failed, Takes
  <2> QED
    BY <1>9, <1>10, <1>11, <1>12, <2>3, <2>4, <2>9, QuietStep, Zenon
<1> QED
  BY <1>10, <1>13, <1>14, Zenon

-----------------------------------------------------------------------------
(* The operation, people, time and crashes.                                 *)

(* The operation ends, or stays as it is but for its status: the platform   *)
(* refuses it, or a test finds it working.                                  *)
LEMMA OperateHolds ==
  ASSUME TypeOK, LeaseHolds, NEW c \in Users, Operate(c)
  PROVE  LeaseHolds' /\ Newest' >= Newest
<1>1. PICK u \in User : u = user[c] /\ u.pc = "operate" /\ RefreshKnows(u)
  BY Zenon DEF TypeOK, Operate, At, LeaseHolds
<1>2. /\ account' = account /\ age' = age /\ platform' = platform /\ lost' = lost
      /\ account'.tokens = account.tokens /\ account'.status = account.status
      /\ account'.refreshed = account.refreshed
  BY Zenon DEF Operate
<1>3. Leaves(u) /\ ~At(c, "saveTokens") /\ "saveOutcome" \in Steps
  BY <1>1, SMT DEF RefreshKnows, At, Steps
<1>4. ASSUME NEW v \in User, user' = [user EXCEPT ![c] = v], v.pc = "saveOutcome",
             v.began = u.began, v.copy.tokens = u.copy.tokens,
             v.copy.refreshed = u.copy.refreshed, v.copy.lease = u.copy.lease,
             "tokens" \in v.dirty <=> "tokens" \in u.dirty,
             "refreshed" \in v.dirty <=> "refreshed" \in u.dirty,
             "lease" \in v.dirty <=> "lease" \in u.dirty,
             ~Frozen => v.copy.status = "CONNECTED"
                        /\ ("status" \in v.dirty <=> "status" \in u.dirty)
      PROVE  LeaseHolds' /\ Newest' >= Newest
  <2>1. /\ v.pc # "saveTokens" /\ v.pc \notin Refreshing
        /\ Reloads(v) => Reloads(user[c])
    BY <1>1, <1>4, SMT DEF Refreshing, Reloads, Leaving
  <2>2. Newest' = Newest /\ (Frozen' <=> Frozen) /\ (Granting' <=> Granting)
    BY <1>2, <1>3, <1>4, <2>1, GrantingKept, NewestKept, Zenon
  <2>3. OneHolds'
    BY <1>2, <1>4, <2>1, OneHoldsKept DEF LeaseHolds
  <2>4. Leaves(v)'
    BY <1>1, <1>2, <1>3, <1>4, <2>2, SMT DEF Leaves, Leaving, HasTokens
  <2>5. RefreshKnows(v)'
    BY <1>4, <2>4, SMT DEF RefreshKnows, Waits, Presents, GivesUp, WasGranted, Failed, Takes
  <2> QED
    BY <1>2, <1>3, <1>4, <2>1, <2>3, <2>5, QuietStep, Zenon
<1>5. ASSUME NEW status \in Statuses, status = "CONNECTED" \/ Frozen,
             user' = [user EXCEPT ![c] = [Set(u, [status |-> status]) EXCEPT !.pc = "saveOutcome"]]
      PROVE  LeaseHolds' /\ Newest' >= Newest
  <2>1. PICK v : /\ v = [Set(u, [status |-> status]) EXCEPT !.pc = "saveOutcome"]
                 /\ StatusSet(v, u, status, "saveOutcome")
    BY <1>1, <1>3, StatusGives, Zenon
  <2>2. user' = [user EXCEPT ![c] = v]
    BY <1>5, <2>1, Zenon
  <2>3. /\ v \in User /\ v.pc = "saveOutcome" /\ v.began = u.began
        /\ v.copy.tokens = u.copy.tokens /\ v.copy.refreshed = u.copy.refreshed
        /\ v.copy.lease = u.copy.lease /\ v.copy.status = status
        /\ "tokens" \in v.dirty <=> "tokens" \in u.dirty
        /\ "refreshed" \in v.dirty <=> "refreshed" \in u.dirty
        /\ "lease" \in v.dirty <=> "lease" \in u.dirty
        /\ "status" \in v.dirty <=> "status" \in u.dirty \/ status # u.copy.status
    BY <2>1, Zenon DEF StatusSet
  <2>4. ~Frozen => u.copy.status = "CONNECTED" /\ status = "CONNECTED"
    BY <1>1, <1>3, <1>5, SMT DEF Leaves, Leaving
  <2> QED
    BY <1>4, <2>2, <2>3, <2>4, Zenon
<1>6. CASE user' = [user EXCEPT ![c] = Idle]
  BY <1>2, <1>3, <1>6, RestsWell, Zenon DEF Rest
<1>7. CASE user' = [user EXCEPT ![c] = [u EXCEPT !.pc = "saveOutcome"]]
  <2>1. PICK v : v = [u EXCEPT !.pc = "saveOutcome"]
    OBVIOUS
  <2>2. v \in User /\ v.pc = "saveOutcome" /\ v.began = u.began /\ v.copy = u.copy /\ v.dirty = u.dirty
    BY ONLY <1>1, <1>3, <2>1, StepGives
  <2>3. ~Frozen => u.copy.status = "CONNECTED"
    BY <1>1, <1>3, SMT DEF Leaves, Leaving
  <2> QED
    BY <1>4, <1>7, <2>1, <2>2, <2>3, Zenon
<1>8. {"EXPIRED", "REAUTH_REQUIRED", "ERROR", "CONNECTED"} \subseteq Statuses
  BY DEF Statuses
<1>9. \/ user' = [user EXCEPT ![c] = Idle]
      \/ user' = [user EXCEPT ![c] = [u EXCEPT !.pc = "saveOutcome"]]
      \/ \E status \in {"EXPIRED", "REAUTH_REQUIRED", "ERROR"} :
           /\ platform.revoked
           /\ user' = [user EXCEPT ![c] = [Set(u, [status |-> status]) EXCEPT !.pc = "saveOutcome"]]
      \/ user' = [user EXCEPT ![c] =
                   [Set(u, [status |-> "CONNECTED"]) EXCEPT !.pc = "saveOutcome"]]
  BY <1>1, Zenon DEF Operate
<1> QED
  BY <1>5, <1>6, <1>7, <1>8, <1>9, Zenon DEF Frozen

LEMMA DisconnectHolds ==
  ASSUME TypeOK, LeaseHolds, NEW c \in Users, Disconnect(c)
  PROVE  LeaseHolds' /\ Newest' >= Newest
<1> DEFINE values == [status |-> "DISCONNECTED", tokens |-> NoTokens]
<1>1. /\ DOMAIN values = {"status", "tokens"} /\ values["status"] = "DISCONNECTED"
      /\ values["tokens"] = NoTokens
  BY SMT
<1>2. /\ DOMAIN values \subseteq Fields /\ {"status", "tokens", "refreshed", "lease"} \subseteq Fields
      /\ "lease" \notin DOMAIN values /\ "refreshed" \notin DOMAIN values
      /\ "DISCONNECTED" \in Statuses /\ NoTokens \in Gens
  BY <1>1, BoundsAssumption, SMT DEF Fields, Statuses, Gens, NoTokens
<1>3. PICK u : u = New("use", "save", FALSE)
  OBVIOUS
<1>4. user' = [user EXCEPT ![c] = SetUnread(u, values)]
  BY <1>3, Zenon DEF Disconnect
<1> HIDE DEF values
<1>5. u \in User /\ u.pc = "save" /\ u.dirty = {}
  <2>1. "use" \in Kinds /\ "save" \in Steps
    BY DEF Kinds, Steps
  <2> QED
    BY <1>3, <2>1, NewGives, Zenon
<1>6. PICK w : w = Set(u, values)
  OBVIOUS
<1>7. w \in User
  BY <1>1, <1>2, <1>5, <1>6, SetTyped, Zenon
<1>8. /\ w.pc = u.pc
      /\ \A f \in Fields : w.copy[f] = IF f \in DOMAIN values THEN values[f] ELSE u.copy[f]
      /\ \A f \in Fields : f \in w.dirty
             <=> f \in u.dirty \/ (f \in DOMAIN values /\ values[f] # u.copy[f])
  BY ONLY <1>2, <1>5, <1>6, SetGives
<1>9. PICK v : v = [w EXCEPT !.dirty = @ \cup {"tokens"}]
  OBVIOUS
<1>10. user' = [user EXCEPT ![c] = v]
  BY <1>4, <1>6, <1>9, Zenon DEF SetUnread
<1>11. v \in User /\ v.pc = w.pc /\ v.copy = w.copy /\ v.dirty = w.dirty \cup {"tokens"}
  BY ONLY <1>2, <1>7, <1>9, SMT DEF User, Fields
<1>12. /\ w.copy["status"] = "DISCONNECTED" /\ w.copy["tokens"] = NoTokens
       /\ "lease" \notin w.dirty /\ "refreshed" \notin w.dirty
  BY ONLY <1>1, <1>2, <1>5, <1>8, SMT
<1>13. v.dirty \subseteq {"status", "tokens"}
  BY ONLY <1>7, <1>11, <1>12, SMT DEF User, Fields
<1>14. Takes(v)
  BY ONLY <1>5, <1>8, <1>11, <1>12, <1>13, SMT DEF Takes
<1>15. v.pc = "save"
  BY <1>5, <1>8, <1>11
<1>16. RefreshKnows(v)'
  BY <1>14, <1>15, SMT DEF RefreshKnows, Waits, Presents, GivesUp, WasGranted, Failed, Leaves,
     Takes, Leaving
<1>17. /\ account'.tokens = account.tokens /\ account'.status = account.status
       /\ account'.refreshed = account.refreshed /\ account'.lease = account.lease
       /\ age' = age /\ platform' = platform /\ lost' = lost /\ At(c, "idle")
  BY Zenon DEF Disconnect
<1>18. ~Reloads(v) /\ v.pc \notin Refreshing /\ v.pc # "saveTokens" /\ ~At(c, "saveTokens")
  BY <1>15, <1>17, SMT DEF Reloads, Leaving, Refreshing, At
<1>19. OneHolds'
  BY <1>10, <1>17, <1>18, OneHoldsKept DEF LeaseHolds
<1> QED
  BY <1>10, <1>11, <1>16, <1>17, <1>18, <1>19, QuietStep, Zenon

(* A step that leaves everyone's copy and tokens, or takes one operation    *)
(* away.                                                                    *)
LEMMA LeaseExpiresHolds ==
  ASSUME TypeOK, LeaseHolds, LeaseExpires
  PROVE  LeaseHolds' /\ Newest' >= Newest
<1>1. /\ account'.tokens = account.tokens /\ account'.status = account.status
      /\ account'.refreshed = account.refreshed
  BY SMT DEF LeaseExpires, TypeOK, Account
<1>2. user' = user /\ age' = age /\ platform' = platform /\ lost' = lost
  BY Zenon DEF LeaseExpires
<1>3. (Granting' <=> Granting) /\ (Carried' <=> Carried)
  BY <1>2, Zenon DEF Granting, Carried, At
<1>4. Newest' = Newest /\ (Frozen' <=> Frozen) /\ Newest \in Nat
  BY <1>2, <1>3, NewestKept, NewestTyped, Zenon DEF LeaseHolds
<1>5. OneHolds'
  BY <1>2, Zenon DEF LeaseExpires, OneHolds
<1>6. AccountIsNewest'
  BY <1>1, <1>2, <1>4, SMT DEF LeaseHolds, AccountIsNewest, HasTokens
<1>7. ASSUME NEW d \in Users PROVE RefreshKnows(user[d])'
  <2>1. PICK u \in User : u = user[d] /\ RefreshKnows(u)
    BY Zenon DEF TypeOK, LeaseHolds
  <2>2. u.pc = "saveTokens" => ~lost'
    BY <1>2, <2>1, Zenon DEF RefreshKnows, WasGranted
  <2>3. RefreshKnows(u)'
    BY <1>1, <1>2, <1>3, <1>4, <2>1, <2>2, RefreshKept, Zenon
  <2> QED
    BY <1>2, <2>1, <2>3, KnowsOfCopy, Zenon
<1> QED
  BY <1>4, <1>5, <1>6, <1>7, SMT DEF LeaseHolds

LEMMA RevokeHolds ==
  ASSUME TypeOK, LeaseHolds, Revoke
  PROVE  LeaseHolds' /\ Newest' >= Newest
<1>1. user' = user /\ account' = account /\ age' = age /\ lost' = lost
  BY Zenon DEF Revoke
<1>2. platform'.current = platform.current /\ platform'.revoked
  BY SMT DEF Revoke, TypeOK
<1>3. (Granting' <=> Granting) /\ (Carried' <=> Carried) /\ Frozen'
  BY <1>1, <1>2, Zenon DEF Granting, Carried, At, Frozen
<1>4. Newest' = Newest /\ Newest \in Nat
  BY <1>1, <1>2, <1>3, NewestTyped, Zenon DEF LeaseHolds, Newest
<1>5. OneHolds'
  BY <1>1, Zenon DEF LeaseHolds, OneHolds
<1>6. AccountIsNewest'
  BY <1>1, <1>3, <1>4, SMT DEF LeaseHolds, AccountIsNewest, HasTokens
<1>7. ASSUME NEW d \in Users PROVE RefreshKnows(user[d])'
  <2>1. PICK u \in User : u = user[d] /\ RefreshKnows(u)
    BY Zenon DEF TypeOK, LeaseHolds
  <2>2. u.pc = "saveTokens" => ~lost'
    BY <1>1, <2>1, Zenon DEF RefreshKnows, WasGranted
  <2>3. account'.tokens = account.tokens /\ account'.status = account.status
    BY <1>1
  <2>4. RefreshKnows(u)'
    BY <1>1, <1>2, <1>3, <1>4, <2>1, <2>2, <2>3, RefreshKept, Zenon
  <2> QED
    BY <1>1, <2>1, <2>4, KnowsOfCopy, Zenon
<1> QED
  BY <1>4, <1>5, <1>6, <1>7, SMT DEF LeaseHolds

(* Tokens granted by a crash that loses them were not the newest yet.       *)
LEMMA CrashHolds ==
  ASSUME TypeOK, LeaseHolds, NEW c \in Users, Crash(c)
  PROVE  LeaseHolds' /\ Newest' >= Newest
<1>1. PICK u \in User : u = user[c] /\ RefreshKnows(u)
  BY Zenon DEF TypeOK, LeaseHolds
<1>2. /\ account' = account /\ age' = age /\ platform' = platform /\ Rest(c)
      /\ lost' = (lost \/ (u.pc \in {"saveTokens", "authorized", "save"} /\ HasTokens(u.copy)))
  BY <1>1, Zenon DEF Crash
<1>3. u.pc # "authorized" /\ (u.pc = "save" => ~HasTokens(u.copy))
  BY <1>1, SMT DEF RefreshKnows, Takes, HasTokens
<1>4. Idle \in User /\ Idle.pc = "idle" /\ ~Reloads(Idle) /\ RefreshKnows(Idle)'
  BY IdleKnows
<1>5. user' = [user EXCEPT ![c] = Idle] /\ user'[c] = Idle
      /\ \A d \in Users \ {c} : user'[d] = user[d]
  <2>1. user' = [user EXCEPT ![c] = Idle]
    BY <1>2, Zenon DEF Rest
  <2> QED
    BY <2>1, OneMoves, Zenon
<1>6. CASE u.pc # "saveTokens"
  <2>1. lost' = lost
    BY <1>2, <1>3, <1>6, SMT DEF TypeOK
  <2>2. ~At(c, "saveTokens")
    BY <1>1, <1>6, SMT DEF At
  <2> QED
    BY <1>2, <2>1, <2>2, RestsWell, Zenon
<1>7. CASE u.pc = "saveTokens"
  <2>1. ~lost /\ Granting /\ u.copy.tokens = platform.current
    BY <1>1, <1>7, SMT DEF RefreshKnows, WasGranted, Granting, At
  <2>2. \A d \in Users \ {c} : user[d].pc \notin Refreshing
    BY <1>1, <1>7, SMT DEF LeaseHolds, OneHolds, Refreshing
  <2>3. ~Granting'
    BY <1>4, <1>5, <2>2, SMT DEF Granting, At, Refreshing
  <2>4. Newest \in Nat /\ Newest \in 1..MaxGen
    BY NewestTyped, Zenon DEF LeaseHolds
  <2>5. HasTokens(u.copy)
    BY <2>1, BoundsAssumption, SMT DEF TypeOK, HasTokens, NoTokens
  <2>6. lost' /\ Frozen'
    BY <1>2, <1>7, <2>5, Zenon DEF Frozen
  <2>7. Newest' = Newest
    BY <1>2, <2>1, <2>3, <2>6, SMT DEF Newest
  <2>8. OneHolds'
    <3>1. Idle.pc \notin Refreshing
      BY <1>4, SMT DEF Refreshing
    <3> QED
      BY <1>2, <1>5, <3>1, OneHoldsKept, Zenon DEF LeaseHolds
  <2>9. AccountIsNewest'
    BY <1>2, <2>6, <2>7, SMT DEF LeaseHolds, AccountIsNewest, HasTokens
  <2>10. ASSUME NEW d \in Users \ {c} PROVE RefreshKnows(user[d])'
    <3>1. PICK w \in User : w = user[d] /\ RefreshKnows(w) /\ w.pc \notin Refreshing
      BY <2>2, Zenon DEF TypeOK, LeaseHolds
    <3>2. Newest' >= Newest
      BY <2>4, <2>7, SMT
    <3>3. RefreshKnows(w)'
      BY <1>2, <2>3, <2>4, <2>6, <2>7, <3>1, <3>2, KnowsAway, Zenon
    <3> QED
      BY <1>5, <3>1, <3>3, KnowsOfCopy, Zenon
  <2>11. RefreshKnows(user[c])'
    BY <1>4, <1>5, KnowsOfCopy, Zenon
  <2> QED
    BY <2>4, <2>7, <2>8, <2>9, <2>10, <2>11, SMT DEF LeaseHolds
<1> QED
  BY <1>6, <1>7

(* Tokens only get older, and not while somebody carries them reloaded.     *)
LEMMA AgeHolds ==
  ASSUME TypeOK, LeaseHolds, NEW g \in 1..MaxGen, Age(g)
  PROVE  LeaseHolds' /\ Newest' >= Newest
<1>1. /\ account' = account /\ platform' = platform /\ lost' = lost
      /\ age' = [age EXCEPT ![g] = Older[age[g]]] /\ age[g] \in DOMAIN Older
      /\ \A d \in Users : ~At(d, "idle") => (age[g] = "fresh" => user[d].began >= g)
      /\ user' = [d \in Users |-> IF At(d, "idle") THEN Idle ELSE [user[d] EXCEPT !.aged = TRUE]]
  BY Zenon DEF Age
<1>2. /\ age[g] # "lapsed" /\ age'[g] # "fresh"
      /\ \A h \in 1..MaxGen : h # g => age'[h] = age[h]
  BY <1>1, SMT DEF Older, TypeOK
<1>3. ASSUME NEW d \in Users
      PROVE  /\ user'[d].pc = user[d].pc /\ user'[d].readAt = user[d].readAt
             /\ user'[d].began = user[d].began /\ user'[d].failed = user[d].failed
             /\ user'[d].copy = user[d].copy /\ user'[d].dirty = user[d].dirty
             \/ user'[d] = Idle
  <2>1. PICK u \in User : u = user[d]
    BY Zenon DEF TypeOK
  <2>2. user'[d] = Idle \/ user'[d] = [u EXCEPT !.aged = TRUE]
    BY <1>1, <2>1, Zenon
  <2>3. /\ [u EXCEPT !.aged = TRUE].pc = u.pc /\ [u EXCEPT !.aged = TRUE].readAt = u.readAt
        /\ [u EXCEPT !.aged = TRUE].began = u.began /\ [u EXCEPT !.aged = TRUE].failed = u.failed
        /\ [u EXCEPT !.aged = TRUE].copy = u.copy /\ [u EXCEPT !.aged = TRUE].dirty = u.dirty
    BY ONLY u \in User, SMT DEF User
  <2> QED
    BY <2>1, <2>2, <2>3, Zenon
<1>4. ASSUME NEW d \in Users PROVE user'[d].pc = user[d].pc
  <2>1. CASE At(d, "idle")
    BY <1>1, <2>1, IdleKnows, Zenon DEF At
  <2>2. CASE ~At(d, "idle")
    <3>1. PICK u \in User : u = user[d]
      BY Zenon DEF TypeOK
    <3>2. user'[d] = [u EXCEPT !.aged = TRUE]
      BY <1>1, <2>2, <3>1, Zenon
    <3> QED
      BY ONLY <3>1, <3>2, SMT DEF User
  <2> QED
    BY <2>1, <2>2
<1>5. (Granting' <=> Granting) /\ (Carried' => Carried)
  <2>1. Granting' <=> Granting
    BY <1>4, Zenon DEF Granting, At
  <2>2. ASSUME NEW d \in Users, Reloads(user'[d]) PROVE Reloads(user[d])
    BY <1>3, <2>2, IdleKnows, Zenon DEF Reloads
  <2> QED
    BY <2>1, <2>2, Zenon DEF Carried, Reloads
<1>6. Newest' = Newest /\ (Frozen' <=> Frozen) /\ Newest \in Nat /\ Newest \in 1..MaxGen
  BY <1>1, <1>5, NewestKept, NewestTyped, Zenon DEF LeaseHolds
<1>7. OneHolds'
  BY <1>1, <1>4, Zenon DEF LeaseHolds, OneHolds
<1>8. AccountIsNewest'
  BY <1>1, <1>2, <1>6, SMT DEF LeaseHolds, AccountIsNewest, HasTokens
<1>9. ASSUME NEW d \in Users PROVE RefreshKnows(user[d])'
  <2>1. PICK u \in User : u = user[d] /\ RefreshKnows(u)
    BY Zenon DEF TypeOK, LeaseHolds
  <2>2. u.pc \in {"acquire", "reload"} => u.readAt \in 1..MaxGen
    BY <1>6, <2>1, BoundsAssumption, SMT DEF RefreshKnows, Waits
  <2>3. u.pc \in {"acquire", "reload"} /\ age[u.readAt] # "fresh" => age'[u.readAt] # "fresh"
    BY <1>2, <2>2, SMT
  <2>4. age[Newest] = "lapsed" => age'[Newest] = "lapsed"
    BY <1>2, <1>6, SMT
  <2>5. Reloads(u) /\ ~Frozen' /\ age[Newest] = "fresh" => age'[Newest] = "fresh"
    <3> SUFFICES ASSUME Reloads(u), ~Frozen', age[Newest] = "fresh"
                 PROVE  age'[Newest] = "fresh"
      OBVIOUS
    <3>1. u.began < Newest
      BY <1>6, <2>1, Zenon DEF Reloads, RefreshKnows, Leaves
    <3>2. ~At(d, "idle")
      BY <2>1, SMT DEF Reloads, Leaving, At
    <3>3. age[g] = "fresh" => u.began >= g
      BY <1>1, <2>1, <3>2, Zenon
    <3>4. u.began \in Nat
      BY BoundsAssumption, SMT DEF User, Gens, NoTokens
    <3> QED
      BY <1>2, <1>6, <3>1, <3>3, <3>4, SMT
  <2>6. u.pc = "saveTokens" => ~lost'
    BY <1>1, <2>1, Zenon DEF RefreshKnows, WasGranted
  <2>7. RefreshKnows(u)'
    BY <1>1, <1>5, <1>6, <2>1, <2>3, <2>4, <2>5, <2>6, RefreshKept, Zenon
  <2>8. CASE user'[d] = Idle
    BY <2>8, IdleKnows, KnowsOfCopy, Zenon
  <2>9. CASE user'[d] # Idle
    <3>1. PICK v : v = user'[d]
      OBVIOUS
    <3>2. /\ v.pc = u.pc /\ v.readAt = u.readAt /\ v.began = u.began /\ v.failed = u.failed
          /\ v.copy = u.copy /\ v.dirty = u.dirty
      BY <1>3, <2>1, <2>9, <3>1, Zenon
    <3>3. RefreshKnows(v)'
      BY <2>7, <3>2, SMT DEF RefreshKnows, Waits, Presents, GivesUp, WasGranted, Failed, Leaves,
         Takes, Tidy
    <3> QED
      BY <3>1, <3>3, KnowsOfCopy, Zenon
  <2> QED
    BY <2>8, <2>9
<1> QED
  BY <1>6, <1>7, <1>8, <1>9, SMT DEF LeaseHolds

(* What is saved after an operation, of what it had read before, is what    *)
(* the account has, or what it had and nobody else has changed.             *)
LEMMA SaveOutcomeHolds ==
  ASSUME TypeOK, LeaseHolds, NEW c \in Users, SaveOutcome(c), ~undone'
  PROVE  LeaseHolds' /\ Newest' >= Newest
<1>1. PICK u \in User : u = user[c] /\ u.pc = "saveOutcome" /\ RefreshKnows(u)
  BY Zenon DEF TypeOK, SaveOutcome, At, LeaseHolds
<1>2. /\ Save(c) /\ age' = age /\ platform' = platform /\ lost' = lost
      /\ user' = [user EXCEPT ![c] = Idle] /\ ~Undoes
  BY Zenon DEF SaveOutcome, Rest
<1>3. /\ "lease" \in u.dirty => u.copy.lease = "none"
      /\ "tokens" \notin u.dirty => "refreshed" \notin u.dirty /\ (~Frozen => "status" \notin u.dirty)
      /\ ~Frozen => u.copy.status = "CONNECTED"
      /\ "tokens" \in u.dirty =>
           /\ u.copy.tokens = Newest /\ u.copy.refreshed = Newest /\ "refreshed" \in u.dirty
           /\ ~Frozen => account.tokens = NoTokens \/ account.status = "CONNECTED"
  BY <1>1, SMT DEF RefreshKnows, Leaves, Leaving, HasTokens
<1>4. /\ account'.status = IF "status" \in u.dirty THEN u.copy.status ELSE account.status
      /\ account'.tokens = IF "tokens" \in u.dirty THEN u.copy.tokens ELSE account.tokens
      /\ account'.refreshed = IF "refreshed" \in u.dirty THEN u.copy.refreshed
                                                        ELSE account.refreshed
  BY <1>1, <1>2, SaveGives, SMT
<1>5. /\ account.lease = "held" => account'.lease = "held"
      /\ account.tokens = NoTokens => account'.tokens = NoTokens
  BY <1>2, Zenon DEF Undoes, HasTokens
<1>6. Idle \in User /\ Idle.pc = "idle" /\ ~Reloads(Idle) /\ RefreshKnows(Idle)'
  BY IdleKnows
<1>7. user'[c] = Idle /\ \A d \in Users \ {c} : user'[d] = user[d]
  BY <1>2, OneMoves, Zenon
<1>8. (Granting' <=> Granting) /\ (Carried' => Carried)
  <2>1. Idle.pc # "saveTokens" /\ ~At(c, "saveTokens")
    BY <1>1, <1>6, SMT DEF At
  <2> QED
    BY <1>2, <1>6, <2>1, GrantingKept, CarriedKept, Zenon
<1>9. Newest' = Newest /\ (Frozen' <=> Frozen) /\ Newest \in Nat /\ Newest \in 1..MaxGen
  BY <1>2, <1>8, NewestKept, NewestTyped, Zenon DEF LeaseHolds
<1>10. OneHolds'
  <2>1. \A d \in Users : user'[d].pc \in Refreshing => user[d].pc \in Refreshing
    BY <1>6, <1>7, SMT DEF Refreshing
  <2> QED
    BY <1>5, <2>1, Zenon DEF LeaseHolds, OneHolds
<1>11. /\ account.tokens \in {NoTokens, Newest} /\ account.refreshed <= Newest
       /\ account.tokens # NoTokens => account.refreshed = account.tokens
       /\ ~Frozen => /\ account.status \in Usable \union {"EXPIRED"}
                     /\ account.status = "EXPIRED" /\ account.tokens # NoTokens
                          => age[Newest] = "lapsed"
  BY Zenon DEF LeaseHolds, AccountIsNewest, HasTokens
<1>12. /\ account'.tokens \in {NoTokens, Newest} /\ account'.refreshed <= Newest
       /\ account'.tokens # NoTokens => account'.refreshed = account'.tokens
  BY <1>3, <1>4, <1>9, <1>11, SMT
<1>13. ASSUME ~Frozen
       PROVE  /\ account'.status \in {account.status, "CONNECTED"}
              /\ "tokens" \in u.dirty => account'.tokens = NoTokens \/ account'.status = "CONNECTED"
              /\ "tokens" \notin u.dirty =>
                   account'.tokens = account.tokens /\ account'.status = account.status
  BY <1>3, <1>4, <1>5, <1>13, SMT
<1>14. AccountIsNewest'
  <2>1. ~Frozen => /\ account'.status \in Usable \union {"EXPIRED"}
                   /\ account'.status = "EXPIRED" /\ account'.tokens # NoTokens
                        => age[Newest] = "lapsed"
    BY <1>11, <1>13, SMT DEF Usable
  <2> QED
    BY <1>2, <1>9, <1>12, <2>1, SMT DEF AccountIsNewest, HasTokens
<1>15. ASSUME NEW d \in Users \ {c} PROVE RefreshKnows(user[d])'
  <2>1. PICK w \in User : w = user[d] /\ RefreshKnows(w)
    BY Zenon DEF TypeOK, LeaseHolds
  <2>2. ~HasTokens(account) => ~HasTokens(account)'
    BY <1>5, Zenon DEF HasTokens
  <2>3. ~Frozen' /\ account.status \in Usable => account'.status \in Usable
    BY <1>9, <1>13, SMT DEF Usable
  <2>4. Reloads(w) /\ ~Frozen' => ~HasTokens(account)' \/ account'.status = "CONNECTED"
    <3>1. Reloads(w) /\ ~Frozen => account.tokens = NoTokens \/ account.status = "CONNECTED"
      BY <2>1, Zenon DEF RefreshKnows, Leaves, Reloads, HasTokens
    <3> QED
      BY <1>9, <1>13, <3>1, Zenon DEF HasTokens
  <2>5. w.pc = "saveTokens" => ~lost'
    BY <1>2, <2>1, Zenon DEF RefreshKnows, WasGranted
  <2>6. RefreshKnows(w)'
    BY <1>2, <1>8, <1>9, <2>1, <2>2, <2>3, <2>4, <2>5, KnowsThrough, Zenon
  <2> QED
    BY <1>7, <2>1, <2>6, KnowsOfCopy, Zenon
<1>16. RefreshKnows(user[c])'
  BY <1>6, <1>7, KnowsOfCopy, Zenon
<1> QED
  BY <1>9, <1>10, <1>14, <1>15, <1>16, SMT DEF LeaseHolds

(* A disconnection takes the tokens away, whatever they are by now.         *)
LEMMA SavePersonHolds ==
  ASSUME TypeOK, LeaseHolds, NEW c \in Users, SavePerson(c)
  PROVE  LeaseHolds' /\ Newest' >= Newest
<1>1. PICK u \in User : u = user[c] /\ u.pc = "save" /\ RefreshKnows(u)
  BY Zenon DEF TypeOK, SavePerson, At, LeaseHolds
<1>2. /\ Save(c) /\ age' = age /\ platform' = platform /\ lost' = lost
      /\ user' = [user EXCEPT ![c] = Idle]
  BY Zenon DEF SavePerson, Rest
<1>3. /\ u.copy.tokens = NoTokens /\ u.copy.status = "DISCONNECTED"
      /\ "tokens" \in u.dirty /\ u.dirty \subseteq {"status", "tokens"}
  BY <1>1, Zenon DEF RefreshKnows, Takes
<1>4. /\ account'.status \in {account.status, "DISCONNECTED"} /\ account'.tokens = NoTokens
      /\ account'.refreshed = account.refreshed /\ account'.lease = account.lease
  BY <1>1, <1>2, <1>3, SaveGives, SMT
<1>5. Idle \in User /\ Idle.pc = "idle" /\ ~Reloads(Idle) /\ RefreshKnows(Idle)'
  BY IdleKnows
<1>6. user'[c] = Idle /\ \A d \in Users \ {c} : user'[d] = user[d]
  BY <1>2, OneMoves, Zenon
<1>7. (Granting' <=> Granting) /\ (Carried' => Carried)
  <2>1. Idle.pc # "saveTokens" /\ ~At(c, "saveTokens")
    BY <1>1, <1>5, SMT DEF At
  <2> QED
    BY <1>2, <1>5, <2>1, GrantingKept, CarriedKept, Zenon
<1>8. Newest' = Newest /\ (Frozen' <=> Frozen) /\ Newest \in Nat /\ Newest \in 1..MaxGen
  BY <1>2, <1>7, NewestKept, NewestTyped, Zenon DEF LeaseHolds
<1>9. OneHolds'
  <2>1. Idle.pc \notin Refreshing
    BY <1>5, SMT DEF Refreshing
  <2> QED
    BY <1>2, <1>4, <2>1, OneHoldsKept, Zenon DEF LeaseHolds
<1>10. AccountIsNewest'
  BY <1>2, <1>4, <1>8, SMT DEF LeaseHolds, AccountIsNewest, HasTokens, Usable
<1>11. ASSUME NEW d \in Users \ {c} PROVE RefreshKnows(user[d])'
  <2>1. PICK w \in User : w = user[d] /\ RefreshKnows(w)
    BY Zenon DEF TypeOK, LeaseHolds
  <2>2. ~HasTokens(account)'
    BY <1>4, Zenon DEF HasTokens
  <2>3. account.status \in Usable => account'.status \in Usable
    BY <1>4, SMT DEF Usable
  <2>4. w.pc = "saveTokens" => ~lost'
    BY <1>2, <2>1, Zenon DEF RefreshKnows, WasGranted
  <2>5. RefreshKnows(w)'
    BY <1>2, <1>7, <1>8, <2>1, <2>2, <2>3, <2>4, KnowsThrough, Zenon
  <2> QED
    BY <1>6, <2>1, <2>5, KnowsOfCopy, Zenon
<1>12. RefreshKnows(user[c])'
  BY <1>5, <1>6, KnowsOfCopy, Zenon
<1> QED
  BY <1>8, <1>9, <1>10, <1>11, <1>12, SMT DEF LeaseHolds

-----------------------------------------------------------------------------
(* The theorems.                                                            *)

LEMMA ReconnectsSpend ==
  ASSUME TypeOK, NEW what \in Events, Spend(what)
  PROVE  /\ budget'["reconnect"] <= budget["reconnect"]
         /\ what = "reconnect" => budget'["reconnect"] < budget["reconnect"]
  BY SMT DEF TypeOK, Spend, Events

(* Nobody takes a reconnection or a save that came between back.            *)
LEMMA CalmBefore ==
  ASSUME TypeOK, [Next]_vars
  PROVE  budget'["reconnect"] <= budget["reconnect"] /\ (undone => undone')
<1>1. {"use", "disconnect", "reconnect", "aging", "fault"} \subseteq Events
      /\ budget["reconnect"] \in Nat
  BY SMT DEF Events, TypeOK
<1> DEFINE Spends == budget' = budget \/ \E what \in Events : Spend(what)
           Keeps == undone' = undone \/ undone' = (undone \/ Undoes)
<1>2. ASSUME NEW c \in Users, UserNext(c) PROVE Spends /\ Keeps
  <2>1. ASSUME NEW kind \in {"use", "test"}, Load(c, kind) PROVE Spends /\ undone' = undone
    BY <1>1, <2>1, Zenon DEF Load
  <2>2. LoadExpiring(c) => Spends /\ undone' = undone
    BY <1>1, Zenon DEF LoadExpiring
  <2>3. Acquire(c) \/ StopWaiting(c) \/ Reload(c) \/ Expire(c) =>
          Spends /\ undone' = undone
    BY Zenon DEF Acquire, StopWaiting, Reload, Expire
  <2>4. Refresh(c) => Spends /\ undone' = undone
    BY Zenon DEF Refresh
  <2>5. RefreshFails(c) \/ LoseAnswer(c) => Spends /\ undone' = undone
    BY <1>1, Zenon DEF RefreshFails, LoseAnswer
  <2>6. SaveTokens(c) \/ SaveFailure(c) \/ Release(c) \/ Operate(c) =>
          Spends /\ undone' = undone
    BY Zenon DEF SaveTokens, SaveFailure, Release, Operate
  <2>7. SaveOutcome(c) => Spends /\ undone' = (undone \/ Undoes)
    BY Zenon DEF SaveOutcome
  <2>8. Disconnect(c) => Spends /\ undone' = undone
    BY <1>1, Zenon DEF Disconnect
  <2>9. Authorize(c) => Spends /\ undone' = undone
    BY <1>1, Zenon DEF Authorize
  <2>10. StoreConnection(c) \/ SavePerson(c) => Spends /\ undone' = undone
    BY Zenon DEF StoreConnection, SavePerson
  <2>11. Crash(c) => Spends /\ undone' = undone
    BY <1>1, Zenon DEF Crash
  <2> HIDE DEF Spends
  <2> QED
    BY <1>2, <2>1, <2>2, <2>3, <2>4, <2>5, <2>6, <2>7, <2>8, <2>9, <2>10, <2>11, Zenon
       DEF UserNext
<1>3. Spends /\ Keeps
  <2>1. ASSUME NEW g \in 1..MaxGen, Age(g) PROVE Spends /\ undone' = undone
    BY <1>1, <2>1, Zenon DEF Age
  <2>2. Revoke => Spends /\ undone' = undone
    BY <1>1, Zenon DEF Revoke
  <2>3. LeaseExpires => Spends /\ undone' = undone
    BY Zenon DEF LeaseExpires
  <2>4. UNCHANGED vars => Spends /\ undone' = undone
    BY Zenon DEF vars
  <2> HIDE DEF Spends
  <2> QED
    BY <1>2, <2>1, <2>2, <2>3, <2>4, Zenon DEF Next
<1>4. budget' = budget => budget'["reconnect"] <= budget["reconnect"]
  BY <1>1, SMT
<1>5. undone => undone'
  <2>1. undone' = undone => (undone => undone')
    OBVIOUS
  <2>2. undone' = (undone \/ Undoes) => (undone => undone')
    OBVIOUS
  <2> QED
    BY <1>3, <2>1, <2>2
<1>6. budget'["reconnect"] <= budget["reconnect"]
  BY <1>3, <1>4, ReconnectsSpend, Zenon
<1> QED
  BY <1>5, <1>6

LEMMA StepHolds ==
  ASSUME TypeOK, budget.reconnect <= Budget.reconnect, LeaseHolds, [Next]_vars, Calm'
  PROVE  LeaseHolds' /\ Newest' >= Newest
<1>1. ~undone' /\ ~(budget'.reconnect < Budget.reconnect)
  BY Zenon DEF Calm, Reconnected
<1>2. ASSUME NEW c \in Users, UserNext(c) PROVE LeaseHolds' /\ Newest' >= Newest
  <2>1. {"use", "test"} \subseteq Kinds
    BY DEF Kinds
  <2>2. ~Authorize(c)
    <3>1. Authorize(c) => Spend("reconnect")
      BY Zenon DEF Authorize
    <3>2. "reconnect" \in Events
      BY DEF Events
    <3>3. budget'["reconnect"] = budget'.reconnect /\ budget["reconnect"] = budget.reconnect
      OBVIOUS
    <3>4. /\ budget.reconnect \in Nat /\ Budget.reconnect \in Nat
          /\ Authorize(c) => budget'.reconnect < budget.reconnect
      BY <3>1, <3>2, ReconnectsSpend, BoundsAssumption, SMT DEF TypeOK
    <3>5. budget' \in [Events -> Nat]
      BY <1>2, TokenStepTyped, Zenon DEF Next, TypeOK
    <3> QED
      BY <1>1, <3>2, <3>4, <3>5, SMT
  <2>3. ~StoreConnection(c)
    BY Zenon DEF StoreConnection, At, LeaseHolds, RefreshKnows, Takes
  <2> QED
    BY <1>1, <1>2, <2>1, <2>2, <2>3, LoadHolds, LoadExpiringHolds, AcquireHolds, StopWaitingHolds,
       ReloadHolds, ExpireHolds, RefreshHolds, RefreshFailsHolds, LoseAnswerHolds,
       SaveTokensHolds, SaveFailureHolds, ReleaseHolds, OperateHolds, SaveOutcomeHolds,
       DisconnectHolds, SavePersonHolds, CrashHolds, Zenon DEF UserNext
<1>3. CASE UNCHANGED vars
  <2>1. /\ user' = user /\ account' = account /\ age' = age /\ platform' = platform /\ lost' = lost
    BY <1>3, Zenon DEF vars
  <2>2. /\ (Granting' <=> Granting) /\ (Carried' <=> Carried)
        /\ account'.tokens = account.tokens /\ account'.status = account.status
    BY <2>1, Zenon DEF Granting, Carried, At
  <2>3. Newest' = Newest /\ (Frozen' <=> Frozen) /\ Newest \in Nat
    BY <2>1, <2>2, NewestKept, NewestTyped, Zenon DEF LeaseHolds
  <2>4. OneHolds'
    BY <2>1, Zenon DEF LeaseHolds, OneHolds
  <2>5. AccountIsNewest'
    BY <2>1, <2>3, SMT DEF LeaseHolds, AccountIsNewest, HasTokens
  <2>6. ASSUME NEW d \in Users PROVE RefreshKnows(user[d])'
    <3>1. PICK u \in User : u = user[d] /\ RefreshKnows(u)
      BY Zenon DEF TypeOK, LeaseHolds
    <3>2. u.pc = "saveTokens" => ~lost'
      BY <2>1, <3>1, Zenon DEF RefreshKnows, WasGranted
    <3>3. RefreshKnows(u)'
      BY <2>1, <2>2, <2>3, <3>1, <3>2, RefreshKept, Zenon
    <3> QED
      BY <2>1, <3>1, <3>3, KnowsOfCopy, Zenon
  <2> QED
    BY <2>3, <2>4, <2>5, <2>6, SMT DEF LeaseHolds
<1> QED
  BY <1>2, <1>3, AgeHolds, RevokeHolds, LeaseExpiresHolds, Zenon DEF Next

LEMMA TokenInvInit == Init => TokenInv
<1> SUFFICES ASSUME Init PROVE TokenInv
  OBVIOUS
<1>1. TypeOK
  BY InitTyped
<1>2. budget.reconnect <= Budget.reconnect
  <2>1. Budget["reconnect"] \in Nat /\ budget = Budget
    BY BoundsAssumption, SMT DEF Events, Init
  <2> QED
    BY <2>1, SMT
<1>3. /\ \A c \in Users : user[c] = Idle /\ user[c].pc = "idle"
      /\ account.status = "CONNECTED" /\ account.tokens = 1 /\ account.refreshed = 1
      /\ platform.current = 1 /\ ~lost
  BY SMT DEF Init, Idle
<1>4. ~Granting /\ Newest = 1
  BY <1>3, SMT DEF Granting, Newest, At
<1>5. OneHolds
  BY <1>3, SMT DEF OneHolds, Refreshing
<1>6. AccountIsNewest
  BY <1>3, <1>4, BoundsAssumption, SMT DEF AccountIsNewest, Usable
<1>7. \A c \in Users : RefreshKnows(user[c])
  BY <1>1, <1>3, IdleKnows, Zenon
<1> QED
  BY <1>1, <1>2, <1>5, <1>6, <1>7, Zenon DEF TokenInv, LeaseHolds

LEMMA CalmStep ==
  ASSUME TokenInv, [Next]_vars, Calm'
  PROVE  LeaseHolds /\ LeaseHolds' /\ Newest' >= Newest
<1>1. TypeOK /\ budget.reconnect <= Budget.reconnect
  BY DEF TokenInv
<1>2. budget'["reconnect"] <= budget["reconnect"] /\ (undone => undone')
  BY <1>1, CalmBefore, Zenon
<1>3. TypeOK'
  BY <1>1, TokenStepTyped, Zenon
<1>4. Calm
  <2>1. ~(budget'["reconnect"] < Budget["reconnect"]) /\ ~undone'
    BY Zenon DEF Calm, Reconnected
  <2>2. "reconnect" \in Events
    BY DEF Events
  <2>3. budget["reconnect"] \in Nat /\ budget'["reconnect"] \in Nat /\ Budget["reconnect"] \in Nat
    BY <1>1, <1>3, <2>2, BoundsAssumption, SMT DEF TypeOK
  <2>4. ~(budget["reconnect"] < Budget["reconnect"])
    BY <1>2, <2>1, <2>3, SMT
  <2> QED
    BY <1>2, <2>1, <2>4, Zenon DEF Calm, Reconnected
<1>5. LeaseHolds
  BY <1>4, Zenon DEF TokenInv
<1> QED
  BY <1>1, <1>5, StepHolds, Zenon

LEMMA TokenInvKept == TokenInv /\ [Next]_vars => TokenInv'
<1> SUFFICES ASSUME TokenInv, [Next]_vars PROVE TokenInv'
  OBVIOUS
<1>1. TypeOK /\ budget.reconnect <= Budget.reconnect
  BY DEF TokenInv
<1>2. TypeOK'
  BY <1>1, TokenStepTyped, Zenon
<1>3. budget'.reconnect <= Budget.reconnect
  <2>1. budget'["reconnect"] <= budget["reconnect"]
    BY <1>1, CalmBefore, Zenon
  <2>2. "reconnect" \in Events
    BY DEF Events
  <2>3. budget["reconnect"] \in Nat /\ budget'["reconnect"] \in Nat /\ Budget["reconnect"] \in Nat
    BY <1>1, <1>2, <2>2, BoundsAssumption, SMT DEF TypeOK
  <2> QED
    BY <1>1, <2>1, <2>3, SMT
<1>4. Calm' => LeaseHolds'
  BY CalmStep, Zenon
<1> QED
  BY <1>2, <1>3, <1>4, Zenon DEF TokenInv

LEMMA TokenInvSafe == TokenInv => RefreshesAreSafe
<1> SUFFICES ASSUME TokenInv PROVE RefreshesAreSafe
  OBVIOUS
<1>1. TypeOK /\ (Calm => LeaseHolds)
  BY DEF TokenInv
<1>2. NothingSpentTwice
  <2> SUFFICES ASSUME ~undone, ~Reconnected, ~lost, NEW c \in Users, At(c, "refresh")
               PROVE  user[c].copy.tokens = platform.current
    BY Zenon DEF NothingSpentTwice, PresentedOnce
  <2>1. LeaseHolds
    BY <1>1, Zenon DEF Calm
  <2>2. PICK u \in User : u = user[c] /\ u.pc = "refresh"
    BY <1>1, Zenon DEF TypeOK, At
  <2>3. u.copy.tokens = platform.current
    BY <1>1, <2>1, <2>2, WhoAsks, Zenon
  <2> QED
    BY <2>2, <2>3
<1>3. HealthyNeedsNoReconnecting
  BY <1>1, SMT DEF HealthyNeedsNoReconnecting, Calm, LeaseHolds, AccountIsNewest, Frozen, Usable
<1> QED
  BY <1>1, <1>2, <1>3, Zenon DEF RefreshesAreSafe

LEMMA NewerOnly ==
  ASSUME TokenInv, [Next]_vars, ~Reconnected', ~undone'
  PROVE  account'.tokens = NoTokens \/ account'.tokens >= account.tokens
<1>1. LeaseHolds /\ LeaseHolds' /\ Newest' >= Newest
  BY CalmStep, Zenon DEF Calm
<1>2. /\ account.tokens \in {NoTokens, Newest} /\ Newest \in 1..MaxGen
      /\ account'.tokens \in {NoTokens, Newest'} /\ Newest' \in 1..MaxGen
  BY <1>1, Zenon DEF LeaseHolds, AccountIsNewest
<1> QED
  BY <1>1, <1>2, BoundsAssumption, SMT DEF NoTokens

(* Sharing an account costs nobody the account.                             *)
THEOREM RefreshingIsSafe == Spec => []RefreshesAreSafe
<1>1. Init => TokenInv
  BY TokenInvInit
<1>2. TokenInv /\ [Next]_vars => TokenInv'
  BY TokenInvKept
<1>3. TokenInv => RefreshesAreSafe
  BY TokenInvSafe
<1> QED
  BY <1>1, <1>2, <1>3, PTL DEF Spec

(* No save of an older copy puts tokens in the place of newer ones.         *)
THEOREM TokensOnlyGetNewer == Spec => TokensNeverGoBack
<1> DEFINE Newer == ~Reconnected' /\ ~undone' =>
                      account'.tokens = NoTokens \/ account'.tokens >= account.tokens
<1>1. Init => TokenInv
  BY TokenInvInit
<1>2. TokenInv /\ [Next]_vars => TokenInv'
  BY TokenInvKept
<1>3. TokenInv /\ [Next]_vars => [Newer]_vars
  BY NewerOnly
<1> QED
  BY <1>1, <1>2, <1>3, PTL DEF Spec, TokensNeverGoBack

-----------------------------------------------------------------------------
(* Connecting: the inductive invariant.                                    *)

(* A request that has a login's code or tokens in its hands, or is about to *)
(* ask for them: of each login there is one.                               *)
Carrying == {"context", "ask", "list", "draft", "connect", "find", "count", "save"}
Begun == {"claim", "context"}
Entitled == {"ask", "list", "draft", "pick", "take", "connect", "find", "count", "save"}
Aiming == {"list", "pick", "take", "connect", "find", "count", "save", "drop",
           "use", "refresh", "call"}

(* What a request may rely on, by its step.                                *)
Placed(q) ==
  /\ q.pc \notin {"idle", "drop", "use", "refresh", "call"} => q.flow \in Flows /\ q.by \in People
  /\ q.pc \in Aiming => q.account \in Accounts
  /\ q.pc \in Begun => q.asked = 0
Asking(q) == q.pc = "ask" => q.asked < Len(Asks[way])
(* Who asks: an admin, when the request began, from the browser that        *)
(* started the login.                                                      *)
Vouched(q) ==
  /\ q.pc \in Begun => state[q.flow].stage # "new" /\ (state[q.flow].by \in admin => q.entitled)
  /\ q.pc \in Entitled => q.entitled
  /\ q.pc \in {"context", "ask", "list", "draft"} => q.cookie = q.flow
  /\ q.cookie # None => state[q.cookie].stage # "new" /\ state[q.cookie].by = q.by
(* What it carries was spent by nobody else.                               *)
Unspent(q) ==
  /\ q.pc \in Carrying \union {"forget"} => state[q.flow].stage \in {"consumed", "gone"}
  /\ q.pc \in Carrying => draft[q.flow] = NoDraft /\ stored[q.flow] = 0
  /\ q.pc = "context" \/ (q.pc = "ask" /\ q.asked = 0) => exchanged[q.flow] = <<>>
(* The slot it takes was free, apart from those that others took since.    *)
Counted(q) == q.pc = "save" /\ TakesSlot(q.found) => Used < Limit + q.since

Knows(q) == Placed(q) /\ Asking(q) /\ Vouched(q) /\ Unspent(q) /\ Counted(q)
RequestsKnow == \A r \in Requests : Knows(request[r])

OneCarries ==
  \A r, q \in Requests :
    request[r].pc \in Carrying /\ request[q].pc \in Carrying /\ request[r].flow = request[q].flow
      => r = q

(* A login that nobody came back from has stored nothing; a draft is of a  *)
(* login that has stored nothing.                                          *)
Untouched ==
  \A f \in Flows :
    /\ state[f].stage \in {"new", "pending"} =>
         exchanged[f] = <<>> /\ stored[f] = 0 /\ draft[f] = NoDraft
    /\ draft[f] # NoDraft => stored[f] = 0

(* A browser is bound to a login it started.                               *)
CookiesBind ==
  \A p \in People :
    cookie[p] # None => state[cookie[p]].stage # "new" /\ state[cookie[p]].by = p

ConnectingInv == ConnectingHolds /\ RequestsKnow /\ OneCarries /\ Untouched /\ CookiesBind

-----------------------------------------------------------------------------
(* Types.                                                                  *)

LEMMA WaysAsk ==
  ASSUME ConnectingTypeOK
  PROVE  Len(Asks[way]) \in 1..3
  BY WaysAssumption, SMT DEF ConnectingTypeOK, Asks, TikTokLogin, YouTubeLogin, LinkedInLogin,
     LinkedInPagesLogin, InstagramLogin, InstagramPagesLogin, FacebookLogin, TikTokTokens,
     GoogleTokens, LinkedInTokens, OrganizationPages, InstagramTokens, InstagramProfile,
     MetaTokens, MetaPages

LEMMA RestingTyped == Resting \in Request
  BY SMT DEF Resting, Request, Absent, Record, RecordStatuses, RequestSteps

LEMMA NoDraftTyped == NoDraft \in Draft
  BY SMT DEF NoDraft, Draft

LEMMA UsedTyped == Used \in Nat /\ IsFiniteSet({a \in Accounts : InUse(a)})
  BY ConnectingAssumption, FS_Subset, FS_CardinalityType, SMT DEF Used, ConnectingAssumption

(* A request keeps its type when one of them is put back.                   *)
LEMMA BecomeTyped ==
  ASSUME ConnectingTypeOK, NEW r \in Requests, NEW v \in Request, Become(r, v)
  PROVE  /\ request' \in [Requests -> Request]
         /\ request'[r] = v
         /\ \A q \in Requests \ {r} : request'[q] = request[q]
  BY Zenon DEF ConnectingTypeOK, Become

LEMMA UseTyped ==
  ASSUME ConnectingTypeOK, NEW what \in Occasions, Use(what)
  PROVE  chances' \in [Occasions -> Nat]
  BY SMT DEF ConnectingTypeOK, Use

(* A browser's cookie is cleared, or stays.                                 *)
Clears == cookie' = cookie \/ \E p : cookie' = [cookie EXCEPT ![p] = None]

LEMMA ClearsTyped ==
  ASSUME ConnectingTypeOK, CookiesBind, Clears
  PROVE  /\ cookie' \in [People -> Flows \union {None}]
         /\ \A p \in People : cookie'[p] # None => cookie'[p] = cookie[p]
<1>1. CASE cookie' = cookie
  BY <1>1 DEF ConnectingTypeOK
<1>2. ASSUME NEW p, cookie' = [cookie EXCEPT ![p] = None]
      PROVE  /\ cookie' \in [People -> Flows \union {None}]
             /\ \A u \in People : cookie'[u] # None => cookie'[u] = cookie[u]
  BY <1>2, Zenon DEF ConnectingTypeOK
<1> QED
  BY <1>1, <1>2, Zenon DEF Clears

-----------------------------------------------------------------------------
(* What a request knows stays true.                                        *)

(* Logins go forward: one that was started stays so, with who started it,  *)
(* and nobody becomes an admin.                                            *)
Over == {"consumed", "gone"}
Forward ==
  /\ way' = way /\ admin' \subseteq admin
  /\ \A f \in Flows : state[f].stage # "new" =>
       /\ state'[f].stage # "new" /\ state'[f].by = state[f].by
       /\ state[f].stage \in Over => state'[f].stage \in Over

LEMMA KnowsKept ==
  ASSUME ConnectingTypeOK, NEW q \in Request, Knows(q), Forward, Counted(q)',
         q.pc \in Carrying => /\ draft'[q.flow] = draft[q.flow]
                              /\ stored'[q.flow] = stored[q.flow]
                              /\ exchanged'[q.flow] = exchanged[q.flow]
  PROVE  Knows(q)'
<1>1. Placed(q)' /\ Asking(q)'
  BY SMT DEF Knows, Placed, Asking, Forward
<1>2. Vouched(q)'
  <2>1. q.cookie \in Flows \union {None}
    BY DEF Request
  <2>2. q.pc \in Begun => q.flow \in Flows
    BY SMT DEF Knows, Placed, Begun
  <2> QED
    BY <2>1, <2>2, SMT DEF Knows, Vouched, Forward
<1>3. Unspent(q)'
  <2>1. q.pc \in Carrying \union {"forget"} => q.flow \in Flows
    BY SMT DEF Knows, Placed, Carrying
  <2> QED
    BY <2>1, SMT DEF Knows, Unspent, Forward, Over, Carrying
<1> QED
  BY <1>1, <1>2, <1>3 DEF Knows

(* What is known of a record is known of the request that is in that state. *)
LEMMA KnowsOf ==
  ASSUME NEW q \in Requests, NEW w, request'[q] = w, Knows(w)'
  PROVE  Knows(request[q])'
  BY SMT DEF Knows, Placed, Asking, Vouched, Unspent, Counted

(* Slots are counted by the accounts alone.                                 *)
LEMMA CountedKept ==
  ASSUME NEW q, Counted(q), accounts' = accounts
  PROVE  Counted(q)'
  BY SMT DEF Counted, Used, InUse, Occupies, TakesSlot

(* A step of one request that touches nothing but itself and a cookie.      *)
LEMMA RequestStep ==
  ASSUME ConnectingInv, NEW r \in Requests, NEW v \in Request, Become(r, v), Knows(v),
         v.pc \in Carrying => request[r].pc \in Carrying /\ request[r].flow = v.flow,
         UNCHANGED <<Quiet, state, draft>>, Clears, chances' \in [Occasions -> Nat]
  PROVE  ConnectingInv'
<1> USE DEF ConnectingInv, ConnectingHolds
<1>1. /\ request' \in [Requests -> Request] /\ request'[r] = v
      /\ \A q \in Requests \ {r} : request'[q] = request[q]
  BY BecomeTyped
<1>2. ConnectingTypeOK'
  BY <1>1, ClearsTyped, SMT DEF ConnectingTypeOK, Quiet
<1>3. CodesAreUsedOnce' /\ LoginsConnectOnce' /\ Untouched'
  BY SMT DEF CodesAreUsedOnce, LoginsConnectOnce, Untouched, Quiet
<1>4. RequestsKnow'
  <2> SUFFICES ASSUME NEW q \in Requests
               PROVE  Knows(request[q])'
    BY DEF RequestsKnow
  <2>1. Forward
    BY SMT DEF Forward, Quiet
  <2>2. PICK w \in Request : w = request'[q] /\ Knows(w)
    BY <1>1, Zenon DEF RequestsKnow, ConnectingTypeOK
  <2>3. Counted(w)'
    BY <2>2, CountedKept DEF Knows, Quiet
  <2>4. Knows(w)'
    BY <2>1, <2>2, <2>3, KnowsKept, SMT DEF Quiet
  <2> QED
    BY <2>2, <2>4, KnowsOf
<1>5. OneCarries'
  BY <1>1, SMT DEF OneCarries
<1>6. CookiesBind'
  BY ClearsTyped, SMT DEF CookiesBind
<1> QED
  BY <1>2, <1>3, <1>4, <1>5, <1>6

-----------------------------------------------------------------------------
(* The steps of a request that touch nothing else.                         *)

LEMMA Here ==
  ASSUME ConnectingInv, NEW r \in Requests
  PROVE  /\ ConnectingTypeOK /\ CookiesBind
         /\ request[r] \in Request
         /\ Knows(request[r])
  BY SMT DEF ConnectingInv, ConnectingHolds, ConnectingTypeOK, RequestsKnow

(* Fields are put back one by one.                                          *)
LEMMA FieldsTyped ==
  ASSUME NEW q \in Request
  PROVE  /\ \A s \in RequestSteps : [q EXCEPT !.pc = s] \in Request
         /\ \A f \in Flows \union {None} : [q EXCEPT !.flow = f] \in Request
         /\ \A p \in People \union {None} : [q EXCEPT !.by = p] \in Request
         /\ \A f \in Flows \union {None} : [q EXCEPT !.cookie = f] \in Request
         /\ \A n \in 0..3 : [q EXCEPT !.asked = n] \in Request
         /\ \A T \in SUBSET Accounts : [q EXCEPT !.targets = T] \in Request
         /\ \A a \in Accounts \union {None} : [q EXCEPT !.account = a] \in Request
         /\ \A d \in Record : [q EXCEPT !.found = d] \in Request
         /\ \A c \in SUBSET Paths : [q EXCEPT !.changed = c] \in Request
         /\ \A e \in BOOLEAN : [q EXCEPT !.entitled = e] \in Request
         /\ \A n \in Nat : [q EXCEPT !.since = n] \in Request
  BY SMT DEF Request

LEMMA StepsTyped ==
  \A s \in {"idle", "claim", "context", "ask", "list", "draft", "pick", "take", "connect",
            "find", "count", "save", "forget", "drop", "use", "refresh", "call"} : s \in RequestSteps
  BY DEF RequestSteps

LEMMA RestingKnows == Knows(Resting)
  BY SMT DEF Knows, Placed, Asking, Vouched, Unspent, Counted, Resting, Aiming, Begun, Entitled, Carrying

LEMMA EndStep ==
  ASSUME ConnectingInv, NEW r \in Requests, End(r), UNCHANGED <<Quiet, state, draft>>, Clears,
         chances' \in [Occasions -> Nat]
  PROVE  ConnectingInv'
<1>1. Resting.pc \notin Carrying
  BY SMT DEF Resting, Carrying
<1> QED
  BY <1>1, RestingTyped, RestingKnows, RequestStep, Zenon DEF End

LEMMA RespondStep ==
  ASSUME ConnectingInv, NEW r \in Requests, Respond(r) \/ Answer(r),
         UNCHANGED <<Quiet, state, draft, chances>>
  PROVE  ConnectingInv'
<1>1. End(r) /\ Clears
  BY Zenon DEF Respond, Answer, Clears
<1>2. chances' \in [Occasions -> Nat]
  BY Here, SMT DEF ConnectingTypeOK
<1> QED
  BY <1>1, <1>2, EndStep, Zenon

(* A step to another call, with what is known there.                        *)
LEMMA MoveStep ==
  ASSUME ConnectingInv, NEW r \in Requests, NEW v \in Request, Become(r, v), Knows(v),
         v.pc \in Carrying => request[r].pc \in Carrying /\ request[r].flow = v.flow,
         UNCHANGED <<Quiet, state, draft, cookie, chances>>
  PROVE  ConnectingInv'
<1>1. Clears /\ chances' \in [Occasions -> Nat]
  BY Here, SMT DEF ConnectingTypeOK, Clears
<1> QED
  BY <1>1, RequestStep, Zenon

Moved(r, step) == [request[r] EXCEPT !.pc = step]

LEMMA MovedTyped ==
  ASSUME ConnectingInv, NEW r \in Requests, NEW step \in RequestSteps
  PROVE  /\ Moved(r, step) \in Request
         /\ MoveTo(r, step) <=> Become(r, Moved(r, step))
<1>1. Moved(r, step) \in Request
  BY Here, SMT DEF Moved, Request
<1>2. MoveTo(r, step) <=> Become(r, Moved(r, step))
  BY Zenon DEF Moved, MoveTo, Become
<1> QED
  BY <1>1, <1>2

LEMMA CallbackStep ==
  ASSUME ConnectingInv, NEW r \in Requests, NEW f \in Flows, NEW p \in People, Callback(r, f, p)
  PROVE  ConnectingInv'
<1>0. PICK e \in BOOLEAN : e = (state[f].by \in admin)
  <2>1. (state[f].by \in admin) \in BOOLEAN
    BY SMT
  <2> QED
    BY <2>1
<1> DEFINE v == [Resting EXCEPT !.pc = "claim", !.flow = f, !.by = p, !.cookie = cookie[p],
                                !.entitled = e]
<1>1. cookie[p] \in Flows \union {None}
  BY Here, Zenon DEF ConnectingTypeOK
<1>2. /\ v.pc = "claim" /\ v.flow = f /\ v.by = p /\ v.cookie = cookie[p] /\ v.asked = 0
      /\ v.entitled = e
      /\ v.account = None
  BY SMT DEF Resting
<1>3. v \in Request
  BY <1>1, StepsTyped, RestingTyped, FieldsTyped, Zenon
<1>4. cookie[p] # None => state[cookie[p]].stage # "new" /\ state[cookie[p]].by = p
  BY Here, Zenon DEF CookiesBind
<1>5. Become(r, v) /\ state[f].stage # "new" /\ UNCHANGED <<Quiet, state, draft, cookie>>
  BY <1>0, Zenon DEF Callback
<1> HIDE DEF v
<1>6. Knows(v)
  <2>1. Placed(v) /\ Asking(v)
    BY <1>2, SMT DEF Placed, Asking, Aiming
  <2>2. Vouched(v)
    <3>1. state[f].by \in admin => v.entitled
      BY <1>0, <1>2, Zenon
    <3>2. state[v.flow].stage # "new" /\ (state[v.flow].by \in admin => v.entitled)
      BY <3>1, <1>2, <1>5, Zenon
    <3>3. v.cookie # None => state[v.cookie].stage # "new" /\ state[v.cookie].by = v.by
      BY <1>2, <1>4, Zenon
    <3>4. v.pc \notin Entitled /\ v.pc \notin {"context", "ask", "list", "draft"}
      BY <1>2, SMT DEF Entitled
    <3> QED
      BY <3>2, <3>3, <3>4, Zenon DEF Vouched
  <2>3. Unspent(v) /\ Counted(v)
    BY <1>2, SMT DEF Unspent, Counted, Carrying
  <2> QED
    BY <2>1, <2>2, <2>3 DEF Knows
<1>7. Clears /\ chances' \in [Occasions -> Nat] /\ v.pc \notin Carrying
  BY <1>2, <1>5, Here, UseTyped, SMT DEF Callback, Clears, Occasions, Carrying
<1> QED
  BY <1>3, <1>5, <1>6, <1>7, RequestStep, Zenon

LEMMA LoadContextStep ==
  ASSUME ConnectingInv, NEW r \in Requests, LoadContext(r)
  PROVE  ConnectingInv'
<1>1. request[r] \in Request /\ Knows(request[r]) /\ Len(Asks[way]) \in 1..3
  BY Here, WaysAsk
<1>2. request[r].pc = "context"
  BY Zenon DEF LoadContext, Stands
<1>3. CASE Respond(r)
  BY <1>3, RespondStep, Zenon DEF LoadContext
<1>4. CASE MayConnect(state[request[r].flow].by) /\ MoveTo(r, "ask") /\ UNCHANGED cookie
  <2> DEFINE v == Moved(r, "ask")
  <2>1. v \in Request /\ Become(r, v)
    BY <1>4, MovedTyped, StepsTyped
  <2>2. /\ v.pc = "ask" /\ v.flow = request[r].flow /\ v.by = request[r].by
        /\ v.cookie = request[r].cookie /\ v.asked = request[r].asked
        /\ v.entitled = request[r].entitled
    BY <1>1, SMT DEF Moved, Request
  <2> HIDE DEF v
  <2>3. state[request[r].flow].by \in admin
    BY <1>4 DEF MayConnect
  <2>4. Placed(v)
    BY <1>1, <1>2, <2>2, SMT DEF Knows, Placed, Aiming, Begun
  <2>8. Asking(v)
    <3>1. request[r].asked = 0
      BY <1>1, <1>2, SMT DEF Knows, Placed, Begun
    <3>2. v.asked = 0
      BY <2>2, <3>1
    <3>3. Len(Asks[way]) > 0
      BY <1>1, SMT
    <3> QED
      BY <3>2, <3>3, SMT DEF Asking
  <2>5. Vouched(v)
    BY <1>1, <1>2, <2>2, <2>3, SMT DEF Knows, Vouched, Begun, Entitled
  <2>6. Unspent(v) /\ Counted(v)
    BY <1>1, <1>2, <2>2, SMT DEF Knows, Unspent, Counted, Carrying
  <2>7. v.pc \in Carrying => request[r].pc \in Carrying /\ request[r].flow = v.flow
    BY <1>2, <2>2, SMT DEF Carrying
  <2> QED
    BY <1>4, <2>1, <2>4, <2>5, <2>6, <2>7, <2>8, MoveStep, Zenon DEF LoadContext, Knows
<1> QED
  BY <1>3, <1>4, Zenon DEF LoadContext

LEMMA ListStep ==
  ASSUME ConnectingInv, NEW r \in Requests, List(r)
  PROVE  ConnectingInv'
<1>1. request[r] \in Request /\ Knows(request[r])
  BY Here
<1>2. request[r].pc = "list"
  BY Zenon DEF List, Stands
<1>3. CASE Respond(r)
  BY <1>3, RespondStep, Zenon DEF List
<1>4. ASSUME NEW offered \in SUBSET Accounts, UNCHANGED cookie,
             Become(r, [request[r] EXCEPT
               !.targets = offered,
               !.pc = CASE Cardinality(offered) > 1 -> "draft"
                        [] Cardinality(offered) = 1 -> "connect"
                        [] OTHER -> "find",
               !.account = IF Cardinality(offered) = 1 THEN CHOOSE a \in offered : TRUE ELSE @])
      PROVE  ConnectingInv'
  <2> DEFINE pc == CASE Cardinality(offered) > 1 -> "draft"
                     [] Cardinality(offered) = 1 -> "connect"
                     [] OTHER -> "find"
             chosen == IF Cardinality(offered) = 1 THEN CHOOSE a \in offered : TRUE
                       ELSE request[r].account
             v == [request[r] EXCEPT !.targets = offered, !.pc = pc, !.account = chosen]
  <2>1. chosen \in Accounts
    <3>1. Cardinality(offered) = 1 => offered # {}
      BY FS_EmptySet
    <3>2. request[r].account \in Accounts
      BY <1>1, <1>2, SMT DEF Knows, Placed, Aiming
    <3> QED
      BY <3>1, <3>2
  <2>2. pc \in {"draft", "connect", "find"}
    OBVIOUS
  <2>3. Become(r, v)
    BY <1>4, Zenon
  <2> HIDE DEF pc, chosen
  <2>4. v \in Request
    BY <1>1, <2>1, <2>2, StepsTyped, FieldsTyped, Zenon
  <2>5. /\ v.pc = pc /\ v.flow = request[r].flow /\ v.by = request[r].by
        /\ v.cookie = request[r].cookie /\ v.account = chosen /\ v.entitled = request[r].entitled
    BY <1>1, SMT DEF Request
  <2> HIDE DEF v
  <2>6. Knows(v)
    BY <1>1, <1>2, <2>1, <2>2, <2>5, SMT DEF Knows, Placed, Asking, Vouched, Unspent, Counted, Aiming,
       Begun, Entitled, Carrying
  <2>7. v.pc \in Carrying => request[r].pc \in Carrying /\ request[r].flow = v.flow
    BY <1>2, <2>5, SMT DEF Carrying
  <2> QED
    BY <1>4, <2>3, <2>4, <2>6, <2>7, MoveStep, Zenon DEF List
<1> QED
  BY <1>3, <1>4, Zenon DEF List

LEMMA ChooseStep ==
  ASSUME ConnectingInv, NEW r \in Requests, NEW f \in Flows, NEW p \in People,
         NEW a \in Accounts, Choose(r, f, p, a)
  PROVE  ConnectingInv'
<1> DEFINE v == [Resting EXCEPT !.pc = "pick", !.flow = f, !.by = p, !.account = a,
                                !.entitled = TRUE]
<1>1. /\ v.pc = "pick" /\ v.flow = f /\ v.by = p /\ v.account = a /\ v.entitled = TRUE
      /\ v.cookie = None
  BY SMT DEF Resting
<1>2. v \in Request
  BY StepsTyped, RestingTyped, FieldsTyped, Zenon
<1>3. Become(r, v) /\ UNCHANGED <<Quiet, state, draft, cookie>>
  BY Zenon DEF Choose
<1> HIDE DEF v
<1>4. Knows(v)
  BY <1>1, SMT DEF Knows, Placed, Asking, Vouched, Unspent, Counted, Aiming, Begun, Entitled,
     Carrying
<1>5. Clears /\ chances' \in [Occasions -> Nat] /\ v.pc \notin Carrying
  BY <1>1, <1>3, Here, UseTyped, SMT DEF Choose, Clears, Occasions, Carrying
<1> QED
  BY <1>2, <1>3, <1>4, <1>5, RequestStep, Zenon

LEMMA PickStep ==
  ASSUME ConnectingInv, NEW r \in Requests, Pick(r)
  PROVE  ConnectingInv'
<1>1. request[r] \in Request /\ Knows(request[r]) /\ request[r].pc = "pick"
  BY Here, Zenon DEF Pick, Stands
<1>2. CASE End(r)
  <2>1. Clears /\ chances' \in [Occasions -> Nat]
    BY Here, SMT DEF ConnectingTypeOK, Clears, Pick
  <2> QED
    BY <1>2, <2>1, EndStep, Zenon DEF Pick
<1>3. CASE MoveTo(r, "take")
  <2> DEFINE v == Moved(r, "take")
  <2>1. v \in Request /\ Become(r, v)
    BY <1>3, MovedTyped, StepsTyped
  <2>2. /\ v.pc = "take" /\ v.flow = request[r].flow /\ v.by = request[r].by
        /\ v.cookie = request[r].cookie /\ v.account = request[r].account
        /\ v.entitled = request[r].entitled
    BY <1>1, SMT DEF Moved, Request
  <2> HIDE DEF v
  <2>3. Knows(v)
    BY <1>1, <2>2, SMT DEF Knows, Placed, Asking, Vouched, Unspent, Counted, Aiming, Begun,
       Entitled, Carrying
  <2>4. v.pc \notin Carrying
    BY <2>2, SMT DEF Carrying
  <2> QED
    BY <2>1, <2>3, <2>4, MoveStep, Zenon DEF Pick
<1> QED
  BY <1>2, <1>3, Zenon DEF Pick

LEMMA ConnectTargetStep ==
  ASSUME ConnectingInv, NEW r \in Requests, ConnectTarget(r)
  PROVE  ConnectingInv'
<1>1. request[r] \in Request /\ Knows(request[r]) /\ request[r].pc = "connect"
  BY Here, Zenon DEF ConnectTarget, Stands
<1>2. CASE Answer(r)
  BY <1>2, RespondStep, Zenon DEF ConnectTarget
<1>3. CASE MoveTo(r, "find") /\ UNCHANGED cookie
  <2> DEFINE v == Moved(r, "find")
  <2>1. v \in Request /\ Become(r, v)
    BY <1>3, MovedTyped, StepsTyped
  <2>2. /\ v.pc = "find" /\ v.flow = request[r].flow /\ v.by = request[r].by
        /\ v.cookie = request[r].cookie /\ v.account = request[r].account
        /\ v.entitled = request[r].entitled
    BY <1>1, SMT DEF Moved, Request
  <2> HIDE DEF v
  <2>3. Knows(v)
    BY <1>1, <2>2, SMT DEF Knows, Placed, Asking, Vouched, Unspent, Counted, Aiming, Begun,
       Entitled, Carrying
  <2>4. v.pc \in Carrying => request[r].pc \in Carrying /\ request[r].flow = v.flow
    BY <1>1, <2>2, SMT DEF Carrying
  <2> QED
    BY <1>3, <2>1, <2>3, <2>4, MoveStep, Zenon DEF ConnectTarget
<1> QED
  BY <1>2, <1>3, Zenon DEF ConnectTarget

LEMMA FindAccountStep ==
  ASSUME ConnectingInv, NEW r \in Requests, FindAccount(r)
  PROVE  ConnectingInv'
<1>1. request[r] \in Request /\ Knows(request[r]) /\ request[r].pc = "find"
  BY Here, Zenon DEF FindAccount, Stands
<1> DEFINE found == accounts[request[r].account]
           pc == IF TakesSlot(found) THEN "count" ELSE "save"
           v == [request[r] EXCEPT !.found = found, !.pc = pc]
<1>2. found \in Record
  <2>1. request[r].account \in Accounts
    BY <1>1, SMT DEF Knows, Placed, Aiming
  <2> QED
    BY <2>1, Here, Zenon DEF ConnectingTypeOK
<1>3. pc \in {"count", "save"} /\ (pc = "save" => ~TakesSlot(found))
  OBVIOUS
<1>4. Become(r, v)
  BY Zenon DEF FindAccount
<1> HIDE DEF pc, found
<1>5. v \in Request
  BY <1>1, <1>2, <1>3, StepsTyped, FieldsTyped, Zenon
<1>6. /\ v.pc = pc /\ v.flow = request[r].flow /\ v.by = request[r].by
      /\ v.cookie = request[r].cookie /\ v.account = request[r].account /\ v.found = found
      /\ v.entitled = request[r].entitled
  BY <1>1, SMT DEF Request
<1> HIDE DEF v
<1>7. Knows(v)
  <2>1. Placed(v) /\ Asking(v) /\ Vouched(v) /\ Unspent(v)
    BY <1>1, <1>3, <1>6, SMT DEF Knows, Placed, Asking, Vouched, Unspent, Aiming, Begun, Entitled,
       Carrying
  <2>2. Counted(v)
    BY <1>3, <1>6, Zenon DEF Counted
  <2> QED
    BY <2>1, <2>2 DEF Knows
<1>8. v.pc \in Carrying => request[r].pc \in Carrying /\ request[r].flow = v.flow
  BY <1>1, <1>6, SMT DEF Carrying
<1> QED
  BY <1>4, <1>5, <1>7, <1>8, MoveStep, Zenon DEF FindAccount

LEMMA CountAccountsStep ==
  ASSUME ConnectingInv, NEW r \in Requests, CountAccounts(r)
  PROVE  ConnectingInv'
<1>1. request[r] \in Request /\ Knows(request[r]) /\ request[r].pc = "count"
  BY Here, Zenon DEF CountAccounts, Stands
<1>2. CASE Answer(r)
  BY <1>2, RespondStep, Zenon DEF CountAccounts
<1> DEFINE v == [request[r] EXCEPT !.pc = "save", !.since = 0]
<1>3. CASE Used < Limit /\ Become(r, v) /\ UNCHANGED cookie
  <2>1. v \in Request
    BY <1>1, StepsTyped, FieldsTyped, Zenon
  <2>2. /\ v.pc = "save" /\ v.flow = request[r].flow /\ v.by = request[r].by
        /\ v.cookie = request[r].cookie /\ v.account = request[r].account
        /\ v.entitled = request[r].entitled /\ v.since = 0
    BY <1>1, SMT DEF Request
  <2>3. Become(r, v)
    BY <1>3
  <2> HIDE DEF v
  <2>4. Knows(v)
    <3>1. Placed(v) /\ Asking(v) /\ Vouched(v) /\ Unspent(v)
      BY <1>1, <2>2, SMT DEF Knows, Placed, Asking, Vouched, Unspent, Aiming, Begun, Entitled,
         Carrying
    <3>2. Used < Limit + v.since
      BY <1>3, <2>2, ConnectingAssumption, UsedTyped, SMT DEF ConnectingAssumption
    <3> QED
      BY <3>1, <3>2 DEF Knows, Counted
  <2>5. v.pc \in Carrying => request[r].pc \in Carrying /\ request[r].flow = v.flow
    BY <1>1, <2>2, SMT DEF Carrying
  <2> QED
    BY <1>3, <2>1, <2>3, <2>4, <2>5, MoveStep, Zenon DEF CountAccounts
<1> QED
  BY <1>2, <1>3, Zenon DEF CountAccounts

LEMMA DieStep ==
  ASSUME ConnectingInv, NEW r \in Requests, Die(r)
  PROVE  ConnectingInv'
<1>1. Clears /\ chances' \in [Occasions -> Nat]
  BY Here, UseTyped, SMT DEF Die, Clears, Occasions
<1> QED
  BY <1>1, EndStep, Zenon DEF Die

-----------------------------------------------------------------------------
(* Steps that touch what requests share.                                    *)

(* Another request keeps what it knows when its login is not the one that  *)
(* is touched.                                                             *)
LEMMA OthersKnow ==
  ASSUME ConnectingInv, Forward, NEW q \in Requests, request'[q] = request[q],
         Counted(request[q])',
         request[q].pc \in Carrying =>
           /\ draft'[request[q].flow] = draft[request[q].flow]
           /\ stored'[request[q].flow] = stored[request[q].flow]
           /\ exchanged'[request[q].flow] = exchanged[request[q].flow]
  PROVE  Knows(request[q])'
<1>1. PICK w \in Request : w = request[q] /\ Knows(w)
  BY Here, Zenon
<1>2. Counted(w)'
  BY <1>1, SMT DEF Counted
<1>3. Knows(w)'
  BY <1>1, <1>2, Here, KnowsKept, Zenon
<1> QED
  BY <1>1, <1>3, KnowsOf, Zenon

LEMMA OneCarriesKept ==
  ASSUME ConnectingInv, NEW r \in Requests, NEW v \in Request, Become(r, v),
         v.pc \in Carrying =>
           \/ request[r].pc \in Carrying /\ request[r].flow = v.flow
           \/ \A q \in Requests : ~(request[q].pc \in Carrying /\ request[q].flow = v.flow)
  PROVE  OneCarries'
<1>1. /\ request'[r] = v
      /\ \A q \in Requests \ {r} : request'[q] = request[q]
  BY Here, BecomeTyped, Zenon
<1> QED
  BY <1>1, Zenon DEF OneCarries, ConnectingInv

(* A step of one request that touches its own login, and a cookie.          *)
LoginKept(f) == draft'[f] = draft[f] /\ stored'[f] = stored[f] /\ exchanged'[f] = exchanged[f]

LEMMA LoginStep ==
  ASSUME ConnectingInv, NEW r \in Requests, NEW v \in Request, Become(r, v), Knows(v)',
         v.pc \in Carrying =>
           \/ request[r].pc \in Carrying /\ request[r].flow = v.flow
           \/ \A q \in Requests : ~(request[q].pc \in Carrying /\ request[q].flow = v.flow),
         Forward, accounts' = accounts,
         \A q \in Requests \ {r} : request[q].pc \in Carrying => LoginKept(request[q].flow)
  PROVE  RequestsKnow' /\ OneCarries'
<1>1. request'[r] = v /\ \A q \in Requests \ {r} : request'[q] = request[q]
  BY Here, BecomeTyped, Zenon
<1>2. OneCarries'
  BY OneCarriesKept
<1>3. ASSUME NEW q \in Requests
      PROVE  Knows(request[q])'
  <2>1. CASE q = r
    BY <1>1, <2>1, KnowsOf, Zenon
  <2>2. CASE q # r
    <3>1. request'[q] = request[q]
      BY <1>1, <2>2
    <3>2. Counted(request[q])'
      <4>1. PICK w : w = request[q] /\ Counted(w)
        BY Here, Zenon DEF Knows
      <4>2. Counted(w)'
        BY <4>1, CountedKept
      <4> QED
        BY <3>1, <4>1, <4>2, SMT DEF Counted
    <3> QED
      BY <2>2, <3>1, <3>2, OthersKnow, Zenon DEF LoginKept
  <2> QED
    BY <2>1, <2>2
<1> QED
  BY <1>2, <1>3 DEF RequestsKnow

(* The others that carry something carry another login.                     *)
LEMMA OthersElsewhere ==
  ASSUME ConnectingInv, NEW r \in Requests, request[r].pc \in Carrying,
         NEW q \in Requests \ {r}, request[q].pc \in Carrying
  PROVE  request[q].flow \in Flows \ {request[r].flow}
<1>1. request[q].flow \in Flows
  BY Here, SMT DEF Knows, Placed, Carrying
<1> QED
  BY <1>1, Zenon DEF ConnectingInv, OneCarries

(* Steps of others than requests.                                           *)
LEMMA AroundStep ==
  ASSUME ConnectingInv, Forward, request' = request,
         \A r \in Requests : Counted(request[r])',
         \A r \in Requests : request[r].pc \in Carrying =>
           /\ draft'[request[r].flow] = draft[request[r].flow]
           /\ stored'[request[r].flow] = stored[request[r].flow]
           /\ exchanged'[request[r].flow] = exchanged[request[r].flow]
  PROVE  RequestsKnow' /\ OneCarries'
<1>1. OneCarries'
  BY SMT DEF ConnectingInv, OneCarries
<1>2. ASSUME NEW q \in Requests
      PROVE  Knows(request[q])'
  BY OthersKnow, Zenon
<1> QED
  BY <1>1, <1>2 DEF RequestsKnow

LEMMA StillCounted ==
  ASSUME ConnectingInv, accounts' = accounts, request' = request, NEW r \in Requests
  PROVE  Counted(request[r])'
<1>1. PICK w : w = request[r] /\ Counted(w)
  BY Here, Zenon DEF Knows
<1>2. Counted(w)'
  BY <1>1, CountedKept
<1> QED
  BY <1>1, <1>2, SMT DEF Counted

LEMMA StateTyped ==
  ASSUME ConnectingTypeOK, NEW f \in Flows
  PROVE  /\ state[f] \in State
         /\ state[f].stage \in {"new", "pending", "consumed", "gone"}
         /\ state[f].by \in People \union {None}
  BY SMT DEF ConnectingTypeOK, State

LEMMA StartStep ==
  ASSUME ConnectingInv, NEW f \in Flows, NEW p \in People, Start(f, p)
  PROVE  ConnectingInv'
<1> USE DEF ConnectingInv, ConnectingHolds
<1>1. /\ state[f].stage = "new"
      /\ state' = [state EXCEPT ![f] = [stage |-> "pending", by |-> p]]
      /\ cookie' = [cookie EXCEPT ![p] = f]
      /\ UNCHANGED <<way, accounts, admin, exchanged, stored, draft, request, chances>>
  BY Zenon DEF Start, Quiet
<1>2. /\ state'[f].stage = "pending" /\ state'[f].by = p
      /\ \A g \in Flows \ {f} : state'[g] = state[g]
      /\ state' \in [Flows -> State]
  <2>1. [stage |-> "pending", by |-> p] \in State
    BY SMT DEF State
  <2>2. state' \in [Flows -> State] /\ state'[f] = [stage |-> "pending", by |-> p]
    BY <1>1, <2>1, Zenon DEF ConnectingTypeOK
  <2>3. \A g \in Flows \ {f} : state'[g] = state[g]
    BY <1>1, Zenon DEF ConnectingTypeOK
  <2> QED
    BY <2>2, <2>3, SMT
<1>3. Forward
  BY <1>1, <1>2, SMT DEF Forward
<1>4. RequestsKnow' /\ OneCarries'
  BY <1>1, <1>3, StillCounted, AroundStep, Zenon
<1>5. cookie' \in [People -> Flows \union {None}]
  BY <1>1, Zenon DEF ConnectingTypeOK
<1>6. ConnectingTypeOK'
  BY <1>1, <1>2, <1>5, SMT DEF ConnectingTypeOK
<1>7. CodesAreUsedOnce' /\ LoginsConnectOnce'
  BY <1>1, <1>2, SMT DEF CodesAreUsedOnce, LoginsConnectOnce, Untouched
<1>8. Untouched'
  BY <1>1, <1>2, SMT DEF Untouched
<1>9. CookiesBind'
  <2> SUFFICES ASSUME NEW u \in People, cookie'[u] # None
               PROVE  state'[cookie'[u]].stage # "new" /\ state'[cookie'[u]].by = u
    BY Zenon DEF CookiesBind
  <2>1. CASE u = p
    BY <1>1, <1>2, <2>1, SMT DEF ConnectingTypeOK
  <2>2. CASE u # p
    <3>1. cookie'[u] = cookie[u] /\ cookie[u] \in Flows
      BY <1>1, <2>2, SMT DEF ConnectingTypeOK
    <3>2. state[cookie[u]].stage # "new" /\ state[cookie[u]].by = u
      BY <3>1, Zenon DEF CookiesBind
    <3> QED
      BY <1>1, <1>2, <3>1, <3>2, Zenon
  <2> QED
    BY <2>1, <2>2
<1> QED
  BY <1>4, <1>6, <1>7, <1>8, <1>9

(* The stage of a login moves, to one that is over or where it was.         *)
LEMMA StageMoves ==
  ASSUME ConnectingTypeOK, NEW f \in Flows, NEW stage \in {"pending", "consumed", "gone"},
         state[f].stage # "new", stage \in Over \/ stage = state[f].stage,
         state' = [state EXCEPT ![f].stage = stage], way' = way, admin' \subseteq admin
  PROVE  /\ Forward
         /\ state' \in [Flows -> State]
         /\ state'[f].stage = stage
         /\ \A g \in Flows : state'[g].by = state[g].by
         /\ \A g \in Flows \ {f} : state'[g] = state[g]
<1>1. \A g \in Flows \ {f} : state'[g] = state[g]
  BY Zenon DEF ConnectingTypeOK
<1>2. state'[f] = [state[f] EXCEPT !.stage = stage]
  BY Zenon DEF ConnectingTypeOK
<1>3. state'[f] \in State /\ state'[f].stage = stage /\ state'[f].by = state[f].by
  BY <1>2, StateTyped, SMT DEF State
<1>4. state' \in [Flows -> State]
  BY <1>1, <1>3, SMT DEF ConnectingTypeOK
<1> QED
  BY <1>1, <1>3, <1>4, SMT DEF Forward, Over

(* Cookies bind to logins that go forward.                                  *)
LEMMA CookiesKept ==
  ASSUME ConnectingTypeOK, CookiesBind, Clears, Forward
  PROVE  CookiesBind' /\ cookie' \in [People -> Flows \union {None}]
<1>1. \A p \in People : cookie'[p] # None => cookie'[p] = cookie[p] /\ cookie[p] \in Flows
  BY ClearsTyped, SMT DEF ConnectingTypeOK
<1>2. CookiesBind'
  BY <1>1, Zenon DEF CookiesBind, Forward
<1> QED
  BY <1>2, ClearsTyped

(* A step that moves only the stage of a login, a cookie and the chances.   *)
LEMMA StageStep ==
  ASSUME ConnectingInv, NEW f \in Flows, NEW stage \in {"pending", "consumed", "gone"},
         state[f].stage # "new", stage \in Over \/ stage = state[f].stage,
         state' = [state EXCEPT ![f].stage = stage], UNCHANGED <<Quiet, draft>>,
         Clears, chances' \in [Occasions -> Nat],
         request' \in [Requests -> Request], RequestsKnow', OneCarries'
  PROVE  ConnectingInv'
<1> USE DEF ConnectingInv, ConnectingHolds
<1>1. UNCHANGED <<way, accounts, admin, exchanged, stored, draft>>
  BY Zenon DEF Quiet
<1>2. /\ Forward /\ state' \in [Flows -> State] /\ state'[f].stage = stage
      /\ \A g \in Flows : state'[g].by = state[g].by
      /\ \A g \in Flows \ {f} : state'[g] = state[g]
  <2>1. admin' \subseteq admin /\ way' = way
    BY <1>1
  <2> QED
    BY <2>1, StageMoves, Zenon
<1>3. CookiesBind' /\ cookie' \in [People -> Flows \union {None}]
  BY <1>2, CookiesKept
<1>4. ConnectingTypeOK'
  BY <1>1, <1>2, <1>3, SMT DEF ConnectingTypeOK
<1>5. CodesAreUsedOnce' /\ LoginsConnectOnce'
  BY <1>1, <1>2, SMT DEF CodesAreUsedOnce, LoginsConnectOnce
<1>6. Untouched'
  BY <1>1, <1>2, SMT DEF Untouched, Over
<1> QED
  BY <1>3, <1>4, <1>5, <1>6

LEMMA AbandonStep ==
  ASSUME ConnectingInv, NEW f \in Flows, NEW p \in People, Abandon(f, p)
  PROVE  ConnectingInv'
<1> DEFINE stage == IF state[f].stage = "pending" THEN "consumed" ELSE state[f].stage
<1>1. /\ state' = [state EXCEPT ![f].stage = stage] /\ state[f].stage # "new"
      /\ UNCHANGED <<Quiet, draft, request>> /\ Clears /\ Use("callback")
  BY Zenon DEF Abandon, Clears
<1>2. stage \in {"pending", "consumed", "gone"} /\ (stage \in Over \/ stage = state[f].stage)
  BY <1>1, StateTyped, SMT DEF Over, ConnectingInv, ConnectingHolds
<1> HIDE DEF stage
<1>3. UNCHANGED <<way, accounts, admin, exchanged, stored, draft, request>>
  BY <1>1, Zenon DEF Quiet
<1>4. Forward
  <2>1. ConnectingTypeOK /\ admin' \subseteq admin /\ way' = way
    BY <1>3 DEF ConnectingInv, ConnectingHolds
  <2> QED
    BY <1>1, <1>2, <2>1, StageMoves, Zenon
<1>5. RequestsKnow' /\ OneCarries'
  BY <1>3, <1>4, StillCounted, AroundStep, Zenon
<1>6. chances' \in [Occasions -> Nat] /\ request' \in [Requests -> Request]
  BY <1>1, <1>3, UseTyped, SMT DEF ConnectingInv, ConnectingHolds, ConnectingTypeOK, Occasions
<1> QED
  BY <1>1, <1>2, <1>5, <1>6, StageStep, Zenon

LEMMA ExpireStateStep ==
  ASSUME ConnectingInv, NEW f \in Flows, ExpireState(f)
  PROVE  ConnectingInv'
<1>1. /\ state' = [state EXCEPT ![f].stage = "gone"] /\ state[f].stage # "new"
      /\ UNCHANGED <<Quiet, draft, request>> /\ Clears /\ Use("fault")
  BY Zenon DEF ExpireState, Clears
<1>2. UNCHANGED <<way, accounts, admin, exchanged, stored, draft, request>>
  BY <1>1, Zenon DEF Quiet
<1>3. Forward
  <2>1. ConnectingTypeOK /\ admin' \subseteq admin /\ way' = way
    BY <1>2 DEF ConnectingInv, ConnectingHolds
  <2>2. "gone" \in {"pending", "consumed", "gone"} /\ "gone" \in Over
    BY DEF Over
  <2> QED
    BY <1>1, <2>1, <2>2, StageMoves, Zenon
<1>4. RequestsKnow' /\ OneCarries'
  BY <1>2, <1>3, StillCounted, AroundStep, Zenon
<1>5. chances' \in [Occasions -> Nat] /\ request' \in [Requests -> Request]
  BY <1>1, <1>2, UseTyped, SMT DEF ConnectingInv, ConnectingHolds, ConnectingTypeOK, Occasions
<1>6. "gone" \in {"pending", "consumed", "gone"} /\ "gone" \in Over
  BY DEF Over
<1> QED
  BY <1>1, <1>4, <1>5, <1>6, StageStep, Zenon

LEMMA ExpireDraftStep ==
  ASSUME ConnectingInv, NEW f \in Flows, ExpireDraft(f)
  PROVE  ConnectingInv'
<1> USE DEF ConnectingInv, ConnectingHolds
<1>1. /\ draft[f] # NoDraft /\ draft' = [draft EXCEPT ![f] = NoDraft]
      /\ UNCHANGED <<way, accounts, admin, exchanged, stored, state, cookie, request>>
      /\ Use("fault")
  BY Zenon DEF ExpireDraft, Quiet
<1>2. Forward
  BY <1>1, SMT DEF Forward
<1>3. /\ draft' \in [Flows -> Draft] /\ draft'[f] = NoDraft
      /\ \A g \in Flows \ {f} : draft'[g] = draft[g]
  BY <1>1, NoDraftTyped, Zenon DEF ConnectingTypeOK
<1>4. \A r \in Requests : request[r].pc \in Carrying => request[r].flow \in Flows /\ draft[request[r].flow] = NoDraft
  BY Here, SMT DEF Knows, Placed, Unspent, Carrying
<1>5. RequestsKnow' /\ OneCarries'
  BY <1>1, <1>2, <1>3, <1>4, StillCounted, AroundStep, Zenon
<1>6. chances' \in [Occasions -> Nat]
  BY <1>1, UseTyped, SMT DEF Occasions
<1>7. ConnectingTypeOK'
  BY <1>1, <1>3, <1>6, SMT DEF ConnectingTypeOK
<1>8. CodesAreUsedOnce' /\ LoginsConnectOnce' /\ CookiesBind'
  BY <1>1, SMT DEF CodesAreUsedOnce, LoginsConnectOnce, CookiesBind
<1>9. Untouched'
  BY <1>1, <1>3, Zenon DEF Untouched
<1> QED
  BY <1>5, <1>7, <1>8, <1>9

LEMMA RemoveAdminStep ==
  ASSUME ConnectingInv, NEW p \in People, RemoveAdmin(p)
  PROVE  ConnectingInv'
<1> USE DEF ConnectingInv, ConnectingHolds
<1>1. /\ admin' = admin \ {p} /\ Use("admin")
      /\ UNCHANGED <<way, accounts, exchanged, stored, state, cookie, draft, request>>
  BY Zenon DEF RemoveAdmin
<1>2. Forward
  BY <1>1, SMT DEF Forward
<1>3. RequestsKnow' /\ OneCarries'
  BY <1>1, <1>2, StillCounted, AroundStep, Zenon
<1>4. chances' \in [Occasions -> Nat]
  BY <1>1, UseTyped, SMT DEF Occasions
<1>5. ConnectingTypeOK'
  BY <1>1, <1>4, SMT DEF ConnectingTypeOK
<1>6. CodesAreUsedOnce' /\ LoginsConnectOnce' /\ CookiesBind' /\ Untouched'
  BY <1>1, SMT DEF CodesAreUsedOnce, LoginsConnectOnce, CookiesBind, Untouched
<1> QED
  BY <1>3, <1>5, <1>6

LEMMA BeginDisconnectStep ==
  ASSUME ConnectingInv, NEW r \in Requests, NEW p \in People, NEW a \in Accounts,
         BeginDisconnect(r, p, a)
  PROVE  ConnectingInv'
<1> DEFINE v == [Resting EXCEPT !.pc = "drop", !.by = p, !.account = a]
<1>1. /\ v.pc = "drop" /\ v.by = p /\ v.account = a /\ v.cookie = None
  BY SMT DEF Resting
<1>2. v \in Request
  BY StepsTyped, RestingTyped, FieldsTyped, Zenon
<1>3. Become(r, v) /\ UNCHANGED <<Quiet, state, draft, cookie>>
  BY Zenon DEF BeginDisconnect
<1> HIDE DEF v
<1>4. Knows(v)
  BY <1>1, SMT DEF Knows, Placed, Asking, Vouched, Unspent, Counted, Aiming, Begun, Entitled,
     Carrying
<1>5. Clears /\ chances' \in [Occasions -> Nat] /\ v.pc \notin Carrying
  BY <1>1, <1>3, Here, UseTyped, SMT DEF BeginDisconnect, Clears, Occasions, Carrying
<1> QED
  BY <1>2, <1>3, <1>4, <1>5, RequestStep, Zenon

LEMMA ClaimStep ==
  ASSUME ConnectingInv, NEW r \in Requests, Claim(r)
  PROVE  ConnectingInv'
<1>1. /\ request[r] \in Request /\ Knows(request[r]) /\ request[r].pc = "claim"
      /\ UNCHANGED <<Quiet, draft, chances>>
  BY Here, Zenon DEF Claim, Stands
<1> DEFINE f == request[r].flow
<1>2. f \in Flows /\ request[r].asked = 0 /\ request[r].pc \notin Carrying
  BY <1>1, SMT DEF Knows, Placed, Begun, Carrying
<1>3. CASE ~Claimable(f)
  <2>1. Respond(r) /\ UNCHANGED state
    BY <1>3, Zenon DEF Claim
  <2> QED
    BY <1>1, <2>1, RespondStep, Zenon
<1>4. CASE Claimable(f)
  <2>1. /\ state' = [state EXCEPT ![f].stage = "consumed"] /\ state[f].stage = "pending"
        /\ state[f].stage # "new"
    BY <1>4, Zenon DEF Claim, Claimable
  <2>2. UNCHANGED <<way, accounts, admin, exchanged, stored, draft, chances>>
    BY <1>1, Zenon DEF Quiet
  <2>3. /\ Forward /\ state'[f].stage = "consumed"
        /\ \A g \in Flows : state'[g].by = state[g].by
        /\ \A g \in Flows \ {f} : state'[g] = state[g]
    <3>1. ConnectingTypeOK /\ admin' \subseteq admin /\ way' = way
      BY <2>2, Here
    <3>2. "consumed" \in {"pending", "consumed", "gone"} /\ "consumed" \in Over
      BY DEF Over
    <3> QED
      BY <1>2, <2>1, <3>1, <3>2, StageMoves, Zenon
  <2>4. exchanged[f] = <<>> /\ stored[f] = 0 /\ draft[f] = NoDraft
    BY <1>2, <2>1, SMT DEF ConnectingInv, Untouched
  <2>5. \A q \in Requests : ~(request[q].pc \in Carrying /\ request[q].flow = f)
    BY <2>1, Here, SMT DEF Knows, Unspent
  <2>6. chances' \in [Occasions -> Nat]
    BY <2>2, Here, SMT DEF ConnectingTypeOK
  <2>7. \A q \in Requests \ {r} : request[q].pc \in Carrying => LoginKept(request[q].flow)
    BY <2>2 DEF LoginKept
  <2> HIDE DEF f
  <2>8. ASSUME NEW v \in Request, Become(r, v), Knows(v)', v.pc \in Carrying => v.flow = f, Clears
        PROVE  ConnectingInv'
    <3>1. RequestsKnow' /\ OneCarries'
      <4>1. f \in Flows /\ accounts' = accounts
        BY <1>2, <2>2 DEF f
      <4>2. v.pc \in Carrying =>
              \/ request[r].pc \in Carrying /\ request[r].flow = v.flow
              \/ \A q \in Requests : ~(request[q].pc \in Carrying /\ request[q].flow = v.flow)
        BY <2>5, <2>8, Zenon
      <4>3. Become(r, v) /\ Knows(v)' /\ Forward
        BY <2>3, <2>8
      <4> QED
        BY <4>1, <4>2, <4>3, <2>7, LoginStep
    <3>2. request' \in [Requests -> Request]
      BY <2>8, Here, BecomeTyped, Zenon
    <3>3. "consumed" \in {"pending", "consumed", "gone"} /\ "consumed" \in Over
      BY DEF Over
    <3> QED
      BY <1>1, <1>2, <2>1, <2>6, <2>8, <3>1, <3>2, <3>3, StageStep, Zenon
  <2>9. CASE Bound(r)
    <3>1. MoveTo(r, "context") /\ UNCHANGED cookie
      BY <1>4, <2>9, Zenon DEF Claim, f
    <3>2. PICK v \in Request : v = Moved(r, "context")
      BY MovedTyped, StepsTyped
    <3>3. Become(r, v)
      BY <3>1, <3>2, MovedTyped, StepsTyped
    <3>4. /\ v.pc = "context" /\ v.flow = f /\ v.by = request[r].by
          /\ v.cookie = f /\ v.asked = 0 /\ v.entitled = request[r].entitled
      BY <1>1, <1>2, <2>9, <3>2, SMT DEF Moved, Request, Bound, f
    <3>5. Knows(v)'
      <4>1. Placed(v)'
        BY <1>1, <1>2, <3>4, SMT DEF Knows, Placed, Aiming, f
      <4>2. state[f].by \in admin => v.entitled
        BY <1>1, <3>4, SMT DEF Knows, Vouched, Begun, f
      <4>3. state[f].by = v.by
        <5>1. request[r].cookie # None /\ request[r].cookie = f
          BY <1>2, <2>9, ConnectingAssumption DEF Bound, f, ConnectingAssumption
        <5> QED
          BY <1>1, <3>4, <5>1, SMT DEF Knows, Vouched
      <4>4. Vouched(v)'
        <5>1. state'[f].stage # "new" /\ state'[f].by = state[f].by /\ admin' = admin
          BY <1>2, <2>2, <2>3
        <5>2. v.pc \notin Entitled
          BY <3>4 DEF Entitled
        <5> QED
          BY <3>4, <4>2, <4>3, <5>1, <5>2, Zenon DEF Vouched
      <4>5. Unspent(v)'
        BY <2>2, <2>3, <2>4, <3>4, SMT DEF Unspent
      <4>6. Asking(v)' /\ Counted(v)'
        BY <3>4, SMT DEF Asking, Counted
      <4> QED
        BY <4>1, <4>4, <4>5, <4>6, Zenon DEF Knows
    <3> QED
      BY <2>8, <3>1, <3>3, <3>4, <3>5, Zenon DEF Clears
  <2>10. CASE ~Bound(r)
    <3>1. End(r) /\ Clears
      BY <2>10, Zenon DEF Claim, Respond, Clears
    <3>2. PICK v \in Request : v = Resting
      BY RestingTyped
    <3>3. v.pc = "idle" /\ v.cookie = None
      BY <3>2, SMT DEF Resting
    <3>4. Knows(v)'
      BY <3>3, SMT DEF Knows, Placed, Asking, Vouched, Unspent, Counted, Aiming, Begun, Entitled,
         Carrying
    <3> QED
      BY <2>8, <3>1, <3>2, <3>3, <3>4, SMT DEF End, Carrying
  <2> QED
    BY <2>9, <2>10
<1> QED
  BY <1>3, <1>4

LEMMA ForgetStep ==
  ASSUME ConnectingInv, NEW r \in Requests, Forget(r)
  PROVE  ConnectingInv'
<1>1. /\ request[r] \in Request /\ Knows(request[r]) /\ request[r].pc = "forget"
      /\ UNCHANGED <<Quiet, draft, chances>> /\ Respond(r)
      /\ state' = [state EXCEPT ![request[r].flow].stage = "gone"]
  BY Here, Zenon DEF Forget, Stands
<1>2. PICK f \in Flows : f = request[r].flow
  BY <1>1, SMT DEF Knows, Placed
<1>3. state[f].stage # "new" /\ state' = [state EXCEPT ![f].stage = "gone"]
  BY <1>1, <1>2, SMT DEF Knows, Unspent
<1>4. UNCHANGED <<way, accounts, admin, exchanged, stored, draft, chances>>
  BY <1>1, Zenon DEF Quiet
<1>5. "gone" \in {"pending", "consumed", "gone"} /\ "gone" \in Over
  BY DEF Over
<1>6. Forward
  <2>1. ConnectingTypeOK /\ admin' \subseteq admin /\ way' = way
    BY <1>4, Here
  <2> QED
    BY <1>3, <1>5, <2>1, StageMoves, Zenon
<1>7. PICK v \in Request : v = Resting
  BY RestingTyped
<1>8. v.pc = "idle" /\ v.cookie = None /\ v.pc \notin Carrying
  BY <1>7, SMT DEF Resting, Carrying
<1>9. Become(r, v) /\ Clears
  BY <1>1, <1>7, Zenon DEF Respond, End, Clears
<1>10. Knows(v)'
  BY <1>8, SMT DEF Knows, Placed, Asking, Vouched, Unspent, Counted, Aiming, Begun, Entitled,
     Carrying
<1>11. RequestsKnow' /\ OneCarries'
  <2>1. \A q \in Requests \ {r} : request[q].pc \in Carrying => LoginKept(request[q].flow)
    BY <1>4 DEF LoginKept
  <2> QED
    BY <1>4, <1>6, <1>8, <1>9, <1>10, <2>1, LoginStep
<1>12. request' \in [Requests -> Request] /\ chances' \in [Occasions -> Nat]
  <2>1. chances' \in [Occasions -> Nat]
    BY <1>4, Here, Zenon DEF ConnectingTypeOK
  <2> QED
    BY <1>9, <2>1, Here, BecomeTyped, Zenon
<1> QED
  BY <1>1, <1>3, <1>5, <1>9, <1>11, <1>12, StageStep, Zenon

LEMMA SaveDraftStep ==
  ASSUME ConnectingInv, NEW r \in Requests, SaveDraft(r)
  PROVE  ConnectingInv'
<1> USE DEF ConnectingInv, ConnectingHolds
<1>1. /\ request[r] \in Request /\ Knows(request[r]) /\ request[r].pc = "draft"
      /\ MoveTo(r, "forget")
      /\ UNCHANGED <<way, accounts, admin, exchanged, stored, state, cookie, chances>>
  BY Here, Zenon DEF SaveDraft, Stands, Quiet
<1>2. PICK f \in Flows : f = request[r].flow
  BY <1>1, SMT DEF Knows, Placed
<1>3. PICK d \in Draft : d = [targets |-> request[r].targets, by |-> state[f].by]
  <2>1. request[r].targets \in SUBSET Accounts
    BY <1>1, SMT DEF Request
  <2>2. state[f].by \in People \union {None}
    BY StateTyped
  <2> QED
    BY <2>1, <2>2 DEF Draft
<1>4. draft' = [draft EXCEPT ![f] = d]
  BY <1>2, <1>3, Zenon DEF SaveDraft
<1>5. draft' \in [Flows -> Draft] /\ \A g \in Flows \ {f} : draft'[g] = draft[g]
  BY <1>4, Zenon DEF ConnectingTypeOK
<1>6. stored[f] = 0 /\ state[f].stage \in {"consumed", "gone"} /\ request[r].pc \in Carrying
  BY <1>1, <1>2, SMT DEF Knows, Unspent, Carrying
<1>7. PICK v \in Request : v = Moved(r, "forget")
  BY MovedTyped, StepsTyped
<1>8. /\ v.pc = "forget" /\ v.flow = f /\ v.by = request[r].by
      /\ v.cookie = request[r].cookie
  BY <1>1, <1>2, <1>7, SMT DEF Moved, Request
<1>9. Become(r, v) /\ request' \in [Requests -> Request]
  <2>1. Become(r, v)
    BY <1>1, <1>7, MovedTyped, StepsTyped
  <2> QED
    BY <2>1, BecomeTyped, Zenon
<1>10. Forward
  BY <1>1, SMT DEF Forward
<1>11. Knows(v)'
  <2>1. Placed(v)' /\ Asking(v)' /\ Counted(v)'
    BY <1>1, <1>2, <1>8, SMT DEF Knows, Placed, Asking, Counted, Aiming, Begun
  <2>2. v.cookie # None => state[v.cookie].stage # "new" /\ state[v.cookie].by = v.by
    BY <1>1, <1>8, SMT DEF Knows, Vouched
  <2>3. Vouched(v)'
    BY <1>1, <1>8, <2>2, SMT DEF Vouched, Begun, Entitled
  <2>4. Unspent(v)'
    BY <1>1, <1>6, <1>8, SMT DEF Unspent, Carrying
  <2> QED
    BY <2>1, <2>3, <2>4, Zenon DEF Knows
<1>12. RequestsKnow' /\ OneCarries'
  <2>1. \A q \in Requests \ {r} : request[q].pc \in Carrying => LoginKept(request[q].flow)
    BY <1>1, <1>2, <1>5, <1>6, OthersElsewhere, Zenon DEF LoginKept
  <2>2. v.pc \notin Carrying
    BY <1>8 DEF Carrying
  <2> QED
    BY <1>1, <1>9, <1>10, <1>11, <2>1, <2>2, LoginStep
<1>13. ConnectingTypeOK'
  BY <1>1, <1>5, <1>9, SMT DEF ConnectingTypeOK
<1>14. CodesAreUsedOnce' /\ LoginsConnectOnce' /\ CookiesBind'
  BY <1>1, SMT DEF CodesAreUsedOnce, LoginsConnectOnce, CookiesBind
<1>15. Untouched'
  BY <1>1, <1>5, <1>6, SMT DEF Untouched
<1> QED
  BY <1>12, <1>13, <1>14, <1>15

LEMMA TakeDraftStep ==
  ASSUME ConnectingInv, NEW r \in Requests, TakeDraft(r)
  PROVE  ConnectingInv'
<1> USE DEF ConnectingInv, ConnectingHolds
<1>1. /\ request[r] \in Request /\ Knows(request[r]) /\ request[r].pc = "take"
      /\ UNCHANGED <<way, accounts, admin, exchanged, stored, state, cookie, chances>>
  BY Here, Zenon DEF TakeDraft, Stands, Quiet
<1>2. CASE ~Pending(r)
  <2>1. End(r) /\ UNCHANGED <<Quiet, state, draft>> /\ Clears
    BY <1>2, Zenon DEF TakeDraft, Clears
  <2>2. chances' \in [Occasions -> Nat]
    BY <1>1, Zenon DEF ConnectingTypeOK
  <2> QED
    BY <2>1, <2>2, EndStep, Zenon
<1>3. CASE Pending(r)
  <2>1. PICK f \in Flows : f = request[r].flow
    BY <1>1, SMT DEF Knows, Placed
  <2>2. draft[f] # NoDraft /\ draft' = [draft EXCEPT ![f] = NoDraft] /\ MoveTo(r, "connect")
    BY <1>3, <2>1, Zenon DEF TakeDraft, Pending, WithoutDraft
  <2>3. /\ draft' \in [Flows -> Draft] /\ draft'[f] = NoDraft
        /\ \A g \in Flows \ {f} : draft'[g] = draft[g]
    BY <2>2, NoDraftTyped, Zenon DEF ConnectingTypeOK
  <2>4. stored[f] = 0 /\ state[f].stage \in {"consumed", "gone"}
    BY <2>2, StateTyped, SMT DEF Untouched
  <2>5. \A q \in Requests : ~(request[q].pc \in Carrying /\ request[q].flow = f)
    BY <2>2, Here, SMT DEF Knows, Unspent
  <2>6. PICK v \in Request : v = Moved(r, "connect")
    BY MovedTyped, StepsTyped
  <2>7. /\ v.pc = "connect" /\ v.flow = f /\ v.by = request[r].by /\ v.account = request[r].account
        /\ v.cookie = request[r].cookie /\ v.entitled = request[r].entitled
    BY <1>1, <2>1, <2>6, SMT DEF Moved, Request
  <2>8. Become(r, v) /\ request' \in [Requests -> Request]
    <3>1. Become(r, v)
      BY <2>2, <2>6, MovedTyped, StepsTyped
    <3> QED
      BY <3>1, BecomeTyped, Zenon
  <2>9. Forward
    BY <1>1, SMT DEF Forward
  <2>10. Knows(v)'
    <3>1. Placed(v)' /\ Asking(v)' /\ Counted(v)'
      BY <1>1, <2>1, <2>7, SMT DEF Knows, Placed, Asking, Counted, Aiming, Begun
    <3>2. v.cookie # None => state[v.cookie].stage # "new" /\ state[v.cookie].by = v.by
      BY <1>1, <2>7, SMT DEF Knows, Vouched
    <3>3. v.entitled
      BY <1>1, <2>7, SMT DEF Knows, Vouched, Entitled
    <3>4. Vouched(v)'
      BY <1>1, <2>7, <3>2, <3>3, SMT DEF Vouched, Begun, Entitled
    <3>5. Unspent(v)'
      BY <1>1, <2>3, <2>4, <2>7, SMT DEF Unspent, Carrying
    <3> QED
      BY <3>1, <3>4, <3>5, Zenon DEF Knows
  <2>11. RequestsKnow' /\ OneCarries'
    <3>1. \A q \in Requests \ {r} : request[q].pc \in Carrying => LoginKept(request[q].flow)
      <4>1. \A q \in Requests : request[q].pc \in Carrying => request[q].flow \in Flows
        BY Here, SMT DEF Knows, Placed, Carrying
      <4> QED
        BY <1>1, <2>3, <2>5, <4>1, Zenon DEF LoginKept
    <3>2. v.pc \in Carrying =>
            \/ request[r].pc \in Carrying /\ request[r].flow = v.flow
            \/ \A q \in Requests : ~(request[q].pc \in Carrying /\ request[q].flow = v.flow)
      BY <2>5, <2>7
    <3> QED
      BY <1>1, <2>8, <2>9, <2>10, <3>1, <3>2, LoginStep
  <2>12. ConnectingTypeOK'
    BY <1>1, <2>3, <2>8, SMT DEF ConnectingTypeOK
  <2>13. CodesAreUsedOnce' /\ LoginsConnectOnce' /\ CookiesBind'
    BY <1>1, SMT DEF CodesAreUsedOnce, LoginsConnectOnce, CookiesBind
  <2>14. Untouched'
    BY <1>1, <2>3, <2>4, SMT DEF Untouched
  <2> QED
    BY <2>11, <2>12, <2>13, <2>14
<1> QED
  BY <1>2, <1>3

LEMMA AskStep ==
  ASSUME ConnectingInv, NEW r \in Requests, Ask(r)
  PROVE  ConnectingInv'
<1> USE DEF ConnectingInv, ConnectingHolds
<1>1. /\ request[r] \in Request /\ Knows(request[r]) /\ request[r].pc = "ask"
      /\ UNCHANGED <<way, accounts, admin, stored, state, draft, chances>>
  BY Here, Zenon DEF Ask, Stands
<1>2. PICK f \in Flows : f = request[r].flow
  BY <1>1, SMT DEF Knows, Placed
<1>3. PICK p \in People : p = request[r].by
  BY <1>1, SMT DEF Knows, Placed
<1>4. PICK n \in 0..2 : n = request[r].asked /\ n + 1 <= Len(Asks[way])
  <2>1. request[r].asked < Len(Asks[way])
    BY <1>1, Zenon DEF Knows, Asking
  <2>2. request[r].asked \in 0..3
    BY <1>1, SMT DEF Request
  <2>3. PICK asks \in 1..3 : asks = Len(Asks[way])
    BY WaysAsk
  <2>4. PICK n \in 0..3 : n = request[r].asked
    BY <2>2
  <2>5. n < asks
    BY <2>1, <2>3, <2>4
  <2>6. n \in 0..2 /\ n + 1 <= asks
    BY <2>5, SMT
  <2> QED
    BY <2>3, <2>4, <2>6, Zenon
<1>5. /\ request[r].pc \in Carrying /\ request[r].cookie = f /\ request[r].entitled
      /\ state[f].stage \in {"consumed", "gone"} /\ draft[f] = NoDraft /\ stored[f] = 0
      /\ n = 0 => exchanged[f] = <<>>
  BY <1>1, <1>2, <1>4, SMT DEF Knows, Vouched, Unspent, Carrying, Entitled
<1>6. state[f].by = p
  <2>1. request[r].cookie # None
    BY <1>5, ConnectingAssumption DEF ConnectingAssumption
  <2> QED
    BY <1>1, <1>3, <1>5, <2>1, SMT DEF Knows, Vouched
<1>7. exchanged' = IF n = 0 THEN [exchanged EXCEPT ![f] = Append(@, p)] ELSE exchanged
  BY <1>2, <1>3, <1>4, Zenon DEF Ask
<1>8. /\ exchanged' \in [Flows -> Seq(People)]
      /\ \A g \in Flows \ {f} : exchanged'[g] = exchanged[g]
      /\ n = 0 => exchanged'[f] = <<p>>
      /\ n # 0 => exchanged'[f] = exchanged[f]
  <2>1. CASE n = 0
    <3>1. Append(exchanged[f], p) = <<p>> /\ Append(exchanged[f], p) \in Seq(People)
      <4>1. Append(<<>>, p) = <<p>> /\ Append(<<>>, p) \in Seq(People)
        OBVIOUS
      <4> QED
        BY <1>5, <2>1, <4>1, Zenon
    <3> QED
      BY <1>7, <2>1, <3>1, Zenon DEF ConnectingTypeOK
  <2>2. CASE n # 0
    BY <1>7, <2>2, Zenon DEF ConnectingTypeOK
  <2> QED
    BY <2>1, <2>2
<1>9. Forward
  BY <1>1, SMT DEF Forward
<1>10. CodesAreUsedOnce' /\ LoginsConnectOnce' /\ Untouched'
  <2>1. LoginsConnectOnce'
    BY <1>1, SMT DEF LoginsConnectOnce
  <2>2. CodesAreUsedOnce'
    <3> SUFFICES ASSUME NEW g \in Flows
                 PROVE  exchanged'[g] \in {<<>>, <<state[g].by>>}
      BY <1>1, Zenon DEF CodesAreUsedOnce
    <3> QED
      BY <1>6, <1>8, Zenon DEF CodesAreUsedOnce
  <2>3. Untouched'
    BY <1>1, <1>5, <1>8, SMT DEF Untouched
  <2> QED
    BY <2>1, <2>2, <2>3
<1>11. ASSUME NEW v \in Request, Become(r, v), Knows(v)',
              v.pc \in Carrying => v.flow = f, Clears
       PROVE  ConnectingInv'
  <2>1. RequestsKnow' /\ OneCarries'
    <3>1. \A q \in Requests \ {r} : request[q].pc \in Carrying => LoginKept(request[q].flow)
      BY <1>1, <1>2, <1>5, <1>8, OthersElsewhere, Zenon DEF LoginKept
    <3>2. v.pc \in Carrying => request[r].pc \in Carrying /\ request[r].flow = v.flow
      BY <1>2, <1>5, <1>11
    <3> QED
      BY <1>1, <1>9, <1>11, <3>1, <3>2, LoginStep
  <2>2. request' \in [Requests -> Request]
    BY <1>11, BecomeTyped, Zenon
  <2>3. CookiesBind' /\ cookie' \in [People -> Flows \union {None}]
    BY <1>9, <1>11, CookiesKept
  <2>4. ConnectingTypeOK'
    BY <1>1, <1>8, <2>2, <2>3, SMT DEF ConnectingTypeOK
  <2> QED
    BY <1>10, <2>1, <2>3, <2>4
<1>12. CASE Respond(r)
  <2>1. PICK v \in Request : v = Resting
    BY RestingTyped
  <2>2. v.pc = "idle" /\ v.cookie = None /\ v.pc \notin Carrying
    BY <2>1, SMT DEF Resting, Carrying
  <2>3. Become(r, v) /\ Clears
    BY <1>12, <2>1, Zenon DEF Respond, End, Clears
  <2>4. Knows(v)'
    BY <2>2, SMT DEF Knows, Placed, Asking, Vouched, Unspent, Counted, Aiming, Begun, Entitled,
       Carrying
  <2> QED
    BY <1>11, <2>2, <2>3, <2>4
<1> DEFINE last == n + 1 = Len(Asks[way])
           step == IF ~last THEN "ask" ELSE IF way \in Several THEN "list" ELSE "find"
<1>13. ASSUME NEW a \in IF last THEN Accounts ELSE {None}, UNCHANGED cookie,
              Become(r, [request[r] EXCEPT !.pc = step, !.asked = n + 1, !.account = a])
       PROVE  ConnectingInv'
  <2>1. /\ step \in {"ask", "list", "find"}
        /\ step = "ask" => n + 1 < Len(Asks[way])
        /\ step # "ask" => a \in Accounts
        /\ a \in Accounts \union {None}
    BY <1>4, <1>13, WaysAsk
  <2> HIDE DEF step, last
  <2>2. PICK v : v = [request[r] EXCEPT !.pc = step, !.asked = n + 1, !.account = a]
    OBVIOUS
  <2>3. v \in Request
    <3>1. n + 1 \in 0..3
      BY <1>4
    <3> QED
      BY <1>1, <2>1, <2>2, <3>1, StepsTyped, FieldsTyped, Zenon
  <2>4. /\ v.pc = step /\ v.flow = f /\ v.by = p /\ v.account = a /\ v.asked = n + 1
        /\ v.cookie = f /\ v.entitled
    BY <1>1, <1>2, <1>3, <1>5, <2>2, SMT DEF Request
  <2>5. Knows(v)'
    <3>1. Placed(v)' /\ Counted(v)'
      BY <2>1, <2>4, SMT DEF Placed, Counted, Aiming, Begun
    <3>2. Asking(v)'
      BY <1>1, <2>1, <2>4, Zenon DEF Asking
    <3>3. Vouched(v)'
      <4>1. state'[f].stage # "new" /\ state'[f].by = p
        BY <1>1, <1>5, <1>6
      <4>2. v.pc \notin Begun
        BY <2>1, <2>4, SMT DEF Begun
      <4> QED
        BY <2>4, <4>1, <4>2, Zenon DEF Vouched
    <3>4. Unspent(v)'
      BY <1>1, <1>4, <1>5, <2>1, <2>4, SMT DEF Unspent
    <3> QED
      BY <3>1, <3>2, <3>3, <3>4, Zenon DEF Knows
  <2>6. Become(r, v) /\ Clears
    BY <1>13, <2>2, Zenon DEF Clears
  <2> QED
    BY <1>11, <2>3, <2>4, <2>5, <2>6, Zenon
<1> QED
  BY <1>4, <1>12, <1>13, Zenon DEF Ask

-----------------------------------------------------------------------------
(* Records and the slots they take.                                        *)

(* A record that changes takes one slot more at most, and none more when   *)
(* it was in use or is not.                                                *)
LEMMA UsedMoves ==
  ASSUME NEW a \in Accounts, \A b \in Accounts \ {a} : accounts'[b] = accounts[b]
  PROVE  /\ Used' \in Nat /\ Used' <= Used + 1
         /\ (InUse(a)' => InUse(a)) => Used' <= Used
<1> DEFINE before == {b \in Accounts : InUse(b)}
           after == {b \in Accounts : accounts'[b].records > 0 /\ accounts'[b].status # "DISCONNECTED"}
<1>1. Used = Cardinality(before) /\ Used' = Cardinality(after)
  BY DEF Used, InUse, Occupies
<1>2. IsFiniteSet(before) /\ IsFiniteSet(after) /\ Cardinality(before) \in Nat /\ Cardinality(after) \in Nat
  BY ConnectingAssumption, FS_Subset, FS_CardinalityType, SMT DEF ConnectingAssumption
<1>3. after \subseteq before \union {a}
  BY SMT DEF InUse, Occupies
<1>4. Cardinality(after) <= Cardinality(before) + 1
  <2>1. IsFiniteSet(before \union {a}) /\ Cardinality(before \union {a}) <= Cardinality(before) + 1
    <3> HIDE DEF before, after
    <3> QED
      <4>1. /\ IsFiniteSet(before \union {a})
            /\ Cardinality(before \union {a}) = IF a \in before THEN Cardinality(before)
                                               ELSE Cardinality(before) + 1
        BY <1>2, FS_AddElement
      <4>2. PICK n \in Nat : n = Cardinality(before)
        BY <1>2
      <4> QED
        BY <4>1, <4>2, SMT
  <2>2. Cardinality(after) <= Cardinality(before \union {a}) /\ Cardinality(before \union {a}) \in Nat
    <3> HIDE DEF before, after
    <3> QED
      BY <1>3, <2>1, FS_Subset, FS_CardinalityType
  <2> HIDE DEF before, after
  <2> QED
    BY <1>2, <2>1, <2>2, SMT
<1>5. ASSUME InUse(a)' => InUse(a)
      PROVE  Cardinality(after) <= Cardinality(before)
  <2>1. after \subseteq before
    BY <1>5, SMT DEF InUse, Occupies
  <2> HIDE DEF before, after
  <2> QED
    BY <1>2, <2>1, FS_Subset
<1> HIDE DEF before, after
<1> QED
  BY <1>1, <1>2, <1>4, <1>5, Zenon

LEMMA SaveDisconnectedStep ==
  ASSUME ConnectingInv, NEW r \in Requests, SaveDisconnected(r)
  PROVE  ConnectingInv'
<1> USE DEF ConnectingInv, ConnectingHolds
<1>1. /\ request[r] \in Request /\ Knows(request[r]) /\ request[r].pc = "drop"
      /\ UNCHANGED <<way, admin, exchanged, stored, state, cookie, draft, chances>>
      /\ Become(r, Resting)
  BY Here, Zenon DEF SaveDisconnected, Stands, End
<1>2. PICK a \in Accounts : a = request[r].account
  BY <1>1, SMT DEF Knows, Placed, Aiming
<1>3. accounts' = [accounts EXCEPT ![a] = Dropped(@)]
  BY <1>2, Zenon DEF SaveDisconnected
<1>4. /\ accounts' \in [Accounts -> Record] /\ accounts'[a].status = "DISCONNECTED"
      /\ \A b \in Accounts \ {a} : accounts'[b] = accounts[b]
  <2>1. accounts[a] \in Record
    BY Zenon DEF ConnectingTypeOK
  <2>2. PICK now \in Record : now = accounts[a]
    BY <2>1
  <2>3. Dropped(now) \in Record /\ Dropped(now).status = "DISCONNECTED"
    <3>1. \A d \in Record, held \in BOOLEAN : [d EXCEPT !.tokens = held] \in Record
      BY SMT DEF Record
    <3>2. \A d \in Record : /\ [d EXCEPT !.status = "DISCONNECTED"] \in Record
                            /\ [d EXCEPT !.status = "DISCONNECTED"].status = "DISCONNECTED"
      BY SMT DEF Record, RecordStatuses
    <3> QED
      BY <3>1, <3>2, Zenon DEF Dropped
  <2>4. accounts' = [accounts EXCEPT ![a] = Dropped(now)]
    BY <1>3, <2>2, Zenon
  <2> QED
    BY <2>3, <2>4, Zenon DEF ConnectingTypeOK
<1>5. Used' <= Used /\ Used' \in Nat
  <2>1. ~InUse(a)'
    BY <1>4 DEF InUse, Occupies
  <2> QED
    BY <1>4, <2>1, UsedMoves
<1>6. /\ request' \in [Requests -> Request] /\ request'[r] = Resting
      /\ \A q \in Requests \ {r} : request'[q] = request[q]
  BY <1>1, BecomeTyped, RestingTyped, Zenon
<1>7. Resting.pc = "idle"
  BY SMT DEF Resting
<1>8. Forward
  BY <1>1, SMT DEF Forward
<1>9. RequestsKnow'
  <2> SUFFICES ASSUME NEW q \in Requests
               PROVE  Knows(request[q])'
    BY DEF RequestsKnow
  <2>1. PICK w \in Request : w = request'[q] /\ Knows(w)
    BY <1>6, RestingKnows, Zenon DEF RequestsKnow, ConnectingTypeOK
  <2>2. Counted(w)'
    <3>1. w.pc = "save" /\ TakesSlot(w.found) => Used < Limit + w.since
      BY <2>1, Zenon DEF Knows, Counted
    <3>2. w.since \in Nat /\ Limit \in Nat
      BY ConnectingAssumption, SMT DEF ConnectingAssumption, Request
    <3>3. w.pc = "save" /\ TakesSlot(w.found) => Used' < Limit + w.since
      BY <1>5, <3>1, <3>2, UsedTyped, SMT
    <3> QED
      BY <3>3, Zenon DEF Counted, TakesSlot
  <2>3. Knows(w)'
    BY <1>1, <1>8, <2>1, <2>2, KnowsKept, Zenon
  <2> QED
    BY <2>1, <2>3, KnowsOf
<1>10. OneCarries'
  <2>1. Resting.pc \notin Carrying
    BY <1>7 DEF Carrying
  <2> QED
    BY <1>6, <2>1, Zenon DEF OneCarries
<1>11. ConnectingTypeOK'
  BY <1>1, <1>4, <1>6, SMT DEF ConnectingTypeOK
<1>12. CodesAreUsedOnce' /\ LoginsConnectOnce' /\ CookiesBind' /\ Untouched'
  BY <1>1, SMT DEF CodesAreUsedOnce, LoginsConnectOnce, CookiesBind, Untouched
<1> QED
  BY <1>9, <1>10, <1>11, <1>12

(* A record is stored: the others keep their step and what they know, with *)
(* a slot more behind them when it takes one.                              *)
LEMMA StoreStep ==
  ASSUME ConnectingInv, NEW r \in Requests, request[r].account \in Accounts,
         NEW record \in Record, NEW own \in Request, Store(r, record, own), Forward,
         \A q \in Requests \ {r} : request[q].pc \in Carrying => LoginKept(request[q].flow)
  PROVE  /\ accounts' \in [Accounts -> Record]
         /\ request' \in [Requests -> Request] /\ request'[r] = own
         /\ \A q \in Requests \ {r} : /\ request'[q].pc = request[q].pc
                                     /\ request'[q].flow = request[q].flow
                                     /\ Knows(request[q])'
<1>1. PICK a \in Accounts : a = request[r].account
  OBVIOUS
<1>2. /\ accounts' = [accounts EXCEPT ![a] = record]
      /\ request' = [q \in Requests |->
           IF q = r THEN own
           ELSE IF ~InUse(a) /\ Occupies(record) /\ Stands(q, "save")
             THEN [request[q] EXCEPT !.since = @ + 1]
           ELSE request[q]]
  BY <1>1, Zenon DEF Store
<1>3. /\ accounts' \in [Accounts -> Record] /\ accounts'[a] = record
      /\ \A b \in Accounts \ {a} : accounts'[b] = accounts[b]
  BY <1>2, Here, Zenon DEF ConnectingTypeOK
<1>4. InUse(a)' <=> Occupies(record)
  BY <1>3, Zenon DEF InUse, Occupies
<1>5. ASSUME NEW q \in Requests \ {r}
      PROVE  /\ request'[q] \in Request /\ request'[q].pc = request[q].pc
             /\ request'[q].flow = request[q].flow
             /\ Knows(request[q])'
  <2>1. PICK o \in Request : o = request[q] /\ Knows(o)
    BY <1>5, Here, Zenon
  <2> DEFINE taken == ~InUse(a) /\ Occupies(record) /\ o.pc = "save"
  <2>2. PICK w \in Request :
          w = request'[q] /\ ((taken /\ w = [o EXCEPT !.since = @ + 1]) \/ (~taken /\ w = o))
    <3>1. CASE taken
      <4>1. request'[q] = [o EXCEPT !.since = @ + 1]
        BY <1>2, <1>5, <2>1, <3>1, Zenon DEF Stands
      <4>2. [o EXCEPT !.since = @ + 1] \in Request
        BY SMT DEF Request
      <4> QED
        BY <3>1, <4>1, <4>2, Zenon
    <3>2. CASE ~taken
      <4>1. request'[q] = o
        BY <1>2, <1>5, <2>1, <3>2, Zenon DEF Stands
      <4> QED
        BY <3>2, <4>1, Zenon
    <3> QED
      BY <3>1, <3>2
  <2>3. /\ w.pc = o.pc /\ w.flow = o.flow /\ w.by = o.by /\ w.cookie = o.cookie
        /\ w.asked = o.asked /\ w.account = o.account /\ w.found = o.found
        /\ w.entitled = o.entitled
        /\ w.since \in Nat /\ o.since \in Nat
        /\ \/ taken /\ w.since = o.since + 1
           \/ ~taken /\ w.since = o.since
    BY <2>2, SMT DEF Request
  <2>4. Placed(w) /\ Asking(w) /\ Vouched(w) /\ Unspent(w)
    <3>1. Placed(w) /\ Asking(w)
      BY <2>1, <2>3, Zenon DEF Knows, Placed, Asking
    <3>2. Vouched(w) /\ Unspent(w)
      BY <2>1, <2>3, Zenon DEF Knows, Vouched, Unspent
    <3> QED
      BY <3>1, <3>2
  <2>5. ASSUME w.pc = "save", TakesSlot(w.found)
        PROVE  Used' < Limit + w.since /\ Used < Limit + w.since
    <3>1. Used < Limit + o.since
      BY <2>1, <2>3, <2>5, Zenon DEF Knows, Counted
    <3>2. /\ Used' \in Nat /\ Used' <= Used + 1
          /\ (InUse(a)' => InUse(a)) => Used' <= Used
      BY <1>3, UsedMoves
    <3>3. Used \in Nat /\ Limit \in Nat
      BY UsedTyped, ConnectingAssumption DEF ConnectingAssumption
    <3>4. CASE taken
      BY <2>3, <3>1, <3>2, <3>3, <3>4, SMT
    <3>5. CASE ~taken
      <4>1. InUse(a)' => InUse(a)
        BY <1>4, <2>3, <2>5, <3>5
      <4> QED
        BY <2>3, <3>1, <3>2, <3>3, <3>5, <4>1, SMT
    <3> QED
      BY <3>4, <3>5
  <2>6. Counted(w) /\ Counted(w)'
    BY <2>5, Zenon DEF Counted, TakesSlot
  <2>7. w.pc \in Carrying => LoginKept(w.flow)
    BY <1>5, <2>1, <2>3, Zenon
  <2>8. Knows(w)'
    BY <2>4, <2>6, <2>7, Here, KnowsKept, Zenon DEF Knows, LoginKept
  <2> QED
    BY <1>5, <2>1, <2>2, <2>3, <2>8, KnowsOf, Zenon
<1>6. request' \in [Requests -> Request] /\ request'[r] = own
  BY <1>2, <1>5, Zenon
<1> QED
  BY <1>3, <1>5, <1>6

(* What a callback or a choice stores is a record with tokens, and the only *)
(* one of its account.                                                     *)
LEMMA SavedTyped ==
  ASSUME NEW found \in Record, NEW now \in Record, ~Duplicate(found, now)
  PROVE  Saved(found, now) \in Record /\ Saved(found, now).tokens
<1> DEFINE records == IF found.records = 0 THEN now.records + 1 ELSE now.records
           status == IF found.records > 0 /\ found.status = "CONNECTED" THEN now.status
                     ELSE "CONNECTED"
<1>1. records \in 0..1
  BY SMT DEF Record, Duplicate
<1>2. status \in RecordStatuses
  BY SMT DEF Record, RecordStatuses
<1> HIDE DEF records, status
<1>3. Saved(found, now) = [records |-> records, status |-> status, tokens |-> TRUE]
  BY DEF Saved, records, status
<1> QED
  BY <1>1, <1>2, <1>3, SMT DEF Record

(* The request that saved is at its end, or about to forget its login.      *)
LEMMA AfterSaveKnows ==
  ASSUME ConnectingInv, NEW r \in Requests, request[r].pc = "save"
  PROVE  /\ AfterSave(r) \in Request /\ Placed(AfterSave(r)) /\ Asking(AfterSave(r))
         /\ Vouched(AfterSave(r)) /\ AfterSave(r).pc \in {"idle", "forget"}
         /\ AfterSave(r).pc = "forget" => AfterSave(r).flow = request[r].flow
<1>1. request[r] \in Request /\ Knows(request[r])
  BY Here
<1>2. CASE ~IsCallback(r)
  <2>1. AfterSave(r) = Resting
    BY <1>2 DEF AfterSave
  <2>2. Resting.pc = "idle"
    BY SMT DEF Resting
  <2> QED
    BY <2>1, <2>2, RestingTyped, RestingKnows, Zenon DEF Knows
<1>3. CASE IsCallback(r)
  <2>1. PICK v : v = Moved(r, "forget")
    OBVIOUS
  <2>2. AfterSave(r) = v
    BY <1>3, <2>1 DEF AfterSave, Moved
  <2>3. v \in Request
    BY <2>1, MovedTyped, StepsTyped
  <2>4. /\ v.pc = "forget" /\ v.flow = request[r].flow /\ v.by = request[r].by
        /\ v.cookie = request[r].cookie
    BY <1>1, <2>1, SMT DEF Moved, Request
  <2>5. Placed(v) /\ Asking(v)
    BY <1>1, <2>4, SMT DEF Knows, Placed, Asking, Aiming, Begun
  <2>6. Vouched(v)
    BY <1>1, <2>4, SMT DEF Knows, Vouched, Begun, Entitled
  <2> QED
    BY <2>2, <2>3, <2>4, <2>5, <2>6, Zenon
<1> QED
  BY <1>2, <1>3

LEMMA SaveAccountStep ==
  ASSUME ConnectingInv, NEW r \in Requests, SaveAccount(r)
  PROVE  ConnectingInv'
<1> USE DEF ConnectingInv, ConnectingHolds
<1>1. /\ request[r] \in Request /\ Knows(request[r]) /\ request[r].pc = "save"
      /\ UNCHANGED <<way, admin, exchanged, state, draft, chances>>
  BY Here, Zenon DEF SaveAccount, Stands
<1>2. PICK a \in Accounts : a = request[r].account
  BY <1>1, SMT DEF Knows, Placed, Aiming
<1>3. PICK f \in Flows : f = request[r].flow
  BY <1>1, SMT DEF Knows, Placed
<1>4. PICK found \in Record : found = request[r].found
  BY <1>1, SMT DEF Request
<1>5. CASE Duplicate(found, accounts[a])
  <2>1. Answer(r) /\ UNCHANGED <<accounts, stored>>
    BY <1>2, <1>4, <1>5, Zenon DEF SaveAccount
  <2>2. UNCHANGED <<Quiet, state, draft, chances>>
    BY <1>1, <2>1 DEF Quiet
  <2> QED
    BY <2>1, <2>2, RespondStep, Zenon
<1>6. CASE ~Duplicate(found, accounts[a])
  <2>1. /\ Store(r, Saved(found, accounts[a]), AfterSave(r))
        /\ stored' = [stored EXCEPT ![f] = @ + 1]
        /\ UNCHANGED cookie
    BY <1>2, <1>3, <1>4, <1>6, Zenon DEF SaveAccount
  <2>2. Saved(found, accounts[a]) \in Record
    BY <1>6, SavedTyped DEF ConnectingTypeOK
  <2>3. stored[f] = 0 /\ state[f].stage \in {"consumed", "gone"} /\ draft[f] = NoDraft
        /\ request[r].pc \in Carrying
    BY <1>1, <1>3, SMT DEF Knows, Unspent, Carrying
  <2>4. /\ stored' \in [Flows -> Nat] /\ stored'[f] = 1
        /\ \A g \in Flows \ {f} : stored'[g] = stored[g]
    BY <2>1, <2>3, SMT DEF ConnectingTypeOK
  <2>5. /\ AfterSave(r) \in Request /\ Placed(AfterSave(r)) /\ Asking(AfterSave(r))
        /\ Vouched(AfterSave(r)) /\ AfterSave(r).pc \in {"idle", "forget"}
        /\ AfterSave(r).pc = "forget" => AfterSave(r).flow = f
    BY <1>1, <1>3, AfterSaveKnows, Zenon
  <2>6. Forward
    BY <1>1, SMT DEF Forward
  <2>7. ASSUME NEW q \in Requests \ {r}, request[q].pc \in Carrying
        PROVE  LoginKept(request[q].flow)
    <3>1. request[q].flow \in Flows \ {f}
      BY <1>3, <2>3, <2>7, OthersElsewhere, Zenon
    <3> QED
      BY <1>1, <2>4, <3>1 DEF LoginKept
  <2>8. /\ accounts' \in [Accounts -> Record]
        /\ request' \in [Requests -> Request] /\ request'[r] = AfterSave(r)
        /\ \A q \in Requests \ {r} : /\ request'[q].pc = request[q].pc
                                    /\ request'[q].flow = request[q].flow
                                    /\ Knows(request[q])'
    BY <1>2, <2>1, <2>2, <2>5, <2>6, <2>7, StoreStep, Zenon
  <2>9. RequestsKnow'
    <3>1. Knows(request[r])'
      <4>1. PICK v \in Request : v = AfterSave(r)
        BY <2>5
      <4>2. v.pc \in {"idle", "forget"} /\ (v.pc = "forget" => v.flow = f)
        BY <2>5, <4>1
      <4>3. Placed(v) /\ Asking(v) /\ Vouched(v)
        BY <2>5, <4>1, Zenon
      <4>4. Unspent(v)' /\ Unspent(v)
        BY <1>1, <2>3, <4>2, SMT DEF Unspent, Carrying
      <4>5. Counted(v)' /\ Counted(v)
        BY <4>2, SMT DEF Counted
      <4>6. v.pc \notin Carrying
        BY <4>2 DEF Carrying
      <4>7. Knows(v)'
        BY <2>6, <4>3, <4>4, <4>5, <4>6, KnowsKept, Zenon DEF Knows
      <4> QED
        BY <2>8, <4>1, <4>7, KnowsOf, Zenon
    <3> QED
      BY <2>8, <3>1, Zenon DEF RequestsKnow
  <2>10. OneCarries'
    <3>1. request'[r].pc \notin Carrying
      BY <2>5, <2>8 DEF Carrying
    <3> QED
      BY <2>8, <3>1, Zenon DEF OneCarries
  <2>11. ConnectingTypeOK'
    BY <1>1, <2>1, <2>4, <2>8, SMT DEF ConnectingTypeOK
  <2>12. CodesAreUsedOnce' /\ CookiesBind'
    BY <1>1, <2>1, SMT DEF CodesAreUsedOnce, CookiesBind
  <2>13. LoginsConnectOnce' /\ Untouched'
    BY <1>1, <2>3, <2>4, SMT DEF LoginsConnectOnce, Untouched
  <2> QED
    BY <2>9, <2>10, <2>11, <2>12, <2>13
<1> QED
  BY <1>5, <1>6

-----------------------------------------------------------------------------
(* Uses of an account.                                                      *)

(* A request that uses an account carries nothing of a login.               *)
LEMMA UsingKnows ==
  ASSUME ConnectingInv, NEW r \in Requests, request[r].pc \in Using,
         NEW v, v.pc \in Using, v.account = request[r].account, v.cookie = request[r].cookie,
         v.by = request[r].by
  PROVE  Knows(v)
<1>1. Knows(request[r])
  BY Here
<1>2. Placed(v) /\ Asking(v)
  BY <1>1, SMT DEF Knows, Placed, Asking, Aiming, Begun, Using
<1>3. Vouched(v)
  BY <1>1, SMT DEF Knows, Vouched, Begun, Entitled, Using
<1>4. Unspent(v) /\ Counted(v)
  BY SMT DEF Unspent, Counted, Carrying, Using
<1> QED
  BY <1>2, <1>3, <1>4 DEF Knows

LEMMA BeginUseStep ==
  ASSUME ConnectingInv, NEW r \in Requests, NEW a \in Accounts, BeginUse(r, a)
  PROVE  ConnectingInv'
<1> DEFINE v == [Resting EXCEPT !.pc = "use", !.account = a, !.found = accounts[a]]
<1>1. v.pc = "use" /\ v.account = a /\ v.cookie = None
  BY SMT DEF Resting
<1>2. v \in Request
  <2>1. accounts[a] \in Record
    BY Here, Zenon DEF ConnectingTypeOK
  <2> QED
    BY <2>1, StepsTyped, RestingTyped, FieldsTyped, Zenon
<1>3. Become(r, v) /\ UNCHANGED <<Quiet, state, draft, cookie>>
  BY Zenon DEF BeginUse
<1> HIDE DEF v
<1>4. Knows(v)
  BY <1>1, SMT DEF Knows, Placed, Asking, Vouched, Unspent, Counted, Aiming, Begun, Entitled,
     Carrying
<1>5. Clears /\ chances' \in [Occasions -> Nat] /\ v.pc \notin Carrying
  BY <1>1, <1>3, Here, UseTyped, SMT DEF BeginUse, Clears, Occasions, Carrying
<1> QED
  BY <1>2, <1>3, <1>4, <1>5, RequestStep, Zenon

LEMMA ReloadTokensStep ==
  ASSUME ConnectingInv, NEW r \in Requests, ReloadTokens(r)
  PROVE  ConnectingInv'
<1>1. request[r] \in Request /\ Knows(request[r]) /\ request[r].pc = "use"
  BY Here, Zenon DEF ReloadTokens, Stands
<1>2. PICK now : now = accounts[request[r].account]
  OBVIOUS
<1>3. now \in Record
  <2>1. request[r].account \in Accounts
    BY <1>1, SMT DEF Knows, Placed, Aiming
  <2> QED
    BY <1>2, <2>1, Here, Zenon DEF ConnectingTypeOK
<1>4. PICK changed \in SUBSET Paths :
        Become(r, [request[r] EXCEPT !.pc = "refresh", !.found = now, !.changed = changed])
  BY <1>2, Zenon DEF ReloadTokens
<1> DEFINE v == [request[r] EXCEPT !.pc = "refresh", !.found = now, !.changed = changed]
<1>5. v \in Request
  BY <1>1, <1>3, StepsTyped, FieldsTyped, Zenon
<1>6. /\ v.pc = "refresh" /\ v.account = request[r].account /\ v.cookie = request[r].cookie
      /\ v.by = request[r].by
  BY <1>1, SMT DEF Request
<1>7. Become(r, v)
  BY <1>4
<1> HIDE DEF v
<1>8. Knows(v) /\ v.pc \notin Carrying
  <2>1. request[r].pc \in Using /\ v.pc \in Using /\ v.pc \notin Carrying
    BY <1>1, <1>6, SMT DEF Using, Carrying
  <2> QED
    BY <1>6, <2>1, UsingKnows
<1> QED
  BY <1>5, <1>7, <1>8, MoveStep, Zenon DEF ReloadTokens

(* The save of its copy.                                                    *)
LEMMA UpdatedTyped ==
  ASSUME NEW q \in Request, NEW status \in RecordStatuses, NEW now \in Record
  PROVE  Updated(q, status, now) \in Record
  BY SMT DEF Updated, Request, Record

LEMMA SaveCopyStep ==
  ASSUME ConnectingInv, NEW r \in Requests, request[r].pc \in Using,
         NEW q \in Request, q.account = request[r].account,
         NEW status \in RecordStatuses, NEW own \in Request, Knows(own), own.pc \notin Carrying,
         SaveCopy(r, q, status, own)
  PROVE  ConnectingInv'
<1> USE DEF ConnectingInv, ConnectingHolds
<1>1. /\ UNCHANGED <<way, admin, exchanged, stored, state, cookie, draft, chances>>
      /\ Store(r, Updated(q, status, accounts[q.account]), own)
  BY Zenon DEF SaveCopy
<1>2. request[r].account \in Accounts
  BY Here, SMT DEF Knows, Placed, Aiming, Using
<1>3. Updated(q, status, accounts[q.account]) \in Record
  BY <1>2, UpdatedTyped, Zenon DEF ConnectingTypeOK
<1>4. Forward /\ \A f : LoginKept(f)
  BY <1>1, SMT DEF Forward, LoginKept
<1>5. /\ accounts' \in [Accounts -> Record]
      /\ request' \in [Requests -> Request] /\ request'[r] = own
      /\ \A o \in Requests \ {r} : /\ request'[o].pc = request[o].pc
                                  /\ request'[o].flow = request[o].flow
                                  /\ Knows(request[o])'
  BY <1>1, <1>2, <1>3, <1>4, StoreStep, Zenon
<1>6. Knows(request[r])'
  <2>1. Counted(own)'
    <3>1. own.pc # "save"
      BY DEF Carrying
    <3> QED
      BY <3>1, Zenon DEF Counted
  <2>2. Knows(own)'
    BY <1>4, <2>1, KnowsKept, Zenon
  <2> QED
    BY <1>5, <2>2, KnowsOf, Zenon
<1>7. RequestsKnow'
  BY <1>5, <1>6, Zenon DEF RequestsKnow
<1>8. OneCarries'
  BY <1>5, Zenon DEF OneCarries
<1>9. ConnectingTypeOK'
  BY <1>1, <1>5, SMT DEF ConnectingTypeOK
<1>10. CodesAreUsedOnce' /\ LoginsConnectOnce' /\ CookiesBind' /\ Untouched'
  BY <1>1, SMT DEF CodesAreUsedOnce, LoginsConnectOnce, CookiesBind, Untouched
<1> QED
  BY <1>7, <1>8, <1>9, <1>10

LEMMA RestingEnds ==
  Resting \in Request /\ Knows(Resting) /\ Resting.pc \notin Carrying
<1>1. Resting.pc = "idle"
  BY SMT DEF Resting
<1> QED
  BY <1>1, RestingTyped, RestingKnows, SMT DEF Carrying

LEMMA InHandKnows ==
  ASSUME ConnectingInv, NEW r \in Requests, request[r].pc \in Using
  PROVE  /\ InHand(request[r]) \in Request /\ Knows(InHand(request[r]))
         /\ InHand(request[r]).pc \notin Carrying /\ InHand(request[r]).pc = "call"
<1>1. PICK q \in Request : q = request[r]
  BY Here
<1> DEFINE found == [records |-> q.found.records, status |-> "CONNECTED", tokens |-> TRUE]
           v == [q EXCEPT !.pc = "call", !.changed = {}, !.found = found]
<1>2. found \in Record
  BY SMT DEF Request, Record, RecordStatuses
<1> HIDE DEF found
<1>3. v \in Request
  BY <1>2, StepsTyped, FieldsTyped, Zenon
<1>4. v.pc = "call" /\ v.account = q.account /\ v.cookie = q.cookie /\ v.by = q.by
  BY SMT DEF Request
<1>5. InHand(request[r]) = v
  BY <1>1, Zenon DEF InHand, found
<1> HIDE DEF v
<1>6. v.pc \in Using /\ v.pc \notin Carrying
  BY <1>4, SMT DEF Using, Carrying
<1>7. Knows(v)
  BY <1>1, <1>4, <1>6, UsingKnows
<1> QED
  BY <1>3, <1>4, <1>5, <1>6, <1>7

LEMMA SaveRenewedStep ==
  ASSUME ConnectingInv, NEW r \in Requests, SaveRenewed(r)
  PROVE  ConnectingInv'
<1> DEFINE q == [request[r] EXCEPT !.changed = @ \union {"tokens"}]
<1>1. request[r].pc \in Using
  BY Zenon DEF SaveRenewed, Stands, Using
<1>2. q \in Request /\ q.account = request[r].account
  BY Here, SMT DEF Request, Paths
<1>3. SaveCopy(r, q, "CONNECTED", InHand(request[r]))
  BY Zenon DEF SaveRenewed
<1>4. "CONNECTED" \in RecordStatuses
  BY DEF RecordStatuses
<1> HIDE DEF q
<1> QED
  BY <1>1, <1>2, <1>3, <1>4, InHandKnows, SaveCopyStep, Zenon

LEMMA SaveRefusedStep ==
  ASSUME ConnectingInv, NEW r \in Requests, SaveRefused(r)
  PROVE  ConnectingInv'
<1>1. request[r].pc \in Using /\ request[r] \in Request
  BY Here, Zenon DEF SaveRefused
<1>2. PICK status \in {"EXPIRED", "REAUTH_REQUIRED", "ERROR"} :
        SaveCopy(r, request[r], status, Resting)
  BY Zenon DEF SaveRefused
<1>3. status \in RecordStatuses
  BY DEF RecordStatuses
<1> QED
  BY <1>1, <1>2, <1>3, RestingEnds, SaveCopyStep, Zenon

LEMMA SaveReloadedStep ==
  ASSUME ConnectingInv, NEW r \in Requests, SaveReloaded(r)
  PROVE  ConnectingInv'
<1>1. request[r].pc \in Using /\ request[r] \in Request
  BY Here, Zenon DEF SaveReloaded, Stands, Using
<1>2. PICK own \in {Resting, InHand(request[r])} :
        SaveCopy(r, request[r], request[r].found.status, own)
  BY Zenon DEF SaveReloaded
<1>3. request[r].found.status \in RecordStatuses
  BY <1>1, SMT DEF Request, Record
<1>4. own \in Request /\ Knows(own) /\ own.pc \notin Carrying
  BY <1>1, RestingEnds, InHandKnows
<1> QED
  BY <1>1, <1>2, <1>3, <1>4, SaveCopyStep, Zenon

LEMMA FinishUseStep ==
  ASSUME ConnectingInv, NEW r \in Requests, FinishUse(r)
  PROVE  ConnectingInv'
<1>1. Clears /\ chances' \in [Occasions -> Nat]
  BY Here, SMT DEF FinishUse, Clears, ConnectingTypeOK
<1> QED
  BY <1>1, EndStep, Zenon DEF FinishUse

-----------------------------------------------------------------------------
(* The theorems.                                                           *)

LEMMA ConnectingInvInit == ConnectingInit => ConnectingInv
<1> SUFFICES ASSUME ConnectingInit
             PROVE  ConnectingInv
  OBVIOUS
<1> USE DEF ConnectingInit
<1>1. ConnectingTypeOK
  <2>1. [stage |-> "new", by |-> None] \in State
    BY SMT DEF State
  <2>2. Absent \in Record
    BY SMT DEF Absent, Record, RecordStatuses
  <2>3. state \in [Flows -> State] /\ draft \in [Flows -> Draft] /\ accounts \in [Accounts -> Record]
    BY <2>1, <2>2, NoDraftTyped, Zenon
  <2>4. request \in [Requests -> Request] /\ exchanged \in [Flows -> Seq(People)]
    <3>1. <<>> \in Seq(People)
      OBVIOUS
    <3> QED
      BY <3>1, RestingTyped, Zenon
  <2>5. stored \in [Flows -> Nat] /\ cookie \in [People -> Flows \union {None}]
    BY SMT
  <2>6. chances \in [Occasions -> Nat]
    BY ConnectingAssumption, Zenon DEF ConnectingAssumption
  <2> QED
    BY <2>3, <2>4, <2>5, <2>6, Zenon DEF ConnectingTypeOK
<1>2. CodesAreUsedOnce /\ LoginsConnectOnce
  BY SMT DEF CodesAreUsedOnce, LoginsConnectOnce
<1>4. RequestsKnow
  BY RestingKnows, Zenon DEF RequestsKnow
<1>5. OneCarries
  <2>1. Resting.pc \notin Carrying
    BY SMT DEF Resting, Carrying
  <2> QED
    BY <2>1, Zenon DEF OneCarries
<1>6. Untouched /\ CookiesBind
  BY Zenon DEF Untouched, CookiesBind
<1> QED
  BY <1>1, <1>2, <1>4, <1>5, <1>6 DEF ConnectingInv, ConnectingHolds

LEMMA ConnectingInvNext ==
  ASSUME ConnectingInv, [ConnectingNext]_connectingVars
  PROVE  ConnectingInv'
<1>1. ASSUME NEW r \in Requests, Working(r)
      PROVE  ConnectingInv'
  BY <1>1, ClaimStep, LoadContextStep, AskStep, ListStep, SaveDraftStep, PickStep, TakeDraftStep,
     ConnectTargetStep, FindAccountStep, CountAccountsStep, SaveAccountStep, ForgetStep,
     SaveDisconnectedStep, ReloadTokensStep, SaveRenewedStep, SaveRefusedStep, SaveReloadedStep,
     FinishUseStep, Zenon DEF Working
<1>2. ASSUME NEW f \in Flows, NEW p \in People, Start(f, p) \/ Abandon(f, p)
      PROVE  ConnectingInv'
  BY <1>2, StartStep, AbandonStep
<1>3. ASSUME NEW f \in Flows, ExpireState(f) \/ ExpireDraft(f)
      PROVE  ConnectingInv'
  BY <1>3, ExpireStateStep, ExpireDraftStep
<1>4. CASE UNCHANGED connectingVars
  <2>1. /\ way' = way /\ state' = state /\ cookie' = cookie /\ draft' = draft
        /\ accounts' = accounts /\ admin' = admin /\ request' = request
        /\ exchanged' = exchanged /\ stored' = stored /\ chances' = chances
    BY <1>4 DEF connectingVars
  <2>2. Forward
    BY <2>1, SMT DEF Forward
  <2>3. RequestsKnow' /\ OneCarries'
    BY <2>1, <2>2, StillCounted, AroundStep, Zenon
  <2>4. ConnectingTypeOK'
    BY <2>1, SMT DEF ConnectingTypeOK, ConnectingInv, ConnectingHolds
  <2>5. /\ CodesAreUsedOnce' /\ LoginsConnectOnce'
        /\ Untouched' /\ CookiesBind'
    BY <2>1, SMT DEF CodesAreUsedOnce, LoginsConnectOnce, Untouched,
       CookiesBind, ConnectingInv, ConnectingHolds
  <2> QED
    BY <2>3, <2>4, <2>5 DEF ConnectingInv, ConnectingHolds
<1> QED
  BY <1>1, <1>2, <1>3, <1>4, CallbackStep, ChooseStep, BeginDisconnectStep, BeginUseStep,
     RemoveAdminStep, DieStep, Zenon DEF ConnectingNext

LEMMA ConnectingInvHolds == ConnectingSpec => []ConnectingInv
<1>1. ConnectingInv /\ [ConnectingNext]_connectingVars => ConnectingInv'
  BY ConnectingInvNext
<1> QED
  BY <1>1, ConnectingInvInit, PTL DEF ConnectingSpec

(* A login's code is exchanged at most once and only for the browser that   *)
(* started it, and a login stores at most one account: whatever callbacks, *)
(* choices, disconnections and uses overlap.                               *)
THEOREM ConnectingIsSafe == ConnectingSpec => []ConnectingHolds
<1>1. ConnectingInv => ConnectingHolds
  BY DEF ConnectingInv
<1> QED
  BY <1>1, ConnectingInvHolds, PTL

(* What a save leaves without tokens.                                       *)
LEMMA StoredBare ==
  ASSUME ConnectingTypeOK, NEW r \in Requests, NEW record, NEW own, Store(r, record, own),
         NEW a \in Accounts, Bare(a)', ~Bare(a)
  PROVE  a = request[r].account /\ record.status = "CONNECTED" /\ ~record.tokens
<1>1. accounts' = [accounts EXCEPT ![request[r].account] = record]
  BY Zenon DEF Store
<1>2. accounts \in [Accounts -> Record]
  BY DEF ConnectingTypeOK
<1>3. CASE a = request[r].account
  <2>1. accounts'[a] = record
    BY <1>1, <1>2, <1>3, Zenon
  <2> QED
    BY <1>3, <2>1, Zenon DEF Bare
<1>4. CASE a # request[r].account
  <2>1. accounts'[a] = accounts[a]
    BY <1>1, <1>2, <1>4, Zenon
  <2> QED
    BY <2>1, Zenon DEF Bare
<1> QED
  BY <1>3, <1>4

LEMMA CopyBare ==
  ASSUME ConnectingInv, NEW r \in Requests, request[r].pc \in Using,
         NEW q \in Request, q.account = request[r].account, NEW status, NEW own,
         SaveCopy(r, q, status, own), NEW a \in Accounts, Bare(a)', ~Bare(a)
  PROVE  /\ \/ status = "CONNECTED" /\ ("status" \in q.changed \/ status # q.found.status)
            \/ "tokens" \in q.changed /\ ~q.found.tokens
         /\ "tokens" \in q.changed => ~q.found.tokens
<1>1. /\ a = q.account
      /\ Updated(q, status, accounts[a]).status = "CONNECTED"
      /\ ~Updated(q, status, accounts[a]).tokens
  <2>1. Store(r, Updated(q, status, accounts[q.account]), own)
    BY Zenon DEF SaveCopy
  <2> QED
    BY <2>1, Here, StoredBare, Zenon
<1> DEFINE now == accounts[a]
           written == "status" \in q.changed \/ status # q.found.status
<1>2. (IF written THEN status ELSE now.status) = "CONNECTED"
  BY <1>1, SMT DEF Updated
<1>3. ~(IF "tokens" \in q.changed THEN q.found.tokens ELSE now.tokens)
  BY <1>1, SMT DEF Updated
<1>4. ~(now.status = "CONNECTED" /\ ~now.tokens)
  BY Zenon DEF Bare
<1>5. "tokens" \in q.changed => ~q.found.tokens
  BY <1>3
<1>6. "tokens" \notin q.changed => ~now.tokens
  BY <1>3
<1>7. written => status = "CONNECTED"
  BY <1>2
<1>8. ~written => now.status = "CONNECTED"
  BY <1>2
<1> HIDE DEF now
<1> QED
  BY <1>4, <1>5, <1>6, <1>7, <1>8, Zenon

LEMMA ConnectedKeepsTokens ==
  ASSUME ConnectingInv, [ConnectingNext]_connectingVars, NEW a \in Accounts, Bare(a)', ~Bare(a)
  PROVE  \E r \in Requests : ReloadedInPart(request[r]) /\ request'[r] # request[r]
<1> DEFINE Reason == \E r \in Requests : ReloadedInPart(request[r]) /\ request'[r] # request[r]
<1>1. CASE accounts' = accounts
  BY <1>1, Zenon DEF Bare
<1>2. ASSUME NEW r \in Requests, SaveAccount(r)
      PROVE  Reason
  <2> DEFINE found == request[r].found
             now == accounts[request[r].account]
  <2>1. CASE Duplicate(found, now)
    BY <1>1, <1>2, <2>1, Zenon DEF SaveAccount
  <2>2. CASE ~Duplicate(found, now)
    <3>1. Store(r, Saved(found, now), AfterSave(r))
      BY <1>2, <2>2, Zenon DEF SaveAccount
    <3>2. Saved(found, now).tokens
      BY SMT DEF Saved
    <3> HIDE DEF found, now
    <3> QED
      BY <3>1, <3>2, Here, StoredBare, Zenon
  <2> QED
    BY <2>1, <2>2
<1>3. ASSUME NEW r \in Requests, SaveDisconnected(r)
      PROVE  Reason
  <2>1. accounts' = [accounts EXCEPT ![request[r].account] = Dropped(@)]
    BY <1>3 DEF SaveDisconnected
  <2>2. accounts \in [Accounts -> Record]
    BY <1>3, Here DEF ConnectingTypeOK
  <2>3. CASE a = request[r].account
    <3>1. accounts'[a] = Dropped(accounts[a])
      BY <2>1, <2>2, <2>3, Zenon
    <3>2. Dropped(accounts[a]).status = "DISCONNECTED"
      BY <2>2, SMT DEF Dropped, Record
    <3>3. accounts'[a].status = "CONNECTED"
      BY Zenon DEF Bare
    <3> QED
      BY <3>1, <3>2, <3>3
  <2>4. CASE a # request[r].account
    <3>1. accounts'[a] = accounts[a]
      BY <2>1, <2>2, <2>4, Zenon
    <3> QED
      BY <3>1, Zenon DEF Bare
  <2> QED
    BY <2>3, <2>4
<1>4. ASSUME NEW r \in Requests, SaveRenewed(r)
      PROVE  Reason
  <2> DEFINE q == [request[r] EXCEPT !.changed = @ \union {"tokens"}]
  <2>1. request[r].pc \in Using /\ SaveCopy(r, q, "CONNECTED", InHand(request[r]))
    BY <1>4, Zenon DEF SaveRenewed, Stands, Using
  <2>2. /\ q \in Request /\ q.account = request[r].account /\ "tokens" \in q.changed
        /\ q.found = request[r].found
    BY <1>4, Here, SMT DEF Request, Paths
  <2>3. q.found.tokens
    BY <1>4, <2>2, Zenon DEF SaveRenewed
  <2> HIDE DEF q
  <2> QED
    BY <2>1, <2>2, <2>3, CopyBare, Zenon
<1>5. ASSUME NEW r \in Requests, SaveRefused(r)
      PROVE  Reason
  <2>1. request[r].pc \in Using /\ request[r] \in Request
    BY <1>5, Here, Zenon DEF SaveRefused
  <2>2. PICK status \in {"EXPIRED", "REAUTH_REQUIRED", "ERROR"} :
          SaveCopy(r, request[r], status, Resting)
    BY <1>5, Zenon DEF SaveRefused
  <2>3. ~request[r].found.tokens
    <3>1. status # "CONNECTED"
      BY <2>2
    <3> QED
      BY <2>1, <2>2, <3>1, CopyBare, Zenon
  <2>4. request'[r] = Resting
    BY <2>2, Zenon DEF SaveCopy, Store
  <2>5. request'[r] # request[r]
    <3>1. Resting.pc = "idle"
      BY SMT DEF Resting
    <3> QED
      BY <2>1, <2>4, <3>1, SMT DEF Using
  <2> QED
    BY <2>1, <2>3, <2>5, Zenon DEF ReloadedInPart
<1>6. ASSUME NEW r \in Requests, SaveReloaded(r)
      PROVE  Reason
  <2>1. /\ request[r].pc \in Using /\ request[r] \in Request /\ request[r].pc = "refresh"
        /\ request[r].found.tokens
    BY <1>6, Here, Zenon DEF SaveReloaded, Stands, Using
  <2>2. PICK own \in {Resting, InHand(request[r])} :
          SaveCopy(r, request[r], request[r].found.status, own)
    BY <1>6, Zenon DEF SaveReloaded
  <2>3. "status" \in request[r].changed /\ "tokens" \notin request[r].changed
    BY <2>1, <2>2, CopyBare, Zenon
  <2>4. request[r].changed = {"status"}
    <3>1. request[r].changed \subseteq Paths
      BY <2>1, SMT DEF Request
    <3> QED
      BY <2>3, <3>1, SMT DEF Paths
  <2>5. request'[r] = own
    BY <2>2, Zenon DEF SaveCopy, Store
  <2>6. request'[r] # request[r]
    <3>1. Resting.pc = "idle" /\ InHand(request[r]).pc = "call"
      BY <2>1, InHandKnows, SMT DEF Resting
    <3> QED
      BY <2>1, <2>2, <2>5, <3>1, SMT
  <2> QED
    BY <2>1, <2>4, <2>6, Zenon DEF ReloadedInPart
<1>7. ASSUME NEW r \in Requests, Working(r)
      PROVE  Reason
  <2>1. \/ SaveAccount(r) \/ SaveDisconnected(r)
        \/ SaveRenewed(r) \/ SaveRefused(r) \/ SaveReloaded(r)
        \/ accounts' = accounts
    BY <1>7, Zenon DEF Working, Claim, LoadContext, Ask, List, SaveDraft, Pick, TakeDraft,
       ConnectTarget, FindAccount, CountAccounts, Forget, ReloadTokens, FinishUse, Quiet
  <2> QED
    BY <1>1, <1>2, <1>3, <1>4, <1>5, <1>6, <1>7, <2>1
<1>8. CASE ~\E r \in Requests : Working(r)
  <2>1. accounts' = accounts
    BY <1>8, Zenon DEF ConnectingNext, connectingVars, Start, Abandon, Callback, Choose,
       BeginDisconnect, BeginUse, RemoveAdmin, ExpireState, ExpireDraft, Die, Quiet
  <2> QED
    BY <1>1, <2>1
<1> QED
  BY <1>7, <1>8

(* Nobody connects anything who was no longer an admin when the callback or *)
(* the choice began; an account goes beyond the plan only beside others    *)
(* that took a slot since the plan was looked at; and no save leaves an    *)
(* account connected without tokens but that of a use, of what it reloaded.*)
THEOREM ConnectingIsAllowed == ConnectingSpec => ConnectionsAreAllowed
<1> DEFINE Admitted == \A r \in Requests :
             Stands(r, "save") /\ accounts' # accounts /\ request'[r].pc # "save" => request[r].entitled
           Within == \A r \in Requests, a \in Accounts :
             Stands(r, "save") /\ request'[r].pc # "save" /\ ~InUse(a) /\ InUse(a)'
               /\ TakesSlot(request[r].found)
               => Used < Limit + request[r].since
           Supplied == \A a \in Accounts : Bare(a)' =>
             \/ Bare(a)
             \/ \E r \in Requests : ReloadedInPart(request[r]) /\ request'[r] # request[r]
<1>1. ConnectingInv => Admitted /\ Within
  <2> SUFFICES ASSUME ConnectingInv, NEW r \in Requests, request[r].pc = "save"
               PROVE  request[r].entitled /\ (TakesSlot(request[r].found) => Used < Limit + request[r].since)
    BY Zenon DEF Stands
  <2> QED
    BY Here, SMT DEF Knows, Vouched, Counted, Entitled
<1>2. ConnectingInv /\ [ConnectingNext]_connectingVars => Supplied
  BY ConnectedKeepsTokens, Zenon
<1> QED
  BY <1>1, <1>2, ConnectingInvHolds, PTL
     DEF ConnectionsAreAllowed, OnlyAdminsConnect, AccountsWithinPlan, ConnectedHasTokens, ConnectingSpec

-----------------------------------------------------------------------------
(* Both, each while the other rests.                                        *)

LEMMA RestingTokens == TokensRest => TokenInv
<1> SUFFICES ASSUME TokensRest PROVE TokenInv
  OBVIOUS
<1>1. \A c \in Users : user[c] = Idle /\ user[c].pc = "idle"
  <2>1. Idle.pc = "idle"
    BY SMT DEF Idle
  <2> QED
    BY <2>1, Zenon DEF TokensRest
<1>2. /\ account.status = "DISCONNECTED" /\ account.tokens = NoTokens /\ account.refreshed = 0
      /\ platform.current = 1 /\ ~lost /\ budget["reconnect"] = 0
  <2>1. "reconnect" \in Events /\ budget = [e \in Events |-> 0]
    BY Zenon DEF Events, TokensRest
  <2>2. budget["reconnect"] = 0
    BY ONLY <2>1
  <2>3. account.status = "DISCONNECTED" /\ account.tokens = NoTokens /\ account.refreshed = 0
    BY SMT DEF TokensRest, Nobody
  <2>4. platform.current = 1 /\ ~lost
    BY SMT DEF TokensRest
  <2> QED
    BY <2>2, <2>3, <2>4
<1>3. TypeOK
  <2>1. account \in Account
    BY BoundsAssumption, SMT DEF TokensRest, Nobody, Account, Statuses, Gens, NoTokens, Leases
  <2>2. user \in [Users -> User]
    BY IdleTyped, Zenon DEF TokensRest
  <2>3. age \in [1..MaxGen -> Ages] /\ platform \in [current : 1..MaxGen, revoked : BOOLEAN]
    BY BoundsAssumption, SMT DEF TokensRest, Ages
  <2>4. lost \in BOOLEAN /\ undone \in BOOLEAN /\ budget \in [Events -> Nat]
    <3>1. \A e \in Events : 0 \in Nat
      OBVIOUS
    <3> QED
      BY <3>1, Zenon DEF TokensRest
  <2> QED
    BY <2>1, <2>2, <2>3, <2>4, Zenon DEF TypeOK
<1>4. budget.reconnect <= Budget.reconnect
  <2>1. Budget["reconnect"] \in Nat
    BY BoundsAssumption, SMT DEF Events
  <2> QED
    BY <1>2, <2>1, SMT
<1>5. ~Granting /\ Newest = 1
  BY <1>1, <1>2, SMT DEF Granting, Newest, At
<1>6. OneHolds
  BY <1>1, SMT DEF OneHolds, Refreshing
<1>7. AccountIsNewest
  BY <1>2, <1>5, BoundsAssumption, SMT DEF AccountIsNewest, HasTokens, Usable, NoTokens
<1>8. \A c \in Users : RefreshKnows(user[c])
  BY <1>1, <1>3, IdleKnows, Zenon
<1> QED
  BY <1>3, <1>4, <1>6, <1>7, <1>8, Zenon DEF TokenInv, LeaseHolds

LEMMA RestingConnecting == ConnectingRests => ConnectingInv
<1> SUFFICES ASSUME ConnectingRests PROVE ConnectingInv
  OBVIOUS
<1> USE DEF ConnectingRests
<1>1. ConnectingTypeOK
  <2>1. [stage |-> "gone", by |-> None] \in State
    BY SMT DEF State
  <2>2. Absent \in Record /\ way \in Ways
    BY WaysAssumption, SMT DEF Absent, Record, RecordStatuses
  <2>3. state \in [Flows -> State] /\ draft \in [Flows -> Draft] /\ accounts \in [Accounts -> Record]
    BY <2>1, <2>2, NoDraftTyped, Zenon
  <2>4. request \in [Requests -> Request] /\ exchanged \in [Flows -> Seq(People)]
    <3>1. <<>> \in Seq(People)
      OBVIOUS
    <3> QED
      BY <3>1, RestingTyped, Zenon
  <2>5. stored \in [Flows -> Nat] /\ cookie \in [People -> Flows \union {None}]
        /\ chances \in [Occasions -> Nat] /\ admin \subseteq People
    BY SMT
  <2> QED
    BY <2>2, <2>3, <2>4, <2>5, Zenon DEF ConnectingTypeOK
<1>2. CodesAreUsedOnce /\ LoginsConnectOnce
  BY SMT DEF CodesAreUsedOnce, LoginsConnectOnce
<1>4. RequestsKnow
  BY RestingKnows, Zenon DEF RequestsKnow
<1>5. OneCarries
  <2>1. Resting.pc \notin Carrying
    BY SMT DEF Resting, Carrying
  <2> QED
    BY <2>1, Zenon DEF OneCarries
<1>6. Untouched /\ CookiesBind
  BY Zenon DEF Untouched, CookiesBind
<1> QED
  BY <1>1, <1>2, <1>4, <1>5, <1>6 DEF ConnectingInv, ConnectingHolds

LEMMA ConnectionsStep ==
  ASSUME [ConnectionsNext]_<<vars, connectingVars>>
  PROVE  [Next]_vars /\ [ConnectingNext]_connectingVars
  BY Zenon DEF ConnectionsNext

(* Everything above of the two together, as they are checked.               *)
THEOREM ConnectionsAreSafe == ConnectionsSpec => [](RefreshesAreSafe /\ ConnectingHolds)
<1>1. ConnectionsInit => TokenInv /\ ConnectingInv
  BY TokenInvInit, RestingTokens, ConnectingInvInit, RestingConnecting DEF ConnectionsInit
<1>2. TokenInv /\ ConnectingInv /\ [ConnectionsNext]_<<vars, connectingVars>>
        => TokenInv' /\ ConnectingInv'
  BY ConnectionsStep, TokenInvKept, ConnectingInvNext
<1>3. TokenInv /\ ConnectingInv => RefreshesAreSafe /\ ConnectingHolds
  BY TokenInvSafe DEF ConnectingInv
<1> QED
  BY <1>1, <1>2, <1>3, PTL DEF ConnectionsSpec
=============================================================================
