----------------------------- MODULE TokenRefresh -----------------------------
(***************************************************************************)
(* The tokens of ONE connected social account on a platform that rotates   *)
(* refresh tokens: operations that use the account refresh its tokens      *)
(* under a lease in the database, each on a copy of the document it read   *)
(* earlier, while people disconnect and reconnect it.                      *)
(*                                                                         *)
(* An access token and the refresh token that came with it are one         *)
(* generation of tokens, numbered as the platform grants them.             *)
(***************************************************************************)
EXTENDS Naturals

CONSTANTS
  Users,   \* operations that may run at a time, in any process
  MaxGen,  \* bound of the model on the tokens the platform grants
  Budget   \* how often each fault and each outside event may happen

Events == {"use", "disconnect", "reconnect", "aging", "fault"}

ASSUME BoundsAssumption ==
  /\ MaxGen \in Nat \ {0}
  /\ Budget \in [Events -> Nat]

VARIABLES
  account,   \* the SocialAccount document
  user,      \* where each operation is, and its copy of the document
  age,       \* how close each generation of tokens is to its expiry
  platform,  \* the generation the platform would refresh, and whether it refuses
  lost,      \* history: a generation was granted and never reached the database
  undone,    \* history: the save after an operation, of what it had read before,
             \* ended a lease somebody held or brought back deleted tokens
  budget     \* outside events still to come

vars == <<account, user, age, platform, lost, undone, budget>>

-----------------------------------------------------------------------------
NoTokens == 0
Gens == NoTokens..MaxGen
Statuses == {"CONNECTED", "EXPIRED", "REAUTH_REQUIRED", "DISCONNECTED", "ERROR"}
(* refreshLockedUntil: never set or cleared, in the future, in the past.    *)
Leases == {"none", "held", "past"}
(* Valid for long; within the window in which it is renewed; expired or     *)
(* about to; and its refresh token expired too.                             *)
Ages == {"fresh", "soon", "expired", "lapsed"}
Account == [status : Statuses, tokens : Gens, refreshed : Gens, lease : Leases]
Fields == {"status", "tokens", "refreshed", "lease"}
Steps == {"idle", "acquire", "reload", "expire", "refresh", "saveTokens", "saveFailure",
          "release", "operate", "saveOutcome", "authorized", "save"}
Kinds == {"use", "test", "sweep"}
(* An operation's copy of the document and the paths it modified;           *)
(* lastRefreshedAt as first read; whether the refresh is early, and failed; *)
(* history: the tokens stored when it began, and whether it saw any age.    *)
User == [pc : Steps, kind : Kinds, copy : Account, dirty : SUBSET Fields, readAt : Gens,
         early : BOOLEAN, failed : BOOLEAN, began : Gens, aged : BOOLEAN]

(* The document has only the statuses of SOCIAL_ACCOUNT_STATUSES and only   *)
(* tokens the platform can have granted, and so have all copies of it.      *)
TypeOK ==
  /\ account \in Account
  /\ user \in [Users -> User]
  /\ age \in [1..MaxGen -> Ages]
  /\ platform \in [current : 1..MaxGen, revoked : BOOLEAN]
  /\ lost \in BOOLEAN /\ undone \in BOOLEAN
  /\ budget \in [Events -> Nat]

Nobody == [status |-> "DISCONNECTED", tokens |-> NoTokens, refreshed |-> 0, lease |-> "none"]
Idle == [pc |-> "idle", kind |-> "use", copy |-> Nobody, dirty |-> {}, readAt |-> 0,
         early |-> FALSE, failed |-> FALSE, began |-> 0, aged |-> FALSE]
(* An operation that has read the document.                                 *)
New(kind, step, early) ==
  [pc |-> step, kind |-> kind, copy |-> account, dirty |-> {}, readAt |-> account.refreshed,
   early |-> early, failed |-> FALSE, began |-> account.tokens, aged |-> FALSE]

At(c, step) == user[c].pc = step
Goto(c, step) == user' = [user EXCEPT ![c].pc = step]
Rest(c) == user' = [user EXCEPT ![c] = Idle]
Spend(what) ==
  /\ budget[what] > 0
  /\ budget' = [budget EXCEPT ![what] = @ - 1]

(* Mongoose marks a path modified when a different value is set, and save   *)
(* writes the modified paths only.                                          *)
Set(u, values) ==
  [u EXCEPT !.copy = [f \in Fields |-> IF f \in DOMAIN values THEN values[f] ELSE @[f]],
            !.dirty = @ \cup {f \in DOMAIN values : values[f] # u.copy[f]}]
\* Mutant: the whole copy is written, whatever was changed since.
SaveWhole(c) == account' = user[c].copy
Save(c) ==
  account' = [f \in Fields |-> IF f \in user[c].dirty THEN user[c].copy[f] ELSE account[f]]

(* A path that was not read is modified by any value.                       *)
SetUnread(u, values) == [Set(u, values) EXCEPT !.dirty = @ \cup {"tokens"}]

AgeOf(document) == age[document.tokens]
HasTokens(document) == document.tokens # NoTokens

Init ==
  /\ account = [status |-> "CONNECTED", tokens |-> 1, refreshed |-> 1, lease |-> "none"]
  /\ user = [c \in Users |-> Idle]
  /\ age = [g \in 1..MaxGen |-> "fresh"]
  /\ platform = [current |-> 1, revoked |-> FALSE]
  /\ lost = FALSE /\ undone = FALSE
  /\ budget = Budget

-----------------------------------------------------------------------------
(* Using the account: withAccount, publishForWorker, getAnalyticsForAccount *)
(* and testConnection read it and ask getCredentials for a token.           *)

MustRefresh ==
  account.status = "EXPIRED" \/ AgeOf(account) \in {"expired", "lapsed"}
Load(c, kind) ==
  /\ At(c, "idle")
  /\ account.status \in {"CONNECTED", "EXPIRED"}
  /\ HasTokens(account)
  /\ Spend("use")
  /\ user' = [user EXCEPT ![c] =
       IF MustRefresh THEN New(kind, "acquire", FALSE)
       ELSE IF AgeOf(account) = "soon" THEN New(kind, "acquire", TRUE)
       ELSE New(kind, "operate", FALSE)]
  /\ UNCHANGED <<account, age, platform, lost, undone>>

(* refreshExpiringTokens renews what nobody uses, one account after another.*)
LoadExpiring(c) ==
  /\ At(c, "idle")
  /\ account.status = "CONNECTED"
  /\ HasTokens(account)
  /\ AgeOf(account) # "fresh"
  /\ Spend("use")
  /\ user' = [user EXCEPT ![c] = New("sweep", "acquire", FALSE)]
  /\ UNCHANGED <<account, age, platform, lost, undone>>

(* A refresh that failed is fatal unless it was early and the account is    *)
(* still usable.                                                            *)
AfterFailure(u) ==
  IF u.early /\ u.copy.status = "CONNECTED" /\ HasTokens(u.copy)
    THEN [u EXCEPT !.pc = "operate"] ELSE Idle

-----------------------------------------------------------------------------
(* refreshTokens.                                                           *)

LeaseFree == account.lease # "held"
Acquire(c) ==
  /\ At(c, "acquire")
  /\ LeaseFree
  /\ account' = [account EXCEPT !.lease = "held"]
  /\ Goto(c, "reload")
  /\ UNCHANGED <<age, platform, lost, undone, budget>>

(* REFRESH_WAIT_MS passes.                                                  *)
StopWaiting(c) ==
  /\ At(c, "acquire")
  /\ ~LeaseFree
  /\ user' = [user EXCEPT ![c] = AfterFailure(@)]
  /\ UNCHANGED <<account, age, platform, lost, undone, budget>>

(* reloadTokens copies everything but the lease.                            *)
\* Mutant: the copy read before waiting is used.
NotReloaded(u) == u
Reloaded(u) ==
  Set(u, [f \in {"status", "tokens", "refreshed"} |-> account[f]])
Renewed(u) ==
  /\ u.copy.refreshed > u.readAt
  /\ HasTokens(u.copy) /\ AgeOf(u.copy) = "fresh"
  /\ u.copy.status = "CONNECTED"
Reload(c) ==
  LET u == Reloaded(user[c])
      next == IF Renewed(u) THEN "release"
              ELSE IF ~HasTokens(u.copy) \/ AgeOf(u.copy) = "lapsed" THEN "expire" ELSE "refresh"
  IN
  /\ At(c, "reload")
  /\ user' = [user EXCEPT ![c] = [u EXCEPT !.pc = next]]
  /\ UNCHANGED <<account, age, platform, lost, undone, budget>>

(* Nothing can refresh it: only reconnecting helps.                         *)
Expire(c) ==
  /\ At(c, "expire")
  /\ user' = [user EXCEPT ![c] = [Set(@, [status |-> "EXPIRED"]) EXCEPT !.pc = "saveFailure"]]
  /\ UNCHANGED <<account, age, platform, lost, undone, budget>>

Refused(c, status) ==
  user' = [user EXCEPT ![c] = [Set(@, [status |-> status]) EXCEPT !.pc = "saveFailure"]]
Grants(c) == ~platform.revoked /\ user[c].copy.tokens = platform.current

(* refreshTokensLocked asks the platform.  A refresh token works once.      *)
Refresh(c) ==
  /\ At(c, "refresh")
  /\ \/ /\ Grants(c)
        /\ platform.current < MaxGen
        /\ platform' = [platform EXCEPT !.current = @ + 1]
        /\ user' = [user EXCEPT ![c] =
             [Set(@, [tokens |-> platform'.current, refreshed |-> platform'.current,
                      status |-> "CONNECTED"]) EXCEPT !.pc = "saveTokens"]]
     \/ /\ ~Grants(c)
        /\ \E status \in IF platform.revoked THEN {"REAUTH_REQUIRED", "ERROR"}
                                             ELSE {"REAUTH_REQUIRED"} : Refused(c, status)
        /\ UNCHANGED platform
  /\ UNCHANGED <<account, age, lost, undone, budget>>

(* The platform is down or limits the rate.                                 *)
RefreshFails(c) ==
  /\ At(c, "refresh")
  /\ Spend("fault")
  /\ Goto(c, "saveFailure")
  /\ UNCHANGED <<account, age, platform, lost, undone>>

(* The platform grants new tokens and the answer never arrives.             *)
LoseAnswer(c) ==
  /\ At(c, "refresh")
  /\ Grants(c)
  /\ platform.current < MaxGen
  /\ Spend("fault")
  /\ platform' = [platform EXCEPT !.current = @ + 1]
  /\ lost' = TRUE
  /\ Goto(c, "saveFailure")
  /\ UNCHANGED <<account, age, undone>>

SaveTokens(c) ==
  /\ At(c, "saveTokens")
  /\ Save(c)
  /\ user' = [user EXCEPT ![c] = [@ EXCEPT !.pc = "release", !.dirty = {}]]
  /\ UNCHANGED <<age, platform, lost, undone, budget>>

SaveFailure(c) ==
  /\ At(c, "saveFailure")
  /\ Save(c)
  /\ user' = [user EXCEPT ![c] = [@ EXCEPT !.pc = "release", !.dirty = {}, !.failed = TRUE]]
  /\ UNCHANGED <<age, platform, lost, undone, budget>>

(* The lease names no holder: whoever leaves clears it.                     *)
Release(c) ==
  LET u == Set(user[c], [lease |-> "none"]) IN
  /\ At(c, "release")
  /\ account' = [account EXCEPT !.lease = "none"]
  /\ user' = [user EXCEPT ![c] =
       IF u.failed THEN AfterFailure(u)
       ELSE IF u.kind = "sweep" THEN Idle ELSE [u EXCEPT !.pc = "operate"]]
  /\ UNCHANGED <<age, platform, lost, undone, budget>>

-----------------------------------------------------------------------------
(* The operation itself, with the access token of the copy.  It is shorter  *)
(* than TOKEN_REFRESH_LEEWAY_MS, so the token does not expire under it.     *)

Operate(c) ==
  LET u == user[c]
      answer(status) == [Set(u, [status |-> status]) EXCEPT !.pc = "saveOutcome"]
  IN
  /\ At(c, "operate")
  /\ user' \in
       {[user EXCEPT ![c] = v] : v \in
         {Idle, [u EXCEPT !.pc = "saveOutcome"]}  \* done, or failed for another reason
         \cup (IF platform.revoked
                 THEN {answer("EXPIRED"), answer("REAUTH_REQUIRED"), answer("ERROR")}
               ELSE IF u.kind = "test" THEN {answer("CONNECTED")} ELSE {})}
  /\ UNCHANGED <<account, age, platform, lost, undone, budget>>

(* What the copy was changed to while it was refreshed is saved once more,   *)
(* whatever has become of the document since: the lease cleared, the tokens  *)
(* as they were reloaded.                                                    *)
Undoes ==
  \/ account.lease = "held" /\ account'.lease # "held"
  \/ ~HasTokens(account) /\ HasTokens(account')
SaveOutcome(c) ==
  /\ At(c, "saveOutcome")
  /\ Save(c)
  /\ undone' = (undone \/ Undoes)
  /\ Rest(c)
  /\ UNCHANGED <<age, platform, lost, budget>>

-----------------------------------------------------------------------------
(* People.                                                                  *)

(* disconnectAccount reads the account without its tokens, so it writes     *)
(* null over them whatever they are.                                        *)
Disconnect(c) ==
  /\ At(c, "idle")
  /\ account.status # "DISCONNECTED"
  /\ Spend("disconnect")
  /\ user' = [user EXCEPT ![c] =
       SetUnread(New("use", "save", FALSE), [status |-> "DISCONNECTED", tokens |-> NoTokens])]
  /\ UNCHANGED <<account, age, platform, lost, undone>>

(* The platform grants tokens for a new connection, which ends the old one. *)
Authorize(c) ==
  /\ At(c, "idle")
  /\ platform.current < MaxGen
  /\ Spend("reconnect")
  /\ platform' = [current |-> platform.current + 1, revoked |-> FALSE]
  /\ user' = [user EXCEPT ![c] =
       Set(New("use", "authorized", FALSE), [tokens |-> platform'.current])]
  /\ UNCHANGED <<account, age, lost, undone>>

(* storeConnection reads the account without its tokens.                    *)
StoreConnection(c) ==
  /\ At(c, "authorized")
  /\ user' = [user EXCEPT ![c] =
       SetUnread(New("use", "save", FALSE),
                 [status |-> "CONNECTED", tokens |-> user[c].copy.tokens])]
  /\ UNCHANGED <<account, age, platform, lost, undone, budget>>

SavePerson(c) ==
  /\ At(c, "save")
  /\ Save(c)
  /\ Rest(c)
  /\ UNCHANGED <<age, platform, lost, undone, budget>>

-----------------------------------------------------------------------------
(* Time, the platform and crashes.                                          *)

(* Operations take minutes and tokens live for hours: what began before a   *)
(* token was granted is over when that token comes up for renewal, and no   *)
(* operation sees tokens age twice.                                         *)
Older == [fresh |-> "soon", soon |-> "expired", expired |-> "lapsed"]
Age(g) ==
  /\ g <= platform.current
  /\ age[g] \in DOMAIN Older
  /\ \A c \in Users : ~At(c, "idle") =>
       ~user[c].aged /\ (age[g] = "fresh" => user[c].began >= g)
  /\ Spend("aging")
  /\ age' = [age EXCEPT ![g] = Older[@]]
  /\ user' = [c \in Users |-> IF At(c, "idle") THEN Idle ELSE [user[c] EXCEPT !.aged = TRUE]]
  /\ UNCHANGED <<account, platform, lost, undone>>

Revoke ==
  /\ ~platform.revoked
  /\ Spend("fault")
  /\ platform' = [platform EXCEPT !.revoked = TRUE]
  /\ UNCHANGED <<account, user, age, lost, undone>>

(* REFRESH_LEASE_MS is three times what a call to the platform may take: a  *)
(* lease runs out only when its holder is gone.                             *)
Refreshing == {"reload", "expire", "refresh", "saveTokens", "saveFailure", "release"}
LeaseExpires ==
  /\ account.lease = "held"
  /\ \A c \in Users : user[c].pc \notin Refreshing
  /\ account' = [account EXCEPT !.lease = "past"]
  /\ UNCHANGED <<user, age, platform, lost, undone, budget>>

Crash(c) ==
  /\ ~At(c, "idle")
  /\ Spend("fault")
  /\ lost' = (lost \/ /\ user[c].pc \in {"saveTokens", "authorized", "save"}
                      /\ HasTokens(user[c].copy))
  /\ Rest(c)
  /\ UNCHANGED <<account, age, platform, undone>>

UserNext(c) ==
  \/ (\E kind \in {"use", "test"} : Load(c, kind)) \/ LoadExpiring(c)
  \/ Acquire(c) \/ StopWaiting(c) \/ Reload(c) \/ Expire(c) \/ Refresh(c)
  \/ RefreshFails(c) \/ LoseAnswer(c) \/ SaveTokens(c) \/ SaveFailure(c) \/ Release(c)
  \/ Operate(c) \/ SaveOutcome(c)
  \/ Disconnect(c) \/ Authorize(c) \/ StoreConnection(c) \/ SavePerson(c) \/ Crash(c)

Next ==
  \/ \E c \in Users : UserNext(c)
  \/ \E g \in 1..MaxGen : Age(g)
  \/ Revoke \/ LeaseExpires

Spec == Init /\ [][Next]_vars

-----------------------------------------------------------------------------
(* A reconnection ends the tokens that operations may still hold.           *)
Reconnected == budget.reconnect < Budget.reconnect

(* Nobody presents a refresh token that was already spent, which a rotating *)
(* platform answers by refusing the account: what refreshTokens says its     *)
(* lease is for.                                                             *)
PresentedOnce ==
  ~Reconnected /\ ~lost =>
    \A c \in Users : At(c, "refresh") => user[c].copy.tokens = platform.current

(* The lease keeps that promise unless an operation's last save undid what  *)
(* others did since (recordFailure).                                        *)
NothingSpentTwice == ~undone => PresentedOnce

(* An account is only ever marked for reconnecting because the platform     *)
(* refused it or an answer was lost, or such a save came between.           *)
HealthyNeedsNoReconnecting ==
  ~Reconnected /\ ~lost /\ ~undone /\ ~platform.revoked =>
    account.status \notin {"REAUTH_REQUIRED", "ERROR"}

(* Sharing an account costs nobody the account.                             *)
RefreshesAreSafe == TypeOK /\ NothingSpentTwice /\ HealthyNeedsNoReconnecting

(* No save of an older copy puts tokens in the place of newer ones.         *)
TokensNeverGoBack ==
  [][~Reconnected' /\ ~undone' =>
       account'.tokens = NoTokens \/ account'.tokens >= account.tokens]_vars
=============================================================================
