------------------------------ MODULE Connecting ------------------------------
(***************************************************************************)
(* Connecting social accounts: an admin starts a login with a platform,    *)
(* the platform sends a browser back with a code, the callback turns the   *)
(* code into tokens and stores the account, or keeps them in a draft while *)
(* the admin chooses among the accounts the login covers.  Callbacks,      *)
(* choices, disconnections and uses of the accounts of one workspace run   *)
(* as interleaved requests; a state or a draft expires, an admin is        *)
(* removed, a server dies.                                                 *)
(***************************************************************************)
EXTENDS Naturals, Sequences, FiniteSets

CONSTANTS
  Flows,     \* logins that may be started, each with its own state
  Requests,  \* requests that run at a time
  People,    \* members of the workspace, each with a browser
  Accounts,  \* accounts of the platform that a login can cover
  Ways,      \* ways to sign in, one of which all the logins use
  Limit,     \* socialAccountsPerWorkspace of the plan
  Openings,  \* how often each kind of event may happen
  None       \* no flow, no account

Occasions == {"callback", "choose", "disconnect", "use", "admin", "fault"}

ASSUME ConnectingAssumption ==
  /\ Limit \in Nat \ {0}
  /\ Openings \subseteq [Occasions -> Nat]
  /\ None \notin Flows \union Accounts \union People
  /\ IsFiniteSet(Accounts)

VARIABLES
  way,        \* the way all the logins sign in
  state,      \* SocialOAuthState: each login's state, and who started it
  cookie,     \* the binding in each browser's cookie for the platform
  draft,      \* SocialConnectionDraft: each login's, with the accounts offered
  accounts,   \* SocialAccount: the records of each account
  admin,      \* people who are active admins of the active workspace
  request,    \* where each request is
  exchanged,  \* history: the browsers that had each login's code exchanged
  stored,     \* history: how often each login's tokens were stored
  chances     \* events still to come

connectingVars == <<way, state, cookie, draft, accounts, admin, request, exchanged, stored, chances>>

-----------------------------------------------------------------------------
(* The requests a platform's handleOAuthCallback makes, in order: the code  *)
(* for a token, on Meta the token for a long-lived one, then the account or *)
(* the pages of the login.                                                  *)
TikTokTokens == <<"code">>
TikTokLogin == TikTokTokens \o <<"user">>
GoogleTokens == <<"code">>
YouTubeLogin == GoogleTokens \o <<"channel">>
LinkedInTokens == <<"code">>
OrganizationPages == <<"acls", "organizations">>
LinkedInLogin == LinkedInTokens \o <<"userinfo">>
LinkedInPagesLogin == LinkedInTokens \o OrganizationPages
InstagramTokens == <<"code", "extend">>
InstagramProfile == <<"me">>
InstagramLogin == InstagramTokens \o InstagramProfile
MetaTokens == <<"code", "extend">>
MetaPages == <<"pages">>
InstagramPagesLogin == MetaTokens \o MetaPages
FacebookLogin == MetaTokens \o MetaPages

Asks ==
  [tiktok |-> TikTokLogin, youtube |-> YouTubeLogin,
   linkedin |-> LinkedInLogin, linkedinPages |-> LinkedInPagesLogin,
   instagram |-> InstagramLogin, instagramPages |-> InstagramPagesLogin,
   facebook |-> FacebookLogin]
(* Ways whose login covers several accounts, to be listed.                 *)
Several == {"linkedinPages", "instagramPages", "facebook"}
ASSUME WaysAssumption == Ways \subseteq DOMAIN Asks /\ Ways # {}

RecordStatuses == {"CONNECTED", "EXPIRED", "REAUTH_REQUIRED", "ERROR", "DISCONNECTED"}
State == [stage : {"new", "pending", "consumed", "gone"}, by : People \union {None}]
Draft == [targets : SUBSET Accounts, by : People \union {None}]
Record == [records : 0..1, status : RecordStatuses, tokens : BOOLEAN]
RequestSteps == {"idle", "claim", "context", "ask", "list", "draft", "pick", "take", "connect",
          "find", "count", "save", "forget", "drop", "use", "refresh", "call"}
Paths == {"status", "tokens"}
(* The browser a callback came from and its cookie; the record as read,    *)
(* and the paths in which a reload changed it; history: its login's starter*)
(* was an admin when it began, and slots others took since it counted.     *)
Request ==
  [pc : RequestSteps, flow : Flows \union {None}, by : People \union {None},
   cookie : Flows \union {None}, asked : 0..3, targets : SUBSET Accounts,
   account : Accounts \union {None}, found : Record, changed : SUBSET Paths,
   entitled : BOOLEAN, since : Nat]

(* One record per account of the platform, in the statuses of the schema,  *)
(* whatever callbacks store the same account at a time: the unique index.  *)
ConnectingTypeOK ==
  /\ way \in Ways
  /\ state \in [Flows -> State]
  /\ cookie \in [People -> Flows \union {None}]
  /\ draft \in [Flows -> Draft]
  /\ accounts \in [Accounts -> Record]
  /\ admin \subseteq People
  /\ request \in [Requests -> Request]
  /\ exchanged \in [Flows -> Seq(People)]
  /\ stored \in [Flows -> Nat]
  /\ chances \in [Occasions -> Nat]

Absent == [records |-> 0, status |-> "DISCONNECTED", tokens |-> FALSE]
NoDraft == [targets |-> {}, by |-> None]
Resting == [pc |-> "idle", flow |-> None, by |-> None, cookie |-> None, asked |-> 0, targets |-> {},
         account |-> None, found |-> Absent, changed |-> {}, entitled |-> FALSE, since |-> 0]

Stands(r, step) == request[r].pc = step
Become(r, next) == request' = [request EXCEPT ![r] = next]
MoveTo(r, step) == request' = [request EXCEPT ![r].pc = step]
End(r) == Become(r, Resting)
Use(what) ==
  /\ chances[what] > 0
  /\ chances' = [chances EXCEPT ![what] = @ - 1]

Occupies(record) == record.records > 0 /\ record.status # "DISCONNECTED"
InUse(a) == Occupies(accounts[a])
Used == Cardinality({a \in Accounts : InUse(a)})

ConnectingInit ==
  /\ way \in Ways
  /\ state = [f \in Flows |-> [stage |-> "new", by |-> None]]
  /\ cookie = [p \in People |-> None]
  /\ draft = [f \in Flows |-> NoDraft]
  /\ accounts = [a \in Accounts |-> Absent]
  /\ admin = People
  /\ request = [r \in Requests |-> Resting]
  /\ exchanged = [f \in Flows |-> <<>>]
  /\ stored = [f \in Flows |-> 0]
  /\ chances \in Openings

Quiet == <<way, accounts, admin, exchanged, stored>>

-----------------------------------------------------------------------------
(* The login.                                                              *)

(* startConnection: the state is stored and the browser bound to it.       *)
Start(f, p) ==
  /\ state[f].stage = "new"
  /\ p \in admin
  /\ Used < Limit
  /\ state' = [state EXCEPT ![f] = [stage |-> "pending", by |-> p]]
  /\ cookie' = [cookie EXCEPT ![p] = f]
  /\ UNCHANGED <<Quiet, draft, request, chances>>

(* HandleOAuthCallback: the platform sends a browser back, perhaps twice,  *)
(* perhaps one that only followed the link; a cookie is sent along.        *)
Callback(r, f, p) ==
  /\ Stands(r, "idle")
  /\ state[f].stage # "new"
  /\ Use("callback")
  /\ Become(r, [Resting EXCEPT !.pc = "claim", !.flow = f, !.by = p, !.cookie = cookie[p],
                            !.entitled = state[f].by \in admin])
  /\ UNCHANGED <<Quiet, state, cookie, draft>>

(* abandonConnection: the person said no, and the state is burned.         *)
Abandon(f, p) ==
  /\ state[f].stage # "new"
  /\ Use("callback")
  /\ state' = [state EXCEPT ![f].stage = IF @ = "pending" THEN "consumed" ELSE @]
  /\ cookie' = [cookie EXCEPT ![p] = None]
  /\ UNCHANGED <<Quiet, draft, request>>

(* The response of a callback clears the cookie of the browser.            *)
Respond(r) ==
  /\ End(r)
  /\ cookie' = [cookie EXCEPT ![request[r].by] = None]
(* Past its claim a callback carries the cookie; a choice carries none, and *)
(* leaves the browser's alone.                                             *)
IsCallback(r) == request[r].cookie # None
Answer(r) == IF IsCallback(r) THEN Respond(r) ELSE End(r) /\ UNCHANGED cookie

Claimable(f) == state[f].stage = "pending"
Bound(r) == request[r].cookie = request[r].flow

(* claimState, then the comparison with the browser's binding.             *)
Claim(r) ==
  LET f == request[r].flow IN
  /\ Stands(r, "claim")
  /\ IF Claimable(f)
       THEN state' = [state EXCEPT ![f].stage = "consumed"]
       ELSE UNCHANGED state
  /\ IF Claimable(f) /\ Bound(r)
       THEN MoveTo(r, "context") /\ UNCHANGED cookie
       ELSE Respond(r)
  /\ UNCHANGED <<Quiet, draft, chances>>

\* Mutant: the role is not looked up again.
TrustedStarter(p) == p \in People
MayConnect(p) == p \in admin

(* loadConnectionContext.                                                  *)
LoadContext(r) ==
  /\ Stands(r, "context")
  /\ IF MayConnect(state[request[r].flow].by) THEN MoveTo(r, "ask") /\ UNCHANGED cookie
     ELSE Respond(r)
  /\ UNCHANGED <<Quiet, state, draft, chances>>

(* handleOAuthCallback: the requests to the platform; the first presents   *)
(* the code.  The last tells the account of the login.                     *)
Ask(r) ==
  LET q == request[r]
      last == q.asked + 1 = Len(Asks[way])
      step == IF ~last THEN "ask" ELSE IF way \in Several THEN "list" ELSE "find" IN
  /\ Stands(r, "ask")
  /\ exchanged' = IF q.asked = 0 THEN [exchanged EXCEPT ![q.flow] = Append(@, q.by)]
                  ELSE exchanged
  /\ \/ Respond(r)
     \/ /\ \E a \in IF last THEN Accounts ELSE {None} :
             Become(r, [q EXCEPT !.pc = step, !.asked = @ + 1, !.account = a])
        /\ UNCHANGED cookie
  /\ UNCHANGED <<way, accounts, admin, stored, state, draft, chances>>

(* listConnectionTargets asks the platform again.                          *)
List(r) ==
  /\ Stands(r, "list")
  /\ \/ Respond(r)
     \/ /\ \E offered \in SUBSET Accounts :
             Become(r, [request[r] EXCEPT
               !.targets = offered,
               !.pc = CASE Cardinality(offered) > 1 -> "draft"
                        [] Cardinality(offered) = 1 -> "connect"
                        [] OTHER -> "find",
               !.account = IF Cardinality(offered) = 1 THEN CHOOSE a \in offered : TRUE ELSE @])
        /\ UNCHANGED cookie
  /\ UNCHANGED <<Quiet, state, draft, chances>>

(* saveConnectionDraft.                                                    *)
SaveDraft(r) ==
  LET f == request[r].flow IN
  /\ Stands(r, "draft")
  /\ draft' = [draft EXCEPT ![f] = [targets |-> request[r].targets, by |-> state[f].by]]
  /\ MoveTo(r, "forget")
  /\ UNCHANGED <<Quiet, state, cookie, chances>>

-----------------------------------------------------------------------------
(* completeConnectionChoice.                                               *)

Choose(r, f, p, a) ==
  /\ Stands(r, "idle")
  /\ p \in admin
  /\ draft[f] # NoDraft
  /\ Use("choose")
  /\ Become(r, [Resting EXCEPT !.pc = "pick", !.flow = f, !.by = p, !.account = a, !.entitled = TRUE])
  /\ UNCHANGED <<Quiet, state, cookie, draft>>

Pending(r) == draft[request[r].flow] # NoDraft /\ draft[request[r].flow].by = request[r].by

Pick(r) ==
  /\ Stands(r, "pick")
  /\ IF Pending(r) /\ request[r].account \in draft[request[r].flow].targets
       THEN MoveTo(r, "take") ELSE End(r)
  /\ UNCHANGED <<Quiet, state, cookie, draft, chances>>

\* Mutant: the draft stays for the next choice.
KeptDraft(r) == draft
WithoutDraft(r) == [draft EXCEPT ![request[r].flow] = NoDraft]

TakeDraft(r) ==
  /\ Stands(r, "take")
  /\ IF Pending(r) THEN draft' = WithoutDraft(r) /\ MoveTo(r, "connect")
     ELSE End(r) /\ UNCHANGED draft
  /\ UNCHANGED <<Quiet, state, cookie, chances>>

-----------------------------------------------------------------------------
(* storeConnection, for callbacks and choices.                             *)

(* connectTarget lists the platform's accounts once more.                  *)
ConnectTarget(r) ==
  /\ Stands(r, "connect")
  /\ \/ MoveTo(r, "find") /\ UNCHANGED cookie
     \/ Answer(r)
  /\ UNCHANGED <<Quiet, state, draft, chances>>

TakesSlot(found) == found.records = 0 \/ found.status = "DISCONNECTED"

FindAccount(r) ==
  LET found == accounts[request[r].account] IN
  /\ Stands(r, "find")
  /\ Become(r, [request[r] EXCEPT !.found = found,
                  !.pc = IF TakesSlot(found) THEN "count" ELSE "save"])
  /\ UNCHANGED <<Quiet, state, cookie, draft, chances>>

(* assertCanAddSocialAccount.                                              *)
CountAccounts(r) ==
  /\ Stands(r, "count")
  /\ IF Used < Limit
       THEN Become(r, [request[r] EXCEPT !.pc = "save", !.since = 0]) /\ UNCHANGED cookie
       ELSE Answer(r)
  /\ UNCHANGED <<Quiet, state, draft, chances>>

Duplicate(found, now) == found.records = 0 /\ now.records > 0

(* Mongoose writes what was changed: the status only when it was not       *)
(* CONNECTED when read, the tokens always.                                 *)
Saved(found, now) ==
  [records |-> IF found.records = 0 THEN now.records + 1 ELSE now.records,
   status |-> IF found.records > 0 /\ found.status = "CONNECTED" THEN now.status ELSE "CONNECTED",
   tokens |-> TRUE]

AfterSave(r) == IF IsCallback(r) THEN [request[r] EXCEPT !.pc = "forget"] ELSE Resting

(* A request saves its copy over the record; history: the others that have *)
(* counted see a slot taken.                                               *)
Store(r, record, own) ==
  LET a == request[r].account IN
  /\ accounts' = [accounts EXCEPT ![a] = record]
  /\ request' = [q \in Requests |->
       IF q = r THEN own
       ELSE IF ~InUse(a) /\ Occupies(record) /\ Stands(q, "save")
         THEN [request[q] EXCEPT !.since = @ + 1]
       ELSE request[q]]

SaveAccount(r) ==
  LET a == request[r].account
      found == request[r].found IN
  /\ Stands(r, "save")
  /\ IF Duplicate(found, accounts[a])
       THEN Answer(r) /\ UNCHANGED <<accounts, stored>>
       ELSE /\ Store(r, Saved(found, accounts[a]), AfterSave(r))
            /\ stored' = [stored EXCEPT ![request[r].flow] = @ + 1]
            /\ UNCHANGED cookie
  /\ UNCHANGED <<way, admin, exchanged, state, draft, chances>>

(* The state is deleted once the connection or the draft is stored.        *)
Forget(r) ==
  /\ Stands(r, "forget")
  /\ state' = [state EXCEPT ![request[r].flow].stage = "gone"]
  /\ Respond(r)
  /\ UNCHANGED <<Quiet, draft, chances>>

-----------------------------------------------------------------------------
(* disconnectAccount: the record is read, then saved without tokens.       *)

BeginDisconnect(r, p, a) ==
  /\ Stands(r, "idle")
  /\ p \in admin
  /\ InUse(a)
  /\ Use("disconnect")
  /\ Become(r, [Resting EXCEPT !.pc = "drop", !.by = p, !.account = a])
  /\ UNCHANGED <<Quiet, state, cookie, draft>>

Dropped(now) == [now EXCEPT !.tokens = FALSE, !.status = "DISCONNECTED"]

SaveDisconnected(r) ==
  /\ Stands(r, "drop")
  /\ accounts' = [accounts EXCEPT ![request[r].account] = Dropped(@)]
  /\ End(r)
  /\ UNCHANGED <<way, admin, exchanged, stored, state, cookie, draft, chances>>

-----------------------------------------------------------------------------
(* withAccount: the account is read, perhaps renewed, and used.  What comes *)
(* of it is saved from that copy, whatever became of the record meanwhile, *)
(* a disconnection too.  The lease of a renewal is left to TokenRefresh.   *)
Using == {"use", "refresh", "call"}

BeginUse(r, a) ==
  /\ Stands(r, "idle")
  /\ accounts[a].status \in {"CONNECTED", "EXPIRED"}
  /\ accounts[a].tokens
  /\ Use("use")
  /\ Become(r, [Resting EXCEPT !.pc = "use", !.account = a, !.found = accounts[a]])
  /\ UNCHANGED <<Quiet, state, cookie, draft>>

(* reloadTokens: tokens that are gone differ from those read, and tokens   *)
(* that are there may be others.                                           *)
ReloadTokens(r) ==
  LET q == request[r]
      now == accounts[q.account] IN
  /\ Stands(r, "use")
  /\ \E others \in {~now.tokens, TRUE} :
       Become(r, [q EXCEPT !.pc = "refresh", !.found = now,
         !.changed = {path \in Paths : IF path = "status" THEN now.status # q.found.status
                                                         ELSE others}])
  /\ UNCHANGED <<Quiet, state, cookie, draft, chances>>

(* A copy's save writes the paths that were reloaded into it as others, and *)
(* the status when it is not the one that was read.                        *)
Updated(q, status, now) ==
  [records |-> now.records,
   status |-> IF "status" \in q.changed \/ status # q.found.status THEN status ELSE now.status,
   tokens |-> IF "tokens" \in q.changed THEN q.found.tokens ELSE now.tokens]
SaveCopy(r, q, status, own) ==
  /\ Store(r, Updated(q, status, accounts[q.account]), own)
  /\ UNCHANGED <<way, admin, exchanged, stored, state, cookie, draft, chances>>

InHand(q) ==
  [q EXCEPT !.pc = "call", !.changed = {},
            !.found = [records |-> q.found.records, status |-> "CONNECTED", tokens |-> TRUE]]

(* refreshTokensLocked: the platform renews the tokens.                    *)
SaveRenewed(r) ==
  LET q == request[r] IN
  /\ Stands(r, "refresh")
  /\ q.found.tokens
  /\ SaveCopy(r, [q EXCEPT !.changed = @ \union {"tokens"}], "CONNECTED", InHand(q))

(* recordFailure, with the status the failure has: the call is refused, the *)
(* renewal too, or there is nothing to renew with.                         *)
SaveRefused(r) ==
  LET q == request[r] IN
  /\ q.pc \in Using
  /\ q.pc = "use" => q.found.status = "CONNECTED"
  /\ \E status \in IF q.found.tokens THEN {"EXPIRED", "REAUTH_REQUIRED", "ERROR"} ELSE {"EXPIRED"} :
       SaveCopy(r, q, status, Resting)

(* A failure that says nothing of the account, or testConnection, saves    *)
(* what was reloaded; after an early renewal that failed the call is made. *)
SaveReloaded(r) ==
  LET q == request[r] IN
  /\ Stands(r, "refresh")
  /\ q.found.tokens
  /\ \E own \in {Resting} \union (IF q.found.status = "CONNECTED" THEN {InHand(q)} ELSE {}) :
       SaveCopy(r, q, q.found.status, own)

(* The call succeeds, or fails so that nothing is saved.                   *)
FinishUse(r) ==
  /\ request[r].pc \in Using
  /\ End(r)
  /\ UNCHANGED <<Quiet, state, cookie, draft, chances>>

-----------------------------------------------------------------------------
(* What happens around the requests.                                       *)

(* The person is suspended, demoted or removed.                            *)
RemoveAdmin(p) ==
  /\ p \in admin
  /\ Use("admin")
  /\ admin' = admin \ {p}
  /\ UNCHANGED <<way, accounts, exchanged, stored, state, cookie, draft, request>>

(* SOCIAL_OAUTH_STATE_TTL_MINUTES pass: the TTL indexes.                   *)
ExpireState(f) ==
  /\ state[f].stage \in {"pending", "consumed"}
  /\ Use("fault")
  /\ state' = [state EXCEPT ![f].stage = "gone"]
  /\ UNCHANGED <<Quiet, cookie, draft, request>>
ExpireDraft(f) ==
  /\ draft[f] # NoDraft
  /\ Use("fault")
  /\ draft' = [draft EXCEPT ![f] = NoDraft]
  /\ UNCHANGED <<Quiet, state, cookie, request>>

(* The server dies: the request's answer never comes.                      *)
Die(r) ==
  /\ ~Stands(r, "idle")
  /\ Use("fault")
  /\ End(r)
  /\ UNCHANGED <<Quiet, state, cookie, draft>>

Working(r) ==
  \/ Claim(r)
  \/ LoadContext(r)
  \/ Ask(r)
  \/ List(r)
  \/ SaveDraft(r)
  \/ Pick(r)
  \/ TakeDraft(r)
  \/ ConnectTarget(r)
  \/ FindAccount(r)
  \/ CountAccounts(r)
  \/ SaveAccount(r)
  \/ Forget(r)
  \/ SaveDisconnected(r)
  \/ ReloadTokens(r)
  \/ SaveRenewed(r)
  \/ SaveRefused(r)
  \/ SaveReloaded(r)
  \/ FinishUse(r)

ConnectingNext ==
  \/ \E r \in Requests : Working(r)
  \/ \E f \in Flows, p \in People : Start(f, p) \/ Abandon(f, p)
  \/ \E r \in Requests, f \in Flows, p \in People : Callback(r, f, p)
  \/ \E r \in Requests, f \in Flows, p \in People, a \in Accounts : Choose(r, f, p, a)
  \/ \E r \in Requests, p \in People, a \in Accounts : BeginDisconnect(r, p, a)
  \/ \E r \in Requests, a \in Accounts : BeginUse(r, a)
  \/ \E p \in People : RemoveAdmin(p)
  \/ \E f \in Flows : ExpireState(f) \/ ExpireDraft(f)
  \/ \E r \in Requests : Die(r)

ConnectingSpec == ConnectingInit /\ [][ConnectingNext]_connectingVars

-----------------------------------------------------------------------------
(* A login's code is exchanged at most once, and only for the browser that *)
(* started it, whatever callbacks are repeated or follow someone's link:   *)
(* claimState and the comparison of the binding.                           *)
CodesAreUsedOnce ==
  \A f \in Flows : exchanged[f] \in {<<>>, <<state[f].by>>}

(* A login stores one account at most, also when callbacks and choices of  *)
(* the same draft overlap: a state and a draft are claimed by one request. *)
LoginsConnectOnce == \A f \in Flows : stored[f] <= 1

(* A person who was no longer an admin when the callback or the choice     *)
(* began connects nothing by it: loadConnectionContext looks again.        *)
OnlyAdminsConnect ==
  [][\A r \in Requests : Stands(r, "save") /\ accounts' # accounts /\ request'[r].pc # "save"
       => request[r].entitled]_connectingVars

(* States, codes and drafts are spent by the first who presents them.      *)
ConnectingHolds == ConnectingTypeOK /\ CodesAreUsedOnce /\ LoginsConnectOnce

(* However connections, disconnections and uses overlap on copies of a     *)
(* record, none leaves the account connected without tokens, unless a use  *)
(* saves what it had reloaded: no tokens, over those of a connection made  *)
(* since, or a status with the tokens it read, since deleted.              *)
Bare(a) == accounts[a].status = "CONNECTED" /\ ~accounts[a].tokens
ReloadedInPart(q) == q.pc \in Using /\ (~q.found.tokens \/ q.changed = {"status"})
ConnectedHasTokens ==
  [][\A a \in Accounts : Bare(a)' =>
       \/ Bare(a)
       \/ \E r \in Requests : ReloadedInPart(request[r]) /\ request'[r] # request[r]]_connectingVars

(* An account that was not in use when it was looked up takes a slot       *)
(* beyond the plan only beside another that took one after this one        *)
(* counted: stored by a login, or, after a disconnection, by a use of the  *)
(* account that had read it before.  Reconnecting a disconnected account   *)
(* takes a slot like a new one.                                            *)
AccountsWithinPlan ==
  [][\A r \in Requests, a \in Accounts :
       Stands(r, "save") /\ request'[r].pc # "save" /\ ~InUse(a) /\ InUse(a)'
         /\ TakesSlot(request[r].found)
         => Used < Limit + request[r].since]_connectingVars

(* Whoever may no longer connect does not, the plan is kept to, and what is *)
(* connected can be used.                                                  *)
ConnectionsAreAllowed == OnlyAdminsConnect /\ AccountsWithinPlan /\ ConnectedHasTokens
=============================================================================
