------------------------------- MODULE Browser -------------------------------
(***************************************************************************)
(* A person's browser.  Its tabs share one cookie, the refresh token, and   *)
(* each holds an access token in memory.  A request that comes back 401     *)
(* waits for a refresh and is sent again; a tab refreshes once for all who  *)
(* wait, and tabs refresh one after another.  Requests and answers travel:  *)
(* the server acts on a request in one step here (module Sessions takes     *)
(* that step apart), and answers arrive in any order, each with its cookie. *)
(***************************************************************************)
EXTENDS Naturals, Sequences, FiniteSets

CONSTANTS
  Tabs,     \* the browser's tabs
  Openings  \* what a behaviour begins with

(* An opening gives the tabs that show the application already (the others  *)
(* are about to load it), what people may ask for, and how often they ask,  *)
(* pages poll with a good access token, tokens expire, answers get lost,    *)
(* pages are reloaded and another device signs out.                         *)
Kinds == {"get", "login", "logout", "logoutAll", "change"}
Chances == {"asks", "polls", "expiries", "losses", "reloads", "elsewhere"}
ASSUME BrowserAssumption ==
  \A o \in Openings : /\ o.shown \subseteq Tabs /\ o.asks \subseteq Kinds
                      /\ o.left \in [Chances -> Nat]

VARIABLES
  version,  \* the account's tokenVersion
  tokens,   \* its refresh tokens, in the order of their issue
  jar,      \* the refresh token in the browser's cookie
  queue,    \* the tabs that hold or wait for the lock, the holder first
  tabs,     \* each tab
  strays,   \* requests on their way that no tab waits for any more
  asks,     \* what people may ask for
  left,     \* chances still to come
  \* history, read by the properties only
  ended,    \* somebody ended a login, or began one
  lost,     \* an answer was lost
  changed   \* a tab was told that the password was changed

browserVars ==
  <<version, tokens, jar, queue, tabs, strays, asks, left, ended, lost, changed>>

None == 0
Keep == [cookie |-> "keep", token |-> None]
Clear == [cookie |-> "clear", token |-> None]
Set(k) == [cookie |-> "set", token |-> k]

Tokens == DOMAIN tokens
Token(login) == [login |-> login, status |-> "live", next |-> None]
Over(login) == \E k \in Tokens : tokens[k].login = login /\ tokens[k].status \in {"ended", "reused"}
Logins == {tokens[k].login : k \in Tokens}
NewLogin == Cardinality(Logins) + 1

(* A request: the access token and the cookie it was sent with; and what    *)
(* its answer says: does it succeed, the access token it brings, the cookie.*)
NoAnswer == [ok |-> FALSE, access |-> None, sets |-> Keep]
NoCall == [kind |-> "none", stage |-> "none", access |-> None, good |-> FALSE, token |-> None,
           again |-> FALSE, answer |-> NoAnswer]
Away(call) == call.stage \in {"sent", "answered"}

(* What a tab shows, its access token, its notification stream (the version *)
(* it was opened with), the request it makes, its refresh and who waits.    *)
NewTab == [shown |-> "loading", access |-> None, expired |-> FALSE, stream |-> None,
           call |-> NoCall, refresh |-> NoCall, streamWaits |-> FALSE]
Waiting(tab) == tab.shown = "loading" \/ tab.call.stage = "waits" \/ tab.streamWaits

BrowserInit ==
  \E o \in Openings :
    /\ version = 1 /\ tokens = <<Token(1)>> /\ jar = 1
    /\ tabs = [t \in Tabs |-> IF t \in o.shown
                              THEN [NewTab EXCEPT !.shown = "in", !.access = 1, !.stream = 1]
                              ELSE [NewTab EXCEPT !.shown = "closed"]]
    /\ queue = <<>> /\ strays = {}
    /\ asks = o.asks /\ left = o.left
    /\ ended = FALSE /\ lost = FALSE /\ changed = FALSE

Spend(what) == left[what] > 0 /\ left' = [left EXCEPT ![what] = @ - 1]
Put(t, tab) == tabs' = [tabs EXCEPT ![t] = tab]

-----------------------------------------------------------------------------
(* The server.                                                             *)

(* revokeTokenFamily, revokeAllUserRefreshTokens: what is still live.       *)
Ended(these, status) ==
  [k \in Tokens |-> IF k \in these /\ tokens[k].status = "live"
                    THEN [tokens[k] EXCEPT !.status = status] ELSE tokens[k]]
Family(k) == {j \in Tokens : tokens[j].login = tokens[k].login}

(* rotateRefreshToken: a live token is exchanged; one that was exchanged a  *)
(* moment ago is so again, and its successor retired, unless the login is   *)
(* over; any other token that was exchanged closes the login.               *)
Exchanges(k) ==
  k # None /\ \/ tokens[k].status = "live"
              \/ tokens[k].status = "rotated" /\ ~Over(tokens[k].login)
Exchanged(k) ==
  LET new == Len(tokens) + 1
      old == IF tokens[k].status = "live" THEN k ELSE tokens[k].next
  IN  Append([j \in Tokens |->
                IF j = old /\ tokens[j].status = "live"
                THEN [tokens[j] EXCEPT !.status = "rotated", !.next = new] ELSE tokens[j]],
             Token(tokens[k].login))
Refused(k) ==
  IF k # None /\ tokens[k].status \in {"rotated", "late", "reused"}
  THEN Ended(Family(k), "reused") ELSE tokens

(* authenticate.                                                            *)
Accepted(q) == q.good /\ q.access = version

(* What the server does with a request, and what it answers.                *)
Acts(q) ==
  CASE q.kind = "refresh" -> tokens' = IF Exchanges(q.token) THEN Exchanged(q.token)
                                                             ELSE Refused(q.token)
    [] q.kind = "login" -> tokens' = Append(tokens, Token(NewLogin))
    [] q.kind = "logout" /\ q.token # None -> tokens' = Ended(Family(q.token), "ended")
    [] q.kind = "logoutAll" /\ Accepted(q) -> tokens' = Ended(Tokens, "ended")
    [] q.kind = "change" /\ Accepted(q) -> tokens' = Append(Ended(Tokens, "ended"), Token(NewLogin))
    [] OTHER -> UNCHANGED tokens
Bumps(q) == q.kind \in {"logoutAll", "change"} /\ Accepted(q)
Answered(q) ==
  LET new == Len(tokens) + 1 IN
  CASE q.kind = "refresh" -> IF Exchanges(q.token)
                             THEN [ok |-> TRUE, access |-> version, sets |-> Set(new)]
                             ELSE [NoAnswer EXCEPT !.sets = Clear]
    [] q.kind = "login" -> [ok |-> TRUE, access |-> version, sets |-> Set(new)]
    [] q.kind = "logout" -> [NoAnswer EXCEPT !.ok = TRUE, !.sets = Clear]
    [] q.kind = "logoutAll" /\ Accepted(q) -> [NoAnswer EXCEPT !.ok = TRUE, !.sets = Clear]
    [] q.kind = "change" /\ Accepted(q) -> [ok |-> TRUE, access |-> version + 1, sets |-> Set(new)]
    [] OTHER -> [NoAnswer EXCEPT !.ok = Accepted(q)]

Handle(q) ==
  /\ Acts(q)
  /\ version' = IF Bumps(q) THEN version + 1 ELSE version
  /\ ended' = (ended \/ q.kind \in {"login", "logout"} \/ Bumps(q))

ServeCall(t) ==
  /\ tabs[t].call.stage = "sent"
  /\ Handle(tabs[t].call)
  /\ Put(t, [tabs[t] EXCEPT !.call.stage = "answered", !.call.answer = Answered(tabs[t].call)])
  /\ UNCHANGED <<jar, queue, strays, asks, left, lost, changed>>

ServeRefresh(t) ==
  /\ tabs[t].refresh.stage = "sent"
  /\ Handle(tabs[t].refresh)
  /\ Put(t, [tabs[t] EXCEPT !.refresh.stage = "answered",
                            !.refresh.answer = Answered(tabs[t].refresh)])
  /\ UNCHANGED <<jar, queue, strays, asks, left, lost, changed>>

ServeStray(q) ==
  /\ q \in strays
  /\ Handle(q)
  /\ strays' = strays \ {q}
  /\ UNCHANGED <<jar, queue, tabs, asks, left, lost, changed>>

(* The tokens the browser has, or is about to be given; the ones that were  *)
(* sent to the server.                                                      *)
Coming == {tabs[t].call.answer.sets.token : t \in Tabs}
            \union {tabs[t].refresh.answer.sets.token : t \in Tabs}
Held == ({jar} \union Coming) \ {None}
Presented == {tabs[t].call.token : t \in Tabs} \union {tabs[t].refresh.token : t \in Tabs}
               \union {q.token : q \in strays}

(* REFRESH_TOKEN_REUSE_GRACE_SECONDS have passed since the exchange: of no  *)
(* account once nobody has the token.                                       *)
GraceEnds(k) ==
  /\ k \in Held \union Presented /\ k # None /\ tokens[k].status = "rotated"
  /\ tokens' = [tokens EXCEPT ![k].status = "late"]
  /\ UNCHANGED <<version, jar, queue, tabs, strays, asks, left, ended, lost, changed>>

(* Another device logs out everywhere.                                      *)
Elsewhere ==
  /\ Spend("elsewhere")
  /\ version' = version + 1 /\ tokens' = Ended(Tokens, "ended") /\ ended' = TRUE
  /\ UNCHANGED <<jar, queue, tabs, strays, asks, lost, changed>>

-----------------------------------------------------------------------------
(* Refreshing                                                              *)

InQueue(t) == \E i \in DOMAIN queue : queue[i] = t

\* Mutant: tabs refresh whenever they like.
Unlocked(t) == InQueue(t)

(* navigator.locks: the first in the queue holds the lock.                  *)
HoldsLock(t) == queue # <<>> /\ Head(queue) = t

(* refreshInFlight: who needs a refresh while there is one waits for it.    *)
JoinRefresh(t) == queue' = IF InQueue(t) THEN queue ELSE Append(queue, t)
LeaveQueue(t) == queue' = SelectSeq(queue, LAMBDA u : u # t)

SendRefresh(t) ==
  /\ HoldsLock(t) /\ tabs[t].refresh.stage = "none"
  /\ Put(t, [tabs[t] EXCEPT !.refresh =
               [NoCall EXCEPT !.kind = "refresh", !.stage = "sent", !.token = jar]])
  /\ UNCHANGED <<version, tokens, jar, queue, strays, asks, left, ended, lost, changed>>

Stored(sets) == IF sets.cookie = "keep" THEN jar ELSE sets.token

(* endSession, and what signing out unmounts.                               *)
SignedOut(tab) == [tab EXCEPT !.shown = "out", !.access = None, !.expired = FALSE,
                              !.stream = None, !.streamWaits = FALSE]

\* Mutant: the tab is left as it was.
Undisturbed(tab) == [tab EXCEPT !.call = NoCall, !.streamWaits = FALSE]

(* A refresh that fails ends the session of whoever waited for it.          *)
AfterRefusal(tab) ==
  [(IF Waiting(tab) THEN SignedOut(tab) ELSE tab) EXCEPT
     !.call = IF tab.call.stage = "waits" THEN NoCall ELSE @]

(* With the new access token, requests that waited are sent again.          *)
AfterRefresh(tab, access) ==
  [tab EXCEPT !.access = access, !.expired = FALSE, !.streamWaits = FALSE,
     !.shown = IF @ = "loading" THEN "in" ELSE @,
     !.call = IF @.stage = "waits"
              THEN [@ EXCEPT !.stage = "sent", !.access = access, !.good = TRUE] ELSE @]

RefreshArrives(t) ==
  LET answer == tabs[t].refresh.answer
      tab == [tabs[t] EXCEPT !.refresh = NoCall]
  IN
  /\ tabs[t].refresh.stage = "answered"
  /\ jar' = Stored(answer.sets)
  /\ Put(t, IF answer.ok THEN AfterRefresh(tab, answer.access) ELSE AfterRefusal(tab))
  /\ LeaveQueue(t)
  /\ UNCHANGED <<version, tokens, strays, asks, left, ended, lost, changed>>

Stray(q) == IF q.stage = "sent" /\ q.kind # "get" THEN strays \union {q} ELSE strays

(* The request times out.  A page that was loading says so and offers to    *)
(* try again; any other signs out.                                          *)
RefreshLost(t) ==
  LET tab == [tabs[t] EXCEPT !.refresh = NoCall] IN
  /\ Away(tabs[t].refresh) /\ Spend("losses")
  /\ strays' = Stray(tabs[t].refresh)
  /\ Put(t, IF tab.shown = "loading" THEN [tab EXCEPT !.shown = "error"] ELSE AfterRefusal(tab))
  /\ LeaveQueue(t)
  /\ lost' = TRUE
  /\ UNCHANGED <<version, tokens, jar, asks, ended, changed>>

-----------------------------------------------------------------------------
(* What tabs do                                                            *)

(* A tab is opened, or tries again: the session comes from the cookie.      *)
Load(t) ==
  /\ tabs[t].shown \in {"closed", "error"}
  /\ Put(t, [tabs[t] EXCEPT !.shown = "loading"])
  /\ JoinRefresh(t)
  /\ UNCHANGED <<version, tokens, jar, strays, asks, left, ended, lost, changed>>

(* Nobody waits for what the page had asked for; its lock is let go.        *)
Reload(t) ==
  LET tab == tabs[t] IN
  /\ tab.shown \notin {"closed"} /\ Spend("reloads")
  /\ strays' = {q \in {tab.call, tab.refresh} : q.stage = "sent" /\ q.kind # "get"} \union strays
  /\ lost' = (lost \/ Away(tab.call) \/ Away(tab.refresh))
  /\ Put(t, [NewTab EXCEPT !.shown = "closed"])
  /\ LeaveQueue(t)
  /\ UNCHANGED <<version, tokens, jar, asks, ended, changed>>

(* The browser can still refresh.                                           *)
Good == \E k \in Held : Exchanges(k)

(* An access token lasts 15 minutes.  The bound: while the browser can      *)
(* refresh they expire only so often.                                       *)
Expire(t) ==
  /\ tabs[t].access # None /\ ~tabs[t].expired
  /\ IF Good THEN Spend("expiries") ELSE UNCHANGED left
  /\ Put(t, [tabs[t] EXCEPT !.expired = TRUE])
  /\ UNCHANGED <<version, tokens, jar, queue, strays, asks, ended, lost, changed>>

(* Pages poll, and people ask; who is signed out can only sign in.  The     *)
(* bound: a poll whose access token is good is made only so often.          *)
Send(t, kind) ==
  LET tab == tabs[t] IN
  /\ tab.call.stage = "none"
  /\ tab.shown = IF kind = "login" THEN "out" ELSE "in"
  /\ CASE kind # "get" -> kind \in asks /\ Spend("asks")
       [] tab.expired -> UNCHANGED left
       [] OTHER -> Spend("polls")
  /\ Put(t, [tab EXCEPT !.call = [NoCall EXCEPT !.kind = kind, !.stage = "sent",
               !.access = tab.access, !.good = ~tab.expired,
               !.token = IF kind = "logout" THEN jar ELSE None]])
  /\ UNCHANGED <<version, tokens, jar, queue, strays, asks, ended, lost, changed>>

(* The interceptor: a 401 is answered by one refresh and one more try,      *)
(* unless the tab has signed out meanwhile.                                 *)
CanRefresh(tab) ==
  ~tab.call.answer.ok /\ tab.call.kind \notin {"login", "logout"} /\ ~tab.call.again
    /\ tab.access # None

(* applySession and clearSession.                                           *)
Settled(tab) ==
  LET done == [tab EXCEPT !.call = NoCall] IN
  CASE tab.call.kind = "logout" -> SignedOut(done)
    [] tab.call.kind = "logoutAll" /\ tab.call.answer.ok -> SignedOut(done)
    [] tab.call.kind \in {"login", "change"} /\ tab.call.answer.ok ->
         [done EXCEPT !.shown = "in", !.access = tab.call.answer.access, !.expired = FALSE]
    [] OTHER -> done

CallArrives(t) ==
  LET tab == tabs[t] IN
  /\ tab.call.stage = "answered"
  /\ jar' = Stored(tab.call.answer.sets)
  /\ IF CanRefresh(tab)
     THEN /\ Put(t, [tab EXCEPT !.call.stage = "waits", !.call.again = TRUE,
                                !.call.answer = NoAnswer])
          /\ JoinRefresh(t)
     ELSE Put(t, Settled(tab)) /\ UNCHANGED queue
  /\ changed' = (changed \/ (tab.call.kind = "change" /\ tab.call.answer.ok))
  /\ UNCHANGED <<version, tokens, strays, asks, left, ended, lost>>

CallLost(t) ==
  LET tab == tabs[t] IN
  /\ Away(tab.call) /\ Spend("losses")
  /\ strays' = Stray(tab.call)
  /\ Put(t, Settled([tab EXCEPT !.call.answer = NoAnswer]))
  /\ lost' = TRUE
  /\ UNCHANGED <<version, tokens, jar, queue, asks, ended, changed>>

(* The notification stream: opened with the access token, which may need    *)
(* refreshing, and told by a heartbeat that its login has ended.            *)
Connect(t) ==
  LET tab == tabs[t] IN
  /\ tab.shown = "in" /\ tab.stream = None /\ ~tab.streamWaits
  /\ IF tab.access = version /\ ~tab.expired
     THEN Put(t, [tab EXCEPT !.stream = version]) /\ UNCHANGED queue
     ELSE Put(t, [tab EXCEPT !.streamWaits = TRUE]) /\ JoinRefresh(t)
  /\ UNCHANGED <<version, tokens, jar, strays, asks, left, ended, lost, changed>>

Heartbeat(t) ==
  /\ tabs[t].stream \notin {None, version}
  /\ Put(t, [tabs[t] EXCEPT !.stream = None, !.streamWaits = TRUE])
  /\ JoinRefresh(t)
  /\ UNCHANGED <<version, tokens, jar, strays, asks, left, ended, lost, changed>>

-----------------------------------------------------------------------------

Goes(t) ==
  \/ ServeCall(t) \/ ServeRefresh(t) \/ SendRefresh(t) \/ RefreshArrives(t) \/ CallArrives(t)
  \/ Connect(t) \/ Heartbeat(t)

BrowserNext ==
  \/ \E t \in Tabs : Goes(t) \/ Load(t) \/ RefreshLost(t) \/ CallLost(t) \/ Reload(t) \/ Expire(t)
  \/ \E t \in Tabs, kind \in Kinds : Send(t, kind)
  \/ \E q \in strays : ServeStray(q)
  \/ \E k \in Tokens : GraceEnds(k)
  \/ Elsewhere

(* Requests are answered, answers arrive, locks are handed on; access       *)
(* tokens expire and pages poll.                                            *)
BrowserFairness ==
  \A t \in Tabs : /\ WF_browserVars(Goes(t))
                  /\ WF_browserVars(Expire(t))
                  /\ WF_browserVars(Send(t, "get"))

BrowserSpec == BrowserInit /\ [][BrowserNext]_browserVars /\ BrowserFairness

-----------------------------------------------------------------------------
BrowserTypeOK ==
  /\ version \in Nat \ {0}
  /\ \A k \in Tokens :
       /\ tokens[k].status \in {"live", "rotated", "late", "ended", "reused"}
       /\ tokens[k].next \in Tokens \union {None}
  /\ jar \in Tokens \union {None}
  /\ \A i, j \in DOMAIN queue : queue[i] = queue[j] => i = j
  /\ \A t \in Tabs :
       /\ tabs[t].shown \in {"closed", "loading", "error", "in", "out"}
       /\ tabs[t].shown = "in" => tabs[t].access # None
       /\ Waiting(tabs[t]) => InQueue(t)

(* No tab presents a refresh token that was exchanged before, as the server *)
(* takes that for theft and closes the login, as long as no answer is lost: *)
(* calls share one refresh in a tab, and tabs take turns (refreshSession).  *)
NothingIsReplayed == ~lost => \A k \in Tokens : tokens[k].status # "reused"

(* However many tabs' access tokens expire together, nobody is signed out   *)
(* while their login is good.                                               *)
ExpiryCostsNothing == ~lost /\ ~ended => \A t \in Tabs : tabs[t].shown \notin {"out", "error"}

TabsShareTheLogin == BrowserTypeOK /\ NothingIsReplayed /\ ExpiryCostsNothing

(* Every tab that loads comes to show something, no request waits for ever  *)
(* for a refresh, and once the browser has no good token left, every tab    *)
(* ends up signed out, whoever ended the login and where.                   *)
TabsSettle ==
  /\ \A t \in Tabs : tabs[t].shown = "loading" ~> tabs[t].shown # "loading"
  /\ \A t \in Tabs : InQueue(t) ~> ~InQueue(t)
  /\ <>[](~Good) => \A t \in Tabs : <>[](tabs[t].shown # "in")

Quiet ==
  /\ queue = <<>> /\ strays = {}
  /\ \A t \in Tabs : tabs[t].call.stage = "none"

(* "The API revokes other sessions and returns a fresh one for this         *)
(* device." (useChangePassword.ts): who is told that the password was       *)
(* changed still has a session when all is quiet.                           *)
FreshSessionForThisDevice == changed /\ Quiet => Good
=============================================================================
