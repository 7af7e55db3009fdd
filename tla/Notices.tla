------------------------------- MODULE Notices -------------------------------
(***************************************************************************)
(* One person's notifications: stored once per cause, pushed over Redis to *)
(* the API server, from there into the event streams of the browser tabs   *)
(* they have open, and shown in each tab's bell, which also fetches the    *)
(* list.  Redis, the streams and the fetches lose things; the list in the  *)
(* database does not.  One workspace, fewer notifications than a page, and *)
(* an API server whose streams close when the connection does.             *)
(***************************************************************************)
EXTENDS Integers, SequencesExt

CONSTANTS Causes,       \* what a notification can be about (its dedupeKey)
          MaxStreams    \* the streams a person may have open

VARIABLES docs,         \* the stored notifications, in the order created
          pushing,      \* those not yet published on Redis
          listening,    \* is the server subscribed to the channel?
          streams,      \* the tabs with an open stream, the oldest first
          tabs,         \* what each tab shows and is doing
          signedIn,     \* is the person's login still good?
          left          \* what may still happen: reports, marks, mishaps

noticeVars == <<docs, pushing, listening, streams, tabs, signedIn, left>>

Docs == DOMAIN docs
Unread == {d \in Docs : ~docs[d].read}
Tabs == DOMAIN tabs

(* What comes down a stream is the number of a notification, or one of:     *)
Ready == 0
Revoked == -1
End == -2

NoList == [items |-> <<>>, read |-> {}, unread |-> 0]
(* A tab just opened: no stream yet, the first fetch under way.  "answer"   *)
(* is on its way to the tab, "marked" and "count" are a mark's and its      *)
(* answer's.                                                                *)
NewTab ==
  [at |-> "waiting", pipe |-> <<>>, loaded |-> FALSE, list |-> NoList,
   fetch |-> "asked", answer |-> NoList, mark |-> "none", marked |-> {}, count |-> 0]
SignedOut == [NewTab EXCEPT !.at = "out", !.fetch = "none"]

(* The list as the server would answer now: newest first, and the count.    *)
List ==
  [items |-> [i \in Docs |-> Len(docs) + 1 - i], read |-> Docs \ Unread,
   unread |-> Cardinality(Unread)]

Spend(what) == left[what] > 0 /\ left' = [left EXCEPT ![what] = @ - 1]

-----------------------------------------------------------------------------
(* Storing and pushing                                                     *)

(* The unique index on user and dedupeKey.                                  *)
IsNew(cause) == \A d \in Docs : docs[d].cause # cause

(* Something happened, or a retried job or a second worker says so again.   *)
Notify(cause) ==
  IF IsNew(cause)
    THEN /\ docs' = Append(docs, [cause |-> cause, read |-> FALSE])
         /\ pushing' = pushing \cup {Len(docs) + 1}
    ELSE UNCHANGED <<docs, pushing>>

Happens(cause) ==
  /\ Spend("reports")
  /\ Notify(cause)
  /\ UNCHANGED <<listening, streams, tabs, signedIn>>

Into(pipes, e) ==
  [t \in Tabs |-> IF t \in pipes THEN [tabs[t] EXCEPT !.pipe = Append(@, e)] ELSE tabs[t]]

(* What is published while the server is not subscribed is lost, and so is  *)
(* what Redis did not take.                                                 *)
Push(d) ==
  /\ d \in pushing
  /\ pushing' = pushing \ {d}
  /\ tabs' = IF listening THEN Into(ToSet(streams), d) ELSE tabs
  /\ UNCHANGED <<docs, listening, streams, signedIn, left>>

RedisDrops ==
  /\ listening /\ Spend("mishaps")
  /\ listening' = FALSE
  /\ UNCHANGED <<docs, pushing, streams, tabs, signedIn>>

Resubscribe ==
  /\ ~listening
  /\ listening' = TRUE
  /\ UNCHANGED <<docs, pushing, streams, tabs, signedIn, left>>

-----------------------------------------------------------------------------
(* Streams                                                                 *)

Without(t) == SelectSeq(streams, LAMBDA s : s # t)

(* The refresh fails, and the tab signs out.                                *)
AfterRefusal == SignedOut

Refused(t) ==
  /\ streams' = Without(t)
  /\ tabs' = [tabs EXCEPT ![t] = AfterRefusal]

(* "ready" is written before the stream is registered, in one go; past the  *)
(* limit the oldest of the streams is ended.                                *)
Connect(t) ==
  /\ tabs[t].at = "waiting"
  /\ IF ~signedIn
       THEN Refused(t)
       ELSE LET full == Len(streams) >= MaxStreams
                ended == IF full THEN {Head(streams)} ELSE {}
            IN  /\ streams' = Append(IF full THEN Tail(streams) ELSE streams, t)
                /\ tabs' = [Into(ended, End) EXCEPT ![t].at = "open", ![t].pipe = <<Ready>>]
  /\ UNCHANGED <<docs, pushing, listening, signedIn, left>>

(* Both sides let go; what was on its way is gone.                          *)
Drop(t) ==
  /\ streams' = Without(t)
  /\ tabs' = [tabs EXCEPT ![t].at = "waiting", ![t].pipe = <<>>]

StreamLost(t) ==
  /\ tabs[t].at \in {"open", "live"} /\ Spend("mishaps")
  /\ Drop(t)
  /\ UNCHANGED <<docs, pushing, listening, signedIn>>

\* Mutant: a stream stays open for as long as the connection does.
NoLifetime == FALSE

(* Every stream is ended after an hour.                                     *)
Lifetime == TRUE

Expire(t) ==
  /\ Lifetime /\ t \in ToSet(streams)
  /\ streams' = Without(t)
  /\ tabs' = Into({t}, End)
  /\ UNCHANGED <<docs, pushing, listening, signedIn, left>>

(* The heartbeat looks at the account again.                                *)
Heartbeat(t) ==
  /\ t \in ToSet(streams) /\ ~signedIn
  /\ streams' = Without(t)
  /\ tabs' = [tabs EXCEPT ![t].pipe = @ \o <<Revoked, End>>]
  /\ UNCHANGED <<docs, pushing, listening, signedIn, left>>

Revoke ==
  /\ signedIn /\ Spend("revocations")
  /\ signedIn' = FALSE
  /\ UNCHANGED <<docs, pushing, listening, streams, tabs>>

-----------------------------------------------------------------------------
(* What a tab does with its stream                                         *)

\* Mutant: an item is added whether the list has it or not.
NeverKnown(page, d) == FALSE

Known(page, d) == d \in ToSet(page.list.items)

(* addToLists: nothing to add to before the first list has arrived.         *)
Added(page, d) ==
  IF ~page.loaded \/ Known(page, d)
    THEN page
    ELSE [page EXCEPT !.list.items = <<d>> \o @, !.list.unread = @ + 1]

(* A fetch asked for again starts anew and drops the first one's answer,    *)
(* but the very first fetch of a tab goes on, older than the stream or not. *)
Asked(page) ==
  IF page.loaded \/ page.fetch = "none"
    THEN [page EXCEPT !.fetch = "asked", !.answer = NoList]
    ELSE page

Handled(page, e) ==
  CASE e = Ready   -> Asked([page EXCEPT !.at = "live"])
    [] e = Revoked -> SignedOut
    [] e = End     -> [page EXCEPT !.at = "waiting"]
    [] OTHER       -> Added(page, e)

ReadStream(t) ==
  /\ tabs[t].pipe # <<>>
  /\ tabs' = [tabs EXCEPT ![t] = Handled([@ EXCEPT !.pipe = Tail(@)], Head(tabs[t].pipe))]
  /\ UNCHANGED <<docs, pushing, listening, streams, signedIn, left>>

-----------------------------------------------------------------------------
(* Fetching the list                                                       *)

(* While the stream is down the list is polled.                             *)
Poll(t) ==
  /\ tabs[t].at \in {"waiting", "open"} /\ tabs[t].fetch = "none"
  /\ tabs' = [tabs EXCEPT ![t] = Asked(@)]
  /\ UNCHANGED <<docs, pushing, listening, streams, signedIn, left>>

ListRead(t) ==
  /\ tabs[t].fetch = "asked" /\ signedIn
  /\ tabs' = [tabs EXCEPT ![t].fetch = "answered", ![t].answer = List]
  /\ UNCHANGED <<docs, pushing, listening, streams, signedIn, left>>

(* The list as it was read replaces what is shown, whatever was added since.*)
ListArrives(t) ==
  /\ tabs[t].fetch = "answered"
  /\ tabs' = [tabs EXCEPT ![t].fetch = "none", ![t].loaded = TRUE,
                ![t].list = tabs[t].answer, ![t].answer = NoList]
  /\ UNCHANGED <<docs, pushing, listening, streams, signedIn, left>>

FetchFails(t) ==
  /\ tabs[t].fetch # "none" /\ Spend("mishaps")
  /\ tabs' = [tabs EXCEPT ![t].fetch = "none", ![t].answer = NoList]
  /\ UNCHANGED <<docs, pushing, listening, streams, signedIn>>

-----------------------------------------------------------------------------
(* Marking as read                                                         *)

(* The badge may lag behind the list, so it stops at none.                  *)
TakenOff(unread, newlyRead) == IF unread > newlyRead THEN unread - newlyRead ELSE 0

(* Shown at once, and a fetch under way is given up.                        *)
Mark(t, ids, mark) ==
  /\ tabs[t].loaded /\ tabs[t].mark = "none" /\ Spend("marks")
  /\ tabs' = [tabs EXCEPT ![t].fetch = "none", ![t].answer = NoList,
       ![t].list.read = @ \cup ids,
       ![t].list.unread = TakenOff(@, Cardinality(ids \ tabs[t].list.read)),
       ![t].mark = mark, ![t].marked = ids]
  /\ UNCHANGED <<docs, pushing, listening, streams, signedIn>>

(* One unread item is marked by opening it, all items by a button that is   *)
(* there while the badge is.                                                *)
MarkOne(t) ==
  \E d \in ToSet(tabs[t].list.items) \ tabs[t].list.read : Mark(t, {d}, "one")
MarkAll(t) == tabs[t].list.unread > 0 /\ Mark(t, ToSet(tabs[t].list.items), "all")

(* All means all that is stored by now, shown in this tab or not.           *)
MarkStored(t) ==
  LET ids == IF tabs[t].mark = "all" THEN Docs ELSE tabs[t].marked IN
  /\ tabs[t].mark \in {"one", "all"} /\ signedIn
  /\ docs' = [d \in Docs |-> [docs[d] EXCEPT !.read = @ \/ d \in ids]]
  /\ tabs' = [tabs EXCEPT ![t].mark = "answered", ![t].marked = {},
                ![t].count = Cardinality(Unread \ ids)]
  /\ UNCHANGED <<pushing, listening, streams, signedIn, left>>

(* The server's count settles the badge.                                    *)
MarkAnswered(t) ==
  /\ tabs[t].mark = "answered"
  /\ tabs' = [tabs EXCEPT ![t].mark = "none", ![t].list.unread = tabs[t].count,
                ![t].count = 0]
  /\ UNCHANGED <<docs, pushing, listening, streams, signedIn, left>>

MarkFails(t) ==
  /\ tabs[t].mark # "none" /\ Spend("mishaps")
  /\ tabs' = [tabs EXCEPT ![t] =
       Asked([@ EXCEPT !.mark = "none", !.marked = {}, !.count = 0])]
  /\ UNCHANGED <<docs, pushing, listening, streams, signedIn>>

(* A request of a login that has ended.                                     *)
RequestRefused(t) ==
  /\ ~signedIn /\ (tabs[t].fetch = "asked" \/ tabs[t].mark \in {"one", "all"})
  /\ Refused(t)
  /\ UNCHANGED <<docs, pushing, listening, signedIn, left>>

-----------------------------------------------------------------------------
(* What the servers and the tab do of themselves.                           *)
Proceeds(t) ==
  \/ Connect(t) \/ ReadStream(t) \/ Heartbeat(t)
  \/ Poll(t) \/ ListRead(t) \/ ListArrives(t)
  \/ MarkStored(t) \/ MarkAnswered(t) \/ RequestRefused(t)

Mishap(t) == StreamLost(t) \/ FetchFails(t) \/ MarkFails(t)

NoticesStep ==
  \/ \E d \in Docs : Push(d)
  \/ RedisDrops \/ Resubscribe \/ Revoke
  \/ \E t \in Tabs : Proceeds(t) \/ Expire(t) \/ MarkOne(t) \/ MarkAll(t) \/ Mishap(t)

-----------------------------------------------------------------------------
(* Types, and the limits: no badge below none, no more streams than a       *)
(* person may have, each of a tab of its own that has not let go of it.     *)
NoticesTypeOK ==
  /\ \A d \in Docs : docs[d] \in [cause : Causes, read : BOOLEAN]
  /\ pushing \subseteq Docs
  /\ Len(streams) <= MaxStreams /\ IsInjective(streams)
  /\ \A t \in ToSet(streams) : tabs[t].at \in {"open", "live"}
  /\ \A t \in Tabs :
       /\ tabs[t].at \in {"waiting", "open", "live", "out"}
       /\ tabs[t].list.unread \in Nat /\ tabs[t].count \in Nat
  /\ listening \in BOOLEAN /\ signedIn \in BOOLEAN
=============================================================================
