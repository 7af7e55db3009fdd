------------------------------ MODULE Outcomes ------------------------------
(***************************************************************************)
(* What becomes of a post, and how its author hears of it: the worker's    *)
(* calls to the platform (Platforms), the notification that tells of the   *)
(* verdict, and the tabs that show it (Notices), among other notifications.*)
(* Here no worker dies between the verdict and the notification.           *)
(***************************************************************************)
EXTENDS Platforms, Notices

CONSTANTS AllTabs,    \* the browser tabs that may be open
          Openings    \* the situations a behaviour may start in

VARIABLE told         \* has runPublishJob told of the verdict?

outcomeVars == <<content, valid, publisher, posts, videos, noticeVars, told>>

(* The posts that may be scheduled, the tabs that are open, what may happen. *)
Opening(contents, open, may) == [contents |-> contents, open |-> open, may |-> may]

OutcomesInit ==
  /\ Init /\ told = FALSE
  /\ \E opening \in Openings :
       /\ <<content, valid>> \in opening.contents
       /\ tabs = [t \in opening.open |-> NewTab] /\ left = opening.may
  /\ docs = <<>> /\ pushing = {} /\ streams = <<>>
  /\ listening = TRUE /\ signedIn = TRUE

Keys == {"published", "failed"}
ASSUME KeysAssumption == Keys \subseteq Causes

(* postPublished and postFailed; a publish to be reviewed goes as a failure.*)
Key(v) == IF v = "published" THEN "published" ELSE "failed"

Tell ==
  /\ verdict # "open" /\ ~told
  /\ told' = TRUE
  /\ Notify(Key(verdict))
  /\ UNCHANGED <<vars, listening, streams, tabs, signedIn, left>>

Publishing == Next /\ UNCHANGED <<noticeVars, told>>

(* Accounts, members, payments and Autopilot have something to tell as well.*)
Others == \E cause \in Causes \ Keys : Happens(cause)
Elsewhere == (Others \/ NoticesStep) /\ UNCHANGED <<vars, told>>

OutcomesNext == Publishing \/ Tell \/ Elsewhere

(* Of a tab: it reconnects, reads its stream and gets its answers, and no   *)
(* stream lasts beyond its hour.  A fetch is started anew by every new      *)
(* stream, so it needs more: between two connections there is time enough   *)
(* for an answer again and again.                                           *)
Alone(A) == A /\ UNCHANGED <<vars, told>>
TabGoesOn(t) ==
  /\ WF_outcomeVars(Alone(t \in Tabs /\ Connect(t)))
  /\ WF_outcomeVars(Alone(t \in Tabs /\ ReadStream(t)))
  /\ WF_outcomeVars(Alone(t \in Tabs /\ Expire(t)))
  /\ WF_outcomeVars(Alone(t \in Tabs /\ (Heartbeat(t) \/ RequestRefused(t))))
  /\ WF_outcomeVars(Alone(t \in Tabs /\ (MarkStored(t) \/ MarkAnswered(t))))
  /\ WF_outcomeVars(Alone(t \in Tabs /\ ListRead(t)))
  /\ SF_outcomeVars(Alone(t \in Tabs /\ ListArrives(t)))

(* Every request ends, with an answer or at its timeout; Redis and the      *)
(* server's subscription to it come back.                                   *)
Fairness ==
  /\ WF_outcomeVars(Publisher /\ UNCHANGED <<noticeVars, told>>)
  /\ WF_outcomeVars(Tell)
  /\ WF_outcomeVars(Alone(\E d \in Docs : Push(d)))
  /\ WF_outcomeVars(Alone(Resubscribe))
  /\ \A t \in AllTabs : TabGoesOn(t)

OutcomesSpec == OutcomesInit /\ [][OutcomesNext]_outcomeVars /\ Fairness

-----------------------------------------------------------------------------
(* One notification a cause, however often a retried job, a webhook or a    *)
(* second worker reports it (dedupeKey and the index on it).                *)
NotifiedOnce == \A d, e \in Docs : docs[d].cause = docs[e].cause => d = e

(* A notification that both the stream and a fetch bring is shown once, and *)
(* nothing is shown that is not stored (addToLists).                        *)
ShownOnce ==
  \A t \in Tabs : IsInjective(tabs[t].list.items) /\ ToSet(tabs[t].list.items) \subseteq Docs

(* Nobody reads "is live" of a post that is not on the platform, and        *)
(* "couldn't publish" only of one that is not there, or that they are asked *)
(* to look for: through retries, doubt, TikTok's delay and what a tab keeps.*)
NobodyIsMisled ==
  \A t \in Tabs : \A d \in ToSet(tabs[t].list.items) :
    /\ docs[d].cause = "published" => posts > 0
    /\ docs[d].cause = "failed" => posts = 0 \/ verdict = "review"

(* What people are told is told once and is so.                             *)
NoticesHold == TypeOK /\ NoticesTypeOK /\ NotifiedOnce /\ ShownOnce /\ NobodyIsMisled

(* Every tab ends up showing what is stored, and the badge its count: what  *)
(* Redis, a dropped stream, a fetch overtaken by an event or a mark, or a   *)
(* count overtaken by a notification got wrong is put right by the next     *)
(* connection, which the server forces every hour (useNotificationStream).  *)
(* A login that has ended is gone from every tab, whatever the tab was      *)
(* doing (the heartbeat's "revoked", and a refusal when it connects).       *)
TabsCatchUp ==
  \A t \in AllTabs :
    /\ <>[](t \in Tabs => tabs[t].at = "out" \/ tabs[t].list = List)
    /\ ~signedIn ~> (t \in Tabs => tabs[t].at = "out")

(* The attempt, and every tab that is told of it, come to an end.           *)
OutcomesSettle == CallsEnd /\ TabsCatchUp
=============================================================================
