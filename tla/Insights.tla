------------------------------ MODULE Insights ------------------------------
(***************************************************************************)
(* What the publish workers do on their slow loop: read the metrics of one *)
(* workspace's account and its published posts, then write this week's     *)
(* performance report.  One loop runs at a time in a worker; the workers   *)
(* know nothing of each other.  A reading is "new" until the collection    *)
(* interval has passed over it; the figures themselves are left out.       *)
(***************************************************************************)
EXTENDS AIUsage, FiniteSets

CONSTANTS Workers,    \* the worker processes
          Posts,      \* the posts the account publishes
          Gone,       \* those of them deleted on the platform since
          MinPosts,   \* posts with a reading a report needs to be interpreted
          LastWeek    \* the last week modelled

ASSUME InsightsAssumption ==
  /\ Gone \subseteq Posts
  /\ MinPosts \in Nat /\ LastWeek \in Nat \ {0}

VARIABLES published,  \* the posts whose schedule has a platform id
          account,    \* the status of the connected account
          readings,   \* the newest reading of the account and of each post
          week,       \* the week it is, on the workspace's clock
          reports,    \* the reports stored, as a bag of one kind per week
          announced,  \* the notifications a week's report was announced with
          workers,    \* what each worker is doing
          troubles    \* how many more calls the platform may turn down

insightVars ==
  <<published, account, readings, week, reports, announced, workers, troubles>>

Weeks == 1 .. LastWeek
TheAccount == "account"
Entities == Posts \cup {TheAccount}
Ages == {"none", "new", "old"}
Kinds == {"automatic", "manual"}
Phases == {"idle", "account", "posts", "due", "samples", "asking", "save", "announce"}

Idle == [at |-> "idle", todo |-> {}, week |-> 1]

At(w, phase) == workers[w].at = phase
Become(w, phase) == workers' = [workers EXCEPT ![w].at = phase]

-----------------------------------------------------------------------------
(* Collection                                                              *)

(* Due when no reading at all is younger than the interval.                 *)
Due == \A e \in Entities : readings[e] # "new"

Collect(w) ==
  /\ At(w, "idle")
  /\ Become(w, IF account = "CONNECTED" /\ Due THEN "account" ELSE "due")
  /\ UNCHANGED <<published, account, readings, week, reports, announced,
                 troubles, uses, faults>>

(* One call to the platform for one entity, and the snapshot of the day.    *)
Read(e) ==
  /\ e \notin Gone
  /\ readings' = [readings EXCEPT ![e] = "new"]
  /\ UNCHANGED <<account, troubles>>

(* A failure of this entity alone.                                          *)
Unavailable(e) ==
  /\ \/ e \in Gone /\ UNCHANGED troubles
     \/ troubles > 0 /\ troubles' = troubles - 1
  /\ UNCHANGED <<account, readings>>

(* A failure every call would meet: too many calls, or a token that no      *)
(* longer works, which recordFailure writes on the account.                 *)
Stopping ==
  /\ troubles > 0 /\ troubles' = troubles - 1
  /\ account' \in {account, "REAUTH_REQUIRED"}
  /\ UNCHANGED readings

CollectAccount(w) ==
  /\ At(w, "account")
  /\ \/ /\ Read(TheAccount) \/ Unavailable(TheAccount)
        /\ workers' = [workers EXCEPT ![w].at = "posts", ![w].todo = published]
     \/ Stopping /\ Become(w, "due")
  /\ UNCHANGED <<published, week, reports, announced, uses, faults>>

\* Mutant: the first failure ends the account's turn.
StopAtOnce(todo, p) == {}

(* One unavailable post does not stop the rest.                             *)
AfterUnavailable(todo, p) == todo \ {p}

CollectPost(w) ==
  /\ At(w, "posts")
  /\ \E p \in workers[w].todo :
       \/ /\ Read(p)
          /\ workers' = [workers EXCEPT ![w].todo = @ \ {p}]
       \/ /\ Unavailable(p)
          /\ workers' = [workers EXCEPT ![w].todo = AfterUnavailable(@, p)]
       \/ /\ Stopping
          /\ workers' = [workers EXCEPT ![w].todo = {}]
  /\ UNCHANGED <<published, week, reports, announced, uses, faults>>

Collected(w) ==
  /\ At(w, "posts") /\ workers[w].todo = {}
  /\ Become(w, "due")
  /\ UNCHANGED <<published, account, readings, week, reports, announced,
                 troubles, uses, faults>>

-----------------------------------------------------------------------------
(* The weekly report                                                       *)

Written(kind, wk) == reports[wk][kind] > 0
Store(kind, wk) == reports' = [reports EXCEPT ![wk][kind] = @ + 1]

(* Only an automatic one counts as this week's.                             *)
Exists(wk) == Written("automatic", wk)

HasReadings == \E e \in Entities : readings[e] # "none"

FindReport(w) ==
  /\ At(w, "due")
  /\ workers' = [workers EXCEPT
       ![w] = IF HasReadings /\ ~Exists(week)
                THEN [Idle EXCEPT !.at = "samples", !.week = week]
                ELSE Idle]
  /\ UNCHANGED <<published, account, readings, week, reports, announced,
                 troubles, uses, faults>>

Samples == {p \in published : readings[p] # "none"}
Enough == Cardinality(Samples) >= MinPosts

(* Too few posts: the AI is not asked.  No allowance left: as an answer     *)
(* that never came.                                                         *)
LoadSamples(w) ==
  /\ At(w, "samples")
  /\ Become(w, IF Enough /\ MayGenerate THEN "asking" ELSE "save")
  /\ UNCHANGED <<published, account, readings, week, reports, announced,
                 troubles, uses, faults>>

(* The report is saved whatever the AI makes of it.                         *)
AfterAnswer(answer) == "save"

Interpret(w) ==
  /\ At(w, "asking")
  /\ \E answer \in Answers :
       /\ RecordUsage(answer)
       /\ Become(w, AfterAnswer(answer))
  /\ UNCHANGED <<published, account, readings, week, reports, announced, troubles>>

\* Mutant: the partial index was never built.
NeverDuplicate(wk) == FALSE

(* The partial unique index on automatic reports.                           *)
Duplicate(wk) == Written("automatic", wk)

SaveReport(w) ==
  LET wk == workers[w].week IN
  /\ At(w, "save")
  /\ IF Duplicate(wk)
       THEN UNCHANGED reports /\ workers' = [workers EXCEPT ![w] = Idle]
       ELSE Store("automatic", wk) /\ Become(w, "announce")
  /\ UNCHANGED <<published, account, readings, week, announced, troubles, uses, faults>>

(* Who saved the report tells the admins, once a key.                       *)
Announce(w) ==
  /\ At(w, "announce")
  /\ announced' = [announced EXCEPT ![workers[w].week] = 1]
  /\ workers' = [workers EXCEPT ![w] = Idle]
  /\ UNCHANGED <<published, account, readings, week, reports, troubles, uses, faults>>

-----------------------------------------------------------------------------
(* The world around                                                        *)

Publish(p) ==
  /\ p \notin published
  /\ published' = published \cup {p}
  /\ UNCHANGED <<account, readings, week, reports, announced, workers, troubles,
                 uses, faults>>

Reconnect ==
  /\ account = "REAUTH_REQUIRED"
  /\ account' = "CONNECTED"
  /\ UNCHANGED <<published, readings, week, reports, announced, workers, troubles,
                 uses, faults>>

(* The collection interval passes over every reading.                       *)
IntervalPasses ==
  /\ \E e \in Entities : readings[e] = "new"
  /\ readings' = [e \in Entities |-> IF readings[e] = "new" THEN "old" ELSE readings[e]]
  /\ UNCHANGED <<published, account, week, reports, announced, workers, troubles,
                 uses, faults>>

NextWeek ==
  /\ week + 1 \in Weeks
  /\ week' = week + 1
  /\ UNCHANGED <<published, account, readings, reports, announced, workers, troubles,
                 uses, faults>>

WorkerDies(w) ==
  /\ ~At(w, "idle") /\ faults > 0
  /\ faults' = faults - 1
  /\ workers' = [workers EXCEPT ![w] = Idle]
  /\ UNCHANGED <<published, account, readings, week, reports, announced, troubles, uses>>

Work(w) ==
  \/ Collect(w) \/ CollectAccount(w) \/ CollectPost(w) \/ Collected(w)
  \/ FindReport(w) \/ LoadSamples(w) \/ Interpret(w) \/ SaveReport(w) \/ Announce(w)

Outside ==
  \/ \E p \in Posts : Publish(p)
  \/ Reconnect \/ IntervalPasses \/ NextWeek
  \/ \E w \in DOMAIN workers : WorkerDies(w)
=============================================================================
