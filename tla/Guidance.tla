------------------------------ MODULE Guidance ------------------------------
(***************************************************************************)
(* What guides the writing of one workspace: its content strategies and    *)
(* its performance reports, people asking for either and the workers'      *)
(* weekly one, all drawing on one allowance of AI generations.             *)
(***************************************************************************)
EXTENDS Strategies, Insights

CONSTANT Openings     \* the situations a behaviour may start in

vars == <<strategies, requests, published, account, readings, week, reports,
          announced, workers, troubles, uses, faults>>

(* Statuses of the versions stored, the requests that will be made, the     *)
(* workers that run, the troubles and faults that may be met.               *)
Opening(stored, asks, working, maxTroubles, maxFaults) ==
  [stored |-> stored, asks |-> asks, working |-> working,
   troubles |-> maxTroubles, faults |-> maxFaults]

(* Where the service may be: one version is active at most, and one is when *)
(* one ever was and none was taken away; no request has begun, and there is *)
(* somebody to make one.                                                   *)
Whats == {"generate", "regenerate", "update", "delete", "activate", "report"}
Roles == {"EDITOR", "ADMIN"}
Sound(opening) ==
  /\ opening.stored \in Seq(Statuses)
  /\ \A s, t \in DOMAIN opening.stored :
       opening.stored[s] = "ACTIVE" /\ opening.stored[t] = "ACTIVE" => s = t
  /\ (\E s \in DOMAIN opening.stored : opening.stored[s] = "ARCHIVED")
       => \E s \in DOMAIN opening.stored : opening.stored[s] \in {"ACTIVE", "REMOVED"}
  /\ opening.asks \in Seq({Ask(what, role) : what \in Whats, role \in Roles})
  /\ opening.working \subseteq Workers /\ IsFiniteSet(opening.working)
  /\ opening.asks # <<>> \/ opening.working # {}
  /\ opening.troubles \in Nat /\ opening.faults \in Nat
ASSUME GuidanceAssumption ==
  /\ Quota \in Nat /\ MaxAttempts \in Nat
  /\ \A opening \in Openings : Sound(opening)

Init ==
  \E opening \in Openings :
    /\ strategies = [i \in DOMAIN opening.stored |-> Strategy(i, opening.stored[i])]
    /\ requests = opening.asks
    /\ workers = [w \in opening.working |-> Idle]
    /\ troubles = opening.troubles /\ faults = opening.faults
    /\ published = Gone /\ account = "CONNECTED"
    /\ readings = [e \in Entities |-> "none"]
    /\ week = 1 /\ uses = 0
    /\ reports = [wk \in Weeks |-> [kind \in Kinds |-> 0]]
    /\ announced = [wk \in Weeks |-> 0]

(* Someone asks for a report now: as the worker writes it, but any number   *)
(* of them, and nobody is told.                                             *)
AskReport(r) ==
  /\ OneOf(r, {"report"})
  /\ requests' = [requests EXCEPT ![r].week = week,
       ![r].at = IF Enough /\ MayGenerate THEN "asking" ELSE "save"]
  /\ UNCHANGED <<strategies, insightVars, uses, faults>>

ReportAnswered(r) ==
  /\ Is(r, "asking")
  /\ \E answer \in Answers : RecordUsage(answer) /\ Goes(r, AfterAnswer(answer))
  /\ UNCHANGED <<strategies, insightVars>>

SaveAsked(r) ==
  /\ Is(r, "save")
  /\ Store("manual", requests[r].week)
  /\ Ends(r)
  /\ UNCHANGED <<strategies, published, account, readings, week, announced,
                 workers, troubles, uses, faults>>

(* A behaviour without workers is about the strategies alone.               *)
Next ==
  \/ StrategiesStep /\ UNCHANGED insightVars
  \/ \E r \in DOMAIN requests : AskReport(r) \/ ReportAnswered(r) \/ SaveAsked(r)
  \/ (\E w \in DOMAIN workers : Work(w)) /\ UNCHANGED strategyVars
  \/ DOMAIN workers # {} /\ Outside /\ UNCHANGED strategyVars

(* Each worker's timer keeps firing, its calls end, and time passes.        *)
Fairness ==
  /\ \A w \in Workers : WF_vars(w \in DOMAIN workers /\ Work(w) /\ UNCHANGED strategyVars)
  /\ WF_vars(DOMAIN workers # {} /\ IntervalPasses /\ UNCHANGED strategyVars)

Spec == Init /\ [][Next]_vars /\ Fairness

-----------------------------------------------------------------------------
(* Types, and the versions numbered apart: the version is what people see   *)
(* and what a regenerated one says it was based on.                         *)
GuidanceTypeOK ==
  /\ \A s \in Ids : strategies[s] \in
       [version : Nat \ {0}, status : Statuses, revision : Nat]
  /\ \A s, t \in Stored : strategies[s].version = strategies[t].version => s = t
  /\ published \in SUBSET Posts /\ week \in Weeks
  /\ account \in {"CONNECTED", "REAUTH_REQUIRED"}
  /\ readings \in [Entities -> Ages]
  /\ reports \in [Weeks -> [Kinds -> Nat]]
  /\ announced \in [Weeks -> {0, 1}]
  /\ \A w \in DOMAIN workers : workers[w] \in [at : Phases, todo : SUBSET Posts, week : Weeks]
  /\ {uses, faults, troubles} \subseteq Nat

(* At most one strategy drives what AI writes, whatever overlaps (the       *)
(* promise of activateStrategy and of the index it relies on).              *)
OneActive == \A s, t \in Active : s = t

(* Activating never costs the workspace its strategy: once a version was    *)
(* active, one is again when no request is in progress, though the version  *)
(* being activated was deleted under it -- unless a server died half-way or *)
(* somebody deleted a version that was not a draft (restorePrevious).       *)
ActivationsKeepOne ==
  (/\ \A r \in DOMAIN requests : requests[r].at \in {"new", "done", "lost"}
   /\ \E s \in Ids : strategies[s].status = "ARCHIVED"
   /\ \A s \in Ids : strategies[s].status # "REMOVED")
    => Active # {}

(* One strategy, kept: types, OneActive and ActivationsKeepOne together.    *)
StrategyKept == GuidanceTypeOK /\ OneActive /\ ActivationsKeepOne

(* Recorded generations exceed the plan by no more than the requests that   *)
(* looked at the allowance together (assertCanGenerateAI, recordUsage).     *)
AIWithinPlan ==
  uses <= Quota + Cardinality(DOMAIN requests) + Cardinality(DOMAIN workers) - 1

(* One automatic report a week however many workers find it missing, and it *)
(* is announced only when it is there (one_automatic_report_per_week).      *)
OneWeeklyReport ==
  \A wk \in Weeks : reports[wk]["automatic"] <= 1 /\ announced[wk] <= reports[wk]["automatic"]

(* What the allowance and the weekly index bound, however requests overlap. *)
NothingTwice == AIWithinPlan /\ OneWeeklyReport

(* A version that became active after an editor read it as a draft is not   *)
(* edited by them: only an admin's save lands on the active one             *)
(* (updateStrategy's filter on the status it checked).                      *)
EditorsLeaveActiveAlone ==
  [][\A s \in Active : strategies'[s].revision # strategies[s].revision =>
       \E r \in DOMAIN requests :
         Is(r, "update") /\ requests[r].on = s /\ IsAdmin(r) /\ requests'[r].at = "done"]_vars

(* Content that was generated and paid for is stored: three generations     *)
(* that end together all get a version number (MAX_VERSION_ATTEMPTS).       *)
GeneratedIsStored == [][\A r \in DOMAIN requests : requests'[r].at # "lost"]_vars

(* Work is neither thrown away nor forced on a strategy in use.             *)
WorkIsKept == EditorsLeaveActiveAlone /\ GeneratedIsStored

(* Every published post that can still be read is read again once its       *)
(* reading is old or missing, whatever fails beside it, unless the account  *)
(* waits for its owner (collectDueAnalytics).                               *)
PostsAreRead ==
  \A p \in Posts \ Gone :
    (p \in published /\ readings[p] # "new" /\ DOMAIN workers # {})
      ~> (readings[p] = "new" \/ account # "CONNECTED")

(* Each week gets its automatic report while it lasts, with or without an   *)
(* answer from the AI and whatever people asked for themselves: a missed or *)
(* broken run is made up for by a later one (generateDueReports).           *)
WeeksGetTheirReport ==
  \A wk \in Weeks :
    (week = wk /\ HasReadings /\ DOMAIN workers # {}) ~> (Exists(wk) \/ week # wk)

(* The sweep and the weekly run each get round to everything.               *)
WorkersKeepUp == PostsAreRead /\ WeeksGetTheirReport
=============================================================================
