--------------------------- MODULE PublishRecords ---------------------------
(***************************************************************************)
(* The records scheduled publishing keeps for ONE post, in MongoDB         *)
(* (Schedule, PublishJob, PublishAttempt, Post.status) and in Redis        *)
(* (BullMQ), and the actors that change them one database call at a time:  *)
(* runs of the publish worker, passes of the recovery sweep, and requests  *)
(* the API serves.  Posts do not interact: every query of the publishing   *)
(* service is by post, schedule or job.                                    *)
(*                                                                         *)
(* schedulePublish is the only caller of createJob, so a schedule has at   *)
(* most one job and job[s], entry[s] are indexed by their schedule.        *)
(***************************************************************************)
EXTENDS Naturals

CONSTANTS
  Schedules,    \* ids MongoDB can give to schedules of the post
  Runs,         \* concurrent executions of publishProcessor
  Sweeps,       \* concurrent executions of recoverPublishing
  Requests,     \* API requests served at a time
  Procs,        \* worker processes
  ProcOf,       \* the process each run and each sweep belongs to
  MaxAttempts,  \* PUBLISH_MAX_ATTEMPTS
  MaxClaims,    \* bound of the model on how often one job is claimed
  Openings,     \* how often each fault and each outside event may happen
  None          \* no owner, no schedule, nothing read

Actors == Runs \cup Sweeps
Owners == {"worker", "recovery"} \X Procs  \* names a job is locked under
Faults == {"crash", "apiCrash", "redelivery", "lostEntry", "storeError",
           "connectionReset"}
Events == {"request", "archive", "pause"}

ASSUME ActorsAssumption ==
  /\ Runs \cap Sweeps = {}
  /\ ProcOf \in [Actors -> Procs]
ASSUME BoundsAssumption ==
  /\ MaxAttempts \in Nat \ {0}
  /\ MaxClaims \in Nat \ {0}
  /\ Openings \subseteq [Faults \cup Events -> Nat]
ASSUME NoneAssumption == None \notin Schedules \cup Runs \cup Owners

VARIABLES
  postStatus,      \* Post.status
  schedule,        \* Schedule documents: status, isLive, needsReview
  job,             \* PublishJob documents: status, attempts and the lock
  attempt,         \* PublishAttempt documents, by job and attempt number
  entry,           \* the BullMQ job of each PublishJob
  actor,           \* where each run and each sweep is
  request,         \* where each API request is
  workspaceActive, \* Workspace.status = ACTIVE
  paused,          \* Autopilot is paused and holds back this post
  posted,          \* history: posts the platform made from each schedule
  budget,          \* faults and outside events still to come
  opening          \* history: the budget there was to begin with

records == <<postStatus, schedule, job, attempt>>
outside == <<workspaceActive, paused, budget, opening>>
vars == <<postStatus, schedule, job, attempt, entry, actor, request,
          workspaceActive, paused, posted, budget, opening>>

-----------------------------------------------------------------------------
(* Types.  lockedAt is abstracted to its age: a fresh lock, or one older    *)
(* than PUBLISH_LOCK_TIMEOUT_MS.                                            *)

PostStatuses == {"READY", "APPROVED", "SCHEDULED", "PUBLISHING", "PUBLISHED", "FAILED"}
ScheduleStatuses == {"NONE", "SCHEDULED", "PROCESSING", "PUBLISHED", "FAILED", "CANCELLED"}
JobStatuses == {"NONE", "QUEUED", "PROCESSING", "SUCCEEDED", "FAILED", "CANCELLED"}
AttemptStatuses == {"NONE", "IN_FLIGHT", "SUCCEEDED", "FAILED"}
EntryStates == {"none", "queued", "active", "finished"}

ScheduleType == [status : ScheduleStatuses, isLive : BOOLEAN, needsReview : BOOLEAN]
JobType == [status : JobStatuses, attempts : 0..MaxClaims,
            lockedBy : Owners \cup {None}, lockedAt : {"null", "fresh", "stale"}]
EntryType == [state : EntryStates, owner : Runs \cup {None}, made : Nat]

(* What classify makes of an error.                                         *)
Errors == {"none", "retryable", "permanent", "unknown"}
(* Why a run gives up: an error, or what stops it before it starts.         *)
Reasons == Errors \cup {"archived", "paused"}
AttemptType == [status : AttemptStatuses, requestSent : BOOLEAN, error : Reasons]
RunSteps ==
  {"readJob", "readSchedule", "dropJob", "readAttempts", "checkWorkspace",
   "checkPause", "stopSchedule", "holdPost", "claimJob", "claimSchedule",
   "releaseJob", "markPublishing", "loadPlan", "connect", "markSent", "call",
   "saveSuccess", "finishJob", "finishSchedule", "finishPost", "hooks",
   "saveFailure", "unclaimSchedule", "requeueJob", "markScheduled", "rethrow",
   "complete"}
SweepSteps ==
  {"sweepSchedule", "sweepCancel", "sweepAttempts", "sweepRequeue",
   "sweepUnclaim", "sweepPost", "dueSchedule", "checkEntry", "readd"}
FailSteps == {"failUnresolved", "failJob", "failSchedule", "failPost"}
RunPcs == {"idle"} \cup RunSteps \cup FailSteps
SweepPcs == {"idle"} \cup SweepSteps \cup FailSteps
ActorType ==
  [pc : RunPcs \cup SweepPcs, s : Schedules \cup {None}, n : 0..MaxClaims,
   why : Reasons, seen : PostStatuses \cup {None}]
RequestSteps ==
  {"idle", "findScheduled", "cancelLive", "checkLive", "cancelJob", "removeEntry",
   "createSchedule", "createJob", "addEntry", "savePost"}
RequestType ==
  [pc : RequestSteps, op : {"none", "schedule", "unschedule", "setReady", "archive"},
   s : Schedules \cup {None}, seen : PostStatuses \cup {None}]

ActorsTyped ==
  /\ actor \in [Actors -> ActorType]
  /\ \A r \in Runs : actor[r].pc \in RunPcs
  /\ \A v \in Sweeps : actor[v].pc \in SweepPcs
  /\ \A a \in Actors : actor[a].pc # "idle" => actor[a].s \in Schedules

TypeOK ==
  /\ postStatus \in PostStatuses
  /\ schedule \in [Schedules -> ScheduleType]
  /\ job \in [Schedules -> JobType]
  /\ attempt \in [Schedules -> [1..MaxClaims -> AttemptType]]
  /\ entry \in [Schedules -> EntryType]
  /\ ActorsTyped
  /\ request \in [Requests -> RequestType]
  /\ workspaceActive \in BOOLEAN
  /\ paused \in BOOLEAN
  /\ posted \in [Schedules -> Nat]
  /\ budget \in [Faults \cup Events -> Nat]

-----------------------------------------------------------------------------
(* Helpers.                                                                 *)

New(step, s) == [pc |-> step, s |-> s, n |-> 0, why |-> "none", seen |-> None]
Idle == New("idle", None)
NoRequest == [pc |-> "idle", op |-> "none", s |-> None, seen |-> None]

Live(s) == schedule[s].isLive
JobOpen(s) == job[s].status \in {"QUEUED", "PROCESSING"}
Unlocked(s) == job[s].lockedAt \in {"null", "stale"}

(* WORKER_ID is host:pid, so every run of a process locks under one name;   *)
(* recovery locks under that name with a prefix.                            *)
LockName(a) == IF a \in Sweeps THEN <<"recovery", ProcOf[a]>> ELSE <<"worker", ProcOf[a]>>
HoldsLock(a) == job[actor[a].s].lockedBy = LockName(a)

(* Attempts that reached the platform and never reported back.              *)
Unresolved(s) ==
  {n \in 1..MaxClaims : attempt[s][n].status = "IN_FLIGHT" /\ attempt[s][n].requestSent}

At(a, step) == actor[a].pc = step
Goto(a, step) == actor' = [actor EXCEPT ![a].pc = step]
Start(a, step, s) == actor' = [actor EXCEPT ![a] = New(step, s)]
Rest(a) == actor' = [actor EXCEPT ![a] = Idle]
(* The processor is about to hand its outcome to BullMQ: nothing else of it *)
(* matters any more.                                                        *)
Finish(a, step) == Start(a, step, actor[a].s)
GiveUp(a, step, why) == actor' = [actor EXCEPT ![a].pc = step, ![a].why = why]
SetSchedule(s, status, isLive) ==
  schedule' = [schedule EXCEPT ![s].status = status, ![s].isLive = isLive]
(* Every update that ends a hold on a job clears the lock with it.          *)
FreeJob(s, status) ==
  job' = [job EXCEPT ![s].status = status, ![s].lockedBy = None, ![s].lockedAt = "null"]
Spend(what) ==
  /\ budget[what] > 0
  /\ budget' = [budget EXCEPT ![what] = @ - 1]
  /\ UNCHANGED opening

-----------------------------------------------------------------------------
(* The post has been written and reviewed; nothing was ever scheduled.      *)

Init ==
  /\ postStatus = "READY"
  /\ schedule = [s \in Schedules |->
                   [status |-> "NONE", isLive |-> FALSE, needsReview |-> FALSE]]
  /\ job = [s \in Schedules |->
              [status |-> "NONE", attempts |-> 0, lockedBy |-> None, lockedAt |-> "null"]]
  /\ attempt = [s \in Schedules |->
                  [n \in 1..MaxClaims |-> [status |-> "NONE", requestSent |-> FALSE, error |-> "none"]]]
  /\ entry = [s \in Schedules |-> [state |-> "none", owner |-> None, made |-> 0]]
  /\ actor = [a \in Actors |-> Idle]
  /\ request = [h \in Requests |-> NoRequest]
  /\ workspaceActive = TRUE
  /\ paused = FALSE
  /\ posted = [s \in Schedules |-> 0]
  /\ opening \in Openings
  /\ budget = opening
=============================================================================
