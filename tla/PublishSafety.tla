---------------------------- MODULE PublishSafety ----------------------------
(***************************************************************************)
(* Scheduled publishing sends one post at a time and never blindly again:  *)
(* proofs for any number of schedules, runs, sweeps, requests, processes   *)
(* and faults.                                                             *)
(***************************************************************************)
EXTENDS PublishInvariant, TLAPS

-----------------------------------------------------------------------------
(* What the helpers do to the types.                                        *)

(* Taking up a schedule, as Deliver, TakeAbandoned and FindDue do.          *)
LEMMA StartTyped ==
  ASSUME ActorsTyped, NEW a \in Actors, NEW s \in Schedules, NEW step,
         a \in Runs => step \in RunPcs, a \in Sweeps => step \in SweepPcs,
         Start(a, step, s)
  PROVE  ActorsTyped'
<1>1. step \in RunPcs \cup SweepPcs
  BY DEF Actors
<1>2. "none" \in Reasons /\ 0 \in 0..MaxClaims
  BY BoundsAssumption, SMT DEF Reasons, Errors
<1>3. New(step, s) \in ActorType
  BY <1>1, <1>2, Zenon DEF ActorType, New
<1>4. New(step, s).pc = step /\ New(step, s).s = s
  BY DEF New
<1> QED
  BY <1>3, <1>4, ActorsAssumption, SMT DEF ActorsTyped, Actors, Start

(* A run that has its outcome is still a run of its schedule.               *)
LEMMA FinishTyped ==
  ASSUME ActorsTyped, NEW r \in Runs, actor[r].pc # "idle", NEW step \in RunPcs,
         Finish(r, step)
  PROVE  ActorsTyped'
  BY StartTyped, ActorsAssumption, Zenon DEF Finish, ActorsTyped, Actors

(* An idle actor has its type.                                              *)
LEMMA IdleTyped == Idle \in ActorType /\ Idle.pc = "idle"
<1>1. "none" \in Reasons /\ 0 \in 0..MaxClaims
  BY BoundsAssumption, SMT DEF Reasons, Errors
<1> QED
  BY <1>1, Zenon DEF Idle, New, ActorType, RunPcs

(* Going idle, as runs and sweeps do at the end.                            *)
LEMMA RestTyped ==
  ASSUME ActorsTyped, NEW a \in Actors, Rest(a)
  PROVE  ActorsTyped'
  BY IdleTyped, ActorsAssumption, SMT DEF ActorsTyped, Actors, Rest, RunPcs, SweepPcs

(* Leaving the failure path, for a run and for a sweep.                     *)
LEMMA LeaveTyped ==
  ASSUME ActorsTyped, NEW a \in Actors, actor[a].pc # "idle", Leave(a)
  PROVE  ActorsTyped'
<1>1. "complete" \in RunPcs
  BY DEF RunPcs, RunSteps
<1> QED
  BY <1>1, FinishTyped, RestTyped, Zenon DEF Leave, Actors

(* Moving on to a step that actors of this kind take.                       *)
LEMMA GotoTyped ==
  ASSUME ActorsTyped, NEW a \in Actors, actor[a].pc # "idle", NEW step,
         a \in Runs => step \in RunPcs, a \in Sweeps => step \in SweepPcs,
         Goto(a, step)
  PROVE  ActorsTyped'
<1>1. step \in RunPcs \cup SweepPcs
  BY DEF Actors
<1>2. actor' \in [Actors -> ActorType]
  BY <1>1, Zenon DEF ActorsTyped, Goto, ActorType
<1> QED
  BY <1>2, SMT DEF ActorsTyped, Goto, ActorType, Actors

(* Moving on to the failure path with a reason.                             *)
LEMMA GiveUpTyped ==
  ASSUME ActorsTyped, NEW a \in Actors, actor[a].pc # "idle", NEW step,
         a \in Runs => step \in RunPcs, a \in Sweeps => step \in SweepPcs,
         NEW why \in Reasons, GiveUp(a, step, why)
  PROVE  ActorsTyped'
<1>1. step \in RunPcs \cup SweepPcs
  BY DEF Actors
<1>2. actor' \in [Actors -> ActorType]
  BY <1>1, Zenon DEF ActorsTyped, GiveUp, ActorType
<1> QED
  BY <1>2, SMT DEF ActorsTyped, GiveUp, ActorType, Actors

(* Updating a schedule's status and whether it is live.                     *)
LEMMA SetScheduleTyped ==
  ASSUME schedule \in [Schedules -> ScheduleType], NEW s, NEW status \in ScheduleStatuses,
         SetSchedule(s, status, TRUE) \/ SetSchedule(s, status, FALSE)
  PROVE  schedule' \in [Schedules -> ScheduleType]
  BY Zenon DEF SetSchedule, ScheduleType

(* Closing a schedule as PUBLISHED or FAILED.                               *)
LEMMA CloseScheduleTyped ==
  ASSUME schedule \in [Schedules -> ScheduleType], NEW s, NEW status \in ScheduleStatuses,
         NEW review \in BOOLEAN,
         schedule' = [schedule EXCEPT ![s] =
                        [status |-> status, isLive |-> FALSE, needsReview |-> review]]
  PROVE  schedule' \in [Schedules -> ScheduleType]
  BY Zenon DEF ScheduleType

(* Ending the hold on a job.                                                *)
LEMMA FreeJobTyped ==
  ASSUME job \in [Schedules -> JobType], NEW s, NEW status \in JobStatuses, FreeJob(s, status)
  PROVE  job' \in [Schedules -> JobType]
  BY Zenon DEF FreeJob, JobType

(* Closing an attempt as FAILED, as finishAttempt does.                     *)
LEMMA CloseAttemptTyped ==
  ASSUME attempt \in [Schedules -> [1..MaxClaims -> AttemptType]], ActorsTyped,
         NEW a \in Actors, actor[a].pc # "idle", CloseAttempt(a)
  PROVE  attempt' \in [Schedules -> [1..MaxClaims -> AttemptType]]
<1> DEFINE s == actor[a].s
           n == actor[a].n
           old == attempt[s]
           new == [old EXCEPT ![n].status = "FAILED", ![n].error = actor[a].why]
<1>1. "FAILED" \in AttemptStatuses
  BY DEF AttemptStatuses
<1>2. s \in Schedules
  BY DEF ActorsTyped
<1>3. actor[a].why \in Reasons
  BY SMT DEF ActorsTyped, ActorType
<1>4. old \in [1..MaxClaims -> AttemptType]
  BY <1>2
<1>5. new \in [1..MaxClaims -> AttemptType]
  BY <1>1, <1>3, <1>4, Zenon DEF AttemptType
<1>6. attempt' = [attempt EXCEPT ![s] = new]
  BY Zenon DEF CloseAttempt
<1> QED
  BY <1>5, <1>6, Zenon

(* Creating an attempt, answering it, or marking it sent.                   *)
LEMMA SetAttemptTyped ==
  ASSUME attempt \in [Schedules -> [1..MaxClaims -> AttemptType]], NEW s \in Schedules, NEW n,
         \/ \E new \in AttemptType : attempt' = [attempt EXCEPT ![s][n] = new]
         \/ \E status \in AttemptStatuses : attempt' = [attempt EXCEPT ![s][n].status = status]
         \/ attempt' = [attempt EXCEPT ![s][n].requestSent = TRUE]
  PROVE  attempt' \in [Schedules -> [1..MaxClaims -> AttemptType]]
<1> DEFINE old == attempt[s]
<1>1. old \in [1..MaxClaims -> AttemptType]
  OBVIOUS
<1>2. CASE \E new \in AttemptType : attempt' = [attempt EXCEPT ![s][n] = new]
  <2>1. PICK new \in AttemptType : attempt' = [attempt EXCEPT ![s][n] = new]
    BY <1>2
  <2>2. [old EXCEPT ![n] = new] \in [1..MaxClaims -> AttemptType]
    BY <1>1, Zenon
  <2>3. attempt' = [attempt EXCEPT ![s] = [old EXCEPT ![n] = new]]
    BY <2>1, Zenon
  <2> QED
    BY <2>2, <2>3, Zenon
<1>3. CASE \E status \in AttemptStatuses : attempt' = [attempt EXCEPT ![s][n].status = status]
  <2>1. PICK status \in AttemptStatuses : attempt' = [attempt EXCEPT ![s][n].status = status]
    BY <1>3
  <2>2. [old EXCEPT ![n].status = status] \in [1..MaxClaims -> AttemptType]
    BY <1>1, Zenon DEF AttemptType
  <2>3. attempt' = [attempt EXCEPT ![s] = [old EXCEPT ![n].status = status]]
    BY <2>1, Zenon
  <2> QED
    BY <2>2, <2>3, Zenon
<1>4. CASE attempt' = [attempt EXCEPT ![s][n].requestSent = TRUE]
  <2>1. [old EXCEPT ![n].requestSent = TRUE] \in [1..MaxClaims -> AttemptType]
    BY <1>1, Zenon DEF AttemptType
  <2>2. attempt' = [attempt EXCEPT ![s] = [old EXCEPT ![n].requestSent = TRUE]]
    BY <1>4, Zenon
  <2> QED
    BY <2>1, <2>2, Zenon
<1> QED
  BY <1>2, <1>3, <1>4

(* Turning to an unanswered attempt, as runs and sweeps do.                 *)
LEMMA TakeUpTyped ==
  ASSUME ActorsTyped, NEW a \in Actors, actor[a].pc # "idle", NEW step,
         a \in Runs => step \in RunPcs, a \in Sweeps => step \in SweepPcs,
         NEW n \in 0..MaxClaims, NEW why \in Reasons,
         actor' = [actor EXCEPT ![a].pc = step, ![a].n = n, ![a].why = why]
  PROVE  ActorsTyped'
<1>1. step \in RunPcs \cup SweepPcs
  BY DEF Actors
<1>2. actor' \in [Actors -> ActorType]
  BY <1>1, ZenonT(60) DEF ActorsTyped, ActorType
<1> QED
  BY <1>2, SMT DEF ActorsTyped, ActorType, Actors

(* Remembering the post before it is held back for the pause.               *)
LEMMA HoldTyped ==
  ASSUME ActorsTyped, NEW r \in Runs, actor[r].pc # "idle", NEW step \in RunPcs,
         NEW why \in Reasons, NEW seen \in PostStatuses,
         actor' = [actor EXCEPT ![r].pc = step, ![r].why = why, ![r].seen = seen]
  PROVE  ActorsTyped'
<1>1. step \in RunPcs \cup SweepPcs /\ seen \in PostStatuses \cup {None}
  OBVIOUS
<1>2. actor' \in [Actors -> ActorType]
  BY <1>1, ZenonT(60) DEF ActorsTyped, ActorType
<1> QED
  BY <1>1, <1>2, ActorsAssumption, SMT DEF ActorsTyped, ActorType, Actors

(* Winning the claim with a new attempt number.                             *)
LEMMA ClaimTyped ==
  ASSUME ActorsTyped, NEW r \in Runs, actor[r].pc # "idle", NEW n \in 0..MaxClaims,
         actor' = [actor EXCEPT ![r].pc = "claimSchedule", ![r].n = n]
  PROVE  ActorsTyped'
<1>1. "claimSchedule" \in RunPcs
  BY DEF RunPcs, RunSteps
<1>2. actor' \in [Actors -> ActorType]
  BY <1>1, ZenonT(60) DEF ActorsTyped, ActorType
<1> QED
  BY <1>1, <1>2, ActorsAssumption, SMT DEF ActorsTyped, ActorType, Actors

(* Replacing a BullMQ entry.                                                *)
LEMMA SetEntryTyped ==
  ASSUME entry \in [Schedules -> EntryType], NEW s, NEW state \in EntryStates,
         entry' = [entry EXCEPT ![s] = [state |-> state, owner |-> None, made |-> 0]]
  PROVE  entry' \in [Schedules -> EntryType]
<1>1. 0 \in Nat
  OBVIOUS
<1> QED
  BY <1>1, Zenon DEF EntryType

(* Updating the status of a job alone.                                      *)
LEMMA MarkJobTyped ==
  ASSUME job \in [Schedules -> JobType], NEW s, NEW status \in JobStatuses,
         job' = [job EXCEPT ![s].status = status]
  PROVE  job' \in [Schedules -> JobType]
  BY Zenon DEF JobType

(* Moving a request on.                                                     *)
LEMMA StepTyped ==
  ASSUME request \in [Requests -> RequestType], NEW h, NEW step \in RequestSteps, Step(h, step)
  PROVE  request' \in [Requests -> RequestType]
  BY Zenon DEF Step, RequestType

(* Ending a request.                                                        *)
LEMMA DoneTyped ==
  ASSUME request \in [Requests -> RequestType], NEW h, Done(h)
  PROVE  request' \in [Requests -> RequestType]
<1>1. NoRequest \in RequestType
  BY Zenon DEF NoRequest, RequestType, RequestSteps
<1> QED
  BY <1>1, Zenon DEF Done

(* A request turns to one schedule.                                         *)
LEMMA AimTyped ==
  ASSUME request \in [Requests -> RequestType], NEW h, NEW step \in RequestSteps,
         NEW s \in Schedules,
         request' = [request EXCEPT ![h].pc = step, ![h].s = s]
  PROVE  request' \in [Requests -> RequestType]
  BY ZenonT(60) DEF RequestType

(* A request remembers the post it read.                                    *)
LEMMA SeenTyped ==
  ASSUME request \in [Requests -> RequestType], NEW h, NEW step \in RequestSteps,
         NEW seen \in PostStatuses,
         request' = [request EXCEPT ![h].pc = step, ![h].seen = seen]
  PROVE  request' \in [Requests -> RequestType]
  BY ZenonT(60) DEF RequestType

(* BullMQ moves an entry and changes its owner.                             *)
LEMMA MoveEntryTyped ==
  ASSUME entry \in [Schedules -> EntryType], NEW s, NEW state \in EntryStates,
         NEW owner \in Runs \cup {None},
         entry' = [entry EXCEPT ![s].state = state, ![s].owner = owner]
  PROVE  entry' \in [Schedules -> EntryType]
  BY Zenon DEF EntryType

(* Spending from the budget of the model.                                   *)
LEMMA SpendTyped ==
  ASSUME budget \in [Faults \cup Events -> Nat], NEW what \in Faults \cup Events, Spend(what)
  PROVE  budget' \in [Faults \cup Events -> Nat]
  BY SMT DEF Spend

-----------------------------------------------------------------------------
(* Every step keeps the types.                                              *)

(* runPublishJob keeps the types.                                           *)
LEMMA TypeRun ==
  ASSUME TypeOK, NEW r \in Runs, RunStep(r)
  PROVE  TypeOK'
<1> USE ActorsAssumption, BoundsAssumption DEF TypeOK, Actors, At, records, outside
<1> r \in Actors /\ ~(r \in Sweeps)
  OBVIOUS
<1>1. CASE ReadJob(r)
  BY <1>1, GotoTyped, FinishTyped
  DEF ReadJob, RunPcs, RunSteps, FailSteps
<1>2. CASE ReadSchedule(r)
  BY <1>2, GotoTyped
  DEF ReadSchedule, RunPcs, RunSteps, FailSteps
<1>3. CASE DropJob(r)
  BY <1>3, GotoTyped, FinishTyped, FreeJobTyped
  DEF DropJob, RunPcs, RunSteps, FailSteps, JobStatuses
<1>4. CASE ReadAttempts(r)
  <2>1. /\ "failUnresolved" \in RunPcs /\ "checkWorkspace" \in RunPcs
        /\ "unknown" \in Reasons /\ Unresolved(actor[r].s) \subseteq 0..MaxClaims
    BY DEF RunPcs, RunSteps, FailSteps, Reasons, Errors, Unresolved
  <2>2. ActorsTyped'
    BY <1>4, <2>1, TakeUpTyped, GotoTyped, Zenon DEF ReadAttempts
  <2> QED
    BY <1>4, <2>2 DEF ReadAttempts
<1>5. CASE CheckWorkspace(r)
  BY <1>5, GotoTyped, GiveUpTyped
  DEF CheckWorkspace, RunPcs, RunSteps, FailSteps, Reasons
<1>6. CASE CheckPause(r)
  <2>1. CASE paused
    BY <1>6, <2>1, HoldTyped, Zenon DEF CheckPause, RunPcs, RunSteps, Reasons
  <2>2. CASE ~paused
    BY <1>6, <2>2, GotoTyped DEF CheckPause, RunPcs, RunSteps
  <2> QED
    BY <2>1, <2>2
<1>7. CASE StopSchedule(r)
  <2>1. ActorsTyped'
    BY <1>7, GotoTyped DEF StopSchedule, RunPcs, RunSteps
  <2>2. schedule' \in [Schedules -> ScheduleType]
    BY <1>7, SetScheduleTyped, Zenon DEF StopSchedule, ScheduleStatuses
  <2> QED
    BY <1>7, <2>1, <2>2 DEF StopSchedule
<1>8. CASE HoldPost(r)
  BY <1>8, FinishTyped
  DEF HoldPost, RunPcs, RunSteps, FailSteps, PostStatuses
<1>9. CASE ClaimJob(r)
  <2>1. CASE Claimable(actor[r].s) /\ job[actor[r].s].attempts + 1 <= MaxClaims
    <3> DEFINE s == actor[r].s
               n == job[s].attempts + 1
               new == [status |-> "PROCESSING", attempts |-> n,
                       lockedBy |-> LockName(r), lockedAt |-> "fresh"]
    <3>1. s \in Schedules
      BY <1>9 DEF ClaimJob, ActorsTyped
    <3>2. n \in 0..MaxClaims
      BY <2>1, <3>1, SMT DEF JobType
    <3>3. LockName(r) \in Owners
      BY SMT DEF LockName, Owners
    <3>4. new \in JobType
      BY <3>2, <3>3, Zenon DEF JobType, JobStatuses
    <3>5. /\ job' = [job EXCEPT ![s] = new]
          /\ actor' = [actor EXCEPT ![r].pc = "claimSchedule", ![r].n = n]
      BY <1>9, <2>1, Zenon DEF ClaimJob
    <3> HIDE DEF n, new
    <3>6. ActorsTyped'
      BY <1>9, <3>2, <3>5, ClaimTyped DEF ClaimJob
    <3>7. job' \in [Schedules -> JobType]
      BY <3>4, <3>5
    <3> QED
      BY <1>9, <3>6, <3>7 DEF ClaimJob
  <2>2. CASE ~Claimable(actor[r].s)
    BY <1>9, <2>2, FinishTyped DEF ClaimJob, RunPcs, RunSteps
  <2> QED
    BY <1>9, <2>1, <2>2 DEF ClaimJob
<1>10. CASE ClaimSchedule(r)
  <2>1. ActorsTyped'
    BY <1>10, GotoTyped DEF ClaimSchedule, RunPcs, RunSteps
  <2>2. schedule' \in [Schedules -> ScheduleType]
    BY <1>10, SetScheduleTyped, Zenon DEF ClaimSchedule, ScheduleStatuses
  <2> QED
    BY <1>10, <2>1, <2>2 DEF ClaimSchedule
<1>11. CASE ReleaseJob(r)
  BY <1>11, FinishTyped, FreeJobTyped
  DEF ReleaseJob, RunPcs, RunSteps, FailSteps, JobStatuses
<1>12. CASE MarkPublishing(r)
  BY <1>12, GotoTyped
  DEF MarkPublishing, RunPcs, RunSteps, FailSteps, PostStatuses
<1>13. CASE LoadPlan(r)
  <2>1. ActorsTyped'
    BY <1>13, GotoTyped, GiveUpTyped DEF LoadPlan, RunPcs, RunSteps, FailSteps, Reasons, Errors
  <2>2. [status |-> "IN_FLIGHT", requestSent |-> FALSE, error |-> "none"] \in AttemptType
    BY Zenon DEF AttemptType, AttemptStatuses, Reasons, Errors
  <2>3. actor[r].s \in Schedules
    BY <1>13 DEF LoadPlan, ActorsTyped
  <2>4. attempt' \in [Schedules -> [1..MaxClaims -> AttemptType]]
    BY <1>13, <2>2, <2>3, SetAttemptTyped, Zenon DEF LoadPlan
  <2> QED
    BY <1>13, <2>1, <2>4 DEF LoadPlan
<1>14. CASE Connect(r)
  BY <1>14, GotoTyped, GiveUpTyped
  DEF Connect, RunPcs, RunSteps, FailSteps, Reasons, Errors
<1>15. CASE MarkSent(r)
  <2>1. ActorsTyped'
    BY <1>15, GotoTyped DEF MarkSent, RunPcs, RunSteps
  <2>2. actor[r].s \in Schedules
    BY <1>15 DEF MarkSent, ActorsTyped
  <2>3. attempt' \in [Schedules -> [1..MaxClaims -> AttemptType]]
    BY <1>15, <2>2, SetAttemptTyped, Zenon DEF MarkSent
  <2> QED
    BY <1>15, <2>1, <2>3 DEF MarkSent
<1>16. CASE Call(r)
  <2>1. ActorsTyped'
    BY <1>16, GotoTyped, GiveUpTyped DEF Call, RunPcs, RunSteps, FailSteps, Reasons, Errors
  <2>2. posted' \in [Schedules -> Nat]
    BY <1>16 DEF Call, ActorsTyped
  <2> QED
    BY <1>16, <2>1, <2>2 DEF Call
<1>17. CASE SaveSuccess(r)
  <2>1. ActorsTyped'
    BY <1>17, GotoTyped DEF SaveSuccess, RunPcs, RunSteps
  <2>2. actor[r].s \in Schedules
    BY <1>17 DEF SaveSuccess, ActorsTyped
  <2>3. attempt' \in [Schedules -> [1..MaxClaims -> AttemptType]]
    BY <1>17, <2>2, SetAttemptTyped, Zenon DEF SaveSuccess, AttemptStatuses
  <2> QED
    BY <1>17, <2>1, <2>3 DEF SaveSuccess
<1>18. CASE FinishJob(r)
  <2>1. ActorsTyped'
    BY <1>18, GotoTyped DEF FinishJob, RunPcs, RunSteps
  <2>2. job' \in [Schedules -> JobType]
    BY <1>18, FreeJobTyped, Zenon DEF FinishJob, JobStatuses
  <2> QED
    BY <1>18, <2>1, <2>2 DEF FinishJob
<1>19. CASE FinishSchedule(r)
  <2>1. ActorsTyped'
    BY <1>19, GotoTyped DEF FinishSchedule, RunPcs, RunSteps
  <2>2. schedule' \in [Schedules -> ScheduleType]
    BY <1>19, CloseScheduleTyped, Zenon DEF FinishSchedule, ScheduleStatuses
  <2> QED
    BY <1>19, <2>1, <2>2 DEF FinishSchedule
<1>20. CASE FinishPost(r)
  BY <1>20, GotoTyped
  DEF FinishPost, RunPcs, RunSteps, FailSteps, PostStatuses
<1>21. CASE Hooks(r)
  BY <1>21, FinishTyped
  DEF Hooks, RunPcs, RunSteps, FailSteps
<1>22. CASE SaveFailure(r)
  BY <1>22, GotoTyped, CloseAttemptTyped
  DEF SaveFailure, RunPcs, RunSteps, FailSteps
<1>23. CASE UnclaimSchedule(r)
  <2>1. ActorsTyped'
    BY <1>23, GotoTyped DEF UnclaimSchedule, RunPcs, RunSteps
  <2>2. schedule' \in [Schedules -> ScheduleType]
    BY <1>23, SetScheduleTyped, Zenon DEF UnclaimSchedule, ScheduleStatuses
  <2> QED
    BY <1>23, <2>1, <2>2 DEF UnclaimSchedule
<1>24. CASE RequeueJob(r)
  BY <1>24, GotoTyped, FreeJobTyped
  DEF RequeueJob, RunPcs, RunSteps, FailSteps, JobStatuses
<1>25. CASE MarkScheduled(r)
  BY <1>25, FinishTyped
  DEF MarkScheduled, RunPcs, RunSteps, FailSteps, PostStatuses
<1> QED
  BY <1>1, <1>2, <1>3, <1>4, <1>5, <1>6, <1>7, <1>8, <1>9, <1>10, <1>11, <1>12,
     <1>13, <1>14, <1>15, <1>16, <1>17, <1>18, <1>19, <1>20, <1>21, <1>22, <1>23, <1>24, <1>25
  DEF RunStep

(* The failure path keeps the types.                                        *)
LEMMA TypeFail ==
  ASSUME TypeOK, NEW a \in Actors, FailStep(a)
  PROVE  TypeOK'
<1> USE ActorsAssumption, BoundsAssumption DEF TypeOK, At, records, outside
<1>1. CASE FailUnresolved(a)
  BY <1>1, GotoTyped, CloseAttemptTyped
  DEF FailUnresolved, RunPcs, SweepPcs, FailSteps
<1>2. CASE FailJob(a)
  <2>1. ActorsTyped'
    BY <1>2, GotoTyped, LeaveTyped DEF FailJob, RunPcs, SweepPcs, FailSteps
  <2>2. job' \in [Schedules -> JobType]
    BY <1>2, FreeJobTyped, Zenon DEF FailJob, JobStatuses
  <2> QED
    BY <1>2, <2>1, <2>2 DEF FailJob
<1>3. CASE FailSchedule(a)
  <2>1. ActorsTyped'
    BY <1>3, GotoTyped, LeaveTyped DEF FailSchedule, RunPcs, SweepPcs, FailSteps
  <2>2. NeedsReview(a) \in BOOLEAN /\ "FAILED" \in ScheduleStatuses
    BY DEF NeedsReview, ScheduleStatuses
  <2>3. schedule' \in [Schedules -> ScheduleType]
    BY <1>3, <2>2, CloseScheduleTyped, Zenon DEF FailSchedule
  <2> QED
    BY <1>3, <2>1, <2>3 DEF FailSchedule
<1>4. CASE FailPost(a)
  BY <1>4, LeaveTyped
  DEF FailPost, PostStatuses
<1> QED
  BY <1>1, <1>2, <1>3, <1>4 DEF FailStep

(* recoverPublishing keeps the types.                                       *)
LEMMA TypeSweep ==
  ASSUME TypeOK, NEW v \in Sweeps, SweepStep(v)
  PROVE  TypeOK'
<1> USE ActorsAssumption, BoundsAssumption DEF TypeOK, At, records, outside
<1> v \in Actors /\ ~(v \in Runs)
  BY DEF Actors
<1>1. CASE SweepSchedule(v)
  BY <1>1, GotoTyped
  DEF SweepSchedule, SweepPcs, SweepSteps, FailSteps
<1>2. CASE SweepCancel(v)
  <2>1. ActorsTyped'
    BY <1>2, LeaveTyped DEF SweepCancel
  <2>2. job' \in [Schedules -> JobType]
    BY <1>2, FreeJobTyped, Zenon DEF SweepCancel, JobStatuses
  <2> QED
    BY <1>2, <2>1, <2>2 DEF SweepCancel
<1>3. CASE SweepAttempts(v)
  <2>1. /\ "failUnresolved" \in SweepPcs /\ "sweepRequeue" \in SweepPcs
        /\ "unknown" \in Reasons /\ Unresolved(actor[v].s) \subseteq 0..MaxClaims
    BY DEF SweepPcs, SweepSteps, FailSteps, Reasons, Errors, Unresolved
  <2>2. ActorsTyped'
    BY <1>3, <2>1, TakeUpTyped, GotoTyped, Zenon DEF SweepAttempts
  <2> QED
    BY <1>3, <2>2 DEF SweepAttempts
<1>4. CASE SweepRequeue(v)
  <2>1. ActorsTyped'
    BY <1>4, GotoTyped DEF SweepRequeue, SweepPcs, SweepSteps
  <2>2. job' \in [Schedules -> JobType]
    BY <1>4, FreeJobTyped, Zenon DEF SweepRequeue, JobStatuses
  <2> QED
    BY <1>4, <2>1, <2>2 DEF SweepRequeue
<1>5. CASE SweepUnclaim(v)
  <2>1. ActorsTyped'
    BY <1>5, GotoTyped DEF SweepUnclaim, SweepPcs, SweepSteps
  <2>2. schedule' \in [Schedules -> ScheduleType]
    BY <1>5, SetScheduleTyped, Zenon DEF SweepUnclaim, ScheduleStatuses
  <2> QED
    BY <1>5, <2>1, <2>2 DEF SweepUnclaim
<1>6. CASE SweepPost(v)
  BY <1>6, GotoTyped
  DEF SweepPost, SweepPcs, SweepSteps, FailSteps, PostStatuses
<1>7. CASE DueSchedule(v)
  BY <1>7, GotoTyped, LeaveTyped
  DEF DueSchedule, SweepPcs, SweepSteps, FailSteps
<1>8. CASE CheckEntry(v)
  BY <1>8, GotoTyped, LeaveTyped
  DEF CheckEntry, SweepPcs, SweepSteps, FailSteps
<1>9. CASE ReaddEntry(v)
  <2>1. ActorsTyped'
    BY <1>9, LeaveTyped DEF ReaddEntry
  <2>2. entry' \in [Schedules -> EntryType]
    BY <1>9, SetEntryTyped, Zenon DEF ReaddEntry, EntryStates
  <2> QED
    BY <1>9, <2>1, <2>2 DEF ReaddEntry
<1> QED
  BY <1>1, <1>2, <1>3, <1>4, <1>5, <1>6, <1>7, <1>8, <1>9 DEF SweepStep

(* The API's requests keep the types.                                       *)
LEMMA TypeRequest ==
  ASSUME TypeOK, NEW h \in Requests, RequestStep(h)
  PROVE  TypeOK'
<1> USE DEF TypeOK, records, outside
<1>0. UNCHANGED actor => ActorsTyped'
  BY DEF ActorsTyped
<1>1. CASE FindScheduled(h)
  <2>1. request' \in [Requests -> RequestType]
    BY <1>1, SeenTyped, DoneTyped, Zenon DEF FindScheduled, RequestSteps
  <2> QED
    BY <1>0, <1>1, <2>1 DEF FindScheduled
<1>2. CASE CancelLive(h)
  <2>1. schedule' \in [Schedules -> ScheduleType]
    BY <1>2, SetScheduleTyped, Zenon DEF CancelLive, ScheduleStatuses
  <2>2. request' \in [Requests -> RequestType]
    BY <1>2, AimTyped, StepTyped, Zenon DEF CancelLive, RequestSteps
  <2> QED
    BY <1>0, <1>2, <2>1, <2>2 DEF CancelLive
<1>3. CASE CheckLive(h)
  BY <1>3, <1>0, StepTyped, DoneTyped
  DEF CheckLive, RequestSteps, AfterCancel
<1>4. CASE CancelJob(h)
  <2>1. job' \in [Schedules -> JobType]
    BY <1>4, MarkJobTyped, Zenon DEF CancelJob, JobStatuses
  <2>2. request' \in [Requests -> RequestType]
    BY <1>4, StepTyped DEF CancelJob, RequestSteps, AfterCancel
  <2> QED
    BY <1>0, <1>4, <2>1, <2>2 DEF CancelJob
<1>5. CASE RemoveEntry(h)
  <2>1. entry' \in [Schedules -> EntryType]
    BY <1>5, SetEntryTyped, Zenon DEF RemoveEntry, EntryStates
  <2>2. request' \in [Requests -> RequestType]
    BY <1>5, StepTyped DEF RemoveEntry, RequestSteps, AfterCancel
  <2> QED
    BY <1>0, <1>5, <2>1, <2>2 DEF RemoveEntry
<1>6. CASE CreateSchedule(h)
  <2>1. schedule' \in [Schedules -> ScheduleType]
    BY <1>6, SetScheduleTyped, Zenon DEF CreateSchedule, ScheduleStatuses
  <2>2. request' \in [Requests -> RequestType]
    BY <1>6, AimTyped, DoneTyped, Zenon DEF CreateSchedule, RequestSteps
  <2> QED
    BY <1>0, <1>6, <2>1, <2>2 DEF CreateSchedule
<1>7. CASE CreateJob(h)
  <2>1. job' \in [Schedules -> JobType]
    BY <1>7, MarkJobTyped, Zenon DEF CreateJob, JobStatuses
  <2>2. request' \in [Requests -> RequestType]
    BY <1>7, StepTyped DEF CreateJob, RequestSteps
  <2> QED
    BY <1>0, <1>7, <2>1, <2>2 DEF CreateJob
<1>8. CASE AddEntry(h)
  <2>1. entry' \in [Schedules -> EntryType]
    BY <1>8, SetEntryTyped, Zenon DEF AddEntry, EntryStates
  <2>2. request' \in [Requests -> RequestType]
    BY <1>8, StepTyped DEF AddEntry, RequestSteps
  <2> QED
    BY <1>0, <1>8, <2>1, <2>2 DEF AddEntry
<1>9. CASE SavePost(h)
  <2>1. NewStatus(h) = request[h].seen \/ NewStatus(h) \in PostStatuses
    BY SMT DEF NewStatus, PostStatuses
  <2>2. postStatus' \in PostStatuses
    BY <1>9, <2>1 DEF SavePost
  <2> QED
    BY <1>0, <1>9, <2>2, DoneTyped DEF SavePost
<1> QED
  BY <1>1, <1>2, <1>3, <1>4, <1>5, <1>6, <1>7, <1>8, <1>9 DEF RequestStep

(* BullMQ and the ageing of locks keep the types.                           *)
LEMMA TypeQueue ==
  ASSUME TypeOK,
         \/ \E r \in Runs : Complete(r) \/ Rethrow(r) \/ (\E s \in Schedules : Deliver(r, s))
         \/ \E s \in Schedules : QueueNext(s)
  PROVE  TypeOK'
<1> USE DEF TypeOK, At, records, outside
<1>0. UNCHANGED actor => ActorsTyped'
  BY DEF ActorsTyped
<1>1. ASSUME NEW r \in Runs, Complete(r)
      PROVE  TypeOK'
  <2>1. ActorsTyped'
    BY <1>1, RestTyped DEF Complete, Actors
  <2>2. entry' \in [Schedules -> EntryType]
    BY <1>1, MoveEntryTyped, Zenon DEF Complete, EntryStates
  <2> QED
    BY <1>1, <2>1, <2>2 DEF Complete
<1>2. ASSUME NEW r \in Runs, Rethrow(r)
      PROVE  TypeOK'
  <2> DEFINE s == actor[r].s
             more == entry[s].made + 1 < MaxAttempts
             new == [state |-> IF more THEN "queued" ELSE "finished", owner |-> None,
                     made |-> IF more THEN entry[s].made + 1 ELSE entry[s].made]
  <2>1. ActorsTyped' /\ s \in Schedules
    BY <1>2, RestTyped DEF Rethrow, Actors, ActorsTyped
  <2>2. (IF more THEN entry[s].made + 1 ELSE entry[s].made) \in Nat
    BY <2>1, SMT DEF EntryType
  <2>3. (IF more THEN "queued" ELSE "finished") \in EntryStates
    BY DEF EntryStates
  <2>4. new \in EntryType
    BY <2>2, <2>3, Zenon DEF EntryType
  <2>5. entry' = entry \/ entry' = [entry EXCEPT ![s] = new]
    BY <1>2, Zenon DEF Rethrow
  <2> HIDE DEF new
  <2>6. entry' \in [Schedules -> EntryType]
    BY <2>4, <2>5, Zenon
  <2> QED
    BY <1>2, <2>1, <2>6 DEF Rethrow
<1>3. ASSUME NEW r \in Runs, NEW s \in Schedules, Deliver(r, s)
      PROVE  TypeOK'
  <2>1. ActorsTyped'
    BY <1>3, StartTyped, ActorsAssumption DEF Deliver, RunPcs, RunSteps, Actors
  <2>2. entry' \in [Schedules -> EntryType]
    BY <1>3, MoveEntryTyped, Zenon DEF Deliver, EntryStates
  <2> QED
    BY <1>3, <2>1, <2>2 DEF Deliver
<1>4. ASSUME NEW s \in Schedules, Stalled(s)
      PROVE  TypeOK'
  <2>1. entry' \in [Schedules -> EntryType]
    BY <1>4, MoveEntryTyped, Zenon DEF Stalled, EntryStates
  <2> QED
    BY <1>0, <1>4, <2>1 DEF Stalled
<1>5. ASSUME NEW s \in Schedules, Redeliver(s)
      PROVE  TypeOK'
  <2>1. entry' \in [Schedules -> EntryType]
    BY <1>5, MoveEntryTyped, Zenon DEF Redeliver, EntryStates
  <2>2. budget' \in [Faults \cup Events -> Nat]
    BY <1>5, SpendTyped DEF Redeliver, Faults
  <2> QED
    BY <1>0, <1>5, <2>1, <2>2 DEF Redeliver
<1>6. ASSUME NEW s \in Schedules, LoseEntry(s)
      PROVE  TypeOK'
  <2>1. entry' \in [Schedules -> EntryType]
    BY <1>6, SetEntryTyped, Zenon DEF LoseEntry, EntryStates
  <2>2. budget' \in [Faults \cup Events -> Nat]
    BY <1>6, SpendTyped DEF LoseEntry, Faults
  <2> QED
    BY <1>0, <1>6, <2>1, <2>2 DEF LoseEntry
<1>7. ASSUME NEW s \in Schedules, LockExpires(s)
      PROVE  TypeOK'
  <2>1. job' \in [Schedules -> JobType]
    BY <1>7, Zenon DEF LockExpires, JobType
  <2> QED
    BY <1>0, <1>7, <2>1 DEF LockExpires
<1> QED
  BY <1>1, <1>2, <1>3, <1>4, <1>5, <1>6, <1>7 DEF QueueNext

(* Faults, and what begins a pass or a request, keep the types.             *)
LEMMA TypeEvent ==
  ASSUME TypeOK,
         \/ \E r \in Runs : StoreError(r) \/ LoseAnswer(r)
         \/ \E v \in Sweeps, s \in Schedules : TakeAbandoned(v, s) \/ FindDue(v, s)
         \/ \E h \in Requests :
              \/ ApiCrash(h) \/ BeginArchive(h)
              \/ \E op \in {"schedule", "unschedule", "setReady"} : Begin(h, op)
         \/ \E p \in Procs : Crash(p)
         \/ Pause \/ Resume \/ Restore
  PROVE  TypeOK'
<1> USE DEF TypeOK, At, records, outside
<1>0. UNCHANGED actor => ActorsTyped'
  BY DEF ActorsTyped
<1>1. ASSUME NEW r \in Runs, StoreError(r)
      PROVE  TypeOK'
  <2>1. "saveFailure" \in RunPcs /\ "permanent" \in Reasons
    BY DEF RunPcs, RunSteps, Reasons, Errors
  <2>2. ActorsTyped'
    BY <1>1, <2>1, GiveUpTyped, ActorsAssumption DEF StoreError, Actors
  <2>3. budget' \in [Faults \cup Events -> Nat]
    BY <1>1, SpendTyped DEF StoreError, Faults
  <2> QED
    BY <1>1, <2>2, <2>3 DEF StoreError
<1>2. ASSUME NEW v \in Sweeps, NEW s \in Schedules, TakeAbandoned(v, s)
      PROVE  TypeOK'
  <2>1. ActorsTyped'
    BY <1>2, StartTyped, ActorsAssumption DEF TakeAbandoned, SweepPcs, SweepSteps, Actors
  <2>2. LockName(v) \in Owners
    BY ActorsAssumption, SMT DEF LockName, Owners, Actors
  <2>3. job' \in [Schedules -> JobType]
    BY <1>2, <2>2, Zenon DEF TakeAbandoned, JobType
  <2> QED
    BY <1>2, <2>1, <2>3 DEF TakeAbandoned
<1>3. ASSUME NEW v \in Sweeps, NEW s \in Schedules, FindDue(v, s)
      PROVE  TypeOK'
  <2>1. ActorsTyped'
    BY <1>3, StartTyped, ActorsAssumption DEF FindDue, SweepPcs, SweepSteps, Actors
  <2> QED
    BY <1>3, <2>1 DEF FindDue
<1>4. ASSUME NEW h \in Requests, ApiCrash(h)
      PROVE  TypeOK'
  BY <1>0, <1>4, DoneTyped, SpendTyped DEF ApiCrash, Faults
<1>5. ASSUME NEW h \in Requests, BeginArchive(h)
      PROVE  TypeOK'
  <2> DEFINE new == [pc |-> "findScheduled", op |-> "archive", s |-> None, seen |-> None]
  <2>1. new \in RequestType
    BY Zenon DEF RequestType, RequestSteps
  <2>2. request' = [request EXCEPT ![h] = new] /\ workspaceActive' = FALSE
    BY <1>5 DEF BeginArchive
  <2>3. budget' \in [Faults \cup Events -> Nat]
    BY <1>5, SpendTyped DEF BeginArchive, Events
  <2> HIDE DEF new
  <2>4. request' \in [Requests -> RequestType] /\ workspaceActive' \in BOOLEAN
    BY <2>1, <2>2, Zenon
  <2> QED
    BY <1>0, <1>5, <2>3, <2>4 DEF BeginArchive
<1>6. ASSUME NEW h \in Requests, NEW op \in {"schedule", "unschedule", "setReady"}, Begin(h, op)
      PROVE  TypeOK'
  <2> DEFINE pc == IF op = "setReady" /\ postStatus # "SCHEDULED"
                     THEN "savePost" ELSE "cancelLive"
             new == [pc |-> pc, op |-> op, s |-> None, seen |-> postStatus]
  <2>1. pc \in RequestSteps
    BY DEF RequestSteps
  <2>2. new \in RequestType
    BY <2>1, Zenon DEF RequestType
  <2>3. request' = [request EXCEPT ![h] = new]
    BY <1>6 DEF Begin
  <2>4. budget' \in [Faults \cup Events -> Nat]
    BY <1>6, SpendTyped DEF Begin, Events
  <2> HIDE DEF new
  <2>5. request' \in [Requests -> RequestType]
    BY <2>2, <2>3, Zenon
  <2> QED
    BY <1>0, <1>6, <2>4, <2>5 DEF Begin
<1>7. ASSUME NEW p \in Procs, Crash(p)
      PROVE  TypeOK'
  <2>1. ActorsTyped'
    BY <1>7, IdleTyped, SMT DEF Crash, ActorsTyped, Actors, RunPcs, SweepPcs
  <2>2. budget' \in [Faults \cup Events -> Nat]
    BY <1>7, SpendTyped DEF Crash, Faults
  <2> QED
    BY <1>7, <2>1, <2>2 DEF Crash
<1>8. CASE Pause
  BY <1>0, <1>8, SpendTyped DEF Pause, Events
<1>9. CASE Resume
  BY <1>0, <1>9 DEF Resume
<1>10. CASE Restore
  BY <1>0, <1>10 DEF Restore
<1>11. ASSUME NEW r \in Runs, LoseAnswer(r)
       PROVE  TypeOK'
  <2>1. "saveFailure" \in RunPcs /\ "retryable" \in Reasons
    BY DEF RunPcs, RunSteps, Reasons, Errors
  <2>2. ActorsTyped' /\ actor[r].s \in Schedules
    BY <1>11, <2>1, GiveUpTyped, ActorsAssumption DEF LoseAnswer, Actors, ActorsTyped
  <2>3. budget' \in [Faults \cup Events -> Nat]
    BY <1>11, SpendTyped DEF LoseAnswer, Faults
  <2>4. posted' \in [Schedules -> Nat]
    BY <1>11, <2>2, SMT DEF LoseAnswer
  <2> QED
    BY <1>11, <2>2, <2>3, <2>4 DEF LoseAnswer
<1> QED
  BY <1>1, <1>2, <1>3, <1>4, <1>5, <1>6, <1>7, <1>8, <1>9, <1>10, <1>11

(* The types hold at first.                                                 *)
LEMMA TypeInit == Init => TypeOK
<1> SUFFICES ASSUME Init PROVE TypeOK
  OBVIOUS
<1> USE DEF Init
<1>1. actor \in [Actors -> ActorType] /\ \A a \in Actors : actor[a].pc = "idle"
  BY IdleTyped
<1>2. ActorsTyped
  BY <1>1 DEF ActorsTyped, Actors, RunPcs, SweepPcs
<1>3. schedule \in [Schedules -> ScheduleType]
  BY Zenon DEF ScheduleType, ScheduleStatuses
<1>4. 0 \in 0..MaxClaims /\ 0 \in Nat
  BY BoundsAssumption, SMT
<1>5. job \in [Schedules -> JobType]
  BY <1>4, Zenon DEF JobType, JobStatuses
<1>6. attempt \in [Schedules -> [1..MaxClaims -> AttemptType]]
  BY Zenon DEF AttemptType, AttemptStatuses, Reasons, Errors
<1>7. entry \in [Schedules -> EntryType]
  BY <1>4, Zenon DEF EntryType, EntryStates
<1>8. request \in [Requests -> RequestType]
  BY Zenon DEF RequestType, RequestSteps, NoRequest
<1>9. postStatus \in PostStatuses /\ workspaceActive \in BOOLEAN /\ paused \in BOOLEAN
  BY Zenon DEF PostStatuses
<1>10. posted \in [Schedules -> Nat] /\ budget \in [Faults \cup Events -> Nat]
  BY <1>4, BoundsAssumption, Zenon
<1> QED
  BY <1>2, <1>3, <1>5, <1>6, <1>7, <1>8, <1>9, <1>10, Zenon DEF TypeOK

(* Every step keeps the types.                                              *)
LEMMA TypeNext == TypeOK /\ [Next]_vars => TypeOK'
<1>1. ASSUME TypeOK, Next
      PROVE  TypeOK'
  BY <1>1, TypeRun, TypeFail, TypeSweep, TypeRequest, TypeQueue, TypeEvent, Zenon
  DEF Next, RunNext, SweepNext, RequestNext, Actors
<1>2. ASSUME TypeOK, UNCHANGED vars
      PROVE  TypeOK'
  BY <1>2 DEF vars, TypeOK, ActorsTyped
<1> QED
  BY <1>1, <1>2

(* The records, the actors and the requests always have their types: no     *)
(* interleaving puts a status outside its enum, an attempt beyond the claim *)
(* that made it, or an actor at work without a schedule.                    *)
THEOREM TypeCorrect == Spec => []TypeOK
<1> QED
  BY TypeInit, TypeNext, PTL DEF Spec

-----------------------------------------------------------------------------
(* Where an actor may be after a step: what LockDiscipline asks of it,      *)
(* before anything else has changed.                                        *)
Onward(a) ==
  LET s == actor'[a].s  pc == actor'[a].pc IN
  pc # "idle" =>
    /\ job[s].status # "NONE"
    /\ pc \in Holding => /\ actor[a].pc \in Holding
                         /\ s = actor[a].s
                         /\ actor'[a].n = actor[a].n
    /\ pc \in {"checkWorkspace", "checkPause", "claimJob"} =>
         (job[s].lockedAt = "stale" => Quiet(s))
    /\ pc \in TakenOver => job[s].lockedAt # "stale"
    /\ pc = "sweepRequeue" => (job[s].lockedBy = LockName(a) => Quiet(s))

GivesUpQuietly(a) ==
  actor'[a].pc \in {"unclaimSchedule", "requeueJob"} => Quiet(actor'[a].s)

(* Runs and sweeps never lock under one name, even in one process.          *)
LEMMA LockNames ==
  /\ \A r \in Runs, v \in Sweeps : LockName(r) # LockName(v)
  /\ \A a \in Actors : LockName(a) # None
  BY ActorsAssumption, NoneAssumption, SMT DEF LockName, Actors, Owners

(* An actor that does not move stays where the invariant wants it.          *)
LEMMA StayOnward ==
  ASSUME TypeOK, LockDiscipline, NEW a \in Actors, actor'[a] = actor[a]
  PROVE  Onward(a) /\ (a \in Runs => GivesUpQuietly(a))
<1> USE DEF LockDiscipline
<1>1. actor[a].pc # "idle" => actor[a].s \in Schedules
  BY DEF TypeOK, ActorsTyped
<1>2. a \in Runs => actor[a].pc \notin TakenOver /\ actor[a].pc # "sweepRequeue"
  BY DEF TypeOK, ActorsTyped, RunPcs, RunSteps, FailSteps, TakenOver
<1>3. a \in Sweeps =>
        /\ actor[a].pc \notin Holding
        /\ actor[a].pc \notin {"checkWorkspace", "checkPause", "claimJob"}
  BY DEF TypeOK, ActorsTyped, SweepPcs, SweepSteps, FailSteps, Holding
<1>4. actor[a].pc # "idle" => job[actor[a].s].status # "NONE"
  BY <1>1 DEF UnmadeIsUntouched
<1>5. a \in Runs => GivesUpQuietly(a)
  BY DEF GivingUpIsQuiet, GivesUpQuietly
<1>6. actor[a].pc \in {"checkWorkspace", "checkPause", "claimJob"} =>
        (job[actor[a].s].lockedAt = "stale" => Quiet(actor[a].s))
  BY <1>3 DEF ClaimantsHaveLooked, Actors
<1>7. actor[a].pc \in TakenOver => job[actor[a].s].lockedAt # "stale"
  BY <1>2 DEF SweepsAreTimely, Actors
<1>8. actor[a].pc = "sweepRequeue" =>
        (job[actor[a].s].lockedBy = LockName(a) => Quiet(actor[a].s))
  BY <1>2 DEF SweepHasLooked, Actors, HoldsLock
<1> QED
  BY <1>4, <1>5, <1>6, <1>7, <1>8 DEF Onward

(* Steps that leave jobs and attempts alone.                                *)
LEMMA MoveKeepsDiscipline ==
  ASSUME TypeOK, LockDiscipline, UNCHANGED <<job, attempt>>,
         \A a \in Actors : Onward(a), \A r \in Runs : GivesUpQuietly(r),
         \A s \in Schedules : /\ (schedule'[s].status = "NONE") <=> (schedule[s].status = "NONE")
                              /\ job[s].status = "NONE" => entry'[s].state = "none",
         \A h \in Requests :
           request'[h].pc \in {"createJob", "addEntry"} => request'[h] = request[h]
  PROVE  LockDiscipline'
<1> USE DEF LockDiscipline
<1>1. \A s : Unresolved(s)' = Unresolved(s) /\ (Quiet(s)' <=> Quiet(s))
  BY DEF Unresolved, Quiet
<1>2. LocksAreHeld'
  BY DEF LocksAreHeld
<1>3. HolderHasLock'
  BY DEF HolderHasLock, JobOpen, HoldsLock, Onward, Actors, Holding
<1>4. OneHolder'
  BY DEF OneHolder, Onward, Actors, Holding
<1>5. SweepsAreTimely'
  BY DEF SweepsAreTimely, Onward, Actors, TakenOver
<1>6. UnmadeIsUntouched'
  BY <1>1 DEF UnmadeIsUntouched, Onward
<1>7. UnmadeScheduleHasNoJob'
  BY DEF UnmadeScheduleHasNoJob
<1>8. CreatedOnce'
  BY DEF CreatedOnce
<1>9. WaitingIsQuiet'
  BY <1>1 DEF WaitingIsQuiet
<1>10. ClaimantsHaveLooked'
  BY <1>1 DEF ClaimantsHaveLooked, Onward, Actors
<1>11. HolderOwnsUnresolved'
  BY <1>1 DEF HolderOwnsUnresolved, Onward, Actors, Holding
<1>12. SweepHasLooked'
  BY <1>1 DEF SweepHasLooked, Onward, Actors, HoldsLock
<1>13. GivingUpIsQuiet'
  BY <1>1 DEF GivingUpIsQuiet, GivesUpQuietly
<1> QED
  BY <1>2, <1>3, <1>4, <1>5, <1>6, <1>7, <1>8, <1>9, <1>10, <1>11, <1>12, <1>13

(* A job lets go of its lock: it is over, or waits again.                   *)
Unlocks(s, status) ==
  /\ job'[s].status = status /\ job'[s].lockedBy = None /\ job'[s].lockedAt = "null"
  /\ \A t \in Schedules \ {s} : job'[t] = job[t]

(* FreeJob unlocks the job and touches no other.                            *)
LEMMA FreeJobUnlocks ==
  ASSUME TypeOK, NEW s \in Schedules, NEW status, FreeJob(s, status)
  PROVE  Unlocks(s, status)
  BY SMT DEF TypeOK, FreeJob, JobType, Unlocks

(* Steps that end the hold on a job.                                        *)
LEMMA FreeKeepsDiscipline ==
  ASSUME TypeOK, TypeOK', LockDiscipline, UNCHANGED <<attempt, entry>>,
         \A h \in Requests :
           request'[h].pc \in {"createJob", "addEntry"} => request'[h] = request[h],
         \A a \in Actors : Onward(a), \A r \in Runs : GivesUpQuietly(r),
         \A s \in Schedules : (schedule'[s].status = "NONE") <=> (schedule[s].status = "NONE"),
         NEW s \in Schedules, job[s].status # "NONE",
         NEW status \in {"QUEUED", "CANCELLED", "FAILED", "SUCCEEDED"}, Unlocks(s, status),
         status = "QUEUED" => Quiet(s),
         status = "QUEUED" =>
           \A r \in Runs : actor'[r].pc \in Holding => actor'[r].s # s
  PROVE  LockDiscipline'
<1> USE DEF LockDiscipline
<1>1. \A t : Unresolved(t)' = Unresolved(t) /\ (Quiet(t)' <=> Quiet(t))
  BY DEF Unresolved, Quiet
<1>2. /\ job'[s].status = status /\ job'[s].lockedBy = None /\ job'[s].lockedAt = "null"
      /\ \A t \in Schedules \ {s} : job'[t] = job[t]
  BY DEF Unlocks
<1>0. \A a \in Actors : actor'[a].pc # "idle" => actor'[a].s = s \/ actor'[a].s \in Schedules \ {s}
  BY DEF TypeOK, ActorsTyped
<1> USE <1>0, <1>2
<1>3. LocksAreHeld'
  BY DEF LocksAreHeld
<1>4. HolderHasLock'
  BY DEF HolderHasLock, JobOpen, HoldsLock, Onward, Actors, Holding
<1>5. OneHolder'
  BY DEF OneHolder, Onward, Actors, Holding
<1>6. SweepsAreTimely'
  BY DEF SweepsAreTimely, Onward, Actors, TakenOver
<1>7. UnmadeIsUntouched'
  BY <1>1 DEF UnmadeIsUntouched, Onward
<1>8. UnmadeScheduleHasNoJob'
  BY DEF UnmadeScheduleHasNoJob
<1>9. CreatedOnce'
  BY DEF CreatedOnce
<1>10. WaitingIsQuiet'
  BY <1>1 DEF WaitingIsQuiet
<1>11. ClaimantsHaveLooked'
  BY <1>1 DEF ClaimantsHaveLooked, Onward, Actors
<1>12. HolderOwnsUnresolved'
  BY <1>1 DEF HolderOwnsUnresolved, Onward, Actors, Holding
<1>13. SweepHasLooked'
  BY <1>1, LockNames DEF SweepHasLooked, Onward, Actors, HoldsLock
<1>14. GivingUpIsQuiet'
  BY <1>1 DEF GivingUpIsQuiet, GivesUpQuietly
<1> QED
  BY <1>3, <1>4, <1>5, <1>6, <1>7, <1>8, <1>9, <1>10, <1>11, <1>12, <1>13, <1>14

(* An attempt is opened, or closed: nothing new goes unanswered.            *)
LEMMA AnswerKeepsDiscipline ==
  ASSUME TypeOK, LockDiscipline, UNCHANGED <<schedule, job, entry, request>>,
         \A a \in Actors : Onward(a),
         \A s \in Schedules : Unresolved(s)' \subseteq Unresolved(s),
         TypeOK', GivingUpIsQuiet'
  PROVE  LockDiscipline'
<1> USE DEF LockDiscipline
<1>1. \A s \in Schedules : Quiet(s) => Quiet(s)'
  BY DEF Quiet
<1>2. \A a \in Actors : actor'[a].pc # "idle" => actor'[a].s \in Schedules
  BY DEF TypeOK, ActorsTyped
<1>3. LocksAreHeld'
  BY DEF LocksAreHeld
<1>4. HolderHasLock'
  BY DEF HolderHasLock, JobOpen, HoldsLock, Onward, Actors, Holding
<1>5. OneHolder'
  BY DEF OneHolder, Onward, Actors, Holding
<1>6. SweepsAreTimely'
  BY DEF SweepsAreTimely, Onward, Actors, TakenOver
<1>7. UnmadeIsUntouched'
  BY <1>1 DEF UnmadeIsUntouched, Onward
<1>8. UnmadeScheduleHasNoJob'
  BY DEF UnmadeScheduleHasNoJob
<1>9. CreatedOnce'
  BY DEF CreatedOnce
<1>10. WaitingIsQuiet'
  BY <1>1 DEF WaitingIsQuiet
<1>11. ClaimantsHaveLooked'
  BY <1>1, <1>2 DEF ClaimantsHaveLooked, Onward, Actors
<1>12. HolderOwnsUnresolved'
  BY <1>1, <1>2 DEF HolderOwnsUnresolved, Onward, Actors, Holding
<1>13. SweepHasLooked'
  BY <1>1, <1>2 DEF SweepHasLooked, Onward, Actors, HoldsLock
<1> QED
  BY <1>3, <1>4, <1>5, <1>6, <1>7, <1>8, <1>9, <1>10, <1>11, <1>12, <1>13

-----------------------------------------------------------------------------
(* Steps of a run that go on with the same schedule.                        *)
Moved(a, step) ==
  /\ actor'[a].pc = step
  /\ actor'[a].s = actor[a].s
  /\ step \in Holding => actor'[a].n = actor[a].n
  /\ \A b \in Actors \ {a} : actor'[b] = actor[b]
SameSchedules ==
  \A s \in Schedules : (schedule'[s].status = "NONE") <=> (schedule[s].status = "NONE")
Looking == {"checkWorkspace", "checkPause", "claimJob"}

(* The ways an actor goes on with its schedule.                             *)
LEMMA StepsMove ==
  ASSUME TypeOK, NEW a \in Actors, NEW step
  PROVE  /\ Goto(a, step) => Moved(a, step)
         /\ \A why : GiveUp(a, step, why) => Moved(a, step)
         /\ Finish(a, step) /\ step \notin Holding => Moved(a, step)
  BY SMT DEF TypeOK, ActorsTyped, ActorType, Goto, GiveUp, Finish, Start, New, Moved

(* An actor at work has a schedule, and the schedule has its job.           *)
LEMMA AtWork ==
  ASSUME TypeOK, LockDiscipline, NEW a \in Actors, actor[a].pc # "idle"
  PROVE  /\ actor[a].s \in Schedules
         /\ job[actor[a].s].status # "NONE"
         /\ schedule[actor[a].s].status # "NONE"
  BY DEF TypeOK, ActorsTyped, LockDiscipline, UnmadeIsUntouched, UnmadeScheduleHasNoJob

(* Updating a schedule neither creates nor unmakes one.                     *)
LEMMA SchedulesMarked ==
  ASSUME TypeOK, NEW s \in Schedules, schedule[s].status # "NONE",
         NEW status \in ScheduleStatuses \ {"NONE"},
         SetSchedule(s, status, TRUE) \/ SetSchedule(s, status, FALSE)
  PROVE  SameSchedules
<1>1. \A t \in Schedules \ {s} : schedule'[t] = schedule[t]
  BY SMT DEF SetSchedule, TypeOK
<1>2. schedule'[s].status = status
  BY SMT DEF SetSchedule, TypeOK, ScheduleType
<1> QED
  BY <1>1, <1>2 DEF SameSchedules

(* Nor does closing it.                                                     *)
LEMMA SchedulesClosed ==
  ASSUME TypeOK, NEW s \in Schedules, schedule[s].status # "NONE",
         NEW status \in ScheduleStatuses \ {"NONE"}, NEW review \in BOOLEAN,
         schedule' = [schedule EXCEPT ![s] =
                        [status |-> status, isLive |-> FALSE, needsReview |-> review]]
  PROVE  SameSchedules
  BY SMT DEF TypeOK, SameSchedules

(* A run enters its hold by the claim alone.                                *)
LEMMA RunOnward ==
  ASSUME TypeOK, LockDiscipline, NEW r \in Runs, actor[r].pc # "idle", NEW step \in RunPcs,
         Moved(r, step),
         step \in Holding => actor[r].pc \in Holding,
         step \in Looking => actor[r].pc \in Looking \/ Quiet(actor[r].s)
  PROVE  \A a \in Actors : Onward(a)
<1>1. r \in Actors /\ step \notin TakenOver
  BY DEF Actors, RunPcs, RunSteps, FailSteps, TakenOver
<1>2. \A b \in Actors \ {r} : Onward(b)
  BY StayOnward DEF Moved
<1>3. job[actor[r].s].status # "NONE"
  BY <1>1, AtWork
<1>4. actor[r].pc \in Looking => (job[actor[r].s].lockedAt = "stale" => Quiet(actor[r].s))
  BY DEF LockDiscipline, ClaimantsHaveLooked, Looking
<1>5. Onward(r)
  BY <1>1, <1>3, <1>4 DEF Onward, Moved, Looking, TakenOver
<1> QED
  BY <1>2, <1>5

(* Steps of a run that leave jobs and attempts alone.                       *)
LEMMA RunMove ==
  ASSUME TypeOK, LockDiscipline, NEW r \in Runs, actor[r].pc # "idle", NEW step \in RunPcs,
         Moved(r, step), UNCHANGED <<job, attempt, entry, request>>, SameSchedules,
         step \in Holding => actor[r].pc \in Holding,
         step \in Looking => actor[r].pc \in Looking \/ Quiet(actor[r].s),
         step \in {"unclaimSchedule", "requeueJob"} => actor[r].pc = "unclaimSchedule"
  PROVE  LockDiscipline'
<1>1. \A a \in Actors : Onward(a)
  BY RunOnward
<1>2. \A q \in Runs : GivesUpQuietly(q)
  BY ActorsAssumption DEF LockDiscipline, GivingUpIsQuiet, GivesUpQuietly, Moved, Actors
<1>3. \A s \in Schedules : job[s].status = "NONE" => entry'[s].state = "none"
  BY DEF LockDiscipline, UnmadeIsUntouched
<1> QED
  BY <1>1, <1>2, <1>3, MoveKeepsDiscipline DEF SameSchedules

(* Steps of a run that end its hold on the job.                             *)
LEMMA RunFree ==
  ASSUME TypeOK, TypeOK', LockDiscipline, NEW r \in Runs, actor[r].pc # "idle",
         NEW step \in RunPcs, Moved(r, step),
         UNCHANGED <<schedule, attempt, entry, request>>,
         step \in Holding => actor[r].pc \in Holding, step \notin Looking,
         step \notin {"unclaimSchedule", "requeueJob"},
         NEW status \in {"QUEUED", "CANCELLED", "FAILED", "SUCCEEDED"},
         FreeJob(actor[r].s, status),
         status = "QUEUED" => actor[r].pc = "requeueJob" /\ step = "markScheduled"
  PROVE  LockDiscipline'
<1>1. \A a \in Actors : Onward(a)
  BY RunOnward
<1>2. \A q \in Runs : GivesUpQuietly(q)
  BY ActorsAssumption DEF LockDiscipline, GivingUpIsQuiet, GivesUpQuietly, Moved, Actors
<1>3. actor[r].s \in Schedules /\ job[actor[r].s].status # "NONE"
  BY AtWork DEF Actors
<1>4. status = "QUEUED" => Quiet(actor[r].s)
  BY DEF LockDiscipline, GivingUpIsQuiet
<1>5. status = "QUEUED" =>
        \A q \in Runs : actor'[q].pc \in Holding => actor'[q].s # actor[r].s
  BY DEF LockDiscipline, OneHolder, Moved, Actors, Holding
<1> QED
  BY <1>1, <1>2, <1>3, <1>4, <1>5, FreeJobUnlocks, FreeKeepsDiscipline

(* What a run does to its own attempt.                                      *)
LEMMA OpenAttempt ==
  ASSUME TypeOK, NEW s \in Schedules, NEW n, NEW new, ~new.requestSent,
         attempt' = [attempt EXCEPT ![s][n] = new]
  PROVE  \A t \in Schedules : Unresolved(t)' \subseteq Unresolved(t)
<1>1. \A t \in Schedules, m \in 1..MaxClaims :
        attempt'[t][m] = attempt[t][m] \/ attempt'[t][m] = new
  BY SMT DEF TypeOK
<1> QED
  BY <1>1, Zenon DEF Unresolved

(* The platform took the post: the attempt is answered.                     *)
LEMMA AttemptAnswered ==
  ASSUME TypeOK, NEW s \in Schedules, NEW n,
         attempt' = [attempt EXCEPT ![s][n].status = "SUCCEEDED"]
  PROVE  \A t \in Schedules : Unresolved(t)' \subseteq Unresolved(t)
<1>1. PICK old : old = attempt[s]
  OBVIOUS
<1>2. PICK new : new = [old EXCEPT ![n].status = "SUCCEEDED"]
  OBVIOUS
<1>3. old \in [1..MaxClaims -> AttemptType]
  BY <1>1 DEF TypeOK
<1>4. /\ \A m \in 1..MaxClaims : m # n => new[m] = old[m]
      /\ n \in 1..MaxClaims => new[n].status = "SUCCEEDED"
  BY <1>2, <1>3, SMT DEF AttemptType
<1>5. attempt' = [attempt EXCEPT ![s] = new]
  BY <1>1, <1>2, Zenon
<1>6. attempt'[s] = new /\ \A t \in Schedules \ {s} : attempt'[t] = attempt[t]
  BY <1>5, SMT DEF TypeOK
<1> QED
  BY <1>1, <1>4, <1>6 DEF Unresolved

(* A closed attempt is answered, and no other changes.                      *)
LEMMA AttemptClosed ==
  ASSUME TypeOK, NEW a \in Actors, actor[a].s \in Schedules, CloseAttempt(a)
  PROVE  /\ \A t \in Schedules : Unresolved(t)' \subseteq Unresolved(t)
         /\ \A s : s = actor[a].s => actor[a].n \notin Unresolved(s)'
<1>1. PICK s, n, why, old : s = actor[a].s /\ n = actor[a].n /\ why = actor[a].why /\ old = attempt[s]
  OBVIOUS
<1>2. PICK new : new = [old EXCEPT ![n].status = "FAILED", ![n].error = why]
  OBVIOUS
<1>3. old \in [1..MaxClaims -> AttemptType]
  BY <1>1 DEF TypeOK
<1>4. /\ \A m \in 1..MaxClaims : m # n => new[m] = old[m]
      /\ n \in 1..MaxClaims => new[n].status = "FAILED"
  BY <1>2, <1>3, SMT DEF AttemptType
<1>5. attempt' = [attempt EXCEPT ![s] = new]
  BY <1>1, <1>2, Zenon DEF CloseAttempt
<1>6. attempt'[s] = new /\ \A t \in Schedules \ {s} : attempt'[t] = attempt[t]
  BY <1>1, <1>5, SMT DEF TypeOK
<1>7. \A t \in Schedules : Unresolved(t)' \subseteq Unresolved(t)
  BY <1>1, <1>4, <1>6 DEF Unresolved
<1>8. n \notin Unresolved(s)'
  BY <1>1, <1>4, <1>6 DEF Unresolved
<1> QED
  BY <1>1, <1>7, <1>8

(* Marking an attempt sent makes only that one unanswered.                  *)
LEMMA AttemptSent ==
  ASSUME TypeOK, NEW s \in Schedules, NEW n,
         attempt' = [attempt EXCEPT ![s][n].requestSent = TRUE]
  PROVE  /\ \A t \in Schedules \ {s} : Unresolved(t)' = Unresolved(t)
         /\ Unresolved(s)' \subseteq Unresolved(s) \cup {n}
<1>1. \A t \in Schedules, m \in 1..MaxClaims :
        (t = s /\ m = n) \/ attempt'[t][m] = attempt[t][m]
  BY SMT DEF TypeOK
<1> QED
  BY <1>1 DEF Unresolved

(* Steps of a run that open or answer its attempt.                          *)
LEMMA RunAnswer ==
  ASSUME TypeOK, TypeOK', LockDiscipline, NEW r \in Runs, actor[r].pc # "idle",
         NEW step \in RunPcs, Moved(r, step), UNCHANGED <<schedule, job, entry, request>>,
         step \in Holding => actor[r].pc \in Holding, step \notin Looking,
         step \in {"unclaimSchedule", "requeueJob"} => Unresolved(actor[r].s)' = {},
         \A s \in Schedules : Unresolved(s)' \subseteq Unresolved(s)
  PROVE  LockDiscipline'
<1>1. \A a \in Actors : Onward(a)
  BY RunOnward
<1>2. GivingUpIsQuiet'
  <2> SUFFICES ASSUME NEW q \in Runs, actor'[q].pc \in {"unclaimSchedule", "requeueJob"}
               PROVE  (Unresolved(actor[q].s) = {})'
    BY DEF GivingUpIsQuiet, Quiet
  <2>1. CASE q = r
    BY <2>1 DEF Moved
  <2>2. CASE q # r
    <3>1. actor'[q] = actor[q]
      BY <2>2 DEF Moved, Actors
    <3>2. Unresolved(actor[q].s) = {} /\ actor[q].s \in Schedules
      BY <3>1 DEF LockDiscipline, GivingUpIsQuiet, Quiet, TypeOK, ActorsTyped, Actors
    <3> QED
      BY <3>1, <3>2
  <2> QED
    BY <2>1, <2>2
<1> QED
  BY <1>1, <1>2, AnswerKeepsDiscipline

(* The platform call begins: only the holder's own attempt is unanswered.   *)
LEMMA SendKeepsDiscipline ==
  ASSUME TypeOK, LockDiscipline, NEW r \in Runs, MarkSent(r)
  PROVE  LockDiscipline'
<1> USE DEF LockDiscipline
<1>0. PICK s : s = actor[r].s
  OBVIOUS
<1>1. /\ actor[r].pc = "markSent" /\ r \in Actors
      /\ UNCHANGED <<schedule, job, entry, request>>
  BY DEF MarkSent, At, records, Actors
<1>2. s \in Schedules /\ job[s].status # "NONE"
  BY <1>0, <1>1, AtWork
<1>3. Moved(r, "call")
  BY StepsMove, <1>1 DEF MarkSent
<1>4. /\ \A t \in Schedules \ {s} : Unresolved(t)' = Unresolved(t)
      /\ Unresolved(s)' \subseteq Unresolved(s) \cup {actor[r].n}
  BY <1>0, <1>2, AttemptSent, Zenon DEF MarkSent
<1>5. \A a \in Actors : Onward(a)
  BY <1>1, <1>3, RunOnward DEF RunPcs, RunSteps, Holding, Looking
<1>6. Unresolved(s) \subseteq {actor[r].n}
  BY <1>0, <1>1 DEF HolderOwnsUnresolved, Holding
<1>7. /\ \A q \in Runs : actor'[q].pc \in Holding /\ actor'[q].s = s => q = r
      /\ JobOpen(s) => /\ job[s].status = "PROCESSING" /\ job[s].lockedAt = "fresh"
                       /\ job[s].lockedBy = LockName(r)
  BY <1>0, <1>1, <1>3 DEF OneHolder, HolderHasLock, HoldsLock, Moved, Holding, Actors
<1>8. \A a \in Actors : actor'[a].pc # "idle" => actor'[a].s = s \/ actor'[a].s \in Schedules \ {s}
  BY <1>0, <1>2, <1>3, <1>1 DEF Moved, TypeOK, ActorsTyped
<1>9. LocksAreHeld'
  BY <1>1 DEF LocksAreHeld
<1>10. HolderHasLock'
  BY <1>1, <1>5 DEF HolderHasLock, JobOpen, HoldsLock, Onward, Actors, Holding
<1>11. OneHolder'
  BY <1>5 DEF OneHolder, Onward, Actors, Holding
<1>12. SweepsAreTimely'
  BY <1>1, <1>5 DEF SweepsAreTimely, Onward, Actors, TakenOver
<1>13. UnmadeIsUntouched'
  BY <1>1, <1>2, <1>4, <1>5 DEF UnmadeIsUntouched, Onward, Quiet
<1>14. UnmadeScheduleHasNoJob'
  BY <1>1 DEF UnmadeScheduleHasNoJob
<1>15. CreatedOnce'
  BY <1>1 DEF CreatedOnce
<1>16. WaitingIsQuiet'
  BY <1>1, <1>4, <1>7 DEF WaitingIsQuiet, Quiet, JobOpen
<1>17. ClaimantsHaveLooked'
  <2> SUFFICES ASSUME NEW q \in Runs, actor'[q].pc \in {"checkWorkspace", "checkPause", "claimJob"},
                      job'[actor'[q].s].lockedAt = "stale"
               PROVE  (Quiet(actor[q].s))'
    BY DEF ClaimantsHaveLooked
  <2>1. actor'[q].s \in Schedules /\ Unresolved(actor'[q].s) = {}
    BY <1>1, <1>5, <1>8, <1>2 DEF Onward, Quiet, Actors
  <2>2. actor'[q].s # s
    BY <1>1, <1>7, <1>2 DEF LocksAreHeld, JobOpen
  <2> QED
    BY <2>1, <2>2, <1>4 DEF Quiet
<1>18. HolderOwnsUnresolved'
  <2> SUFFICES ASSUME NEW q \in Runs, actor'[q].pc \in Holding
               PROVE  (Unresolved(actor[q].s) \subseteq {actor[q].n})'
    BY DEF HolderOwnsUnresolved
  <2>1. CASE actor'[q].s = s
    BY <2>1, <1>0, <1>3, <1>4, <1>6, <1>7 DEF Moved, Holding
  <2>2. CASE actor'[q].s # s
    <3>1. /\ actor'[q].s = actor[q].s /\ actor'[q].n = actor[q].n
          /\ actor[q].pc \in Holding /\ actor'[q].s \in Schedules
      BY <2>2, <1>5, <1>8 DEF Onward, Actors, Holding
    <3> QED
      BY <2>2, <3>1, <1>4 DEF HolderOwnsUnresolved
  <2> QED
    BY <2>1, <2>2
<1>19. GivingUpIsQuiet'
  <2> SUFFICES ASSUME NEW q \in Runs, actor'[q].pc \in {"unclaimSchedule", "requeueJob"}
               PROVE  (Quiet(actor[q].s))'
    BY DEF GivingUpIsQuiet
  <2>1. q # r /\ actor'[q] = actor[q] /\ actor'[q].s # s /\ actor'[q].s \in Schedules
    BY <1>0, <1>3, <1>7, <1>8 DEF Moved, Holding, Actors
  <2> QED
    BY <2>1, <1>4 DEF GivingUpIsQuiet, Quiet
<1>20. SweepHasLooked'
  <2> SUFFICES ASSUME NEW v \in Sweeps, actor'[v].pc = "sweepRequeue",
                      job'[actor'[v].s].lockedBy = LockName(v)
               PROVE  (Quiet(actor[v].s))'
    BY DEF SweepHasLooked, HoldsLock
  <2>1. actor'[v].s \in Schedules /\ Unresolved(actor'[v].s) = {}
    BY <1>1, <1>2, <1>5, <1>8 DEF Onward, Quiet, Actors
  <2>2. actor'[v].s # s
    BY <1>1, <1>2, <1>7, LockNames DEF LocksAreHeld, JobOpen, Actors
  <2> QED
    BY <2>1, <2>2, <1>4 DEF Quiet
<1> QED
  BY <1>9, <1>10, <1>11, <1>12, <1>13, <1>14, <1>15, <1>16, <1>17, <1>18, <1>19, <1>20

(* The claim: nobody else holds the job, and every attempt is answered.     *)
LEMMA ClaimKeepsDiscipline ==
  ASSUME TypeOK, LockDiscipline, NEW r \in Runs, ClaimJob(r),
         Claimable(actor[r].s), actor'[r].pc = "claimSchedule"
  PROVE  LockDiscipline'
<1> USE DEF LockDiscipline
<1> DEFINE s == actor[r].s
           n == job[s].attempts + 1
<1>1. /\ actor[r].pc = "claimJob" /\ r \in Actors
      /\ UNCHANGED <<schedule, attempt, entry, request>>
  BY DEF ClaimJob, At, records, Actors
<1>2. s \in Schedules /\ job[s].status # "NONE"
  BY <1>1, AtWork
<1>3. /\ job' = [job EXCEPT ![s] = [status |-> "PROCESSING", attempts |-> n,
                                    lockedBy |-> LockName(r), lockedAt |-> "fresh"]]
      /\ actor' = [actor EXCEPT ![r].pc = "claimSchedule", ![r].n = n]
  BY Zenon DEF ClaimJob
<1>4. /\ job'[s].status = "PROCESSING" /\ job'[s].lockedAt = "fresh"
      /\ job'[s].lockedBy = LockName(r)
      /\ \A t \in Schedules \ {s} : job'[t] = job[t]
  BY <1>2, <1>3, SMT DEF TypeOK
<1>5. /\ actor'[r].s = s
      /\ \A a \in Actors \ {r} : actor'[a] = actor[a]
  BY <1>1, <1>3, SMT DEF TypeOK, ActorsTyped, ActorType
<1> HIDE DEF n
<1>6. Quiet(s)
  BY <1>1, <1>2 DEF Claimable, JobOpen, Unlocked, WaitingIsQuiet, ClaimantsHaveLooked,
     LocksAreHeld, Quiet
<1>7. \A q \in Runs : actor[q].pc \in Holding => actor[q].s # s
  BY <1>1, <1>2 DEF HolderHasLock, Claimable, Unlocked
<1>8. \A a \in Actors : actor[a].pc # "idle" => actor[a].s \in Schedules
  BY DEF TypeOK, ActorsTyped
<1>9. \A t : Unresolved(t)' = Unresolved(t) /\ (Quiet(t)' <=> Quiet(t))
  BY <1>1 DEF Unresolved, Quiet
<1>10. LocksAreHeld'
  BY <1>4 DEF LocksAreHeld
<1>11. HolderHasLock'
  BY <1>4, <1>5, <1>7, <1>8 DEF HolderHasLock, JobOpen, HoldsLock, Actors, Holding
<1>12. OneHolder'
  BY <1>5, <1>7 DEF OneHolder, Actors
<1>13. SweepsAreTimely'
  BY <1>4, <1>5, <1>8, ActorsAssumption DEF SweepsAreTimely, Actors, TakenOver
<1>14. UnmadeIsUntouched'
  BY <1>1, <1>2, <1>4, <1>5, <1>9 DEF UnmadeIsUntouched, Actors
<1>15. UnmadeScheduleHasNoJob'
  BY <1>1, <1>2, <1>4 DEF UnmadeScheduleHasNoJob
<1>16. CreatedOnce'
  BY <1>1, <1>2, <1>4 DEF CreatedOnce
<1>17. WaitingIsQuiet'
  BY <1>4, <1>9 DEF WaitingIsQuiet
<1>18. ClaimantsHaveLooked'
  BY <1>4, <1>5, <1>8, <1>9 DEF ClaimantsHaveLooked, Actors
<1>19. HolderOwnsUnresolved'
  BY <1>5, <1>6, <1>9 DEF HolderOwnsUnresolved, Actors, Quiet
<1>20. GivingUpIsQuiet'
  BY <1>5, <1>9, <1>3, SMT DEF GivingUpIsQuiet, Actors, TypeOK, ActorsTyped, ActorType
<1>21. SweepHasLooked'
  BY <1>4, <1>5, <1>8, <1>9, LockNames, ActorsAssumption DEF SweepHasLooked, HoldsLock, Actors
<1> QED
  BY <1>10, <1>11, <1>12, <1>13, <1>14, <1>15, <1>16, <1>17, <1>18, <1>19, <1>20, <1>21

(* runPublishJob keeps the discipline.                                      *)
LEMMA LockRun ==
  ASSUME TypeOK, TypeOK', LockDiscipline, NEW r \in Runs, RunStep(r)
  PROVE  LockDiscipline'
<1> USE DEF At, records, outside
<1> r \in Actors
  BY DEF Actors
<1>0. actor[r].pc # "idle" =>
        /\ actor[r].s \in Schedules
        /\ job[actor[r].s].status # "NONE"
        /\ schedule[actor[r].s].status # "NONE"
  BY AtWork
<1>1. CASE ReadJob(r)
  BY <1>1, StepsMove, RunMove
  DEF ReadJob, RunPcs, RunSteps, FailSteps, Holding, Looking, SameSchedules
<1>2. CASE ReadSchedule(r)
  BY <1>2, StepsMove, RunMove
  DEF ReadSchedule, RunPcs, RunSteps, FailSteps, Holding, Looking, SameSchedules
<1>3. CASE DropJob(r)
  BY <1>3, StepsMove, RunMove, RunFree
  DEF DropJob, RunPcs, RunSteps, FailSteps, Holding, Looking, SameSchedules
<1>4. CASE ReadAttempts(r)
  <2>1. CASE Goto(r, "checkWorkspace") /\ Quiet(actor[r].s)
    BY <1>4, <2>1, StepsMove, RunMove
    DEF ReadAttempts, RunPcs, RunSteps, Holding, Looking, SameSchedules
  <2>2. CASE Unresolved(actor[r].s) # {}
    <3>1. PICK n : actor' = [actor EXCEPT ![r].pc = "failUnresolved", ![r].n = n,
                                          ![r].why = "unknown"]
      BY <1>4, <2>2 DEF ReadAttempts
    <3>2. Moved(r, "failUnresolved")
      BY <3>1, SMT DEF Moved, TypeOK, ActorsTyped, ActorType, Holding
    <3> QED
      BY <1>4, <3>2, RunMove
      DEF ReadAttempts, RunPcs, RunSteps, FailSteps, Holding, Looking, SameSchedules
  <2> QED
    BY <1>4, <2>1, <2>2 DEF ReadAttempts, Quiet
<1>5. CASE CheckWorkspace(r)
  BY <1>5, StepsMove, RunMove
  DEF CheckWorkspace, RunPcs, RunSteps, FailSteps, Holding, Looking, SameSchedules
<1>6. CASE CheckPause(r)
  <2>1. CASE paused
    <3>1. Moved(r, "stopSchedule")
      BY <1>6, <2>1, SMT DEF CheckPause, Moved, TypeOK, ActorsTyped, ActorType, Holding
    <3> QED
      BY <1>6, <3>1, RunMove DEF CheckPause, RunPcs, RunSteps, Holding, Looking, SameSchedules
  <2>2. CASE ~paused
    BY <1>6, <2>2, StepsMove, RunMove
    DEF CheckPause, RunPcs, RunSteps, Holding, Looking, SameSchedules
  <2> QED
    BY <2>1, <2>2
<1>7. CASE StopSchedule(r)
  <2>1. {"SCHEDULED", "PROCESSING", "CANCELLED", "PUBLISHED"} \subseteq ScheduleStatuses \ {"NONE"}
    BY DEF ScheduleStatuses
  <2>2. SameSchedules
    BY <1>7, <1>0, <2>1, SchedulesMarked, Zenon DEF StopSchedule, SameSchedules
  <2> QED
    BY <1>7, <2>2, StepsMove, RunMove DEF StopSchedule, RunPcs, RunSteps, FailSteps, Holding, Looking
<1>8. CASE HoldPost(r)
  BY <1>8, StepsMove, RunMove
  DEF HoldPost, RunPcs, RunSteps, FailSteps, Holding, Looking, SameSchedules
<1>9. CASE ClaimJob(r)
  <2>1. CASE Claimable(actor[r].s) /\ actor'[r].pc = "claimSchedule"
    BY <1>9, <2>1, ClaimKeepsDiscipline
  <2>2. CASE Finish(r, "complete") /\ UNCHANGED job
    BY <1>9, <2>2, StepsMove, RunMove
    DEF ClaimJob, RunPcs, RunSteps, Holding, Looking, SameSchedules
  <2> QED
    BY <1>9, <2>1, <2>2, SMT DEF ClaimJob, TypeOK, ActorsTyped, ActorType
<1>10. CASE ClaimSchedule(r)
  <2>1. {"SCHEDULED", "PROCESSING", "CANCELLED", "PUBLISHED"} \subseteq ScheduleStatuses \ {"NONE"}
    BY DEF ScheduleStatuses
  <2>2. SameSchedules
    BY <1>10, <1>0, <2>1, SchedulesMarked, Zenon DEF ClaimSchedule, SameSchedules
  <2> QED
    BY <1>10, <2>2, StepsMove, RunMove DEF ClaimSchedule, RunPcs, RunSteps, FailSteps, Holding, Looking
<1>11. CASE ReleaseJob(r)
  BY <1>11, StepsMove, RunMove, RunFree
  DEF ReleaseJob, RunPcs, RunSteps, FailSteps, Holding, Looking, SameSchedules
<1>12. CASE MarkPublishing(r)
  BY <1>12, StepsMove, RunMove
  DEF MarkPublishing, RunPcs, RunSteps, FailSteps, Holding, Looking, SameSchedules
<1>13. CASE LoadPlan(r)
  <2>1. CASE UNCHANGED attempt
    BY <1>13, <2>1, StepsMove, RunMove
    DEF LoadPlan, RunPcs, RunSteps, FailSteps, Holding, Looking, SameSchedules
  <2>2. CASE Goto(r, "connect") /\ ~UNCHANGED attempt
    <3> DEFINE new == [status |-> "IN_FLIGHT", requestSent |-> FALSE, error |-> "none"]
    <3>1. attempt' = [attempt EXCEPT ![actor[r].s][actor[r].n] = new] /\ ~new.requestSent
      BY <1>13, <2>2 DEF LoadPlan
    <3> HIDE DEF new
    <3>2. \A s \in Schedules : Unresolved(s)' \subseteq Unresolved(s)
      BY <1>13, <1>0, <3>1, OpenAttempt DEF LoadPlan
    <3> QED
      BY <1>13, <2>2, <3>2, StepsMove, RunAnswer DEF LoadPlan, RunPcs, RunSteps, Holding, Looking
  <2> QED
    BY <1>13, <2>1, <2>2 DEF LoadPlan
<1>14. CASE Connect(r)
  BY <1>14, StepsMove, RunMove
  DEF Connect, RunPcs, RunSteps, FailSteps, Holding, Looking, SameSchedules
<1>15. CASE MarkSent(r)
  BY <1>15, SendKeepsDiscipline
<1>16. CASE Call(r)
  BY <1>16, StepsMove, RunMove
  DEF Call, RunPcs, RunSteps, FailSteps, Holding, Looking, SameSchedules
<1>17. CASE SaveSuccess(r)
  <2>1. \A s \in Schedules : Unresolved(s)' \subseteq Unresolved(s)
    BY <1>17, <1>0, AttemptAnswered DEF SaveSuccess
  <2> QED
    BY <1>17, <2>1, StepsMove, RunAnswer DEF SaveSuccess, RunPcs, RunSteps, Holding, Looking
<1>18. CASE FinishJob(r)
  BY <1>18, StepsMove, RunMove, RunFree
  DEF FinishJob, RunPcs, RunSteps, FailSteps, Holding, Looking, SameSchedules
<1>19. CASE FinishSchedule(r)
  <2>1. {"SCHEDULED", "PROCESSING", "CANCELLED", "PUBLISHED"} \subseteq ScheduleStatuses \ {"NONE"}
    BY DEF ScheduleStatuses
  <2>2. SameSchedules
    BY <1>19, <1>0, <2>1, SchedulesClosed, Zenon DEF FinishSchedule, SameSchedules
  <2> QED
    BY <1>19, <2>2, StepsMove, RunMove DEF FinishSchedule, RunPcs, RunSteps, FailSteps, Holding, Looking
<1>20. CASE FinishPost(r)
  BY <1>20, StepsMove, RunMove
  DEF FinishPost, RunPcs, RunSteps, FailSteps, Holding, Looking, SameSchedules
<1>21. CASE Hooks(r)
  BY <1>21, StepsMove, RunMove
  DEF Hooks, RunPcs, RunSteps, FailSteps, Holding, Looking, SameSchedules
<1>22. CASE SaveFailure(r)
  <2>1. /\ \A s \in Schedules : Unresolved(s)' \subseteq Unresolved(s)
        /\ \A s : s = actor[r].s => actor[r].n \notin Unresolved(s)'
    BY <1>22, <1>0, AttemptClosed DEF SaveFailure
  <2>2. \A s : s = actor[r].s => Unresolved(s)' = {}
    BY <1>22, <1>0, <2>1 DEF SaveFailure, LockDiscipline, HolderOwnsUnresolved, Holding
  <2> QED
    BY <1>22, <2>1, <2>2, StepsMove, RunAnswer
    DEF SaveFailure, Moved, RunPcs, RunSteps, FailSteps, Holding, Looking
<1>23. CASE UnclaimSchedule(r)
  <2>1. {"SCHEDULED", "PROCESSING", "CANCELLED", "PUBLISHED"} \subseteq ScheduleStatuses \ {"NONE"}
    BY DEF ScheduleStatuses
  <2>2. SameSchedules
    BY <1>23, <1>0, <2>1, SchedulesMarked, Zenon DEF UnclaimSchedule, SameSchedules
  <2> QED
    BY <1>23, <2>2, StepsMove, RunMove DEF UnclaimSchedule, RunPcs, RunSteps, FailSteps, Holding, Looking
<1>24. CASE RequeueJob(r)
  BY <1>24, StepsMove, RunMove, RunFree
  DEF RequeueJob, RunPcs, RunSteps, FailSteps, Holding, Looking, SameSchedules
<1>25. CASE MarkScheduled(r)
  BY <1>25, StepsMove, RunMove
  DEF MarkScheduled, RunPcs, RunSteps, FailSteps, Holding, Looking, SameSchedules
<1> QED
  BY <1>1, <1>2, <1>3, <1>4, <1>5, <1>6, <1>7, <1>8, <1>9, <1>10, <1>11, <1>12,
     <1>13, <1>14, <1>15, <1>16, <1>17, <1>18, <1>19, <1>20, <1>21, <1>22, <1>23, <1>24, <1>25
  DEF RunStep

-----------------------------------------------------------------------------
(* Steps of any actor that neither send, nor are about to claim or requeue. *)
Passes(a) ==
  /\ actor'[a].pc \notin Holding \cup Looking \cup TakenOver
  /\ actor'[a].pc # "idle" => actor[a].pc # "idle" /\ actor'[a].s = actor[a].s
  /\ \A b \in Actors \ {a} : actor'[b] = actor[b]

(* An actor that holds nothing afterwards is where it may be.               *)
LEMMA PassesOnward ==
  ASSUME TypeOK, LockDiscipline, NEW a \in Actors, Passes(a)
  PROVE  (\A b \in Actors : Onward(b)) /\ (\A r \in Runs : GivesUpQuietly(r))
<1>1. \A b \in Actors \ {a} : Onward(b) /\ (b \in Runs => GivesUpQuietly(b))
  BY StayOnward DEF Passes
<1>2. Onward(a) /\ GivesUpQuietly(a)
  BY AtWork DEF Onward, GivesUpQuietly, Passes, Holding, Looking, TakenOver
<1> QED
  BY <1>1, <1>2 DEF Actors

(* The ways a run or a sweep ends, or goes on without a hold.               *)
LEMMA StepsPass ==
  ASSUME TypeOK, NEW a \in Actors, actor[a].pc # "idle"
  PROVE  /\ \A step : Goto(a, step) /\ step \notin Holding \cup Looking \cup TakenOver => Passes(a)
         /\ Leave(a) => Passes(a)
         /\ Rest(a) => Passes(a)
<1>1. \A step : Goto(a, step) /\ step \notin Holding \cup Looking \cup TakenOver => Passes(a)
  BY SMT DEF Goto, Passes, TypeOK, ActorsTyped, ActorType
<1>2. Rest(a) => Passes(a)
  BY SMT DEF Rest, Idle, New, Passes, TypeOK, ActorsTyped, ActorType, Holding, Looking, TakenOver
<1>3. Finish(a, "complete") => Passes(a)
  BY SMT DEF Finish, Start, New, Passes, TypeOK, ActorsTyped, ActorType, Holding, Looking, TakenOver
<1> QED
  BY <1>1, <1>2, <1>3 DEF Leave

(* Such steps, when they leave jobs and attempts alone.                     *)
LEMMA PassMove ==
  ASSUME TypeOK, LockDiscipline, NEW a \in Actors, Passes(a), SameSchedules,
         UNCHANGED <<job, attempt, request>>,
         \A s \in Schedules : job[s].status = "NONE" => entry'[s].state = "none"
  PROVE  LockDiscipline'
  BY PassesOnward, MoveKeepsDiscipline DEF SameSchedules

(* Steps that leave BullMQ alone.                                           *)
LEMMA EntriesKept ==
  ASSUME LockDiscipline, UNCHANGED entry
  PROVE  \A s \in Schedules : job[s].status = "NONE" => entry'[s].state = "none"
  BY DEF LockDiscipline, UnmadeIsUntouched

(* Such steps, when they end the hold on the job.                           *)
LEMMA PassFree ==
  ASSUME TypeOK, TypeOK', LockDiscipline, NEW a \in Actors, actor[a].pc # "idle", Passes(a),
         UNCHANGED <<schedule, attempt, entry, request>>,
         NEW status \in {"CANCELLED", "FAILED", "SUCCEEDED"}, FreeJob(actor[a].s, status)
  PROVE  LockDiscipline'
  BY PassesOnward, AtWork, FreeJobUnlocks, FreeKeepsDiscipline

(* The failure path keeps the discipline.                                   *)
LEMMA LockFail ==
  ASSUME TypeOK, TypeOK', LockDiscipline, NEW a \in Actors, FailStep(a)
  PROVE  LockDiscipline'
<1> USE DEF At, records, outside
<1>0. actor[a].pc # "idle" =>
        /\ actor[a].s \in Schedules
        /\ job[actor[a].s].status # "NONE"
        /\ schedule[actor[a].s].status # "NONE"
  BY AtWork
<1>1. CASE FailUnresolved(a)
  <2>1. \A s \in Schedules : Unresolved(s)' \subseteq Unresolved(s)
    BY <1>1, <1>0, AttemptClosed DEF FailUnresolved
  <2>2. Passes(a)
    BY <1>1, StepsPass DEF FailUnresolved, Holding, Looking, TakenOver
  <2>3. (\A b \in Actors : Onward(b)) /\ (\A r \in Runs : GivesUpQuietly(r))
    BY <2>2, PassesOnward
  <2>4. GivingUpIsQuiet'
    <3> SUFFICES ASSUME NEW r \in Runs, actor'[r].pc \in {"unclaimSchedule", "requeueJob"}
                 PROVE  (Quiet(actor[r].s))'
      BY DEF GivingUpIsQuiet
    <3>1. Unresolved(actor'[r].s) = {} /\ actor'[r].s \in Schedules
      BY <2>3 DEF GivesUpQuietly, Quiet, TypeOK, ActorsTyped, Actors
    <3> QED
      BY <2>1, <3>1 DEF Quiet
  <2> QED
    BY <1>1, <2>1, <2>3, <2>4, AnswerKeepsDiscipline DEF FailUnresolved
<1>2. CASE FailJob(a)
  <2>1. Passes(a)
    BY <1>2, StepsPass DEF FailJob, Holding, Looking, TakenOver
  <2> QED
    BY <1>2, <2>1, PassMove, PassFree, EntriesKept DEF FailJob, SameSchedules
<1>3. CASE FailSchedule(a)
  <2>1. Passes(a)
    BY <1>3, StepsPass DEF FailSchedule, Holding, Looking, TakenOver
  <2>2. NeedsReview(a) \in BOOLEAN /\ "FAILED" \in ScheduleStatuses \ {"NONE"}
    BY DEF NeedsReview, ScheduleStatuses
  <2>3. SameSchedules
    BY <1>3, <1>0, <2>2, SchedulesClosed, Zenon DEF FailSchedule, SameSchedules
  <2> QED
    BY <1>3, <2>1, <2>3, PassMove, EntriesKept DEF FailSchedule
<1>4. CASE FailPost(a)
  <2>1. Passes(a)
    BY <1>4, StepsPass DEF FailPost
  <2> QED
    BY <1>4, <2>1, PassMove, EntriesKept DEF FailPost, SameSchedules
<1> QED
  BY <1>1, <1>2, <1>3, <1>4 DEF FailStep

(* A sweep keeps to the lock it took over.                                  *)
LEMMA SweepOnward ==
  ASSUME TypeOK, LockDiscipline, NEW v \in Sweeps, actor[v].pc \in TakenOver,
         NEW step \in {"sweepAttempts", "sweepRequeue"}, Moved(v, step),
         step = "sweepRequeue" => Quiet(actor[v].s)
  PROVE  (\A b \in Actors : Onward(b)) /\ (\A r \in Runs : GivesUpQuietly(r))
<1>1. v \in Actors /\ v \notin Runs /\ actor[v].pc # "idle"
  BY ActorsAssumption DEF Actors, TakenOver
<1>2. \A b \in Actors \ {v} : Onward(b) /\ (b \in Runs => GivesUpQuietly(b))
  BY StayOnward DEF Moved
<1>3. job[actor[v].s].status # "NONE" /\ job[actor[v].s].lockedAt # "stale"
  BY <1>1, AtWork DEF LockDiscipline, SweepsAreTimely
<1>4. Onward(v)
  BY <1>3 DEF Onward, Moved, Holding
<1> QED
  BY <1>1, <1>2, <1>4 DEF Actors

(* recoverPublishing keeps the discipline.                                  *)
LEMMA LockSweep ==
  ASSUME TypeOK, TypeOK', LockDiscipline, NEW v \in Sweeps, SweepStep(v)
  PROVE  LockDiscipline'
<1> USE DEF At, records, outside
<1> v \in Actors
  BY DEF Actors
<1>0. actor[v].pc # "idle" =>
        /\ actor[v].s \in Schedules
        /\ job[actor[v].s].status # "NONE"
        /\ schedule[actor[v].s].status # "NONE"
  BY AtWork
<1>1. CASE SweepSchedule(v)
  <2>1. CASE Goto(v, "sweepAttempts")
    <3>1. (\A b \in Actors : Onward(b)) /\ (\A r \in Runs : GivesUpQuietly(r))
      BY <1>1, <2>1, StepsMove, SweepOnward DEF SweepSchedule, TakenOver
    <3> QED
      BY <1>1, <3>1, EntriesKept, MoveKeepsDiscipline DEF SweepSchedule
  <2>2. CASE Goto(v, "sweepCancel")
    BY <1>1, <2>2, StepsPass, PassMove, EntriesKept
    DEF SweepSchedule, SameSchedules, Holding, Looking, TakenOver
  <2> QED
    BY <1>1, <2>1, <2>2 DEF SweepSchedule
<1>2. CASE SweepCancel(v)
  BY <1>2, StepsPass, PassMove, PassFree, EntriesKept DEF SweepCancel, SameSchedules
<1>3. CASE SweepAttempts(v)
  <2>1. CASE Goto(v, "sweepRequeue") /\ Quiet(actor[v].s)
    <3>1. (\A b \in Actors : Onward(b)) /\ (\A r \in Runs : GivesUpQuietly(r))
      BY <1>3, <2>1, StepsMove, SweepOnward DEF SweepAttempts, TakenOver
    <3> QED
      BY <1>3, <3>1, EntriesKept, MoveKeepsDiscipline DEF SweepAttempts
  <2>2. CASE Unresolved(actor[v].s) # {}
    <3>1. PICK n : actor' = [actor EXCEPT ![v].pc = "failUnresolved", ![v].n = n,
                                          ![v].why = "unknown"]
      BY <1>3, <2>2 DEF SweepAttempts
    <3>2. Moved(v, "failUnresolved")
      BY <3>1, SMT DEF Moved, TypeOK, ActorsTyped, ActorType, Holding
    <3>3. Passes(v)
      BY <1>3, <3>2 DEF SweepAttempts, Passes, Moved, Holding, Looking, TakenOver
    <3> QED
      BY <1>3, <3>3, PassMove, EntriesKept DEF SweepAttempts, SameSchedules
  <2> QED
    BY <1>3, <2>1, <2>2 DEF SweepAttempts, Quiet
<1>4. CASE SweepRequeue(v)
  <2>1. Passes(v)
    BY <1>4, StepsPass DEF SweepRequeue, Holding, Looking, TakenOver
  <2>2. CASE ~HoldsLock(v)
    BY <1>4, <2>1, <2>2, PassMove, EntriesKept DEF SweepRequeue, SameSchedules
  <2>3. CASE HoldsLock(v)
    <3>1. Quiet(actor[v].s)
      BY <1>4, <2>3 DEF SweepRequeue, LockDiscipline, SweepHasLooked
    <3>2. JobOpen(actor[v].s)
      BY <1>4, <1>0, <2>3, LockNames
      DEF SweepRequeue, HoldsLock, LockDiscipline, LocksAreHeld, JobOpen
    <3>3. \A r \in Runs : actor[r].pc \in Holding => actor[r].s # actor[v].s
      BY <2>3, <3>2, LockNames DEF LockDiscipline, HolderHasLock, HoldsLock
    <3>4. \A r \in Runs : actor'[r].pc \in Holding => actor'[r].s # actor[v].s
      BY <3>3, <2>1, ActorsAssumption DEF Passes, Actors
    <3> QED
      BY <1>4, <1>0, <2>1, <2>3, <3>1, <3>4, PassesOnward, FreeJobUnlocks, FreeKeepsDiscipline
      DEF SweepRequeue
  <2> QED
    BY <2>2, <2>3
<1>5. CASE SweepUnclaim(v)
  <2>1. {"SCHEDULED"} \subseteq ScheduleStatuses \ {"NONE"}
    BY DEF ScheduleStatuses
  <2>2. SameSchedules
    BY <1>5, <1>0, <2>1, SchedulesMarked, Zenon DEF SweepUnclaim, SameSchedules
  <2> QED
    BY <1>5, <2>2, StepsPass, PassMove, EntriesKept DEF SweepUnclaim, Holding, Looking, TakenOver
<1>6. CASE SweepPost(v)
  BY <1>6, StepsPass, PassMove, EntriesKept
  DEF SweepPost, SameSchedules, Holding, Looking, TakenOver
<1>7. CASE DueSchedule(v)
  BY <1>7, StepsPass, PassMove, EntriesKept
  DEF DueSchedule, SameSchedules, Holding, Looking, TakenOver
<1>8. CASE CheckEntry(v)
  BY <1>8, StepsPass, PassMove, EntriesKept
  DEF CheckEntry, SameSchedules, Holding, Looking, TakenOver
<1>9. CASE ReaddEntry(v)
  <2>1. \A s \in Schedules : job[s].status = "NONE" => entry'[s].state = "none"
    BY <1>9, <1>0, SMT DEF ReaddEntry, LockDiscipline, UnmadeIsUntouched, TypeOK
  <2> QED
    BY <1>9, <2>1, StepsPass, PassMove DEF ReaddEntry, SameSchedules
<1> QED
  BY <1>1, <1>2, <1>3, <1>4, <1>5, <1>6, <1>7, <1>8, <1>9 DEF SweepStep

-----------------------------------------------------------------------------
(* Requests, BullMQ and faults.                                             *)
RequestsElsewhere ==
  \A h \in Requests :
    request'[h].pc \in {"createJob", "addEntry"} => request'[h] = request[h]

(* Steps that leave actors, jobs and attempts alone.                        *)
LEMMA RequestMove ==
  ASSUME TypeOK, LockDiscipline, UNCHANGED <<job, attempt, actor>>, SameSchedules,
         RequestsElsewhere,
         \A s \in Schedules : job[s].status = "NONE" => entry'[s].state = "none"
  PROVE  LockDiscipline'
<1>1. (\A a \in Actors : Onward(a)) /\ (\A r \in Runs : GivesUpQuietly(r))
  BY StayOnward DEF Actors
<1> QED
  BY <1>1, MoveKeepsDiscipline DEF SameSchedules, RequestsElsewhere

(* A request that moves on is not about to create anything.                 *)
LEMMA RequestsStepOver ==
  ASSUME TypeOK, NEW h \in Requests
  PROVE  /\ \A step : Step(h, step) /\ step \notin {"createJob", "addEntry"} => RequestsElsewhere
         /\ Done(h) => RequestsElsewhere
<1>1. \A step : Step(h, step) /\ step \notin {"createJob", "addEntry"} => RequestsElsewhere
  BY SMT DEF TypeOK, RequestType, Step, RequestsElsewhere
<1>2. Done(h) => RequestsElsewhere
  BY SMT DEF TypeOK, Done, NoRequest, RequestsElsewhere
<1> QED
  BY <1>1, <1>2

(* A new schedule has no job, and its request alone will create one.        *)
LEMMA CreateKeepsDiscipline ==
  ASSUME TypeOK, LockDiscipline, LiveIsOnItsWay, NEW h \in Requests, CreateSchedule(h)
  PROVE  LockDiscipline'
<1> USE DEF LockDiscipline, records, outside
<1>0. UNCHANGED <<job, attempt, entry, actor>>
  BY DEF CreateSchedule
<1>1. CASE Done(h) /\ UNCHANGED schedule
  <2>1. RequestsElsewhere
    BY <1>1, RequestsStepOver
  <2> QED
    BY <1>0, <1>1, <2>1, RequestMove, EntriesKept DEF SameSchedules
<1>2. CASE \E s \in Schedules :
             /\ schedule[s].status = "NONE"
             /\ SetSchedule(s, "SCHEDULED", TRUE)
             /\ request' = [request EXCEPT ![h].pc = "createJob", ![h].s = s]
  <2>1. PICK s \in Schedules :
             /\ schedule[s].status = "NONE"
             /\ SetSchedule(s, "SCHEDULED", TRUE)
             /\ request' = [request EXCEPT ![h].pc = "createJob", ![h].s = s]
    BY <1>2
  <2>2. /\ schedule'[s].status = "SCHEDULED"
        /\ \A t \in Schedules \ {s} : schedule'[t] = schedule[t]
    BY <2>1, SMT DEF SetSchedule, TypeOK, ScheduleType
  <2>3. /\ request'[h].pc = "createJob" /\ request'[h].s = s
        /\ \A g \in Requests \ {h} : request'[g] = request[g]
    BY <2>1, SMT DEF TypeOK, RequestType
  <2>4. job[s].status = "NONE"
    BY <2>1 DEF UnmadeScheduleHasNoJob
  <2>5. \A t : Unresolved(t)' = Unresolved(t) /\ (Quiet(t)' <=> Quiet(t))
    BY <1>0 DEF Unresolved, Quiet
  <2>6. LocksAreHeld'
    BY <1>0 DEF LocksAreHeld
  <2>7. HolderHasLock'
    BY <1>0 DEF HolderHasLock, JobOpen, HoldsLock
  <2>8. OneHolder'
    BY <1>0 DEF OneHolder
  <2>9. SweepsAreTimely'
    BY <1>0 DEF SweepsAreTimely
  <2>10. UnmadeIsUntouched'
    BY <1>0, <2>3, <2>5 DEF UnmadeIsUntouched
  <2>11. UnmadeScheduleHasNoJob'
    BY <1>0, <2>2 DEF UnmadeScheduleHasNoJob
  <2>12. CreatedOnce'
    <3>1. \A g \in Requests : request'[g].pc = "createJob" =>
            /\ request'[g].s \in Schedules
            /\ schedule'[request'[g].s].status # "NONE"
            /\ job'[request'[g].s].status = "NONE"
      BY <1>0, <2>2, <2>3, <2>4 DEF CreatedOnce
    <3>2. \A g \in Requests \ {h} : request[g].pc = "createJob" => request[g].s # s
      BY <2>1 DEF CreatedOnce
    <3>3. \A f, g \in Requests :
            request'[f].pc = "createJob" /\ request'[g].pc = "createJob"
              /\ request'[f].s = request'[g].s => f = g
      BY <2>3, <3>2 DEF CreatedOnce
    <3> QED
      BY <3>1, <3>3 DEF CreatedOnce
  <2>13. WaitingIsQuiet'
    BY <1>0, <2>5 DEF WaitingIsQuiet
  <2>14. ClaimantsHaveLooked'
    BY <1>0, <2>5 DEF ClaimantsHaveLooked
  <2>15. HolderOwnsUnresolved'
    BY <1>0, <2>5 DEF HolderOwnsUnresolved
  <2>16. GivingUpIsQuiet'
    BY <1>0, <2>5 DEF GivingUpIsQuiet
  <2>17. SweepHasLooked'
    BY <1>0, <2>5 DEF SweepHasLooked, HoldsLock
  <2> QED
    BY <2>6, <2>7, <2>8, <2>9, <2>10, <2>11, <2>12, <2>13, <2>14, <2>15, <2>16, <2>17
<1> QED
  BY <1>1, <1>2 DEF CreateSchedule

(* A job is created for a schedule that never had one.                      *)
LEMMA CreateJobKeepsDiscipline ==
  ASSUME TypeOK, LockDiscipline, NEW h \in Requests, CreateJob(h)
  PROVE  LockDiscipline'
<1> USE DEF LockDiscipline, records, outside
<1>0. UNCHANGED <<schedule, attempt, entry, actor>> /\ request[h].pc = "createJob"
  BY DEF CreateJob
<1>1. PICK s : s = request[h].s
  OBVIOUS
<1>2. s \in Schedules /\ schedule[s].status # "NONE" /\ job[s].status = "NONE"
  BY <1>0, <1>1 DEF CreatedOnce
<1>3. job' = [job EXCEPT ![s].status = "QUEUED"]
  BY <1>1 DEF CreateJob
<1>4. /\ job'[s].status = "QUEUED" /\ job'[s].lockedBy = job[s].lockedBy
      /\ job'[s].lockedAt = job[s].lockedAt
      /\ \A t \in Schedules \ {s} : job'[t] = job[t]
  BY <1>2, <1>3, SMT DEF TypeOK, JobType
<1>5. /\ request'[h].pc = "addEntry" /\ request'[h].s = s
      /\ \A g \in Requests \ {h} : request'[g] = request[g]
  BY <1>1, SMT DEF CreateJob, Step, TypeOK, RequestType
<1>6. \A t : Unresolved(t)' = Unresolved(t) /\ (Quiet(t)' <=> Quiet(t))
  BY <1>0 DEF Unresolved, Quiet
<1>7. /\ Quiet(s)
      /\ \A a \in Actors : actor[a].pc # "idle" => actor[a].s \in Schedules \ {s}
  BY <1>2 DEF UnmadeIsUntouched, TypeOK, ActorsTyped
<1>8. LocksAreHeld'
  BY <1>2, <1>4 DEF LocksAreHeld
<1>9. HolderHasLock'
  BY <1>0, <1>4, <1>7 DEF HolderHasLock, JobOpen, HoldsLock, Holding, Actors
<1>10. OneHolder'
  BY <1>0 DEF OneHolder
<1>11. SweepsAreTimely'
  BY <1>0, <1>4, <1>7 DEF SweepsAreTimely, TakenOver, Actors
<1>12. UnmadeIsUntouched'
  BY <1>0, <1>2, <1>4, <1>5, <1>6 DEF UnmadeIsUntouched
<1>13. UnmadeScheduleHasNoJob'
  BY <1>0, <1>2, <1>4 DEF UnmadeScheduleHasNoJob
<1>14. CreatedOnce'
  BY <1>0, <1>1, <1>4, <1>5 DEF CreatedOnce
<1>15. WaitingIsQuiet'
  BY <1>4, <1>6, <1>7 DEF WaitingIsQuiet
<1>16. ClaimantsHaveLooked'
  BY <1>0, <1>4, <1>6, <1>7 DEF ClaimantsHaveLooked, Actors
<1>17. HolderOwnsUnresolved'
  BY <1>0, <1>6 DEF HolderOwnsUnresolved
<1>18. GivingUpIsQuiet'
  BY <1>0, <1>6 DEF GivingUpIsQuiet
<1>19. SweepHasLooked'
  BY <1>0, <1>4, <1>6, <1>7 DEF SweepHasLooked, HoldsLock, Actors
<1> QED
  BY <1>8, <1>9, <1>10, <1>11, <1>12, <1>13, <1>14, <1>15, <1>16, <1>17, <1>18, <1>19

(* The API's requests keep the discipline.                                  *)
LEMMA LockRequest ==
  ASSUME TypeOK, TypeOK', LockDiscipline, LiveIsOnItsWay, NEW h \in Requests, RequestStep(h)
  PROVE  LockDiscipline'
<1> USE DEF records, outside
<1>1. CASE FindScheduled(h)
  <2>1. RequestsElsewhere
    BY <1>1, RequestsStepOver, SMT DEF FindScheduled, TypeOK, RequestType, RequestsElsewhere
  <2> QED
    BY <1>1, <2>1, RequestMove, EntriesKept DEF FindScheduled, SameSchedules
<1>2. CASE CancelLive(h)
  <2>1. RequestsElsewhere
    <3>1. CASE Step(h, "checkLive")
      BY <3>1, RequestsStepOver
    <3>2. CASE \E s \in Schedules : request' = [request EXCEPT ![h].pc = "cancelJob", ![h].s = s]
      BY <3>2, SMT DEF TypeOK, RequestType, RequestsElsewhere
    <3> QED
      BY <1>2, <3>1, <3>2 DEF CancelLive
  <2>2. SameSchedules
    <3>1. CASE UNCHANGED schedule
      BY <3>1 DEF SameSchedules
    <3>2. CASE \E s \in Schedules : Cancellable(s) /\ SetSchedule(s, "CANCELLED", FALSE)
      <4>1. PICK s \in Schedules : Cancellable(s) /\ SetSchedule(s, "CANCELLED", FALSE)
        BY <3>2
      <4>2. schedule[s].status # "NONE" /\ "CANCELLED" \in ScheduleStatuses \ {"NONE"}
        BY <4>1 DEF LiveIsOnItsWay, Cancellable, ScheduleStatuses
      <4> QED
        BY <4>1, <4>2, SchedulesMarked, Zenon
    <3> QED
      BY <1>2, <3>1, <3>2 DEF CancelLive
  <2> QED
    BY <1>2, <2>1, <2>2, RequestMove, EntriesKept DEF CancelLive
<1>3. CASE CheckLive(h)
  <2>1. RequestsElsewhere
    BY <1>3, RequestsStepOver DEF CheckLive, AfterCancel
  <2> QED
    BY <1>3, <2>1, RequestMove, EntriesKept DEF CheckLive, SameSchedules
<1>4. CASE CancelJob(h)
  <2>1. RequestsElsewhere
    BY <1>4, RequestsStepOver DEF CancelJob, AfterCancel
  <2>2. CASE UNCHANGED job
    BY <1>4, <2>1, <2>2, RequestMove, EntriesKept DEF CancelJob, SameSchedules
  <2>3. CASE job[request[h].s].status = "QUEUED" /\ ~UNCHANGED job
    <3>1. PICK s : s = request[h].s
      OBVIOUS
    <3>2. job' = [job EXCEPT ![s].status = "CANCELLED"]
      BY <1>4, <2>3, <3>1 DEF CancelJob
    <3>3. s \in Schedules
      BY <2>3, <3>2, SMT DEF TypeOK
    <3>4. job[s].lockedBy = None /\ job[s].lockedAt = "null"
      BY <2>3, <3>1, <3>3 DEF LockDiscipline, LocksAreHeld
    <3>5. Unlocks(s, "CANCELLED")
      BY <3>2, <3>3, <3>4, SMT DEF Unlocks, TypeOK, JobType
    <3>6. (\A a \in Actors : Onward(a)) /\ (\A r \in Runs : GivesUpQuietly(r))
      BY <1>4, StayOnward DEF CancelJob, Actors
    <3> QED
      BY <1>4, <2>1, <2>3, <3>1, <3>3, <3>5, <3>6, FreeKeepsDiscipline
      DEF CancelJob, RequestsElsewhere
  <2> QED
    BY <1>4, <2>2, <2>3 DEF CancelJob
<1>5. CASE RemoveEntry(h)
  <2>1. RequestsElsewhere
    BY <1>5, RequestsStepOver DEF RemoveEntry, AfterCancel
  <2>2. \A s \in Schedules : job[s].status = "NONE" => entry'[s].state = "none"
    BY <1>5, SMT DEF RemoveEntry, LockDiscipline, UnmadeIsUntouched, TypeOK
  <2> QED
    BY <1>5, <2>1, <2>2, RequestMove DEF RemoveEntry, SameSchedules
<1>8. CASE AddEntry(h)
  <2>1. RequestsElsewhere
    BY <1>8, RequestsStepOver DEF AddEntry
  <2>2. \A s \in Schedules : job[s].status = "NONE" => entry'[s].state = "none"
    BY <1>8, SMT DEF AddEntry, LockDiscipline, UnmadeIsUntouched, TypeOK
  <2> QED
    BY <1>8, <2>1, <2>2, RequestMove DEF AddEntry, SameSchedules
<1>9. CASE SavePost(h)
  <2>1. RequestsElsewhere
    BY <1>9, RequestsStepOver DEF SavePost
  <2> QED
    BY <1>9, <2>1, RequestMove, EntriesKept DEF SavePost, SameSchedules
<1> QED
  BY <1>1, <1>2, <1>3, <1>4, <1>5, <1>8, <1>9, CreateKeepsDiscipline, CreateJobKeepsDiscipline
  DEF RequestStep

(* A lock goes stale only when nobody is at work on its job.                *)
LEMMA ExpiryKeepsDiscipline ==
  ASSUME TypeOK, LockDiscipline, NEW s \in Schedules, LockExpires(s)
  PROVE  LockDiscipline'
<1> USE DEF LockDiscipline
<1>0. UNCHANGED <<schedule, attempt, entry, actor, request>>
  BY DEF LockExpires
<1>1. /\ job'[s].status = job[s].status /\ job'[s].lockedBy = job[s].lockedBy
      /\ job'[s].lockedAt = "stale" /\ job[s].lockedAt = "fresh"
      /\ \A t \in Schedules \ {s} : job'[t] = job[t]
  BY SMT DEF LockExpires, TypeOK, JobType
<1>2. \A a \in Actors : actor[a].pc # "idle" => actor[a].s \in Schedules \ {s}
  BY DEF LockExpires, TypeOK, ActorsTyped
<1>3. \A t : Unresolved(t)' = Unresolved(t) /\ (Quiet(t)' <=> Quiet(t))
  BY <1>0 DEF Unresolved, Quiet
<1>4. LocksAreHeld'
  BY <1>1 DEF LocksAreHeld
<1>5. HolderHasLock'
  BY <1>0, <1>1, <1>2 DEF HolderHasLock, JobOpen, HoldsLock, Holding, Actors
<1>6. OneHolder'
  BY <1>0 DEF OneHolder
<1>7. SweepsAreTimely'
  BY <1>0, <1>1, <1>2 DEF SweepsAreTimely, TakenOver, Actors
<1>8. UnmadeIsUntouched'
  BY <1>0, <1>1, <1>3 DEF UnmadeIsUntouched
<1>9. UnmadeScheduleHasNoJob'
  BY <1>0, <1>1 DEF UnmadeScheduleHasNoJob
<1>10. CreatedOnce'
  <2>1. \A t \in Schedules : job'[t].status = job[t].status
    BY <1>1
  <2> QED
    BY <1>0, <2>1 DEF CreatedOnce
<1>11. WaitingIsQuiet'
  BY <1>1, <1>3 DEF WaitingIsQuiet
<1>12. ClaimantsHaveLooked'
  BY <1>0, <1>1, <1>2, <1>3 DEF ClaimantsHaveLooked, Actors
<1>13. HolderOwnsUnresolved'
  BY <1>0, <1>3 DEF HolderOwnsUnresolved
<1>14. GivingUpIsQuiet'
  BY <1>0, <1>3 DEF GivingUpIsQuiet
<1>15. SweepHasLooked'
  BY <1>0, <1>1, <1>2, <1>3 DEF SweepHasLooked, HoldsLock, Actors
<1> QED
  BY <1>4, <1>5, <1>6, <1>7, <1>8, <1>9, <1>10, <1>11, <1>12, <1>13, <1>14, <1>15

(* Recovery takes over a stale lock, which no run and no sweep can hold.    *)
LEMMA TakeOverKeepsDiscipline ==
  ASSUME TypeOK, LockDiscipline, NEW v \in Sweeps, NEW s \in Schedules, TakeAbandoned(v, s)
  PROVE  LockDiscipline'
<1> USE DEF LockDiscipline
<1>0. /\ UNCHANGED <<schedule, attempt, entry, request>> /\ v \in Actors
      /\ job[s].status = "PROCESSING" /\ job[s].lockedAt = "stale"
  BY DEF TakeAbandoned, records, Actors
<1>1. /\ job'[s].status = "PROCESSING" /\ job'[s].lockedBy = LockName(v)
      /\ job'[s].lockedAt = "fresh"
      /\ \A t \in Schedules \ {s} : job'[t] = job[t]
  BY <1>0, SMT DEF TakeAbandoned, TypeOK, JobType
<1>2. /\ actor'[v].pc = "sweepSchedule" /\ actor'[v].s = s
      /\ \A b \in Actors \ {v} : actor'[b] = actor[b]
  BY <1>0, SMT DEF TakeAbandoned, Start, New, TypeOK, ActorsTyped
<1>3. \A a \in Actors : actor[a].pc # "idle" => actor[a].s = s \/ actor[a].s \in Schedules \ {s}
  BY DEF TypeOK, ActorsTyped
<1>4. /\ \A r \in Runs : actor[r].pc \in Holding => actor[r].s # s
      /\ \A w \in Sweeps : actor[w].pc \in TakenOver => actor[w].s # s
  BY <1>0 DEF HolderHasLock, SweepsAreTimely, JobOpen
<1>5. \A t : Unresolved(t)' = Unresolved(t) /\ (Quiet(t)' <=> Quiet(t))
  BY <1>0 DEF Unresolved, Quiet
<1>6. \A r \in Runs : actor'[r] = actor[r] /\ r \in Actors
  BY <1>2, ActorsAssumption DEF Actors
<1>7. LocksAreHeld'
  BY <1>1 DEF LocksAreHeld
<1>8. HolderHasLock'
  BY <1>1, <1>3, <1>4, <1>6 DEF HolderHasLock, JobOpen, HoldsLock, Holding
<1>9. OneHolder'
  BY <1>6 DEF OneHolder
<1>10. SweepsAreTimely'
  BY <1>1, <1>2, <1>3, <1>4 DEF SweepsAreTimely, TakenOver, Actors
<1>11. UnmadeIsUntouched'
  BY <1>0, <1>1, <1>2, <1>5 DEF UnmadeIsUntouched
<1>12. UnmadeScheduleHasNoJob'
  BY <1>0, <1>1 DEF UnmadeScheduleHasNoJob
<1>13. CreatedOnce'
  <2>1. \A t \in Schedules : job'[t].status = job[t].status
    BY <1>0, <1>1
  <2> QED
    BY <1>0, <2>1 DEF CreatedOnce
<1>14. WaitingIsQuiet'
  BY <1>1, <1>5 DEF WaitingIsQuiet
<1>15. ClaimantsHaveLooked'
  BY <1>1, <1>3, <1>5, <1>6 DEF ClaimantsHaveLooked
<1>16. HolderOwnsUnresolved'
  BY <1>5, <1>6 DEF HolderOwnsUnresolved
<1>17. GivingUpIsQuiet'
  BY <1>5, <1>6 DEF GivingUpIsQuiet
<1>18. SweepHasLooked'
  BY <1>1, <1>2, <1>3, <1>4, <1>5 DEF SweepHasLooked, HoldsLock, TakenOver, Actors
<1> QED
  BY <1>7, <1>8, <1>9, <1>10, <1>11, <1>12, <1>13, <1>14, <1>15, <1>16, <1>17, <1>18

(* BullMQ and the ageing of locks keep the discipline.                      *)
LEMMA LockQueue ==
  ASSUME TypeOK, TypeOK', LockDiscipline,
         \/ \E r \in Runs : Complete(r) \/ Rethrow(r) \/ (\E s \in Schedules : Deliver(r, s))
         \/ \E s \in Schedules : QueueNext(s)
  PROVE  LockDiscipline'
<1> USE DEF At, records, outside
<1>0. \A s \in Schedules : job[s].status = "NONE" => entry[s].state = "none"
  BY DEF LockDiscipline, UnmadeIsUntouched
<1>1. ASSUME NEW r \in Runs, Complete(r)
      PROVE  LockDiscipline'
  <2>1. actor[r].pc # "idle" /\ r \in Actors /\ job[actor[r].s].status # "NONE"
    BY <1>1, AtWork DEF Complete, Actors
  <2>2. Passes(r)
    BY <1>1, <2>1, StepsPass DEF Complete
  <2>3. \A s \in Schedules : job[s].status = "NONE" => entry'[s].state = "none"
    <3>1. \/ entry' = entry
          \/ entry' = [entry EXCEPT ![actor[r].s] =
                         [@ EXCEPT !.state = "finished", !.owner = None]]
      BY <1>1, Zenon DEF Complete
    <3>2. entry' = entry \/ \E e : entry' = [entry EXCEPT ![actor[r].s] = e]
      BY ONLY <3>1, Zenon
    <3>3. DOMAIN entry = Schedules
      BY Zenon DEF TypeOK
    <3>4. \A s \in Schedules : s # actor[r].s => entry'[s] = entry[s]
      BY ONLY <3>2, <3>3, Zenon
    <3> QED
      BY <1>0, <2>1, <3>4, Zenon
  <2>4. UNCHANGED <<job, attempt, request>> /\ schedule' = schedule
    BY <1>1 DEF Complete
  <2>5. SameSchedules
    BY <2>4 DEF SameSchedules
  <2> QED
    BY <2>1, <2>2, <2>3, <2>4, <2>5, PassMove, Zenon
<1>2. ASSUME NEW r \in Runs, Rethrow(r)
      PROVE  LockDiscipline'
  <2>1. actor[r].pc # "idle" /\ r \in Actors /\ job[actor[r].s].status # "NONE"
    BY <1>2, AtWork DEF Rethrow, Actors
  <2>2. Passes(r)
    BY <1>2, <2>1, StepsPass DEF Rethrow
  <2>3. \A s \in Schedules : job[s].status = "NONE" => entry'[s].state = "none"
    <3>1. entry' = entry \/ \E e : entry' = [entry EXCEPT ![actor[r].s] = e]
      BY <1>2, Zenon DEF Rethrow
    <3>2. DOMAIN entry = Schedules
      BY Zenon DEF TypeOK
    <3>3. \A s \in Schedules : s # actor[r].s => entry'[s] = entry[s]
      BY ONLY <3>1, <3>2, Zenon
    <3> QED
      BY <1>0, <2>1, <3>3, Zenon
  <2>4. UNCHANGED <<job, attempt, request>> /\ schedule' = schedule
    BY <1>2 DEF Rethrow
  <2>5. SameSchedules
    BY <2>4 DEF SameSchedules
  <2> QED
    BY <2>1, <2>2, <2>3, <2>4, <2>5, PassMove, Zenon
<1>3. ASSUME NEW r \in Runs, NEW s \in Schedules, Deliver(r, s)
      PROVE  LockDiscipline'
  <2>1. /\ actor'[r].pc = "readJob" /\ actor'[r].s = s
        /\ \A b \in Actors \ {r} : actor'[b] = actor[b]
    BY <1>3, SMT DEF Deliver, Start, New, TypeOK, ActorsTyped, Actors
  <2>2. job[s].status # "NONE"
    BY <1>0, <1>3 DEF Deliver
  <2>3. Onward(r) /\ GivesUpQuietly(r)
    BY <2>1, <2>2 DEF Onward, GivesUpQuietly, Holding, TakenOver
  <2>4. (\A a \in Actors : Onward(a)) /\ (\A q \in Runs : GivesUpQuietly(q))
    BY <2>1, <2>3, StayOnward DEF Actors
  <2>5. \A t \in Schedules : job[t].status = "NONE" => entry'[t].state = "none"
    BY <1>0, <1>3, <2>2, SMT DEF Deliver, TypeOK
  <2> QED
    BY <1>3, <2>4, <2>5, MoveKeepsDiscipline DEF Deliver
<1>4. ASSUME NEW s \in Schedules, Stalled(s) \/ Redeliver(s) \/ LoseEntry(s)
      PROVE  LockDiscipline'
  <2>1. job[s].status # "NONE"
    BY <1>0, <1>4 DEF Stalled, Redeliver, LoseEntry, Abandoned
  <2>2. \A t \in Schedules : t # s => entry'[t] = entry[t]
    BY <1>4, SMT DEF Stalled, Redeliver, LoseEntry, TypeOK
  <2>3. \A t \in Schedules : job[t].status = "NONE" => entry'[t].state = "none"
    BY <1>0, <2>1, <2>2
  <2> QED
    BY <1>4, <2>3, RequestMove
    DEF Stalled, Redeliver, LoseEntry, SameSchedules, RequestsElsewhere
<1>5. ASSUME NEW s \in Schedules, LockExpires(s)
      PROVE  LockDiscipline'
  BY <1>5, ExpiryKeepsDiscipline
<1> QED
  BY <1>1, <1>2, <1>3, <1>4, <1>5 DEF QueueNext

(* Faults, and what begins a pass or a request, keep the discipline.        *)
LEMMA LockEvent ==
  ASSUME TypeOK, TypeOK', LockDiscipline,
         \/ \E r \in Runs : StoreError(r) \/ LoseAnswer(r)
         \/ \E v \in Sweeps, s \in Schedules : TakeAbandoned(v, s) \/ FindDue(v, s)
         \/ \E h \in Requests :
              \/ ApiCrash(h) \/ BeginArchive(h)
              \/ \E op \in {"schedule", "unschedule", "setReady"} : Begin(h, op)
         \/ \E p \in Procs : Crash(p)
         \/ Pause \/ Resume \/ Restore
  PROVE  LockDiscipline'
<1> USE DEF At, records, outside
<1>1. ASSUME NEW r \in Runs, StoreError(r) \/ LoseAnswer(r)
      PROVE  LockDiscipline'
  <2>1. actor[r].pc \in Holding /\ actor[r].pc # "idle" /\ r \in Actors
    BY <1>1 DEF StoreError, LoseAnswer, Holding, Actors
  <2>2. Moved(r, "saveFailure")
    BY <1>1, <2>1, StepsMove DEF StoreError, LoseAnswer
  <2> QED
    BY <1>1, <2>1, <2>2, RunMove DEF StoreError, LoseAnswer, SameSchedules, RunPcs, RunSteps, Looking
<1>2. ASSUME NEW v \in Sweeps, NEW s \in Schedules, TakeAbandoned(v, s)
      PROVE  LockDiscipline'
  BY <1>2, TakeOverKeepsDiscipline
<1>3. ASSUME NEW v \in Sweeps, NEW s \in Schedules, FindDue(v, s)
      PROVE  LockDiscipline'
  <2>1. /\ actor'[v].pc = "dueSchedule" /\ actor'[v].s = s
        /\ \A b \in Actors \ {v} : actor'[b] = actor[b]
    BY <1>3, SMT DEF FindDue, Start, New, TypeOK, ActorsTyped, Actors
  <2>2. Onward(v) /\ GivesUpQuietly(v)
    BY <1>3, <2>1 DEF FindDue, Onward, GivesUpQuietly, Holding, TakenOver
  <2>3. (\A a \in Actors : Onward(a)) /\ (\A q \in Runs : GivesUpQuietly(q))
    BY <2>1, <2>2, StayOnward DEF Actors
  <2> QED
    BY <1>3, <2>3, EntriesKept, MoveKeepsDiscipline DEF FindDue
<1>4. ASSUME NEW h \in Requests, ApiCrash(h)
      PROVE  LockDiscipline'
  <2>1. RequestsElsewhere
    BY <1>4, RequestsStepOver DEF ApiCrash
  <2> QED
    BY <1>4, <2>1, RequestMove, EntriesKept DEF ApiCrash, SameSchedules
<1>5. ASSUME NEW h \in Requests, BeginArchive(h)
      PROVE  LockDiscipline'
  <2>1. RequestsElsewhere
    BY <1>5, SMT DEF BeginArchive, TypeOK, RequestsElsewhere
  <2> QED
    BY <1>5, <2>1, RequestMove, EntriesKept DEF BeginArchive, SameSchedules
<1>6. ASSUME NEW h \in Requests, NEW op \in {"schedule", "unschedule", "setReady"}, Begin(h, op)
      PROVE  LockDiscipline'
  <2>1. RequestsElsewhere
    BY <1>6, SMT DEF Begin, TypeOK, RequestsElsewhere
  <2> QED
    BY <1>6, <2>1, RequestMove, EntriesKept DEF Begin, SameSchedules
<1>7. ASSUME NEW p \in Procs, Crash(p)
      PROVE  LockDiscipline'
  <2>1. \A a \in Actors : actor'[a] = actor[a] \/ actor'[a].pc = "idle"
    BY <1>7, SMT DEF Crash, Idle, New
  <2>2. (\A a \in Actors : Onward(a)) /\ (\A r \in Runs : GivesUpQuietly(r))
    BY <2>1, StayOnward DEF Onward, GivesUpQuietly, Actors
  <2> QED
    BY <1>7, <2>2, EntriesKept, MoveKeepsDiscipline DEF Crash
<1>8. CASE Pause \/ Resume \/ Restore
  BY <1>8, RequestMove, EntriesKept DEF Pause, Resume, Restore, SameSchedules, RequestsElsewhere
<1> QED
  BY <1>1, <1>2, <1>3, <1>4, <1>5, <1>6, <1>7, <1>8

-----------------------------------------------------------------------------
(* What any step does to the schedules.                                     *)

ScheduleMoves ==
  \/ UNCHANGED schedule
  \/ \E s \in Schedules :
       \/ Live(s) /\ (SetSchedule(s, "SCHEDULED", TRUE) \/ SetSchedule(s, "PROCESSING", TRUE))
       \/ schedule[s].status = "NONE" /\ SetSchedule(s, "SCHEDULED", TRUE)
       \/ Live(s) /\ SetSchedule(s, "CANCELLED", FALSE)
       \/ \E review \in BOOLEAN : Live(s) /\
            schedule' = [schedule EXCEPT ![s] =
                           [status |-> "FAILED", isLive |-> FALSE, needsReview |-> review]]
       \/ schedule' = [schedule EXCEPT ![s] =
                         [status |-> "PUBLISHED", isLive |-> FALSE, needsReview |-> FALSE]]

(* What runPublishJob does to a schedule.                                   *)
LEMMA MovesOfRuns ==
  ASSUME TypeOK, NEW r \in Runs, RunStep(r)
  PROVE  ScheduleMoves
<1> USE DEF At, records, outside
<1>0. actor[r].pc # "idle" => actor[r].s \in Schedules
  BY DEF TypeOK, ActorsTyped, Actors
<1>1. CASE \/ ReadJob(r) \/ ReadSchedule(r) \/ DropJob(r) \/ ReadAttempts(r)
           \/ CheckWorkspace(r) \/ CheckPause(r) \/ HoldPost(r) \/ ClaimJob(r)
           \/ ReleaseJob(r) \/ MarkPublishing(r) \/ LoadPlan(r) \/ Connect(r)
           \/ MarkSent(r) \/ Call(r) \/ SaveSuccess(r) \/ FinishJob(r) \/ FinishPost(r)
           \/ Hooks(r) \/ SaveFailure(r) \/ RequeueJob(r) \/ MarkScheduled(r)
  BY <1>1, Zenon
  DEF ReadJob, ReadSchedule, DropJob, ReadAttempts, CheckWorkspace, CheckPause, HoldPost,
      ClaimJob, ReleaseJob, MarkPublishing, LoadPlan, Connect, MarkSent, Call, SaveSuccess,
      FinishJob, FinishPost, Hooks, SaveFailure, RequeueJob, MarkScheduled, ScheduleMoves
<1>2. CASE StopSchedule(r) \/ ClaimSchedule(r) \/ FinishSchedule(r) \/ UnclaimSchedule(r)
  <2>1. actor[r].s \in Schedules
    BY <1>0, <1>2 DEF StopSchedule, ClaimSchedule, FinishSchedule, UnclaimSchedule
  <2> QED
    BY <1>2, <2>1, Zenon
    DEF StopSchedule, ClaimSchedule, FinishSchedule, UnclaimSchedule, ScheduleMoves
<1> QED
  BY <1>1, <1>2 DEF RunStep

(* What the failure path does to a schedule.                                *)
LEMMA MovesOfFailing ==
  ASSUME TypeOK, NEW a \in Actors, FailStep(a)
  PROVE  ScheduleMoves
<1> USE DEF At, records, outside
<1>1. CASE FailUnresolved(a) \/ FailJob(a) \/ FailPost(a)
  BY <1>1 DEF FailUnresolved, FailJob, FailPost, ScheduleMoves
<1>2. CASE FailSchedule(a)
  <2>1. actor[a].s \in Schedules
    BY <1>2 DEF TypeOK, ActorsTyped, FailSchedule
  <2>2. NeedsReview(a) \in BOOLEAN
    BY DEF NeedsReview
  <2> QED
    BY <1>2, <2>1, <2>2, Zenon DEF FailSchedule, ScheduleMoves
<1> QED
  BY <1>1, <1>2 DEF FailStep

(* What recoverPublishing does to a schedule.                               *)
LEMMA MovesOfSweeps ==
  ASSUME TypeOK, NEW v \in Sweeps, SweepStep(v)
  PROVE  ScheduleMoves
<1> USE DEF At, records, outside
<1>1. CASE SweepSchedule(v) \/ SweepCancel(v) \/ SweepAttempts(v) \/ SweepRequeue(v)
           \/ SweepPost(v) \/ DueSchedule(v) \/ CheckEntry(v) \/ ReaddEntry(v)
  BY <1>1
  DEF SweepSchedule, SweepCancel, SweepAttempts, SweepRequeue, SweepPost, DueSchedule,
      CheckEntry, ReaddEntry, ScheduleMoves
<1>2. CASE SweepUnclaim(v)
  <2>1. actor[v].s \in Schedules
    BY <1>2 DEF TypeOK, ActorsTyped, Actors, SweepUnclaim
  <2> QED
    BY <1>2, <2>1, Zenon DEF SweepUnclaim, ScheduleMoves
<1> QED
  BY <1>1, <1>2 DEF SweepStep

(* What the API's requests do to a schedule.                                *)
LEMMA MovesOfRequests ==
  ASSUME NEW h \in Requests, RequestStep(h)
  PROVE  ScheduleMoves
<1> USE DEF records, outside
<1>1. CASE FindScheduled(h) \/ CheckLive(h) \/ CancelJob(h) \/ RemoveEntry(h)
           \/ CreateJob(h) \/ AddEntry(h) \/ SavePost(h)
  BY <1>1
  DEF FindScheduled, CheckLive, CancelJob, RemoveEntry, CreateJob, AddEntry, SavePost,
      ScheduleMoves
<1>2. CASE CancelLive(h) \/ CreateSchedule(h)
  BY <1>2, Zenon DEF CancelLive, CreateSchedule, Cancellable, ScheduleMoves
<1> QED
  BY <1>1, <1>2 DEF RequestStep

(* There is no other way a schedule changes.                                *)
LEMMA NextMoves == TypeOK /\ [Next]_vars => ScheduleMoves
<1> SUFFICES ASSUME TypeOK, [Next]_vars PROVE ScheduleMoves
  OBVIOUS
<1> USE DEF records, outside
<1>1. CASE UNCHANGED vars
  BY <1>1 DEF vars, ScheduleMoves
<1>2. ASSUME NEW r \in Runs, RunNext(r)
      PROVE  ScheduleMoves
  <2>1. CASE StoreError(r) \/ LoseAnswer(r) \/ Complete(r) \/ Rethrow(r) \/ \E s \in Schedules : Deliver(r, s)
    BY <2>1 DEF StoreError, LoseAnswer, Complete, Rethrow, Deliver, ScheduleMoves
  <2> QED
    BY <1>2, <2>1, MovesOfRuns, MovesOfFailing DEF RunNext, Actors
<1>3. ASSUME NEW v \in Sweeps, SweepNext(v)
      PROVE  ScheduleMoves
  <2>1. CASE \E s \in Schedules : TakeAbandoned(v, s) \/ FindDue(v, s)
    BY <2>1 DEF TakeAbandoned, FindDue, ScheduleMoves
  <2> QED
    BY <1>3, <2>1, MovesOfSweeps, MovesOfFailing DEF SweepNext, Actors
<1>4. ASSUME NEW h \in Requests, RequestNext(h)
      PROVE  ScheduleMoves
  <2>1. CASE \/ ApiCrash(h) \/ BeginArchive(h)
             \/ \E op \in {"schedule", "unschedule", "setReady"} : Begin(h, op)
    BY <2>1 DEF ApiCrash, BeginArchive, Begin, ScheduleMoves
  <2> QED
    BY <1>4, <2>1, MovesOfRequests DEF RequestNext
<1>5. CASE \/ \E s \in Schedules : QueueNext(s)
           \/ \E p \in Procs : Crash(p)
           \/ Pause \/ Resume \/ Restore
  BY <1>5
  DEF QueueNext, Stalled, Redeliver, LoseEntry, LockExpires, Crash, Pause, Resume, Restore,
      ScheduleMoves
<1> QED
  BY <1>1, <1>2, <1>3, <1>4, <1>5 DEF Next

StaysOver ==
  \A s \in Schedules :
    schedule[s].status \in Over =>
      ~schedule'[s].isLive /\ schedule'[s].status \in {schedule[s].status, "PUBLISHED"}

(* One schedule changes in one of the ways allowed.                         *)
LEMMA OneMoveKeepsTheWay ==
  ASSUME LiveIsOnItsWay, NEW s \in Schedules,
         \A t \in Schedules \ {s} : schedule'[t] = schedule[t],
         \/ schedule[s].status \notin Over /\ schedule'[s].status \in {"SCHEDULED", "PROCESSING"}
         \/ ~schedule'[s].isLive /\ (schedule[s].status \notin Over \/ schedule'[s].status = "PUBLISHED")
  PROVE  LiveIsOnItsWay' /\ StaysOver
<1>1. ASSUME NEW t \in Schedules
      PROVE  /\ schedule'[t].isLive => schedule'[t].status \in {"SCHEDULED", "PROCESSING"}
             /\ schedule[t].status \in Over =>
                  ~schedule'[t].isLive /\ schedule'[t].status \in {schedule[t].status, "PUBLISHED"}
  <2>1. CASE t = s
    BY <2>1, Zenon
  <2>2. CASE t # s
    <3>1. schedule'[t] = schedule[t]
      BY <2>2
    <3>2. schedule[t].isLive => schedule[t].status \in {"SCHEDULED", "PROCESSING"}
      BY DEF LiveIsOnItsWay, Live
    <3>3. schedule[t].status \in Over => schedule[t].status \notin {"SCHEDULED", "PROCESSING"}
      BY DEF Over
    <3> QED
      BY <3>1, <3>2, <3>3, Zenon
  <2> QED
    BY <2>1, <2>2
<1> QED
  BY <1>1, Zenon DEF LiveIsOnItsWay, Live, StaysOver

(* No move of a schedule makes one live again that was over.                *)
LEMMA MovesKeepTheWay ==
  ASSUME TypeOK, LiveIsOnItsWay, ScheduleMoves
  PROVE  LiveIsOnItsWay' /\ StaysOver
<1>1. CASE UNCHANGED schedule
  BY <1>1, SMT DEF LiveIsOnItsWay, Live, StaysOver, Over
<1>2. CASE ~UNCHANGED schedule
  <2>1. PICK s \in Schedules :
          \/ Live(s) /\ (SetSchedule(s, "SCHEDULED", TRUE) \/ SetSchedule(s, "PROCESSING", TRUE))
          \/ schedule[s].status = "NONE" /\ SetSchedule(s, "SCHEDULED", TRUE)
          \/ Live(s) /\ SetSchedule(s, "CANCELLED", FALSE)
          \/ \E review \in BOOLEAN : Live(s) /\
               schedule' = [schedule EXCEPT ![s] =
                              [status |-> "FAILED", isLive |-> FALSE, needsReview |-> review]]
          \/ schedule' = [schedule EXCEPT ![s] =
                            [status |-> "PUBLISHED", isLive |-> FALSE, needsReview |-> FALSE]]
    BY <1>2, Zenon DEF ScheduleMoves
  <2>2. Live(s) \/ schedule[s].status = "NONE" => schedule[s].status \notin Over
    BY Zenon DEF LiveIsOnItsWay, Over
  <2>3. CASE /\ Live(s) \/ schedule[s].status = "NONE"
             /\ SetSchedule(s, "SCHEDULED", TRUE) \/ SetSchedule(s, "PROCESSING", TRUE)
    <3>1. /\ \A t \in Schedules \ {s} : schedule'[t] = schedule[t]
          /\ schedule'[s].status \in {"SCHEDULED", "PROCESSING"}
      BY <2>3, SMT DEF SetSchedule, TypeOK, ScheduleType
    <3> QED
      BY <2>2, <2>3, <3>1, OneMoveKeepsTheWay
  <2>4. CASE Live(s) /\ SetSchedule(s, "CANCELLED", FALSE)
    <3>1. \A t \in Schedules \ {s} : schedule'[t] = schedule[t]
      BY <2>4, SMT DEF SetSchedule, TypeOK
    <3>2. ~schedule'[s].isLive
      BY <2>4, SMT DEF SetSchedule, TypeOK, ScheduleType
    <3> QED
      BY <2>2, <2>4, <3>1, <3>2, OneMoveKeepsTheWay
  <2>5. ASSUME Live(s), NEW review \in BOOLEAN,
               schedule' = [schedule EXCEPT ![s] =
                              [status |-> "FAILED", isLive |-> FALSE, needsReview |-> review]]
        PROVE  LiveIsOnItsWay' /\ StaysOver
    <3>1. /\ \A t \in Schedules \ {s} : schedule'[t] = schedule[t]
          /\ ~schedule'[s].isLive
      BY <2>5, Zenon DEF TypeOK
    <3> QED
      BY <2>2, <2>5, <3>1, OneMoveKeepsTheWay
  <2>6. CASE schedule' = [schedule EXCEPT ![s] =
                            [status |-> "PUBLISHED", isLive |-> FALSE, needsReview |-> FALSE]]
    <3>1. /\ \A t \in Schedules \ {s} : schedule'[t] = schedule[t]
          /\ ~schedule'[s].isLive
          /\ schedule'[s].status = "PUBLISHED"
      BY <2>6, Zenon DEF TypeOK
    <3> QED
      BY <3>1, OneMoveKeepsTheWay
  <2> QED
    BY <2>1, <2>3, <2>4, <2>5, <2>6, Zenon
<1> QED
  BY <1>1, <1>2

-----------------------------------------------------------------------------
(* How often a schedule is sent.                                            *)

(* What a step may do to a job that has sent its post: leave it or close it.*)
JobsStaySettled ==
  \A s \in Schedules : job'[s] = job[s] \/ job'[s].status \in Closed \/ posted[s] <= Excuses

(* Where a run may be after a step: it claims and sends only what is        *)
(* unsent, and does not stop before it has closed a job that was sent.      *)
Counted(r) ==
  LET s == actor[r].s IN
  /\ actor'[r].pc \in Holding =>
       /\ actor'[r].s = s /\ actor'[r].n > 0
       /\ actor[r].pc \in Holding \/ posted[s] <= Excuses
  /\ actor'[r].pc \in Before => posted[s] <= Excuses
  /\ actor[r].pc \in Closing =>
       \/ job'[s].status \in Closed \/ posted[s] <= Excuses
       \/ /\ actor'[r].pc \in Closing /\ actor'[r].s = s
          /\ actor'[r].pc = "saveFailure" => ~Retries(r)'

(* A run that holds a job which may have been sent is about to close it.    *)
LEMMA SentHolder ==
  ASSUME TypeOK, SentIsSettled, NEW r \in Runs, actor[r].pc \in Holding
  PROVE  posted[actor[r].s] <= Excuses \/ job[actor[r].s].status \in Closed \/ Settles(r)
<1>1. actor[r].s \in Schedules
  BY DEF TypeOK, ActorsTyped, Actors, Holding
<1>2. CASE \E q \in Runs : actor[q].s = actor[r].s /\ Settles(q)
  <2>1. PICK q \in Runs : actor[q].s = actor[r].s /\ Settles(q)
    BY <1>2
  <2>2. q = r
    BY <2>1 DEF Settles
  <2> QED
    BY <2>1, <2>2
<1> QED
  BY <1>1, <1>2 DEF SentIsSettled

(* A run that does not move.                                                *)
LEMMA StaysCounted ==
  ASSUME TypeOK, SendsAreCounted, JobsStaySettled, NEW r \in Runs, actor'[r] = actor[r]
  PROVE  Counted(r)
<1>1. actor[r].pc \in Holding => actor[r].n > 0
  BY DEF SendsAreCounted, HoldersAreNumbered
<1>2. actor[r].pc \in Before => posted[actor[r].s] <= Excuses
  BY DEF SendsAreCounted, SendersFindItUnsent
<1>3. Retries(r)' <=> Retries(r)
  BY DEF Retries
<1>4. actor[r].pc = "saveFailure" =>
        job'[actor[r].s].status \in Closed \/ posted[actor[r].s] <= Excuses \/ ~Retries(r)
  <2> SUFFICES ASSUME actor[r].pc = "saveFailure"
               PROVE  job'[actor[r].s].status \in Closed \/ posted[actor[r].s] <= Excuses \/ ~Retries(r)
    OBVIOUS
  <2>1. posted[actor[r].s] <= Excuses \/ job[actor[r].s].status \in Closed \/ Settles(r)
    BY SentHolder DEF SendsAreCounted, Holding
  <2>2. actor[r].s \in Schedules
    BY DEF TypeOK, ActorsTyped, Actors
  <2> QED
    BY <2>1, <2>2 DEF Settles, JobsStaySettled
<1> QED
  BY <1>1, <1>2, <1>3, <1>4 DEF Counted

(* Steps that send nothing and are no excuse to.                            *)
LEMMA StepKeepsCount ==
  ASSUME TypeOK, SendsAreCounted, JobsStaySettled, \A r \in Runs : Counted(r),
         UNCHANGED posted, Excuses' = Excuses, BudgetIsSpent'
  PROVE  SendsAreCounted'
<1> USE DEF SendsAreCounted
<1>1. SendersFindItUnsent'
  BY DEF SendersFindItUnsent, Counted, Before, Holding
<1>2. HoldersAreNumbered'
  BY DEF HoldersAreNumbered, Counted
<1>3. ASSUME NEW s \in Schedules, ~(posted[s] <= Excuses)
      PROVE  /\ posted[s] = Excuses + 1
             /\ job'[s].status \in Closed \/ \E r \in Runs : actor'[r].s = s /\ Settles(r)'
  <2>1. posted[s] = Excuses + 1
    BY <1>3 DEF SentIsSettled
  <2>2. job'[s] = job[s] \/ job'[s].status \in Closed
    BY <1>3 DEF JobsStaySettled
  <2>3. ASSUME NEW r \in Runs, actor[r].s = s, Settles(r), job'[s] = job[s], job[s].status \notin Closed
        PROVE  actor'[r].s = s /\ Settles(r)'
    <3>1. /\ actor'[r].pc \in Closing /\ actor'[r].s = s
          /\ actor'[r].pc = "saveFailure" => ~Retries(r)'
      BY <1>3, <2>3 DEF Counted, Settles
    <3>2. \A q \in Runs \ {r} : actor'[q].pc \in Holding => actor'[q].s # s
      BY <1>3, <2>3 DEF Counted, Settles
    <3>3. job'[s].status = "PROCESSING" /\ job'[s].lockedAt = "fresh" /\ job'[s].lockedBy = LockName(r)
      BY <2>3 DEF Settles, HoldsLock
    <3> QED
      BY <3>1, <3>2, <3>3 DEF Settles, HoldsLock, LockName
  <2>4. job[s].status \in Closed \/ \E r \in Runs : actor[r].s = s /\ Settles(r)
    BY <1>3 DEF SentIsSettled
  <2> QED
    BY <2>1, <2>2, <2>3, <2>4
<1>4. SentIsSettled'
  BY <1>3 DEF SentIsSettled
<1> QED
  BY <1>1, <1>2, <1>4

(* What is spent of the budget is not there any more.                       *)
LEMMA SpendsLess ==
  ASSUME TypeOK, BudgetIsSpent, NEW what \in Faults \cup Events, Spend(what)
  PROVE  /\ BudgetIsSpent'
         /\ opening' = opening
         /\ budget'[what] = budget[what] - 1
         /\ \A other \in Faults \cup Events : other # what => budget'[other] = budget[other]
<1>1. /\ opening' = opening
      /\ \A other \in Faults \cup Events : other # what => budget'[other] = budget[other]
      /\ budget'[what] = budget[what] - 1
  BY SMT DEF Spend, TypeOK
<1>2. ASSUME NEW other \in Faults \cup Events
      PROVE  budget'[other] <= opening'[other]
  <2>1. budget[other] \in Nat /\ opening[other] \in Nat /\ budget[other] <= opening[other]
    BY SMT DEF TypeOK, BudgetIsSpent
  <2>2. budget'[other] = budget[other] \/ budget'[other] = budget[other] - 1
    BY <1>1
  <2>3. opening'[other] = opening[other]
    BY <1>1
  <2> QED
    BY <2>1, <2>2, <2>3, SMT
<1> QED
  BY <1>1, <1>2 DEF BudgetIsSpent

(* What changes neither faults nor broken connections is no excuse.         *)
LEMMA NoExcuse ==
  ASSUME TypeOK, BudgetIsSpent,
         UNCHANGED <<budget, opening>>
           \/ \E what \in (Faults \cup Events) \ {"crash", "connectionReset"} : Spend(what)
  PROVE  Excuses' = Excuses /\ BudgetIsSpent'
<1>1. CASE UNCHANGED <<budget, opening>>
  BY <1>1 DEF Excuses, Crashes, Resets, BudgetIsSpent
<1>2. ASSUME NEW what \in (Faults \cup Events) \ {"crash", "connectionReset"}, Spend(what)
      PROVE  Excuses' = Excuses /\ BudgetIsSpent'
  <2>1. /\ BudgetIsSpent' /\ opening' = opening
        /\ \A other \in Faults \cup Events : other # what => budget'[other] = budget[other]
    BY <1>2, SpendsLess
  <2>2. {"crash", "connectionReset"} \subseteq Faults
    BY DEF Faults
  <2>3. Excuses' = Excuses
    BY <1>2, <2>1, <2>2 DEF Excuses, Crashes, Resets
  <2> QED
    BY <2>1, <2>3
<1> QED
  BY <1>1, <1>2

(* Excuses are counted.                                                     *)
LEMMA ExcusesTyped ==
  ASSUME TypeOK, BudgetIsSpent
  PROVE  Excuses \in Nat
<1>1. {"crash", "connectionReset"} \subseteq Faults
  BY DEF Faults
<1>2. \A what \in {"crash", "connectionReset"} :
        budget[what] \in Nat /\ opening[what] \in Nat /\ budget[what] <= opening[what]
  BY <1>1, SMT DEF BudgetIsSpent, TypeOK
<1> QED
  BY <1>2, SMT DEF Excuses, Crashes, Resets

(* An excuse covers what has been sent since the last one.                  *)
LEMMA OneMoreExcuse ==
  ASSUME TypeOK, BudgetIsSpent, NEW what \in {"crash", "connectionReset"}, Spend(what)
  PROVE  /\ BudgetIsSpent'
         /\ Excuses' = Excuses + (IF what = "crash" \/ MaxAttempts > 1 THEN 1 ELSE 0)
<1>1. {"crash", "connectionReset"} \subseteq Faults
  BY DEF Faults
<1>2. /\ BudgetIsSpent' /\ opening' = opening
      /\ \A other \in Faults \cup Events : other # what => budget'[other] = budget[other]
      /\ budget'[what] = budget[what] - 1
  BY <1>1, SpendsLess
<1>3. \A other \in {"crash", "connectionReset"} :
        budget[other] \in Nat /\ opening[other] \in Nat /\ budget[other] <= opening[other]
  BY <1>1, SMT DEF BudgetIsSpent, TypeOK
<1>4. Excuses' = Excuses + (IF what = "crash" \/ MaxAttempts > 1 THEN 1 ELSE 0)
  <2>1. CASE what = "crash"
    <3>1. Crashes' = Crashes + 1 /\ Resets' = Resets
      BY <1>1, <1>2, <1>3, <2>1, SMT DEF Crashes, Resets
    <3> QED
      BY <1>3, <2>1, <3>1, SMT DEF Excuses, Crashes, Resets
  <2>2. CASE what = "connectionReset"
    <3>1. Crashes' = Crashes /\ Resets' = Resets + 1
      BY <1>1, <1>2, <1>3, <2>2, SMT DEF Crashes, Resets
    <3> QED
      BY <1>3, <2>2, <3>1, SMT DEF Excuses, Crashes, Resets
  <2> QED
    BY <2>1, <2>2
<1> QED
  BY <1>2, <1>4

(* A run goes on before its call.                                           *)
LEMMA SenderCounted ==
  ASSUME TypeOK, SendsAreCounted, NEW r \in Runs, actor[r].pc \in Before, NEW step, Moved(r, step),
         actor'[r].n = actor[r].n
  PROVE  Counted(r)
  BY DEF SendsAreCounted, SendersFindItUnsent, HoldersAreNumbered, Counted, Moved, Before, Holding,
         Closing

(* A run goes on with nothing in its hands.                                 *)
LEMMA AsideCounted ==
  ASSUME NEW r \in Runs, actor'[r].pc \notin Holding, actor[r].pc \notin Closing
  PROVE  Counted(r)
  BY DEF Counted, Before, Holding

(* A run goes on after its call: towards closing the job, or having closed  *)
(* or not sent it.                                                          *)
LEMMA CloserCounted ==
  ASSUME SendsAreCounted, NEW r \in Runs, actor[r].pc \in Holding \cup {"failJob"}, NEW step, Moved(r, step),
         step \in Holding => actor[r].pc \in Holding,
         step \notin Before,
         \/ actor[r].pc \notin Closing
         \/ job'[actor[r].s].status \in Closed \/ posted[actor[r].s] <= Excuses
         \/ step \in Closing /\ (step = "saveFailure" => ~Retries(r)')
  PROVE  Counted(r)
  BY DEF SendsAreCounted, HoldersAreNumbered, Counted, Moved

(* One run moves.                                                           *)
LEMMA RunKeepsCount ==
  ASSUME TypeOK, SendsAreCounted, JobsStaySettled, NEW r \in Runs,
         \A b \in Actors \ {r} : actor'[b] = actor[b], Counted(r),
         UNCHANGED posted, Excuses' = Excuses, BudgetIsSpent'
  PROVE  SendsAreCounted'
<1>1. \A q \in Runs : Counted(q)
  BY StaysCounted DEF Actors
<1> QED
  BY <1>1, StepKeepsCount

(* No run moves.                                                            *)
LEMMA OthersKeepCount ==
  ASSUME TypeOK, SendsAreCounted, JobsStaySettled, \A r \in Runs : actor'[r] = actor[r],
         UNCHANGED posted, Excuses' = Excuses, BudgetIsSpent'
  PROVE  SendsAreCounted'
  BY StaysCounted, StepKeepsCount

(* Ending the hold on a job leaves the other jobs alone.                    *)
LEMMA FreeingSettles ==
  ASSUME TypeOK, NEW s \in Schedules, NEW status \in JobStatuses, FreeJob(s, status),
         status \in Closed \/ posted[s] <= Excuses
  PROVE  JobsStaySettled
  BY SMT DEF TypeOK, FreeJob, JobsStaySettled, JobType

(* A job that has not been closed has not been sent, unless a run with a    *)
(* fresh lock is about to close it.                                         *)
LEMMA UnlockedIsUnsent ==
  ASSUME SentIsSettled, NEW s \in Schedules, job[s].status \notin Closed,
         \/ job[s].status # "PROCESSING" \/ job[s].lockedAt # "fresh"
         \/ \E v \in Sweeps : job[s].lockedBy = LockName(v)
  PROVE  posted[s] <= Excuses
<1>1. ~ \E r \in Runs : actor[r].s = s /\ Settles(r)
  BY LockNames DEF Settles, HoldsLock
<1> QED
  BY <1>1 DEF SentIsSettled

(* runPublishJob, apart from its call.                                      *)
LEMMA CountRun ==
  ASSUME TypeOK, TypeOK', LockDiscipline, SendsAreCounted, NEW r \in Runs, RunStep(r), ~Call(r)
  PROVE  SendsAreCounted'
<1> USE DEF At, records, outside
<1> r \in Actors
  BY DEF Actors
<1>0. /\ actor[r].pc # "idle" => actor[r].s \in Schedules /\ job[actor[r].s].status # "NONE"
      /\ BudgetIsSpent /\ SentIsSettled
  BY AtWork DEF SendsAreCounted
<1>a. UNCHANGED <<posted, budget, opening>>
  BY DEF RunStep, ReadJob, ReadSchedule, DropJob, ReadAttempts, CheckWorkspace, CheckPause,
         StopSchedule, HoldPost, ClaimJob, ClaimSchedule, ReleaseJob, MarkPublishing, LoadPlan,
         Connect, MarkSent, SaveSuccess, FinishJob, FinishSchedule, FinishPost, Hooks,
         SaveFailure, UnclaimSchedule, RequeueJob, MarkScheduled
<1>b. Excuses' = Excuses /\ BudgetIsSpent'
  BY <1>0, <1>a, NoExcuse
<1>c. UNCHANGED job => JobsStaySettled
  BY DEF JobsStaySettled
<1> SUFFICES JobsStaySettled /\ Counted(r) /\ \A q \in Actors \ {r} : actor'[q] = actor[q]
  BY <1>a, <1>b, RunKeepsCount
<1>1. CASE ReadJob(r) \/ ReadSchedule(r) \/ CheckWorkspace(r) \/ StopSchedule(r) \/ HoldPost(r)
  <2>1. \/ \E step \in {"readSchedule", "readAttempts", "dropJob", "checkPause"} : Goto(r, step)
        \/ Finish(r, "complete")
        \/ GiveUp(r, "stopSchedule", "archived")
    BY <1>1 DEF ReadJob, ReadSchedule, CheckWorkspace, StopSchedule, HoldPost
  <2>2. \E step : Moved(r, step) /\ step \notin Holding
    BY <2>1, StepsMove DEF Holding
  <2>3. UNCHANGED job /\ actor[r].pc \notin Closing
    BY <1>1 DEF ReadJob, ReadSchedule, CheckWorkspace, StopSchedule, HoldPost, Closing
  <2> QED
    BY <1>c, <2>2, <2>3, AsideCounted DEF Moved
<1>2. CASE DropJob(r)
  <2>1. \E step : Moved(r, step) /\ step \notin Holding
    BY <1>2, StepsMove DEF DropJob, Holding
  <2>2. JobsStaySettled
    BY <1>c, <1>0, <1>2, FreeingSettles DEF DropJob, Closed, JobStatuses
  <2> QED
    BY <1>2, <2>1, <2>2, AsideCounted DEF Moved, DropJob, Closing
<1>3. CASE ReadAttempts(r) \/ CheckPause(r)
  <2>1. \/ \E step \in {"checkWorkspace", "claimJob"} : Goto(r, step)
        \/ \E n : actor' = [actor EXCEPT ![r].pc = "failUnresolved", ![r].n = n, ![r].why = "unknown"]
        \/ actor' = [actor EXCEPT ![r].pc = "stopSchedule", ![r].why = "paused", ![r].seen = postStatus]
    BY <1>3 DEF ReadAttempts, CheckPause
  <2>2. \E step \in {"checkWorkspace", "claimJob", "failUnresolved", "stopSchedule"} : Moved(r, step)
    <3>1. CASE \E step \in {"checkWorkspace", "claimJob"} : Goto(r, step)
      BY <3>1, StepsMove
    <3>2. ASSUME NEW n,
                 actor' = [actor EXCEPT ![r].pc = "failUnresolved", ![r].n = n, ![r].why = "unknown"]
          PROVE  Moved(r, "failUnresolved")
      BY <3>2, SMT DEF Moved, TypeOK, ActorsTyped, ActorType, Holding
    <3>3. ASSUME actor' = [actor EXCEPT ![r].pc = "stopSchedule", ![r].why = "paused",
                                        ![r].seen = postStatus]
          PROVE  Moved(r, "stopSchedule")
      BY <3>3, SMT DEF Moved, TypeOK, ActorsTyped, ActorType, Holding
    <3> QED
      BY <2>1, <3>1, <3>2, <3>3
  <2> QED
    BY <1>c, <1>3, <2>2, AsideCounted DEF ReadAttempts, CheckPause, Closing, Moved, Holding
<1>4. CASE ClaimJob(r)
  <2>1. CASE Finish(r, "complete") /\ UNCHANGED job
    BY <1>c, <1>4, <2>1, StepsMove, AsideCounted DEF ClaimJob, Moved, Holding, Closing
  <2>2. CASE ~(Finish(r, "complete") /\ UNCHANGED job)
    <3> DEFINE s == actor[r].s
               n == job[s].attempts + 1
    <3>1. /\ Claimable(s)
          /\ job' = [job EXCEPT ![s] = [status |-> "PROCESSING", attempts |-> n,
                                        lockedBy |-> LockName(r), lockedAt |-> "fresh"]]
          /\ actor' = [actor EXCEPT ![r].pc = "claimSchedule", ![r].n = n]
      BY <1>4, <2>2 DEF ClaimJob
    <3>2. s \in Schedules /\ n \in Nat /\ n > 0
      BY <1>0, <1>4, SMT DEF ClaimJob, TypeOK, JobType
    <3>3. posted[s] <= Excuses
      BY <1>0, <3>1, <3>2, UnlockedIsUnsent DEF Claimable, JobOpen, Unlocked, Closed
    <3>4. JobsStaySettled
      BY <3>1, <3>2, <3>3, SMT DEF JobsStaySettled, TypeOK
    <3>5. /\ actor'[r].pc = "claimSchedule" /\ actor'[r].s = s /\ actor'[r].n = n
          /\ \A q \in Actors \ {r} : actor'[q] = actor[q]
      <4>1. r \in Actors /\ actor \in [Actors -> ActorType]
        BY DEF TypeOK, ActorsTyped
      <4>2. actor' = [actor EXCEPT ![r].pc = "claimSchedule", ![r].n = n]
        BY <3>1
      <4> QED
        BY ONLY <4>1, <4>2, SMT DEF ActorType
    <3>6. Counted(r)
      BY <1>4, <3>2, <3>3, <3>5 DEF Counted, ClaimJob, Closing
    <3> QED
      BY <3>4, <3>5, <3>6
  <2> QED
    BY <2>1, <2>2
<1>5. CASE ClaimSchedule(r) \/ MarkPublishing(r) \/ LoadPlan(r) \/ Connect(r) \/ MarkSent(r)
  <2>1. \E step : Goto(r, step) \/ \E why : GiveUp(r, step, why)
    BY <1>5 DEF ClaimSchedule, MarkPublishing, LoadPlan, Connect, MarkSent
  <2>2. PICK step : Moved(r, step) /\ actor'[r].n = actor[r].n
    BY <2>1, SMT DEF Moved, Goto, GiveUp, TypeOK, ActorsTyped, ActorType
  <2>3. actor[r].pc \in Before /\ UNCHANGED job
    BY <1>5 DEF ClaimSchedule, MarkPublishing, LoadPlan, Connect, MarkSent, Before
  <2> QED
    BY <1>c, <2>2, <2>3, SenderCounted DEF Moved
<1>6. CASE ReleaseJob(r)
  <2>1. Moved(r, "complete")
    BY <1>6, StepsMove DEF ReleaseJob, Holding
  <2>2. JobsStaySettled
    BY <1>c, <1>0, <1>6, FreeingSettles DEF ReleaseJob, Closed, JobStatuses
  <2> QED
    BY <1>6, <2>1, <2>2, AsideCounted DEF Moved, ReleaseJob, Closing, Holding
<1>7. CASE SaveSuccess(r)
  <2>1. Moved(r, "finishJob")
    BY <1>7, StepsMove DEF SaveSuccess
  <2>2. Counted(r)
    BY <1>7, <2>1, CloserCounted DEF SaveSuccess, Holding, Before, Closing
  <2> QED
    BY <1>c, <1>7, <2>1, <2>2 DEF SaveSuccess, Moved
<1>8. CASE FinishJob(r)
  <2>1. Moved(r, "finishSchedule")
    BY <1>8, StepsMove DEF FinishJob
  <2>2. JobsStaySettled
    BY <1>0, <1>8, FreeingSettles DEF FinishJob, Closed, JobStatuses
  <2>3. job'[actor[r].s].status = "SUCCEEDED"
    BY <1>0, <1>8, FreeJobUnlocks DEF FinishJob, Unlocks
  <2>4. Counted(r)
    BY <1>8, <2>1, <2>3, CloserCounted DEF FinishJob, Holding, Before, Closed
  <2> QED
    BY <2>1, <2>2, <2>4 DEF Moved
<1>9. CASE FinishSchedule(r) \/ FinishPost(r) \/ Hooks(r) \/ UnclaimSchedule(r) \/ MarkScheduled(r)
  <2>1. \/ \E step \in {"finishPost", "hooks"} : Goto(r, step)
        \/ UnclaimSchedule(r) /\ \E step \in {"requeueJob", "releaseJob"} : Goto(r, step)
        \/ \E step \in {"complete", "rethrow"} : Finish(r, step)
    BY <1>9 DEF FinishSchedule, FinishPost, Hooks, UnclaimSchedule, MarkScheduled
  <2>2. PICK step : Moved(r, step) /\ step \notin Before
    BY <2>1, StepsMove DEF Holding, Before
  <2>3. UNCHANGED job /\ actor[r].pc \notin Closing
    BY <1>9 DEF FinishSchedule, FinishPost, Hooks, UnclaimSchedule, MarkScheduled, Closing
  <2>4. CASE actor[r].pc \in Holding
    BY <1>c, <2>2, <2>3, <2>4, CloserCounted DEF Moved
  <2>5. CASE actor[r].pc \notin Holding
    <3>1. MarkScheduled(r)
      BY <1>9, <2>5 DEF FinishSchedule, FinishPost, Hooks, UnclaimSchedule, Holding
    <3>2. Moved(r, "rethrow")
      BY <3>1, StepsMove DEF MarkScheduled, Holding
    <3> QED
      BY <1>c, <2>3, <3>2, AsideCounted DEF Moved, Holding
  <2> QED
    BY <2>4, <2>5
<1>10. CASE SaveFailure(r)
  <2>1. posted[actor[r].s] <= Excuses \/ job[actor[r].s].status \in Closed \/ Settles(r)
    BY <1>0, <1>10, SentHolder DEF SaveFailure, Holding
  <2>2. UNCHANGED job /\ actor[r].pc = "saveFailure"
    BY <1>10 DEF SaveFailure
  <2>3. CASE Retries(r)
    <3>1. Moved(r, "unclaimSchedule")
      BY <1>10, <2>3, StepsMove DEF SaveFailure
    <3>2. Counted(r)
      BY <2>1, <2>2, <2>3, <3>1, CloserCounted DEF Settles, Holding, Before
    <3> QED
      BY <1>c, <2>2, <3>1, <3>2 DEF Moved
  <2>4. CASE ~Retries(r)
    <3>1. Moved(r, "failJob")
      BY <1>10, <2>4, StepsMove DEF SaveFailure
    <3>2. Counted(r)
      BY <2>2, <3>1, CloserCounted DEF Holding, Before, Closing
    <3> QED
      BY <1>c, <2>2, <3>1, <3>2 DEF Moved
  <2> QED
    BY <2>3, <2>4
<1>11. CASE RequeueJob(r)
  <2>1. posted[actor[r].s] <= Excuses \/ job[actor[r].s].status \in Closed
    BY <1>0, <1>11, SentHolder DEF RequeueJob, Holding, Settles, Closing
  <2>2. Moved(r, "markScheduled")
    BY <1>11, StepsMove DEF RequeueJob, Holding
  <2>3. JobsStaySettled
    BY <1>c, <1>0, <1>11, <2>1, FreeingSettles DEF RequeueJob, Closed, JobStatuses
  <2> QED
    BY <1>11, <2>2, <2>3, AsideCounted DEF RequeueJob, Moved, Closing, Holding
<1> QED
  BY <1>1, <1>2, <1>3, <1>4, <1>5, <1>6, <1>7, <1>8, <1>9, <1>10, <1>11 DEF RunStep

(* A job is open or closed once it exists.                                  *)
LEMMA OpenOrClosed ==
  ASSUME TypeOK, NEW s \in Schedules, job[s].status # "NONE"
  PROVE  JobOpen(s) \/ job[s].status \in Closed
<1>1. job[s].status \in JobStatuses
  BY SMT DEF TypeOK, JobType
<1> QED
  BY <1>1 DEF JobOpen, JobStatuses, Closed

(* The run that sends the post has the job to itself, and will close it.    *)
LEMMA SendKeepsCount ==
  ASSUME TypeOK, LockDiscipline, SendsAreCounted, NEW r \in Runs, actor[r].pc = "call",
         NEW step \in {"saveSuccess", "saveFailure"}, Moved(r, step), UNCHANGED job,
         posted' = [posted EXCEPT ![actor[r].s] = @ + 1],
         BudgetIsSpent', Excuses \in Nat,
         \/ Excuses' = Excuses /\ (step = "saveFailure" => ~Retries(r)')
         \/ Excuses' = Excuses + 1
  PROVE  SendsAreCounted'
<1> USE DEF SendsAreCounted
<1> DEFINE s == actor[r].s
<1> r \in Actors
  BY DEF Actors
<1>1. s \in Schedules /\ job[s].status # "NONE" /\ posted[s] \in Nat
  BY AtWork DEF TypeOK
<1>2. posted[s] <= Excuses
  BY DEF SendersFindItUnsent, Before
<1>3. posted'[s] = posted[s] + 1 /\ \A t \in Schedules \ {s} : posted'[t] = posted[t]
  BY <1>1, SMT DEF TypeOK
<1>4. /\ actor'[r].pc = step /\ actor'[r].s = s /\ actor'[r].n = actor[r].n
      /\ \A q \in Runs \ {r} : actor'[q] = actor[q]
  BY DEF Moved, Holding, Actors
<1>5. \A q \in Runs \ {r} : actor[q].pc \in Holding => actor[q].s # s
  BY DEF LockDiscipline, OneHolder, Holding
<1>6. Excuses <= Excuses'
  BY SMT
<1>7. SendersFindItUnsent'
  <2> SUFFICES ASSUME NEW q \in Runs, actor'[q].pc \in Before
               PROVE  posted'[actor'[q].s] <= Excuses'
    BY DEF SendersFindItUnsent
  <2>1. q # r /\ actor'[q] = actor[q]
    BY <1>4 DEF Before
  <2>2. actor[q].s \in Schedules \ {s}
    BY <1>5, <2>1 DEF Before, Holding, TypeOK, ActorsTyped, Actors
  <2>3. posted[actor[q].s] <= Excuses
    BY <2>1 DEF SendersFindItUnsent
  <2>4. posted'[actor'[q].s] = posted[actor[q].s] /\ posted[actor[q].s] \in Nat
    BY <1>3, <2>1, <2>2 DEF TypeOK
  <2> QED
    BY <1>6, <2>3, <2>4, SMT
<1>8. HoldersAreNumbered'
  BY <1>4 DEF HoldersAreNumbered, Holding
<1>9. \/ job[s].status \in Closed
      \/ job[s].status = "PROCESSING" /\ job[s].lockedAt = "fresh" /\ HoldsLock(r)
  <2>1. CASE JobOpen(s)
    BY <2>1 DEF LockDiscipline, HolderHasLock, Holding
  <2> QED
    BY <1>1, <2>1, OpenOrClosed
<1>10. ASSUME NEW t \in Schedules \ {s}
       PROVE  \/ posted'[t] <= Excuses'
              \/ /\ posted'[t] = Excuses' + 1
                 /\ job'[t].status \in Closed \/ \E q \in Runs : actor'[q].s = t /\ Settles(q)'
  <2>1. posted'[t] = posted[t] /\ posted[t] \in Nat
    BY <1>3 DEF TypeOK
  <2>2. CASE posted[t] <= Excuses
    BY <1>6, <2>1, <2>2, SMT
  <2>3. CASE ~(posted[t] <= Excuses)
    <3>1. posted[t] = Excuses + 1
      BY <2>3 DEF SentIsSettled
    <3>2. CASE Excuses' = Excuses + 1
      BY <2>1, <3>1, <3>2, SMT
    <3>3. CASE Excuses' = Excuses
      <4>1. ASSUME NEW q \in Runs, actor[q].s = t, Settles(q)
            PROVE  actor'[q].s = t /\ Settles(q)'
        <5>1. q # r
          BY <4>1
        <5>2. actor'[q] = actor[q] /\ (Retries(q)' <=> Retries(q))
          BY <1>4, <5>1 DEF Retries
        <5>3. \A o \in Runs \ {q} : actor'[o].pc \in Holding => actor'[o].s # t
          BY <1>4, <4>1 DEF Settles
        <5> QED
          BY <4>1, <5>2, <5>3 DEF Settles, HoldsLock, LockName
      <4> QED
        BY <2>1, <2>3, <3>1, <3>3, <4>1 DEF SentIsSettled
    <3> QED
      BY <3>2, <3>3
  <2> QED
    BY <2>2, <2>3
<1>11. \/ posted'[s] <= Excuses'
       \/ /\ posted'[s] = Excuses' + 1
          /\ job'[s].status \in Closed \/ \E q \in Runs : actor'[q].s = s /\ Settles(q)'
  <2>1. CASE Excuses' = Excuses + 1
    BY <1>1, <1>2, <1>3, <2>1, SMT
  <2>2. CASE Excuses' = Excuses /\ (step = "saveFailure" => ~Retries(r)')
    <3>1. posted'[s] <= Excuses' \/ posted'[s] = Excuses' + 1
      BY <1>1, <1>2, <1>3, <2>2, SMT
    <3>2. job[s].status \in Closed \/ Settles(r)'
      BY <1>4, <1>5, <1>9, <2>2 DEF Settles, Closing, HoldsLock, LockName
    <3> QED
      BY <1>4, <3>1, <3>2
  <2> QED
    BY <2>1, <2>2
<1>12. SentIsSettled'
  BY <1>10, <1>11 DEF SentIsSettled
<1> QED
  BY <1>7, <1>8, <1>12

(* runPublishJob, whatever the platform answers.                            *)
LEMMA CountCall ==
  ASSUME TypeOK, LockDiscipline, SendsAreCounted, NEW r \in Runs, Call(r)
  PROVE  SendsAreCounted'
<1> USE DEF records, outside
<1>1. BudgetIsSpent /\ UNCHANGED <<job, budget, opening>> /\ actor[r].pc = "call" /\ r \in Actors
  BY DEF Call, At, SendsAreCounted, Actors
<1>2. Excuses' = Excuses /\ BudgetIsSpent'
  BY <1>1, NoExcuse
<1>3. CASE UNCHANGED posted
  <2>1. PICK step \in {"saveSuccess", "saveFailure"} : Moved(r, step) /\ actor'[r].n = actor[r].n
    BY <1>1, StepsMove DEF Call, Moved, Holding
  <2>2. Counted(r)
    BY <1>1, <2>1, SenderCounted DEF Before
  <2>3. JobsStaySettled
    BY <1>1 DEF JobsStaySettled
  <2> QED
    BY <1>2, <1>3, <2>1, <2>2, <2>3, RunKeepsCount DEF Moved
<1>4. CASE ~UNCHANGED posted
  <2>1. /\ posted' = [posted EXCEPT ![actor[r].s] = @ + 1]
        /\ Goto(r, "saveSuccess") \/ GiveUp(r, "saveFailure", "unknown")
    BY <1>4 DEF Call
  <2>2. Excuses \in Nat
    BY <1>1, ExcusesTyped
  <2>3. CASE Goto(r, "saveSuccess")
    BY <1>1, <1>2, <2>1, <2>2, <2>3, StepsMove, SendKeepsCount
  <2>4. CASE GiveUp(r, "saveFailure", "unknown")
    <3>1. actor'[r].why = "unknown"
      BY <1>1, <2>4, SMT DEF GiveUp, TypeOK, ActorsTyped, ActorType
    <3>2. ~Retries(r)'
      BY <3>1 DEF Retries
    <3> QED
      BY <1>1, <1>2, <2>1, <2>2, <2>4, <3>2, StepsMove, SendKeepsCount
  <2> QED
    BY <2>1, <2>3, <2>4
<1> QED
  BY <1>3, <1>4

(* The failure path.                                                        *)
LEMMA CountFail ==
  ASSUME TypeOK, LockDiscipline, SendsAreCounted, NEW a \in Actors, FailStep(a)
  PROVE  SendsAreCounted'
<1> USE DEF At, records, outside
<1>0. /\ actor[a].pc # "idle" => actor[a].s \in Schedules /\ job[actor[a].s].status # "NONE"
      /\ BudgetIsSpent /\ SentIsSettled
  BY AtWork DEF SendsAreCounted
<1>1. UNCHANGED <<posted, budget, opening>>
  BY DEF FailStep, FailUnresolved, FailJob, FailSchedule, FailPost
<1>2. Excuses' = Excuses /\ BudgetIsSpent'
  BY <1>0, <1>1, NoExcuse
<1>3. Passes(a)
  <2>1. \/ \E step \in {"failJob", "failSchedule", "failPost"} : Goto(a, step)
        \/ Leave(a)
    BY DEF FailStep, FailUnresolved, FailJob, FailSchedule, FailPost
  <2>2. actor[a].pc # "idle"
    BY DEF FailStep, FailUnresolved, FailJob, FailSchedule, FailPost
  <2> QED
    BY <2>1, <2>2, StepsPass DEF Holding, Looking, TakenOver
<1>4. JobsStaySettled
  <2>1. CASE UNCHANGED job
    BY <2>1 DEF JobsStaySettled
  <2>2. CASE FailJob(a) /\ FreeJob(actor[a].s, "FAILED")
    BY <1>0, <2>2, FreeingSettles DEF FailJob, Closed, JobStatuses
  <2> QED
    BY <2>1, <2>2 DEF FailStep, FailUnresolved, FailJob, FailSchedule, FailPost
<1>5. CASE a \in Runs
  <2>1. actor[a].pc \in Closing => job'[actor[a].s].status \in Closed
    <3> SUFFICES ASSUME actor[a].pc \in Closing
                 PROVE  job'[actor[a].s].status \in Closed
      OBVIOUS
    <3>1. FailJob(a) /\ actor[a].pc # "idle"
      BY DEF FailStep, FailUnresolved, FailJob, FailSchedule, FailPost, Closing
    <3>2. CASE JobOpen(actor[a].s)
      BY <1>0, <3>1, <3>2, FreeJobUnlocks DEF FailJob, Unlocks, Closed
    <3>3. CASE ~JobOpen(actor[a].s)
      BY <1>0, <3>1, <3>3, OpenOrClosed DEF FailJob
    <3> QED
      BY <3>2, <3>3
  <2>2. Counted(a)
    BY <1>3, <2>1 DEF Passes, Counted, Holding, Before
  <2> QED
    BY <1>1, <1>2, <1>3, <1>4, <1>5, <2>2, RunKeepsCount DEF Passes
<1>6. CASE a \in Sweeps
  <2>1. \A r \in Runs : actor'[r] = actor[r]
    BY <1>3, <1>6, ActorsAssumption DEF Passes, Actors
  <2> QED
    BY <1>1, <1>2, <1>4, <2>1, OthersKeepCount
<1> QED
  BY <1>5, <1>6 DEF Actors

(* recoverPublishing.                                                       *)
LEMMA CountSweep ==
  ASSUME TypeOK, LockDiscipline, SendsAreCounted, NEW v \in Sweeps,
         SweepStep(v) \/ \E s \in Schedules : TakeAbandoned(v, s) \/ FindDue(v, s)
  PROVE  SendsAreCounted'
<1> USE DEF At, records, outside
<1>0. /\ actor[v].pc # "idle" => actor[v].s \in Schedules /\ job[actor[v].s].status # "NONE"
      /\ BudgetIsSpent /\ SentIsSettled /\ v \in Actors
  BY AtWork DEF SendsAreCounted, Actors
<1>1. UNCHANGED <<posted, budget, opening>>
  BY DEF SweepStep, SweepSchedule, SweepCancel, SweepAttempts, SweepRequeue, SweepUnclaim,
         SweepPost, DueSchedule, CheckEntry, ReaddEntry, TakeAbandoned, FindDue
<1>2. Excuses' = Excuses /\ BudgetIsSpent'
  BY <1>0, <1>1, NoExcuse
<1>3. \A b \in Actors \ {v} : actor'[b] = actor[b]
  <2>1. \/ \E step : Goto(v, step) \/ Leave(v) \/ \E s \in Schedules : Start(v, step, s)
        \/ \E n : actor' = [actor EXCEPT ![v].pc = "failUnresolved", ![v].n = n, ![v].why = "unknown"]
    BY DEF SweepStep, SweepSchedule, SweepCancel, SweepAttempts, SweepRequeue, SweepUnclaim,
           SweepPost, DueSchedule, CheckEntry, ReaddEntry, TakeAbandoned, FindDue
  <2>2. \A new : actor' = [actor EXCEPT ![v] = new] => \A b \in Actors \ {v} : actor'[b] = actor[b]
    BY <1>0, Zenon DEF TypeOK, ActorsTyped
  <2>3. ASSUME NEW n,
               actor' = [actor EXCEPT ![v].pc = "failUnresolved", ![v].n = n, ![v].why = "unknown"]
        PROVE  \A b \in Actors \ {v} : actor'[b] = actor[b]
    BY <1>0, <2>3, SMT DEF TypeOK, ActorsTyped
  <2>4. ASSUME NEW step, Goto(v, step)
        PROVE  \A b \in Actors \ {v} : actor'[b] = actor[b]
    BY <1>0, <2>4, SMT DEF Goto, TypeOK, ActorsTyped
  <2> QED
    BY <2>1, <2>2, <2>3, <2>4, Zenon DEF Leave, Rest, Finish, Start
<1>4. \A r \in Runs : actor'[r] = actor[r]
  BY <1>3, ActorsAssumption DEF Actors
<1>5. JobsStaySettled
  <2>1. CASE UNCHANGED job
    BY <2>1 DEF JobsStaySettled
  <2>2. CASE SweepCancel(v) /\ FreeJob(actor[v].s, "CANCELLED")
    BY <1>0, <2>2, FreeingSettles DEF SweepCancel, Closed, JobStatuses
  <2>3. CASE SweepRequeue(v) /\ HoldsLock(v) /\ FreeJob(actor[v].s, "QUEUED")
    <3>1. actor[v].s \in Schedules
      BY <1>0, <2>3 DEF SweepRequeue
    <3>2. CASE job[actor[v].s].status \in Closed
      <4>1. HoldsLock(v) /\ LockName(v) # None /\ LocksAreHeld
        BY <1>0, <2>3, LockNames DEF LockDiscipline
      <4>2. job[actor[v].s].status = "PROCESSING"
        BY <3>1, <4>1 DEF LocksAreHeld, HoldsLock
      <4> QED
        BY <3>2, <4>2 DEF Closed
    <3>3. CASE job[actor[v].s].status \notin Closed
      <4>1. posted[actor[v].s] <= Excuses
        BY <1>0, <2>3, <3>1, <3>3, UnlockedIsUnsent DEF HoldsLock
      <4> QED
        BY <2>3, <3>1, <4>1, FreeingSettles DEF JobStatuses
    <3> QED
      BY <3>2, <3>3
  <2>4. ASSUME NEW s \in Schedules, TakeAbandoned(v, s)
        PROVE  JobsStaySettled
    <3>1. posted[s] <= Excuses
      BY <1>0, <2>4, UnlockedIsUnsent DEF TakeAbandoned, Closed
    <3>2. \A t \in Schedules \ {s} : job'[t] = job[t]
      BY <2>4, SMT DEF TakeAbandoned, TypeOK
    <3> QED
      BY <3>1, <3>2 DEF JobsStaySettled
  <2> QED
    BY <2>1, <2>2, <2>3, <2>4
    DEF SweepStep, SweepSchedule, SweepCancel, SweepAttempts, SweepRequeue, SweepUnclaim,
        SweepPost, DueSchedule, CheckEntry, ReaddEntry, FindDue
<1> QED
  BY <1>1, <1>2, <1>4, <1>5, OthersKeepCount

(* The requests of the API.                                                 *)
LEMMA CountRequest ==
  ASSUME TypeOK, LockDiscipline, SendsAreCounted, NEW h \in Requests, RequestStep(h)
  PROVE  SendsAreCounted'
<1> USE DEF records, outside
<1>1. UNCHANGED <<actor, posted, budget, opening>>
  BY DEF RequestStep, FindScheduled, CancelLive, CheckLive, CancelJob, RemoveEntry, CreateSchedule,
         CreateJob, AddEntry, SavePost
<1>2. Excuses' = Excuses /\ BudgetIsSpent' /\ SentIsSettled
  BY <1>1, NoExcuse DEF SendsAreCounted
<1>3. JobsStaySettled
  <2>1. CASE UNCHANGED job
    BY <2>1 DEF JobsStaySettled
  <2>2. ASSUME NEW s, NEW status, job' = [job EXCEPT ![s].status = status]
        PROVE  /\ \A t \in Schedules \ {s} : job'[t] = job[t]
               /\ s \in Schedules => job'[s].status = status
    BY <2>2, SMT DEF TypeOK, JobType
  <2>3. CASE CancelJob(h) /\ job' = [job EXCEPT ![request[h].s].status = "CANCELLED"]
    BY <2>2, <2>3 DEF JobsStaySettled, Closed
  <2>4. CASE CreateJob(h)
    <3>1. request[h].s \in Schedules /\ job[request[h].s].status = "NONE"
      BY <2>4 DEF CreateJob, LockDiscipline, CreatedOnce
    <3>2. posted[request[h].s] <= Excuses
      BY <1>2, <3>1, UnlockedIsUnsent DEF Closed
    <3> QED
      BY <2>2, <2>4, <3>2 DEF CreateJob, JobsStaySettled
  <2> QED
    BY <2>1, <2>3, <2>4
    DEF RequestStep, FindScheduled, CancelLive, CheckLive, CancelJob, RemoveEntry, CreateSchedule,
        AddEntry, SavePost
<1> QED
  BY <1>1, <1>2, <1>3, OthersKeepCount

(* BullMQ, and the ageing of locks.                                         *)
LEMMA CountQueue ==
  ASSUME TypeOK, LockDiscipline, SendsAreCounted,
         \/ \E r \in Runs : Complete(r) \/ Rethrow(r) \/ (\E s \in Schedules : Deliver(r, s))
         \/ \E s \in Schedules : QueueNext(s)
  PROVE  SendsAreCounted'
<1> USE DEF At, records, outside
<1>1. BudgetIsSpent /\ {"redelivery", "lostEntry"} \subseteq (Faults \cup Events) \ {"crash", "connectionReset"}
  BY DEF SendsAreCounted, Faults
<1>2. ASSUME NEW r \in Runs, Complete(r) \/ Rethrow(r) \/ (\E s \in Schedules : Deliver(r, s))
      PROVE  SendsAreCounted'
  <2>1. UNCHANGED <<job, posted, budget, opening>> /\ r \in Actors
    BY <1>2 DEF Complete, Rethrow, Deliver, Actors
  <2>2. Rest(r) \/ \E s \in Schedules : Start(r, "readJob", s)
    BY <1>2 DEF Complete, Rethrow, Deliver
  <2>3. /\ actor'[r].pc \in {"idle", "readJob"}
        /\ \A b \in Actors \ {r} : actor'[b] = actor[b]
    BY <2>1, <2>2, SMT DEF Rest, Idle, Start, New, TypeOK, ActorsTyped
  <2>4. Counted(r)
    BY <1>2, <2>3, AsideCounted DEF Complete, Rethrow, Deliver, Holding, Closing
  <2>5. JobsStaySettled
    BY <2>1 DEF JobsStaySettled
  <2> QED
    BY <1>1, <2>1, <2>3, <2>4, <2>5, NoExcuse, RunKeepsCount
<1>3. ASSUME NEW s \in Schedules, Stalled(s) \/ Redeliver(s) \/ LoseEntry(s)
      PROVE  SendsAreCounted'
  <2>1. UNCHANGED <<actor, job, posted>>
    BY <1>3 DEF Stalled, Redeliver, LoseEntry
  <2>2. UNCHANGED <<budget, opening>> \/ Spend("redelivery") \/ Spend("lostEntry")
    BY <1>3 DEF Stalled, Redeliver, LoseEntry
  <2>3. JobsStaySettled
    BY <2>1 DEF JobsStaySettled
  <2> QED
    BY <1>1, <2>1, <2>2, <2>3, NoExcuse, OthersKeepCount
<1>4. ASSUME NEW s \in Schedules, LockExpires(s)
      PROVE  SendsAreCounted'
  <2>1. UNCHANGED <<actor, posted, budget, opening>>
    BY <1>4 DEF LockExpires
  <2>2. job'[s].status = job[s].status /\ \A t \in Schedules \ {s} : job'[t] = job[t]
    BY <1>4, SMT DEF LockExpires, TypeOK, JobType
  <2>3. ~ \E r \in Runs : actor[r].s = s /\ Settles(r)
    BY <1>4 DEF LockExpires, Actors
  <2>4. posted[s] <= Excuses \/ job[s].status \in Closed
    BY <2>3 DEF SendsAreCounted, SentIsSettled
  <2>5. JobsStaySettled
    BY <2>2, <2>4 DEF JobsStaySettled
  <2> QED
    BY <1>1, <2>1, <2>5, NoExcuse, OthersKeepCount
<1> QED
  BY <1>2, <1>3, <1>4 DEF QueueNext

(* Faults, and what people begin.                                           *)
LEMMA CountEvent ==
  ASSUME TypeOK, LockDiscipline, SendsAreCounted,
         \/ \E r \in Runs : StoreError(r) \/ LoseAnswer(r)
         \/ \E h \in Requests :
              \/ ApiCrash(h) \/ BeginArchive(h)
              \/ \E op \in {"schedule", "unschedule", "setReady"} : Begin(h, op)
         \/ \E p \in Procs : Crash(p)
         \/ Pause \/ Resume \/ Restore
  PROVE  SendsAreCounted'
<1> USE DEF At, records, outside
<1>1. /\ BudgetIsSpent
      /\ {"apiCrash", "storeError", "request", "archive", "pause"}
           \subseteq (Faults \cup Events) \ {"crash", "connectionReset"}
  BY DEF SendsAreCounted, Faults, Events
<1>2. UNCHANGED job => JobsStaySettled
  BY DEF JobsStaySettled
<1>3. ASSUME NEW r \in Runs, StoreError(r)
      PROVE  SendsAreCounted'
  <2>1. UNCHANGED <<job, posted>> /\ r \in Actors /\ Spend("storeError")
    BY <1>3 DEF StoreError, Actors
  <2>2. Moved(r, "saveFailure") /\ actor'[r].why = "permanent"
    <3>1. GiveUp(r, "saveFailure", "permanent")
      BY <1>3 DEF StoreError
    <3>2. actor'[r].why = "permanent"
      BY <2>1, <3>1, SMT DEF GiveUp, TypeOK, ActorsTyped, ActorType
    <3> QED
      BY <2>1, <3>1, <3>2, StepsMove
  <2>3. Counted(r)
    BY <1>3, <2>2, CloserCounted DEF StoreError, Holding, Before, Closing, Retries
  <2> QED
    BY <1>1, <1>2, <2>1, <2>2, <2>3, NoExcuse, RunKeepsCount DEF Moved
<1>4. ASSUME NEW r \in Runs, LoseAnswer(r)
      PROVE  SendsAreCounted'
  <2>1. /\ UNCHANGED job /\ r \in Actors /\ actor[r].pc = "call" /\ Spend("connectionReset")
        /\ posted' = [posted EXCEPT ![actor[r].s] = @ + 1]
        /\ GiveUp(r, "saveFailure", "retryable")
    BY <1>4 DEF LoseAnswer, Actors
  <2>2. /\ BudgetIsSpent' /\ Excuses \in Nat
        /\ Excuses' = Excuses + (IF MaxAttempts > 1 THEN 1 ELSE 0)
    BY <1>1, <2>1, OneMoreExcuse, ExcusesTyped
  <2>3. Moved(r, "saveFailure")
    BY <2>1, StepsMove
  <2>4. CASE MaxAttempts > 1
    <3>1. Excuses' = Excuses + 1
      BY <2>2, <2>4, SMT
    <3> QED
      BY <2>1, <2>2, <2>3, <3>1, SendKeepsCount
  <2>5. CASE ~(MaxAttempts > 1)
    <3>1. Excuses' = Excuses
      BY <2>2, <2>5, SMT
    <3>2. actor[r].n \in Nat /\ actor[r].n > 0
      BY <2>1, SMT DEF SendsAreCounted, HoldersAreNumbered, Holding, TypeOK, ActorsTyped, ActorType
    <3>3. actor'[r].n = actor[r].n
      BY <2>3 DEF Moved, Holding
    <3>4. ~Retries(r)'
      BY <2>5, <3>2, <3>3, BoundsAssumption, SMT DEF Retries
    <3> QED
      BY <2>1, <2>2, <2>3, <3>1, <3>4, SendKeepsCount
  <2> QED
    BY <2>4, <2>5
<1>5. ASSUME NEW p \in Procs, Crash(p)
      PROVE  SendsAreCounted'
  <2>1. /\ UNCHANGED <<job, posted>> /\ Spend("crash")
        /\ \A a \in Actors : actor'[a] = actor[a] \/ actor'[a].pc = "idle"
    BY <1>5, SMT DEF Crash, Idle, New
  <2>2. Excuses \in Nat /\ Excuses' = Excuses + 1 /\ BudgetIsSpent'
    BY <1>1, <2>1, OneMoreExcuse, ExcusesTyped
  <2>3. ASSUME NEW s \in Schedules
        PROVE  posted'[s] <= Excuses'
    <3>1. posted[s] <= Excuses \/ posted[s] = Excuses + 1
      BY DEF SendsAreCounted, SentIsSettled
    <3> QED
      BY <2>1, <2>2, <3>1, SMT DEF TypeOK
  <2>4. \A r \in Runs : actor'[r].pc # "idle" => actor'[r] = actor[r] /\ actor[r].s \in Schedules
    BY <2>1 DEF TypeOK, ActorsTyped, Actors
  <2>5. SendersFindItUnsent'
    BY <2>3, <2>4 DEF SendersFindItUnsent, Before
  <2>6. HoldersAreNumbered'
    BY <2>4 DEF SendsAreCounted, HoldersAreNumbered, Holding
  <2> QED
    BY <2>2, <2>3, <2>5, <2>6 DEF SendsAreCounted, SentIsSettled
<1>6. ASSUME \/ \E h \in Requests :
                  \/ ApiCrash(h) \/ BeginArchive(h)
                  \/ \E op \in {"schedule", "unschedule", "setReady"} : Begin(h, op)
             \/ Pause \/ Resume \/ Restore
      PROVE  SendsAreCounted'
  <2>1. UNCHANGED <<actor, job, posted>>
    BY <1>6 DEF ApiCrash, BeginArchive, Begin, Pause, Resume, Restore
  <2>2. \/ UNCHANGED <<budget, opening>>
        \/ \E what \in {"apiCrash", "request", "archive", "pause"} : Spend(what)
    BY <1>6 DEF ApiCrash, BeginArchive, Begin, Pause, Resume, Restore
  <2> QED
    BY <1>1, <1>2, <2>1, <2>2, NoExcuse, OthersKeepCount
<1> QED
  BY <1>3, <1>4, <1>5, <1>6

-----------------------------------------------------------------------------
(* The inductive invariant, and what follows from it.                       *)

(* The invariant holds at first.                                            *)
LEMMA SecureAtFirst == Init => Secure
<1> SUFFICES ASSUME Init PROVE Secure
  OBVIOUS
<1>1. TypeOK
  BY TypeInit
<1>2. \A a \in Actors : actor[a].pc = "idle"
  BY DEF Init, Idle, New
<1>3. \A h \in Requests : request[h].pc = "idle"
  BY DEF Init, NoRequest
<1>4. \A s \in Schedules :
        /\ schedule[s].status = "NONE" /\ ~schedule[s].isLive
        /\ job[s].status = "NONE" /\ job[s].lockedBy = None /\ job[s].lockedAt = "null"
        /\ entry[s].state = "none"
  BY DEF Init
<1>5. \A s \in Schedules : Quiet(s)
  BY DEF Init, Quiet, Unresolved
<1>6. LiveIsOnItsWay
  BY <1>4 DEF LiveIsOnItsWay, Live
<1>7. /\ LocksAreHeld /\ HolderHasLock /\ OneHolder /\ SweepsAreTimely
      /\ ClaimantsHaveLooked /\ SweepHasLooked /\ HolderOwnsUnresolved /\ GivingUpIsQuiet
  BY <1>2, <1>4
  DEF LocksAreHeld, HolderHasLock, OneHolder, SweepsAreTimely, ClaimantsHaveLooked,
      SweepHasLooked, HolderOwnsUnresolved, GivingUpIsQuiet, Holding, TakenOver, Actors
<1>8. UnmadeIsUntouched /\ UnmadeScheduleHasNoJob /\ CreatedOnce /\ WaitingIsQuiet
  BY <1>2, <1>3, <1>4, <1>5
  DEF UnmadeIsUntouched, UnmadeScheduleHasNoJob, CreatedOnce, WaitingIsQuiet
<1>9. SendsAreCounted
  <2>1. opening \in [Faults \cup Events -> Nat] /\ budget = opening
    BY BoundsAssumption DEF Init
  <2>2. BudgetIsSpent
    BY <2>1, SMT DEF BudgetIsSpent
  <2>3. ASSUME NEW s \in Schedules
        PROVE  posted[s] <= Excuses
    <3>1. Excuses \in Nat
      BY <1>1, <2>2, ExcusesTyped
    <3>2. posted[s] = 0
      BY DEF Init
    <3> QED
      BY <3>1, <3>2
  <2> QED
    BY <1>2, <2>2, <2>3
    DEF SendsAreCounted, SendersFindItUnsent, SentIsSettled, HoldersAreNumbered, Before, Holding,
        Actors
<1> QED
  BY <1>1, <1>6, <1>7, <1>8, <1>9 DEF Secure, LockDiscipline

(* Every step keeps the invariant.                                          *)
LEMMA SecureStays == Secure /\ [Next]_vars => Secure'
<1> SUFFICES ASSUME Secure, [Next]_vars PROVE Secure'
  OBVIOUS
<1>1. TypeOK /\ LiveIsOnItsWay /\ LockDiscipline /\ SendsAreCounted
  BY DEF Secure
<1>2. TypeOK'
  BY <1>1, TypeNext
<1>3. LiveIsOnItsWay'
  BY <1>1, NextMoves, MovesKeepTheWay
<1>4. CASE Next
  <2>1. LockDiscipline'
    BY <1>1, <1>2, <1>4, LockRun, LockFail, LockSweep, LockRequest, LockQueue, LockEvent, Zenon
    DEF Next, RunNext, SweepNext, RequestNext, Actors
  <2>2. SendsAreCounted'
    BY <1>1, <1>2, <1>4, CountRun, CountCall, CountFail, CountSweep, CountRequest, CountQueue,
       CountEvent, Zenon
    DEF Next, RunNext, SweepNext, RequestNext, Actors
  <2> QED
    BY <1>2, <1>3, <2>1, <2>2 DEF Secure
<1>5. CASE UNCHANGED vars
  <2>1. LockDiscipline'
    BY <1>1, <1>5, RequestMove, EntriesKept
    DEF vars, SameSchedules, RequestsElsewhere
  <2>2. SendsAreCounted'
    <3>1. UNCHANGED <<actor, job, posted, budget, opening>> /\ BudgetIsSpent
      BY <1>1, <1>5 DEF vars, SendsAreCounted
    <3> QED
      BY <1>1, <3>1, NoExcuse, OthersKeepCount DEF JobsStaySettled
  <2> QED
    BY <1>2, <1>3, <2>1, <2>2 DEF Secure
<1> QED
  BY <1>4, <1>5

-----------------------------------------------------------------------------
(* Runs keep order among themselves until a worker dies, a write fails or  *)
(* a connection breaks.                                                     *)

(* A run moves and changes nothing but its own schedule.                    *)
OneRunMoves(r) ==
  /\ \A b \in Actors \ {r} : actor'[b] = actor[b]
  /\ IF actor[r].pc = "idle"
       THEN actor'[r].pc = "readJob" /\ UNCHANGED <<job, schedule, posted>>
       ELSE /\ actor'[r].pc # "idle" => actor'[r].s = actor[r].s
            /\ \A t \in Schedules \ {actor[r].s} :
                 job'[t] = job[t] /\ schedule'[t] = schedule[t] /\ posted'[t] = posted[t]

(* It leaves its job attended, and claims one that waits.                   *)
Attentive(r) ==
  LET s == actor[r].s IN
  /\ actor[r].pc \in Working => actor'[r].pc \in Working \/ job'[s].status # "PROCESSING"
  /\ job'[s].status = "PROCESSING" => job[s].status = "PROCESSING" \/ actor'[r].pc \in Working
  /\ job'[s].lockedAt # "stale"
  /\ job'[s].status \in {"NONE", "QUEUED"} =>
       job[s].status \in {"NONE", "QUEUED"} \/ actor[r].pc = "requeueJob"
  /\ Claimant(r)' => Claimant(r) \/ job[s].status = "QUEUED"
  /\ Risky(r)' => Risky(r) \/ job[s].status = "QUEUED"
  /\ FailsKnowingly(r)' => job'[s].status \notin {"NONE", "QUEUED"}
  /\ actor'[r].pc = "failUnresolved" => actor'[r].why = "unknown"

(* A schedule after the step: taken, or up for a review.                    *)
BecomesTaken(s) == schedule'[s].isLive /\ schedule'[s].status = "PROCESSING"
BecomesForReview(s) ==
  ~schedule'[s].isLive /\ schedule'[s].status = "FAILED" /\ schedule'[s].needsReview

(* It changes the schedule only as it may, and knows what it sent.          *)
Careful(r) ==
  LET s == actor[r].s IN
  /\ actor'[r].pc \in Sending \cup {"markPublishing"} =>
       \/ actor[r].pc \in Sending \cup {"markPublishing"} /\ schedule'[s] = schedule[s]
       \/ BecomesTaken(s)
  /\ \/ schedule'[s] = schedule[s]
     \/ BecomesForReview(s) /\ Live(s)
     \/ Risky(r) /\ Live(s)
     \/ actor[r].pc = "finishSchedule" /\ schedule'[s].status = "PUBLISHED"
     \/ ~Taken(s) /\ Live(s)
  /\ \/ posted'[s] = posted[s]
     \/ actor[r].pc = "call" /\ job'[s] = job[s] /\ schedule'[s] = schedule[s] /\ ~Risky(r)'

(* A waiting job has no run that could close it.                            *)
LEMMA WaitingIsFree ==
  ASSUME TypeOK, LockDiscipline, OneClaimant, NEW s \in Schedules, job[s].status = "QUEUED", NEW q \in Runs,
         actor[q].s = s
  PROVE  ~Claimant(q)
  BY DEF LockDiscipline, HolderHasLock, OneClaimant, Claimant, JobOpen

(* A risky run has a claim.                                                 *)
LEMMA RiskyClaims ==
  ASSUME NEW r \in Runs, Risky(r)
  PROVE  Claimant(r)
  BY DEF Risky, Claimant, FailsKnowingly, Holding

(* A run that does not move is as risky as before.                          *)
LEMMA SameClaims ==
  ASSUME NEW q \in Runs, actor'[q] = actor[q]
  PROVE  /\ Claimant(q)' <=> Claimant(q)
         /\ Risky(q)' <=> Risky(q)
         /\ FailsKnowingly(q)' <=> FailsKnowingly(q)
  BY DEF Claimant, Risky, FailsKnowingly

(* One run moves: jobs stay attended.                                       *)
LEMMA RunKeepsAttended ==
  ASSUME TypeOK, Attended, LocksStayFresh, SweepsOnlyRequeue, NEW r \in Runs, OneRunMoves(r),
         actor[r].pc # "idle" => Attentive(r)
  PROVE  Attended' /\ LocksStayFresh' /\ SweepsOnlyRequeue'
<1>0. /\ actor[r].pc # "idle" => actor[r].s \in Schedules
      /\ \A v \in Sweeps : v \in Actors \ {r}
      /\ \A q \in Runs \ {r} : actor'[q] = actor[q]
  BY ActorsAssumption DEF TypeOK, ActorsTyped, Actors, OneRunMoves
<1>1. ASSUME NEW t \in Schedules, job'[t].status = "PROCESSING"
      PROVE  \E q \in Runs : actor'[q].s = t /\ actor'[q].pc \in Working
  <2>1. CASE job[t].status = "PROCESSING"
    <3>1. PICK q \in Runs : actor[q].s = t /\ actor[q].pc \in Working
      BY <2>1 DEF Attended
    <3>2. CASE q # r
      BY <1>0, <3>1, <3>2
    <3>3. CASE q = r
      <4>1. actor[r].pc # "idle"
        BY <3>1, <3>3 DEF Working
      <4>2. actor'[r].pc \in Working
        BY <1>1, <3>1, <3>3, <4>1 DEF Attentive
      <4>3. actor'[r].s = actor[r].s
        BY <4>1, <4>2 DEF OneRunMoves, Working
      <4> QED
        BY <3>1, <3>3, <4>2, <4>3
    <3> QED
      BY <3>2, <3>3
  <2>2. CASE job[t].status # "PROCESSING"
    <3>1. actor[r].pc # "idle" /\ t = actor[r].s
      BY <1>1, <2>2 DEF OneRunMoves
    <3>2. actor'[r].pc \in Working
      BY <1>1, <2>2, <3>1 DEF Attentive
    <3>3. actor'[r].s = t
      BY <3>1, <3>2 DEF OneRunMoves, Working
    <3> QED
      BY <3>2, <3>3
  <2> QED
    BY <2>1, <2>2
<1>2. ASSUME NEW t \in Schedules
      PROVE  job'[t].lockedAt # "stale"
  BY <1>0 DEF OneRunMoves, Attentive, LocksStayFresh
<1>3. SweepsOnlyRequeue'
  BY <1>0 DEF OneRunMoves, SweepsOnlyRequeue
<1> QED
  BY <1>1, <1>2, <1>3 DEF Attended, LocksStayFresh

(* One run moves: there is one claimant at most.                            *)
LEMMA RunKeepsClaims ==
  ASSUME TypeOK, LockDiscipline, OneClaimant, NEW r \in Runs, OneRunMoves(r),
         actor[r].pc # "idle" => Attentive(r)
  PROVE  OneClaimant'
<1>0. /\ actor[r].pc # "idle" => actor[r].s \in Schedules
      /\ \A q \in Runs \ {r} : actor'[q] = actor[q]
  BY DEF TypeOK, ActorsTyped, Actors, OneRunMoves
<1>1. ASSUME NEW q \in Runs \ {r}
      PROVE  ~(Claimant(r)' /\ Claimant(q)' /\ actor'[r].s = actor'[q].s)
  <2> SUFFICES ASSUME Claimant(r)', Claimant(q)', actor'[r].s = actor'[q].s
               PROVE  FALSE
    OBVIOUS
  <2>1. actor[r].pc # "idle" /\ actor'[r].pc # "idle"
    BY DEF OneRunMoves, Claimant, FailsKnowingly, Holding
  <2>2. actor'[r].s = actor[r].s /\ actor[q].s = actor[r].s /\ Claimant(q)
    BY <1>0, <2>1, SameClaims DEF OneRunMoves
  <2>3. Claimant(r) \/ job[actor[r].s].status = "QUEUED"
    BY <2>1 DEF Attentive
  <2>4. ~Claimant(r)
    BY <2>2 DEF OneClaimant
  <2> QED
    BY <1>0, <2>1, <2>2, <2>3, <2>4, WaitingIsFree
<1>2. ASSUME NEW q \in Runs, FailsKnowingly(q)'
      PROVE  job'[actor'[q].s].status \notin {"NONE", "QUEUED"}
  <2>1. CASE q = r
    <3>1. actor[r].pc # "idle" /\ actor'[r].pc # "idle"
      BY <1>2, <2>1 DEF OneRunMoves, FailsKnowingly
    <3> QED
      BY <1>2, <2>1, <3>1 DEF Attentive, OneRunMoves
  <2>2. CASE q # r
    <3>1. actor'[q] = actor[q] /\ FailsKnowingly(q) /\ actor[q].s \in Schedules
      BY <1>0, <1>2, <2>2, SameClaims DEF FailsKnowingly, TypeOK, ActorsTyped, Actors
    <3>2. job[actor[q].s].status \notin {"NONE", "QUEUED"}
      BY <3>1 DEF OneClaimant
    <3>3. CASE actor[r].pc # "idle" /\ actor[q].s = actor[r].s
      <4>1. actor[r].pc # "requeueJob"
        BY <2>2, <3>1, <3>3 DEF OneClaimant, Claimant, Holding
      <4> QED
        BY <3>1, <3>2, <3>3, <4>1 DEF Attentive
    <3>4. CASE ~(actor[r].pc # "idle" /\ actor[q].s = actor[r].s)
      BY <3>1, <3>2, <3>4 DEF OneRunMoves
    <3> QED
      BY <3>3, <3>4
  <2> QED
    BY <2>1, <2>2
<1>3. ASSUME NEW q \in Runs, actor'[q].pc = "failUnresolved"
      PROVE  actor'[q].why = "unknown"
  BY <1>0, <1>3 DEF OneClaimant, OneRunMoves, Attentive
<1>4. ASSUME NEW a \in Runs, NEW b \in Runs, Claimant(a)', Claimant(b)', actor'[a].s = actor'[b].s
      PROVE  a = b
  <2>1. CASE a = r \/ b = r
    BY <1>1, <1>4, <2>1
  <2>2. CASE a # r /\ b # r
    <3>1. actor'[a] = actor[a] /\ actor'[b] = actor[b]
      BY <1>0, <2>2
    <3>2. Claimant(a) /\ Claimant(b) /\ actor[a].s = actor[b].s
      BY <1>4, <3>1, SameClaims
    <3> QED
      BY <3>2 DEF OneClaimant
  <2> QED
    BY <2>1, <2>2
<1> QED
  BY <1>2, <1>3, <1>4 DEF OneClaimant

(* One run moves: schedules being sent stay taken or up for review.         *)
LEMMA RunKeepsTaken ==
  ASSUME TypeOK, LockDiscipline, OneClaimant, SendersTookIt, NEW r \in Runs, OneRunMoves(r),
         actor[r].pc # "idle" => Careful(r)
  PROVE  SendersTookIt'
<1>0. /\ actor[r].pc # "idle" => actor[r].s \in Schedules
      /\ \A q \in Runs \ {r} : actor'[q] = actor[q]
  BY DEF TypeOK, ActorsTyped, Actors, OneRunMoves
<1> SUFFICES ASSUME NEW q \in Runs, actor'[q].pc \in Sending \cup {"markPublishing"}
             PROVE  BecomesTaken(actor'[q].s) \/ BecomesForReview(actor'[q].s)
  BY DEF SendersTookIt, BecomesTaken, BecomesForReview, Taken, ForReview, Live
<1>a. \A s \in Schedules : schedule'[s] = schedule[s] =>
        /\ Taken(s) => BecomesTaken(s)
        /\ ForReview(s) => BecomesForReview(s)
  BY DEF BecomesTaken, BecomesForReview, Taken, ForReview, Live
<1>1. CASE q = r
  <2>1. actor[r].pc # "idle" /\ actor'[r].s = actor[r].s /\ actor[r].s \in Schedules
    BY <1>0, <1>1 DEF OneRunMoves, Sending
  <2>2. \/ BecomesTaken(actor[r].s)
        \/ /\ actor[r].pc \in Sending \cup {"markPublishing"}
           /\ schedule'[actor[r].s] = schedule[actor[r].s]
    BY <1>1, <2>1 DEF Careful
  <2> QED
    BY <1>a, <1>1, <2>1, <2>2 DEF SendersTookIt
<1>2. CASE q # r
  <2>1. actor'[q] = actor[q] /\ actor[q].s \in Schedules
    BY <1>0, <1>2 DEF TypeOK, ActorsTyped, Actors, Sending
  <2>2. Taken(actor[q].s) \/ ForReview(actor[q].s)
    BY <2>1 DEF SendersTookIt
  <2>3. CASE actor[r].pc # "idle" /\ actor[q].s = actor[r].s
    <3>1. ~Claimant(r) /\ actor[r].pc # "finishSchedule"
      BY <1>2, <2>1, <2>3 DEF OneClaimant, Claimant, Holding, Sending
    <3>2. ~Risky(r)
      BY <3>1, RiskyClaims
    <3>3. ~(~Taken(actor[r].s) /\ Live(actor[r].s))
      BY <2>2, <2>3 DEF ForReview
    <3>4. schedule'[actor[r].s] = schedule[actor[r].s] \/ BecomesForReview(actor[r].s)
      BY <2>3, <3>1, <3>2, <3>3 DEF Careful
    <3> QED
      BY <1>a, <2>1, <2>2, <2>3, <3>4
  <2>4. CASE ~(actor[r].pc # "idle" /\ actor[q].s = actor[r].s)
    <3>1. schedule'[actor[q].s] = schedule[actor[q].s]
      BY <2>1, <2>4 DEF OneRunMoves
    <3> QED
      BY <1>a, <2>1, <2>2, <3>1
  <2> QED
    BY <2>3, <2>4
<1> QED
  BY <1>1, <1>2

(* One run moves: what was sent stays known.                                *)
Known(s) ==
  \/ schedule[s].status = "PUBLISHED" \/ ForReview(s)
  \/ /\ Taken(s)
     /\ job[s].status \notin {"NONE", "QUEUED"}
     /\ \A r \in Runs : actor[r].s = s => ~Risky(r)

LEMMA RunKeepsKnown ==
  ASSUME TypeOK, LiveIsOnItsWay, LockDiscipline, OneClaimant, SendersTookIt, SentIsKnown, NEW r \in Runs,
         OneRunMoves(r), actor[r].pc # "idle" => Attentive(r) /\ Careful(r)
  PROVE  SentIsKnown'
<1>0. /\ actor[r].pc # "idle" => actor[r].s \in Schedules
      /\ \A q \in Runs \ {r} : actor'[q] = actor[q]
  BY DEF TypeOK, ActorsTyped, Actors, OneRunMoves
<1>a. \A s \in Schedules : schedule[s].status = "PUBLISHED" => ~Live(s)
  BY DEF LiveIsOnItsWay
<1> SUFFICES ASSUME NEW s \in Schedules, posted'[s] > 0
             PROVE  Known(s)'
  BY DEF SentIsKnown, Known
<1>1. CASE ~(actor[r].pc # "idle" /\ s = actor[r].s)
  <2>1. job'[s] = job[s] /\ schedule'[s] = schedule[s] /\ posted'[s] = posted[s]
    BY <1>1 DEF OneRunMoves
  <2>2. Known(s)
    BY <2>1 DEF SentIsKnown, Known
  <2>3. \A q \in Runs : actor'[q].s = s /\ Risky(q)' => actor[q].s = s /\ Risky(q)
    <3>1. \A q \in Runs \ {r} : actor'[q].s = s /\ Risky(q)' => actor[q].s = s /\ Risky(q)
      BY <1>0, SameClaims
    <3>2. ~(actor'[r].s = s /\ Risky(r)')
      BY <1>1 DEF OneRunMoves, Risky
    <3> QED
      BY <3>1, <3>2
  <2> QED
    BY <2>1, <2>2, <2>3 DEF Known, Taken, ForReview, Live
<1>2. CASE actor[r].pc # "idle" /\ s = actor[r].s
  <2>0. Attentive(r) /\ Careful(r)
    BY <1>2
  <2>1. CASE posted'[s] = posted[s]
    <3>1. Known(s)
      BY <2>1 DEF SentIsKnown, Known
    <3>2. CASE schedule[s].status = "PUBLISHED" \/ ForReview(s)
      <4>1. ~Live(s)
        BY <1>a, <3>2 DEF ForReview
      <4>2. schedule'[s] = schedule[s] \/ schedule'[s].status = "PUBLISHED"
        BY <1>2, <2>0, <4>1 DEF Careful
      <4> QED
        BY <3>2, <4>2 DEF Known, ForReview, Live
    <3>3. CASE /\ Taken(s)
               /\ job[s].status \notin {"NONE", "QUEUED"}
               /\ \A q \in Runs : actor[q].s = s => ~Risky(q)
      <4>1. ~Risky(r)
        BY <1>2, <3>3
      <4>2. schedule'[s] = schedule[s] \/ BecomesForReview(s) \/ schedule'[s].status = "PUBLISHED"
        BY <1>2, <2>0, <3>3, <4>1 DEF Careful
      <4>3. job'[s].status \notin {"NONE", "QUEUED"}
        BY <1>2, <2>0, <3>3, <4>1 DEF Attentive, Risky
      <4>4. ~Risky(r)'
        BY <1>2, <2>0, <3>3, <4>1 DEF Attentive
      <4>5. \A q \in Runs : actor'[q].s = s => ~Risky(q)'
        BY <1>0, <3>3, <4>4, SameClaims
      <4> QED
        BY <3>3, <4>2, <4>3, <4>5 DEF Known, Taken, ForReview, BecomesForReview, Live
    <3> QED
      BY <3>1, <3>2, <3>3 DEF Known
  <2>2. CASE posted'[s] # posted[s]
    <3>1. actor[r].pc = "call" /\ job'[s] = job[s] /\ schedule'[s] = schedule[s] /\ ~Risky(r)'
      BY <1>2, <2>0, <2>2 DEF Careful
    <3>2. Taken(s) \/ ForReview(s)
      BY <1>2, <3>1 DEF SendersTookIt, Sending
    <3>3. job[s].status \notin {"NONE", "QUEUED"}
      <4>1. job[s].status # "NONE"
        BY <1>2, AtWork DEF Actors
      <4>2. job[s].status # "QUEUED"
        BY <1>2, <3>1 DEF LockDiscipline, HolderHasLock, JobOpen, Holding
      <4> QED
        BY <4>1, <4>2
    <3>4. \A q \in Runs \ {r} : actor'[q].s = s => ~Risky(q)'
      BY <1>0, <1>2, <3>1, SameClaims, RiskyClaims DEF OneClaimant, Claimant, Holding
    <3> QED
      BY <3>1, <3>2, <3>3, <3>4 DEF Known, Taken, ForReview, Live
  <2> QED
    BY <2>1, <2>2
<1> QED
  BY <1>1, <1>2

(* One run moves in order.                                                  *)
LEMMA RunKeepsOrder ==
  ASSUME Secure, Orderly, NEW r \in Runs, OneRunMoves(r),
         actor[r].pc # "idle" => Attentive(r) /\ Careful(r)
  PROVE  Orderly'
  BY RunKeepsAttended, RunKeepsClaims, RunKeepsTaken, RunKeepsKnown DEF Secure, Orderly

(* Where a run goes, and why.                                               *)
Moves(a, step, why) ==
  /\ actor'[a].pc = step /\ actor'[a].s = actor[a].s /\ actor'[a].why = why
  /\ \A b \in Actors \ {a} : actor'[b] = actor[b]

LEMMA StepsAreMoves ==
  ASSUME TypeOK, NEW a \in Actors, NEW step
  PROVE  /\ Goto(a, step) => Moves(a, step, actor[a].why)
         /\ \A why : GiveUp(a, step, why) => Moves(a, step, why)
         /\ Finish(a, step) => Moves(a, step, "none")
<1>1. actor \in [Actors -> ActorType]
  BY DEF TypeOK, ActorsTyped
<1>2. Goto(a, step) => Moves(a, step, actor[a].why)
  BY ONLY <1>1, a \in Actors, SMT DEF ActorType, Goto, Moves
<1>3. ASSUME NEW why, GiveUp(a, step, why)
      PROVE  Moves(a, step, why)
  BY ONLY <1>1, <1>3, a \in Actors, SMT DEF ActorType, GiveUp, Moves
<1>4. Finish(a, step) => Moves(a, step, "none")
  BY ONLY <1>1, a \in Actors, SMT DEF ActorType, Finish, Start, New, Moves
<1> QED
  BY <1>2, <1>3, <1>4

(* A holder's job neither waits nor is still to be made.                    *)
LEMMA HolderIsPastWaiting ==
  ASSUME Secure, NEW r \in Runs, actor[r].pc \in Holding
  PROVE  job[actor[r].s].status \notin {"NONE", "QUEUED"}
<1>1. job[actor[r].s].status # "NONE"
  BY AtWork DEF Secure, Actors, Holding
<1>2. job[actor[r].s].status # "QUEUED"
  BY DEF Secure, LockDiscipline, HolderHasLock, JobOpen
<1> QED
  BY <1>1, <1>2

(* A step that leaves the job, the schedule and the platform alone.         *)
LEMMA QuietStep ==
  ASSUME Secure, Orderly, NEW r \in Runs, actor[r].pc # "idle", NEW step, step # "idle", NEW why,
         Moves(r, step, why), UNCHANGED <<job, schedule, posted>>,
         actor[r].pc \in Working => step \in Working \/ job[actor[r].s].status # "PROCESSING",
         Claimant(r)' => Claimant(r), Risky(r)' => Risky(r),
         FailsKnowingly(r)' => job[actor[r].s].status \notin {"NONE", "QUEUED"},
         step = "failUnresolved" => why = "unknown",
         step \in Sending \cup {"markPublishing"} => actor[r].pc \in Sending \cup {"markPublishing"}
  PROVE  Orderly'
<1>1. OneRunMoves(r)
  BY DEF OneRunMoves, Moves
<1>2. actor[r].s \in Schedules
  BY DEF Secure, TypeOK, ActorsTyped, Actors
<1>3. Attentive(r)
  BY <1>2 DEF Attentive, Moves, Orderly, LocksStayFresh
<1>4. Careful(r)
  BY DEF Careful, Moves
<1> QED
  BY <1>1, <1>3, <1>4, RunKeepsOrder

(* A step that changes the job.                                             *)
LEMMA JobStep ==
  ASSUME Secure, Orderly, NEW r \in Runs, actor[r].pc # "idle", NEW step, step # "idle", NEW why,
         Moves(r, step, why), UNCHANGED <<schedule, posted>>,
         \A t \in Schedules \ {actor[r].s} : job'[t] = job[t],
         job'[actor[r].s].lockedAt # "stale",
         actor[r].pc \in Working => step \in Working \/ job'[actor[r].s].status # "PROCESSING",
         job'[actor[r].s].status = "PROCESSING" => step \in Working,
         job'[actor[r].s].status \in {"NONE", "QUEUED"} => actor[r].pc = "requeueJob",
         Claimant(r)' => Claimant(r) \/ job[actor[r].s].status = "QUEUED",
         Risky(r)' => Risky(r) \/ job[actor[r].s].status = "QUEUED",
         FailsKnowingly(r)' => job'[actor[r].s].status \notin {"NONE", "QUEUED"},
         step \notin Sending \cup {"markPublishing", "failUnresolved"}
  PROVE  Orderly'
<1>1. OneRunMoves(r)
  BY DEF OneRunMoves, Moves
<1>2. Attentive(r)
  BY DEF Attentive, Moves
<1>3. Careful(r)
  BY DEF Careful, Moves
<1> QED
  BY <1>1, <1>2, <1>3, RunKeepsOrder

(* A step that changes the schedule.                                        *)
LEMMA ScheduleStep ==
  ASSUME Secure, Orderly, NEW r \in Runs, actor[r].pc # "idle", NEW step, step # "idle", NEW why,
         Moves(r, step, why), UNCHANGED <<job, posted>>,
         \A t \in Schedules \ {actor[r].s} : schedule'[t] = schedule[t],
         actor[r].pc \in Working => step \in Working,
         Claimant(r)' => Claimant(r), Risky(r)' => Risky(r),
         ~FailsKnowingly(r)', step # "failUnresolved",
         step \in Sending \cup {"markPublishing"} => BecomesTaken(actor[r].s),
         \/ BecomesForReview(actor[r].s) /\ Live(actor[r].s)
         \/ Risky(r) /\ Live(actor[r].s)
         \/ actor[r].pc = "finishSchedule" /\ schedule'[actor[r].s].status = "PUBLISHED"
         \/ ~Taken(actor[r].s) /\ Live(actor[r].s)
  PROVE  Orderly'
<1>1. OneRunMoves(r)
  BY DEF OneRunMoves, Moves
<1>2. actor[r].s \in Schedules
  BY DEF Secure, TypeOK, ActorsTyped, Actors
<1>3. Attentive(r)
  BY <1>2 DEF Attentive, Moves, Orderly, LocksStayFresh
<1>4. Careful(r)
  BY DEF Careful, Moves
<1> QED
  BY <1>1, <1>3, <1>4, RunKeepsOrder

(* The steps of a run before its claim and after its job is done.           *)
LEMMA OrderAside ==
  ASSUME Secure, Orderly, NEW r \in Runs,
         \/ ReadJob(r) \/ ReadSchedule(r) \/ ReadAttempts(r) \/ CheckWorkspace(r) \/ CheckPause(r)
         \/ HoldPost(r) \/ FinishPost(r) \/ Hooks(r) \/ MarkScheduled(r)
  PROVE  Orderly'
<1> USE DEF At, records
<1> r \in Actors /\ TypeOK
  BY DEF Actors, Secure
<1>1. /\ UNCHANGED <<job, schedule, posted>>
      /\ actor[r].pc \in {"readJob", "readSchedule", "readAttempts", "checkWorkspace", "checkPause",
                          "holdPost", "finishPost", "hooks", "markScheduled"}
  BY DEF ReadJob, ReadSchedule, ReadAttempts, CheckWorkspace, CheckPause, HoldPost, FinishPost, Hooks,
         MarkScheduled
<1>2. \/ \E step \in {"readSchedule", "readAttempts", "dropJob", "checkWorkspace", "checkPause",
                      "claimJob"} : Goto(r, step)
      \/ actor[r].pc = "finishPost" /\ Goto(r, "hooks")
      \/ \E step \in {"complete", "rethrow"} : Finish(r, step)
      \/ GiveUp(r, "stopSchedule", "archived")
      \/ \E n : actor' = [actor EXCEPT ![r].pc = "failUnresolved", ![r].n = n, ![r].why = "unknown"]
      \/ actor' = [actor EXCEPT ![r].pc = "stopSchedule", ![r].why = "paused", ![r].seen = postStatus]
  BY DEF ReadJob, ReadSchedule, ReadAttempts, CheckWorkspace, CheckPause, HoldPost, FinishPost, Hooks,
         MarkScheduled
<1>3. ASSUME NEW n,
             actor' = [actor EXCEPT ![r].pc = "failUnresolved", ![r].n = n, ![r].why = "unknown"]
      PROVE  Moves(r, "failUnresolved", "unknown")
  BY <1>3, SMT DEF Moves, TypeOK, ActorsTyped, ActorType
<1>4. ASSUME actor' = [actor EXCEPT ![r].pc = "stopSchedule", ![r].why = "paused",
                                    ![r].seen = postStatus]
      PROVE  Moves(r, "stopSchedule", "paused")
  BY <1>4, SMT DEF Moves, TypeOK, ActorsTyped, ActorType
<1>5. \E step, why :
        /\ Moves(r, step, why)
        /\ \/ step \in {"readSchedule", "readAttempts", "dropJob", "checkWorkspace", "checkPause",
                        "claimJob", "complete", "rethrow", "stopSchedule"}
           \/ step = "hooks" /\ actor[r].pc = "finishPost"
           \/ step = "failUnresolved" /\ why = "unknown"
  BY <1>2, <1>3, <1>4, StepsAreMoves
<1>6. PICK step, why :
        /\ Moves(r, step, why)
        /\ \/ step \in {"readSchedule", "readAttempts", "dropJob", "checkWorkspace", "checkPause",
                        "claimJob", "complete", "rethrow", "stopSchedule"}
           \/ step = "hooks" /\ actor[r].pc = "finishPost"
           \/ step = "failUnresolved" /\ why = "unknown"
  BY <1>5
<1>7. /\ ~Risky(r)' /\ ~FailsKnowingly(r)' /\ step # "idle"
      /\ Claimant(r)' => Claimant(r)
      /\ step \notin Sending \cup {"markPublishing"}
      /\ actor[r].pc \notin Working /\ actor[r].pc # "idle"
  BY <1>1, <1>6 DEF Moves, Risky, FailsKnowingly, Claimant, Holding, Sending, Working
<1> QED
  BY <1>1, <1>6, <1>7, QuietStep

(* The steps of a run between its claim and the end of its job.             *)
LEMMA OrderHold ==
  ASSUME Secure, Orderly, NEW r \in Runs,
         \/ MarkPublishing(r) \/ LoadPlan(r) \/ Connect(r) \/ MarkSent(r) \/ SaveSuccess(r)
         \/ SaveFailure(r)
  PROVE  Orderly'
<1> USE DEF At, records
<1> r \in Actors /\ TypeOK
  BY DEF Actors, Secure
<1>1. /\ UNCHANGED <<job, schedule, posted>>
      /\ actor[r].pc \in {"markPublishing", "loadPlan", "connect", "markSent", "saveSuccess",
                          "saveFailure"}
  BY DEF MarkPublishing, LoadPlan, Connect, MarkSent, SaveSuccess, SaveFailure
<1>2. job[actor[r].s].status \notin {"NONE", "QUEUED"}
  BY <1>1, HolderIsPastWaiting DEF Holding
<1>3. \/ /\ actor[r].pc \in {"markPublishing", "loadPlan", "connect", "markSent"}
         /\ \/ \E step \in {"loadPlan", "connect", "markSent", "call"} : Goto(r, step)
            \/ \E step \in {"failJob", "saveFailure"} : \E why : GiveUp(r, step, why)
      \/ actor[r].pc = "saveSuccess" /\ Goto(r, "finishJob")
      \/ /\ actor[r].pc = "saveFailure"
         /\ \/ actor[r].why # "unknown" /\ Goto(r, "unclaimSchedule")
            \/ Goto(r, "failJob")
  BY DEF MarkPublishing, LoadPlan, Connect, MarkSent, SaveSuccess, SaveFailure, Retries
<1>4. PICK step, why :
        /\ Moves(r, step, why)
        /\ \/ /\ actor[r].pc \in {"markPublishing", "loadPlan", "connect", "markSent"}
              /\ step \in {"loadPlan", "connect", "markSent", "call", "failJob", "saveFailure"}
           \/ actor[r].pc = "saveSuccess" /\ step = "finishJob"
           \/ /\ actor[r].pc = "saveFailure" /\ why = actor[r].why
              /\ (step = "unclaimSchedule" /\ why # "unknown") \/ step = "failJob"
  BY <1>3, StepsAreMoves
<1>5. /\ step \in Working /\ step \notin {"idle", "failUnresolved"}
      /\ Claimant(r)
      /\ step \in Sending \cup {"markPublishing"} => actor[r].pc \in Sending \cup {"markPublishing"}
  BY <1>1, <1>4 DEF Claimant, Holding, Sending, Working
<1>6. Risky(r)' => Risky(r)
  BY <1>4 DEF Moves, Risky
<1> QED
  BY <1>1, <1>2, <1>4, <1>5, <1>6, QuietStep

(* A waiting job of a schedule that is off is dropped.                      *)
LEMMA OrderDropJob ==
  ASSUME Secure, Orderly, NEW r \in Runs, DropJob(r)
  PROVE  Orderly'
<1> r \in Actors /\ TypeOK
  BY DEF Actors, Secure
<1>1. /\ actor[r].pc = "dropJob" /\ actor[r].pc # "idle" /\ UNCHANGED <<schedule, posted>>
      /\ IF job[actor[r].s].status = "QUEUED" THEN FreeJob(actor[r].s, "CANCELLED") ELSE UNCHANGED job
      /\ Goto(r, "holdPost") \/ Finish(r, "complete")
  BY DEF DropJob, At
<1>2. actor[r].s \in Schedules
  BY <1>1 DEF TypeOK, ActorsTyped
<1>3. PICK step \in {"holdPost", "complete"}, why \in {actor[r].why, "none"} : Moves(r, step, why)
  BY <1>1, StepsAreMoves
<1>4. /\ actor[r].pc \notin Working /\ step # "idle" /\ step \notin Working
      /\ ~Claimant(r)' /\ ~Risky(r)' /\ ~FailsKnowingly(r)'
      /\ step \notin Sending \cup {"markPublishing", "failUnresolved"}
  BY <1>1, <1>3 DEF Moves, Claimant, Risky, FailsKnowingly, Holding, Sending, Working
<1>5. CASE UNCHANGED job
  BY <1>1, <1>3, <1>4, <1>5, QuietStep
<1>6. CASE FreeJob(actor[r].s, "CANCELLED")
  <2>1. Unlocks(actor[r].s, "CANCELLED")
    BY <1>2, <1>6, FreeJobUnlocks
  <2> QED
    BY <1>1, <1>3, <1>4, <2>1, JobStep DEF Unlocks
<1> QED
  BY <1>1, <1>5, <1>6

(* The claim.                                                               *)
LEMMA OrderClaimJob ==
  ASSUME Secure, Orderly, NEW r \in Runs, ClaimJob(r)
  PROVE  Orderly'
<1> r \in Actors /\ TypeOK
  BY DEF Actors, Secure
<1> DEFINE s == actor[r].s
<1>1. /\ actor[r].pc = "claimJob" /\ actor[r].pc # "idle" /\ UNCHANGED <<schedule, posted>>
      /\ s \in Schedules
  BY DEF ClaimJob, At, TypeOK, ActorsTyped
<1>2. CASE Finish(r, "complete") /\ UNCHANGED job
  <2>1. Moves(r, "complete", "none")
    BY <1>2, StepsAreMoves
  <2>2. /\ actor[r].pc \notin Working /\ "complete" \notin Sending \cup {"markPublishing"}
        /\ ~Claimant(r)' /\ ~Risky(r)' /\ ~FailsKnowingly(r)'
    BY <1>1, <2>1 DEF Moves, Claimant, Risky, FailsKnowingly, Holding, Sending, Working
  <2> QED
    BY <1>1, <1>2, <2>1, <2>2, QuietStep
<1>3. CASE ~(Finish(r, "complete") /\ UNCHANGED job)
  <2>1. PICK n \in {job[s].attempts + 1} :
          /\ Claimable(s)
          /\ job' = [job EXCEPT ![s] = [status |-> "PROCESSING", attempts |-> n,
                                        lockedBy |-> LockName(r), lockedAt |-> "fresh"]]
          /\ actor' = [actor EXCEPT ![r].pc = "claimSchedule", ![r].n = n]
    BY <1>3 DEF ClaimJob
  <2>2. Moves(r, "claimSchedule", actor[r].why)
    BY <2>1, SMT DEF Moves, TypeOK, ActorsTyped, ActorType
  <2>3. /\ job'[s].status = "PROCESSING" /\ job'[s].lockedAt = "fresh"
        /\ \A t \in Schedules \ {s} : job'[t] = job[t]
    BY <1>1, <2>1, SMT DEF TypeOK
  <2>4. job[s].status = "QUEUED"
    BY <1>1, <2>1
    DEF Claimable, JobOpen, Unlocked, Secure, LockDiscipline, LocksAreHeld, Orderly, LocksStayFresh
  <2>5. /\ "claimSchedule" \in Working /\ ~FailsKnowingly(r)'
        /\ "claimSchedule" \notin Sending \cup {"markPublishing", "failUnresolved"}
    BY <2>2 DEF Moves, FailsKnowingly, Sending, Working
  <2> QED
    BY <1>1, <2>2, <2>3, <2>4, <2>5, JobStep
<1> QED
  BY <1>2, <1>3

(* A job is let go of by its holder.                                        *)
LEMMA OrderFreeing ==
  ASSUME Secure, Orderly, NEW r \in Runs, ReleaseJob(r) \/ FinishJob(r) \/ RequeueJob(r)
  PROVE  Orderly'
<1> USE DEF At
<1> r \in Actors /\ TypeOK
  BY DEF Actors, Secure
<1> DEFINE s == actor[r].s
<1>1. /\ actor[r].pc \in {"releaseJob", "finishJob", "requeueJob"} /\ actor[r].pc # "idle"
      /\ actor[r].pc \in Holding /\ UNCHANGED <<schedule, posted>>
  BY DEF ReleaseJob, FinishJob, RequeueJob, Holding
<1>2. s \in Schedules /\ job[s].status \notin {"NONE", "QUEUED"}
  BY <1>1, HolderIsPastWaiting DEF TypeOK, ActorsTyped
<1>3. PICK step \in {"complete", "finishSchedule", "markScheduled"}, why \in {actor[r].why, "none"} :
        Moves(r, step, why) /\ (step = "finishSchedule" => actor[r].pc = "finishJob")
  BY StepsAreMoves DEF ReleaseJob, FinishJob, RequeueJob
<1>4. /\ ~Risky(r)' /\ ~FailsKnowingly(r)' /\ Claimant(r)
      /\ step \notin {"idle", "failUnresolved", "markPublishing"} \cup Sending
      /\ step \notin Working
  BY <1>1, <1>3 DEF Moves, Risky, FailsKnowingly, Claimant, Sending, Working
<1>5. CASE job[s].status = "PROCESSING" \/ FinishJob(r)
  <2>1. HoldsLock(r) \/ FinishJob(r)
    BY <1>1, <1>5 DEF Secure, LockDiscipline, HolderHasLock, JobOpen
  <2>2. PICK status \in {"CANCELLED", "SUCCEEDED", "QUEUED"} :
          FreeJob(s, status) /\ (status = "QUEUED" => actor[r].pc = "requeueJob")
    BY <1>5, <2>1 DEF ReleaseJob, FinishJob, RequeueJob
  <2>3. Unlocks(s, status)
    BY <1>2, <2>2, FreeJobUnlocks
  <2> QED
    BY <1>1, <1>3, <1>4, <2>2, <2>3, JobStep DEF Unlocks
<1>6. CASE ~(job[s].status = "PROCESSING" \/ FinishJob(r))
  <2>1. UNCHANGED job
    BY <1>6 DEF ReleaseJob, RequeueJob
  <2> QED
    BY <1>1, <1>3, <1>4, <1>6, <2>1, QuietStep
<1> QED
  BY <1>5, <1>6

(* The failure path of a run.                                               *)
LEMMA OrderFail ==
  ASSUME Secure, Orderly, NEW r \in Runs, FailUnresolved(r) \/ FailJob(r) \/ FailPost(r)
  PROVE  Orderly'
<1> USE DEF At, records
<1> r \in Actors /\ TypeOK /\ r \notin Sweeps
  BY ActorsAssumption DEF Actors, Secure
<1> DEFINE s == actor[r].s
<1>1. /\ actor[r].pc \in {"failUnresolved", "failJob", "failPost"} /\ actor[r].pc # "idle"
      /\ s \in Schedules /\ UNCHANGED <<schedule, posted>>
  BY DEF FailUnresolved, FailJob, FailPost, TypeOK, ActorsTyped
<1>2. CASE FailUnresolved(r)
  <2>1. Moves(r, "failJob", actor[r].why) /\ actor[r].why = "unknown" /\ UNCHANGED job
    BY <1>2, StepsAreMoves DEF FailUnresolved, Orderly, OneClaimant
  <2>2. /\ ~Claimant(r)' /\ ~Risky(r)' /\ ~FailsKnowingly(r)'
        /\ "failJob" \in Working /\ "failJob" \notin Sending \cup {"markPublishing"}
    BY <2>1 DEF Moves, Claimant, Risky, FailsKnowingly, Holding, Sending, Working
  <2> QED
    BY <1>1, <2>1, <2>2, QuietStep
<1>3. CASE UNCHANGED job /\ Leave(r) /\ (actor[r].pc = "failJob" => ~JobOpen(s))
  <2>1. Moves(r, "complete", "none")
    BY <1>3, StepsAreMoves DEF Leave
  <2>2. /\ ~Claimant(r)' /\ ~Risky(r)' /\ ~FailsKnowingly(r)'
        /\ "complete" \notin Sending \cup {"markPublishing"}
        /\ actor[r].pc \in Working => job[s].status # "PROCESSING"
    BY <1>1, <1>3, <2>1 DEF Moves, Claimant, Risky, FailsKnowingly, Holding, Sending, Working, JobOpen
  <2> QED
    BY <1>1, <1>3, <2>1, <2>2, QuietStep
<1>4. CASE FailJob(r) /\ JobOpen(s)
  <2>1. Moves(r, "failSchedule", actor[r].why) /\ FreeJob(s, "FAILED") /\ actor[r].pc = "failJob"
    BY <1>4, StepsAreMoves DEF FailJob
  <2>2. Unlocks(s, "FAILED")
    BY <1>1, <2>1, FreeJobUnlocks
  <2>3. /\ Claimant(r)' => Claimant(r)
        /\ Risky(r)' => Risky(r)
        /\ "failSchedule" \notin Sending \cup {"markPublishing", "failUnresolved"}
    BY <2>1 DEF Moves, Claimant, Risky, FailsKnowingly, Holding, Sending
  <2> QED
    BY <1>1, <2>1, <2>2, <2>3, JobStep DEF Unlocks
<1> QED
  BY <1>1, <1>2, <1>3, <1>4 DEF FailJob, FailPost

(* What the helpers do to a schedule.                                       *)
LEMMA ScheduleSet ==
  ASSUME TypeOK, NEW s \in Schedules, NEW status, NEW isLive, SetSchedule(s, status, isLive)
  PROVE  /\ schedule'[s].status = status /\ schedule'[s].isLive = isLive
         /\ \A t \in Schedules \ {s} : schedule'[t] = schedule[t]
  BY SMT DEF TypeOK, ScheduleType, SetSchedule

(* The steps of a run that change its schedule.                             *)
LEMMA OrderSchedules ==
  ASSUME Secure, Orderly, NEW r \in Runs,
         \/ StopSchedule(r) \/ ClaimSchedule(r) \/ UnclaimSchedule(r) \/ FinishSchedule(r)
         \/ FailSchedule(r)
  PROVE  Orderly'
<1> USE DEF At
<1> r \in Actors /\ TypeOK /\ r \notin Sweeps
  BY ActorsAssumption DEF Actors, Secure
<1> DEFINE s == actor[r].s
<1>1. /\ actor[r].pc \in {"stopSchedule", "claimSchedule", "unclaimSchedule", "finishSchedule",
                          "failSchedule"}
      /\ actor[r].pc # "idle" /\ s \in Schedules /\ UNCHANGED <<job, posted>>
  BY DEF StopSchedule, ClaimSchedule, UnclaimSchedule, FinishSchedule, FailSchedule, TypeOK, ActorsTyped
<1>2. CASE UNCHANGED schedule
  <2>1. PICK step, why :
          /\ Moves(r, step, why)
          /\ \/ step = "dropJob" /\ actor[r].pc = "stopSchedule"
             \/ step = "releaseJob" /\ actor[r].pc \in {"claimSchedule", "unclaimSchedule"}
             \/ step = "complete" /\ actor[r].pc = "failSchedule"
             \/ /\ step = "markPublishing" /\ actor[r].pc = "claimSchedule" /\ Live(s)
                /\ SetSchedule(s, "PROCESSING", TRUE)
             \/ step = "requeueJob" /\ actor[r].pc = "unclaimSchedule"
             \/ step = "finishPost" /\ actor[r].pc = "finishSchedule"
             \/ step = "failPost" /\ actor[r].pc = "failSchedule"
    BY StepsAreMoves
    DEF StopSchedule, ClaimSchedule, UnclaimSchedule, FinishSchedule, FailSchedule, Leave
  <2>2. CASE step # "markPublishing"
    <3>1. /\ actor[r].pc \in Working => step \in Working
          /\ step \notin Sending \cup {"markPublishing", "idle", "failUnresolved"}
          /\ Claimant(r)' => Claimant(r)
          /\ Risky(r)' => Risky(r)
          /\ ~FailsKnowingly(r)'
      BY <2>1, <2>2 DEF Moves, Claimant, Risky, FailsKnowingly, Holding, Sending, Working
    <3> QED
      BY <1>1, <1>2, <2>1, <3>1, QuietStep
  <2>3. CASE step = "markPublishing"
    <3>1. actor[r].pc = "claimSchedule" /\ Live(s) /\ SetSchedule(s, "PROCESSING", TRUE)
      BY <2>1, <2>3
    <3>2. BecomesTaken(s)
      BY <1>1, <3>1, ScheduleSet DEF BecomesTaken
    <3>3. /\ "markPublishing" \in Working /\ Claimant(r) /\ Risky(r) /\ ~FailsKnowingly(r)'
      BY <2>1, <2>3, <3>1 DEF Moves, Claimant, Risky, FailsKnowingly, Holding, Working
    <3> QED
      BY <1>1, <1>2, <2>1, <2>3, <3>1, <3>2, <3>3, ScheduleStep
  <2> QED
    BY <2>2, <2>3
<1>3. CASE StopSchedule(r) /\ ~UNCHANGED schedule
  <2>1. /\ actor[r].pc = "stopSchedule" /\ Live(s) /\ schedule[s].status # "PROCESSING"
        /\ SetSchedule(s, "CANCELLED", FALSE) /\ Moves(r, "dropJob", actor[r].why)
    BY <1>3, StepsAreMoves DEF StopSchedule
  <2>2. /\ actor[r].pc \notin Working /\ ~Claimant(r)' /\ ~Risky(r)' /\ ~FailsKnowingly(r)'
        /\ "dropJob" \notin Sending \cup {"markPublishing"} /\ ~Taken(s)
    BY <2>1 DEF Moves, Claimant, Risky, FailsKnowingly, Holding, Sending, Working, Taken
  <2> QED
    BY <1>1, <2>1, <2>2, ScheduleSet, ScheduleStep
<1>4. CASE (ClaimSchedule(r) \/ UnclaimSchedule(r)) /\ ~UNCHANGED schedule
  <2>1. PICK step \in {"markPublishing", "requeueJob"}, status \in {"PROCESSING", "SCHEDULED"} :
          /\ Moves(r, step, actor[r].why) /\ SetSchedule(s, status, TRUE) /\ Live(s)
          /\ actor[r].pc \in {"claimSchedule", "unclaimSchedule"}
          /\ step = "markPublishing" => status = "PROCESSING"
    BY <1>4, StepsAreMoves DEF ClaimSchedule, UnclaimSchedule
  <2>2. step = "markPublishing" => BecomesTaken(s)
    BY <1>1, <2>1, ScheduleSet DEF BecomesTaken
  <2>3. /\ step \in Working /\ Claimant(r) /\ Risky(r) /\ ~FailsKnowingly(r)'
        /\ step \notin Sending \cup {"idle", "failUnresolved"}
    BY <2>1 DEF Moves, Claimant, Risky, FailsKnowingly, Holding, Working, Sending
  <2> QED
    BY <1>1, <2>1, <2>2, <2>3, ScheduleSet, ScheduleStep
<1>5. CASE FinishSchedule(r)
  <2>1. /\ actor[r].pc = "finishSchedule" /\ Moves(r, "finishPost", actor[r].why)
        /\ schedule' = [schedule EXCEPT ![s] =
                          [status |-> "PUBLISHED", isLive |-> FALSE, needsReview |-> FALSE]]
    BY <1>5, StepsAreMoves DEF FinishSchedule
  <2>2. /\ schedule'[s].status = "PUBLISHED"
        /\ \A t \in Schedules \ {s} : schedule'[t] = schedule[t]
    BY <1>1, <2>1, Zenon DEF TypeOK
  <2>3. /\ actor[r].pc \notin Working /\ Claimant(r) /\ ~Risky(r)' /\ ~FailsKnowingly(r)'
        /\ "finishPost" \notin Sending \cup {"markPublishing"}
    BY <2>1 DEF Moves, Claimant, Risky, FailsKnowingly, Holding, Sending, Working
  <2> QED
    BY <1>1, <2>1, <2>2, <2>3, ScheduleStep
<1>6. CASE FailSchedule(r) /\ ~UNCHANGED schedule
  <2>1. /\ actor[r].pc = "failSchedule" /\ Moves(r, "failPost", actor[r].why) /\ Live(s)
        /\ schedule' = [schedule EXCEPT ![s] =
                          [status |-> "FAILED", isLive |-> FALSE, needsReview |-> NeedsReview(r)]]
    BY <1>6, StepsAreMoves DEF FailSchedule
  <2>2. /\ schedule'[s].status = "FAILED" /\ ~schedule'[s].isLive
        /\ schedule'[s].needsReview = NeedsReview(r)
        /\ \A t \in Schedules \ {s} : schedule'[t] = schedule[t]
    BY <1>1, <2>1, Zenon DEF TypeOK
  <2>3. BecomesForReview(s) \/ Risky(r)
    BY <2>1, <2>2 DEF BecomesForReview, Risky, NeedsReview
  <2>4. /\ actor[r].pc \notin Working /\ ~Claimant(r)' /\ ~Risky(r)' /\ ~FailsKnowingly(r)'
        /\ "failPost" \notin Sending \cup {"markPublishing"}
    BY <2>1 DEF Moves, Claimant, Risky, FailsKnowingly, Holding, Sending, Working
  <2> QED
    BY <1>1, <2>1, <2>2, <2>3, <2>4, ScheduleStep
<1> QED
  BY <1>2, <1>3, <1>4, <1>5, <1>6

(* The platform call.                                                       *)
LEMMA OrderCall ==
  ASSUME Secure, Orderly, NEW r \in Runs, Call(r)
  PROVE  Orderly'
<1> USE DEF At, records
<1> r \in Actors /\ TypeOK
  BY DEF Actors, Secure
<1> DEFINE s == actor[r].s
<1>1. /\ actor[r].pc = "call" /\ actor[r].pc # "idle" /\ s \in Schedules
      /\ UNCHANGED <<job, schedule>>
  BY DEF Call, TypeOK, ActorsTyped
<1>2. CASE UNCHANGED posted
  <2>1. PICK step, why : Moves(r, step, why) /\ step \in {"saveSuccess", "saveFailure"}
    BY <1>2, StepsAreMoves DEF Call
  <2>2. /\ step \in Working /\ step \notin Sending \cup {"markPublishing", "failUnresolved", "idle"}
        /\ Claimant(r) /\ Risky(r) /\ ~FailsKnowingly(r)'
    BY <1>1, <2>1 DEF Moves, Claimant, Risky, FailsKnowingly, Holding, Sending, Working
  <2> QED
    BY <1>1, <1>2, <2>1, <2>2, QuietStep
<1>3. CASE ~UNCHANGED posted
  <2>1. /\ posted' = [posted EXCEPT ![s] = @ + 1]
        /\ Goto(r, "saveSuccess") \/ GiveUp(r, "saveFailure", "unknown")
    BY <1>3 DEF Call
  <2>2. PICK step, why :
          /\ Moves(r, step, why) /\ step \in {"saveSuccess", "saveFailure"}
          /\ step = "saveFailure" => why = "unknown"
    BY <2>1, StepsAreMoves
  <2>3. /\ step \in Working /\ step \notin Sending \cup {"markPublishing", "failUnresolved", "idle"}
        /\ Claimant(r) /\ ~Risky(r)' /\ ~FailsKnowingly(r)'
    BY <1>1, <2>2 DEF Moves, Claimant, Risky, FailsKnowingly, Holding, Sending, Working
  <2>4. \A t \in Schedules \ {s} : posted'[t] = posted[t]
    BY <2>1, SMT DEF TypeOK
  <2>5. OneRunMoves(r)
    BY <1>1, <2>2, <2>4 DEF OneRunMoves, Moves
  <2>6. Attentive(r)
    BY <1>1, <2>2, <2>3 DEF Attentive, Moves, Orderly, LocksStayFresh
  <2>7. Careful(r)
    BY <1>1, <2>2, <2>3 DEF Careful, Moves
  <2> QED
    BY <2>5, <2>6, <2>7, RunKeepsOrder
<1> QED
  BY <1>2, <1>3

(* BullMQ hands an entry to a run or takes it back.                         *)
LEMMA OrderHandOver ==
  ASSUME Secure, Orderly, NEW r \in Runs,
         Complete(r) \/ Rethrow(r) \/ (\E s \in Schedules : Deliver(r, s))
  PROVE  Orderly'
<1> USE DEF At, records
<1> r \in Actors /\ TypeOK
  BY DEF Actors, Secure
<1>1. UNCHANGED <<job, schedule, posted>>
  BY DEF Complete, Rethrow, Deliver
<1>2. CASE \E s \in Schedules : Deliver(r, s)
  <2>1. /\ actor[r].pc = "idle" /\ actor'[r].pc = "readJob"
        /\ \A b \in Actors \ {r} : actor'[b] = actor[b]
    BY <1>2, SMT DEF Deliver, Start, New, TypeOK, ActorsTyped
  <2> QED
    BY <1>1, <2>1, RunKeepsOrder DEF OneRunMoves
<1>3. CASE Complete(r) \/ Rethrow(r)
  <2>1. /\ actor[r].pc \in {"complete", "rethrow"} /\ actor'[r].pc = "idle"
        /\ \A b \in Actors \ {r} : actor'[b] = actor[b]
    BY <1>3, SMT DEF Complete, Rethrow, Rest, Idle, New, TypeOK, ActorsTyped
  <2>2. OneRunMoves(r) /\ actor[r].s \in Schedules
    BY <1>1, <2>1 DEF OneRunMoves, TypeOK, ActorsTyped
  <2>3. ~Claimant(r)' /\ ~Risky(r)' /\ ~FailsKnowingly(r)' /\ actor[r].pc \notin Working
    BY <2>1 DEF Claimant, Risky, FailsKnowingly, Holding, Working
  <2>4. Attentive(r)
    BY <1>1, <2>1, <2>2, <2>3 DEF Attentive, Orderly, LocksStayFresh
  <2>5. Careful(r)
    BY <1>1, <2>1 DEF Careful, Sending
  <2> QED
    BY <2>2, <2>4, <2>5, RunKeepsOrder
<1> QED
  BY <1>2, <1>3

(* No run moves: jobs may be made or dropped while they wait, schedules     *)
(* change while they are not taken.                                         *)
OnlyWaiting ==
  \A s \in Schedules :
    /\ \/ job'[s] = job[s]
       \/ /\ job[s].status \in {"NONE", "QUEUED"} /\ job'[s].status # "PROCESSING"
          /\ job'[s].lockedAt # "stale"
    /\ \/ schedule'[s] = schedule[s]
       \/ ~Taken(s) /\ ~ForReview(s) /\ schedule[s].status # "PUBLISHED"

LEMMA OthersKeepOrder ==
  ASSUME Secure, Orderly, UNCHANGED posted, \A r \in Runs : actor'[r] = actor[r], SweepsOnlyRequeue',
         OnlyWaiting
  PROVE  Orderly'
<1> USE DEF OnlyWaiting
<1>1. /\ Attended /\ LocksStayFresh /\ OneClaimant /\ SendersTookIt /\ SentIsKnown
      /\ \A r \in Runs : actor[r].pc # "idle" => actor[r].s \in Schedules
  BY DEF Orderly, Secure, TypeOK, ActorsTyped, Actors
<1>2. Attended' /\ LocksStayFresh'
  BY <1>1 DEF Attended, LocksStayFresh
<1>3. OneClaimant'
  <2>1. \A r \in Runs : FailsKnowingly(r) => actor[r].s \in Schedules
    BY <1>1 DEF FailsKnowingly
  <2>2. \A r \in Runs : FailsKnowingly(r)' => job'[actor'[r].s].status \notin {"NONE", "QUEUED"}
    BY <1>1, <2>1, SameClaims DEF OneClaimant
  <2>3. \A a, b \in Runs : Claimant(a)' /\ Claimant(b)' /\ actor'[a].s = actor'[b].s => a = b
    BY <1>1, SameClaims DEF OneClaimant
  <2>4. \A r \in Runs : actor'[r].pc = "failUnresolved" => actor'[r].why = "unknown"
    BY <1>1 DEF OneClaimant
  <2> QED
    BY <2>2, <2>3, <2>4 DEF OneClaimant
<1>4. SendersTookIt'
  <2> SUFFICES ASSUME NEW r \in Runs, actor'[r].pc \in Sending \cup {"markPublishing"}
               PROVE  BecomesTaken(actor'[r].s) \/ BecomesForReview(actor'[r].s)
    BY DEF SendersTookIt, BecomesTaken, BecomesForReview, Taken, ForReview, Live
  <2>1. actor'[r] = actor[r] /\ actor[r].s \in Schedules
    BY <1>1 DEF Sending
  <2>2. Taken(actor[r].s) \/ ForReview(actor[r].s)
    BY <1>1, <2>1 DEF SendersTookIt
  <2>3. schedule'[actor[r].s] = schedule[actor[r].s]
    BY <2>1, <2>2
  <2> QED
    BY <2>1, <2>2, <2>3 DEF BecomesTaken, BecomesForReview, Taken, ForReview, Live
<1>5. ASSUME NEW s \in Schedules, posted'[s] > 0
      PROVE  Known(s)'
  <2>1. Known(s)
    BY <1>1, <1>5 DEF SentIsKnown, Known
  <2>2. schedule'[s] = schedule[s]
    BY <2>1 DEF Known
  <2>3. \A r \in Runs : actor'[r].s = s => actor[r].s = s /\ (Risky(r)' <=> Risky(r))
    BY SameClaims
  <2>4. job[s].status \notin {"NONE", "QUEUED"} => job'[s] = job[s]
    OBVIOUS
  <2> QED
    BY <2>1, <2>2, <2>3, <2>4 DEF Known, Taken, ForReview, Live
<1>6. SentIsKnown'
  BY <1>5 DEF SentIsKnown, Known
<1> QED
  BY <1>2, <1>3, <1>4, <1>6 DEF Orderly

(* The sweeps only find waiting jobs and put their entries back.            *)
LEMMA OrderSweep ==
  ASSUME Secure, Orderly, NEW v \in Sweeps, SweepNext(v)
  PROVE  Orderly'
<1> USE DEF At, records
<1> v \in Actors /\ TypeOK /\ v \notin Runs
  BY ActorsAssumption DEF Actors, Secure
<1>1. actor[v].pc \in {"idle", "dueSchedule", "checkEntry", "readd"}
  BY DEF Orderly, SweepsOnlyRequeue
<1>2. \A s \in Schedules : ~TakeAbandoned(v, s)
  BY DEF TakeAbandoned, Orderly, LocksStayFresh
<1>3. \/ DueSchedule(v) \/ CheckEntry(v) \/ ReaddEntry(v)
      \/ \E s \in Schedules : FindDue(v, s)
  BY <1>1, <1>2
  DEF SweepNext, SweepStep, FailStep, SweepSchedule, SweepCancel, SweepAttempts, SweepRequeue,
      SweepUnclaim, SweepPost, FailUnresolved, FailJob, FailSchedule, FailPost
<1>4. UNCHANGED <<job, schedule, posted>>
  BY <1>3 DEF DueSchedule, CheckEntry, ReaddEntry, FindDue
<1>5. \/ \E step \in {"checkEntry", "readd"} : Goto(v, step)
      \/ Rest(v)
      \/ \E s \in Schedules : Start(v, "dueSchedule", s)
  BY <1>3 DEF DueSchedule, CheckEntry, ReaddEntry, FindDue, Leave
<1>6. /\ actor'[v].pc \in {"idle", "dueSchedule", "checkEntry", "readd"}
      /\ \A b \in Actors \ {v} : actor'[b] = actor[b]
  <2>1. CASE \E step \in {"checkEntry", "readd"} : Goto(v, step)
    BY <2>1, StepsAreMoves DEF Moves
  <2>2. CASE Rest(v) \/ \E s \in Schedules : Start(v, "dueSchedule", s)
    BY <2>2, SMT DEF Rest, Idle, Start, New, TypeOK, ActorsTyped
  <2> QED
    BY <1>5, <2>1, <2>2
<1>7. /\ \A r \in Runs : actor'[r] = actor[r]
      /\ SweepsOnlyRequeue'
  BY <1>6 DEF Actors, Orderly, SweepsOnlyRequeue
<1>8. OnlyWaiting
  BY <1>4 DEF OnlyWaiting
<1> QED
  BY <1>4, <1>7, <1>8, OthersKeepOrder

(* The requests make, drop and cancel what waits.                           *)
LEMMA OrderRequest ==
  ASSUME Secure, Orderly, NEW h \in Requests, RequestStep(h)
  PROVE  Orderly'
<1> USE DEF records
<1> TypeOK
  BY DEF Secure
<1>1. UNCHANGED <<actor, posted>>
  BY DEF RequestStep, FindScheduled, CancelLive, CheckLive, CancelJob, RemoveEntry, CreateSchedule,
         CreateJob, AddEntry, SavePost
<1>2. ASSUME NEW s \in Schedules
      PROVE  \/ job'[s] = job[s]
             \/ /\ job[s].status \in {"NONE", "QUEUED"} /\ job'[s].status # "PROCESSING"
                /\ job'[s].lockedAt # "stale"
  <2>1. ASSUME NEW t, NEW status \in {"CANCELLED", "QUEUED"},
               job[t].status \in {"NONE", "QUEUED"}, job' = [job EXCEPT ![t].status = status]
        PROVE  \/ job'[s] = job[s]
               \/ /\ job[s].status \in {"NONE", "QUEUED"} /\ job'[s].status # "PROCESSING"
                  /\ job'[s].lockedAt # "stale"
    <3>1. job[s].lockedAt # "stale"
      BY DEF Orderly, LocksStayFresh
    <3>2. s # t => job'[s] = job[s]
      BY <2>1, SMT DEF TypeOK
    <3>3. s = t => job'[s].status = status /\ job'[s].lockedAt = job[s].lockedAt
      BY <2>1, SMT DEF TypeOK, JobType
    <3> QED
      BY <2>1, <3>1, <3>2, <3>3
  <2>2. CASE CancelJob(h)
    BY <2>1, <2>2 DEF CancelJob
  <2>3. CASE CreateJob(h)
    BY <2>1, <2>3 DEF CreateJob, Secure, LockDiscipline, CreatedOnce
  <2>4. CASE ~CancelJob(h) /\ ~CreateJob(h)
    BY <2>4 DEF RequestStep, FindScheduled, CancelLive, CheckLive, RemoveEntry, CreateSchedule,
                AddEntry, SavePost
  <2> QED
    BY <2>2, <2>3, <2>4
<1>3. ASSUME NEW s \in Schedules, schedule'[s] # schedule[s]
      PROVE  ~Taken(s) /\ ~ForReview(s) /\ schedule[s].status # "PUBLISHED"
  <2>1. \E t \in Schedules : \E status, isLive :
          /\ Cancellable(t) \/ schedule[t].status = "NONE"
          /\ SetSchedule(t, status, isLive)
    BY <1>3 DEF RequestStep, FindScheduled, CancelLive, CheckLive, CancelJob, RemoveEntry,
                CreateSchedule, CreateJob, AddEntry, SavePost
  <2>2. Cancellable(s) \/ schedule[s].status = "NONE"
    BY <1>3, <2>1, ScheduleSet
  <2>3. Live(s) => schedule[s].status \in {"SCHEDULED", "PROCESSING"}
    BY DEF Secure, LiveIsOnItsWay
  <2> QED
    BY <2>2, <2>3 DEF Cancellable, Taken, ForReview
<1>4. SweepsOnlyRequeue'
  BY <1>1 DEF Orderly, SweepsOnlyRequeue
<1>5. OnlyWaiting
  BY <1>2, <1>3 DEF OnlyWaiting
<1>6. \A r \in Runs : actor'[r] = actor[r]
  BY <1>1
<1> QED
  BY <1>1, <1>4, <1>5, <1>6, OthersKeepOrder

(* What BullMQ and people do besides.                                       *)
LEMMA OrderEvent ==
  ASSUME Secure, Orderly,
         \/ \E s \in Schedules : QueueNext(s)
         \/ \E h \in Requests :
              \/ ApiCrash(h) \/ BeginArchive(h)
              \/ \E op \in {"schedule", "unschedule", "setReady"} : Begin(h, op)
         \/ Pause \/ Resume \/ Restore \/ UNCHANGED vars
  PROVE  Orderly'
<1> USE DEF records
<1>1. ASSUME NEW s \in Schedules
      PROVE  ~LockExpires(s)
  <2> SUFFICES ASSUME LockExpires(s)
               PROVE  FALSE
    OBVIOUS
  <2>1. job[s].lockedAt = "fresh" /\ \A a \in Actors : actor[a].s # s
    BY DEF LockExpires
  <2>2. job[s].status = "PROCESSING"
    BY <2>1 DEF Secure, LockDiscipline, LocksAreHeld
  <2> QED
    BY <2>1, <2>2 DEF Orderly, Attended, Actors
<1>2. UNCHANGED <<actor, job, schedule, posted>>
  BY <1>1 DEF QueueNext, Stalled, Redeliver, LoseEntry, ApiCrash, BeginArchive, Begin, Pause,
              Resume, Restore, vars
<1>3. SweepsOnlyRequeue'
  BY <1>2 DEF Orderly, SweepsOnlyRequeue
<1>4. OnlyWaiting /\ \A r \in Runs : actor'[r] = actor[r]
  BY <1>2 DEF OnlyWaiting
<1> QED
  BY <1>2, <1>3, <1>4, OthersKeepOrder

(* A step takes from the budget once or not at all.                         *)
LEMMA NextSpends ==
  [Next]_vars => UNCHANGED <<budget, opening>> \/ \E what \in Faults \cup Events : Spend(what)
<1> SUFFICES ASSUME [Next]_vars
             PROVE  UNCHANGED <<budget, opening>> \/ \E what \in Faults \cup Events : Spend(what)
  OBVIOUS
<1> USE DEF outside
<1> {"crash", "apiCrash", "redelivery", "lostEntry", "storeError", "connectionReset", "request",
     "archive", "pause"} \subseteq Faults \cup Events
  BY DEF Faults, Events
<1>1. ASSUME NEW r \in Runs, RunNext(r)
      PROVE  UNCHANGED <<budget, opening>> \/ \E what \in Faults \cup Events : Spend(what)
  <2>1. CASE RunStep(r)
    BY <2>1
    DEF RunStep, ReadJob, ReadSchedule, DropJob, ReadAttempts, CheckWorkspace, CheckPause,
        StopSchedule, HoldPost, ClaimJob, ClaimSchedule, ReleaseJob, MarkPublishing, LoadPlan,
        Connect, MarkSent, Call, SaveSuccess, FinishJob, FinishSchedule, FinishPost, Hooks,
        SaveFailure, UnclaimSchedule, RequeueJob, MarkScheduled
  <2>2. CASE \/ FailStep(r) \/ Complete(r) \/ Rethrow(r) \/ \E s \in Schedules : Deliver(r, s)
    BY <2>2
    DEF FailStep, FailUnresolved, FailJob, FailSchedule, FailPost, Complete, Rethrow, Deliver
  <2>3. CASE StoreError(r) \/ LoseAnswer(r)
    BY <2>3 DEF StoreError, LoseAnswer
  <2> QED
    BY <1>1, <2>1, <2>2, <2>3 DEF RunNext
<1>2. ASSUME NEW v \in Sweeps, SweepNext(v)
      PROVE  UNCHANGED <<budget, opening>>
  BY <1>2
  DEF SweepNext, SweepStep, SweepSchedule, SweepCancel, SweepAttempts, SweepRequeue, SweepUnclaim,
      SweepPost, DueSchedule, CheckEntry, ReaddEntry, FailStep, FailUnresolved, FailJob,
      FailSchedule, FailPost, TakeAbandoned, FindDue
<1>3. ASSUME NEW h \in Requests, RequestNext(h)
      PROVE  UNCHANGED <<budget, opening>> \/ \E what \in Faults \cup Events : Spend(what)
  BY <1>3
  DEF RequestNext, RequestStep, FindScheduled, CancelLive, CheckLive, CancelJob, RemoveEntry,
      CreateSchedule, CreateJob, AddEntry, SavePost, ApiCrash, BeginArchive, Begin
<1>4. ASSUME \/ \E s \in Schedules : QueueNext(s)
             \/ \E p \in Procs : Crash(p)
             \/ Pause \/ Resume \/ Restore \/ UNCHANGED vars
      PROVE  UNCHANGED <<budget, opening>> \/ \E what \in Faults \cup Events : Spend(what)
  BY <1>4 DEF QueueNext, Stalled, Redeliver, LoseEntry, LockExpires, Crash, Pause, Resume, Restore,
              vars
<1> QED
  BY <1>1, <1>2, <1>3, <1>4 DEF Next

(* What nothing was spent on after a step was not spent by it, or before.   *)
LEMMA UnspentBefore ==
  ASSUME Secure, [Next]_vars, NEW what \in Faults, Spent(what)' = 0
  PROVE  Spent(what) = 0 /\ ~Spend(what)
<1>1. TypeOK /\ BudgetIsSpent
  BY DEF Secure, SendsAreCounted
<1>2. /\ budget[what] \in Nat /\ opening[what] \in Nat /\ budget[what] <= opening[what]
  BY <1>1, SMT DEF TypeOK, BudgetIsSpent
<1>3. ~Spend(what)
  <2> SUFFICES ASSUME Spend(what)
               PROVE  FALSE
    OBVIOUS
  <2>1. opening'[what] = opening[what] /\ budget'[what] = budget[what] - 1
    BY <1>1, SpendsLess
  <2> QED
    BY <1>2, <2>1, SMT DEF Spent
<1>4. opening'[what] = opening[what] /\ budget'[what] = budget[what]
  <2>1. CASE UNCHANGED <<budget, opening>>
    BY <2>1
  <2>2. ASSUME NEW other \in Faults \cup Events, Spend(other)
        PROVE  opening'[what] = opening[what] /\ budget'[what] = budget[what]
    <3>1. other # what
      BY <1>3, <2>2
    <3> QED
      BY <1>1, <2>2, <3>1, SpendsLess
  <2> QED
    BY <2>1, <2>2, NextSpends
<1> QED
  BY <1>3, <1>4 DEF Spent

(* Without harm the runs stay in order.                                     *)
LEMMA OrderStays ==
  ASSUME Secure, OrderlyUnlessHarmed, [Next]_vars
  PROVE  OrderlyUnlessHarmed'
<1> SUFFICES ASSUME Unharmed'
             PROVE  Orderly'
  BY DEF OrderlyUnlessHarmed
<1>1. {"crash", "storeError", "connectionReset"} \subseteq Faults
  BY DEF Faults
<1>2. /\ Unharmed /\ Orderly
      /\ ~Spend("crash") /\ ~Spend("storeError") /\ ~Spend("connectionReset")
  BY <1>1, UnspentBefore DEF Unharmed, OrderlyUnlessHarmed
<1>3. ASSUME NEW r \in Runs, RunNext(r)
      PROVE  Orderly'
  <2>1. ~StoreError(r) /\ ~LoseAnswer(r)
    BY <1>2 DEF StoreError, LoseAnswer
  <2> QED
    BY <1>2, <1>3, <2>1, OrderAside, OrderHold, OrderDropJob, OrderClaimJob, OrderFreeing, OrderFail,
       OrderSchedules, OrderCall, OrderHandOver, Zenon
    DEF RunNext, RunStep, FailStep
<1>4. ASSUME NEW p \in Procs
      PROVE  ~Crash(p)
  BY <1>2 DEF Crash
<1> QED
  BY <1>2, <1>3, <1>4, OrderSweep, OrderRequest, OrderEvent DEF Next, RequestNext

(* What was cancelled or failed without a review is not out, and what is    *)
(* being sent cannot be cancelled.                                          *)
LEMMA OrderIsSafe == Secure /\ Orderly => ChangesAreSafe
<1> SUFFICES ASSUME Secure, Orderly
             PROVE  SafeToReschedule /\ SendingIsNotCancellable
  BY DEF ChangesAreSafe
<1>1. ASSUME NEW s \in Schedules,
             \/ schedule[s].status = "CANCELLED"
             \/ schedule[s].status = "FAILED" /\ ~schedule[s].needsReview
      PROVE  posted[s] = 0
  <2>1. posted[s] \in Nat
    BY DEF Secure, TypeOK
  <2>2. ~(posted[s] > 0)
    BY <1>1 DEF Orderly, SentIsKnown, ForReview, Taken
  <2> QED
    BY <2>1, <2>2, SMT
<1>2. SendingIsNotCancellable
  BY DEF SendingIsNotCancellable, Cancellable, Orderly, SendersTookIt, Taken, ForReview, Sending
<1> QED
  BY <1>1, <1>2 DEF SafeToReschedule

-----------------------------------------------------------------------------
(* As long as every job is handed to one run at a time, nobody leaves a     *)
(* live schedule without its job, and an unknown outcome ends the job.      *)

(* Two runs at work are at work on different schedules.                     *)
LEMMA OneRunEach ==
  ASSUME EntriesAreOwned, NEW a \in Runs, NEW b \in Runs, actor[a].pc # "idle", actor[b].pc # "idle",
         actor[a].s = actor[b].s
  PROVE  a = b
  BY DEF EntriesAreOwned

(* Entries nobody is at work on may change.                                 *)
LEMMA OwnedStays ==
  ASSUME TypeOK, EntriesAreOwned,
         \A q \in Runs :
           /\ actor'[q].pc = "idle" <=> actor[q].pc = "idle"
           /\ actor[q].pc # "idle" => actor'[q].s = actor[q].s,
         \A s \in Schedules :
           entry'[s] = entry[s] \/ (entry[s].state # "active" /\ entry'[s].state # "active")
  PROVE  EntriesAreOwned'
<1>1. ASSUME NEW r \in Runs, actor'[r].pc # "idle"
      PROVE  entry'[actor'[r].s].state = "active" /\ entry'[actor'[r].s].owner = r
  <2>1. actor[r].pc # "idle" /\ actor'[r].s = actor[r].s /\ actor[r].s \in Schedules
    BY <1>1 DEF TypeOK, ActorsTyped, Actors
  <2> QED
    BY <2>1 DEF EntriesAreOwned
<1>2. ASSUME NEW s \in Schedules, entry'[s].state = "active"
      PROVE  /\ entry'[s].owner \in Runs
             /\ actor'[entry'[s].owner].pc # "idle"
             /\ actor'[entry'[s].owner].s = s
  BY <1>2 DEF EntriesAreOwned
<1> QED
  BY <1>1, <1>2 DEF EntriesAreOwned

(* A run takes an entry up, and gives it back.                              *)
LEMMA OwnedHandOver ==
  ASSUME TypeOK, EntriesAreOwned, NEW r \in Runs,
         Complete(r) \/ Rethrow(r) \/ (\E s \in Schedules : Deliver(r, s))
  PROVE  EntriesAreOwned'
<1> USE DEF At
<1> r \in Actors
  BY DEF Actors
<1>1. \A q \in Runs : actor[q].pc # "idle" => actor[q].s \in Schedules
  BY DEF TypeOK, ActorsTyped, Actors
<1>2. ASSUME NEW s \in Schedules, Deliver(r, s)
      PROVE  EntriesAreOwned'
  <2>1. /\ actor[r].pc = "idle" /\ actor'[r].pc = "readJob" /\ actor'[r].s = s
        /\ \A q \in Runs \ {r} : actor'[q] = actor[q]
    BY <1>2, SMT DEF Deliver, Start, New, TypeOK, ActorsTyped, Actors
  <2>2. /\ entry[s].state = "queued" /\ entry'[s].state = "active" /\ entry'[s].owner = r
        /\ \A t \in Schedules \ {s} : entry'[t] = entry[t]
    BY <1>2, SMT DEF Deliver, TypeOK, EntryType
  <2>3. ASSUME NEW q \in Runs, actor'[q].pc # "idle"
        PROVE  entry'[actor'[q].s].state = "active" /\ entry'[actor'[q].s].owner = q
    <3>1. CASE q = r
      BY <2>1, <2>2, <3>1
    <3>2. CASE q # r
      <4>1. /\ actor'[q] = actor[q] /\ actor[q].s \in Schedules
            /\ entry[actor[q].s].state = "active" /\ entry[actor[q].s].owner = q
        BY <1>1, <2>1, <2>3, <3>2 DEF EntriesAreOwned
      <4> QED
        BY <2>2, <4>1
    <3> QED
      BY <3>1, <3>2
  <2>4. ASSUME NEW t \in Schedules, entry'[t].state = "active"
        PROVE  /\ entry'[t].owner \in Runs
               /\ actor'[entry'[t].owner].pc # "idle"
               /\ actor'[entry'[t].owner].s = t
    <3>1. CASE t = s
      BY <2>1, <2>2, <3>1
    <3>2. CASE t # s
      BY <2>1, <2>2, <2>4, <3>2 DEF EntriesAreOwned
    <3> QED
      BY <3>1, <3>2
  <2> QED
    BY <2>3, <2>4 DEF EntriesAreOwned
<1>3. CASE Complete(r) \/ Rethrow(r)
  <2> DEFINE s == actor[r].s
  <2>1. /\ actor[r].pc # "idle" /\ actor'[r].pc = "idle"
        /\ \A q \in Runs \ {r} : actor'[q] = actor[q]
    BY <1>3, SMT DEF Complete, Rethrow, Rest, Idle, New, TypeOK, ActorsTyped, Actors
  <2>2. s \in Schedules /\ entry[s].owner = r
    BY <1>1, <2>1 DEF EntriesAreOwned
  <2>3. /\ entry'[s].state \in {"queued", "finished"}
        /\ \A t \in Schedules \ {s} : entry'[t] = entry[t]
    <3>1. CASE Complete(r)
      BY <2>2, <3>1, SMT DEF Complete, TypeOK, EntryType
    <3>2. CASE Rethrow(r)
      BY <2>2, <3>2, SMT DEF Rethrow, TypeOK, EntryType
    <3> QED
      BY <1>3, <3>1, <3>2
  <2>4. \A q \in Runs \ {r} : actor[q].pc # "idle" => actor[q].s # s
    BY <2>1, OneRunEach
  <2>5. ASSUME NEW q \in Runs, actor'[q].pc # "idle"
        PROVE  entry'[actor'[q].s].state = "active" /\ entry'[actor'[q].s].owner = q
    BY <1>1, <2>1, <2>3, <2>4, <2>5 DEF EntriesAreOwned
  <2>6. ASSUME NEW t \in Schedules, entry'[t].state = "active"
        PROVE  /\ entry'[t].owner \in Runs
               /\ actor'[entry'[t].owner].pc # "idle"
               /\ actor'[entry'[t].owner].s = t
    <3>1. t # s /\ entry'[t] = entry[t]
      BY <2>3, <2>6
    <3>2. entry[t].owner # r
      BY <2>6, <3>1 DEF EntriesAreOwned
    <3> QED
      BY <2>1, <2>6, <3>1, <3>2 DEF EntriesAreOwned
  <2> QED
    BY <2>5, <2>6 DEF EntriesAreOwned
<1> QED
  BY <1>2, <1>3

(* What a run does to its schedule, its job and its attempts when nobody    *)
(* else is at work on them.                                                 *)
Handy(r) ==
  LET s == actor[r].s IN
  /\ actor'[r].pc \in OnTaken => BecomesTaken(s)
  /\ BecomesTaken(s) => actor'[r].pc \in OnTaken \cup {"failJob", "failSchedule"}
  /\ actor'[r].pc \in {"dropJob", "releaseJob"} => ~schedule'[s].isLive
  /\ actor'[r].pc \in OnOpen /\ schedule'[s].isLive => job'[s].status \in {"QUEUED", "PROCESSING"}
  /\ schedule'[s].isLive =>
       \/ job'[s].status \in {"QUEUED", "PROCESSING"}
       \/ actor'[r].pc \in {"finishSchedule", "failSchedule"}
       \/ job'[s] = job[s] /\ actor[r].pc \notin {"finishSchedule", "failSchedule"}
  /\ \A n \in 1..MaxClaims : attempt'[s][n].error = "unknown" =>
       attempt[s][n].error = "unknown" \/ actor'[r].pc = "failJob"
  /\ job[s].status \in Closed => job'[s].status \in Closed
  /\ actor[r].pc = "failJob" => job'[s].status \in Closed

AloneMoves(r) ==
  /\ OneRunMoves(r)
  /\ \A t \in Schedules \ {actor[r].s} : attempt'[t] = attempt[t]
  /\ actor[r].pc = "idle" => UNCHANGED attempt
  /\ UNCHANGED <<request, budget, opening>>

LEMMA RunKeepsHand ==
  ASSUME Secure, Secure', InOneHand, EntriesAreOwned', StaysOver,
         \A s \in Schedules : schedule'[s].isLive => Live(s),
         NEW r \in Runs, AloneMoves(r), actor[r].pc # "idle" => Handy(r)
  PROVE  InOneHand'
<1>0. /\ EntriesAreOwned /\ TakersHaveIt /\ TakenIsHeld /\ OffOnlyWhenOver
      /\ OpenWhileLive /\ LiveHasJob /\ UnknownCloses
      /\ OneRunMoves(r)
      /\ \A q \in Runs : actor[q].pc # "idle" => actor[q].s \in Schedules
      /\ \A q \in Runs \ {r} : actor'[q] = actor[q]
  BY DEF InOneHand, Secure, TypeOK, ActorsTyped, Actors, AloneMoves, OneRunMoves
<1>1. \A q \in Runs \ {r} : actor[q].pc # "idle" /\ actor[r].pc # "idle" => actor[q].s # actor[r].s
  BY <1>0, OneRunEach
<1>2. ASSUME NEW t \in Schedules, ~(actor[r].pc # "idle" /\ t = actor[r].s)
      PROVE  /\ job'[t] = job[t] /\ schedule'[t] = schedule[t] /\ attempt'[t] = attempt[t]
             /\ \A q \in Runs : actor[q].pc # "idle" /\ actor[q].s = t => q # r /\ actor'[q] = actor[q]
  BY <1>0, <1>2 DEF AloneMoves, OneRunMoves
<1>3. ASSUME NEW q \in Runs \ {r}, actor'[q].pc # "idle"
      PROVE  /\ actor'[q] = actor[q] /\ actor[q].s \in Schedules
             /\ job'[actor[q].s] = job[actor[q].s] /\ schedule'[actor[q].s] = schedule[actor[q].s]
  BY <1>0, <1>1, <1>2, <1>3
<1>4. ASSUME actor'[r].pc # "idle", actor'[r].pc # "readJob"
      PROVE  actor[r].pc # "idle" /\ actor'[r].s = actor[r].s /\ actor[r].s \in Schedules /\ Handy(r)
  BY <1>0, <1>4 DEF OneRunMoves
<1>a. \A t \in Schedules : BecomesTaken(t) <=> Taken(t)'
  BY DEF BecomesTaken, Taken, Live
<1>b. \A t \in Schedules : schedule'[t] = schedule[t] => (BecomesTaken(t) <=> Taken(t))
  BY DEF BecomesTaken, Taken, Live
<1>5. TakersHaveIt'
  <2> SUFFICES ASSUME NEW q \in Runs, actor'[q].pc \in OnTaken
               PROVE  BecomesTaken(actor'[q].s)
    BY DEF TakersHaveIt, BecomesTaken, Taken, Live
  <2>1. actor'[q].pc # "idle" /\ actor'[q].pc # "readJob"
    BY DEF OnTaken
  <2>2. CASE q = r
    BY <1>4, <2>1, <2>2 DEF Handy
  <2>3. CASE q # r
    <3>1. actor[q].pc \in OnTaken /\ Taken(actor[q].s)
      BY <1>0, <2>3 DEF TakersHaveIt
    <3> QED
      BY <1>3, <1>b, <2>1, <2>3, <3>1
  <2> QED
    BY <2>2, <2>3
<1>6. TakenIsHeld'
  <2> SUFFICES ASSUME NEW t \in Schedules, BecomesTaken(t)
               PROVE  \E q \in Runs : /\ actor'[q].s = t
                                      /\ actor'[q].pc \in OnTaken \cup {"failJob", "failSchedule"}
    BY <1>a DEF TakenIsHeld
  <2>1. CASE actor[r].pc # "idle" /\ t = actor[r].s
    <3>1. actor'[r].pc \in OnTaken \cup {"failJob", "failSchedule"}
      BY <2>1 DEF Handy
    <3>2. actor'[r].s = t
      BY <1>4, <2>1, <3>1 DEF OnTaken
    <3> QED
      BY <3>1, <3>2
  <2>2. CASE ~(actor[r].pc # "idle" /\ t = actor[r].s)
    <3>1. Taken(t)
      BY <1>2, <1>b, <2>2
    <3>2. PICK q \in Runs : actor[q].s = t /\ actor[q].pc \in OnTaken \cup {"failJob", "failSchedule"}
      BY <1>0, <3>1 DEF TakenIsHeld
    <3>3. actor'[q] = actor[q]
      BY <1>2, <2>2, <3>2 DEF OnTaken
    <3> QED
      BY <3>2, <3>3
  <2> QED
    BY <2>1, <2>2
<1>7. OffOnlyWhenOver'
  <2>1. ASSUME NEW q \in Runs, actor'[q].pc \in {"dropJob", "releaseJob"}
        PROVE  ~schedule'[actor'[q].s].isLive
    <3>1. CASE q = r
      BY <1>4, <2>1, <3>1 DEF Handy
    <3>2. CASE q # r
      BY <1>0, <1>3, <2>1, <3>2 DEF OffOnlyWhenOver, Live
    <3> QED
      BY <3>1, <3>2
  <2>2. ASSUME NEW h \in Requests, request'[h].pc = "cancelJob"
        PROVE  request'[h].s \in Schedules /\ schedule'[request'[h].s].status \in Over
    <3>1. request' = request
      BY DEF AloneMoves
    <3>2. request[h].s \in Schedules /\ schedule[request[h].s].status \in Over
      BY <1>0, <2>2, <3>1 DEF OffOnlyWhenOver
    <3>3. schedule'[request[h].s].status \in Over
      BY <3>2 DEF StaysOver, Over
    <3> QED
      BY <3>1, <3>2, <3>3
  <2> QED
    BY <2>1, <2>2 DEF OffOnlyWhenOver, Live
<1>8. OpenWhileLive'
  <2> SUFFICES ASSUME NEW q \in Runs, actor'[q].pc \in OnOpen, schedule'[actor'[q].s].isLive
               PROVE  job'[actor'[q].s].status \in {"QUEUED", "PROCESSING"}
    BY DEF OpenWhileLive, Live, JobOpen
  <2>1. actor'[q].pc # "idle" /\ actor'[q].pc # "readJob"
    BY DEF OnOpen
  <2>2. CASE q = r
    BY <1>4, <2>1, <2>2 DEF Handy
  <2>3. CASE q # r
    BY <1>0, <1>3, <2>1, <2>3 DEF OpenWhileLive, Live, JobOpen
  <2> QED
    BY <2>2, <2>3
<1>9. LiveHasJob'
  <2> SUFFICES ASSUME NEW t \in Schedules, schedule'[t].isLive
               PROVE  \/ ApiCrashes > 0
                      \/ job'[t].status \in {"QUEUED", "PROCESSING"}
                      \/ \E q \in Runs : actor'[q].s = t /\ actor'[q].pc \in {"finishSchedule", "failSchedule"}
                      \/ \E h \in Requests : request[h].s = t /\ request[h].pc = "createJob"
    BY DEF LiveHasJob, Live, JobOpen, AloneMoves, ApiCrashes
  <2>1. \/ ApiCrashes > 0
        \/ JobOpen(t)
        \/ \E q \in Runs : actor[q].s = t /\ actor[q].pc \in {"finishSchedule", "failSchedule"}
        \/ \E h \in Requests : request[h].s = t /\ request[h].pc = "createJob"
    BY <1>0 DEF LiveHasJob
  <2>2. CASE actor[r].pc # "idle" /\ t = actor[r].s
    <3>1. \/ job'[t].status \in {"QUEUED", "PROCESSING"}
          \/ actor'[r].pc \in {"finishSchedule", "failSchedule"}
          \/ job'[t] = job[t] /\ actor[r].pc \notin {"finishSchedule", "failSchedule"}
      BY <2>2 DEF Handy
    <3>2. CASE actor'[r].pc \in {"finishSchedule", "failSchedule"}
      BY <1>4, <2>2, <3>2
    <3>3. CASE job'[t] = job[t] /\ actor[r].pc \notin {"finishSchedule", "failSchedule"}
      <4>1. ~ \E q \in Runs : actor[q].s = t /\ actor[q].pc \in {"finishSchedule", "failSchedule"}
        BY <1>1, <2>2, <3>3
      <4> QED
        BY <2>1, <3>3, <4>1 DEF JobOpen
    <3> QED
      BY <3>1, <3>2, <3>3
  <2>3. CASE ~(actor[r].pc # "idle" /\ t = actor[r].s)
    <3>1. \A q \in Runs : actor[q].s = t /\ actor[q].pc \in {"finishSchedule", "failSchedule"} =>
            actor'[q] = actor[q]
      BY <1>2, <2>3
    <3> QED
      BY <1>2, <2>1, <2>3, <3>1 DEF JobOpen
  <2> QED
    BY <2>2, <2>3
<1>10. UnknownCloses'
  <2> SUFFICES ASSUME NEW t \in Schedules, NEW n \in 1..MaxClaims, attempt'[t][n].error = "unknown"
               PROVE  \/ job'[t].status \in Closed
                      \/ \E q \in Runs : actor'[q].s = t /\ actor'[q].pc = "failJob"
    BY DEF UnknownCloses
  <2>1. CASE actor[r].pc # "idle" /\ t = actor[r].s
    <3>1. Handy(r)
      BY <2>1
    <3>2. CASE actor'[r].pc = "failJob"
      BY <1>4, <2>1, <3>2
    <3>3. CASE actor'[r].pc # "failJob"
      <4>1. attempt[t][n].error = "unknown"
        BY <2>1, <3>1, <3>3 DEF Handy
      <4>2. \/ job[t].status \in Closed
            \/ \E q \in Runs : actor[q].s = t /\ actor[q].pc = "failJob"
        BY <1>0, <4>1 DEF UnknownCloses
      <4>3. (\E q \in Runs : actor[q].s = t /\ actor[q].pc = "failJob") => actor[r].pc = "failJob"
        BY <1>1, <2>1
      <4> QED
        BY <2>1, <3>1, <4>2, <4>3 DEF Handy
    <3> QED
      BY <3>2, <3>3
  <2>2. CASE ~(actor[r].pc # "idle" /\ t = actor[r].s)
    <3>1. \/ job[t].status \in Closed
          \/ \E q \in Runs : actor[q].s = t /\ actor[q].pc = "failJob"
      BY <1>0, <1>2, <2>2 DEF UnknownCloses
    <3>2. \A q \in Runs : actor[q].s = t /\ actor[q].pc = "failJob" => actor'[q] = actor[q]
      BY <1>2, <2>2
    <3> QED
      BY <1>2, <2>2, <3>1, <3>2
  <2> QED
    BY <2>1, <2>2
<1> QED
  BY <1>5, <1>6, <1>7, <1>8, <1>9, <1>10 DEF InOneHand

(* What a run at work knows of its schedule and its job.                    *)
Knows(r) ==
  LET s == actor[r].s IN
  /\ s \in Schedules /\ job[s].status \in JobStatuses \ {"NONE"}
  /\ Taken(s) => actor[r].pc \in OnTaken \cup {"failJob", "failSchedule"}
  /\ actor[r].pc \in OnTaken => Taken(s)
  /\ actor[r].pc \in {"dropJob", "releaseJob"} => ~Live(s)
  /\ actor[r].pc \in OnOpen /\ Live(s) => job[s].status \in {"QUEUED", "PROCESSING"}
  /\ Live(s) => schedule[s].status \in {"SCHEDULED", "PROCESSING"}

LEMMA RunKnows ==
  ASSUME Secure, InOneHand, NEW r \in Runs, actor[r].pc # "idle"
  PROVE  Knows(r)
<1>1. actor[r].s \in Schedules /\ job[actor[r].s].status # "NONE"
  BY AtWork DEF Secure, Actors
<1>2. job[actor[r].s].status \in JobStatuses
  BY <1>1 DEF Secure, TypeOK, JobType
<1>3. Taken(actor[r].s) => actor[r].pc \in OnTaken \cup {"failJob", "failSchedule"}
  <2> SUFFICES ASSUME Taken(actor[r].s)
               PROVE  actor[r].pc \in OnTaken \cup {"failJob", "failSchedule"}
    OBVIOUS
  <2>1. PICK q \in Runs :
          actor[q].s = actor[r].s /\ actor[q].pc \in OnTaken \cup {"failJob", "failSchedule"}
    BY <1>1 DEF InOneHand, TakenIsHeld
  <2>2. actor[q].pc # "idle"
    BY <2>1 DEF OnTaken
  <2>3. q = r
    BY <2>1, <2>2, OneRunEach DEF InOneHand
  <2> QED
    BY <2>1, <2>3
<1>4. /\ actor[r].pc \in OnTaken => Taken(actor[r].s)
      /\ actor[r].pc \in {"dropJob", "releaseJob"} => ~Live(actor[r].s)
      /\ actor[r].pc \in OnOpen /\ Live(actor[r].s) =>
           job[actor[r].s].status \in {"QUEUED", "PROCESSING"}
  BY DEF InOneHand, TakersHaveIt, OffOnlyWhenOver, OpenWhileLive, JobOpen
<1>5. Live(actor[r].s) => schedule[actor[r].s].status \in {"SCHEDULED", "PROCESSING"}
  BY <1>1 DEF Secure, LiveIsOnItsWay
<1> QED
  BY <1>1, <1>2, <1>3, <1>4, <1>5 DEF Knows

(* Errors that are not known to be unknown stay so.                         *)
SameErrors(r) ==
  \A n \in 1..MaxClaims :
    attempt'[actor[r].s][n].error = "unknown" =>
      attempt[actor[r].s][n].error = "unknown" \/ actor'[r].pc = "failJob"

(* The steps of a run before its claim and after its job is done.           *)
LEMMA HandAside ==
  ASSUME Secure, NEW r \in Runs, Knows(r),
         \/ ReadJob(r) \/ ReadSchedule(r) \/ ReadAttempts(r) \/ CheckWorkspace(r) \/ CheckPause(r)
         \/ HoldPost(r) \/ FinishPost(r) \/ Hooks(r) \/ MarkScheduled(r) \/ FailPost(r)
  PROVE  Handy(r)
<1> USE DEF At, records
<1> r \in Actors /\ TypeOK /\ r \notin Sweeps
  BY ActorsAssumption DEF Actors, Secure
<1>1. /\ UNCHANGED <<job, schedule, attempt>>
      /\ actor[r].pc \in {"readJob", "readSchedule", "readAttempts", "checkWorkspace", "checkPause",
                          "holdPost", "finishPost", "hooks", "markScheduled", "failPost"}
  BY DEF ReadJob, ReadSchedule, ReadAttempts, CheckWorkspace, CheckPause, HoldPost, FinishPost, Hooks,
         MarkScheduled, FailPost
<1>2. \/ Goto(r, "readSchedule") /\ JobOpen(actor[r].s)
      \/ Goto(r, "dropJob") /\ ~Live(actor[r].s)
      \/ /\ actor[r].pc \in OnOpen
         /\ \/ \E step \in {"readAttempts", "checkWorkspace", "checkPause", "claimJob"} : Goto(r, step)
            \/ GiveUp(r, "stopSchedule", "archived")
            \/ \E n : actor' = [actor EXCEPT ![r].pc = "failUnresolved", ![r].n = n, ![r].why = "unknown"]
            \/ actor' = [actor EXCEPT ![r].pc = "stopSchedule", ![r].why = "paused", ![r].seen = postStatus]
      \/ Goto(r, "hooks")
      \/ \E step \in {"complete", "rethrow"} : Finish(r, step)
  BY DEF ReadJob, ReadSchedule, ReadAttempts, CheckWorkspace, CheckPause, HoldPost, FinishPost, Hooks,
         MarkScheduled, FailPost, Leave, OnOpen
<1>3. ASSUME NEW n,
             actor' = [actor EXCEPT ![r].pc = "failUnresolved", ![r].n = n, ![r].why = "unknown"]
      PROVE  Moves(r, "failUnresolved", "unknown")
  BY <1>3, SMT DEF Moves, TypeOK, ActorsTyped, ActorType
<1>4. ASSUME actor' = [actor EXCEPT ![r].pc = "stopSchedule", ![r].why = "paused",
                                    ![r].seen = postStatus]
      PROVE  Moves(r, "stopSchedule", "paused")
  BY <1>4, SMT DEF Moves, TypeOK, ActorsTyped, ActorType
<1>5. PICK step, why :
        /\ Moves(r, step, why)
        /\ \/ step = "readSchedule" /\ JobOpen(actor[r].s)
           \/ step = "dropJob" /\ ~Live(actor[r].s)
           \/ /\ actor[r].pc \in OnOpen
              /\ step \in {"readAttempts", "checkWorkspace", "checkPause", "claimJob", "stopSchedule",
                           "failUnresolved"}
           \/ step \in {"hooks", "complete", "rethrow"}
  BY <1>2, <1>3, <1>4, StepsAreMoves
<1>6. ~Taken(actor[r].s)
  BY <1>1 DEF Knows, OnTaken
<1>7. /\ actor'[r].pc = step /\ step \notin OnTaken \cup {"releaseJob"}
      /\ step = "dropJob" => ~Live(actor[r].s)
      /\ step \in OnOpen => actor[r].pc \in OnOpen \/ JobOpen(actor[r].s)
  BY <1>5 DEF Moves, OnTaken, OnOpen
<1>8. ~BecomesTaken(actor[r].s)
  BY <1>1, <1>6 DEF BecomesTaken, Taken, Live
<1> QED
  BY <1>1, <1>7, <1>8 DEF Handy, Knows, Live, JobOpen

(* The steps of a run that sends and sees how it went.                      *)
LEMMA HandHold ==
  ASSUME Secure, NEW r \in Runs, Knows(r), SameErrors(r),
         \/ MarkPublishing(r) \/ LoadPlan(r) \/ Connect(r) \/ MarkSent(r) \/ Call(r)
         \/ SaveSuccess(r) \/ SaveFailure(r)
  PROVE  Handy(r)
<1> USE DEF At, records
<1> r \in Actors /\ TypeOK
  BY DEF Actors, Secure
<1>1. /\ UNCHANGED <<job, schedule>>
      /\ actor[r].pc \in {"markPublishing", "loadPlan", "connect", "markSent", "call", "saveSuccess",
                          "saveFailure"}
  BY DEF MarkPublishing, LoadPlan, Connect, MarkSent, Call, SaveSuccess, SaveFailure
<1>2. PICK step, why :
        /\ Moves(r, step, why)
        /\ step \in {"loadPlan", "connect", "markSent", "call", "saveSuccess", "saveFailure",
                     "finishJob", "unclaimSchedule", "failJob"}
  BY StepsAreMoves DEF MarkPublishing, LoadPlan, Connect, MarkSent, Call, SaveSuccess, SaveFailure
<1>3. /\ actor'[r].pc = step /\ step \in OnTaken \cup {"failJob"}
      /\ step \notin {"dropJob", "releaseJob"}
      /\ actor[r].pc \in OnTaken /\ actor[r].pc \in OnOpen
      /\ actor[r].pc \notin {"finishSchedule", "failSchedule", "failJob"}
  BY <1>1, <1>2 DEF Moves, OnTaken, OnOpen
<1>4. BecomesTaken(actor[r].s)
  BY <1>1, <1>3 DEF Knows, BecomesTaken, Taken, Live
<1> QED
  BY <1>1, <1>3, <1>4 DEF Handy, Knows, Live, SameErrors

(* The steps of a run that change its job.                                  *)
LEMMA HandJobs ==
  ASSUME Secure, Orderly, NEW r \in Runs, Knows(r),
         DropJob(r) \/ ReleaseJob(r) \/ RequeueJob(r)
  PROVE  Handy(r)
<1> USE DEF At
<1> r \in Actors /\ TypeOK
  BY DEF Actors, Secure
<1> DEFINE s == actor[r].s
<1>1. /\ UNCHANGED <<schedule, attempt>> /\ s \in Schedules
      /\ actor[r].pc \in {"dropJob", "releaseJob", "requeueJob"}
  BY DEF DropJob, ReleaseJob, RequeueJob, Knows
<1>2. PICK step, why : Moves(r, step, why) /\ step \in {"holdPost", "complete", "markScheduled"}
  BY StepsAreMoves DEF DropJob, ReleaseJob, RequeueJob
<1>3. ~Taken(s) /\ ~BecomesTaken(s)
  BY <1>1 DEF Knows, OnTaken, BecomesTaken, Taken, Live
<1>4. /\ actor'[r].pc = step /\ step \notin OnTaken \cup OnOpen \cup {"dropJob", "releaseJob"}
  BY <1>2 DEF Moves, OnTaken, OnOpen
<1>5. CASE UNCHANGED job
  BY <1>1, <1>3, <1>4, <1>5 DEF Handy
<1>6. CASE ~UNCHANGED job
  <2>1. PICK status \in {"CANCELLED", "QUEUED"} :
          /\ FreeJob(s, status) /\ (status = "CANCELLED" => actor[r].pc \in {"dropJob", "releaseJob"})
          /\ job[s].status \in {"QUEUED", "PROCESSING"}
    BY <1>6 DEF DropJob, ReleaseJob, RequeueJob
  <2>2. job'[s].status = status
    BY <1>1, <2>1, FreeJobUnlocks DEF Unlocks
  <2>3. status = "CANCELLED" => ~schedule'[s].isLive
    BY <1>1, <2>1 DEF Knows, Live
  <2> QED
    BY <1>1, <1>3, <1>4, <2>1, <2>2, <2>3 DEF Handy, Closed
<1> QED
  BY <1>5, <1>6

(* The claim.                                                               *)
LEMMA HandClaim ==
  ASSUME Secure, NEW r \in Runs, Knows(r), ClaimJob(r)
  PROVE  Handy(r)
<1> USE DEF At
<1> r \in Actors /\ TypeOK
  BY DEF Actors, Secure
<1> DEFINE s == actor[r].s
<1>1. /\ UNCHANGED <<schedule, attempt>> /\ s \in Schedules /\ actor[r].pc = "claimJob"
  BY DEF ClaimJob, Knows
<1>2. ~Taken(s) /\ ~BecomesTaken(s)
  BY <1>1 DEF Knows, OnTaken, BecomesTaken, Taken, Live
<1>3. CASE Finish(r, "complete") /\ UNCHANGED job
  <2>1. actor'[r].pc = "complete"
    BY <1>3, StepsAreMoves DEF Moves
  <2> QED
    BY <1>1, <1>2, <1>3, <2>1 DEF Handy, OnTaken, OnOpen
<1>4. CASE ~(Finish(r, "complete") /\ UNCHANGED job)
  <2>1. PICK n \in {job[s].attempts + 1} :
          /\ Claimable(s)
          /\ job' = [job EXCEPT ![s] = [status |-> "PROCESSING", attempts |-> n,
                                        lockedBy |-> LockName(r), lockedAt |-> "fresh"]]
          /\ actor' = [actor EXCEPT ![r].pc = "claimSchedule", ![r].n = n]
    BY <1>4 DEF ClaimJob
  <2>2. actor'[r].pc = "claimSchedule"
    BY <2>1, SMT DEF TypeOK, ActorsTyped, ActorType
  <2>3. job'[s].status = "PROCESSING"
    BY <1>1, <2>1, SMT DEF TypeOK
  <2> QED
    BY <1>1, <1>2, <2>1, <2>2, <2>3 DEF Handy, OnTaken, OnOpen, Claimable, JobOpen, Closed
<1> QED
  BY <1>3, <1>4

(* A job is closed, and its schedule next.                                  *)
LEMMA HandClosing ==
  ASSUME Secure, NEW r \in Runs, Knows(r), SameErrors(r),
         FinishJob(r) \/ FailJob(r) \/ FailUnresolved(r)
  PROVE  Handy(r)
<1> USE DEF At
<1> r \in Actors /\ TypeOK /\ r \notin Sweeps
  BY ActorsAssumption DEF Actors, Secure
<1> DEFINE s == actor[r].s
<1>1. UNCHANGED schedule /\ s \in Schedules
  BY DEF FinishJob, FailJob, FailUnresolved, Knows
<1>2. BecomesTaken(s) <=> Taken(s)
  BY <1>1 DEF BecomesTaken, Taken, Live
<1>3. CASE FinishJob(r)
  <2>1. /\ actor[r].pc = "finishJob" /\ actor'[r].pc = "finishSchedule" /\ UNCHANGED attempt
        /\ FreeJob(s, "SUCCEEDED")
    BY <1>3, StepsAreMoves DEF FinishJob, Moves
  <2>2. job'[s].status = "SUCCEEDED"
    BY <1>1, <2>1, FreeJobUnlocks DEF Unlocks
  <2>3. Taken(s)
    BY <2>1 DEF Knows, OnTaken
  <2> QED
    BY <1>1, <1>2, <2>1, <2>2, <2>3 DEF Handy, OnTaken, OnOpen, Closed
<1>4. CASE FailJob(r) /\ JobOpen(s)
  <2>1. /\ actor[r].pc = "failJob" /\ actor'[r].pc = "failSchedule" /\ UNCHANGED attempt
        /\ FreeJob(s, "FAILED")
    BY <1>4, StepsAreMoves DEF FailJob, Moves
  <2>2. job'[s].status = "FAILED"
    BY <1>1, <2>1, FreeJobUnlocks DEF Unlocks
  <2> QED
    BY <1>1, <1>2, <2>1, <2>2 DEF Handy, OnTaken, OnOpen, Closed
<1>5. CASE FailJob(r) /\ ~JobOpen(s)
  <2>1. /\ actor[r].pc = "failJob" /\ actor'[r].pc = "complete" /\ UNCHANGED <<job, attempt>>
    BY <1>5, StepsAreMoves DEF FailJob, Moves, Leave
  <2>2. job[s].status \in Closed
    BY <1>5 DEF Knows, JobOpen, JobStatuses, Closed
  <2>3. ~Live(s)
    BY <1>5, <2>1 DEF Knows, JobOpen, OnOpen
  <2> QED
    BY <1>1, <1>2, <2>1, <2>2, <2>3 DEF Handy, OnTaken, OnOpen, Live, Taken
<1>6. CASE FailUnresolved(r)
  <2>1. actor[r].pc = "failUnresolved" /\ actor'[r].pc = "failJob" /\ UNCHANGED job
    BY <1>6, StepsAreMoves DEF FailUnresolved, Moves
  <2>2. ~Taken(s)
    BY <2>1 DEF Knows, OnTaken
  <2> QED
    BY <1>1, <1>2, <2>1, <2>2 DEF Handy, Knows, OnTaken, OnOpen, Live, SameErrors
<1> QED
  BY <1>3, <1>4, <1>5, <1>6

(* The steps of a run that change its schedule.                             *)
LEMMA HandSchedules ==
  ASSUME Secure, NEW r \in Runs, Knows(r),
         \/ StopSchedule(r) \/ ClaimSchedule(r) \/ UnclaimSchedule(r) \/ FinishSchedule(r)
         \/ FailSchedule(r)
  PROVE  Handy(r)
<1> USE DEF At
<1> r \in Actors /\ TypeOK /\ r \notin Sweeps
  BY ActorsAssumption DEF Actors, Secure
<1> DEFINE s == actor[r].s
<1>1. UNCHANGED <<job, attempt>> /\ s \in Schedules
  BY DEF StopSchedule, ClaimSchedule, UnclaimSchedule, FinishSchedule, FailSchedule, Knows
<1>2. CASE StopSchedule(r)
  <2>1. actor[r].pc = "stopSchedule" /\ actor'[r].pc = "dropJob"
    BY <1>2, StepsAreMoves DEF StopSchedule, Moves
  <2>2. ~Taken(s)
    BY <2>1 DEF Knows, OnTaken
  <2>3. ~schedule'[s].isLive
    <3>1. CASE Live(s)
      <4>1. SetSchedule(s, "CANCELLED", FALSE)
        BY <1>2, <2>2, <3>1 DEF StopSchedule, Taken
      <4> QED
        BY <1>1, <4>1, ScheduleSet
    <3>2. CASE ~Live(s)
      BY <1>2, <3>2 DEF StopSchedule, Live
    <3> QED
      BY <3>1, <3>2
  <2> QED
    BY <1>1, <2>1, <2>3 DEF Handy, BecomesTaken, OnTaken, OnOpen
<1>3. CASE ClaimSchedule(r) /\ Live(s)
  <2>1. SetSchedule(s, "PROCESSING", TRUE) /\ Goto(r, "markPublishing") /\ actor[r].pc = "claimSchedule"
    BY <1>3 DEF ClaimSchedule, Knows
  <2>2. actor'[r].pc = "markPublishing"
    BY <2>1, SMT DEF Goto, TypeOK, ActorsTyped, ActorType
  <2>3. BecomesTaken(s)
    <3>1. SetSchedule(s, "PROCESSING", TRUE)
      BY <2>1
    <3>2. schedule'[s].status = "PROCESSING" /\ schedule'[s].isLive
      BY <1>1, <3>1, SMT DEF SetSchedule, TypeOK, ScheduleType
    <3> QED
      BY <3>2 DEF BecomesTaken
  <2> QED
    BY <1>1, <1>3, <2>1, <2>2, <2>3 DEF Handy, Knows, OnTaken, OnOpen
<1>4. CASE ClaimSchedule(r) /\ ~Live(s)
  <2>1. UNCHANGED schedule /\ actor[r].pc = "claimSchedule" /\ actor'[r].pc = "releaseJob"
    BY <1>4, StepsAreMoves DEF ClaimSchedule, Moves
  <2>2. ~schedule'[s].isLive
    BY <1>4, <2>1 DEF Live
  <2> QED
    BY <1>1, <2>1, <2>2 DEF Handy, BecomesTaken, OnTaken, OnOpen
<1>5. CASE UnclaimSchedule(r)
  <2>1. actor[r].pc = "unclaimSchedule" /\ Taken(s)
    BY <1>5 DEF UnclaimSchedule, Knows, OnTaken
  <2>2. SetSchedule(s, "SCHEDULED", TRUE) /\ Goto(r, "requeueJob")
    BY <1>5, <2>1 DEF UnclaimSchedule, Taken
  <2>3. actor'[r].pc = "requeueJob"
    BY <2>2, SMT DEF Goto, TypeOK, ActorsTyped, ActorType
  <2>4. ~BecomesTaken(s)
    <3>1. schedule'[s].status = "SCHEDULED"
      BY <1>1, <2>2, ScheduleSet
    <3> QED
      BY <3>1 DEF BecomesTaken
  <2> QED
    BY <1>1, <2>1, <2>3, <2>4 DEF Handy, Knows, OnTaken, OnOpen, Taken
<1>6. CASE FinishSchedule(r)
  <2>1. /\ actor[r].pc = "finishSchedule" /\ actor'[r].pc = "finishPost"
        /\ schedule' = [schedule EXCEPT ![s] =
                          [status |-> "PUBLISHED", isLive |-> FALSE, needsReview |-> FALSE]]
    BY <1>6, StepsAreMoves DEF FinishSchedule, Moves
  <2>2. ~schedule'[s].isLive
    BY <1>1, <2>1, Zenon DEF TypeOK
  <2> QED
    BY <1>1, <2>1, <2>2 DEF Handy, BecomesTaken, OnTaken, OnOpen
<1>7. CASE FailSchedule(r)
  <2>1. actor[r].pc = "failSchedule" /\ actor'[r].pc \in {"failPost", "complete"}
    BY <1>7, StepsAreMoves DEF FailSchedule, Moves, Leave
  <2>2. ~schedule'[s].isLive
    <3>1. CASE Live(s)
      <4>1. schedule' = [schedule EXCEPT ![s] =
                           [status |-> "FAILED", isLive |-> FALSE, needsReview |-> NeedsReview(r)]]
        BY <1>7, <3>1 DEF FailSchedule
      <4> QED
        BY <1>1, <4>1, Zenon DEF TypeOK
    <3>2. CASE ~Live(s)
      BY <1>7, <3>2 DEF FailSchedule, Live
    <3> QED
      BY <3>1, <3>2
  <2> QED
    BY <1>1, <2>1, <2>2 DEF Handy, BecomesTaken, OnTaken, OnOpen
<1> QED
  BY <1>2, <1>3, <1>4, <1>5, <1>6, <1>7

(* What the helpers do to the attempts of a schedule and to their errors.   *)
LEMMA AttemptErrors ==
  ASSUME TypeOK, NEW s \in Schedules, NEW n,
         \/ \E new : new.error = "none" /\ attempt' = [attempt EXCEPT ![s][n] = new]
         \/ attempt' = [attempt EXCEPT ![s][n].status = "SUCCEEDED"]
         \/ attempt' = [attempt EXCEPT ![s][n].requestSent = TRUE]
  PROVE  /\ \A t \in Schedules \ {s} : attempt'[t] = attempt[t]
         /\ \A m \in 1..MaxClaims :
              attempt'[s][m].error = "unknown" => attempt[s][m].error = "unknown"
<1>1. PICK old : old = attempt[s]
  OBVIOUS
<1>2. old \in [1..MaxClaims -> AttemptType]
  BY <1>1 DEF TypeOK
<1>3. \E new :
        /\ attempt' = [attempt EXCEPT ![s] = new]
        /\ \A m \in 1..MaxClaims : new[m].error = old[m].error \/ new[m].error = "none"
  <2>1. ASSUME NEW first, first.error = "none", attempt' = [attempt EXCEPT ![s][n] = first]
        PROVE  \E new :
                 /\ attempt' = [attempt EXCEPT ![s] = new]
                 /\ \A m \in 1..MaxClaims : new[m].error = old[m].error \/ new[m].error = "none"
    <3>1. PICK new : new = [old EXCEPT ![n] = first]
      OBVIOUS
    <3>2. \A m \in 1..MaxClaims : new[m].error = old[m].error \/ new[m].error = "none"
      BY <1>2, <2>1, <3>1, SMT DEF AttemptType
    <3>3. attempt' = [attempt EXCEPT ![s] = new]
      BY <1>1, <2>1, <3>1, Zenon
    <3> QED
      BY <3>2, <3>3
  <2>2. CASE attempt' = [attempt EXCEPT ![s][n].status = "SUCCEEDED"]
    <3>1. PICK new : new = [old EXCEPT ![n].status = "SUCCEEDED"]
      OBVIOUS
    <3>2. \A m \in 1..MaxClaims : new[m].error = old[m].error
      BY <1>2, <3>1, SMT DEF AttemptType
    <3>3. attempt' = [attempt EXCEPT ![s] = new]
      BY <1>1, <2>2, <3>1, Zenon
    <3> QED
      BY <3>2, <3>3
  <2>3. CASE attempt' = [attempt EXCEPT ![s][n].requestSent = TRUE]
    <3>1. PICK new : new = [old EXCEPT ![n].requestSent = TRUE]
      OBVIOUS
    <3>2. \A m \in 1..MaxClaims : new[m].error = old[m].error
      BY <1>2, <3>1, SMT DEF AttemptType
    <3>3. attempt' = [attempt EXCEPT ![s] = new]
      BY <1>1, <2>3, <3>1, Zenon
    <3> QED
      BY <3>2, <3>3
  <2> QED
    BY <2>1, <2>2, <2>3
<1>4. PICK new :
        /\ attempt' = [attempt EXCEPT ![s] = new]
        /\ \A m \in 1..MaxClaims : new[m].error = old[m].error \/ new[m].error = "none"
  BY <1>3
<1>5. attempt'[s] = new /\ \A t \in Schedules \ {s} : attempt'[t] = attempt[t]
  BY <1>4, SMT DEF TypeOK
<1> QED
  BY <1>1, <1>4, <1>5

LEMMA ClosingErrors ==
  ASSUME TypeOK, NEW a \in Actors, actor[a].s \in Schedules, CloseAttempt(a)
  PROVE  /\ \A t \in Schedules \ {actor[a].s} : attempt'[t] = attempt[t]
         /\ \A m \in 1..MaxClaims :
              attempt'[actor[a].s][m].error = "unknown" =>
                attempt[actor[a].s][m].error = "unknown" \/ actor[a].why = "unknown"
<1>1. PICK s, n, why, old : s = actor[a].s /\ n = actor[a].n /\ why = actor[a].why /\ old = attempt[s]
  OBVIOUS
<1>2. PICK new : new = [old EXCEPT ![n].status = "FAILED", ![n].error = why]
  OBVIOUS
<1>3. old \in [1..MaxClaims -> AttemptType]
  BY <1>1 DEF TypeOK
<1>4. \A m \in 1..MaxClaims : new[m].error = old[m].error \/ new[m].error = why
  BY <1>2, <1>3, SMT DEF AttemptType
<1>5. attempt' = [attempt EXCEPT ![s] = new]
  BY <1>1, <1>2, Zenon DEF CloseAttempt
<1>6. attempt'[s] = new /\ \A t \in Schedules \ {s} : attempt'[t] = attempt[t]
  BY <1>1, <1>5, SMT DEF TypeOK
<1> QED
  BY <1>1, <1>4, <1>6

(* A run that takes a step goes on with its schedule.                       *)
LEMMA GoesOn ==
  ASSUME TypeOK, NEW r \in Runs, RunStep(r) \/ FailStep(r)
  PROVE  /\ actor[r].pc # "idle" /\ actor[r].s \in Schedules
         /\ actor'[r].pc # "idle" /\ actor'[r].s = actor[r].s
         /\ \A b \in Actors \ {r} : actor'[b] = actor[b]
<1> USE DEF At
<1> r \in Actors /\ r \notin Sweeps
  BY ActorsAssumption DEF Actors
<1>1. actor \in [Actors -> ActorType]
  BY DEF TypeOK, ActorsTyped
<1>2. \E step, n, why, seen :
        /\ actor[r].pc # "idle" /\ step # "idle"
        /\ \/ Goto(r, step)
           \/ GiveUp(r, step, why)
           \/ Finish(r, step)
           \/ actor' = [actor EXCEPT ![r].pc = step, ![r].n = n]
           \/ actor' = [actor EXCEPT ![r].pc = step, ![r].n = n, ![r].why = why]
           \/ actor' = [actor EXCEPT ![r].pc = step, ![r].why = why, ![r].seen = seen]
  <2>1. CASE FailStep(r)
    BY <2>1 DEF FailStep, FailUnresolved, FailJob, FailSchedule, FailPost, Leave
  <2>2. CASE \/ ReadJob(r) \/ ReadSchedule(r) \/ DropJob(r)
             \/ CheckWorkspace(r) \/ StopSchedule(r) \/ HoldPost(r)
    BY <2>2 DEF ReadJob, ReadSchedule, DropJob, CheckWorkspace, StopSchedule, HoldPost
  <2>a. CASE ReadAttempts(r)
    <3>1. /\ actor[r].pc # "idle"
          /\ \/ Goto(r, "checkWorkspace")
             \/ \E n : actor' = [actor EXCEPT ![r].pc = "failUnresolved", ![r].n = n, ![r].why = "unknown"]
      BY <2>a DEF ReadAttempts
    <3> QED
      BY <3>1
  <2>b. CASE CheckPause(r)
    <3>1. PICK seen : seen = postStatus
      OBVIOUS
    <3>2. /\ actor[r].pc # "idle"
          /\ \/ Goto(r, "claimJob")
             \/ actor' = [actor EXCEPT ![r].pc = "stopSchedule", ![r].why = "paused", ![r].seen = seen]
      BY <2>b, <3>1 DEF CheckPause
    <3> QED
      BY <3>2
  <2>3. CASE \/ ClaimJob(r) \/ ClaimSchedule(r) \/ ReleaseJob(r) \/ MarkPublishing(r)
             \/ LoadPlan(r) \/ Connect(r) \/ MarkSent(r) \/ Call(r)
    BY <2>3 DEF ClaimJob, ClaimSchedule, ReleaseJob, MarkPublishing, LoadPlan, Connect, MarkSent, Call
  <2>4. CASE \/ SaveSuccess(r) \/ FinishJob(r) \/ FinishSchedule(r) \/ FinishPost(r) \/ Hooks(r)
             \/ SaveFailure(r) \/ UnclaimSchedule(r) \/ RequeueJob(r) \/ MarkScheduled(r)
    BY <2>4 DEF SaveSuccess, FinishJob, FinishSchedule, FinishPost, Hooks, SaveFailure,
                UnclaimSchedule, RequeueJob, MarkScheduled
  <2> QED
    BY <2>1, <2>2, <2>a, <2>b, <2>3, <2>4 DEF RunStep
<1>3. /\ actor'[r].pc # "idle" /\ actor'[r].s = actor[r].s
      /\ \A b \in Actors \ {r} : actor'[b] = actor[b]
  <2>1. PICK step, n, why, seen :
          /\ step # "idle"
          /\ \/ Goto(r, step)
             \/ GiveUp(r, step, why)
             \/ Finish(r, step)
             \/ actor' = [actor EXCEPT ![r].pc = step, ![r].n = n]
             \/ actor' = [actor EXCEPT ![r].pc = step, ![r].n = n, ![r].why = why]
             \/ actor' = [actor EXCEPT ![r].pc = step, ![r].why = why, ![r].seen = seen]
    BY <1>2
  <2>2. CASE Goto(r, step)
    BY ONLY <1>1, <2>1, <2>2, r \in Actors, SMT DEF ActorType, Goto
  <2>3. CASE GiveUp(r, step, why)
    BY ONLY <1>1, <2>1, <2>3, r \in Actors, SMT DEF ActorType, GiveUp
  <2>4. CASE Finish(r, step)
    BY ONLY <1>1, <2>1, <2>4, r \in Actors, SMT DEF ActorType, Finish, Start, New
  <2>5. CASE \/ actor' = [actor EXCEPT ![r].pc = step, ![r].n = n]
             \/ actor' = [actor EXCEPT ![r].pc = step, ![r].n = n, ![r].why = why]
             \/ actor' = [actor EXCEPT ![r].pc = step, ![r].why = why, ![r].seen = seen]
    BY ONLY <1>1, <2>1, <2>5, r \in Actors, SMT DEF ActorType
  <2> QED
    BY <2>1, <2>2, <2>3, <2>4, <2>5
<1>4. actor[r].pc # "idle"
  BY <1>2
<1> QED
  BY <1>3, <1>4 DEF TypeOK, ActorsTyped

(* It changes the attempts of that schedule alone, and makes none unknown   *)
(* but on its way to fail the job.                                          *)
LEMMA OwnAttempts ==
  ASSUME Secure, NEW r \in Runs, RunStep(r) \/ FailStep(r)
  PROVE  SameErrors(r) /\ \A t \in Schedules \ {actor[r].s} : attempt'[t] = attempt[t]
<1> USE DEF At, records
<1> r \in Actors /\ TypeOK
  BY DEF Actors, Secure
<1>0. actor[r].s \in Schedules
  BY GoesOn
<1>1. CASE UNCHANGED attempt
  BY <1>0, <1>1 DEF SameErrors
<1>2. CASE MarkSent(r) \/ SaveSuccess(r)
  <2>1. PICK s, n : s = actor[r].s /\ n = actor[r].n
    OBVIOUS
  <2>2. \/ attempt' = [attempt EXCEPT ![s][n].status = "SUCCEEDED"]
        \/ attempt' = [attempt EXCEPT ![s][n].requestSent = TRUE]
    BY <1>2, <2>1 DEF MarkSent, SaveSuccess
  <2> QED
    BY <1>0, <2>1, <2>2, AttemptErrors DEF SameErrors
<1>3. CASE LoadPlan(r) /\ ~UNCHANGED attempt
  <2>1. PICK s, n, new :
          /\ s = actor[r].s /\ n = actor[r].n
          /\ new = [status |-> "IN_FLIGHT", requestSent |-> FALSE, error |-> "none"]
    OBVIOUS
  <2>2. new.error = "none" /\ attempt' = [attempt EXCEPT ![s][n] = new]
    BY <1>3, <2>1 DEF LoadPlan
  <2> QED
    BY <1>0, <2>1, <2>2, AttemptErrors DEF SameErrors
<1>4. CASE SaveFailure(r) \/ FailUnresolved(r)
  <2>1. CloseAttempt(r) /\ (actor[r].why = "unknown" => Goto(r, "failJob"))
    BY <1>4 DEF SaveFailure, FailUnresolved, Retries
  <2>2. actor[r].why = "unknown" => actor'[r].pc = "failJob"
    BY <2>1, StepsAreMoves DEF Moves
  <2> QED
    BY <1>0, <2>1, <2>2, ClosingErrors DEF SameErrors
<1>5. \/ MarkSent(r) \/ SaveSuccess(r) \/ LoadPlan(r) \/ SaveFailure(r) \/ FailUnresolved(r)
      \/ UNCHANGED attempt
  BY DEF RunStep, ReadJob, ReadSchedule, DropJob, ReadAttempts, CheckWorkspace, CheckPause,
         StopSchedule, HoldPost, ClaimJob, ClaimSchedule, ReleaseJob, MarkPublishing, Connect, Call,
         FinishJob, FinishSchedule, FinishPost, Hooks, UnclaimSchedule, RequeueJob, MarkScheduled,
         FailStep, FailJob, FailSchedule, FailPost
<1> QED
  BY <1>1, <1>2, <1>3, <1>4, <1>5

(* Nor does it touch the job, the schedule or the posts of another.         *)
LEMMA OwnRecords ==
  ASSUME Secure, NEW r \in Runs, RunStep(r) \/ FailStep(r)
  PROVE  \A t \in Schedules \ {actor[r].s} :
           job'[t] = job[t] /\ schedule'[t] = schedule[t] /\ posted'[t] = posted[t]
<1> USE DEF At, records
<1> TypeOK
  BY DEF Secure
<1>0. PICK s \in Schedules : s = actor[r].s
  BY GoesOn
<1>1. \A t \in Schedules \ {s} : posted'[t] = posted[t]
  <2>1. UNCHANGED posted \/ posted' = [posted EXCEPT ![s] = @ + 1]
    BY <1>0 DEF RunStep, ReadJob, ReadSchedule, DropJob, ReadAttempts, CheckWorkspace, CheckPause,
           StopSchedule, HoldPost, ClaimJob, ClaimSchedule, ReleaseJob, MarkPublishing, LoadPlan,
           Connect, MarkSent, Call, SaveSuccess, FinishJob, FinishSchedule, FinishPost, Hooks,
           SaveFailure, UnclaimSchedule, RequeueJob, MarkScheduled,
           FailStep, FailUnresolved, FailJob, FailSchedule, FailPost
  <2> QED
    BY <2>1, SMT DEF TypeOK
<1>2. \A t \in Schedules \ {s} : job'[t] = job[t]
  <2>1. \/ UNCHANGED job
        \/ \E status : FreeJob(s, status)
        \/ \E new : job' = [job EXCEPT ![s] = new]
    BY <1>0 DEF RunStep, ReadJob, ReadSchedule, DropJob, ReadAttempts, CheckWorkspace, CheckPause,
           StopSchedule, HoldPost, ClaimJob, ClaimSchedule, ReleaseJob, MarkPublishing, LoadPlan,
           Connect, MarkSent, Call, SaveSuccess, FinishJob, FinishSchedule, FinishPost, Hooks,
           SaveFailure, UnclaimSchedule, RequeueJob, MarkScheduled,
           FailStep, FailUnresolved, FailJob, FailSchedule, FailPost
  <2>2. ASSUME NEW status, FreeJob(s, status)
        PROVE  \A t \in Schedules \ {s} : job'[t] = job[t]
    BY <2>2, FreeJobUnlocks DEF Unlocks
  <2>3. ASSUME NEW new, job' = [job EXCEPT ![s] = new]
        PROVE  \A t \in Schedules \ {s} : job'[t] = job[t]
    BY <2>3, SMT DEF TypeOK
  <2> QED
    BY <2>1, <2>2, <2>3
<1>3. \A t \in Schedules \ {s} : schedule'[t] = schedule[t]
  <2>1. \/ UNCHANGED schedule
        \/ \E status, isLive : SetSchedule(s, status, isLive)
        \/ \E new : schedule' = [schedule EXCEPT ![s] = new]
    BY <1>0 DEF RunStep, ReadJob, ReadSchedule, DropJob, ReadAttempts, CheckWorkspace, CheckPause,
           StopSchedule, HoldPost, ClaimJob, ClaimSchedule, ReleaseJob, MarkPublishing, LoadPlan,
           Connect, MarkSent, Call, SaveSuccess, FinishJob, FinishSchedule, FinishPost, Hooks,
           SaveFailure, UnclaimSchedule, RequeueJob, MarkScheduled,
           FailStep, FailUnresolved, FailJob, FailSchedule, FailPost
  <2>2. ASSUME NEW status, NEW isLive, SetSchedule(s, status, isLive)
        PROVE  \A t \in Schedules \ {s} : schedule'[t] = schedule[t]
    BY <2>2, SMT DEF TypeOK, SetSchedule
  <2>3. ASSUME NEW new, schedule' = [schedule EXCEPT ![s] = new]
        PROVE  \A t \in Schedules \ {s} : schedule'[t] = schedule[t]
    BY <2>3, SMT DEF TypeOK
  <2> QED
    BY <2>1, <2>2, <2>3
<1> QED
  BY <1>0, <1>1, <1>2, <1>3

(* A run at work makes no schedule live.                                    *)
LEMMA RunsMakeNoneLive ==
  ASSUME Secure, NEW r \in Runs, RunStep(r) \/ FailStep(r)
  PROVE  \A t \in Schedules : schedule'[t].isLive => Live(t)
<1> USE DEF At, records
<1> TypeOK
  BY DEF Secure
<1>0. PICK s \in Schedules : s = actor[r].s
  BY GoesOn
<1>1. \A t \in Schedules \ {s} : schedule'[t] = schedule[t]
  BY <1>0, OwnRecords
<1>2. CASE UNCHANGED schedule
  BY <1>2 DEF Live
<1>3. CASE FinishSchedule(r) \/ FailSchedule(r)
  <2>1. CASE FinishSchedule(r)
    <3>1. schedule' = [schedule EXCEPT ![s] =
                         [status |-> "PUBLISHED", isLive |-> FALSE, needsReview |-> FALSE]]
      BY <1>0, <2>1 DEF FinishSchedule
    <3>2. ~schedule'[s].isLive
      BY <3>1, Zenon DEF TypeOK
    <3> QED
      BY <1>1, <3>2 DEF Live
  <2>2. CASE FailSchedule(r)
    <3>1. UNCHANGED schedule \/ Live(s)
      BY <1>0, <2>2 DEF FailSchedule
    <3> QED
      BY <1>1, <1>2, <3>1 DEF Live
  <2> QED
    BY <1>3, <2>1, <2>2
<1>4. CASE StopSchedule(r) \/ ClaimSchedule(r) \/ UnclaimSchedule(r)
  <2>1. UNCHANGED schedule \/ Live(s)
    BY <1>0, <1>4 DEF StopSchedule, ClaimSchedule, UnclaimSchedule
  <2> QED
    BY <1>1, <1>2, <2>1 DEF Live
<1>5. \/ UNCHANGED schedule \/ FinishSchedule(r) \/ FailSchedule(r)
      \/ StopSchedule(r) \/ ClaimSchedule(r) \/ UnclaimSchedule(r)
  BY DEF RunStep, ReadJob, ReadSchedule, DropJob, ReadAttempts, CheckWorkspace, CheckPause,
         HoldPost, ClaimJob, ReleaseJob, MarkPublishing, LoadPlan, Connect, MarkSent, Call,
         SaveSuccess, FinishJob, FinishPost, Hooks, SaveFailure, RequeueJob, MarkScheduled,
         FailStep, FailUnresolved, FailJob, FailPost
<1> QED
  BY <1>2, <1>3, <1>4, <1>5

(* A run takes a step.                                                      *)
LEMMA HandRun ==
  ASSUME Secure, Secure', Orderly, InOneHand, StaysOver, NEW r \in Runs, RunStep(r) \/ FailStep(r)
  PROVE  InOneHand'
<1> USE DEF At, records, outside
<1> TypeOK
  BY DEF Secure
<1>1. /\ actor[r].pc # "idle" /\ actor[r].s \in Schedules
      /\ actor'[r].pc # "idle" /\ actor'[r].s = actor[r].s
      /\ \A b \in Actors \ {r} : actor'[b] = actor[b]
  BY GoesOn
<1>2. UNCHANGED <<entry, request, budget, opening>>
  BY DEF RunStep, ReadJob, ReadSchedule, DropJob, ReadAttempts, CheckWorkspace, CheckPause,
         StopSchedule, HoldPost, ClaimJob, ClaimSchedule, ReleaseJob, MarkPublishing, LoadPlan,
         Connect, MarkSent, Call, SaveSuccess, FinishJob, FinishSchedule, FinishPost, Hooks,
         SaveFailure, UnclaimSchedule, RequeueJob, MarkScheduled,
         FailStep, FailUnresolved, FailJob, FailSchedule, FailPost
<1>3. SameErrors(r) /\ Knows(r)
  BY <1>1, OwnAttempts, RunKnows
<1>4. OneRunMoves(r)
  BY <1>1, OwnRecords DEF OneRunMoves
<1>5. AloneMoves(r)
  BY <1>1, <1>2, <1>4, OwnAttempts DEF AloneMoves
<1>6. EntriesAreOwned'
  <2>1. \A q \in Runs :
          /\ actor'[q].pc = "idle" <=> actor[q].pc = "idle"
          /\ actor[q].pc # "idle" => actor'[q].s = actor[q].s
    BY <1>1 DEF Actors
  <2>2. \A s \in Schedules :
          entry'[s] = entry[s] \/ (entry[s].state # "active" /\ entry'[s].state # "active")
    BY <1>2
  <2>3. EntriesAreOwned
    BY DEF InOneHand
  <2> QED
    BY <2>1, <2>2, <2>3, OwnedStays
<1>7. Handy(r)
  BY <1>3, HandAside, HandHold, HandJobs, HandClaim, HandClosing, HandSchedules, Zenon
  DEF RunStep, FailStep
<1> QED
  BY <1>5, <1>6, <1>7, RunsMakeNoneLive, RunKeepsHand

(* A run takes an entry up, or gives it back.                               *)
LEMMA HandOverKeepsHand ==
  ASSUME Secure, Secure', InOneHand, StaysOver, NEW r \in Runs,
         Complete(r) \/ Rethrow(r) \/ (\E s \in Schedules : Deliver(r, s))
  PROVE  InOneHand'
<1> USE DEF At, records, outside
<1> r \in Actors /\ TypeOK
  BY DEF Actors, Secure
<1>1. UNCHANGED <<job, schedule, posted, attempt, request, budget, opening>>
  BY DEF Complete, Rethrow, Deliver
<1>2. EntriesAreOwned'
  BY OwnedHandOver DEF InOneHand
<1>3. \A s \in Schedules : schedule'[s].isLive => Live(s)
  BY <1>1 DEF Live
<1>4. CASE \E s \in Schedules : Deliver(r, s)
  <2>1. /\ actor[r].pc = "idle" /\ actor'[r].pc = "readJob"
        /\ \A b \in Actors \ {r} : actor'[b] = actor[b]
    BY <1>4, SMT DEF Deliver, Start, New, TypeOK, ActorsTyped
  <2>2. AloneMoves(r)
    BY <1>1, <2>1 DEF AloneMoves, OneRunMoves
  <2> QED
    BY <1>2, <1>3, <2>1, <2>2, RunKeepsHand
<1>5. CASE Complete(r) \/ Rethrow(r)
  <2>1. /\ actor[r].pc \in {"complete", "rethrow"} /\ actor'[r].pc = "idle"
        /\ \A b \in Actors \ {r} : actor'[b] = actor[b]
    BY <1>5, SMT DEF Complete, Rethrow, Rest, Idle, New, TypeOK, ActorsTyped
  <2>2. AloneMoves(r)
    BY <1>1, <2>1 DEF AloneMoves, OneRunMoves
  <2>3. Knows(r)
    BY <2>1, RunKnows
  <2>4. ~Taken(actor[r].s) /\ ~BecomesTaken(actor[r].s)
    BY <1>1, <2>1, <2>3 DEF Knows, OnTaken, BecomesTaken, Taken, Live
  <2>5. Handy(r)
    BY <1>1, <2>1, <2>4 DEF Handy, OnTaken, OnOpen
  <2> QED
    BY <1>2, <1>3, <2>2, <2>5, RunKeepsHand
<1> QED
  BY <1>4, <1>5

(* No run moves: what the others may do to a schedule and its job.          *)
Spares(s) ==
  /\ BecomesTaken(s) <=> Taken(s)
  /\ job[s].status \in Closed => job'[s].status \in Closed
  /\ schedule'[s].isLive =>
       \/ job'[s].status \in {"QUEUED", "PROCESSING"} /\ Live(s)
       \/ /\ Live(s) /\ job'[s] = job[s]
          /\ \/ ApiCrashes' > 0
             \/ \A h \in Requests :
                  request[h].s = s /\ request[h].pc = "createJob" => request'[h] = request[h]
       \/ /\ \A r \in Runs : actor[r].pc # "idle" => actor[r].s # s
          /\ \E h \in Requests : request'[h].s = s /\ request'[h].pc = "createJob"
SparesAll == \A s \in Schedules : Spares(s)

(* A request gives up the job only of a schedule that is over.              *)
CancelsOver ==
  \A h \in Requests : request'[h].pc = "cancelJob" =>
    \/ request'[h] = request[h]
    \/ request'[h].s \in Schedules /\ schedule'[request'[h].s].status \in Over

LEMMA OthersKeepHand ==
  ASSUME Secure, InOneHand, StaysOver, \A r \in Runs : actor'[r] = actor[r], UNCHANGED attempt,
         EntriesAreOwned', CancelsOver, SparesAll, ApiCrashes > 0 => ApiCrashes' > 0
  PROVE  InOneHand'
<1>0. /\ EntriesAreOwned /\ TakersHaveIt /\ TakenIsHeld /\ OffOnlyWhenOver
      /\ OpenWhileLive /\ LiveHasJob /\ UnknownCloses
      /\ \A q \in Runs : actor[q].pc # "idle" => actor[q].s \in Schedules
  BY DEF InOneHand, Secure, TypeOK, ActorsTyped, Actors
<1>a. \A t \in Schedules : BecomesTaken(t) <=> Taken(t)'
  BY DEF BecomesTaken, Taken, Live
<1>1. TakersHaveIt'
  <2> SUFFICES ASSUME NEW q \in Runs, actor'[q].pc \in OnTaken
               PROVE  BecomesTaken(actor'[q].s)
    BY DEF TakersHaveIt, BecomesTaken, Taken, Live
  <2>1. actor[q].pc \in OnTaken /\ actor'[q].s = actor[q].s /\ actor[q].s \in Schedules
    BY <1>0 DEF OnTaken
  <2>2. Taken(actor[q].s)
    BY <1>0, <2>1 DEF TakersHaveIt
  <2> QED
    BY <2>1, <2>2 DEF SparesAll, Spares
<1>2. TakenIsHeld'
  <2> SUFFICES ASSUME NEW t \in Schedules, BecomesTaken(t)
               PROVE  \E q \in Runs : /\ actor'[q].s = t
                                      /\ actor'[q].pc \in OnTaken \cup {"failJob", "failSchedule"}
    BY <1>a DEF TakenIsHeld
  <2>1. Taken(t)
    BY DEF SparesAll, Spares
  <2> QED
    BY <1>0, <2>1 DEF TakenIsHeld
<1>3. OffOnlyWhenOver'
  <2>1. ASSUME NEW q \in Runs, actor'[q].pc \in {"dropJob", "releaseJob"}
        PROVE  ~schedule'[actor'[q].s].isLive
    <3>1. actor'[q] = actor[q] /\ actor[q].pc # "idle" /\ actor[q].s \in Schedules
      BY <1>0, <2>1
    <3>2. ~Live(actor[q].s)
      BY <1>0, <2>1, <3>1 DEF OffOnlyWhenOver
    <3> QED
      BY <3>1, <3>2 DEF SparesAll, Spares
  <2>2. ASSUME NEW h \in Requests, request'[h].pc = "cancelJob"
        PROVE  request'[h].s \in Schedules /\ schedule'[request'[h].s].status \in Over
    <3>1. CASE request'[h] = request[h]
      <4>1. request[h].s \in Schedules /\ schedule[request[h].s].status \in Over
        BY <1>0, <2>2, <3>1 DEF OffOnlyWhenOver
      <4>2. schedule'[request[h].s].status \in Over
        BY <4>1 DEF StaysOver, Over
      <4> QED
        BY <3>1, <4>1, <4>2
    <3>2. CASE request'[h] # request[h]
      BY <2>2, <3>2 DEF CancelsOver
    <3> QED
      BY <3>1, <3>2
  <2> QED
    BY <2>1, <2>2 DEF OffOnlyWhenOver, Live
<1>4. OpenWhileLive'
  <2> SUFFICES ASSUME NEW q \in Runs, actor'[q].pc \in OnOpen, schedule'[actor'[q].s].isLive
               PROVE  job'[actor'[q].s].status \in {"QUEUED", "PROCESSING"}
    BY DEF OpenWhileLive, Live, JobOpen
  <2>1. actor'[q] = actor[q] /\ actor[q].pc # "idle" /\ actor[q].s \in Schedules
    BY <1>0 DEF OnOpen
  <2>2. \/ job'[actor[q].s].status \in {"QUEUED", "PROCESSING"}
        \/ Live(actor[q].s) /\ job'[actor[q].s] = job[actor[q].s]
    BY <2>1 DEF SparesAll, Spares
  <2> QED
    BY <1>0, <2>1, <2>2 DEF OpenWhileLive, JobOpen
<1>5. LiveHasJob'
  <2> SUFFICES ASSUME NEW t \in Schedules, schedule'[t].isLive
               PROVE  \/ ApiCrashes' > 0
                      \/ job'[t].status \in {"QUEUED", "PROCESSING"}
                      \/ \E q \in Runs : /\ actor'[q].s = t
                                         /\ actor'[q].pc \in {"finishSchedule", "failSchedule"}
                      \/ \E h \in Requests : request'[h].s = t /\ request'[h].pc = "createJob"
    BY DEF LiveHasJob, Live, JobOpen
  <2>1. CASE /\ Live(t) /\ job'[t] = job[t]
             /\ \/ ApiCrashes' > 0
                \/ \A h \in Requests :
                     request[h].s = t /\ request[h].pc = "createJob" => request'[h] = request[h]
    <3>1. \/ ApiCrashes > 0
          \/ JobOpen(t)
          \/ \E q \in Runs : actor[q].s = t /\ actor[q].pc \in {"finishSchedule", "failSchedule"}
          \/ \E h \in Requests : request[h].s = t /\ request[h].pc = "createJob"
      BY <1>0, <2>1 DEF LiveHasJob
    <3> QED
      BY <2>1, <3>1 DEF JobOpen
  <2> QED
    BY <2>1 DEF SparesAll, Spares
<1>6. UnknownCloses'
  BY <1>0 DEF UnknownCloses, SparesAll, Spares
<1> QED
  BY <1>1, <1>2, <1>3, <1>4, <1>5, <1>6 DEF InOneHand

(* A death of the API is never taken back.                                  *)
LEMMA ApiCrashesStay ==
  ASSUME Secure, [Next]_vars, ApiCrashes > 0
  PROVE  ApiCrashes' > 0
<1>0. "apiCrash" \in Faults \cup Events
  BY DEF Faults
<1>1. TypeOK /\ BudgetIsSpent
  BY DEF Secure, SendsAreCounted
<1>2. budget["apiCrash"] \in Nat /\ opening["apiCrash"] \in Nat
  BY <1>0, <1>1, SMT DEF TypeOK, BudgetIsSpent
<1>3. CASE UNCHANGED <<budget, opening>>
  BY <1>3 DEF ApiCrashes
<1>4. ASSUME NEW what \in Faults \cup Events, Spend(what)
      PROVE  ApiCrashes' > 0
  <2>1. /\ opening'["apiCrash"] = opening["apiCrash"]
        /\ \/ budget'["apiCrash"] = budget["apiCrash"]
           \/ budget'["apiCrash"] = budget["apiCrash"] - 1
    BY <1>0, <1>1, <1>4, SpendsLess
  <2> QED
    BY <1>2, <2>1, SMT DEF ApiCrashes
<1> QED
  BY <1>3, <1>4, NextSpends

(* Runs stay where they are: they stay at work on their entries.            *)
LEMMA StillOwned ==
  ASSUME TypeOK, InOneHand, \A r \in Runs : actor'[r] = actor[r],
         \/ UNCHANGED entry
         \/ \E s, new : /\ s \in Schedules => entry[s].state # "active"
                        /\ new.state # "active" /\ entry' = [entry EXCEPT ![s] = new]
  PROVE  EntriesAreOwned'
<1>1. EntriesAreOwned
  BY DEF InOneHand
<1>2. \A s \in Schedules :
        entry'[s] = entry[s] \/ (entry[s].state # "active" /\ entry'[s].state # "active")
  BY SMT DEF TypeOK
<1> QED
  BY <1>1, <1>2, OwnedStays

(* Nothing changes but entries, what sweeps do and the events outside.      *)
LEMMA SameSpares ==
  ASSUME UNCHANGED <<job, schedule, request>>
  PROVE  SparesAll /\ CancelsOver
<1>1. ASSUME NEW s \in Schedules
      PROVE  Spares(s)
  BY DEF Spares, BecomesTaken, Taken, Live
<1> QED
  BY <1>1 DEF SparesAll, CancelsOver

(* The sweeps only put entries back that nobody is at work on.              *)
LEMMA HandSweep ==
  ASSUME Secure, Orderly, InOneHand, StaysOver, NEW v \in Sweeps, SweepNext(v)
  PROVE  InOneHand'
<1> USE DEF At, records, outside
<1> v \in Actors /\ TypeOK /\ v \notin Runs
  BY ActorsAssumption DEF Actors, Secure
<1>1. actor[v].pc \in {"idle", "dueSchedule", "checkEntry", "readd"}
  BY DEF Orderly, SweepsOnlyRequeue
<1>2. \A s \in Schedules : ~TakeAbandoned(v, s)
  BY DEF TakeAbandoned, Orderly, LocksStayFresh
<1>3. \/ DueSchedule(v) \/ CheckEntry(v) \/ ReaddEntry(v)
      \/ \E s \in Schedules : FindDue(v, s)
  BY <1>1, <1>2
  DEF SweepNext, SweepStep, FailStep, SweepSchedule, SweepCancel, SweepAttempts, SweepRequeue,
      SweepUnclaim, SweepPost, FailUnresolved, FailJob, FailSchedule, FailPost
<1>4. UNCHANGED <<job, schedule, attempt, request, budget, opening>>
  BY <1>3 DEF DueSchedule, CheckEntry, ReaddEntry, FindDue
<1>5. \/ \E step \in {"checkEntry", "readd"} : Goto(v, step)
      \/ Rest(v)
      \/ \E s \in Schedules : Start(v, "dueSchedule", s)
  BY <1>3 DEF DueSchedule, CheckEntry, ReaddEntry, FindDue, Leave
<1>6. \A r \in Runs : actor'[r] = actor[r]
  BY <1>5, SMT DEF Goto, Rest, Start, TypeOK, ActorsTyped, Actors
<1>7. EntriesAreOwned'
  <2>1. CASE ReaddEntry(v) /\ entry[actor[v].s].state # "active"
    <3>1. PICK s, new :
            s = actor[v].s /\ new = [state |-> "queued", owner |-> None, made |-> 0]
      OBVIOUS
    <3>2. /\ entry[s].state # "active" /\ new.state # "active"
          /\ entry' = [entry EXCEPT ![s] = new]
      BY <2>1, <3>1 DEF ReaddEntry
    <3> QED
      BY <1>6, <3>2, StillOwned
  <2>2. CASE ~(ReaddEntry(v) /\ entry[actor[v].s].state # "active")
    <3>1. UNCHANGED entry
      BY <1>3, <2>2 DEF DueSchedule, CheckEntry, ReaddEntry, FindDue
    <3> QED
      BY <1>6, <3>1, StillOwned
  <2> QED
    BY <2>1, <2>2
<1>8. SparesAll /\ CancelsOver
  BY <1>4, SameSpares
<1>9. ApiCrashes > 0 => ApiCrashes' > 0
  BY <1>4 DEF ApiCrashes
<1> QED
  BY <1>4, <1>6, <1>7, <1>8, <1>9, OthersKeepHand

(* What a step of a request does to the requests.                           *)
LEMMA RequestsGoOn ==
  ASSUME TypeOK, NEW h \in Requests
  PROVE  /\ \A step : Step(h, step) =>
              /\ request'[h].pc = step /\ request'[h].s = request[h].s
              /\ \A g \in Requests \ {h} : request'[g] = request[g]
         /\ Done(h) => /\ request'[h].pc = "idle"
                       /\ \A g \in Requests \ {h} : request'[g] = request[g]
         /\ \A step, s : request' = [request EXCEPT ![h].pc = step, ![h].s = s] =>
              /\ request'[h].pc = step /\ request'[h].s = s
              /\ \A g \in Requests \ {h} : request'[g] = request[g]
<1>1. request \in [Requests -> RequestType]
  BY DEF TypeOK
<1>2. ASSUME NEW step, Step(h, step)
      PROVE  /\ request'[h].pc = step /\ request'[h].s = request[h].s
             /\ \A g \in Requests \ {h} : request'[g] = request[g]
  BY ONLY <1>1, <1>2, h \in Requests, SMT DEF Step, RequestType
<1>3. ASSUME Done(h)
      PROVE  /\ request'[h].pc = "idle"
             /\ \A g \in Requests \ {h} : request'[g] = request[g]
  BY ONLY <1>1, <1>3, h \in Requests, SMT DEF Done, NoRequest, RequestType
<1>4. ASSUME NEW step, NEW s, request' = [request EXCEPT ![h].pc = step, ![h].s = s]
      PROVE  /\ request'[h].pc = step /\ request'[h].s = s
             /\ \A g \in Requests \ {h} : request'[g] = request[g]
  BY ONLY <1>1, <1>4, h \in Requests, SMT DEF RequestType
<1> QED
  BY <1>2, <1>3, <1>4

(* A request cancels what is not taken and makes what nobody knows.         *)
LEMMA HandRequest ==
  ASSUME Secure, Orderly, InOneHand, StaysOver, NEW h \in Requests, RequestStep(h)
  PROVE  InOneHand'
<1> USE DEF records, outside
<1> TypeOK
  BY DEF Secure
<1>0. /\ \A s \in Schedules : Live(s) => schedule[s].status \in {"SCHEDULED", "PROCESSING"}
      /\ CreatedOnce /\ UnmadeIsUntouched /\ UnmadeScheduleHasNoJob
      /\ LiveHasJob /\ OffOnlyWhenOver
  BY DEF Secure, LiveIsOnItsWay, LockDiscipline, InOneHand
<1>1. UNCHANGED <<actor, attempt, budget, opening>>
  BY DEF RequestStep, FindScheduled, CancelLive, CheckLive, CancelJob, RemoveEntry, CreateSchedule,
         CreateJob, AddEntry, SavePost
<1>2. \A r \in Runs : actor'[r] = actor[r]
  BY <1>1
<1>3. ApiCrashes > 0 => ApiCrashes' > 0
  BY <1>1 DEF ApiCrashes
<1>4. EntriesAreOwned'
  <2>1. PICK s, gone, back :
          /\ s = request[h].s
          /\ gone = [state |-> "none", owner |-> None, made |-> 0]
          /\ back = [state |-> "queued", owner |-> None, made |-> 0]
    OBVIOUS
  <2>2. gone.state # "active" /\ back.state # "active"
    BY <2>1
  <2>3. \/ UNCHANGED entry
        \/ entry[s].state # "active" /\ entry' = [entry EXCEPT ![s] = gone]
        \/ entry[s].state # "active" /\ entry' = [entry EXCEPT ![s] = back]
    BY <2>1 DEF RequestStep, FindScheduled, CancelLive, CheckLive, CancelJob, RemoveEntry,
                CreateSchedule, CreateJob, AddEntry, SavePost
  <2> QED
    BY <1>2, <2>2, <2>3, StillOwned
<1>5. SparesAll /\ CancelsOver
  <2>1. ASSUME UNCHANGED <<job, schedule>>, request[h].pc # "createJob",
               \/ \E step : step # "cancelJob" /\ Step(h, step)
               \/ Done(h)
               \/ FindScheduled(h)
        PROVE  SparesAll /\ CancelsOver
    <3>1. /\ \A g \in Requests \ {h} : request'[g] = request[g]
          /\ request'[h].pc # "cancelJob"
      <4>1. CASE (\E step : step # "cancelJob" /\ Step(h, step)) \/ Done(h)
        BY <4>1, RequestsGoOn
      <4>2. CASE FindScheduled(h) /\ ~Done(h)
        <5>1. PICK seen : request' = [request EXCEPT ![h].pc = "cancelLive", ![h].seen = seen]
          BY <4>2 DEF FindScheduled
        <5> QED
          BY <5>1, SMT DEF TypeOK, RequestType
      <4> QED
        BY <2>1, <4>1, <4>2
    <3>2. CancelsOver
      BY <3>1 DEF CancelsOver
    <3>3. ASSUME NEW s \in Schedules
          PROVE  Spares(s)
      BY <2>1, <3>1 DEF Spares, BecomesTaken, Taken, Live
    <3> QED
      BY <3>2, <3>3 DEF SparesAll
  <2>2. ASSUME NEW t \in Schedules, Cancellable(t), SetSchedule(t, "CANCELLED", FALSE),
               request' = [request EXCEPT ![h].pc = "cancelJob", ![h].s = t],
               request[h].pc = "cancelLive", UNCHANGED job
        PROVE  SparesAll /\ CancelsOver
    <3>1. /\ request'[h].pc = "cancelJob" /\ request'[h].s = t
          /\ \A g \in Requests \ {h} : request'[g] = request[g]
      BY <2>2, RequestsGoOn
    <3>2. /\ schedule'[t].status = "CANCELLED" /\ ~schedule'[t].isLive
          /\ \A s \in Schedules \ {t} : schedule'[s] = schedule[s]
      BY <2>2, ScheduleSet
    <3>3. CancelsOver
      BY <3>1, <3>2 DEF CancelsOver, Over
    <3>4. ASSUME NEW s \in Schedules
          PROVE  Spares(s)
      BY <2>2, <3>1, <3>2 DEF Spares, BecomesTaken, Taken, Live, Cancellable
    <3> QED
      BY <3>3, <3>4 DEF SparesAll
  <2>3. CASE CancelJob(h) /\ ~UNCHANGED job
    <3>1. PICK t \in Schedules : t = request[h].s /\ schedule[t].status \in Over
      BY <1>0, <2>3 DEF OffOnlyWhenOver, CancelJob
    <3>2. /\ job[t].status = "QUEUED" /\ job' = [job EXCEPT ![t].status = "CANCELLED"]
          /\ Step(h, "removeEntry") /\ UNCHANGED schedule /\ request[h].pc = "cancelJob"
      BY <2>3, <3>1 DEF CancelJob
    <3>3. /\ request'[h].pc = "removeEntry" /\ \A g \in Requests \ {h} : request'[g] = request[g]
      BY <3>2, RequestsGoOn
    <3>4. ~Live(t)
      BY <1>0, <3>1 DEF Over
    <3>5. /\ job'[t].status = "CANCELLED"
          /\ \A s \in Schedules \ {t} : job'[s] = job[s]
      BY <3>2, SMT DEF TypeOK, JobType
    <3>6. ASSUME NEW s \in Schedules
          PROVE  Spares(s)
      BY <3>2, <3>3, <3>4, <3>5 DEF Spares, BecomesTaken, Taken, Live, Closed
    <3>7. CancelsOver
      BY <3>3 DEF CancelsOver
    <3> QED
      BY <3>6, <3>7 DEF SparesAll
  <2>4. ASSUME NEW t \in Schedules, schedule[t].status = "NONE", SetSchedule(t, "SCHEDULED", TRUE),
               request' = [request EXCEPT ![h].pc = "createJob", ![h].s = t],
               request[h].pc = "createSchedule", UNCHANGED job
        PROVE  SparesAll /\ CancelsOver
    <3>1. /\ request'[h].pc = "createJob" /\ request'[h].s = t
          /\ \A g \in Requests \ {h} : request'[g] = request[g]
      BY <2>4, RequestsGoOn
    <3>2. /\ schedule'[t].status = "SCHEDULED"
          /\ \A s \in Schedules \ {t} : schedule'[s] = schedule[s]
      BY <2>4, ScheduleSet
    <3>3. \A r \in Runs : actor[r].pc # "idle" => actor[r].s # t
      BY <1>0, <2>4 DEF UnmadeIsUntouched, UnmadeScheduleHasNoJob, Actors
    <3>4. CancelsOver
      BY <3>1 DEF CancelsOver
    <3>5. ~Taken(t)
      BY <2>4 DEF Taken
    <3>6. ASSUME NEW s \in Schedules
          PROVE  Spares(s)
      BY <2>4, <3>1, <3>2, <3>3, <3>5 DEF Spares, BecomesTaken, Taken, Live
    <3> QED
      BY <3>4, <3>6 DEF SparesAll
  <2>5. CASE CreateJob(h)
    <3>1. PICK t \in Schedules : t = request[h].s /\ job[t].status = "NONE"
      BY <1>0, <2>5 DEF CreatedOnce, CreateJob
    <3>2. /\ job' = [job EXCEPT ![t].status = "QUEUED"] /\ Step(h, "addEntry") /\ UNCHANGED schedule
      BY <2>5, <3>1 DEF CreateJob
    <3>3. request'[h].pc = "addEntry" /\ \A g \in Requests \ {h} : request'[g] = request[g]
      BY <3>2, RequestsGoOn
    <3>4. /\ job'[t].status = "QUEUED"
          /\ \A s \in Schedules \ {t} : job'[s] = job[s]
      BY <3>2, SMT DEF TypeOK, JobType
    <3>5. ASSUME NEW s \in Schedules
          PROVE  Spares(s)
      BY <3>1, <3>2, <3>3, <3>4 DEF Spares, BecomesTaken, Taken, Live, Closed
    <3>6. CancelsOver
      BY <3>3 DEF CancelsOver
    <3> QED
      BY <3>5, <3>6 DEF SparesAll
  <2>6. CASE CancelLive(h)
    <3>1. \/ /\ UNCHANGED <<job, schedule>> /\ request[h].pc # "createJob"
             /\ \E step : step # "cancelJob" /\ Step(h, step)
          \/ /\ request[h].pc = "cancelLive" /\ UNCHANGED job
             /\ \E t \in Schedules :
                  /\ Cancellable(t) /\ SetSchedule(t, "CANCELLED", FALSE)
                  /\ request' = [request EXCEPT ![h].pc = "cancelJob", ![h].s = t]
      BY <2>6 DEF CancelLive
    <3> QED
      BY <2>1, <2>2, <3>1
  <2>7. CASE CreateSchedule(h)
    <3>1. \/ UNCHANGED <<job, schedule>> /\ request[h].pc # "createJob" /\ Done(h)
          \/ /\ request[h].pc = "createSchedule" /\ UNCHANGED job
             /\ \E t \in Schedules :
                  /\ schedule[t].status = "NONE" /\ SetSchedule(t, "SCHEDULED", TRUE)
                  /\ request' = [request EXCEPT ![h].pc = "createJob", ![h].s = t]
      BY <2>7 DEF CreateSchedule
    <3> QED
      BY <2>1, <2>4, <3>1
  <2>8. \/ /\ UNCHANGED <<job, schedule>> /\ request[h].pc # "createJob"
           /\ \/ \E step : step # "cancelJob" /\ Step(h, step)
              \/ Done(h)
              \/ FindScheduled(h)
        \/ CancelLive(h) \/ CreateSchedule(h) \/ CreateJob(h) \/ (CancelJob(h) /\ ~UNCHANGED job)
    <3>1. AfterCancel(h) # "cancelJob"
      BY DEF AfterCancel
    <3> QED
      BY <3>1 DEF RequestStep, FindScheduled, CheckLive, CancelJob, RemoveEntry, AddEntry, SavePost
  <2> QED
    BY <2>1, <2>3, <2>5, <2>6, <2>7, <2>8
<1> QED
  BY <1>1, <1>2, <1>3, <1>4, <1>5, OthersKeepHand

(* The API dies in the middle of a request.                                 *)
LEMMA HandApiCrash ==
  ASSUME Secure, InOneHand, StaysOver, NEW h \in Requests, ApiCrash(h)
  PROVE  InOneHand'
<1> USE DEF records
<1>0. "apiCrash" \in Faults \cup Events
  BY DEF Faults
<1>1. TypeOK /\ BudgetIsSpent
  BY DEF Secure, SendsAreCounted
<1>2. /\ UNCHANGED <<actor, job, schedule, attempt, entry>> /\ Spend("apiCrash") /\ Done(h)
  BY DEF ApiCrash
<1>3. ApiCrashes' > 0
  <2>1. /\ budget["apiCrash"] \in Nat /\ opening["apiCrash"] \in Nat
        /\ budget["apiCrash"] <= opening["apiCrash"]
    BY <1>0, <1>1, SMT DEF TypeOK, BudgetIsSpent
  <2>2. opening'["apiCrash"] = opening["apiCrash"] /\ budget'["apiCrash"] = budget["apiCrash"] - 1
    BY <1>0, <1>1, <1>2, SpendsLess
  <2> QED
    BY <2>1, <2>2, SMT DEF ApiCrashes
<1>4. \A r \in Runs : actor'[r] = actor[r]
  BY <1>2
<1>5. EntriesAreOwned'
  BY <1>1, <1>2, <1>4, StillOwned
<1>6. CancelsOver
  <2>1. request'[h].pc = "idle" /\ \A g \in Requests \ {h} : request'[g] = request[g]
    BY <1>1, <1>2, RequestsGoOn
  <2> QED
    BY <2>1 DEF CancelsOver
<1>7. ASSUME NEW s \in Schedules
      PROVE  Spares(s)
  BY <1>2, <1>3 DEF Spares, BecomesTaken, Taken, Live
<1>8. SparesAll
  BY <1>7 DEF SparesAll
<1> QED
  BY <1>2, <1>3, <1>4, <1>5, <1>6, <1>8, OthersKeepHand

(* A request begins.                                                        *)
LEMMA HandBegin ==
  ASSUME Secure, InOneHand, StaysOver, [Next]_vars, NEW h \in Requests,
         BeginArchive(h) \/ \E op \in {"schedule", "unschedule", "setReady"} : Begin(h, op)
  PROVE  InOneHand'
<1> USE DEF records
<1> TypeOK
  BY DEF Secure
<1>1. UNCHANGED <<actor, job, schedule, attempt, entry>> /\ request[h].pc = "idle"
  BY DEF BeginArchive, Begin
<1>2. /\ request'[h].pc # "cancelJob"
      /\ \A g \in Requests \ {h} : request'[g] = request[g]
  <2>1. PICK new : new.pc # "cancelJob" /\ request' = [request EXCEPT ![h] = new]
    BY DEF BeginArchive, Begin
  <2> QED
    BY <2>1, SMT DEF TypeOK
<1>3. \A r \in Runs : actor'[r] = actor[r]
  BY <1>1
<1>4. EntriesAreOwned'
  BY <1>1, <1>3, StillOwned
<1>5. CancelsOver
  BY <1>2 DEF CancelsOver
<1>6. ASSUME NEW s \in Schedules
      PROVE  Spares(s)
  BY <1>1, <1>2 DEF Spares, BecomesTaken, Taken, Live
<1>7. SparesAll
  BY <1>6 DEF SparesAll
<1>8. ApiCrashes > 0 => ApiCrashes' > 0
  BY ApiCrashesStay
<1> QED
  BY <1>1, <1>3, <1>4, <1>5, <1>7, <1>8, OthersKeepHand

(* Entries are neither taken from a run at work nor lost, and no lock of    *)
(* one grows old.                                                           *)
LEMMA HandQueue ==
  ASSUME Secure, Orderly, InOneHand, ~Spend("redelivery"), ~Spend("lostEntry"),
         NEW s \in Schedules
  PROVE  ~QueueNext(s)
<1>1. ~Stalled(s)
  BY DEF Stalled, Abandoned, At, InOneHand, EntriesAreOwned
<1>2. ~LockExpires(s)
  <2> SUFFICES ASSUME LockExpires(s)
               PROVE  FALSE
    OBVIOUS
  <2>1. job[s].lockedAt = "fresh" /\ \A a \in Actors : actor[a].s # s
    BY DEF LockExpires
  <2>2. job[s].status = "PROCESSING"
    BY <2>1 DEF Secure, LockDiscipline, LocksAreHeld
  <2> QED
    BY <2>1, <2>2 DEF Orderly, Attended, Actors
<1> QED
  BY <1>1, <1>2 DEF QueueNext, Redeliver, LoseEntry

(* Undisturbed, every job stays in one hand.                                *)
LEMMA HandStays ==
  ASSUME Secure, Secure', OrderlyUnlessHarmed, OneHandUnlessDisturbed, [Next]_vars
  PROVE  OneHandUnlessDisturbed'
<1> SUFFICES ASSUME Undisturbed'
             PROVE  InOneHand'
  BY DEF OneHandUnlessDisturbed
<1>1. {"crash", "storeError", "connectionReset", "redelivery", "lostEntry"} \subseteq Faults
  BY DEF Faults
<1>2. /\ Undisturbed /\ Unharmed
      /\ ~Spend("crash") /\ ~Spend("storeError") /\ ~Spend("connectionReset")
      /\ ~Spend("redelivery") /\ ~Spend("lostEntry")
  BY <1>1, UnspentBefore DEF Undisturbed, Unharmed
<1>3. Orderly /\ InOneHand
  BY <1>2 DEF OrderlyUnlessHarmed, OneHandUnlessDisturbed
<1>4. StaysOver
  BY NextMoves, MovesKeepTheWay DEF Secure
<1>5. ASSUME NEW r \in Runs, RunNext(r)
      PROVE  InOneHand'
  <2>1. ~StoreError(r) /\ ~LoseAnswer(r)
    BY <1>2 DEF StoreError, LoseAnswer
  <2>2. \/ RunStep(r) \/ FailStep(r)
        \/ Complete(r) \/ Rethrow(r) \/ \E s \in Schedules : Deliver(r, s)
    BY <1>5, <2>1 DEF RunNext
  <2> QED
    BY <1>3, <1>4, <2>2, HandRun, HandOverKeepsHand
<1>6. ASSUME NEW v \in Sweeps, SweepNext(v)
      PROVE  InOneHand'
  BY <1>3, <1>4, <1>6, HandSweep
<1>7. ASSUME NEW h \in Requests, RequestNext(h)
      PROVE  InOneHand'
  BY <1>3, <1>4, <1>7, HandRequest, HandApiCrash, HandBegin DEF RequestNext
<1>8. \A s \in Schedules : ~QueueNext(s)
  BY <1>2, <1>3, HandQueue
<1>9. \A p \in Procs : ~Crash(p)
  BY <1>2 DEF Crash
<1>10. CASE Pause \/ Resume \/ Restore \/ UNCHANGED vars
  <2>1. UNCHANGED <<actor, job, schedule, attempt, entry, request>>
    BY <1>10 DEF Pause, Resume, Restore, vars, records
  <2>2. \A r \in Runs : actor'[r] = actor[r]
    BY <2>1
  <2>3. EntriesAreOwned'
    BY <1>3, <2>1, <2>2, StillOwned DEF Secure
  <2>4. SparesAll /\ CancelsOver
    BY <2>1, SameSpares
  <2>5. ApiCrashes > 0 => ApiCrashes' > 0
    BY ApiCrashesStay
  <2> QED
    BY <1>3, <1>4, <2>1, <2>2, <2>3, <2>4, <2>5, OthersKeepHand
<1> QED
  BY <1>5, <1>6, <1>7, <1>8, <1>9, <1>10 DEF Next

(* In one hand, no live schedule is left without its job, and nobody calls  *)
(* for a job with an attempt whose outcome could not be confirmed.          *)
LEMMA OneHandIsSafe == Secure /\ Orderly /\ InOneHand => NoOrphans /\ UnknownIsNotRetried
<1> SUFFICES ASSUME Secure, Orderly, InOneHand
             PROVE  NoOrphans /\ UnknownIsNotRetried
  OBVIOUS
<1>1. NoOrphans
  <2>1. LiveHasJob
    BY DEF InOneHand
  <2> QED
    BY <2>1 DEF NoOrphans, LiveHasJob, Actors
<1>2. ASSUME NEW r \in Runs, actor[r].pc \in {"markSent", "call"},
             NEW n \in 1..MaxClaims, attempt[actor[r].s][n].error = "unknown"
      PROVE  FALSE
  <2>1. actor[r].s \in Schedules
    BY <1>2 DEF Secure, TypeOK, ActorsTyped, Actors
  <2>2. Live(actor[r].s)
    BY <1>2 DEF InOneHand, TakersHaveIt, OnTaken, Taken
  <2>3. JobOpen(actor[r].s)
    BY <1>2, <2>2 DEF InOneHand, OpenWhileLive, OnOpen
  <2>4. job[actor[r].s].status \notin Closed
    BY <2>3 DEF JobOpen, Closed
  <2>5. PICK q \in Runs : actor[q].s = actor[r].s /\ actor[q].pc = "failJob"
    BY <1>2, <2>1, <2>4 DEF InOneHand, UnknownCloses
  <2>6. q = r
    BY <1>2, <2>5, OneRunEach DEF InOneHand
  <2> QED
    BY <1>2, <2>5, <2>6
<1> QED
  BY <1>1, <1>2 DEF UnknownIsNotRetried

-----------------------------------------------------------------------------
(* Before anything has happened nobody is at work and nothing is scheduled. *)
LEMMA OrderAtFirst == Init => Orderly /\ InOneHand
<1> SUFFICES ASSUME Init PROVE Orderly /\ InOneHand
  OBVIOUS
<1>1. \A a \in Actors : actor[a].pc = "idle"
  BY DEF Init, Idle, New
<1>2. \A h \in Requests : request[h].pc = "idle"
  BY DEF Init, NoRequest
<1>3. \A s \in Schedules :
        /\ schedule[s].status = "NONE" /\ ~schedule[s].isLive
        /\ job[s].status = "NONE" /\ job[s].lockedAt = "null"
        /\ entry[s].state = "none"
  BY DEF Init
<1>4. ASSUME NEW s \in Schedules
      PROVE  ~(posted[s] > 0)
  <2>1. posted[s] = 0
    BY DEF Init
  <2> QED
    BY <2>1
<1>5. \A s \in Schedules, n \in 1..MaxClaims : attempt[s][n].error = "none"
  BY DEF Init
<1>6. Orderly
  BY <1>1, <1>3, <1>4
  DEF Orderly, Attended, LocksStayFresh, SweepsOnlyRequeue, OneClaimant, Claimant, FailsKnowingly,
      Holding, SendersTookIt, Sending, SentIsKnown, Actors
<1>7. InOneHand
  BY <1>1, <1>2, <1>3, <1>5
  DEF InOneHand, EntriesAreOwned, TakersHaveIt, TakenIsHeld, OffOnlyWhenOver, OpenWhileLive,
      LiveHasJob, UnknownCloses, OnTaken, OnOpen, Taken, Live, Actors
<1> QED
  BY <1>6, <1>7

LEMMA InitHolds == Init => IInv
  BY SecureAtFirst, OrderAtFirst DEF IInv, OrderlyUnlessHarmed, OneHandUnlessDisturbed

LEMMA NextHolds == IInv /\ [Next]_vars => IInv'
  BY SecureStays, OrderStays, HandStays DEF IInv

-----------------------------------------------------------------------------
(* However often BullMQ delivers a job, whatever dies and whatever people   *)
(* do meanwhile, the invariant of PublishInvariant holds.                   *)
THEOREM Discipline == Spec => []IInv
<1> QED
  BY InitHolds, NextHolds, PTL DEF Spec

(* One run at most prepares or makes the platform call of a job.            *)
THEOREM OneSenderAlways == Spec => []OneSender
<1>1. Secure => OneSender
  BY DEF Secure, LockDiscipline, OneHolder, OneSender, Sending, Holding
<1> QED
  BY <1>1, Discipline, PTL DEF IInv

(* No run calls the platform for a job with an earlier attempt that was     *)
(* sent and never answered.                                                 *)
THEOREM NoBlindResendAlways == Spec => []NoBlindResend
<1>1. Secure => NoBlindResend
  BY DEF Secure, LockDiscipline, HolderOwnsUnresolved, NoBlindResend, Holding
<1> QED
  BY <1>1, Discipline, PTL DEF IInv

(* A schedule is posted once, but for workers that die and connections that *)
(* break while they send it, however many runs, sweeps and requests there   *)
(* are.                                                                     *)
THEOREM PostedOnceAlways == Spec => []PostsOnce
<1>1. Secure => PostsOnce
  <2> SUFFICES ASSUME Secure, NEW s \in Schedules
               PROVE  posted[s] <= 1 + Excuses
    BY DEF PostsOnce
  <2>1. Excuses \in Nat /\ posted[s] \in Nat
    BY ExcusesTyped DEF Secure, SendsAreCounted, TypeOK
  <2>2. posted[s] <= Excuses \/ posted[s] = Excuses + 1
    BY DEF Secure, SendsAreCounted, SentIsSettled
  <2> QED
    BY <2>1, <2>2, SMT
<1> QED
  BY <1>1, Discipline, PTL DEF IInv

(* What was cancelled, failed or published never becomes live again.        *)
THEOREM NothingIsRevived == Spec => NoRevival
<1>1. IInv /\ [Next]_vars => StaysOver
  BY NextMoves, MovesKeepTheWay DEF IInv, Secure
<1> QED
  BY <1>1, Discipline, PTL DEF Spec, NoRevival, StaysOver

(* As long as no worker dies, no write fails and no connection breaks, no   *)
(* request cancels what is being sent, and what was cancelled, or failed    *)
(* without asking for a review, is not on the platform: whoever schedules   *)
(* the post again does not send it twice.                                   *)
THEOREM ChangesAreSafeUnlessHarmed == Spec => [](Unharmed => ChangesAreSafe)
<1>1. IInv => (Unharmed => ChangesAreSafe)
  BY OrderIsSafe DEF IInv, OrderlyUnlessHarmed
<1> QED
  BY <1>1, Discipline, PTL

(* As long as BullMQ besides hands every job to one run at a time and       *)
(* forgets none, whatever requests, pauses, archiving and deaths of the API *)
(* come between, no live schedule is left without its job.                  *)
THEOREM NoOrphansUnlessDisturbed == Spec => [](Undisturbed => NoOrphans)
<1>1. IInv => (Undisturbed => NoOrphans)
  BY OneHandIsSafe DEF IInv, OrderlyUnlessHarmed, OneHandUnlessDisturbed, Undisturbed
<1> QED
  BY <1>1, Discipline, PTL

(* Nor does any run call the platform for a job with an earlier attempt     *)
(* whose outcome could not be confirmed.                                    *)
THEOREM UnknownIsNotRetriedUnlessDisturbed == Spec => [](Undisturbed => UnknownIsNotRetried)
<1>1. IInv => (Undisturbed => UnknownIsNotRetried)
  BY OneHandIsSafe DEF IInv, OrderlyUnlessHarmed, OneHandUnlessDisturbed, Undisturbed
<1> QED
  BY <1>1, Discipline, PTL
=============================================================================
