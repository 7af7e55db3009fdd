----------------------------- MODULE PublishRun -----------------------------
(***************************************************************************)
(* runPublishJob, the body of the BullMQ publish worker.  Each action is   *)
(* one awaited call: what it reads or updates is atomic, and anything may  *)
(* happen between two of them.                                             *)
(***************************************************************************)
EXTENDS PublishRecords

(* A job that has finished is reported as skipped, never run again.         *)
ReadJob(r) ==
  /\ At(r, "readJob")
  /\ IF JobOpen(actor[r].s) THEN Goto(r, "readSchedule") ELSE Finish(r, "complete")
  /\ UNCHANGED <<records, entry, request, posted, outside>>

(* A PUBLISHED schedule is never live, so the code's next branch (schedule  *)
(* already published) is behind this one and cannot run.                    *)
ReadSchedule(r) ==
  /\ At(r, "readSchedule")
  /\ Goto(r, IF Live(actor[r].s) THEN "readAttempts" ELSE "dropJob")
  /\ UNCHANGED <<records, entry, request, posted, outside>>

(* Cancels the job, if it is still waiting, of a schedule that is off.      *)
DropJob(r) ==
  LET s == actor[r].s IN
  /\ At(r, "dropJob")
  /\ IF job[s].status = "QUEUED" THEN FreeJob(s, "CANCELLED") ELSE UNCHANGED job
  /\ IF actor[r].why = "paused" THEN Goto(r, "holdPost") ELSE Finish(r, "complete")
  /\ UNCHANGED <<postStatus, schedule, attempt, entry, request, posted, outside>>

\* Mutant: earlier attempts are not looked at.
SkipAttempts(r) ==
  /\ At(r, "readAttempts")
  /\ Goto(r, "checkWorkspace")
  /\ UNCHANGED <<records, entry, request, posted, outside>>

(* An attempt that never reported back is not tried again.                  *)
ReadAttempts(r) ==
  LET s == actor[r].s IN
  /\ At(r, "readAttempts")
  /\ \/ \E n \in Unresolved(s) :
          actor' = [actor EXCEPT ![r].pc = "failUnresolved", ![r].n = n,
                                 ![r].why = "unknown"]
     \/ Unresolved(s) = {} /\ Goto(r, "checkWorkspace")
  /\ UNCHANGED <<records, entry, request, posted, outside>>

CheckWorkspace(r) ==
  /\ At(r, "checkWorkspace")
  /\ IF workspaceActive THEN Goto(r, "checkPause") ELSE GiveUp(r, "stopSchedule", "archived")
  /\ UNCHANGED <<records, entry, request, posted, outside>>

(* The post is loaded just before Autopilot's settings are.                 *)
CheckPause(r) ==
  /\ At(r, "checkPause")
  /\ IF paused
       THEN actor' = [actor EXCEPT ![r].pc = "stopSchedule", ![r].why = "paused",
                                   ![r].seen = postStatus]
       ELSE Goto(r, "claimJob")
  /\ UNCHANGED <<records, entry, request, posted, outside>>

\* Mutant: the job is stopped but not its schedule.
StopJobOnly(r) ==
  /\ At(r, "stopSchedule")
  /\ Goto(r, "dropJob")
  /\ UNCHANGED <<records, entry, request, posted, outside>>

(* An archived workspace or a paused Autopilot takes the schedule off,      *)
(* unless it is being sent, and then its job.                               *)
StopSchedule(r) ==
  LET s == actor[r].s IN
  /\ At(r, "stopSchedule")
  /\ IF Live(s) /\ schedule[s].status # "PROCESSING"
       THEN SetSchedule(s, "CANCELLED", FALSE) ELSE UNCHANGED schedule
  /\ Goto(r, "dropJob")
  /\ UNCHANGED <<postStatus, job, attempt, entry, request, posted, outside>>

(* holdPost saves the copy read before: unchanged fields are not written.   *)
HoldPost(r) ==
  /\ At(r, "holdPost")
  /\ postStatus' = IF actor[r].seen = "READY" THEN postStatus ELSE "READY"
  /\ Finish(r, "complete")
  /\ UNCHANGED <<schedule, job, attempt, entry, request, posted, outside>>

(* Only one worker gets past this; the others leave the job alone.          *)
\* Mutant: the claim forgets the lock.
ClaimableByAnyone(s) == JobOpen(s)

Claimable(s) == JobOpen(s) /\ Unlocked(s)

ClaimJob(r) ==
  LET s == actor[r].s  n == job[s].attempts + 1 IN
  /\ At(r, "claimJob")
  /\ \/ /\ Claimable(s)
        /\ n <= MaxClaims
        /\ job' = [job EXCEPT ![s] = [status |-> "PROCESSING", attempts |-> n,
                                      lockedBy |-> LockName(r), lockedAt |-> "fresh"]]
        /\ actor' = [actor EXCEPT ![r].pc = "claimSchedule", ![r].n = n]
     \/ ~Claimable(s) /\ Finish(r, "complete") /\ UNCHANGED job
  /\ UNCHANGED <<postStatus, schedule, attempt, entry, request, posted, outside>>

\* Mutant: the job is claimed but not the schedule.
ClaimJobOnly(r) ==
  /\ At(r, "claimSchedule")
  /\ Goto(r, IF Live(actor[r].s) THEN "markPublishing" ELSE "releaseJob")
  /\ UNCHANGED <<records, entry, request, posted, outside>>

(* A schedule cancelled since it was read is not revived.                   *)
ClaimSchedule(r) ==
  LET s == actor[r].s IN
  /\ At(r, "claimSchedule")
  /\ IF Live(s) /\ schedule[s].status \in {"SCHEDULED", "PROCESSING"}
       THEN SetSchedule(s, "PROCESSING", TRUE) /\ Goto(r, "markPublishing")
       ELSE UNCHANGED schedule /\ Goto(r, "releaseJob")
  /\ UNCHANGED <<postStatus, job, attempt, entry, request, posted, outside>>

ReleaseJob(r) ==
  LET s == actor[r].s IN
  /\ At(r, "releaseJob")
  /\ IF HoldsLock(r) /\ job[s].status = "PROCESSING"
       THEN FreeJob(s, "CANCELLED") ELSE UNCHANGED job
  /\ Finish(r, "complete")
  /\ UNCHANGED <<postStatus, schedule, attempt, entry, request, posted, outside>>

MarkPublishing(r) ==
  /\ At(r, "markPublishing")
  /\ postStatus' = "PUBLISHING"
  /\ Goto(r, "loadPlan")
  /\ UNCHANGED <<schedule, job, attempt, entry, request, posted, outside>>

(* The post or its media may have gone since it was scheduled; otherwise    *)
(* the attempt is recorded before the platform is touched.                  *)
LoadPlan(r) ==
  /\ At(r, "loadPlan")
  /\ \/ /\ attempt' = [attempt EXCEPT ![actor[r].s][actor[r].n] =
                         [status |-> "IN_FLIGHT", requestSent |-> FALSE, error |-> "none"]]
        /\ Goto(r, "connect")
     \/ GiveUp(r, "failJob", "permanent") /\ UNCHANGED attempt
  /\ UNCHANGED <<postStatus, schedule, job, entry, request, posted, outside>>

(* Loads the account and refreshes its token: fails before anything is sent.*)
Connect(r) ==
  /\ At(r, "connect")
  /\ \/ Goto(r, "markSent")
     \/ \E why \in {"retryable", "permanent"} : GiveUp(r, "saveFailure", why)
  /\ UNCHANGED <<records, entry, request, posted, outside>>

(* onRequestStart: from here on the platform may have the post.             *)
MarkSent(r) ==
  /\ At(r, "markSent")
  /\ attempt' = [attempt EXCEPT ![actor[r].s][actor[r].n].requestSent = TRUE]
  /\ Goto(r, "call")
  /\ UNCHANGED <<postStatus, schedule, job, entry, request, posted, outside>>

(* The platform takes the post or refuses it; either way the answer may be  *)
(* lost to the timeout, which is reported as an unknown outcome.            *)
Call(r) ==
  LET s == actor[r].s IN
  /\ At(r, "call")
  /\ \/ /\ posted' = [posted EXCEPT ![s] = @ + 1]
        /\ Goto(r, "saveSuccess") \/ GiveUp(r, "saveFailure", "unknown")
     \/ /\ \E why \in {"retryable", "permanent", "unknown"} : GiveUp(r, "saveFailure", why)
        /\ UNCHANGED posted
  /\ UNCHANGED <<records, entry, request, outside>>

(* The connection breaks after the platform took the post.  Only a timeout  *)
(* is reported as unknown: providerFetch calls this one retryable.          *)
LoseAnswer(r) ==
  /\ At(r, "call")
  /\ Spend("connectionReset")
  /\ posted' = [posted EXCEPT ![actor[r].s] = @ + 1]
  /\ GiveUp(r, "saveFailure", "retryable")
  /\ UNCHANGED <<records, entry, request, workspaceActive, paused>>

-----------------------------------------------------------------------------
(* The platform has the post: recorded whatever else happened meanwhile.    *)

SaveSuccess(r) ==
  /\ At(r, "saveSuccess")
  /\ attempt' = [attempt EXCEPT ![actor[r].s][actor[r].n].status = "SUCCEEDED"]
  /\ Goto(r, "finishJob")
  /\ UNCHANGED <<postStatus, schedule, job, entry, request, posted, outside>>

FinishJob(r) ==
  /\ At(r, "finishJob")
  /\ FreeJob(actor[r].s, "SUCCEEDED")
  /\ Goto(r, "finishSchedule")
  /\ UNCHANGED <<postStatus, schedule, attempt, entry, request, posted, outside>>

FinishSchedule(r) ==
  /\ At(r, "finishSchedule")
  /\ schedule' = [schedule EXCEPT ![actor[r].s] =
                    [status |-> "PUBLISHED", isLive |-> FALSE, needsReview |-> FALSE]]
  /\ Goto(r, "finishPost")
  /\ UNCHANGED <<postStatus, job, attempt, entry, request, posted, outside>>

FinishPost(r) ==
  /\ At(r, "finishPost")
  /\ postStatus' = "PUBLISHED"
  /\ Goto(r, "hooks")
  /\ UNCHANGED <<schedule, job, attempt, entry, request, posted, outside>>

(* Autopilot's counters and the notification: no record of this module.     *)
Hooks(r) ==
  /\ At(r, "hooks")
  /\ Finish(r, "complete")
  /\ UNCHANGED <<records, entry, request, posted, outside>>

(* One of those writes is rejected by the database.  They are inside the    *)
(* try block, so the error is classified like any other.                    *)
StoreError(r) ==
  /\ actor[r].pc \in {"saveSuccess", "finishJob", "finishSchedule", "finishPost", "hooks"}
  /\ Spend("storeError")
  /\ GiveUp(r, "saveFailure", "permanent")
  /\ UNCHANGED <<records, entry, request, posted, workspaceActive, paused>>

-----------------------------------------------------------------------------
(* The call failed.  Retried only when it definitely did and attempts are   *)
(* left, and only while the schedule is still this worker's to send.        *)

\* Mutant: an unknown outcome is retried.
RetriesUnknown(a) == actor[a].why \in {"retryable", "unknown"} /\ actor[a].n < MaxAttempts

Retries(a) == actor[a].why = "retryable" /\ actor[a].n < MaxAttempts

CloseAttempt(a) ==
  attempt' = [attempt EXCEPT ![actor[a].s][actor[a].n].status = "FAILED",
                             ![actor[a].s][actor[a].n].error = actor[a].why]

SaveFailure(r) ==
  /\ At(r, "saveFailure")
  /\ CloseAttempt(r)
  /\ Goto(r, IF Retries(r) THEN "unclaimSchedule" ELSE "failJob")
  /\ UNCHANGED <<postStatus, schedule, job, entry, request, posted, outside>>

UnclaimSchedule(r) ==
  LET s == actor[r].s IN
  /\ At(r, "unclaimSchedule")
  /\ IF Live(s) /\ schedule[s].status = "PROCESSING"
       THEN SetSchedule(s, "SCHEDULED", TRUE) /\ Goto(r, "requeueJob")
       ELSE UNCHANGED schedule /\ Goto(r, "releaseJob")
  /\ UNCHANGED <<postStatus, job, attempt, entry, request, posted, outside>>

RequeueJob(r) ==
  LET s == actor[r].s IN
  /\ At(r, "requeueJob")
  /\ IF HoldsLock(r) /\ job[s].status = "PROCESSING"
       THEN FreeJob(s, "QUEUED") ELSE UNCHANGED job
  /\ Goto(r, "markScheduled")
  /\ UNCHANGED <<postStatus, schedule, attempt, entry, request, posted, outside>>

MarkScheduled(r) ==
  /\ At(r, "markScheduled")
  /\ postStatus' = "SCHEDULED"
  /\ Finish(r, "rethrow")
  /\ UNCHANGED <<schedule, job, attempt, entry, request, posted, outside>>

-----------------------------------------------------------------------------
(* Failing a job; recovery takes these steps too.  A run then ends its      *)
(* BullMQ job, a sweep goes on to the next one.                             *)

Leave(a) == IF a \in Sweeps THEN Rest(a) ELSE Finish(a, "complete")

FailUnresolved(a) ==
  /\ At(a, "failUnresolved")
  /\ CloseAttempt(a)
  /\ Goto(a, "failJob")
  /\ UNCHANGED <<postStatus, schedule, job, entry, request, posted, outside>>

FailJob(a) ==
  LET s == actor[a].s IN
  /\ At(a, "failJob")
  /\ IF JobOpen(s)
       THEN FreeJob(s, "FAILED") /\ Goto(a, "failSchedule")
       ELSE UNCHANGED job /\ Leave(a)
  /\ UNCHANGED <<postStatus, schedule, attempt, entry, request, posted, outside>>

NeedsReview(a) == actor[a].why = "unknown"

(* Only a live schedule fails; an unknown outcome asks for a review.        *)
FailSchedule(a) ==
  LET s == actor[a].s IN
  /\ At(a, "failSchedule")
  /\ IF Live(s)
       THEN /\ schedule' = [schedule EXCEPT ![s] =
                              [status |-> "FAILED", isLive |-> FALSE,
                               needsReview |-> NeedsReview(a)]]
            /\ Goto(a, "failPost")
       ELSE UNCHANGED schedule /\ Leave(a)
  /\ UNCHANGED <<postStatus, job, attempt, entry, request, posted, outside>>

FailPost(a) ==
  /\ At(a, "failPost")
  /\ postStatus' = "FAILED"
  /\ Leave(a)
  /\ UNCHANGED <<schedule, job, attempt, entry, request, posted, outside>>

-----------------------------------------------------------------------------
RunStep(r) ==
  \/ ReadJob(r) \/ ReadSchedule(r) \/ DropJob(r) \/ ReadAttempts(r)
  \/ CheckWorkspace(r) \/ CheckPause(r) \/ StopSchedule(r) \/ HoldPost(r)
  \/ ClaimJob(r) \/ ClaimSchedule(r) \/ ReleaseJob(r) \/ MarkPublishing(r)
  \/ LoadPlan(r) \/ Connect(r) \/ MarkSent(r) \/ Call(r)
  \/ SaveSuccess(r) \/ FinishJob(r) \/ FinishSchedule(r) \/ FinishPost(r) \/ Hooks(r)
  \/ SaveFailure(r) \/ UnclaimSchedule(r) \/ RequeueJob(r) \/ MarkScheduled(r)

FailStep(a) == FailUnresolved(a) \/ FailJob(a) \/ FailSchedule(a) \/ FailPost(a)
=============================================================================
