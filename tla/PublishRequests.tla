--------------------------- MODULE PublishRequests ---------------------------
(***************************************************************************)
(* What people do to the post's schedule through the API: schedule or      *)
(* reschedule it, unschedule it, set its status by hand, archive the       *)
(* workspace.  All four go through cancelLiveSchedule, and all four work   *)
(* on the copy of the post they loaded first and save that copy last.      *)
(***************************************************************************)
EXTENDS PublishRun

Step(h, step) == request' = [request EXCEPT ![h].pc = step]
Done(h) == request' = [request EXCEPT ![h] = NoRequest]
Editable == postStatus \notin {"PUBLISHING", "PUBLISHED"}

(* assertEditable refuses a post being sent or already live.  A manual      *)
(* status change leaves the queue alone unless the copy it read says        *)
(* SCHEDULED.                                                               *)
Begin(h, op) ==
  /\ request[h].pc = "idle"
  /\ op \in {"schedule", "unschedule", "setReady"}
  /\ Editable
  /\ Spend("request")
  /\ request' = [request EXCEPT ![h] =
       [pc |-> IF op = "setReady" /\ postStatus # "SCHEDULED" THEN "savePost" ELSE "cancelLive",
        op |-> op, s |-> None, seen |-> postStatus]]
  /\ UNCHANGED <<records, entry, actor, posted, workspaceActive, paused>>

(* archiveWorkspace closes the workspace before it looks for posts to       *)
(* unschedule.                                                              *)
BeginArchive(h) ==
  /\ request[h].pc = "idle"
  /\ workspaceActive
  /\ Spend("archive")
  /\ workspaceActive' = FALSE
  /\ request' = [request EXCEPT ![h] =
       [pc |-> "findScheduled", op |-> "archive", s |-> None, seen |-> None]]
  /\ UNCHANGED <<records, entry, actor, posted, paused>>

FindScheduled(h) ==
  /\ request[h].pc = "findScheduled"
  /\ IF postStatus = "SCHEDULED"
       THEN request' = [request EXCEPT ![h].pc = "cancelLive", ![h].seen = postStatus]
       ELSE Done(h)
  /\ UNCHANGED <<records, entry, actor, posted, outside>>

(* An owner may restore the workspace once it has been archived.            *)
Restore ==
  /\ ~workspaceActive
  /\ workspaceActive' = TRUE
  /\ UNCHANGED <<records, entry, actor, request, posted, paused, budget, opening>>

-----------------------------------------------------------------------------
(* cancelLiveSchedule.                                                      *)

AfterCancel(h) == IF request[h].op = "schedule" THEN "createSchedule" ELSE "savePost"

(* Atomic, and never while a worker is sending the schedule.                *)

Cancellable(s) == Live(s) /\ schedule[s].status # "PROCESSING"

CancelLive(h) ==
  /\ request[h].pc = "cancelLive"
  /\ \/ \E s \in Schedules :
          /\ Cancellable(s)
          /\ SetSchedule(s, "CANCELLED", FALSE)
          /\ request' = [request EXCEPT ![h].pc = "cancelJob", ![h].s = s]
     \/ /\ \A s \in Schedules : ~Cancellable(s)
        /\ Step(h, "checkLive")
        /\ UNCHANGED schedule
  /\ UNCHANGED <<postStatus, job, attempt, entry, actor, posted, outside>>

(* A live schedule that could not be cancelled is being sent: 409.          *)
CheckLive(h) ==
  /\ request[h].pc = "checkLive"
  /\ IF \E s \in Schedules : Live(s) THEN Done(h) ELSE Step(h, AfterCancel(h))
  /\ UNCHANGED <<records, entry, actor, posted, outside>>

CancelJob(h) ==
  LET s == request[h].s IN
  /\ request[h].pc = "cancelJob"
  /\ IF job[s].status = "QUEUED"
       THEN /\ job' = [job EXCEPT ![s].status = "CANCELLED"]
            /\ Step(h, "removeEntry")
       ELSE UNCHANGED job /\ Step(h, AfterCancel(h))
  /\ UNCHANGED <<postStatus, schedule, attempt, entry, actor, posted, outside>>

(* A job that has started cannot be removed; the worker finds it cancelled. *)
RemoveEntry(h) ==
  LET s == request[h].s IN
  /\ request[h].pc = "removeEntry"
  /\ entry' = IF entry[s].state = "active" THEN entry
              ELSE [entry EXCEPT ![s] = [state |-> "none", owner |-> None, made |-> 0]]
  /\ Step(h, AfterCancel(h))
  /\ UNCHANGED <<records, actor, posted, outside>>

-----------------------------------------------------------------------------
(* The rest of schedulePublish, then the caller's post.save().              *)

(* one_live_schedule_per_post turns a second live schedule away: 409.       *)
CreateSchedule(h) ==
  /\ request[h].pc = "createSchedule"
  /\ \/ /\ \A s \in Schedules : ~Live(s)
        /\ \E s \in Schedules :
             /\ schedule[s].status = "NONE"
             /\ SetSchedule(s, "SCHEDULED", TRUE)
             /\ request' = [request EXCEPT ![h].pc = "createJob", ![h].s = s]
     \/ (\E s \in Schedules : Live(s)) /\ Done(h) /\ UNCHANGED schedule
  /\ UNCHANGED <<postStatus, job, attempt, entry, actor, posted, outside>>

CreateJob(h) ==
  /\ request[h].pc = "createJob"
  /\ job' = [job EXCEPT ![request[h].s].status = "QUEUED"]
  /\ Step(h, "addEntry")
  /\ UNCHANGED <<postStatus, schedule, attempt, entry, actor, posted, outside>>

(* The queue id is derived from the schedule, so adding twice is a no-op.   *)
AddEntry(h) ==
  LET s == request[h].s IN
  /\ request[h].pc = "addEntry"
  /\ entry' = IF entry[s].state # "none" THEN entry
              ELSE [entry EXCEPT ![s] = [state |-> "queued", owner |-> None, made |-> 0]]
  /\ Step(h, "savePost")
  /\ UNCHANGED <<records, actor, posted, outside>>

(* Mongoose writes the status only if it differs from the copy that was     *)
(* loaded, whatever the document says by now.                               *)
NewStatus(h) ==
  CASE request[h].op = "schedule" -> "SCHEDULED"
    [] request[h].op = "unschedule" ->
         IF request[h].seen = "SCHEDULED" THEN "APPROVED" ELSE request[h].seen
    [] OTHER -> "READY"

SavePost(h) ==
  /\ request[h].pc = "savePost"
  /\ postStatus' = IF NewStatus(h) = request[h].seen THEN postStatus ELSE NewStatus(h)
  /\ Done(h)
  /\ UNCHANGED <<schedule, job, attempt, entry, actor, posted, outside>>

RequestStep(h) ==
  \/ FindScheduled(h) \/ CancelLive(h) \/ CheckLive(h) \/ CancelJob(h) \/ RemoveEntry(h)
  \/ CreateSchedule(h) \/ CreateJob(h) \/ AddEntry(h) \/ SavePost(h)
=============================================================================
