--------------------------- MODULE PublishRecovery ---------------------------
(***************************************************************************)
(* recoverPublishing: at boot and on an interval, every worker process     *)
(* takes over jobs whose lock went stale, then requeues due jobs whose     *)
(* BullMQ entry is gone.  A pass is modelled job by job.                   *)
(***************************************************************************)
EXTENDS PublishRun

(* The stale lock found is compared again when the job is taken, so finding *)
(* and taking it are one step.                                              *)
TakeAbandoned(v, s) ==
  /\ At(v, "idle")
  /\ job[s].status = "PROCESSING"
  /\ job[s].lockedAt = "stale"
  /\ job' = [job EXCEPT ![s].lockedBy = LockName(v), ![s].lockedAt = "fresh"]
  /\ Start(v, "sweepSchedule", s)
  /\ UNCHANGED <<postStatus, schedule, attempt, entry, request, posted, outside>>

SweepSchedule(v) ==
  /\ At(v, "sweepSchedule")
  /\ Goto(v, IF Live(actor[v].s) THEN "sweepAttempts" ELSE "sweepCancel")
  /\ UNCHANGED <<records, entry, request, posted, outside>>

SweepCancel(v) ==
  /\ At(v, "sweepCancel")
  /\ IF HoldsLock(v) THEN FreeJob(actor[v].s, "CANCELLED") ELSE UNCHANGED job
  /\ Leave(v)
  /\ UNCHANGED <<postStatus, schedule, attempt, entry, request, posted, outside>>

\* Mutant: earlier attempts are not looked at.
SweepSkipsAttempts(v) ==
  /\ At(v, "sweepAttempts")
  /\ Goto(v, "sweepRequeue")
  /\ UNCHANGED <<records, entry, request, posted, outside>>

SweepAttempts(v) ==
  LET s == actor[v].s IN
  /\ At(v, "sweepAttempts")
  /\ \/ \E n \in Unresolved(s) :
          actor' = [actor EXCEPT ![v].pc = "failUnresolved", ![v].n = n,
                                 ![v].why = "unknown"]
     \/ Unresolved(s) = {} /\ Goto(v, "sweepRequeue")
  /\ UNCHANGED <<records, entry, request, posted, outside>>

(* The job goes back first, then the schedule, then the post.               *)
SweepRequeue(v) ==
  /\ At(v, "sweepRequeue")
  /\ IF HoldsLock(v) THEN FreeJob(actor[v].s, "QUEUED") ELSE UNCHANGED job
  /\ Goto(v, "sweepUnclaim")
  /\ UNCHANGED <<postStatus, schedule, attempt, entry, request, posted, outside>>

\* Mutant: the schedule recovery read earlier is saved back.
SweepRevive(v) ==
  /\ At(v, "sweepUnclaim")
  /\ SetSchedule(actor[v].s, "SCHEDULED", TRUE)
  /\ Goto(v, "sweepPost")
  /\ UNCHANGED <<postStatus, job, attempt, entry, request, posted, outside>>

SweepUnclaim(v) ==
  LET s == actor[v].s IN
  /\ At(v, "sweepUnclaim")
  /\ IF Live(s) /\ schedule[s].status = "PROCESSING"
       THEN SetSchedule(s, "SCHEDULED", TRUE) ELSE UNCHANGED schedule
  /\ Goto(v, "sweepPost")
  /\ UNCHANGED <<postStatus, job, attempt, entry, request, posted, outside>>

SweepPost(v) ==
  /\ At(v, "sweepPost")
  /\ postStatus' = IF postStatus = "PUBLISHING" THEN "SCHEDULED" ELSE postStatus
  /\ Goto(v, "checkEntry")
  /\ UNCHANGED <<schedule, job, attempt, entry, request, posted, outside>>

(* The second loop: a waiting job of a live schedule must have an entry.    *)
FindDue(v, s) ==
  /\ At(v, "idle")
  /\ job[s].status = "QUEUED"
  /\ Start(v, "dueSchedule", s)
  /\ UNCHANGED <<records, entry, request, posted, outside>>

DueSchedule(v) ==
  /\ At(v, "dueSchedule")
  /\ IF Live(actor[v].s) THEN Goto(v, "checkEntry") ELSE Leave(v)
  /\ UNCHANGED <<records, entry, request, posted, outside>>

\* Mutant: an entry BullMQ does not know counts as queued.
EntryNotOver(s) == entry[s].state # "finished"

WillRun(s) == entry[s].state \in {"queued", "active"}

(* ensureQueued: an entry that will still run is left alone.                *)
CheckEntry(v) ==
  /\ At(v, "checkEntry")
  /\ IF WillRun(actor[v].s) THEN Leave(v) ELSE Goto(v, "readd")
  /\ UNCHANGED <<records, entry, request, posted, outside>>

(* Removes the finished entry and adds a new one.  In between, the entry is *)
(* absent or finished, which nothing else tells apart.  An entry that went  *)
(* active meanwhile cannot be removed, and adding it again does nothing.    *)
ReaddEntry(v) ==
  LET s == actor[v].s IN
  /\ At(v, "readd")
  /\ entry' = IF entry[s].state = "active" THEN entry
              ELSE [entry EXCEPT ![s] = [state |-> "queued", owner |-> None, made |-> 0]]
  /\ Leave(v)
  /\ UNCHANGED <<records, request, posted, outside>>

SweepStep(v) ==
  \/ SweepSchedule(v) \/ SweepCancel(v) \/ SweepAttempts(v) \/ SweepRequeue(v)
  \/ SweepUnclaim(v) \/ SweepPost(v) \/ DueSchedule(v) \/ CheckEntry(v) \/ ReaddEntry(v)
=============================================================================
