----------------------------- MODULE Publishing -----------------------------
(***************************************************************************)
(* Scheduled publishing as a whole: the API's requests, the worker's runs, *)
(* the recovery sweeps, BullMQ between them, and what may go wrong: a      *)
(* process dies, BullMQ delivers a job twice or forgets it, the database   *)
(* refuses a write.                                                        *)
(***************************************************************************)
EXTENDS PublishRequests, PublishRecovery

-----------------------------------------------------------------------------
(* BullMQ.                                                                  *)

(* An idle worker slot takes a waiting job.  Delays and backoff are any     *)
(* finite time.                                                             *)
Deliver(r, s) ==
  /\ At(r, "idle")
  /\ entry[s].state = "queued"
  /\ entry' = [entry EXCEPT ![s].state = "active", ![s].owner = r]
  /\ Start(r, "readJob", s)
  /\ UNCHANGED <<records, request, posted, outside>>

(* The processor returned or threw UnrecoverableError.  BullMQ ignores a    *)
(* worker that lost the entry meanwhile.                                    *)
Complete(r) ==
  LET s == actor[r].s IN
  /\ At(r, "complete")
  /\ entry' = IF entry[s].owner # r THEN entry
              ELSE [entry EXCEPT ![s].state = "finished", ![s].owner = None]
  /\ Rest(r)
  /\ UNCHANGED <<records, request, posted, outside>>

(* The processor rethrew a retryable failure: BullMQ tries again after a    *)
(* backoff, up to MaxAttempts in all.                                       *)
Rethrow(r) ==
  LET s == actor[r].s  more == entry[s].made + 1 < MaxAttempts IN
  /\ At(r, "rethrow")
  /\ entry' = IF entry[s].owner # r THEN entry
              ELSE [entry EXCEPT ![s] =
                      [state |-> IF more THEN "queued" ELSE "finished",
                       owner |-> None, made |-> IF more THEN @.made + 1 ELSE @.made]]
  /\ Rest(r)
  /\ UNCHANGED <<records, request, posted, outside>>

(* Nobody renews the entry any more: it waits again, or fails for having    *)
(* stalled too often.                                                       *)
Abandoned(s) ==
  entry[s].state = "active" /\ (At(entry[s].owner, "idle") \/ actor[entry[s].owner].s # s)

Stalled(s) ==
  /\ Abandoned(s)
  /\ \E state \in {"queued", "finished"} :
       entry' = [entry EXCEPT ![s].state = state, ![s].owner = None]
  /\ UNCHANGED <<records, actor, request, posted, outside>>

(* A worker too busy to renew its entry looks stalled while it still runs.  *)
Redeliver(s) ==
  /\ entry[s].state = "active"
  /\ ~Abandoned(s)
  /\ Spend("redelivery")
  /\ entry' = [entry EXCEPT ![s].state = "queued", ![s].owner = None]
  /\ UNCHANGED <<records, actor, request, posted, workspaceActive, paused>>

(* Redis was flushed or replaced.                                           *)
LoseEntry(s) ==
  /\ entry[s].state # "none"
  /\ Spend("lostEntry")
  /\ entry' = [entry EXCEPT ![s] = [state |-> "none", owner |-> None, made |-> 0]]
  /\ UNCHANGED <<records, actor, request, posted, workspaceActive, paused>>

-----------------------------------------------------------------------------
(* Faults, and time passing.                                                *)

Crash(p) ==
  /\ \E a \in Actors : ProcOf[a] = p /\ ~At(a, "idle")
  /\ Spend("crash")
  /\ actor' = [a \in Actors |-> IF ProcOf[a] = p THEN Idle ELSE actor[a]]
  /\ UNCHANGED <<records, entry, request, posted, workspaceActive, paused>>

ApiCrash(h) ==
  /\ request[h].pc # "idle"
  /\ Spend("apiCrash")
  /\ Done(h)
  /\ UNCHANGED <<records, entry, actor, posted, workspaceActive, paused>>

(* PUBLISH_LOCK_TIMEOUT_MS passes without a renewal.  The heartbeat keeps   *)
(* the lock of a live run fresh while it sends; no actor is assumed to take *)
(* that long between two calls it makes for the same job.                   *)
LockExpires(s) ==
  /\ job[s].lockedAt = "fresh"
  /\ \A a \in Actors : actor[a].s # s
  /\ job' = [job EXCEPT ![s].lockedAt = "stale"]
  /\ UNCHANGED <<postStatus, schedule, attempt, entry, actor, request, posted, outside>>

(* Autopilot is paused, and resumed.                                        *)
Pause ==
  /\ ~paused
  /\ Spend("pause")
  /\ paused' = TRUE
  /\ UNCHANGED <<records, entry, actor, request, posted, workspaceActive>>

Resume ==
  /\ paused
  /\ paused' = FALSE
  /\ UNCHANGED <<records, entry, actor, request, posted, workspaceActive, budget, opening>>

-----------------------------------------------------------------------------
RunNext(r) ==
  RunStep(r) \/ FailStep(r) \/ StoreError(r) \/ LoseAnswer(r) \/ Complete(r) \/ Rethrow(r)
             \/ (\E s \in Schedules : Deliver(r, s))
SweepNext(v) ==
  SweepStep(v) \/ FailStep(v) \/ (\E s \in Schedules : TakeAbandoned(v, s) \/ FindDue(v, s))
RequestNext(h) ==
  RequestStep(h) \/ ApiCrash(h) \/ BeginArchive(h)
                 \/ (\E op \in {"schedule", "unschedule", "setReady"} : Begin(h, op))
QueueNext(s) == Stalled(s) \/ Redeliver(s) \/ LoseEntry(s) \/ LockExpires(s)

Next ==
  \/ \E r \in Runs : RunNext(r)
  \/ \E v \in Sweeps : SweepNext(v)
  \/ \E h \in Requests : RequestNext(h)
  \/ \E s \in Schedules : QueueNext(s)
  \/ \E p \in Procs : Crash(p)
  \/ Pause \/ Resume \/ Restore

Spec == Init /\ [][Next]_vars

(* A process that is up keeps running what it started, BullMQ hands out and *)
(* takes back jobs, every pass of recovery reaches each job it found, and   *)
(* time passes.  Nobody has to send a request, and nothing has to fail.     *)
Fairness ==
  /\ \A r \in Runs : WF_vars(RunStep(r) \/ FailStep(r) \/ Complete(r) \/ Rethrow(r))
  /\ \A s \in Schedules : SF_vars(\E r \in Runs : Deliver(r, s))
  /\ \A v \in Sweeps : WF_vars(SweepStep(v) \/ FailStep(v))
  /\ \A v \in Sweeps, s \in Schedules : SF_vars(TakeAbandoned(v, s)) /\ SF_vars(FindDue(v, s))
  /\ \A h \in Requests : WF_vars(RequestStep(h))
  /\ \A s \in Schedules : WF_vars(Stalled(s)) /\ SF_vars(LockExpires(s))

FairSpec == Spec /\ Fairness
=============================================================================
