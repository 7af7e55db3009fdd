-------------------------- MODULE PublishProperties --------------------------
(***************************************************************************)
(* What scheduled publishing promises.  Runs of the model checker check    *)
(* each of these under the faults named in MCPublishing; the theorems of   *)
(* PublishSafety prove the ones that hold whatever happens.                *)
(***************************************************************************)
EXTENDS Publishing

Sending == {"loadPlan", "connect", "markSent", "call"}

(* Two runs never prepare or make the platform call for one job, however    *)
(* often BullMQ delivers it, workers die and recovery takes over: the claim *)
(* in runPublishJob admits one worker, and recovery waits for a stale lock. *)
OneSender ==
  \A a, b \in Runs :
    actor[a].pc \in Sending /\ actor[b].pc \in Sending /\ actor[a].s = actor[b].s => a = b

(* A worker about to call the platform has no earlier attempt of the same   *)
(* job that was sent and never answered: that job waits for a person.       *)
NoBlindResend ==
  \A r \in Runs :
    actor[r].pc \in {"markSent", "call"} => Unresolved(actor[r].s) \subseteq {actor[r].n}

(* No worker calls the platform for a job with an earlier attempt whose     *)
(* outcome could not be confirmed: classify never lets that be retried.     *)
UnknownIsNotRetried ==
  \A r \in Runs :
    actor[r].pc \in {"markSent", "call"} =>
      \A n \in 1..MaxClaims \ {actor[r].n} : attempt[actor[r].s][n].error # "unknown"

(* A schedule that was cancelled, failed or published never becomes live    *)
(* again; the only way out is a worker recording that the post went out.    *)
Over == {"CANCELLED", "FAILED", "PUBLISHED"}
NoRevival ==
  [][\A s \in Schedules :
       schedule[s].status \in Over =>
         ~schedule'[s].isLive /\ schedule'[s].status \in {schedule[s].status, "PUBLISHED"}]_vars

(* One schedule makes at most one post on the platform, and one more for    *)
(* each worker that dies and each connection that breaks once the platform  *)
(* has the post: a death may come between the success and its record, and a *)
(* broken connection is retried while attempts are left.                    *)
Crashes == opening["crash"] - budget["crash"]
Resets == opening["connectionReset"] - budget["connectionReset"]
Excuses == Crashes + (IF MaxAttempts > 1 THEN Resets ELSE 0)
PostsOnce == \A s \in Schedules : posted[s] <= 1 + Excuses

(* A schedule that failed without asking for a review, or was cancelled, is *)
(* not on the platform: the user may schedule the post again.               *)
SafeToReschedule ==
  \A s \in Schedules :
    schedule[s].status = "CANCELLED"
      \/ (schedule[s].status = "FAILED" /\ ~schedule[s].needsReview) => posted[s] = 0

(* While a worker is sending a schedule nobody can cancel it, so no second  *)
(* one can be created beside it.                                            *)
SendingIsNotCancellable ==
  \A r \in Runs : actor[r].pc \in {"markSent", "call"} => ~Cancellable(actor[r].s)

(* A request changes no schedule under a worker that sends it, and what it  *)
(* may schedule again did not go out.                                       *)
ChangesAreSafe == SafeToReschedule /\ SendingIsNotCancellable

(* A schedule that is live is queued or publishing: its job is still to run *)
(* or running, or somebody is at work on it.  A schedule left without would *)
(* hold the post for good, as recovery only looks for open jobs.  The API   *)
(* must not die between the schedule and its job.                           *)
ApiCrashes == opening["apiCrash"] - budget["apiCrash"]
NoOrphans ==
  \A s \in Schedules :
    Live(s) => \/ ApiCrashes > 0
               \/ JobOpen(s)
               \/ \E a \in Actors : actor[a].s = s
               \/ \E h \in Requests : request[h].s = s

(* Whatever is scheduled ends, unless a worker dies: it is published, fails *)
(* or is cancelled.  Whoever dies, a waiting or claimed job of a live       *)
(* schedule does not stay that way.                                         *)
SchedulesSettle ==
  \A s \in Schedules :
    /\ Live(s) ~> (~Live(s) \/ Crashes > 0)
    /\ (JobOpen(s) /\ Live(s)) ~> ~(JobOpen(s) /\ Live(s))
=============================================================================
