-------------------------- MODULE PublishInvariant --------------------------
(***************************************************************************)
(* Why one worker sends at a time, and never after an attempt that went    *)
(* unanswered: the inductive invariant the proofs rest on.                 *)
(***************************************************************************)
EXTENDS PublishProperties

(* Where a run is between winning the claim and giving the job up.          *)
Holding ==
  {"claimSchedule", "releaseJob", "markPublishing", "loadPlan", "connect", "markSent",
   "call", "saveSuccess", "finishJob", "finishSchedule", "finishPost", "hooks",
   "saveFailure", "unclaimSchedule", "requeueJob"}
Quiet(s) == Unresolved(s) = {}

(* A job is locked exactly while it is being processed.                     *)
LocksAreHeld ==
  \A s \in Schedules :
    IF job[s].status = "PROCESSING"
      THEN job[s].lockedAt # "null"
      ELSE job[s].lockedAt = "null" /\ job[s].lockedBy = None

(* The holder's lock is fresh for as long as the job is open.               *)
HolderHasLock ==
  \A r \in Runs : actor[r].pc \in Holding /\ JobOpen(actor[r].s) =>
    /\ job[actor[r].s].status = "PROCESSING"
    /\ job[actor[r].s].lockedAt = "fresh"
    /\ HoldsLock(r)

OneHolder ==
  \A a, b \in Runs :
    actor[a].pc \in Holding /\ actor[b].pc \in Holding /\ actor[a].s = actor[b].s => a = b

(* A sweep works on a lock it has just renewed.                             *)
TakenOver == {"sweepSchedule", "sweepAttempts", "sweepRequeue"}
SweepsAreTimely ==
  \A v \in Sweeps : actor[v].pc \in TakenOver => job[actor[v].s].lockedAt # "stale"

(* A job that does not exist yet is known to nobody, and created once.      *)
UnmadeIsUntouched ==
  \A s \in Schedules : job[s].status = "NONE" =>
    /\ entry[s].state = "none"
    /\ Quiet(s)
    /\ \A a \in Actors : actor[a].pc # "idle" => actor[a].s # s
    /\ \A h \in Requests : request[h].pc = "addEntry" => request[h].s # s
UnmadeScheduleHasNoJob ==
  \A s \in Schedules : schedule[s].status = "NONE" => job[s].status = "NONE"
CreatedOnce ==
  /\ \A h \in Requests : request[h].pc = "createJob" =>
       /\ request[h].s \in Schedules
       /\ schedule[request[h].s].status # "NONE"
       /\ job[request[h].s].status = "NONE"
  /\ \A g, h \in Requests :
       request[g].pc = "createJob" /\ request[h].pc = "createJob"
         /\ request[g].s = request[h].s => g = h

(* Whoever may send next has found every earlier attempt answered.          *)
WaitingIsQuiet == \A s \in Schedules : job[s].status = "QUEUED" => Quiet(s)
ClaimantsHaveLooked ==
  \A r \in Runs :
    actor[r].pc \in {"checkWorkspace", "checkPause", "claimJob"}
      /\ job[actor[r].s].lockedAt = "stale" => Quiet(actor[r].s)
HolderOwnsUnresolved ==
  \A r \in Runs :
    actor[r].pc \in Holding => Unresolved(actor[r].s) \subseteq {actor[r].n}
GivingUpIsQuiet ==
  \A r \in Runs :
    actor[r].pc \in {"unclaimSchedule", "requeueJob"} => Quiet(actor[r].s)
SweepHasLooked ==
  \A v \in Sweeps : actor[v].pc = "sweepRequeue" /\ HoldsLock(v) => Quiet(actor[v].s)

(* A schedule is live only while it is still on its way.                    *)
LiveIsOnItsWay ==
  \A s \in Schedules : Live(s) => schedule[s].status \in {"SCHEDULED", "PROCESSING"}

(* At any moment one run at most holds a job, its lock is fresh, and no     *)
(* attempt but its own is unanswered.  This is what the claim, the lock and *)
(* the look at earlier attempts in runPublishJob achieve together.          *)
LockDiscipline ==
  /\ LocksAreHeld /\ HolderHasLock /\ OneHolder /\ SweepsAreTimely
  /\ UnmadeIsUntouched /\ UnmadeScheduleHasNoJob /\ CreatedOnce
  /\ WaitingIsQuiet /\ ClaimantsHaveLooked /\ SweepHasLooked
  /\ HolderOwnsUnresolved /\ GivingUpIsQuiet

(* Whoever may still call the platform for a schedule finds it unsent, but  *)
(* for what crashes and broken connections excuse.                          *)
Before == {"claimSchedule", "markPublishing", "loadPlan", "connect", "markSent", "call"}
SendersFindItUnsent ==
  \A r \in Runs : actor[r].pc \in Before => posted[actor[r].s] <= Excuses

(* A job that has sent its post is closed, or the only run at work on it is *)
(* about to close it and still has its lock.                                *)
Closed == {"SUCCEEDED", "FAILED", "CANCELLED"}
Closing == {"saveSuccess", "finishJob", "saveFailure", "failJob"}
Settles(r) ==
  LET s == actor[r].s IN
  /\ actor[r].pc \in Closing
  /\ actor[r].pc = "saveFailure" => ~Retries(r)
  /\ job[s].status = "PROCESSING" /\ job[s].lockedAt = "fresh" /\ HoldsLock(r)
  /\ \A q \in Runs \ {r} : actor[q].pc \in Holding => actor[q].s # s
SentIsSettled ==
  \A s \in Schedules :
    \/ posted[s] <= Excuses
    \/ /\ posted[s] = Excuses + 1
       /\ job[s].status \in Closed \/ \E r \in Runs : actor[r].s = s /\ Settles(r)

HoldersAreNumbered == \A r \in Runs : actor[r].pc \in Holding => actor[r].n > 0
BudgetIsSpent ==
  /\ opening \in [Faults \cup Events -> Nat]
  /\ \A what \in Faults \cup Events : budget[what] <= opening[what]
SendsAreCounted ==
  SendersFindItUnsent /\ SentIsSettled /\ HoldersAreNumbered /\ BudgetIsSpent

(* What every action keeps, whatever the budget.                            *)
Secure == TypeOK /\ LiveIsOnItsWay /\ LockDiscipline /\ SendsAreCounted

-----------------------------------------------------------------------------
(* No worker has died, no database call has failed and no answer of a       *)
(* platform has been cut off so far.                                        *)
Spent(what) == opening[what] - budget[what]
Unharmed == Spent("crash") = 0 /\ Spent("storeError") = 0 /\ Spent("connectionReset") = 0

(* A job that is being processed has a run at work on it.                   *)
Working ==
  {"claimSchedule", "releaseJob", "markPublishing", "loadPlan", "connect", "markSent",
   "call", "saveSuccess", "finishJob", "saveFailure", "unclaimSchedule", "requeueJob",
   "failJob"}
Attended ==
  \A s \in Schedules : job[s].status = "PROCESSING" =>
    \E r \in Runs : actor[r].s = s /\ actor[r].pc \in Working

(* So no lock grows old, and no sweep takes a job over.                     *)
LocksStayFresh == \A s \in Schedules : job[s].lockedAt # "stale"
SweepsOnlyRequeue ==
  \A v \in Sweeps : actor[v].pc \in {"idle", "dueSchedule", "checkEntry", "readd"}

(* A run that fails its job for a reason it knows had claimed it; one that  *)
(* fails it for an earlier attempt does not know what became of that.       *)
FailsKnowingly(r) == actor[r].pc \in {"failJob", "failSchedule"} /\ actor[r].why # "unknown"
Claimant(r) == actor[r].pc \in Holding \/ FailsKnowingly(r)
OneClaimant ==
  /\ \A a, b \in Runs : Claimant(a) /\ Claimant(b) /\ actor[a].s = actor[b].s => a = b
  /\ \A r \in Runs : FailsKnowingly(r) => job[actor[r].s].status \notin {"NONE", "QUEUED"}
  /\ \A r \in Runs : actor[r].pc = "failUnresolved" => actor[r].why = "unknown"

(* A schedule about to be sent is taken, or was given up for a review.      *)
Taken(s) == Live(s) /\ schedule[s].status = "PROCESSING"
ForReview(s) == ~Live(s) /\ schedule[s].status = "FAILED" /\ schedule[s].needsReview
SendersTookIt ==
  \A r \in Runs :
    actor[r].pc \in Sending \cup {"markPublishing"} =>
      Taken(actor[r].s) \/ ForReview(actor[r].s)

(* A post that went out is recorded, up for review, or in the hands of runs *)
(* that will see to either.                                                 *)
Risky(r) ==
  \/ actor[r].pc \in {"claimSchedule", "releaseJob", "markPublishing", "loadPlan", "connect",
                      "markSent", "call", "unclaimSchedule", "requeueJob"}
  \/ actor[r].pc \in {"saveFailure", "failJob", "failSchedule"} /\ actor[r].why # "unknown"
SentIsKnown ==
  \A s \in Schedules : posted[s] > 0 =>
    \/ schedule[s].status = "PUBLISHED" \/ ForReview(s)
    \/ /\ Taken(s)
       /\ job[s].status \notin {"NONE", "QUEUED"}
       /\ \A r \in Runs : actor[r].s = s => ~Risky(r)

Orderly ==
  /\ Attended /\ LocksStayFresh /\ SweepsOnlyRequeue
  /\ OneClaimant /\ SendersTookIt /\ SentIsKnown

-----------------------------------------------------------------------------
(* Besides, BullMQ has handed every job to one run at a time so far.        *)
Undisturbed == Unharmed /\ Spent("redelivery") = 0 /\ Spent("lostEntry") = 0

(* A run is at work on the entry it was handed, and on no other.            *)
EntriesAreOwned ==
  /\ \A r \in Runs : actor[r].pc # "idle" =>
       entry[actor[r].s].state = "active" /\ entry[actor[r].s].owner = r
  /\ \A s \in Schedules : entry[s].state = "active" =>
       /\ entry[s].owner \in Runs
       /\ actor[entry[s].owner].pc # "idle"
       /\ actor[entry[s].owner].s = s

(* The schedule is taken exactly while its run holds it.                    *)
OnTaken ==
  {"markPublishing", "loadPlan", "connect", "markSent", "call", "saveSuccess", "finishJob",
   "finishSchedule", "saveFailure", "unclaimSchedule"}
TakersHaveIt ==
  \A r \in Runs : actor[r].pc \in OnTaken => Taken(actor[r].s)
TakenIsHeld ==
  \A s \in Schedules : Taken(s) =>
    \E r \in Runs : actor[r].s = s /\ actor[r].pc \in OnTaken \cup {"failJob", "failSchedule"}

(* Nobody gives up the job of a schedule that is live.                      *)
OffOnlyWhenOver ==
  /\ \A r \in Runs : actor[r].pc \in {"dropJob", "releaseJob"} => ~Live(actor[r].s)
  /\ \A h \in Requests : request[h].pc = "cancelJob" =>
       request[h].s \in Schedules /\ schedule[request[h].s].status \in Over
OnOpen ==
  {"readSchedule", "readAttempts", "checkWorkspace", "checkPause", "stopSchedule", "claimJob",
   "claimSchedule", "markPublishing", "loadPlan", "connect", "markSent", "call", "saveSuccess",
   "finishJob", "saveFailure", "unclaimSchedule", "requeueJob", "failUnresolved", "failJob"}
OpenWhileLive ==
  \A r \in Runs : actor[r].pc \in OnOpen /\ Live(actor[r].s) => JobOpen(actor[r].s)
LiveHasJob ==
  \A s \in Schedules : Live(s) =>
    \/ ApiCrashes > 0
    \/ JobOpen(s)
    \/ \E r \in Runs : actor[r].s = s /\ actor[r].pc \in {"finishSchedule", "failSchedule"}
    \/ \E h \in Requests : request[h].s = s /\ request[h].pc = "createJob"

(* An outcome that could not be confirmed closes the job.                   *)
UnknownCloses ==
  \A s \in Schedules, n \in 1..MaxClaims : attempt[s][n].error = "unknown" =>
    \/ job[s].status \in Closed
    \/ \E r \in Runs : actor[r].s = s /\ actor[r].pc = "failJob"

InOneHand ==
  /\ EntriesAreOwned /\ TakersHaveIt /\ TakenIsHeld /\ OffOnlyWhenOver
  /\ OpenWhileLive /\ LiveHasJob /\ UnknownCloses

OrderlyUnlessHarmed == Unharmed => Orderly
OneHandUnlessDisturbed == Undisturbed => InOneHand

(* The inductive invariant.                                                 *)
IInv == Secure /\ OrderlyUnlessHarmed /\ OneHandUnlessDisturbed
=============================================================================
