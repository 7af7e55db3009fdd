------------------------------- MODULE Autopilot -------------------------------
(***************************************************************************)
(* Autopilot of one workspace on one day: posting times are planned,       *)
(* worker processes claim them, have the posts written and route each post *)
(* to the publishing queue or to the review queue, while people pause,     *)
(* resume, approve and reject and the queue sends what falls due.          *)
(***************************************************************************)
EXTENDS Naturals, FiniteSets

CONSTANTS
  Slots,           \* posting times
  Platforms,
  NeedMedia,       \* platforms that take no post without media
  Workers,         \* worker processes
  Openings,        \* what a behaviour begins with
  MaxAttempts,     \* maxGenerationAttempts
  FailuresToPause  \* autoPauseAfterGenerationFailures, ...PublishFailures

(* An opening gives the settings, the processes that run, the slots, and   *)
(* how many crashes, delays, failures, outages and requests there may be.  *)
ASSUME AutopilotAssumption ==
  /\ NeedMedia \subseteq Platforms
  /\ MaxAttempts \in Nat \ {0} /\ FailuresToPause \in Nat \ {0}
  /\ \A o \in Openings :
       /\ o.workers \subseteq Workers /\ o.slots \subseteq Slots /\ o.platforms \subseteq Platforms
       /\ o.perWeek \in Nat /\ o.perDay \in Nat /\ o.approval \in BOOLEAN
       /\ \A f \in {"crashes", "delays", "failures", "outages", "requests"} : o.left[f] \in Nat

VARIABLES
  settings,  \* AutopilotSettings, and the history: `unpaused`, a worker died about
             \* to pause; `overrun`, the slots that did not wait for their worker
  allowed,   \* the person it acts for may still edit, and the plan includes it
  slots,     \* AutopilotSlot
  posts,     \* the posts it wrote, by slot and platform, with their live schedule
  blocked,   \* publish runs that stopped a post and have yet to hold it
  workers,   \* the processes, with what each has in memory
  person,    \* the request in progress
  time,      \* how far away the slots' time is
  left       \* the crashes, delays, failures, outages and requests still to come

autopilotVars == <<settings, allowed, slots, posts, blocked, workers, person, time, left>>

Posts == Slots \X Platforms
None == <<"none", "none">>
Active == settings.status = "ACTIVE"

NoPost == [status |-> "none", held |-> "none", approved |-> FALSE, planned |-> FALSE, live |-> "none",
           cut |-> FALSE]
NewPost == [NoPost EXCEPT !.status = "READY", !.held = "APPROVAL_REQUIRED", !.planned = TRUE]

Idle == [pc |-> "idle", now |-> "far", late |-> FALSE, active |-> FALSE, expiring |-> {}, missed |-> {},
         slot |-> "none", done |-> FALSE, todo |-> {}, written |-> {}, review |-> {},
         post |-> None, reason |-> "none"]
NoRequest == [pc |-> "none", todo |-> {}, post |-> None, held |-> FALSE]

AutopilotInit ==
  \E o \in Openings :
    /\ settings = [status |-> "ACTIVE", approval |-> o.approval, platforms |-> o.platforms,
                   perWeek |-> o.perWeek, perDay |-> o.perDay, failures |-> 0, failedPublishes |-> 0,
                   unpaused |-> FALSE, overrun |-> {}]
    /\ allowed = TRUE
    /\ slots = [s \in Slots |-> [status |-> IF s \in o.slots THEN "PLANNED" ELSE "SKIPPED", attempts |-> 0]]
    /\ posts = [p \in Posts |-> NoPost]
    /\ blocked = [p \in Posts |-> "no"]
    /\ workers = [w \in Workers |-> IF w \in o.workers THEN Idle ELSE [Idle EXCEPT !.pc = "off"]]
    /\ person = NoRequest
    /\ time = "far"
    /\ left = o.left

Spend(what) == left[what] > 0 /\ left' = [left EXCEPT ![what] = @ - 1]

-------------------------------------------------------------------------------
(* What the sweep and the pipeline read.                                   *)

OnDay(p) == {q \in Posts \ {p} : posts[q].status \in {"SCHEDULED", "PUBLISHING", "PUBLISHED"}}
Existing(s) == {p \in Posts : p[1] = s /\ posts[p].status # "none"}
WrittenThisWeek == Cardinality({s \in Slots : slots[s].status = "GENERATED"})

Planned(from, now) ==
  [s \in Slots |-> IF from[s].status = "none" /\ now = "far"
                   THEN [status |-> "PLANNED", attempts |-> 0] ELSE from[s]]

(* A worker at work on a slot it claimed.                                  *)
Writing(w, s) ==
  workers[w].slot = s /\ workers[w].pc \in {"check", "release", "skip", "recover", "write", "recheck",
                                            "save", "fail"}

(* A lock is stamped with the time its worker's sweep began and never      *)
(* renewed: it times out under a worker whose sweep takes too long (late). *)
Stale(s) ==
  slots[s].status = "GENERATING" /\ \A w \in Workers : Writing(w, s) => workers[w].late

Requeued ==
  [s \in Slots |-> IF Stale(s) THEN [slots[s] EXCEPT !.status = "PLANNED"] ELSE slots[s]]

Go(w, q) == workers' = [workers EXCEPT ![w] = q]
GoTo(w, pc) == Go(w, [workers[w] EXCEPT !.pc = pc])

(* The slot is dealt with; the sweep may go on to another.                 *)
Onward(w) ==
  [Idle EXCEPT !.pc = "due", !.now = workers[w].now, !.late = workers[w].late,
               !.active = TRUE, !.done = TRUE]

(* A sweep goes through every workspace, with up to four calls to the AI   *)
(* for a slot: it may last longer than a lock does.                        *)
Overrun(w) ==
  /\ workers[w].pc \notin {"off", "idle"} /\ ~ workers[w].late
  /\ Spend("delays")
  /\ workers' = [workers EXCEPT ![w].late = TRUE]
  /\ UNCHANGED <<settings, allowed, slots, posts, blocked, person, time>>

-------------------------------------------------------------------------------
(* runWorkspace.                                                           *)

Sweep(w) ==
  LET found == IF Active THEN Requeued ELSE slots
      taken == {s \in Slots : Active /\ Stale(s) /\ \E v \in Workers : Writing(v, s)} IN
  /\ workers[w].pc = "idle"
  /\ slots' = found
  /\ settings' = [settings EXCEPT !.overrun = @ \union taken]
  /\ Go(w, [Idle EXCEPT
       !.pc = "tidy", !.now = time, !.active = Active,
       !.expiring = {p \in Posts : /\ time = "past" /\ posts[p].status = "READY" /\ posts[p].planned
                                   /\ posts[p].held \notin {"none", "EXPIRED"}},
       !.missed = {s \in Slots : Active /\ time # "far" /\ found[s].status = "PLANNED"}])
  /\ UNCHANGED <<allowed, posts, blocked, person, time, left>>

(* Only what changed in the copy is saved: its status was READY already.   *)
MarkExpired(w) ==
  /\ workers[w].pc = "tidy"
  /\ \E p \in workers[w].expiring :
       /\ posts' = [posts EXCEPT ![p].held = "EXPIRED"]
       /\ Go(w, [workers[w] EXCEPT !.expiring = @ \ {p}])
  /\ UNCHANGED <<settings, allowed, slots, blocked, person, time, left>>

(* A slot that was cleared meanwhile ends the sweep with an error.         *)
SkipMissed(w) ==
  /\ workers[w].pc = "tidy" /\ workers[w].expiring = {}
  /\ \E s \in workers[w].missed :
       IF slots[s].status = "none" THEN Go(w, Idle) /\ UNCHANGED slots
       ELSE /\ slots' = [slots EXCEPT ![s].status = "SKIPPED"]
            /\ Go(w, [workers[w] EXCEPT !.missed = @ \ {s}])
  /\ UNCHANGED <<settings, allowed, posts, blocked, person, time, left>>

PlanSlots(w) ==
  LET q == workers[w] IN
  /\ q.pc = "tidy" /\ q.expiring = {} /\ q.missed = {}
  /\ slots' = IF q.active /\ allowed THEN Planned(slots, q.now) ELSE slots
  /\ Go(w, IF q.active THEN [q EXCEPT !.pc = "due"] ELSE Idle)
  /\ UNCHANGED <<settings, allowed, posts, blocked, person, time, left>>

\* Mutant: the claim looks only at when the slot falls due.
AnyTime(s) == slots[s].status \in {"PLANNED", "GENERATING"}

Claimable(s) == slots[s].status = "PLANNED"

Claim(w, s) ==
  /\ workers[w].pc = "due" /\ Claimable(s)
  /\ slots' = [slots EXCEPT ![s] = [status |-> "GENERATING", attempts |-> @.attempts + 1]]
  /\ Go(w, [workers[w] EXCEPT !.pc = "check", !.slot = s])
  /\ UNCHANGED <<settings, allowed, posts, blocked, person, time, left>>

EndSweep(w) ==
  /\ workers[w].pc = "due"
  /\ workers[w].done \/ \A s \in Slots : ~ Claimable(s)
  /\ Go(w, Idle)
  /\ UNCHANGED <<settings, allowed, slots, posts, blocked, person, time, left>>

-------------------------------------------------------------------------------
(* processSlot.                                                            *)

(* Which way the checks that follow the claim send the slot.               *)
Check(w) ==
  LET q == workers[w]
      room == {ps \in SUBSET settings.platforms :
                 Cardinality(ps) + Cardinality(OnDay(None)) <= settings.perDay}
  IN
  /\ q.pc = "check"
  /\ IF ~ Active THEN GoTo(w, "release")
     ELSE IF ~ allowed THEN Go(w, [q EXCEPT !.pc = "release", !.reason = "NOT_ALLOWED"])
     ELSE IF q.now # "far" \/ WrittenThisWeek >= settings.perWeek THEN GoTo(w, "skip")
     ELSE IF Existing(q.slot) # {}
     THEN Go(w, [q EXCEPT !.pc = "recover",
                   !.written = {p \in Existing(q.slot) : posts[p].held = "APPROVAL_REQUIRED"}])
     ELSE IF room \subseteq {{}} THEN GoTo(w, "skip")
     ELSE \E ps \in room :
            /\ \A others \in room : Cardinality(others) <= Cardinality(ps)
            /\ Go(w, [q EXCEPT !.pc = "write", !.todo = {q.slot} \X ps])
  /\ UNCHANGED <<settings, allowed, slots, posts, blocked, person, time, left>>

(* The attempt does not count, and the sweep of the workspace ends.        *)
Release(w) ==
  LET q == workers[w] IN
  /\ q.pc = "release"
  /\ slots' = [slots EXCEPT ![q.slot] =
       [status |-> "PLANNED", attempts |-> IF @.attempts = 0 THEN 0 ELSE @.attempts - 1]]
  /\ Go(w, IF q.reason = "NOT_ALLOWED" THEN [Idle EXCEPT !.pc = "pause", !.now = q.now, !.late = q.late]
           ELSE Idle)
  /\ UNCHANGED <<settings, allowed, posts, blocked, person, time, left>>

SkipSlot(w) ==
  /\ workers[w].pc = "skip"
  /\ slots' = [slots EXCEPT ![workers[w].slot].status = "SKIPPED"]
  /\ Go(w, Onward(w))
  /\ UNCHANGED <<settings, allowed, posts, blocked, person, time, left>>

(* An earlier run saved posts and died: those not yet routed are, without  *)
(* what their review said.                                                 *)
Recover(w) ==
  /\ workers[w].pc = "recover"
  /\ slots' = [slots EXCEPT ![workers[w].slot].status = "GENERATED"]
  /\ GoTo(w, "route")
  /\ UNCHANGED <<settings, allowed, posts, blocked, person, time, left>>

Accepted(drafts) == (SUBSET drafts) \ {{}}

(* chooseTopic and writeDrafts: some platforms' drafts pass, perhaps with  *)
(* remarks; or none does, or the AI fails.                                 *)
Write(w) ==
  LET q == workers[w] IN
  /\ q.pc = "write"
  /\ \/ \E accepted \in Accepted(q.todo) : \E review \in {{}, accepted} :
          /\ Go(w, [q EXCEPT !.pc = "recheck", !.todo = accepted, !.review = review])
          /\ UNCHANGED left
     \/ Spend("failures") /\ GoTo(w, "fail")
  /\ UNCHANGED <<settings, allowed, slots, posts, blocked, person, time>>

(* A pause while writing means nothing is saved.                           *)
Recheck(w) ==
  /\ workers[w].pc = "recheck"
  /\ GoTo(w, IF Active THEN "save" ELSE "release")
  /\ UNCHANGED <<settings, allowed, slots, posts, blocked, person, time, left>>

(* One post of a slot and platform: the index refuses a second, which is a *)
(* failure to write like any other.                                        *)
SavePost(w) ==
  LET q == workers[w] IN
  /\ q.pc = "save"
  /\ \E p \in q.todo :
       \/ /\ posts[p].status = "none"
          /\ posts' = [posts EXCEPT ![p] = NewPost]
          /\ Go(w, [q EXCEPT !.todo = @ \ {p}, !.written = @ \union {p}])
          /\ UNCHANGED left
       \/ posts[p].status # "none" /\ GoTo(w, "fail") /\ UNCHANGED <<posts, left>>
       \/ Spend("failures") /\ GoTo(w, "fail") /\ UNCHANGED posts
  /\ UNCHANGED <<settings, allowed, slots, blocked, person, time>>

FinishSlot(w) ==
  /\ workers[w].pc = "save" /\ workers[w].todo = {}
  /\ slots' = [slots EXCEPT ![workers[w].slot].status = "GENERATED"]
  /\ settings' = [settings EXCEPT !.failures = 0]
  /\ GoTo(w, "route")
  /\ UNCHANGED <<allowed, posts, blocked, person, time, left>>

(* handleGenerationFailure: final after the last attempt, or when the next *)
(* would come too late.                                                    *)
FailSlot(w) ==
  LET s == workers[w].slot IN
  /\ workers[w].pc = "fail"
  /\ \E final \in {TRUE, slots[s].attempts >= MaxAttempts} :
       slots' = [slots EXCEPT ![s].status = IF final THEN "FAILED" ELSE "PLANNED"]
  /\ GoTo(w, "count")
  /\ UNCHANGED <<settings, allowed, posts, blocked, person, time, left>>

TooMany(failures) == failures >= FailuresToPause

CountFailure(w) ==
  LET failures == settings.failures + 1 IN
  /\ workers[w].pc = "count"
  /\ settings' = [settings EXCEPT !.failures = failures, !.unpaused = FALSE]
  /\ Go(w, IF TooMany(failures) THEN [Onward(w) EXCEPT !.pc = "pause"] ELSE Onward(w))
  /\ UNCHANGED <<allowed, slots, posts, blocked, person, time, left>>

AutoPaused(set) == IF set.status = "ACTIVE" THEN [set EXCEPT !.status = "PAUSED"] ELSE set

AutoPause(w) ==
  /\ workers[w].pc = "pause"
  /\ settings' = AutoPaused(settings)
  /\ Go(w, IF workers[w].done THEN Onward(w) ELSE Idle)
  /\ UNCHANGED <<allowed, slots, posts, blocked, person, time, left>>

-------------------------------------------------------------------------------
(* routePost.  The worker's copy of a post is as it was when written.      *)

(* autoScheduleBlocker.                                                    *)
Blockers(p, review) ==
  IF ~ Active THEN {"PAUSED"}
  ELSE IF settings.approval THEN {"APPROVAL_REQUIRED"}
  ELSE IF p[2] \in NeedMedia THEN {"NEEDS_MEDIA"}
  ELSE IF p \in review THEN {"QUALITY_REVIEW"}
  ELSE IF Cardinality(OnDay(p)) >= settings.perDay THEN {"DAILY_LIMIT"}
  ELSE {}

Route(w) ==
  LET q == workers[w] IN
  /\ q.pc = "route"
  /\ IF q.written = {} THEN Go(w, Onward(w))
     ELSE \E p \in q.written :
            LET blockers == Blockers(p, q.review) IN
            Go(w, [q EXCEPT !.pc = IF blockers = {} THEN "schedule" ELSE "hold", !.post = p,
                            !.reason = IF blockers = {} THEN "none" ELSE CHOOSE r \in blockers : TRUE,
                            !.written = @ \ {p}])
  /\ UNCHANGED <<settings, allowed, slots, posts, blocked, person, time, left>>

(* schedulePublish replaces a live schedule, but not one that is being     *)
(* sent or that somebody else makes at the same time.  It may fail before  *)
(* the schedule exists, or when the job is queued after that.              *)
Schedule(w) ==
  LET p == workers[w].post IN
  /\ workers[w].pc = "schedule"
  /\ \/ /\ posts[p].live # "sending"
        /\ posts' = [posts EXCEPT ![p].live = "queued"]
        /\ \/ GoTo(w, "mark") /\ UNCHANGED left
           \/ GoTo(w, "cancel") /\ Spend("outages")
     \/ posts[p].live # "none" /\ GoTo(w, "cancel") /\ UNCHANGED <<posts, left>>
     \/ GoTo(w, "cancel") /\ Spend("outages") /\ UNCHANGED posts
  /\ UNCHANGED <<settings, allowed, slots, blocked, person, time>>

MarkScheduled(w) ==
  /\ workers[w].pc = "mark"
  /\ posts' = [posts EXCEPT ![workers[w].post] = [@ EXCEPT !.status = "SCHEDULED", !.held = "none"]]
  /\ GoTo(w, "route")
  /\ UNCHANGED <<settings, allowed, slots, blocked, person, time, left>>

Cancelled(post) == IF post.live = "queued" THEN [post EXCEPT !.live = "none"] ELSE post

\* Mutant: a failed scheduling leaves the schedule it may have made.
NotCancelled(post) == post

AfterFailure(post) == Cancelled(post)

(* The cancellation may fail in turn, which is only logged: the post is    *)
(* held all the same, with the schedule it has.                            *)
CancelFailed(w) ==
  LET p == workers[w].post IN
  /\ workers[w].pc = "cancel"
  /\ \/ posts' = [posts EXCEPT ![p] = AfterFailure(@)] /\ UNCHANGED left
     \/ posts' = [posts EXCEPT ![p].cut = TRUE] /\ Spend("outages")
  /\ Go(w, [workers[w] EXCEPT !.pc = "hold", !.reason = "SCHEDULING_FAILED"])
  /\ UNCHANGED <<settings, allowed, slots, blocked, person, time>>

(* holdPost on the worker's copy: only the reason can differ.              *)
Hold(w) ==
  LET q == workers[w] IN
  /\ q.pc = "hold"
  /\ posts' = [posts EXCEPT ![q.post].held = IF q.reason = "APPROVAL_REQUIRED" THEN @ ELSE q.reason]
  /\ GoTo(w, "route")
  /\ UNCHANGED <<settings, allowed, slots, blocked, person, time, left>>

(* History fields tell a post whose routing was cut short, by a crash or   *)
(* by a second failure (cut), and that a process died that had counted the *)
(* last failure and was about to pause.                                    *)
Crash(w) ==
  LET q == workers[w] IN
  /\ q.pc \notin {"off", "idle"}
  /\ Spend("crashes")
  /\ posts' = IF q.pc \in {"mark", "cancel"} THEN [posts EXCEPT ![q.post].cut = TRUE] ELSE posts
  /\ settings' = IF q.pc = "pause" THEN [settings EXCEPT !.unpaused = TRUE] ELSE settings
  /\ Go(w, Idle)
  /\ UNCHANGED <<allowed, slots, blocked, person, time>>

-------------------------------------------------------------------------------
(* People.                                                                 *)

Ask == person.pc = "none" /\ Spend("requests")

Pause ==
  /\ Ask /\ Active
  /\ settings' = [settings EXCEPT !.status = "PAUSED"]
  /\ person' = [NoRequest EXCEPT !.pc = "find"]
  /\ UNCHANGED <<allowed, slots, posts, blocked, workers, time>>

(* unscheduleForPause loads the posts, then cancels and holds each.        *)
FindScheduled ==
  /\ person.pc = "find"
  /\ person' = [person EXCEPT !.pc = "unschedule",
       !.todo = {p \in Posts : posts[p].status = "SCHEDULED" /\ ~ posts[p].approved}]
  /\ UNCHANGED <<settings, allowed, slots, posts, blocked, workers, time, left>>

Unschedule ==
  /\ person.pc = "unschedule"
  /\ IF person.todo = {} THEN person' = NoRequest /\ UNCHANGED posts
     ELSE \E p \in person.todo :
            /\ posts' = [posts EXCEPT ![p] = Cancelled(@)]
            /\ person' = [person EXCEPT !.todo = @ \ {p}, !.post = p,
                            !.pc = IF posts[p].live = "sending" THEN "unschedule" ELSE "hold"]
  /\ UNCHANGED <<settings, allowed, slots, blocked, workers, time, left>>

HoldUnscheduled ==
  /\ person.pc = "hold"
  /\ posts' = [posts EXCEPT ![person.post] = [@ EXCEPT !.status = "READY", !.held = "PAUSED"]]
  /\ person' = [person EXCEPT !.pc = "unschedule", !.post = None]
  /\ UNCHANGED <<settings, allowed, slots, blocked, workers, time, left>>

(* Whoever starts it may edit; it plans the times that are missing.        *)
Start ==
  /\ Ask /\ ~ Active
  /\ settings' = [settings EXCEPT !.status = "ACTIVE", !.failures = 0, !.failedPublishes = 0]
  /\ allowed' = TRUE
  /\ slots' = Planned(slots, time)
  /\ UNCHANGED <<posts, blocked, workers, person, time>>

(* clearPlannedSlots and planSlots.  A slot that has posts, or a late      *)
(* worker, would be planned again as another record: that is left out.     *)
Clearable(s) == Existing(s) = {} /\ \A w \in Workers : ~ Writing(w, s)

UpdateSettings ==
  LET cleared == [s \in Slots |-> IF slots[s].status = "PLANNED" /\ time # "past" /\ Clearable(s)
                                  THEN [status |-> "none", attempts |-> 0] ELSE slots[s]]
  IN
  /\ Ask
  /\ settings' = [settings EXCEPT !.approval = ~ @]
  /\ slots' = IF Active /\ allowed THEN Planned(cleared, time) ELSE cleared
  /\ UNCHANGED <<allowed, posts, blocked, workers, person, time>>

RetrySlot ==
  /\ Ask /\ time = "far"
  /\ \E s \in Slots : /\ slots[s].status \in {"FAILED", "SKIPPED"}
                      /\ slots' = [slots EXCEPT ![s] = [status |-> "PLANNED", attempts |-> 0]]
  /\ UNCHANGED <<settings, allowed, posts, blocked, workers, person, time>>

(* approvePost schedules the post, at a new time if its own has passed.    *)
Approve ==
  /\ Ask
  /\ \E p \in Posts :
       /\ posts[p].status = "READY" /\ posts[p].held # "none" /\ posts[p].live # "sending"
       /\ Cardinality(OnDay(p)) < settings.perDay
       /\ posts' = [posts EXCEPT ![p].live = "queued"]
       /\ person' = [NoRequest EXCEPT !.pc = "approved", !.post = p]
  /\ UNCHANGED <<settings, allowed, slots, blocked, workers, time>>

SaveApproval ==
  /\ person.pc = "approved"
  /\ posts' = [posts EXCEPT ![person.post] =
       [@ EXCEPT !.status = "SCHEDULED", !.held = "none", !.approved = TRUE, !.planned = TRUE]]
  /\ person' = NoRequest
  /\ UNCHANGED <<settings, allowed, slots, blocked, workers, time, left>>

Reject ==
  /\ Ask
  /\ \E p \in Posts :
       /\ posts[p].status \in {"READY", "SCHEDULED"} /\ posts[p].live # "sending"
       /\ posts' = [posts EXCEPT ![p] = Cancelled(@)]
       /\ person' = [NoRequest EXCEPT !.pc = "rejected", !.post = p, !.held = posts[p].held # "none"]
  /\ UNCHANGED <<settings, allowed, slots, blocked, workers, time>>

SaveRejection ==
  /\ person.pc = "rejected"
  /\ LET held == posts[person.post].held IN
     posts' = [posts EXCEPT ![person.post] =
       [@ EXCEPT !.status = "DRAFT", !.planned = FALSE, !.held = IF person.held THEN "none" ELSE held]]
  /\ person' = NoRequest
  /\ UNCHANGED <<settings, allowed, slots, blocked, workers, time, left>>

(* The person Autopilot acts for leaves, or the plan no longer has it.     *)
LoseRights ==
  /\ Ask /\ allowed
  /\ allowed' = FALSE
  /\ UNCHANGED <<settings, slots, posts, blocked, workers, person, time>>

-------------------------------------------------------------------------------
(* The publish run, as far as Autopilot sees it.                           *)

Due(p) == posts[p].live = "queued" /\ time = "past"

Send(p) ==
  /\ Due(p) /\ (posts[p].approved \/ Active)
  /\ posts' = [posts EXCEPT ![p] = [@ EXCEPT !.live = "sending", !.status = "PUBLISHING"]]
  /\ UNCHANGED <<settings, allowed, slots, blocked, workers, person, time, left>>

(* onPublished and onPublishFailed.                                        *)
Answer(p) ==
  /\ posts[p].live = "sending"
  /\ \/ /\ posts' = [posts EXCEPT ![p] = [@ EXCEPT !.live = "none", !.status = "PUBLISHED"]]
        /\ settings' = [settings EXCEPT !.failedPublishes = 0]
        /\ UNCHANGED left
     \/ /\ Spend("failures")
        /\ posts' = [posts EXCEPT ![p] = [@ EXCEPT !.live = "none", !.status = "FAILED"]]
        /\ LET counted == [settings EXCEPT !.failedPublishes = @ + 1] IN
           settings' = IF TooMany(counted.failedPublishes) THEN AutoPaused(counted) ELSE counted
  /\ UNCHANGED <<allowed, slots, blocked, workers, person, time>>

(* publishBlockedByPause: the schedule ends, then the post is held.        *)
Block(p) ==
  /\ Due(p) /\ ~ posts[p].approved /\ ~ Active
  /\ posts' = [posts EXCEPT ![p].live = "none"]
  /\ blocked' = [blocked EXCEPT ![p] = posts[p].status]
  /\ UNCHANGED <<settings, allowed, slots, workers, person, time, left>>

\* Mutant: the run ends the schedule and forgets the post.
NotHeld(p) == posts

HeldByPause(p) ==
  [posts EXCEPT ![p] = [@ EXCEPT !.held = "PAUSED",
                                 !.status = IF blocked[p] = "READY" THEN posts[p].status ELSE "READY"]]

HoldBlocked(p) ==
  /\ blocked[p] # "no"
  /\ posts' = HeldByPause(p)
  /\ blocked' = [blocked EXCEPT ![p] = "no"]
  /\ UNCHANGED <<settings, allowed, slots, workers, person, time, left>>

(* A slot is claimed by a sweep that began minimumLeadMinutes before its   *)
(* time, twice what a lock lasts: when the time comes its worker is done,  *)
(* dead or late, and no slot waits for a late one.                         *)
InTime(w) == workers[w].pc \in {"off", "idle"} \/ workers[w].now # "far"

Tick ==
  /\ \/ time = "far" /\ time' = "close" /\ UNCHANGED settings
     \/ /\ time = "close" /\ time' = "past"
        /\ \A w \in Workers : InTime(w) \/ workers[w].late
        /\ person.pc = "none"
        /\ settings' = IF \A w \in Workers : InTime(w) THEN settings
                       ELSE [settings EXCEPT !.overrun = Slots]
  /\ UNCHANGED <<allowed, slots, posts, blocked, workers, person, left>>

-------------------------------------------------------------------------------

WorkerStep(w) ==
  \/ Sweep(w) \/ MarkExpired(w) \/ SkipMissed(w) \/ PlanSlots(w)
  \/ \E s \in Slots : Claim(w, s)
  \/ EndSweep(w) \/ Check(w) \/ Release(w) \/ SkipSlot(w) \/ Recover(w) \/ Write(w) \/ Recheck(w)
  \/ SavePost(w) \/ FinishSlot(w) \/ FailSlot(w) \/ CountFailure(w) \/ AutoPause(w)
  \/ Route(w) \/ Schedule(w) \/ MarkScheduled(w) \/ CancelFailed(w) \/ Hold(w)

RequestStep == FindScheduled \/ Unschedule \/ HoldUnscheduled \/ SaveApproval \/ SaveRejection

Request ==
  Pause \/ Start \/ UpdateSettings \/ RetrySlot \/ Approve \/ Reject \/ LoseRights

PublishStep(p) == Send(p) \/ Answer(p) \/ Block(p) \/ HoldBlocked(p)

AutopilotNext ==
  \/ \E w \in Workers : WorkerStep(w) \/ Overrun(w) \/ Crash(w)
  \/ \E p \in Posts : PublishStep(p)
  \/ Request \/ RequestStep \/ Tick

(* Timers sweep and publish again and again; a request runs to its end;    *)
(* time passes.                                                            *)
AutopilotSpec ==
  /\ AutopilotInit /\ [][AutopilotNext]_autopilotVars
  /\ \A w \in Workers : WF_autopilotVars(WorkerStep(w))
  /\ \A p \in Posts : WF_autopilotVars(PublishStep(p))
  /\ WF_autopilotVars(RequestStep) /\ WF_autopilotVars(Tick)

-------------------------------------------------------------------------------

(* Types; a posting time that counts as written has a post.                *)
AutopilotTypeOK ==
  /\ settings.status \in {"ACTIVE", "PAUSED"} /\ settings.failures \in Nat
  /\ \A s \in Slots : slots[s].status \in {"none", "PLANNED", "GENERATING", "GENERATED", "SKIPPED", "FAILED"}
  /\ \A s \in Slots : slots[s].status = "GENERATED" => Existing(s) # {}

(* At most one live worker works on a posting time, through crashes,       *)
(* releases, failures, retries and settings that clear what is planned,    *)
(* unless its lock timed out under a late one.                             *)
OneWriter ==
  \A s \in Slots \ settings.overrun : \A v, w \in Workers :
    Writing(v, s) /\ Writing(w, s) => v = w

(* A post that waits for a person's decision, and that nobody is at work   *)
(* on, is not also queued to go out, unless a crash or a second failure    *)
(* cut its routing short, or its slot did not wait for its worker.         *)
HeldPostsStay ==
  \A p \in Posts :
    /\ posts[p].status = "READY" /\ posts[p].held # "none" /\ ~ posts[p].approved
    /\ ~ posts[p].cut /\ p[1] \notin settings.overrun /\ person.post # p
    /\ \A w \in Workers : workers[w].post # p \/ workers[w].pc \notin {"mark", "cancel"}
    => posts[p].live = "none"

(* Autopilot does not go on after too many failures in a row: a worker is  *)
(* about to pause it, unless it died then; the next failure pauses it.     *)
FailuresPause ==
  Active /\ settings.failures >= FailuresToPause /\ ~ settings.unpaused
    => \E w \in Workers : workers[w].pc = "pause"

(* Autopilot does nothing a person kept for themselves.                    *)
PeopleDecide == AutopilotTypeOK /\ HeldPostsStay /\ FailuresPause

(* While it stays active, every posting time is decided: written, skipped  *)
(* or given up, though workers crash with a slot locked.  When it stays    *)
(* paused, no post a person has not approved stays scheduled: what the     *)
(* pause overlooked, because a worker was about to schedule it, is put     *)
(* back when it falls due, unless its slot did not wait for its worker.    *)
SlotsSettle ==
  /\ <>[]Active => <>[](\A s \in Slots : slots[s].status \notin {"PLANNED", "GENERATING"})
  /\ <>[](~ Active) =>
       <>[](\A p \in Posts :
              posts[p].planned /\ posts[p].status = "SCHEDULED"
                => posts[p].approved \/ p[1] \in settings.overrun)
===============================================================================
