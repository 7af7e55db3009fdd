---------------------------- MODULE AutopilotSafety ----------------------------
(***************************************************************************)
(* Proofs about Autopilot, for any number of posting times, platforms and  *)
(* workers, any settings, and any number of crashes, delays, failures,     *)
(* outages and requests.                                                   *)
(***************************************************************************)
EXTENDS Autopilot, TLAPS

-------------------------------------------------------------------------------
(* The inductive invariant.                                                *)

Settings ==
  [status : {"ACTIVE", "PAUSED"}, approval : BOOLEAN, platforms : SUBSET Platforms, perWeek : Nat,
   perDay : Nat, failures : Nat, failedPublishes : Nat, unpaused : BOOLEAN, overrun : SUBSET Slots]
SlotStatuses == {"none", "PLANNED", "GENERATING", "GENERATED", "SKIPPED", "FAILED"}
Slot == [status : SlotStatuses, attempts : Nat]
PostStatuses == {"none", "READY", "SCHEDULED", "PUBLISHING", "PUBLISHED", "FAILED", "DRAFT"}
Reasons == {"none", "APPROVAL_REQUIRED", "PAUSED", "NEEDS_MEDIA", "QUALITY_REVIEW", "DAILY_LIMIT",
            "SCHEDULING_FAILED", "EXPIRED", "NOT_ALLOWED"}
Post == [status : PostStatuses, held : Reasons, approved : BOOLEAN, planned : BOOLEAN,
         live : {"none", "queued", "sending"}, cut : BOOLEAN]
Writers == {"check", "release", "skip", "recover", "write", "recheck", "save", "fail"}
Routers == {"route", "schedule", "mark", "cancel", "hold"}
Times == {"far", "close", "past"}
Worker ==
  [pc : Writers \cup Routers \cup {"off", "idle", "tidy", "due", "count", "pause"}, now : Times,
   late : BOOLEAN, active : BOOLEAN, expiring : SUBSET Posts, missed : SUBSET Slots,
   slot : Slots \cup {"none"}, done : BOOLEAN, todo : SUBSET Posts, written : SUBSET Posts, review : SUBSET Posts,
   post : Posts \cup {None}, reason : Reasons]
Person ==
  [pc : {"none", "find", "unschedule", "hold", "approved", "rejected"}, todo : SUBSET Posts,
   post : Posts \cup {None}, held : BOOLEAN]

AutopilotTyped ==
  /\ settings \in Settings
  /\ slots \in [Slots -> Slot]
  /\ posts \in [Posts -> Post]
  /\ blocked \in [Posts -> PostStatuses \cup {"no"}]
  /\ workers \in [Workers -> Worker]
  /\ person \in Person
  /\ time \in Times

(* Whoever has a slot in hand, until its last post is routed.              *)
Handling(w, s) == workers[w].slot = s /\ workers[w].pc \in Writers \cup Routers

(* What follows holds of the slots that waited for their workers.          *)
OneHandler ==
  \A s \in Slots \ settings.overrun : \A v, w \in Workers : Handling(v, s) /\ Handling(w, s) => v = w

(* Its slot is locked, then written, unless a sweep skipped it meanwhile,  *)
(* so late that nobody can ask for it again.                               *)
SlotsHeld ==
  \A w \in Workers : \A s \in Slots \ settings.overrun : Handling(w, s) =>
    \/ slots[s].status = "SKIPPED" /\ time # "far"
    \/ slots[s].status = IF workers[w].pc \in Writers THEN "GENERATING" ELSE "GENERATED"

PostsOf(s) == {p \in Posts : p[1] = s}

(* What a worker may rely on, by its step.                                 *)
Keeps(q) ==
  /\ q.pc \in Writers \cup Routers => q.slot \in Slots
  /\ q.missed # {} => time # "far"
  /\ q.pc \in Routers \cup {"recover", "write", "recheck", "save"} => q.now = "far"
  /\ q.pc \notin Routers \cup {"recover", "save", "fail", "count"} => q.written = {}
  /\ q.pc \in Routers \cup {"recover", "save"} => q.written \subseteq PostsOf(q.slot)
  /\ q.pc \in {"write", "recheck", "save"} => q.todo \subseteq PostsOf(q.slot)
  /\ q.pc = "recheck" => q.todo # {}
  /\ q.pc = "save" => q.todo \cup q.written # {} /\ q.written \subseteq Existing(q.slot)
  /\ q.pc = "recover" => Existing(q.slot) # {}
  /\ q.pc \in {"schedule", "mark", "cancel", "hold"} =>
       q.post \in PostsOf(q.slot) /\ q.post \notin q.written
  /\ q.pc = "hold" => q.reason # "none"
WorkersKeep == \A w \in Workers : Keeps(workers[w])

(* While a worker that found the time far away is at work, the time has    *)
(* not passed, unless no slot waited for it.                               *)
WorkersInTime ==
  time = "past" =>
    \/ \A w \in Workers : workers[w].pc \in {"off", "idle"} \/ workers[w].now # "far"
    \/ Slots \subseteq settings.overrun

WrittenExist == \A s \in Slots : slots[s].status = "GENERATED" => Existing(s) # {}

(* The worker may still schedule the post.                                 *)
ToRoute(w, p) ==
  \/ workers[w].pc \in Routers \cup {"recover", "save"} /\ p \in workers[w].written
  \/ workers[w].pc \in {"schedule", "mark", "cancel"} /\ workers[w].post = p

Settled(p) == \A w \in Workers : ~ ToRoute(w, p)

PostsFit ==
  \A p \in Posts :
    /\ posts[p].live = "sending" => time = "past"
    /\ p[1] \notin settings.overrun =>
         /\ posts[p].status = "READY" => posts[p].held # "none"
         /\ posts[p].status = "SCHEDULED" => posts[p].held # "APPROVAL_REQUIRED"
         /\ posts[p].status = "SCHEDULED" /\ ~ posts[p].approved => Settled(p)

(* The posts a pause found scheduled stay out of the workers' hands.       *)
Taking(p) == p \in person.todo \/ (person.pc = "hold" /\ person.post = p)
PauseFits ==
  \A p \in Posts :
    /\ Taking(p) => posts[p].status # "none"
    /\ p[1] \notin settings.overrun =>
         /\ Taking(p) => posts[p].held # "APPROVAL_REQUIRED" /\ Settled(p)
         /\ person.pc = "hold" /\ person.post = p => posts[p].live = "none"

Approving(p) == posts[p].approved \/ (person.pc = "approved" /\ person.post = p)

Scheduling(p) == \E w \in Workers : workers[w].post = p /\ workers[w].pc \in {"mark", "cancel"}

(* HeldPostsStay, with one exception less: a request at work on the post   *)
(* matters only when it approves it.                                       *)
HeldPostsRest ==
  \A p \in Posts :
    /\ posts[p].status = "READY" /\ ~ posts[p].cut /\ p[1] \notin settings.overrun
    /\ ~ Approving(p) /\ ~ Scheduling(p)
    => posts[p].live = "none"

(* A post a publish run stopped has no schedule, unless a person approves. *)
BlockedRest ==
  \A p \in Posts :
    blocked[p] # "no" =>
      /\ time = "past"
      /\ p[1] \notin settings.overrun => posts[p].live = "none" \/ Approving(p)

AutopilotInv ==
  /\ AutopilotTyped /\ OneHandler /\ SlotsHeld /\ WorkersKeep /\ WorkersInTime
  /\ WrittenExist /\ PostsFit /\ PauseFits /\ HeldPostsRest /\ BlockedRest /\ FailuresPause

-------------------------------------------------------------------------------
(* What a step makes of a worker.                                          *)

Pcs == Writers \cup Routers \cup {"off", "idle", "tidy", "due", "count", "pause"}

LEMMA IdleTyped ==
  /\ Idle \in Worker
  /\ Idle.pc = "idle" /\ Idle.now = "far" /\ Idle.missed = {} /\ Idle.written = {}
PROOF BY DEF Idle, Worker, Times, Reasons

LEMMA NoPostTyped ==
  /\ NoPost \in Post
  /\ NoPost.status = "none" /\ NoPost.held = "none" /\ NoPost.approved = FALSE
  /\ NoPost.live = "none" /\ NoPost.cut = FALSE
PROOF BY DEF NoPost, Post, PostStatuses, Reasons

LEMMA NewPostTyped ==
  /\ NewPost \in Post
  /\ NewPost.status = "READY" /\ NewPost.held = "APPROVAL_REQUIRED" /\ NewPost.approved = FALSE
  /\ NewPost.live = "none" /\ NewPost.cut = FALSE
PROOF BY NoPostTyped DEF NewPost, Post, PostStatuses, Reasons

LEMMA NoRequestTyped ==
  /\ NoRequest \in Person
  /\ NoRequest.pc = "none" /\ NoRequest.todo = {} /\ NoRequest.post = None
PROOF BY DEF NoRequest, Person

(* A worker that only goes to another step.                                *)
LEMMA WithPc ==
  ASSUME NEW q \in Worker, NEW x \in Pcs
  PROVE  /\ [q EXCEPT !.pc = x] \in Worker
         /\ [q EXCEPT !.pc = x].pc = x
         /\ [q EXCEPT !.pc = x].now = q.now /\ [q EXCEPT !.pc = x].missed = q.missed
         /\ [q EXCEPT !.pc = x].slot = q.slot /\ [q EXCEPT !.pc = x].todo = q.todo
         /\ [q EXCEPT !.pc = x].written = q.written /\ [q EXCEPT !.pc = x].post = q.post
         /\ [q EXCEPT !.pc = x].reason = q.reason
PROOF BY DEF Worker, Pcs

LEMMA OnwardTyped ==
  ASSUME NEW w \in Workers, workers \in [Workers -> Worker]
  PROVE  /\ Onward(w) \in Worker
         /\ Onward(w).pc = "due" /\ Onward(w).now = workers[w].now /\ Onward(w).missed = {}
         /\ Onward(w).written = {}
PROOF BY IdleTyped DEF Onward, Worker

(* Only the worker that takes the step moves.                              *)
LEMMA Moves ==
  ASSUME workers \in [Workers -> Worker], NEW w \in Workers, NEW r \in Worker, Go(w, r)
  PROVE  /\ workers' \in [Workers -> Worker]
         /\ workers'[w] = r
         /\ \A u \in Workers : u # w => workers'[u] = workers[u]
PROOF BY DEF Go

LEMMA GoesTo ==
  ASSUME workers \in [Workers -> Worker], NEW w \in Workers, NEW x \in Pcs, GoTo(w, x)
  PROVE  /\ workers' \in [Workers -> Worker]
         /\ \A u \in Workers : u # w => workers'[u] = workers[u]
         /\ workers'[w].pc = x
         /\ workers'[w].now = workers[w].now /\ workers'[w].missed = workers[w].missed
         /\ workers'[w].slot = workers[w].slot /\ workers'[w].todo = workers[w].todo
         /\ workers'[w].written = workers[w].written /\ workers'[w].post = workers[w].post
         /\ workers'[w].reason = workers[w].reason
PROOF
<1> DEFINE r == [workers[w] EXCEPT !.pc = x]
<1>1. workers[w] \in Worker
      OBVIOUS
<1>2. r \in Worker
      BY <1>1, WithPc
<1>3. Go(w, r)
      BY DEF GoTo
<1> HIDE DEF r
<1>4. /\ workers' \in [Workers -> Worker] /\ workers'[w] = r
      /\ \A u \in Workers : u # w => workers'[u] = workers[u]
      BY <1>2, <1>3, Moves
<1> QED
    BY <1>1, <1>4, WithPc DEF r

-------------------------------------------------------------------------------
(* What a step must leave alone, part by part of the invariant.            *)

Others(w) == \A u \in Workers : u # w => workers'[u] = workers[u]
NobodyElse(w, s) == \A u \in Workers : u # w => ~ Handling(u, s)
PostsStay == \A p \in Posts : posts[p].status # "none" => posts'[p].status # "none"
OverrunStays == settings.overrun \subseteq settings'.overrun

(* A slot that is neither locked nor written is in nobody's hand.          *)
LEMMA Unheld ==
  ASSUME SlotsHeld, NEW s \in Slots \ settings.overrun, NEW w \in Workers,
         slots[s].status \in {"none", "PLANNED", "FAILED"}
  PROVE  ~ Handling(w, s)
PROOF BY DEF SlotsHeld

LEMMA HandlersKept ==
  ASSUME OneHandler, SlotsHeld, NEW w \in Workers, Others(w), time' = time, OverrunStays,
         \A s \in Slots \ settings'.overrun :
           \/ slots'[s].status = slots[s].status
           \/ slots'[s].status = "SKIPPED" /\ time # "far"
           \/ NobodyElse(w, s),
         \A s \in Slots \ settings'.overrun : Handling(w, s)' =>
           /\ NobodyElse(w, s)
           /\ \/ slots'[s].status = "SKIPPED" /\ time # "far"
              \/ slots'[s].status = IF workers'[w].pc \in Writers THEN "GENERATING" ELSE "GENERATED"
  PROVE  OneHandler' /\ SlotsHeld'
PROOF
<1>1. \A u \in Workers, s \in Slots : u # w => (Handling(u, s)' <=> Handling(u, s))
      BY DEF Others, Handling
<1>2. OneHandler'
      BY <1>1 DEF OneHandler, NobodyElse, OverrunStays
<1>3. SlotsHeld'
  <2> SUFFICES ASSUME NEW u \in Workers, NEW s \in Slots \ settings'.overrun, Handling(u, s)'
               PROVE  \/ slots'[s].status = "SKIPPED" /\ time' # "far"
                      \/ slots'[s].status = IF workers'[u].pc \in Writers THEN "GENERATING" ELSE "GENERATED"
      BY DEF SlotsHeld
  <2>1. CASE u = w
        BY <2>1
  <2>2. CASE u # w
    <3>1. Handling(u, s) /\ workers'[u] = workers[u]
          BY <1>1, <2>2 DEF Others
    <3>2. ~ NobodyElse(w, s)
          BY <2>2, <3>1 DEF NobodyElse
    <3> QED
        BY <3>1, <3>2 DEF SlotsHeld, OverrunStays
  <2> QED
      BY <2>1, <2>2
<1> QED
    BY <1>2, <1>3

(* While a worker moves on with the slot it has, or lets go of it.         *)
LEMMA HandOver ==
  ASSUME OneHandler, SlotsHeld, NEW w \in Workers, Others(w), time' = time, OverrunStays,
         \A s \in Slots : Handling(w, s)' => Handling(w, s),
         workers[w].slot \in Slots, workers[w].pc \in Writers \cup Routers,
         \A s \in Slots : s # workers[w].slot => slots'[s] = slots[s],
         workers'[w].pc \in Routers =>
           slots'[workers[w].slot].status =
             (IF workers[w].pc \in Routers THEN slots[workers[w].slot].status ELSE "GENERATED"),
         workers'[w].pc \in Writers =>
           slots'[workers[w].slot].status = slots[workers[w].slot].status /\ workers[w].pc \in Writers
  PROVE  OneHandler' /\ SlotsHeld'
PROOF
<1>0. settings.overrun \subseteq settings'.overrun
      BY DEF OverrunStays
<1>1. \A s \in Slots \ settings'.overrun : Handling(w, s) => NobodyElse(w, s)
      BY <1>0 DEF OneHandler, NobodyElse
<1>2. \A s \in Slots \ settings'.overrun : slots'[s].status = slots[s].status \/ NobodyElse(w, s)
      BY <1>1 DEF Handling
<1>3. ASSUME NEW s \in Slots \ settings'.overrun, Handling(w, s)'
      PROVE  /\ NobodyElse(w, s)
             /\ \/ slots'[s].status = "SKIPPED" /\ time # "far"
                \/ slots'[s].status = IF workers'[w].pc \in Writers THEN "GENERATING" ELSE "GENERATED"
  <2>1. Handling(w, s) /\ s = workers[w].slot
        BY <1>3 DEF Handling
  <2>2. workers'[w].pc \in Writers \cup Routers
        BY <1>3 DEF Handling
  <2>3. \/ slots[s].status = "SKIPPED" /\ time # "far"
        \/ slots[s].status = IF workers[w].pc \in Writers THEN "GENERATING" ELSE "GENERATED"
        BY <1>0, <2>1 DEF SlotsHeld
  <2>4. Writers \cap Routers = {}
        BY DEF Writers, Routers
  <2>5. NobodyElse(w, s)
        BY <1>1, <2>1
  <2>6. CASE workers'[w].pc \in Writers
        BY <2>1, <2>3, <2>5, <2>6
  <2>7. CASE workers'[w].pc \in Routers
        BY <2>1, <2>3, <2>4, <2>5, <2>7
  <2> QED
      BY <2>2, <2>6, <2>7
<1> QED
    BY <1>2, <1>3, HandlersKept DEF OverrunStays

LEMMA SlotsUnheld ==
  ASSUME OneHandler, SlotsHeld, workers' = workers, time' = time, OverrunStays,
         \A s \in Slots : \/ slots'[s].status = slots[s].status
                          \/ slots[s].status \in {"none", "PLANNED", "FAILED"}
                          \/ slots[s].status = "SKIPPED" /\ time = "far"
  PROVE  OneHandler' /\ SlotsHeld'
PROOF
<1>1. OneHandler'
      BY DEF OneHandler, Handling, OverrunStays
<1>2. SlotsHeld'
      BY DEF SlotsHeld, Handling, OverrunStays
<1> QED
    BY <1>1, <1>2

LEMMA WorkersKept ==
  ASSUME WorkersKeep, time # "far" => time' # "far", PostsStay,
         \A u \in Workers : workers'[u] = workers[u] \/ Keeps(workers[u])'
  PROVE  WorkersKeep'
PROOF
<1> SUFFICES ASSUME NEW u \in Workers, workers'[u] = workers[u]
             PROVE  Keeps(workers[u])'
    BY DEF WorkersKeep
<1>1. \A s : Existing(s) \subseteq Existing(s)'
      BY DEF Existing, PostsStay
<1>2. Keeps(workers[u])
      BY DEF WorkersKeep
<1>3. Existing(workers[u].slot) \subseteq Existing(workers[u].slot)'
      BY <1>1 DEF Existing
<1> QED
    BY <1>2, <1>3 DEF Keeps

LEMMA WorkersStayInTime ==
  ASSUME WorkersInTime, time' = time, OverrunStays,
         \A u \in Workers : \/ workers'[u] = workers[u]
                            \/ workers'[u].pc = "idle"
                            \/ workers'[u].now = time
                            \/ workers'[u].now = workers[u].now /\ workers[u].pc \notin {"off", "idle"}
  PROVE  WorkersInTime'
PROOF BY DEF WorkersInTime, OverrunStays

LEMMA WrittenStay ==
  ASSUME WrittenExist, PostsStay,
         \A s \in Slots : slots'[s].status = "GENERATED" =>
           slots[s].status = "GENERATED" \/ Existing(s) # {}
  PROVE  WrittenExist'
PROOF BY DEF WrittenExist, Existing, PostsStay

LEMMA FailuresStillPause ==
  ASSUME FailuresPause, settings'.status = settings.status, settings'.failures = settings.failures,
         settings'.unpaused = settings.unpaused,
         \A u \in Workers : workers[u].pc = "pause" => workers'[u].pc = "pause"
  PROVE  FailuresPause'
PROOF BY DEF FailuresPause, Active

(* A step that changes no post.                                            *)
PostsInv == PostsFit /\ PauseFits /\ HeldPostsRest /\ BlockedRest

LEMMA PostsKept ==
  ASSUME PostsInv, UNCHANGED <<posts, blocked, person, time>>, OverrunStays,
         \A u \in Workers : workers[u].pc \in {"mark", "cancel"} => workers'[u] = workers[u],
         \A u \in Workers, p \in Posts :
           ToRoute(u, p)' => ToRoute(u, p) \/ posts[p].held = "APPROVAL_REQUIRED"
  PROVE  PostsInv'
PROOF
<1>1. \A p \in Posts : posts[p].held # "APPROVAL_REQUIRED" /\ Settled(p) => Settled(p)'
      BY DEF Settled
<1>2. \A p \in Posts : Scheduling(p) => Scheduling(p)'
      BY DEF Scheduling
<1>3. \A p \in Posts : (Taking(p)' <=> Taking(p)) /\ (Approving(p)' <=> Approving(p))
      BY DEF Taking, Approving
<1>4. PostsFit'
      BY <1>1 DEF PostsFit, PostsInv, OverrunStays
<1>5. PauseFits'
      BY <1>1, <1>3 DEF PauseFits, PostsInv, OverrunStays
<1>6. HeldPostsRest'
      BY <1>2, <1>3 DEF HeldPostsRest, PostsInv, OverrunStays
<1>7. BlockedRest'
      BY <1>3 DEF BlockedRest, PostsInv, OverrunStays
<1> QED
    BY <1>4, <1>5, <1>6, <1>7 DEF PostsInv

-------------------------------------------------------------------------------
(* The steps by which a worker sweeps, or lets go of a slot.               *)

LEMMA LetsGo ==
  ASSUME AutopilotInv, NEW w \in Workers, Others(w), UNCHANGED <<posts, blocked, person, time>>,
         OverrunStays,
         workers[w].pc \notin {"mark", "cancel"},
         workers'[w].pc \in {"idle", "tidy", "due", "count", "pause"},
         workers'[w].missed # {} => time # "far",
         workers'[w].pc = "count" \/ workers'[w].written = {},
         \/ workers'[w].pc = "idle"
         \/ workers'[w].now = time
         \/ workers'[w].now = workers[w].now /\ workers[w].pc \notin {"off", "idle"}
  PROVE  WorkersKeep' /\ WorkersInTime' /\ PostsInv'
PROOF
<1>1. PostsStay
      BY DEF PostsStay
<1>2. Keeps(workers[w])'
      BY DEF Keeps, Writers, Routers
<1>3. WorkersKeep'
      BY <1>1, <1>2, WorkersKept DEF AutopilotInv, Others
<1>4. WorkersInTime'
      BY WorkersStayInTime DEF AutopilotInv, Others, OverrunStays
<1>5. ASSUME NEW u \in Workers, NEW p \in Posts, ToRoute(u, p)'
      PROVE  ToRoute(u, p)
      BY <1>5 DEF ToRoute, Others, Routers
<1>6. PostsInv'
      BY <1>5, PostsKept DEF AutopilotInv, PostsInv, Others, OverrunStays
<1> QED
    BY <1>3, <1>4, <1>6

LEMMA NotHandling ==
  ASSUME NEW w \in Workers, workers'[w].pc \in {"idle", "tidy", "due", "count", "pause"}
  PROVE  \A s \in Slots : ~ Handling(w, s)'
PROOF BY DEF Handling, Writers, Routers

LEMMA SweepKeeps ==
  ASSUME AutopilotInv, NEW w \in Workers, Sweep(w)
  PROVE  AutopilotInv'
PROOF
<1> DEFINE found == IF Active THEN Requeued ELSE slots
<1> DEFINE taken == {s \in Slots : Active /\ Stale(s) /\ \E v \in Workers : Writing(v, s)}
<1> DEFINE r == [Idle EXCEPT
       !.pc = "tidy", !.now = time, !.active = Active,
       !.expiring = {p \in Posts : /\ time = "past" /\ posts[p].status = "READY" /\ posts[p].planned
                                   /\ posts[p].held \notin {"none", "EXPIRED"}},
       !.missed = {s \in Slots : Active /\ time # "far" /\ found[s].status = "PLANNED"}]
<1>1. /\ workers[w].pc = "idle" /\ slots' = found /\ Go(w, r)
      /\ UNCHANGED <<allowed, posts, blocked, person, time, left>>
      /\ settings' = [settings EXCEPT !.overrun = @ \cup taken]
      BY DEF Sweep
<1>2. /\ settings' \in Settings /\ settings'.overrun = settings.overrun \cup taken
      /\ settings'.status = settings.status /\ settings'.failures = settings.failures
      /\ settings'.unpaused = settings.unpaused
  <2>1. settings \in Settings /\ taken \subseteq Slots
        BY DEF AutopilotInv, AutopilotTyped
  <2> HIDE DEF taken, found, r
  <2> QED
      BY <1>1, <2>1 DEF Settings
<1>3. /\ r \in Worker /\ r.pc = "tidy" /\ r.now = time /\ r.written = {}
      /\ r.missed # {} => time # "far"
  <2> HIDE DEF found
  <2> QED
      BY IdleTyped DEF AutopilotInv, AutopilotTyped, Worker, Active
<1>4. /\ slots' \in [Slots -> Slot]
      /\ \A s \in Slots : \/ slots'[s] = slots[s]
                          \/ slots'[s].status = "PLANNED" /\ Active /\ Stale(s)
      BY <1>1 DEF Requeued, AutopilotInv, AutopilotTyped, Slot, SlotStatuses
<1> HIDE DEF r, found
<1>5. /\ workers' \in [Workers -> Worker] /\ workers'[w] = r /\ Others(w)
      BY <1>1, <1>3, Moves DEF AutopilotInv, AutopilotTyped, Others
<1>6. AutopilotTyped'
      BY <1>1, <1>2, <1>4, <1>5 DEF AutopilotInv, AutopilotTyped
<1>7. WorkersKeep' /\ WorkersInTime' /\ PostsInv'
      BY <1>1, <1>2, <1>3, <1>5, LetsGo DEF OverrunStays
<1>8. \A s \in Slots \ settings'.overrun : Active /\ Stale(s) => NobodyElse(w, s)
  <2> SUFFICES ASSUME NEW s \in Slots \ settings'.overrun, Active, Stale(s), NEW u \in Workers, Handling(u, s)
               PROVE  FALSE
      BY DEF NobodyElse
  <2>1. slots[s].status = "GENERATING" /\ ~ Writing(u, s) /\ s \notin settings.overrun
        BY <1>2 DEF Stale
  <2> QED
      BY <2>1 DEF Handling, Writing, Writers, Routers, SlotsHeld, AutopilotInv
<1>9. OneHandler' /\ SlotsHeld'
      BY <1>1, <1>2, <1>3, <1>4, <1>5, <1>8, NotHandling, HandlersKept DEF AutopilotInv, OverrunStays
<1>10. WrittenExist'
      BY <1>1, <1>4, WrittenStay DEF AutopilotInv, PostsStay
<1>11. FailuresPause'
      BY <1>1, <1>2, <1>3, <1>5, FailuresStillPause DEF AutopilotInv, Others
<1> QED
    BY <1>6, <1>7, <1>9, <1>10, <1>11 DEF AutopilotInv, PostsInv

LEMMA SkipMissedKeeps ==
  ASSUME AutopilotInv, NEW w \in Workers, SkipMissed(w)
  PROVE  AutopilotInv'
PROOF
<1>1. /\ workers[w].pc = "tidy" /\ UNCHANGED <<settings, allowed, posts, blocked, person, time, left>>
      BY DEF SkipMissed
<1>2. PICK s \in workers[w].missed :
        IF slots[s].status = "none" THEN Go(w, Idle) /\ UNCHANGED slots
        ELSE /\ slots' = [slots EXCEPT ![s].status = "SKIPPED"]
             /\ Go(w, [workers[w] EXCEPT !.missed = @ \ {s}])
      BY DEF SkipMissed
<1>3. workers[w] \in Worker /\ s \in Slots /\ Keeps(workers[w])
      BY DEF AutopilotInv, AutopilotTyped, WorkersKeep, Worker
<1>4. time # "far" /\ workers[w].written = {}
      BY <1>1, <1>3 DEF Keeps, Routers
<1>5. PICK r \in Worker :
        /\ Go(w, r) /\ r.pc \in {"idle", "tidy"} /\ r.written = {}
        /\ r.pc = "idle" \/ r.now = workers[w].now
  <2>1. CASE slots[s].status = "none"
        BY <1>2, <2>1, IdleTyped
  <2>2. CASE slots[s].status # "none"
    <3> DEFINE r == [workers[w] EXCEPT !.missed = @ \ {s}]
    <3>1. r \in Worker /\ r.pc = "tidy" /\ r.written = {} /\ r.now = workers[w].now
          BY <1>1, <1>3, <1>4 DEF Worker
    <3> QED
        BY <1>2, <2>2, <3>1
  <2> QED
      BY <2>1, <2>2
<1>6. /\ workers' \in [Workers -> Worker] /\ workers'[w] = r /\ Others(w)
      BY <1>5, Moves DEF AutopilotInv, AutopilotTyped, Others
<1>7. /\ slots' \in [Slots -> Slot]
      /\ \A t \in Slots : slots'[t] = slots[t] \/ slots'[t].status = "SKIPPED"
      BY <1>2, <1>3 DEF AutopilotInv, AutopilotTyped, Slot, SlotStatuses
<1>8. AutopilotTyped'
      BY <1>1, <1>6, <1>7 DEF AutopilotInv, AutopilotTyped
<1>9. WorkersKeep' /\ WorkersInTime' /\ PostsInv'
      BY <1>1, <1>4, <1>5, <1>6, LetsGo DEF OverrunStays
<1>10. OneHandler' /\ SlotsHeld'
      BY <1>1, <1>4, <1>5, <1>6, <1>7, NotHandling, HandlersKept DEF AutopilotInv, OverrunStays
<1>11. WrittenExist'
      BY <1>1, <1>7, WrittenStay DEF AutopilotInv, PostsStay
<1>12. FailuresPause'
      BY <1>1, <1>6, FailuresStillPause DEF AutopilotInv, Others
<1> QED
    BY <1>8, <1>9, <1>10, <1>11, <1>12 DEF AutopilotInv, PostsInv

(* Slots that are cleared are planned again.                               *)
LEMMA PlansSlots ==
  ASSUME NEW from \in [Slots -> Slot], NEW now
  PROVE  /\ Planned(from, now) \in [Slots -> Slot]
         /\ \A s \in Slots : \/ Planned(from, now)[s] = from[s]
                             \/ from[s].status = "none" /\ Planned(from, now)[s].status = "PLANNED"
PROOF BY DEF Planned, Slot, SlotStatuses

LEMMA PlanSlotsKeeps ==
  ASSUME AutopilotInv, NEW w \in Workers, PlanSlots(w)
  PROVE  AutopilotInv'
PROOF
<1>1. /\ workers[w].pc = "tidy" /\ workers[w].missed = {}
      /\ UNCHANGED <<settings, allowed, posts, blocked, person, time, left>>
      BY DEF PlanSlots
<1>2. workers[w] \in Worker /\ Keeps(workers[w]) /\ slots \in [Slots -> Slot]
      BY DEF AutopilotInv, AutopilotTyped, WorkersKeep, Worker
<1>3. /\ slots' \in [Slots -> Slot]
      /\ \A s \in Slots : slots'[s] = slots[s] \/ (slots[s].status = "none" /\ slots'[s].status = "PLANNED")
      BY <1>2, PlansSlots DEF PlanSlots
<1>4. PICK r \in Worker :
        /\ Go(w, r) /\ r.pc \in {"idle", "due"} /\ r.written = {} /\ r.missed = {}
        /\ r.pc = "idle" \/ r.now = workers[w].now
  <2>1. CASE workers[w].active
    <3> DEFINE r == [workers[w] EXCEPT !.pc = "due"]
    <3>1. /\ r \in Worker /\ r.pc = "due" /\ r.now = workers[w].now
          /\ r.written = workers[w].written /\ r.missed = workers[w].missed
          BY <1>2, WithPc DEF Pcs
    <3>2. workers[w].written = {}
          BY <1>1, <1>2 DEF Keeps, Routers
    <3>3. Go(w, r)
          BY <1>1, <2>1 DEF PlanSlots
    <3> HIDE DEF r
    <3> QED
        BY <1>1, <3>1, <3>2, <3>3
  <2>2. CASE ~ workers[w].active
        BY <2>2, IdleTyped DEF PlanSlots
  <2> QED
      BY <2>1, <2>2
<1>5. /\ workers' \in [Workers -> Worker] /\ workers'[w] = r /\ Others(w)
      BY <1>4, Moves DEF AutopilotInv, AutopilotTyped, Others
<1>6. AutopilotTyped'
      BY <1>1, <1>3, <1>5 DEF AutopilotInv, AutopilotTyped
<1>7. WorkersKeep' /\ WorkersInTime' /\ PostsInv'
      BY <1>1, <1>4, <1>5, LetsGo DEF OverrunStays
<1>8. \A s \in Slots \ settings.overrun : slots[s].status = "none" => NobodyElse(w, s)
      BY Unheld DEF AutopilotInv, NobodyElse
<1>9. OneHandler' /\ SlotsHeld'
      BY <1>1, <1>3, <1>4, <1>5, <1>8, NotHandling, HandlersKept DEF AutopilotInv, OverrunStays
<1>10. WrittenExist'
      BY <1>1, <1>3, WrittenStay DEF AutopilotInv, PostsStay
<1>11. FailuresPause'
      BY <1>1, <1>5, FailuresStillPause DEF AutopilotInv, Others
<1> QED
    BY <1>6, <1>7, <1>9, <1>10, <1>11 DEF AutopilotInv, PostsInv

LEMMA EndSweepKeeps ==
  ASSUME AutopilotInv, NEW w \in Workers, EndSweep(w)
  PROVE  AutopilotInv'
PROOF
<1>1. /\ workers[w].pc = "due" /\ Go(w, Idle)
      /\ UNCHANGED <<settings, allowed, slots, posts, blocked, person, time, left>>
      BY DEF EndSweep
<1>2. /\ workers' \in [Workers -> Worker] /\ workers'[w] = Idle /\ Others(w)
      BY <1>1, IdleTyped, Moves DEF AutopilotInv, AutopilotTyped, Others
<1>3. AutopilotTyped'
      BY <1>1, <1>2 DEF AutopilotInv, AutopilotTyped
<1>4. WorkersKeep' /\ WorkersInTime' /\ PostsInv'
      BY <1>1, <1>2, IdleTyped, LetsGo DEF OverrunStays
<1>5. OneHandler' /\ SlotsHeld'
      BY <1>1, <1>2, IdleTyped, NotHandling, HandlersKept DEF AutopilotInv, OverrunStays
<1>6. WrittenExist'
      BY <1>1, WrittenStay DEF AutopilotInv, PostsStay
<1>7. FailuresPause'
      BY <1>1, <1>2, FailuresStillPause DEF AutopilotInv, Others
<1> QED
    BY <1>3, <1>4, <1>5, <1>6, <1>7 DEF AutopilotInv, PostsInv

(* A worker that stays at work on what it has.                             *)
LEMMA MovesOn ==
  ASSUME AutopilotInv, NEW w \in Workers, Others(w), UNCHANGED <<posts, blocked, person, time>>,
         OverrunStays,
         workers[w].pc \notin {"off", "idle", "mark", "cancel"}, Keeps(workers[w])',
         workers'[w].now = workers[w].now,
         \A p \in Posts : ToRoute(w, p)' => ToRoute(w, p) \/ posts[p].held = "APPROVAL_REQUIRED"
  PROVE  WorkersKeep' /\ WorkersInTime' /\ PostsInv'
PROOF
<1>1. PostsStay
      BY DEF PostsStay
<1>2. WorkersKeep'
      BY <1>1, WorkersKept DEF AutopilotInv, Others
<1>3. WorkersInTime'
      BY WorkersStayInTime DEF AutopilotInv, Others, OverrunStays
<1>4. ASSUME NEW u \in Workers, NEW p \in Posts, ToRoute(u, p)'
      PROVE  ToRoute(u, p) \/ posts[p].held = "APPROVAL_REQUIRED"
      BY <1>4 DEF ToRoute, Others, Routers
<1>5. PostsInv'
      BY <1>4, PostsKept DEF AutopilotInv, PostsInv, Others, OverrunStays
<1> QED
    BY <1>2, <1>3, <1>5

(* What the invariant says of the worker that takes a step.                *)
LEMMA AtWork ==
  ASSUME AutopilotInv, NEW w \in Workers
  PROVE  /\ workers[w] \in Worker /\ Keeps(workers[w])
         /\ workers \in [Workers -> Worker] /\ slots \in [Slots -> Slot] /\ posts \in [Posts -> Post]
         /\ settings \in Settings
PROOF BY DEF AutopilotInv, AutopilotTyped, WorkersKeep

LEMMA ReleaseKeeps ==
  ASSUME AutopilotInv, NEW w \in Workers, Release(w)
  PROVE  AutopilotInv'
PROOF
<1> DEFINE s == workers[w].slot
<1>1. /\ workers[w].pc = "release" /\ UNCHANGED <<settings, allowed, posts, blocked, person, time, left>>
      /\ slots' = [slots EXCEPT ![s] =
           [status |-> "PLANNED", attempts |-> IF @.attempts = 0 THEN 0 ELSE @.attempts - 1]]
      BY DEF Release
<1>2. workers[w] \in Worker /\ s \in Slots /\ slots \in [Slots -> Slot] /\ workers \in [Workers -> Worker]
      BY <1>1, AtWork DEF Keeps, Writers
<1>3. PICK r \in Worker :
        /\ Go(w, r) /\ r.pc \in {"idle", "pause"} /\ r.written = {} /\ r.missed = {}
        /\ r.pc = "idle" \/ r.now = workers[w].now
  <2>1. CASE workers[w].reason = "NOT_ALLOWED"
    <3> DEFINE r == [Idle EXCEPT !.pc = "pause", !.now = workers[w].now, !.late = workers[w].late]
    <3>1. r \in Worker /\ r.pc = "pause" /\ r.written = {} /\ r.missed = {} /\ r.now = workers[w].now
          BY <1>2, IdleTyped DEF Worker
    <3> QED
        BY <2>1, <3>1 DEF Release
  <2>2. CASE workers[w].reason # "NOT_ALLOWED"
        BY <2>2, IdleTyped DEF Release
  <2> QED
      BY <2>1, <2>2
<1>4. /\ workers' \in [Workers -> Worker] /\ workers'[w] = r /\ Others(w)
      BY <1>2, <1>3, Moves DEF Others
<1>5. /\ slots' \in [Slots -> Slot]
      /\ \A t \in Slots : slots'[t] = slots[t] \/ (t = s /\ slots'[t].status = "PLANNED")
      BY <1>1, <1>2 DEF Slot, SlotStatuses
<1>6. AutopilotTyped'
      BY <1>1, <1>4, <1>5 DEF AutopilotInv, AutopilotTyped
<1>7. WorkersKeep' /\ WorkersInTime' /\ PostsInv'
      BY <1>1, <1>3, <1>4, LetsGo DEF OverrunStays
<1>8. NobodyElse(w, s) \/ s \in settings.overrun
      BY <1>1, <1>2 DEF AutopilotInv, OneHandler, NobodyElse, Handling, Writers
<1>9. OneHandler' /\ SlotsHeld'
      BY <1>1, <1>3, <1>4, <1>5, <1>8, NotHandling, HandlersKept DEF AutopilotInv, OverrunStays
<1>10. WrittenExist'
      BY <1>1, <1>5, WrittenStay DEF AutopilotInv, PostsStay
<1>11. FailuresPause'
      BY <1>1, <1>4, FailuresStillPause DEF AutopilotInv, Others
<1> QED
    BY <1>6, <1>7, <1>9, <1>10, <1>11 DEF AutopilotInv, PostsInv

LEMMA SkipSlotKeeps ==
  ASSUME AutopilotInv, NEW w \in Workers, SkipSlot(w)
  PROVE  AutopilotInv'
PROOF
<1> DEFINE s == workers[w].slot
<1>1. /\ workers[w].pc = "skip" /\ UNCHANGED <<settings, allowed, posts, blocked, person, time, left>>
      /\ slots' = [slots EXCEPT ![s].status = "SKIPPED"] /\ Go(w, Onward(w))
      BY DEF SkipSlot
<1>2. workers[w] \in Worker /\ s \in Slots /\ slots \in [Slots -> Slot] /\ workers \in [Workers -> Worker]
      BY <1>1, AtWork DEF Keeps, Writers
<1>3. /\ Onward(w) \in Worker /\ Onward(w).pc = "due" /\ Onward(w).now = workers[w].now
      /\ Onward(w).missed = {} /\ Onward(w).written = {}
      BY <1>2, OnwardTyped
<1>4. /\ workers' \in [Workers -> Worker] /\ workers'[w] = Onward(w) /\ Others(w)
      BY <1>1, <1>2, <1>3, Moves DEF Others
<1>5. /\ slots' \in [Slots -> Slot]
      /\ \A t \in Slots : slots'[t] = slots[t] \/ (t = s /\ slots'[t].status = "SKIPPED")
      BY <1>1, <1>2 DEF Slot, SlotStatuses
<1>6. AutopilotTyped'
      BY <1>1, <1>4, <1>5 DEF AutopilotInv, AutopilotTyped
<1>7. WorkersKeep' /\ WorkersInTime' /\ PostsInv'
      BY <1>1, <1>3, <1>4, LetsGo DEF OverrunStays
<1>8. NobodyElse(w, s) \/ s \in settings.overrun
      BY <1>1, <1>2 DEF AutopilotInv, OneHandler, NobodyElse, Handling, Writers
<1>9. OneHandler' /\ SlotsHeld'
      BY <1>1, <1>3, <1>4, <1>5, <1>8, NotHandling, HandlersKept DEF AutopilotInv, OverrunStays
<1>10. WrittenExist'
      BY <1>1, <1>5, WrittenStay DEF AutopilotInv, PostsStay
<1>11. FailuresPause'
      BY <1>1, <1>4, FailuresStillPause DEF AutopilotInv, Others
<1> QED
    BY <1>6, <1>7, <1>9, <1>10, <1>11 DEF AutopilotInv, PostsInv

LEMMA FailSlotKeeps ==
  ASSUME AutopilotInv, NEW w \in Workers, FailSlot(w)
  PROVE  AutopilotInv'
PROOF
<1> DEFINE s == workers[w].slot
<1>1. /\ workers[w].pc = "fail" /\ UNCHANGED <<settings, allowed, posts, blocked, person, time, left>>
      /\ GoTo(w, "count")
      BY DEF FailSlot
<1>2. PICK x \in {"FAILED", "PLANNED"} : slots' = [slots EXCEPT ![s].status = x]
      BY DEF FailSlot
<1>3. /\ workers[w] \in Worker /\ s \in Slots /\ slots \in [Slots -> Slot]
      /\ workers \in [Workers -> Worker] /\ Keeps(workers[w])
      BY <1>1, AtWork DEF Keeps, Writers
<1>4. /\ workers' \in [Workers -> Worker] /\ Others(w) /\ workers'[w].pc = "count"
      /\ workers'[w].now = workers[w].now /\ workers'[w].missed = workers[w].missed
      BY <1>1, <1>3, GoesTo DEF Others, Pcs
<1>5. /\ slots' \in [Slots -> Slot]
      /\ \A t \in Slots : slots'[t] = slots[t] \/ (t = s /\ slots'[t].status = x)
      BY <1>2, <1>3 DEF Slot, SlotStatuses
<1>6. AutopilotTyped'
      BY <1>1, <1>4, <1>5 DEF AutopilotInv, AutopilotTyped
<1>7. WorkersKeep' /\ WorkersInTime' /\ PostsInv'
      BY <1>1, <1>3, <1>4, LetsGo DEF Keeps, OverrunStays
<1>8. NobodyElse(w, s) \/ s \in settings.overrun
      BY <1>1, <1>3 DEF AutopilotInv, OneHandler, NobodyElse, Handling, Writers
<1>9. OneHandler' /\ SlotsHeld'
      BY <1>1, <1>4, <1>5, <1>8, NotHandling, HandlersKept DEF AutopilotInv, OverrunStays
<1>10. WrittenExist'
      BY <1>1, <1>5, WrittenStay DEF AutopilotInv, PostsStay
<1>11. FailuresPause'
      BY <1>1, <1>4, FailuresStillPause DEF AutopilotInv, Others
<1> QED
    BY <1>6, <1>7, <1>9, <1>10, <1>11 DEF AutopilotInv, PostsInv

LEMMA CountFailureKeeps ==
  ASSUME AutopilotInv, NEW w \in Workers, CountFailure(w)
  PROVE  AutopilotInv'
PROOF
<1> DEFINE failures == settings.failures + 1
<1>1. /\ workers[w].pc = "count" /\ UNCHANGED <<allowed, slots, posts, blocked, person, time, left>>
      /\ settings' = [settings EXCEPT !.failures = failures, !.unpaused = FALSE]
      BY DEF CountFailure
<1>2. /\ workers[w] \in Worker /\ workers \in [Workers -> Worker] /\ settings \in Settings
      BY AtWork
<1>3. /\ Onward(w) \in Worker /\ Onward(w).pc = "due" /\ Onward(w).now = workers[w].now
      /\ Onward(w).missed = {} /\ Onward(w).written = {}
      BY <1>2, OnwardTyped
<1>4. PICK r \in Worker :
        /\ Go(w, r) /\ r.pc = IF TooMany(failures) THEN "pause" ELSE "due"
        /\ r.written = {} /\ r.missed = {} /\ r.now = workers[w].now
  <2> DEFINE r == [Onward(w) EXCEPT !.pc = "pause"]
  <2>1. r \in Worker /\ r.pc = "pause" /\ r.written = {} /\ r.missed = {} /\ r.now = workers[w].now
        BY <1>3, WithPc DEF Pcs
  <2>2. Go(w, IF TooMany(failures) THEN r ELSE Onward(w))
        BY DEF CountFailure
  <2> HIDE DEF r, failures
  <2> QED
      BY <1>3, <2>1, <2>2
<1>5. /\ workers' \in [Workers -> Worker] /\ workers'[w] = r /\ Others(w)
      BY <1>2, <1>4, Moves DEF Others
<1>6. settings' \in Settings /\ settings'.failures = failures /\ settings'.overrun = settings.overrun
  <2>1. failures \in Nat
        BY <1>2 DEF Settings
  <2> HIDE DEF failures
  <2> QED
      BY <1>1, <1>2, <2>1 DEF Settings
<1>7. AutopilotTyped'
      BY <1>1, <1>5, <1>6 DEF AutopilotInv, AutopilotTyped
<1>8. WorkersKeep' /\ WorkersInTime' /\ PostsInv'
      BY <1>1, <1>4, <1>5, <1>6, LetsGo DEF OverrunStays
<1>9. OneHandler' /\ SlotsHeld'
      BY <1>1, <1>4, <1>5, <1>6, NotHandling, HandlersKept DEF AutopilotInv, OverrunStays
<1>10. WrittenExist'
      BY <1>1, WrittenStay DEF AutopilotInv, PostsStay
<1>11. FailuresPause'
      BY <1>4, <1>5, <1>6 DEF FailuresPause, TooMany
<1> QED
    BY <1>7, <1>8, <1>9, <1>10, <1>11 DEF AutopilotInv, PostsInv

LEMMA AutoPausedTyped ==
  ASSUME NEW set \in Settings
  PROVE  /\ AutoPaused(set) \in Settings /\ AutoPaused(set).status = "PAUSED"
         /\ AutoPaused(set).overrun = set.overrun
PROOF BY DEF AutoPaused, Settings

LEMMA AutoPauseKeeps ==
  ASSUME AutopilotInv, NEW w \in Workers, AutoPause(w)
  PROVE  AutopilotInv'
PROOF
<1>1. /\ workers[w].pc = "pause" /\ UNCHANGED <<allowed, slots, posts, blocked, person, time, left>>
      /\ settings' = AutoPaused(settings) /\ Go(w, IF workers[w].done THEN Onward(w) ELSE Idle)
      BY DEF AutoPause
<1>2. /\ workers[w] \in Worker /\ workers \in [Workers -> Worker] /\ settings \in Settings
      BY AtWork
<1>3. PICK r \in Worker :
        /\ Go(w, r) /\ r.pc \in {"idle", "due"} /\ r.written = {} /\ r.missed = {}
        /\ r.pc = "idle" \/ r.now = workers[w].now
      BY <1>1, <1>2, IdleTyped, OnwardTyped
<1>4. /\ workers' \in [Workers -> Worker] /\ workers'[w] = r /\ Others(w)
      BY <1>2, <1>3, Moves DEF Others
<1>5. settings' \in Settings /\ settings'.status = "PAUSED" /\ settings'.overrun = settings.overrun
      BY <1>1, <1>2, AutoPausedTyped
<1>6. AutopilotTyped'
      BY <1>1, <1>4, <1>5 DEF AutopilotInv, AutopilotTyped
<1>7. WorkersKeep' /\ WorkersInTime' /\ PostsInv'
      BY <1>1, <1>3, <1>4, <1>5, LetsGo DEF OverrunStays
<1>8. OneHandler' /\ SlotsHeld'
      BY <1>1, <1>3, <1>4, <1>5, NotHandling, HandlersKept DEF AutopilotInv, OverrunStays
<1>9. WrittenExist'
      BY <1>1, WrittenStay DEF AutopilotInv, PostsStay
<1>10. FailuresPause'
      BY <1>5 DEF FailuresPause, Active
<1> QED
    BY <1>6, <1>7, <1>8, <1>9, <1>10 DEF AutopilotInv, PostsInv

-------------------------------------------------------------------------------
(* The steps by which a worker has a slot's posts written.                 *)

LEMMA ClaimKeeps ==
  ASSUME AutopilotInv, NEW w \in Workers, NEW s \in Slots, Claim(w, s)
  PROVE  AutopilotInv'
PROOF
<1> DEFINE r == [workers[w] EXCEPT !.pc = "check", !.slot = s]
<1>1. /\ workers[w].pc = "due" /\ slots[s].status = "PLANNED" /\ Go(w, r)
      /\ slots' = [slots EXCEPT ![s] = [status |-> "GENERATING", attempts |-> @.attempts + 1]]
      /\ UNCHANGED <<settings, allowed, posts, blocked, person, time, left>>
      BY DEF Claim, Claimable
<1>2. /\ workers[w] \in Worker /\ Keeps(workers[w]) /\ slots \in [Slots -> Slot]
      /\ workers \in [Workers -> Worker]
      BY AtWork
<1>3. /\ r \in Worker /\ r.pc = "check" /\ r.slot = s /\ r.now = workers[w].now
      /\ r.missed = workers[w].missed /\ r.written = workers[w].written
      BY <1>2 DEF Worker, Writers
<1> HIDE DEF r
<1>4. /\ workers' \in [Workers -> Worker] /\ workers'[w] = r /\ Others(w)
      BY <1>1, <1>2, <1>3, Moves DEF Others
<1>5. /\ slots' \in [Slots -> Slot] /\ slots'[s].status = "GENERATING"
      /\ \A t \in Slots : t # s => slots'[t] = slots[t]
      BY <1>1, <1>2 DEF Slot, SlotStatuses
<1>6. AutopilotTyped'
      BY <1>1, <1>4, <1>5 DEF AutopilotInv, AutopilotTyped
<1>7. workers[w].written = {}
      BY <1>1, <1>2 DEF Keeps, Routers
<1>8. Keeps(workers[w])'
      BY <1>1, <1>2, <1>3, <1>4, <1>7 DEF Keeps, Routers, Writers
<1>9. \A p \in Posts : ~ ToRoute(w, p)'
      BY <1>3, <1>4 DEF ToRoute, Routers
<1>10. WorkersKeep' /\ WorkersInTime' /\ PostsInv'
      BY <1>1, <1>3, <1>4, <1>8, <1>9, MovesOn DEF OverrunStays
<1>11. NobodyElse(w, s) \/ s \in settings.overrun
      BY <1>1, Unheld DEF AutopilotInv, NobodyElse
<1>12. \A t \in Slots : Handling(w, t)' => t = s
      BY <1>3, <1>4 DEF Handling
<1>13. OneHandler' /\ SlotsHeld'
      BY <1>1, <1>3, <1>4, <1>5, <1>11, <1>12, HandlersKept DEF AutopilotInv, Writers, OverrunStays
<1>14. WrittenExist'
      BY <1>1, <1>5, WrittenStay DEF AutopilotInv, PostsStay
<1>15. FailuresPause'
      BY <1>1, <1>4, FailuresStillPause DEF AutopilotInv, Others
<1> QED
    BY <1>6, <1>10, <1>13, <1>14, <1>15 DEF AutopilotInv, PostsInv

(* A step that only a worker notices, which keeps its slot.                *)
LEMMA WorksOn ==
  ASSUME AutopilotInv, NEW w \in Workers, NEW r \in Worker, Go(w, r),
         UNCHANGED <<settings, slots, posts, blocked, person, time>>,
         \/ workers[w].pc \in Writers /\ r.pc \in Writers
         \/ workers[w].pc \in Routers /\ r.pc \in Routers,
         workers[w].pc \notin {"mark", "cancel"},
         r.slot = workers[w].slot, r.now = workers[w].now, Keeps(r),
         \A p \in Posts :
           \/ r.pc \in Routers \cup {"recover", "save"} /\ p \in r.written
           \/ r.pc \in {"schedule", "mark", "cancel"} /\ r.post = p
           => ToRoute(w, p) \/ posts[p].held = "APPROVAL_REQUIRED"
  PROVE  AutopilotInv'
PROOF
<1>1. workers[w] \in Worker /\ Keeps(workers[w]) /\ workers \in [Workers -> Worker]
      BY AtWork
<1>2. /\ workers' \in [Workers -> Worker] /\ workers'[w] = r /\ Others(w)
      BY <1>1, Moves DEF Others
<1>3. AutopilotTyped'
      BY <1>2 DEF AutopilotInv, AutopilotTyped
<1>4. Existing(r.slot)' = Existing(r.slot)
      BY DEF Existing
<1>5. Keeps(workers[w])'
  <2>1. Existing(workers[w].slot)' = Existing(r.slot)
        BY <1>2 DEF Existing
  <2> QED
      BY <1>2, <2>1 DEF Keeps
<1>6. \A p \in Posts : ToRoute(w, p)' => ToRoute(w, p) \/ posts[p].held = "APPROVAL_REQUIRED"
      BY <1>2 DEF ToRoute
<1>7. workers[w].pc \notin {"off", "idle"} /\ workers[w].slot \in Slots
      BY <1>1 DEF Writers, Routers, Keeps
<1>8. WorkersKeep' /\ WorkersInTime' /\ PostsInv'
      BY <1>2, <1>5, <1>6, <1>7, MovesOn DEF OverrunStays
<1>9. \A s \in Slots : Handling(w, s)' => Handling(w, s)
      BY <1>2 DEF Handling
<1>10. OneHandler' /\ SlotsHeld'
  <2>1. Writers \cap Routers = {}
        BY DEF Writers, Routers
  <2> QED
      BY <1>2, <1>7, <1>9, <2>1, HandOver DEF AutopilotInv, OverrunStays
<1>11. WrittenExist'
      BY WrittenStay DEF AutopilotInv, PostsStay
<1>12. workers[w].pc # "pause"
      BY DEF Writers, Routers
<1>13. FailuresPause'
      BY <1>2, <1>12, FailuresStillPause DEF AutopilotInv, Others
<1> QED
    BY <1>3, <1>8, <1>10, <1>11, <1>13 DEF AutopilotInv, PostsInv

LEMMA CheckKeeps ==
  ASSUME AutopilotInv, NEW w \in Workers, Check(w)
  PROVE  AutopilotInv'
PROOF
<1> DEFINE q == workers[w]
           room == {ps \in SUBSET settings.platforms :
                      Cardinality(ps) + Cardinality(OnDay(None)) <= settings.perDay}
<1>1. /\ q.pc = "check" /\ UNCHANGED <<settings, slots, posts, blocked, person, time>>
      BY DEF Check
<1>2. /\ q \in Worker /\ Keeps(q) /\ settings \in Settings /\ posts \in [Posts -> Post]
      BY AtWork
<1>3. /\ q.slot \in Slots /\ q.written = {} /\ (q.missed # {} => time # "far")
      BY <1>1, <1>2 DEF Keeps, Routers, Writers
<1>4. PICK r \in Worker :
        /\ Go(w, r) /\ r.slot = q.slot /\ r.now = q.now /\ r.missed = q.missed
        /\ \/ r.pc \in {"release", "skip"} /\ r.written = {}
           \/ /\ r.pc = "recover" /\ q.now = "far" /\ Existing(q.slot) # {}
              /\ r.written = {p \in Existing(q.slot) : posts[p].held = "APPROVAL_REQUIRED"}
           \/ /\ r.pc = "write" /\ q.now = "far" /\ r.written = {} /\ r.todo \subseteq PostsOf(q.slot)
  <2>1. CASE ~ Active
    <3> DEFINE r == [q EXCEPT !.pc = "release"]
    <3>1. /\ r \in Worker /\ r.pc = "release" /\ r.slot = q.slot /\ r.now = q.now
          /\ r.missed = q.missed /\ r.written = q.written
          BY <1>2, WithPc DEF Pcs, Writers
    <3>2. Go(w, r)
          BY <2>1 DEF Check, GoTo
    <3> HIDE DEF r
    <3> QED
        BY <1>3, <3>1, <3>2
  <2>2. CASE Active /\ ~ allowed
    <3> DEFINE r == [q EXCEPT !.pc = "release", !.reason = "NOT_ALLOWED"]
    <3>1. /\ r \in Worker /\ r.pc = "release" /\ r.slot = q.slot /\ r.now = q.now
          /\ r.missed = q.missed /\ r.written = q.written
          BY <1>2 DEF Worker, Writers, Reasons
    <3>2. Go(w, r)
          BY <2>2 DEF Check
    <3> HIDE DEF r
    <3> QED
        BY <1>3, <3>1, <3>2
  <2>3. CASE GoTo(w, "skip")
    <3> DEFINE r == [q EXCEPT !.pc = "skip"]
    <3>1. /\ r \in Worker /\ r.pc = "skip" /\ r.slot = q.slot /\ r.now = q.now
          /\ r.missed = q.missed /\ r.written = q.written
          BY <1>2, WithPc DEF Pcs, Writers
    <3>2. Go(w, r)
          BY <2>3 DEF GoTo
    <3> HIDE DEF r
    <3> QED
        BY <1>3, <3>1, <3>2
  <2>4. CASE /\ Active /\ allowed /\ ~ (q.now # "far" \/ WrittenThisWeek >= settings.perWeek)
             /\ Existing(q.slot) # {}
    <3> DEFINE saved == {p \in Existing(q.slot) : posts[p].held = "APPROVAL_REQUIRED"}
               r == [q EXCEPT !.pc = "recover", !.written = saved]
    <3>1. Go(w, r)
          BY <2>4 DEF Check
    <3>2. saved \in SUBSET Posts
          BY DEF Existing
    <3> HIDE DEF saved
    <3>3. /\ r \in Worker /\ r.pc = "recover" /\ r.slot = q.slot /\ r.now = q.now
          /\ r.missed = q.missed /\ r.written = saved
          BY <1>2, <3>2 DEF Worker, Writers
    <3> HIDE DEF r
    <3> QED
        BY <2>4, <3>1, <3>3 DEF saved
  <2>5. CASE /\ Active /\ allowed /\ ~ (q.now # "far" \/ WrittenThisWeek >= settings.perWeek)
             /\ Existing(q.slot) = {} /\ ~ (room \subseteq {{}})
    <3>1. PICK ps \in room : Go(w, [q EXCEPT !.pc = "write", !.todo = {q.slot} \X ps])
          BY <2>5 DEF Check
    <3>2. ps \subseteq Platforms
          BY <1>2 DEF Settings
    <3> DEFINE todo == {q.slot} \X ps
               r == [q EXCEPT !.pc = "write", !.todo = todo]
    <3>3. todo \subseteq PostsOf(q.slot) /\ todo \in SUBSET Posts
          BY <1>3, <3>2 DEF PostsOf, Posts
    <3>4. Go(w, r)
          BY <3>1
    <3> HIDE DEF todo
    <3>5. /\ r \in Worker /\ r.pc = "write" /\ r.slot = q.slot /\ r.now = q.now
          /\ r.missed = q.missed /\ r.written = q.written /\ r.todo = todo
          BY <1>2, <3>3 DEF Worker, Writers
    <3> HIDE DEF r
    <3> QED
        BY <1>3, <2>5, <3>3, <3>4, <3>5
  <2> QED
      BY <2>1, <2>2, <2>3, <2>4, <2>5 DEF Check
<1>5. Keeps(r)
      BY <1>3, <1>4 DEF Keeps, Writers, Routers, Existing, PostsOf
<1>6. \A p \in Posts :
        \/ r.pc \in Routers \cup {"recover", "save"} /\ p \in r.written
        \/ r.pc \in {"schedule", "mark", "cancel"} /\ r.post = p
        => posts[p].held = "APPROVAL_REQUIRED"
      BY <1>4 DEF Routers
<1>7. q.pc \in Writers /\ r.pc \in Writers
      BY <1>1, <1>4 DEF Writers
<1> HIDE DEF q, room
<1> QED
    BY <1>1, <1>4, <1>5, <1>6, <1>7, WorksOn DEF q

LEMMA RecoverKeeps ==
  ASSUME AutopilotInv, NEW w \in Workers, Recover(w)
  PROVE  AutopilotInv'
PROOF
<1> DEFINE s == workers[w].slot
<1>1. /\ workers[w].pc = "recover" /\ GoTo(w, "route")
      /\ slots' = [slots EXCEPT ![s].status = "GENERATED"]
      /\ UNCHANGED <<settings, allowed, posts, blocked, person, time, left>>
      BY DEF Recover
<1>2. /\ workers[w] \in Worker /\ Keeps(workers[w]) /\ slots \in [Slots -> Slot]
      /\ workers \in [Workers -> Worker]
      BY AtWork
<1>3. s \in Slots /\ Existing(s) # {}
      BY <1>1, <1>2 DEF Keeps, Writers
<1>4. /\ workers' \in [Workers -> Worker] /\ Others(w) /\ workers'[w].pc = "route"
      /\ workers'[w].now = workers[w].now /\ workers'[w].missed = workers[w].missed
      /\ workers'[w].slot = s /\ workers'[w].written = workers[w].written
      BY <1>1, <1>2, GoesTo DEF Others, Pcs, Routers
<1>5. /\ slots' \in [Slots -> Slot] /\ slots'[s].status = "GENERATED"
      /\ \A t \in Slots : t # s => slots'[t] = slots[t]
      BY <1>1, <1>2, <1>3 DEF Slot, SlotStatuses
<1>6. AutopilotTyped'
      BY <1>1, <1>4, <1>5 DEF AutopilotInv, AutopilotTyped
<1>7. Keeps(workers[w])'
      BY <1>1, <1>2, <1>3, <1>4 DEF Keeps, Routers, Writers, PostsOf
<1>8. \A p \in Posts : ToRoute(w, p)' => ToRoute(w, p)
      BY <1>1, <1>4 DEF ToRoute, Routers
<1>9. WorkersKeep' /\ WorkersInTime' /\ PostsInv'
      BY <1>1, <1>4, <1>7, <1>8, MovesOn DEF OverrunStays
<1>10. \A t \in Slots : Handling(w, t)' => Handling(w, t)
      BY <1>1, <1>4 DEF Handling, Writers
<1>11. OneHandler' /\ SlotsHeld'
      BY <1>1, <1>3, <1>4, <1>5, <1>10, HandOver DEF AutopilotInv, Writers, Routers, OverrunStays
<1>12. WrittenExist'
      BY <1>1, <1>3, <1>5, WrittenStay DEF AutopilotInv, PostsStay
<1>13. FailuresPause'
      BY <1>1, <1>4, FailuresStillPause DEF AutopilotInv, Others
<1> QED
    BY <1>6, <1>9, <1>11, <1>12, <1>13 DEF AutopilotInv, PostsInv

LEMMA FinishSlotKeeps ==
  ASSUME AutopilotInv, NEW w \in Workers, FinishSlot(w)
  PROVE  AutopilotInv'
PROOF
<1> DEFINE s == workers[w].slot
<1>1. /\ workers[w].pc = "save" /\ workers[w].todo = {} /\ GoTo(w, "route")
      /\ slots' = [slots EXCEPT ![s].status = "GENERATED"]
      /\ settings' = [settings EXCEPT !.failures = 0]
      /\ UNCHANGED <<allowed, posts, blocked, person, time, left>>
      BY DEF FinishSlot
<1>2. /\ workers[w] \in Worker /\ Keeps(workers[w]) /\ slots \in [Slots -> Slot]
      /\ workers \in [Workers -> Worker] /\ settings \in Settings
      BY AtWork
<1>3. s \in Slots /\ Existing(s) # {}
      BY <1>1, <1>2 DEF Keeps, Writers
<1>4. /\ workers' \in [Workers -> Worker] /\ Others(w) /\ workers'[w].pc = "route"
      /\ workers'[w].now = workers[w].now /\ workers'[w].missed = workers[w].missed
      /\ workers'[w].slot = s /\ workers'[w].written = workers[w].written
      BY <1>1, <1>2, GoesTo DEF Others, Pcs, Routers
<1>5. /\ slots' \in [Slots -> Slot] /\ slots'[s].status = "GENERATED"
      /\ \A t \in Slots : t # s => slots'[t] = slots[t]
      BY <1>1, <1>2, <1>3 DEF Slot, SlotStatuses
<1>6. settings' \in Settings /\ settings'.failures = 0 /\ settings'.overrun = settings.overrun
      BY <1>1, <1>2 DEF Settings
<1>7. AutopilotTyped'
      BY <1>1, <1>4, <1>5, <1>6 DEF AutopilotInv, AutopilotTyped
<1>8. Keeps(workers[w])'
      BY <1>1, <1>2, <1>3, <1>4 DEF Keeps, Routers, Writers, PostsOf
<1>9. \A p \in Posts : ToRoute(w, p)' => ToRoute(w, p)
      BY <1>1, <1>4 DEF ToRoute, Routers
<1>10. WorkersKeep' /\ WorkersInTime' /\ PostsInv'
      BY <1>1, <1>4, <1>6, <1>8, <1>9, MovesOn DEF OverrunStays
<1>11. \A t \in Slots : Handling(w, t)' => Handling(w, t)
      BY <1>1, <1>4 DEF Handling, Writers
<1>12. OneHandler' /\ SlotsHeld'
      BY <1>1, <1>3, <1>4, <1>5, <1>6, <1>11, HandOver DEF AutopilotInv, Writers, Routers, OverrunStays
<1>13. WrittenExist'
      BY <1>1, <1>3, <1>5, WrittenStay DEF AutopilotInv, PostsStay
<1>14. FailuresPause'
      BY <1>6, AutopilotAssumption DEF FailuresPause
<1> QED
    BY <1>7, <1>10, <1>12, <1>13, <1>14 DEF AutopilotInv, PostsInv

LEMMA WriteKeeps ==
  ASSUME AutopilotInv, NEW w \in Workers, Write(w)
  PROVE  AutopilotInv'
PROOF
<1> DEFINE q == workers[w]
<1>1. q.pc = "write" /\ UNCHANGED <<settings, slots, posts, blocked, person, time>>
      BY DEF Write
<1>2. q \in Worker /\ Keeps(q)
      BY AtWork
<1>3. q.slot \in Slots /\ q.written = {} /\ q.now = "far" /\ q.todo \subseteq PostsOf(q.slot)
      BY <1>1, <1>2 DEF Keeps, Routers, Writers
<1>4. PICK r \in Worker :
        /\ Go(w, r) /\ r.slot = q.slot /\ r.now = q.now /\ r.missed = q.missed /\ r.written = {}
        /\ r.pc = "fail" \/ (r.pc = "recheck" /\ r.todo # {} /\ r.todo \subseteq PostsOf(q.slot))
  <2>1. CASE \E accepted \in Accepted(q.todo) : \E review \in {{}, accepted} :
               Go(w, [q EXCEPT !.pc = "recheck", !.todo = accepted, !.review = review])
    <3>0. PICK accepted \in Accepted(q.todo) : \E review \in {{}, accepted} :
            Go(w, [q EXCEPT !.pc = "recheck", !.todo = accepted, !.review = review])
          BY <2>1
    <3>1. PICK review \in {{}, accepted} :
            Go(w, [q EXCEPT !.pc = "recheck", !.todo = accepted, !.review = review])
          BY ONLY <3>0, Zenon
    <3>2. /\ accepted # {} /\ accepted \subseteq PostsOf(q.slot)
          /\ accepted \in SUBSET Posts /\ review \in SUBSET Posts
          BY <1>3 DEF Accepted, PostsOf
    <3> DEFINE r == [q EXCEPT !.pc = "recheck", !.todo = accepted, !.review = review]
    <3>3. /\ r \in Worker /\ r.pc = "recheck" /\ r.slot = q.slot /\ r.now = q.now
          /\ r.missed = q.missed /\ r.written = q.written /\ r.todo = accepted
          BY ONLY <1>2, <3>2 DEF Worker, Writers
    <3>4. Go(w, r)
          BY <3>1
    <3> HIDE DEF r
    <3> QED
        BY <1>3, <3>2, <3>3, <3>4
  <2>2. CASE GoTo(w, "fail")
    <3> DEFINE r == [q EXCEPT !.pc = "fail"]
    <3>1. /\ r \in Worker /\ r.pc = "fail" /\ r.slot = q.slot /\ r.now = q.now
          /\ r.missed = q.missed /\ r.written = q.written
          BY <1>2, WithPc DEF Pcs, Writers
    <3>2. Go(w, r)
          BY <2>2 DEF GoTo
    <3> HIDE DEF r
    <3> QED
        BY <1>3, <3>1, <3>2
  <2> QED
      BY <2>1, <2>2 DEF Write
<1>5. Keeps(r)
      BY <1>2, <1>3, <1>4 DEF Keeps, Writers, Routers
<1>6. \A p \in Posts :
        ~ \/ r.pc \in Routers \cup {"recover", "save"} /\ p \in r.written
          \/ r.pc \in {"schedule", "mark", "cancel"} /\ r.post = p
      BY <1>4 DEF Routers
<1>7. q.pc \in Writers /\ r.pc \in Writers
      BY <1>1, <1>4 DEF Writers
<1> QED
    BY <1>1, <1>4, <1>5, <1>6, <1>7, WorksOn

LEMMA RecheckKeeps ==
  ASSUME AutopilotInv, NEW w \in Workers, Recheck(w)
  PROVE  AutopilotInv'
PROOF
<1> DEFINE q == workers[w]
           x == IF Active THEN "save" ELSE "release"
           r == [q EXCEPT !.pc = x]
<1>1. q.pc = "recheck" /\ UNCHANGED <<settings, slots, posts, blocked, person, time>> /\ Go(w, r)
      BY DEF Recheck, GoTo
<1>2. q \in Worker /\ Keeps(q)
      BY AtWork
<1>3. q.slot \in Slots /\ q.written = {} /\ q.todo # {} /\ q.now = "far" /\ q.todo \subseteq PostsOf(q.slot)
      BY <1>1, <1>2 DEF Keeps, Routers, Writers
<1>4. x \in {"save", "release"}
      OBVIOUS
<1> HIDE DEF x
<1>5. /\ r \in Worker /\ r.pc = x /\ r.slot = q.slot /\ r.now = q.now /\ r.missed = q.missed
      /\ r.written = q.written /\ r.todo = q.todo
      BY <1>2, <1>4, WithPc DEF Pcs, Writers
<1> HIDE DEF r
<1>6. Keeps(r)
      BY <1>2, <1>3, <1>4, <1>5 DEF Keeps, Writers, Routers
<1>7. \A p \in Posts :
        ~ \/ r.pc \in Routers \cup {"recover", "save"} /\ p \in r.written
          \/ r.pc \in {"schedule", "mark", "cancel"} /\ r.post = p
      BY <1>3, <1>4, <1>5
<1>8. q.pc \in Writers /\ r.pc \in Writers
      BY <1>1, <1>4, <1>5 DEF Writers
<1> QED
    BY <1>1, <1>5, <1>6, <1>7, <1>8, WorksOn

(* A step that changes one post.                                           *)
LEMMA PostTouched ==
  ASSUME PostsInv, UNCHANGED <<settings, blocked, person, time>>, NEW p \in Posts,
         \A x \in Posts : x # p => posts'[x] = posts[x],
         \A x \in Posts : x # p => (Scheduling(x) => Scheduling(x)'),
         \A x \in Posts : x # p => (Settled(x) => Settled(x)'),
         posts'[p].live = "sending" => time = "past",
         Taking(p) => posts'[p].status # "none",
         p[1] \notin settings.overrun =>
           /\ posts'[p].status = "READY" => posts'[p].held # "none"
           /\ posts'[p].status = "SCHEDULED" => posts'[p].held # "APPROVAL_REQUIRED"
           /\ posts'[p].status = "SCHEDULED" /\ ~ posts'[p].approved => Settled(p)'
           /\ Taking(p) => posts'[p].held # "APPROVAL_REQUIRED" /\ Settled(p)'
           /\ person.pc = "hold" /\ person.post = p => posts'[p].live = "none"
           /\ posts'[p].status = "READY" /\ ~ posts'[p].cut /\ ~ Approving(p)' /\ ~ Scheduling(p)'
                => posts'[p].live = "none"
           /\ blocked[p] # "no" => posts'[p].live = "none" \/ Approving(p)'
  PROVE  PostsInv'
PROOF
<1>1. \A x \in Posts : x # p => (Approving(x)' <=> Approving(x))
      BY DEF Approving
<1>2. \A x \in Posts : Taking(x)' <=> Taking(x)
      BY DEF Taking
<1>3. PostsFit'
      BY DEF PostsFit, PostsInv
<1>4. PauseFits'
      BY <1>2 DEF PauseFits, PostsInv
<1>5. HeldPostsRest'
      BY <1>1 DEF HeldPostsRest, PostsInv
<1>6. BlockedRest'
      BY <1>1 DEF BlockedRest, PostsInv
<1> QED
    BY <1>3, <1>4, <1>5, <1>6 DEF PostsInv

-------------------------------------------------------------------------------
(* The steps by which a worker saves, routes and holds posts.              *)

(* A step of a worker that keeps its slot and changes posts.               *)
LEMMA WorksOnPosts ==
  ASSUME AutopilotInv, NEW w \in Workers, NEW r \in Worker, Go(w, r),
         UNCHANGED <<settings, slots, blocked, person, time>>,
         \/ workers[w].pc \in Writers /\ r.pc \in Writers
         \/ workers[w].pc \in Routers /\ r.pc \in Routers,
         r.slot = workers[w].slot, r.now = workers[w].now, Keeps(workers[w])',
         posts' \in [Posts -> Post], PostsStay, PostsInv'
  PROVE  AutopilotInv'
PROOF
<1>1. workers[w] \in Worker /\ Keeps(workers[w]) /\ workers \in [Workers -> Worker]
      BY AtWork
<1>2. /\ workers' \in [Workers -> Worker] /\ workers'[w] = r /\ Others(w)
      BY <1>1, Moves DEF Others
<1>3. AutopilotTyped'
      BY <1>2 DEF AutopilotInv, AutopilotTyped
<1>4. workers[w].pc \notin {"off", "idle", "pause"} /\ workers[w].slot \in Slots
      BY <1>1 DEF Writers, Routers, Keeps
<1>5. WorkersKeep'
      BY <1>2, WorkersKept DEF AutopilotInv, Others
<1>6. WorkersInTime'
      BY <1>2, <1>4, WorkersStayInTime DEF AutopilotInv, Others, OverrunStays
<1>7. \A s \in Slots : Handling(w, s)' => Handling(w, s)
      BY <1>2 DEF Handling
<1>8. OneHandler' /\ SlotsHeld'
  <2>1. Writers \cap Routers = {}
        BY DEF Writers, Routers
  <2> QED
      BY <1>2, <1>4, <1>7, <2>1, HandOver DEF AutopilotInv, OverrunStays
<1>9. WrittenExist'
      BY WrittenStay DEF AutopilotInv
<1>10. FailuresPause'
      BY <1>2, <1>4, FailuresStillPause DEF AutopilotInv, Others
<1> QED
    BY <1>3, <1>5, <1>6, <1>8, <1>9, <1>10 DEF AutopilotInv, PostsInv

LEMMA SavePostKeeps ==
  ASSUME AutopilotInv, NEW w \in Workers, SavePost(w)
  PROVE  AutopilotInv'
PROOF
<1> DEFINE q == workers[w]
<1>1. q.pc = "save" /\ UNCHANGED <<settings, slots, blocked, person, time>>
      BY DEF SavePost
<1>2. /\ q \in Worker /\ Keeps(q) /\ posts \in [Posts -> Post] /\ workers \in [Workers -> Worker]
      BY AtWork
<1>3. /\ q.slot \in Slots /\ q.now = "far" /\ q.todo \subseteq PostsOf(q.slot)
      /\ q.written \subseteq PostsOf(q.slot) /\ q.written \subseteq Existing(q.slot)
      BY <1>1, <1>2 DEF Keeps, Routers, Writers
<1>4. CASE GoTo(w, "fail") /\ UNCHANGED posts
  <2> DEFINE r == [q EXCEPT !.pc = "fail"]
  <2>1. /\ r \in Worker /\ r.pc = "fail" /\ r.slot = q.slot /\ r.now = q.now
        /\ r.missed = q.missed /\ r.written = q.written
        BY <1>2, WithPc DEF Pcs, Writers
  <2>2. Go(w, r)
        BY <1>4 DEF GoTo
  <2> HIDE DEF r
  <2>3. Keeps(r)
        BY <1>2, <1>3, <2>1 DEF Keeps, Writers, Routers
  <2>4. \A p \in Posts :
          ~ \/ r.pc \in Routers \cup {"recover", "save"} /\ p \in r.written
            \/ r.pc \in {"schedule", "mark", "cancel"} /\ r.post = p
        BY <2>1 DEF Routers
  <2>5. q.pc \in Writers /\ r.pc \in Writers
        BY <1>1, <2>1 DEF Writers
  <2> QED
      BY <1>1, <1>4, <2>1, <2>2, <2>3, <2>4, <2>5, WorksOn
<1>5. CASE \E p \in q.todo :
             /\ posts[p].status = "none" /\ posts' = [posts EXCEPT ![p] = NewPost]
             /\ Go(w, [q EXCEPT !.todo = @ \ {p}, !.written = @ \union {p}])
  <2>1. PICK p \in q.todo :
             /\ posts[p].status = "none" /\ posts' = [posts EXCEPT ![p] = NewPost]
             /\ Go(w, [q EXCEPT !.todo = @ \ {p}, !.written = @ \union {p}])
        BY <1>5
  <2> DEFINE r == [q EXCEPT !.todo = @ \ {p}, !.written = @ \union {p}]
  <2>2. p \in PostsOf(q.slot) /\ p \in Posts /\ q.slot \in Slots
        BY <1>3 DEF PostsOf
  <2>3. /\ r \in Worker /\ r.pc = "save" /\ r.slot = q.slot /\ r.now = q.now /\ r.missed = q.missed
        /\ r.written = q.written \cup {p} /\ r.todo = q.todo \ {p}
        BY <1>1, <1>2, <2>2 DEF Worker
  <2>4. Go(w, r)
        BY <2>1
  <2> HIDE DEF r
  <2>5. /\ posts' \in [Posts -> Post] /\ posts'[p] = NewPost
        /\ \A x \in Posts : x # p => posts'[x] = posts[x]
        BY <1>2, <2>1, <2>2, NewPostTyped
  <2>6. PostsStay
        BY <2>1, <2>5 DEF PostsStay
  <2>7. workers'[w] = r /\ Others(w)
        BY <1>2, <2>3, <2>4, Moves DEF Others
  <2>8. Keeps(workers[w])'
    <3>1. PICK s \in Slots, old, now \in Worker : s = q.slot /\ old = q /\ now = r
          BY <1>2, <1>3, <2>3
    <3>2. /\ now.pc = "save" /\ now.slot = s /\ now.now = "far" /\ now.missed = old.missed
          /\ now.written = old.written \cup {p} /\ now.todo = old.todo \ {p}
          /\ old.missed # {} => time # "far"
          BY <1>2, <1>3, <2>3, <3>1 DEF Keeps
    <3>3. /\ old.todo \subseteq PostsOf(s) /\ old.written \subseteq PostsOf(s)
          /\ old.written \subseteq Existing(s) /\ p \in PostsOf(s)
          BY <1>3, <2>2, <3>1
    <3>4. p \in Existing(s)'
          BY <2>2, <2>5, <3>3, NewPostTyped DEF Existing, PostsOf
    <3>5. Existing(s) \subseteq Existing(s)'
          BY <2>6 DEF Existing, PostsStay
    <3>6. workers'[w] = now /\ time' = time
          BY <1>1, <2>7, <3>1
    <3>7. PostsOf(s)' = PostsOf(s)
          BY DEF PostsOf
    <3>8. Existing(workers[w].slot)' = Existing(s)' /\ PostsOf(workers[w].slot)' = PostsOf(s)
          BY <3>2, <3>6 DEF Existing, PostsOf
    <3> QED
        BY ONLY <3>1, <3>2, <3>3, <3>4, <3>5, <3>6, <3>8 DEF Keeps, Writers, Routers
  <2>9. \A u \in Workers, x \in Posts : x # p /\ ToRoute(u, x)' => ToRoute(u, x)
        BY <1>1, <2>3, <2>7 DEF ToRoute, Others
  <2>10. \A x \in Posts : x # p /\ Scheduling(x) => Scheduling(x)'
        BY <1>1, <2>7 DEF Scheduling, Others
  <2>11. PostsInv'
    <3>1. PostsInv /\ UNCHANGED <<settings, blocked, person, time>>
          BY <1>1 DEF AutopilotInv, PostsInv
    <3>2. ~ Taking(p)
          BY <2>1, <2>2 DEF AutopilotInv, PauseFits
    <3>3. ~ (person.pc = "hold" /\ person.post = p)
          BY <3>2 DEF Taking
    <3>4. \A x \in Posts : x # p => (Settled(x) => Settled(x)')
          BY <2>9 DEF Settled
    <3> QED
        BY <2>2, <2>5, <2>10, <3>1, <3>2, <3>3, <3>4, NewPostTyped, PostTouched
  <2>12. q.pc \in Writers /\ r.pc \in Writers
        BY <1>1, <2>3 DEF Writers
  <2> QED
      BY <1>1, <2>3, <2>4, <2>5, <2>6, <2>8, <2>11, <2>12, WorksOnPosts
<1> QED
    BY <1>4, <1>5 DEF SavePost

LEMMA RouteKeeps ==
  ASSUME AutopilotInv, NEW w \in Workers, Route(w)
  PROVE  AutopilotInv'
PROOF
<1> DEFINE q == workers[w]
<1>1. q.pc = "route" /\ UNCHANGED <<settings, slots, posts, blocked, person, time>>
      BY DEF Route
<1>2. q \in Worker /\ Keeps(q) /\ workers \in [Workers -> Worker]
      BY AtWork
<1>3. q.slot \in Slots /\ q.now = "far" /\ q.written \subseteq PostsOf(q.slot)
      BY <1>1, <1>2 DEF Keeps, Routers
<1>4. CASE q.written = {}
  <2>1. Go(w, Onward(w))
        BY <1>4 DEF Route
  <2>2. /\ Onward(w) \in Worker /\ Onward(w).pc = "due" /\ Onward(w).now = q.now
        /\ Onward(w).missed = {} /\ Onward(w).written = {}
        BY <1>2, OnwardTyped
  <2>3. /\ workers' \in [Workers -> Worker] /\ workers'[w] = Onward(w) /\ Others(w)
        BY <1>2, <2>1, <2>2, Moves DEF Others
  <2>4. AutopilotTyped'
        BY <1>1, <2>3 DEF AutopilotInv, AutopilotTyped
  <2>5. WorkersKeep' /\ WorkersInTime' /\ PostsInv'
        BY <1>1, <2>2, <2>3, LetsGo DEF OverrunStays
  <2>6. OneHandler' /\ SlotsHeld'
        BY <1>1, <2>2, <2>3, NotHandling, HandlersKept DEF AutopilotInv, OverrunStays
  <2>7. WrittenExist'
        BY <1>1, WrittenStay DEF AutopilotInv, PostsStay
  <2>8. FailuresPause'
        BY <1>1, <2>3, FailuresStillPause DEF AutopilotInv, Others
  <2> QED
      BY <2>4, <2>5, <2>6, <2>7, <2>8 DEF AutopilotInv, PostsInv
<1>5. CASE q.written # {}
  <2>1. PICK p \in q.written :
          LET blockers == Blockers(p, q.review) IN
          Go(w, [q EXCEPT !.pc = IF blockers = {} THEN "schedule" ELSE "hold", !.post = p,
                          !.reason = IF blockers = {} THEN "none" ELSE CHOOSE r \in blockers : TRUE,
                          !.written = @ \ {p}])
        BY <1>5 DEF Route
  <2> DEFINE blockers == Blockers(p, q.review)
             pc == IF blockers = {} THEN "schedule" ELSE "hold"
             reason == IF blockers = {} THEN "none" ELSE CHOOSE r \in blockers : TRUE
             r == [q EXCEPT !.pc = pc, !.post = p, !.reason = reason, !.written = @ \ {p}]
  <2>2. p \in Posts /\ p \in PostsOf(q.slot)
        BY <1>3 DEF PostsOf
  <2>3. blockers \subseteq Reasons \ {"none"}
        BY DEF Blockers, Reasons
  <2>4. pc \in {"schedule", "hold"} /\ reason \in Reasons /\ (pc = "hold" => reason # "none")
    <3>1. CASE blockers = {}
          BY <3>1 DEF Reasons
    <3>2. CASE blockers # {}
          BY <2>3, <3>2
    <3> QED
        BY <3>1, <3>2
  <2>5. Go(w, r)
        BY <2>1
  <2> HIDE DEF pc, reason
  <2>6. /\ r \in Worker /\ r.pc = pc /\ r.slot = q.slot /\ r.now = q.now /\ r.missed = q.missed
        /\ r.written = q.written \ {p} /\ r.post = p /\ r.reason = reason
        BY <1>2, <2>2, <2>4 DEF Worker, Routers
  <2> HIDE DEF r
  <2>7. Keeps(r)
        BY <1>2, <1>3, <2>2, <2>4, <2>6 DEF Keeps, Writers, Routers
  <2>8. \A x \in Posts :
          \/ r.pc \in Routers \cup {"recover", "save"} /\ x \in r.written
          \/ r.pc \in {"schedule", "mark", "cancel"} /\ r.post = x
          => ToRoute(w, x)
        BY <1>1, <2>6 DEF ToRoute, Routers
  <2>9. q.pc \in Routers /\ r.pc \in Routers
        BY <1>1, <2>4, <2>6 DEF Routers
  <2> QED
      BY <1>1, <2>5, <2>6, <2>7, <2>8, <2>9, WorksOn
<1> QED
    BY <1>4, <1>5

(* The slot's own worker is the only one that may schedule its posts, and  *)
(* it does so in time, if the slot waited for it.                          *)
LEMMA OnlyRouter ==
  ASSUME AutopilotInv, NEW w \in Workers, workers[w].pc \in Routers,
         NEW p \in Posts, p \in PostsOf(workers[w].slot), p[1] \notin settings.overrun
  PROVE  \A u \in Workers : u # w => ~ ToRoute(u, p)
PROOF
<1> SUFFICES ASSUME NEW u \in Workers, u # w, ToRoute(u, p)
             PROVE  FALSE
    OBVIOUS
<1>1. Keeps(workers[u]) /\ Keeps(workers[w])
      BY AtWork
<1>2. p \in PostsOf(workers[u].slot) /\ workers[u].pc \in Writers \cup Routers
      BY <1>1 DEF ToRoute, Keeps, Writers, Routers
<1>3. workers[w].slot \in Slots
      BY <1>1 DEF Keeps
<1>4. workers[u].slot = workers[w].slot /\ workers[w].slot \notin settings.overrun
      BY <1>2 DEF PostsOf
<1> QED
    BY <1>2, <1>3, <1>4 DEF AutopilotInv, OneHandler, Handling

LEMMA RoutesInTime ==
  ASSUME AutopilotInv, NEW w \in Workers, workers[w].pc \in Routers
  PROVE  time # "past" \/ Slots \subseteq settings.overrun
PROOF
<1>1. workers[w].now = "far" /\ workers[w].pc \notin {"off", "idle"}
      BY AtWork DEF Keeps, Routers
<1> QED
    BY <1>1 DEF AutopilotInv, WorkersInTime

(* The parts of the invariant that speak of the post a worker is about to  *)
(* schedule.                                                               *)
Unsent(p) ==
  /\ ~ Taking(p) /\ blocked[p] = "no" /\ posts[p].live # "sending"
  /\ ~ (posts[p].status = "SCHEDULED" /\ ~ posts[p].approved)
  /\ posts[p].status = "READY" => posts[p].held # "none"
  /\ posts[p].status = "SCHEDULED" => posts[p].held # "APPROVAL_REQUIRED"

LEMMA Routed ==
  ASSUME AutopilotInv, NEW w \in Workers, workers[w].pc \in {"schedule", "mark", "cancel"}
  PROVE  LET p == workers[w].post IN
         /\ p \in Posts /\ p \in PostsOf(workers[w].slot) /\ p \notin workers[w].written
         /\ p[1] \notin settings.overrun => Unsent(p)
PROOF
<1> DEFINE p == workers[w].post
<1>1. p \in PostsOf(workers[w].slot) /\ p \notin workers[w].written /\ workers[w].slot \in Slots
      BY AtWork DEF Keeps, Routers
<1>2. p \in Posts /\ p[1] \in Slots
      BY <1>1 DEF PostsOf
<1>3. ToRoute(w, p)
      BY DEF ToRoute
<1>4. ~ Settled(p)
      BY <1>3 DEF Settled
<1>5. p[1] \notin settings.overrun => time # "past"
      BY <1>2, RoutesInTime DEF Routers
<1> HIDE DEF p
<1>6. ASSUME p[1] \notin settings.overrun
      PROVE  Unsent(p)
  <2>1. ~ Taking(p) /\ ~ (posts[p].status = "SCHEDULED" /\ ~ posts[p].approved)
        BY <1>2, <1>4, <1>6 DEF AutopilotInv, PostsFit, PauseFits
  <2>2. blocked[p] = "no" /\ posts[p].live # "sending"
        BY <1>2, <1>5, <1>6 DEF AutopilotInv, PostsFit, BlockedRest
  <2>3. /\ posts[p].status = "READY" => posts[p].held # "none"
        /\ posts[p].status = "SCHEDULED" => posts[p].held # "APPROVAL_REQUIRED"
        BY <1>2, <1>6 DEF AutopilotInv, PostsFit
  <2> QED
      BY <2>1, <2>2, <2>3 DEF Unsent
<1> QED
    BY <1>1, <1>2, <1>6 DEF p

(* A post whose status, and what a person said of it, stay.                *)
SameDecision(p) ==
  /\ posts'[p].status = posts[p].status /\ posts'[p].held = posts[p].held
  /\ posts'[p].approved = posts[p].approved /\ posts'[p].cut = posts[p].cut

LEMMA ScheduleKeeps ==
  ASSUME AutopilotInv, NEW w \in Workers, Schedule(w)
  PROVE  AutopilotInv'
PROOF
<1>1. workers[w].pc = "schedule" /\ UNCHANGED <<settings, slots, blocked, person, time>>
      BY DEF Schedule
<1>2. PICK x \in {"mark", "cancel"} : GoTo(w, x)
      BY DEF Schedule
<1>3. posts \in [Posts -> Post] /\ workers \in [Workers -> Worker]
      BY AtWork
<1>4. PICK q \in Worker : q = workers[w] /\ Keeps(q)
      BY AtWork
<1>5. PICK p \in Posts :
        /\ p = q.post /\ p \in PostsOf(q.slot) /\ p \notin q.written
        /\ p[1] \notin settings.overrun => Unsent(p)
      BY <1>1, <1>4, Routed
<1>6. PICK r \in Worker :
        /\ Go(w, r) /\ r.pc = x /\ r.slot = q.slot /\ r.now = q.now
        /\ r.missed = q.missed /\ r.written = q.written /\ r.post = p
  <2> DEFINE r == [q EXCEPT !.pc = x]
  <2>1. /\ r \in Worker /\ r.pc = x /\ r.slot = q.slot /\ r.now = q.now
        /\ r.missed = q.missed /\ r.written = q.written /\ r.post = q.post
        BY WithPc DEF Pcs, Routers
  <2>2. Go(w, r)
        BY <1>2, <1>4 DEF GoTo
  <2> HIDE DEF r
  <2> QED
      BY <1>5, <2>1, <2>2
<1>7. workers'[w] = r /\ Others(w)
      BY <1>3, <1>6, Moves DEF Others
<1>8. /\ posts' \in [Posts -> Post] /\ SameDecision(p)
      /\ posts'[p].live \in {"queued", posts[p].live}
      /\ \A y \in Posts : y # p => posts'[y] = posts[y]
  <2>1. CASE posts' = posts
        BY <1>3, <1>5, <2>1 DEF SameDecision
  <2>2. CASE posts' = [posts EXCEPT ![p].live = "queued"]
        BY <1>3, <2>2 DEF SameDecision, Post
  <2> QED
      BY <1>4, <1>5, <2>1, <2>2 DEF Schedule
<1>9. PostsStay
      BY <1>8 DEF PostsStay, SameDecision
<1>10. \A u \in Workers, y \in Posts : ToRoute(u, y)' => ToRoute(u, y)
  <2> SUFFICES ASSUME NEW u \in Workers, NEW y \in Posts, ToRoute(u, y)'
               PROVE  ToRoute(u, y)
      OBVIOUS
  <2>1. CASE u = w
        BY <1>1, <1>4, <1>5, <1>6, <1>7, <2>1 DEF ToRoute, Routers
  <2>2. CASE u # w
        BY <1>7, <2>2 DEF ToRoute, Others
  <2> QED
      BY <2>1, <2>2
<1>11. Scheduling(p)' /\ \A y \in Posts : y # p /\ Scheduling(y) => Scheduling(y)'
      BY <1>1, <1>6, <1>7 DEF Scheduling, Others
<1>12. PostsInv'
  <2>1. PostsInv /\ UNCHANGED <<settings, blocked, person, time>>
        BY <1>1 DEF AutopilotInv, PostsInv
  <2>2. \A y \in Posts : y # p => (Settled(y) => Settled(y)')
        BY <1>10 DEF Settled
  <2>3. /\ posts'[p].live = "sending" => time = "past"
        /\ Taking(p) => posts'[p].status # "none"
        BY <1>8 DEF AutopilotInv, PostsFit, PauseFits, SameDecision
  <2>4. ASSUME p[1] \notin settings.overrun
        PROVE  /\ posts'[p].status = "READY" => posts'[p].held # "none"
               /\ posts'[p].status = "SCHEDULED" => posts'[p].held # "APPROVAL_REQUIRED"
               /\ ~ (posts'[p].status = "SCHEDULED" /\ ~ posts'[p].approved)
               /\ ~ Taking(p) /\ ~ (person.pc = "hold" /\ person.post = p) /\ blocked[p] = "no"
        BY <1>5, <1>8, <2>4 DEF SameDecision, Unsent, Taking
  <2> QED
      BY <1>8, <1>11, <2>1, <2>2, <2>3, <2>4, PostTouched
<1>13. Keeps(workers[w])'
      BY <1>1, <1>4, <1>5, <1>6, <1>7 DEF Keeps, Writers, Routers, PostsOf
<1>14. workers[w].pc \in Routers /\ r.pc \in Routers
      BY <1>1, <1>6 DEF Routers
<1> QED
    BY <1>1, <1>4, <1>6, <1>8, <1>9, <1>12, <1>13, <1>14, WorksOnPosts

LEMMA MarkScheduledKeeps ==
  ASSUME AutopilotInv, NEW w \in Workers, MarkScheduled(w)
  PROVE  AutopilotInv'
PROOF
<1>1. workers[w].pc = "mark" /\ UNCHANGED <<settings, slots, blocked, person, time>>
      BY DEF MarkScheduled
<1>2. posts \in [Posts -> Post] /\ workers \in [Workers -> Worker]
      BY AtWork
<1>3. PICK q \in Worker : q = workers[w] /\ Keeps(q)
      BY AtWork
<1>4. PICK p \in Posts :
        /\ p = q.post /\ p \in PostsOf(q.slot) /\ p \notin q.written
        /\ p[1] \notin settings.overrun => Unsent(p)
      BY <1>1, <1>3, Routed
<1>5. PICK r \in Worker :
        /\ Go(w, r) /\ r.pc = "route" /\ r.slot = q.slot /\ r.now = q.now
        /\ r.missed = q.missed /\ r.written = q.written
  <2> DEFINE r == [q EXCEPT !.pc = "route"]
  <2>1. /\ r \in Worker /\ r.pc = "route" /\ r.slot = q.slot /\ r.now = q.now
        /\ r.missed = q.missed /\ r.written = q.written
        BY WithPc DEF Pcs, Routers
  <2>2. Go(w, r)
        BY <1>3 DEF MarkScheduled, GoTo
  <2> HIDE DEF r
  <2> QED
      BY <2>1, <2>2
<1>6. workers'[w] = r /\ Others(w)
      BY <1>2, <1>5, Moves DEF Others
<1>7. posts' = [posts EXCEPT ![p] = [@ EXCEPT !.status = "SCHEDULED", !.held = "none"]]
      BY <1>3, <1>4 DEF MarkScheduled
<1>8. /\ posts' \in [Posts -> Post] /\ posts'[p].status = "SCHEDULED" /\ posts'[p].held = "none"
      /\ posts'[p].live = posts[p].live
      /\ \A y \in Posts : y # p => posts'[y] = posts[y]
      BY <1>2, <1>7 DEF Post, PostStatuses, Reasons
<1>9. PostsStay
      BY <1>8 DEF PostsStay
<1>10. p[1] \notin settings.overrun => Settled(p)'
  <2> HAVE p[1] \notin settings.overrun
  <2>1. \A u \in Workers : u # w => ~ ToRoute(u, p)
        BY <1>1, <1>3, <1>4, OnlyRouter DEF Routers
  <2>2. ~ ToRoute(w, p)'
        BY <1>4, <1>5, <1>6 DEF ToRoute
  <2> QED
      BY <1>6, <2>1, <2>2 DEF Settled, ToRoute, Others
<1>11. \A y \in Posts : y # p /\ Settled(y) => Settled(y)'
  <2> SUFFICES ASSUME NEW y \in Posts, NEW u \in Workers, y # p, ToRoute(u, y)'
               PROVE  ToRoute(u, y)
      BY DEF Settled
  <2>1. CASE u = w
        BY <1>1, <1>3, <1>5, <1>6, <2>1 DEF ToRoute, Routers
  <2>2. CASE u # w
        BY <1>6, <2>2 DEF ToRoute, Others
  <2> QED
      BY <2>1, <2>2
<1>12. \A y \in Posts : y # p /\ Scheduling(y) => Scheduling(y)'
      BY <1>3, <1>4, <1>6 DEF Scheduling, Others
<1>13. PostsInv'
  <2>1. PostsInv /\ UNCHANGED <<settings, blocked, person, time>>
        BY <1>1 DEF AutopilotInv, PostsInv
  <2>2. posts'[p].live = "sending" => time = "past"
        BY <1>8 DEF AutopilotInv, PostsFit
  <2>3. ASSUME p[1] \notin settings.overrun
        PROVE  ~ Taking(p) /\ ~ (person.pc = "hold" /\ person.post = p) /\ blocked[p] = "no"
        BY <1>4, <2>3 DEF Unsent, Taking
  <2> QED
      BY <1>8, <1>10, <1>11, <1>12, <2>1, <2>2, <2>3, PostTouched
<1>14. Keeps(workers[w])'
      BY <1>1, <1>3, <1>5, <1>6 DEF Keeps, Writers, Routers, PostsOf
<1>15. workers[w].pc \in Routers /\ r.pc \in Routers
      BY <1>1, <1>5 DEF Routers
<1> QED
    BY <1>1, <1>3, <1>5, <1>8, <1>9, <1>13, <1>14, <1>15, WorksOnPosts

LEMMA CancelledTyped ==
  ASSUME NEW post \in Post
  PROVE  /\ Cancelled(post) \in Post /\ Cancelled(post).live \in {"none", "sending"}
         /\ Cancelled(post).live # "sending" \/ post.live = "sending"
         /\ Cancelled(post).status = post.status /\ Cancelled(post).held = post.held
         /\ Cancelled(post).approved = post.approved /\ Cancelled(post).cut = post.cut
PROOF BY DEF Cancelled, Post

LEMMA CancelFailedKeeps ==
  ASSUME AutopilotInv, NEW w \in Workers, CancelFailed(w)
  PROVE  AutopilotInv'
PROOF
<1>1. workers[w].pc = "cancel" /\ UNCHANGED <<settings, slots, blocked, person, time>>
      BY DEF CancelFailed
<1>2. posts \in [Posts -> Post] /\ workers \in [Workers -> Worker]
      BY AtWork
<1>3. PICK q \in Worker : q = workers[w] /\ Keeps(q)
      BY AtWork
<1>4. PICK p \in Posts :
        /\ p = q.post /\ p \in PostsOf(q.slot) /\ p \notin q.written
        /\ p[1] \notin settings.overrun => Unsent(p)
      BY <1>1, <1>3, Routed
<1>5. PICK r \in Worker :
        /\ Go(w, r) /\ r.pc = "hold" /\ r.slot = q.slot /\ r.now = q.now /\ r.post = p
        /\ r.missed = q.missed /\ r.written = q.written /\ r.reason # "none"
  <2> DEFINE r == [q EXCEPT !.pc = "hold", !.reason = "SCHEDULING_FAILED"]
  <2>1. /\ r \in Worker /\ r.pc = "hold" /\ r.slot = q.slot /\ r.now = q.now /\ r.post = q.post
        /\ r.missed = q.missed /\ r.written = q.written /\ r.reason # "none"
        BY DEF Worker, Routers, Reasons
  <2>2. Go(w, r)
        BY <1>3 DEF CancelFailed
  <2> HIDE DEF r
  <2> QED
      BY <1>4, <2>1, <2>2
<1>6. workers'[w] = r /\ Others(w)
      BY <1>2, <1>5, Moves DEF Others
<1>7. posts' = [posts EXCEPT ![p] = Cancelled(@)] \/ posts' = [posts EXCEPT ![p].cut = TRUE]
      BY <1>3, <1>4 DEF CancelFailed, AfterFailure
<1>8. /\ posts' \in [Posts -> Post]
      /\ posts'[p].status = posts[p].status /\ posts'[p].held = posts[p].held
      /\ posts'[p].approved = posts[p].approved
      /\ posts'[p].live = "sending" => posts[p].live = "sending"
      /\ posts'[p].cut \/ posts'[p].live \in {"none", "sending"}
      /\ \A y \in Posts : y # p => posts'[y] = posts[y]
  <2>1. posts[p] \in Post
        BY <1>2
  <2>2. CASE posts' = [posts EXCEPT ![p] = Cancelled(@)]
    <3>1. /\ Cancelled(posts[p]) \in Post /\ Cancelled(posts[p]).live \in {"none", "sending"}
          /\ Cancelled(posts[p]).live # "sending" \/ posts[p].live = "sending"
          /\ Cancelled(posts[p]).status = posts[p].status /\ Cancelled(posts[p]).held = posts[p].held
          /\ Cancelled(posts[p]).approved = posts[p].approved
          BY <2>1, CancelledTyped
    <3>2. posts'[p] = Cancelled(posts[p])
          BY <1>2, <2>2
    <3>3. posts' \in [Posts -> Post] /\ \A y \in Posts : y # p => posts'[y] = posts[y]
          BY <1>2, <2>2, <3>1
    <3> QED
        BY <3>1, <3>2, <3>3
  <2>3. CASE posts' = [posts EXCEPT ![p].cut = TRUE]
        BY <1>2, <2>1, <2>3 DEF Post
  <2> QED
      BY <1>7, <2>2, <2>3
<1>9. PostsStay
      BY <1>8 DEF PostsStay
<1>10. \A y \in Posts : Settled(y) => Settled(y)'
  <2> SUFFICES ASSUME NEW y \in Posts, NEW u \in Workers, ToRoute(u, y)'
               PROVE  ToRoute(u, y)
      BY DEF Settled
  <2>1. CASE u = w
        BY <1>1, <1>3, <1>5, <1>6, <2>1 DEF ToRoute, Routers
  <2>2. CASE u # w
        BY <1>6, <2>2 DEF ToRoute, Others
  <2> QED
      BY <2>1, <2>2
<1>11. \A y \in Posts : y # p /\ Scheduling(y) => Scheduling(y)'
      BY <1>3, <1>4, <1>6 DEF Scheduling, Others
<1>12. PostsInv'
  <2>1. PostsInv /\ UNCHANGED <<settings, blocked, person, time>>
        BY <1>1 DEF AutopilotInv, PostsInv
  <2>2. /\ posts'[p].live = "sending" => time = "past"
        /\ Taking(p) => posts'[p].status # "none"
        BY <1>8 DEF AutopilotInv, PostsFit, PauseFits
  <2>3. ASSUME p[1] \notin settings.overrun
        PROVE  /\ posts'[p].status = "READY" => posts'[p].held # "none"
               /\ posts'[p].status = "SCHEDULED" => posts'[p].held # "APPROVAL_REQUIRED"
               /\ ~ (posts'[p].status = "SCHEDULED" /\ ~ posts'[p].approved)
               /\ ~ Taking(p) /\ ~ (person.pc = "hold" /\ person.post = p) /\ blocked[p] = "no"
               /\ posts'[p].cut \/ posts'[p].live = "none"
        BY <1>4, <1>8, <2>3 DEF Unsent, Taking
  <2> QED
      BY <1>8, <1>10, <1>11, <2>1, <2>2, <2>3, PostTouched
<1>13. Keeps(workers[w])'
      BY <1>1, <1>3, <1>4, <1>5, <1>6 DEF Keeps, Writers, Routers, PostsOf
<1>14. workers[w].pc \in Routers /\ r.pc \in Routers
      BY <1>1, <1>5 DEF Routers
<1> QED
    BY <1>1, <1>3, <1>5, <1>8, <1>9, <1>12, <1>13, <1>14, WorksOnPosts

LEMMA HoldKeeps ==
  ASSUME AutopilotInv, NEW w \in Workers, Hold(w)
  PROVE  AutopilotInv'
PROOF
<1>1. workers[w].pc = "hold" /\ UNCHANGED <<settings, slots, blocked, person, time>>
      BY DEF Hold
<1>2. posts \in [Posts -> Post] /\ workers \in [Workers -> Worker]
      BY AtWork
<1>3. PICK q \in Worker : q = workers[w] /\ Keeps(q)
      BY AtWork
<1>4. PICK p \in Posts : p = q.post /\ p \notin q.written /\ q.reason # "none" /\ q.reason \in Reasons
      BY <1>1, <1>3 DEF Keeps, PostsOf, Worker
<1>5. PICK r \in Worker :
        /\ Go(w, r) /\ r.pc = "route" /\ r.slot = q.slot /\ r.now = q.now
        /\ r.missed = q.missed /\ r.written = q.written
  <2> DEFINE r == [q EXCEPT !.pc = "route"]
  <2>1. /\ r \in Worker /\ r.pc = "route" /\ r.slot = q.slot /\ r.now = q.now
        /\ r.missed = q.missed /\ r.written = q.written
        BY WithPc DEF Pcs, Routers
  <2>2. Go(w, r)
        BY <1>3 DEF Hold, GoTo
  <2> HIDE DEF r
  <2> QED
      BY <2>1, <2>2
<1>6. workers'[w] = r /\ Others(w)
      BY <1>2, <1>5, Moves DEF Others
<1>7. PICK held \in Reasons :
        /\ held = IF q.reason = "APPROVAL_REQUIRED" THEN posts[p].held ELSE q.reason
        /\ posts' = [posts EXCEPT ![p].held = held]
  <2>1. (IF q.reason = "APPROVAL_REQUIRED" THEN posts[p].held ELSE q.reason) \in Reasons
        BY <1>2, <1>4 DEF Post
  <2>2. posts' = [posts EXCEPT ![p].held = IF q.reason = "APPROVAL_REQUIRED" THEN posts[p].held ELSE q.reason]
        BY <1>3, <1>4 DEF Hold
  <2> QED
      BY <2>1, <2>2
<1>8. /\ posts' \in [Posts -> Post] /\ posts'[p].held = held /\ posts'[p].status = posts[p].status
      /\ posts'[p].live = posts[p].live /\ posts'[p].approved = posts[p].approved
      /\ posts'[p].cut = posts[p].cut
      /\ \A y \in Posts : y # p => posts'[y] = posts[y]
      BY <1>2, <1>7 DEF Post
<1>9. PostsStay
      BY <1>8 DEF PostsStay
<1>10. \A y \in Posts : Settled(y) => Settled(y)'
  <2> SUFFICES ASSUME NEW y \in Posts, NEW u \in Workers, ToRoute(u, y)'
               PROVE  ToRoute(u, y)
      BY DEF Settled
  <2>1. CASE u = w
        BY <1>1, <1>3, <1>5, <1>6, <2>1 DEF ToRoute, Routers
  <2>2. CASE u # w
        BY <1>6, <2>2 DEF ToRoute, Others
  <2> QED
      BY <2>1, <2>2
<1>11. \A y \in Posts : Scheduling(y)' <=> Scheduling(y)
      BY <1>1, <1>5, <1>6 DEF Scheduling, Others
<1>12. PostsInv'
  <2>1. PostsInv /\ UNCHANGED <<settings, blocked, person, time>>
        BY <1>1 DEF AutopilotInv, PostsInv
  <2>2. Approving(p)' <=> Approving(p)
        BY <1>1, <1>8 DEF Approving
  <2>3. posts[p].live = "sending" => time = "past"
        BY DEF AutopilotInv, PostsFit
  <2>4. Taking(p) => posts[p].status # "none"
        BY DEF AutopilotInv, PauseFits
  <2>5. p[1] \notin settings.overrun =>
          /\ posts[p].status = "READY" => posts[p].held # "none"
          /\ posts[p].status = "SCHEDULED" => posts[p].held # "APPROVAL_REQUIRED"
          /\ posts[p].status = "SCHEDULED" /\ ~ posts[p].approved => Settled(p)
          /\ Taking(p) => posts[p].held # "APPROVAL_REQUIRED" /\ Settled(p)
          /\ person.pc = "hold" /\ person.post = p => posts[p].live = "none"
          /\ posts[p].status = "READY" /\ ~ posts[p].cut /\ ~ Approving(p) /\ ~ Scheduling(p)
               => posts[p].live = "none"
          /\ blocked[p] # "no" => posts[p].live = "none" \/ Approving(p)
        BY DEF AutopilotInv, PostsFit, PauseFits, HeldPostsRest, BlockedRest
  <2>6. held = "none" \/ held = "APPROVAL_REQUIRED" => held = posts[p].held
        BY <1>4, <1>7
  <2> QED
      BY <1>8, <1>10, <1>11, <2>1, <2>2, <2>3, <2>4, <2>5, <2>6, PostTouched
<1>13. Keeps(workers[w])'
      BY <1>1, <1>3, <1>5, <1>6 DEF Keeps, Writers, Routers, PostsOf
<1>14. workers[w].pc \in Routers /\ r.pc \in Routers
      BY <1>1, <1>5 DEF Routers
<1> QED
    BY <1>1, <1>3, <1>5, <1>8, <1>9, <1>12, <1>13, <1>14, WorksOnPosts

LEMMA MarkExpiredKeeps ==
  ASSUME AutopilotInv, NEW w \in Workers, MarkExpired(w)
  PROVE  AutopilotInv'
PROOF
<1>1. workers[w].pc = "tidy" /\ UNCHANGED <<settings, slots, blocked, person, time>>
      BY DEF MarkExpired
<1>2. posts \in [Posts -> Post] /\ workers \in [Workers -> Worker]
      BY AtWork
<1>3. PICK q \in Worker : q = workers[w] /\ Keeps(q)
      BY AtWork
<1>4. PICK p \in Posts : /\ posts' = [posts EXCEPT ![p].held = "EXPIRED"]
                         /\ Go(w, [q EXCEPT !.expiring = @ \ {p}])
      BY <1>3 DEF MarkExpired, Worker
<1>5. PICK r \in Worker :
        /\ Go(w, r) /\ r.pc = "tidy" /\ r.now = q.now /\ r.missed = q.missed /\ r.written = q.written
  <2> DEFINE r == [q EXCEPT !.expiring = @ \ {p}]
  <2>1. r \in Worker /\ r.pc = q.pc /\ r.now = q.now /\ r.missed = q.missed /\ r.written = q.written
        BY DEF Worker
  <2> QED
      BY <1>1, <1>3, <1>4, <2>1
<1>6. workers' \in [Workers -> Worker] /\ workers'[w] = r /\ Others(w)
      BY <1>2, <1>5, Moves DEF Others
<1>7. /\ posts' \in [Posts -> Post] /\ posts'[p].held = "EXPIRED" /\ posts'[p].status = posts[p].status
      /\ posts'[p].live = posts[p].live /\ posts'[p].approved = posts[p].approved
      /\ posts'[p].cut = posts[p].cut
      /\ \A y \in Posts : y # p => posts'[y] = posts[y]
      BY <1>2, <1>4 DEF Post, Reasons
<1>8. PostsStay
      BY <1>7 DEF PostsStay
<1>9. AutopilotTyped'
      BY <1>1, <1>6, <1>7 DEF AutopilotInv, AutopilotTyped
<1>10. Keeps(workers[w])'
      BY <1>1, <1>3, <1>5, <1>6 DEF Keeps, Writers, Routers
<1>11. WorkersKeep'
      BY <1>1, <1>6, <1>8, <1>10, WorkersKept DEF AutopilotInv, Others
<1>12. WorkersInTime'
      BY <1>1, <1>3, <1>5, <1>6, WorkersStayInTime DEF AutopilotInv, Others, OverrunStays
<1>13. OneHandler' /\ SlotsHeld'
      BY <1>1, <1>5, <1>6, NotHandling, HandlersKept DEF AutopilotInv, OverrunStays
<1>14. WrittenExist'
      BY <1>1, <1>8, WrittenStay DEF AutopilotInv
<1>15. FailuresPause'
      BY <1>1, <1>6, FailuresStillPause DEF AutopilotInv, Others
<1>16. \A y \in Posts : Settled(y) => Settled(y)'
  <2> SUFFICES ASSUME NEW y \in Posts, NEW u \in Workers, ToRoute(u, y)'
               PROVE  ToRoute(u, y)
      BY DEF Settled
  <2> QED
      BY <1>5, <1>6 DEF ToRoute, Others, Routers
<1>17. \A y \in Posts : Scheduling(y)' <=> Scheduling(y)
      BY <1>1, <1>5, <1>6 DEF Scheduling, Others
<1>18. PostsInv'
  <2>1. PostsInv /\ UNCHANGED <<settings, blocked, person, time>>
        BY <1>1 DEF AutopilotInv, PostsInv
  <2>2. Approving(p)' <=> Approving(p)
        BY <1>1, <1>7 DEF Approving
  <2>3. posts[p].live = "sending" => time = "past"
        BY DEF AutopilotInv, PostsFit
  <2>4. Taking(p) => posts[p].status # "none"
        BY DEF AutopilotInv, PauseFits
  <2>5. p[1] \notin settings.overrun =>
          /\ posts[p].status = "SCHEDULED" /\ ~ posts[p].approved => Settled(p)
          /\ Taking(p) => Settled(p)
          /\ person.pc = "hold" /\ person.post = p => posts[p].live = "none"
          /\ posts[p].status = "READY" /\ ~ posts[p].cut /\ ~ Approving(p) /\ ~ Scheduling(p)
               => posts[p].live = "none"
          /\ blocked[p] # "no" => posts[p].live = "none" \/ Approving(p)
        BY DEF AutopilotInv, PostsFit, PauseFits, HeldPostsRest, BlockedRest
  <2> QED
      BY <1>7, <1>16, <1>17, <2>1, <2>2, <2>3, <2>4, <2>5, PostTouched
<1> QED
    BY <1>9, <1>11, <1>12, <1>13, <1>14, <1>15, <1>18 DEF AutopilotInv, PostsInv

LEMMA OverrunKeeps ==
  ASSUME AutopilotInv, NEW w \in Workers, Overrun(w)
  PROVE  AutopilotInv'
PROOF
<1> DEFINE r == [workers[w] EXCEPT !.late = TRUE]
<1>1. Go(w, r) /\ UNCHANGED <<settings, slots, posts, blocked, person, time>>
      BY DEF Overrun, Go
<1>2. /\ workers[w] \in Worker /\ workers \in [Workers -> Worker]
      BY AtWork
<1>3. /\ r \in Worker /\ r.pc = workers[w].pc /\ r.now = workers[w].now /\ r.missed = workers[w].missed
      /\ r.slot = workers[w].slot /\ r.todo = workers[w].todo /\ r.written = workers[w].written
      /\ r.post = workers[w].post /\ r.reason = workers[w].reason
      BY <1>2 DEF Worker
<1> HIDE DEF r
<1>4. workers' \in [Workers -> Worker] /\ workers'[w] = r /\ Others(w)
      BY <1>1, <1>2, <1>3, Moves DEF Others
<1>5. \A u \in Workers :
        /\ workers'[u].pc = workers[u].pc /\ workers'[u].now = workers[u].now
        /\ workers'[u].slot = workers[u].slot /\ workers'[u].written = workers[u].written
        /\ workers'[u].post = workers[u].post
      BY <1>3, <1>4 DEF Others
<1>6. AutopilotTyped' /\ FailuresPause'
      BY <1>1, <1>4, <1>5 DEF AutopilotInv, AutopilotTyped, FailuresPause, Active
<1>7. OneHandler' /\ SlotsHeld'
      BY <1>1, <1>5 DEF AutopilotInv, OneHandler, SlotsHeld, Handling
<1>8. Keeps(workers[w])'
  <2>1. Keeps(workers[w])
        BY AtWork
  <2>2. Existing(workers[w].slot)' = Existing(workers[w].slot)
        BY <1>1, <1>5 DEF Existing
  <2> QED
      BY <1>1, <1>3, <1>4, <2>1, <2>2 DEF Keeps, PostsOf
<1>9. WorkersKeep' /\ WrittenExist'
      BY <1>1, <1>4, <1>8, WorkersKept, WrittenStay DEF AutopilotInv, PostsStay, Others
<1>10. WorkersInTime'
      BY <1>1, <1>5 DEF AutopilotInv, WorkersInTime
<1>11. \A p \in Posts :
         /\ Settled(p)' <=> Settled(p)
         /\ Scheduling(p)' <=> Scheduling(p)
         /\ Approving(p)' <=> Approving(p)
         /\ Taking(p)' <=> Taking(p)
  <2>1. \A p \in Posts, u \in Workers : ToRoute(u, p)' <=> ToRoute(u, p)
        BY <1>5 DEF ToRoute
  <2>2. \A p \in Posts : Settled(p)' <=> Settled(p)
        BY <2>1 DEF Settled
  <2>3. \A p \in Posts : Scheduling(p)' <=> Scheduling(p)
        BY <1>5 DEF Scheduling
  <2>4. \A p \in Posts : (Approving(p)' <=> Approving(p)) /\ (Taking(p)' <=> Taking(p))
        BY <1>1 DEF Approving, Taking
  <2> QED
      BY <2>2, <2>3, <2>4
<1>12. PostsInv'
      BY <1>1, <1>11 DEF AutopilotInv, PostsInv, PostsFit, PauseFits, HeldPostsRest, BlockedRest
<1> QED
    BY <1>6, <1>7, <1>9, <1>10, <1>12 DEF AutopilotInv, PostsInv

LEMMA CrashKeeps ==
  ASSUME AutopilotInv, NEW w \in Workers, Crash(w)
  PROVE  AutopilotInv'
PROOF
<1>1. /\ UNCHANGED <<slots, blocked, person, time>> /\ Go(w, Idle)
      /\ posts' = IF workers[w].pc \in {"mark", "cancel"}
                  THEN [posts EXCEPT ![workers[w].post].cut = TRUE] ELSE posts
      /\ settings' = IF workers[w].pc = "pause" THEN [settings EXCEPT !.unpaused = TRUE] ELSE settings
      BY DEF Crash
<1>2. posts \in [Posts -> Post] /\ workers \in [Workers -> Worker] /\ settings \in Settings
      BY AtWork
<1>3. PICK q \in Worker : q = workers[w] /\ Keeps(q)
      BY AtWork
<1>4. workers' \in [Workers -> Worker] /\ workers'[w] = Idle /\ Others(w)
      BY <1>1, <1>2, IdleTyped, Moves DEF Others
<1>5. /\ posts' \in [Posts -> Post]
      /\ \A y \in Posts : /\ posts'[y].status = posts[y].status /\ posts'[y].held = posts[y].held
                          /\ posts'[y].approved = posts[y].approved /\ posts'[y].live = posts[y].live
                          /\ posts[y].cut => posts'[y].cut
                          /\ q.pc \in {"mark", "cancel"} /\ q.post = y => posts'[y].cut
  <2>1. CASE q.pc \in {"mark", "cancel"}
    <3>1. PICK p \in Posts : p = q.post
          BY <1>3, <2>1 DEF Keeps, PostsOf
    <3>2. posts' = [posts EXCEPT ![p].cut = TRUE]
          BY <1>1, <1>3, <2>1, <3>1
    <3>3. /\ posts' \in [Posts -> Post] /\ posts'[p].cut /\ posts'[p].status = posts[p].status
          /\ posts'[p].held = posts[p].held /\ posts'[p].approved = posts[p].approved
          /\ posts'[p].live = posts[p].live
          /\ \A y \in Posts : y # p => posts'[y] = posts[y]
          BY <1>2, <3>2 DEF Post
    <3> QED
        BY <3>1, <3>3
  <2>2. CASE q.pc \notin {"mark", "cancel"}
        BY <1>1, <1>2, <1>3, <2>2
  <2> QED
      BY <2>1, <2>2
<1>6. settings' \in Settings /\ settings'.overrun = settings.overrun
      BY <1>1, <1>2 DEF Settings
<1>7. AutopilotTyped'
      BY <1>1, <1>4, <1>5, <1>6 DEF AutopilotInv, AutopilotTyped
<1>8. PostsStay
      BY <1>5 DEF PostsStay
<1>9. Keeps(workers[w])'
      BY <1>4, IdleTyped DEF Keeps, Writers, Routers
<1>10. WorkersKeep'
      BY <1>1, <1>4, <1>8, <1>9, WorkersKept DEF AutopilotInv, Others
<1>11. WorkersInTime'
      BY <1>1, <1>4, <1>6, IdleTyped, WorkersStayInTime DEF AutopilotInv, Others, OverrunStays
<1>12. OneHandler' /\ SlotsHeld'
      BY <1>1, <1>4, <1>6, IdleTyped, NotHandling, HandlersKept DEF AutopilotInv, OverrunStays
<1>13. WrittenExist'
      BY <1>1, <1>8, WrittenStay DEF AutopilotInv
<1>14. FailuresPause'
  <2>1. CASE q.pc = "pause"
    <3>1. settings'.unpaused
          BY <1>1, <1>2, <1>3, <2>1 DEF Settings
    <3> QED
        BY <3>1 DEF FailuresPause
  <2>2. CASE q.pc # "pause"
        BY <1>1, <1>3, <1>4, <2>2, FailuresStillPause DEF AutopilotInv, Others
  <2> QED
      BY <2>1, <2>2
<1>15. \A y \in Posts : Settled(y) => Settled(y)'
  <2> SUFFICES ASSUME NEW y \in Posts, NEW u \in Workers, ToRoute(u, y)'
               PROVE  ToRoute(u, y)
      BY DEF Settled
  <2> QED
      BY <1>4, IdleTyped DEF ToRoute, Others, Routers
<1>16. \A y \in Posts : Scheduling(y) => Scheduling(y)' \/ posts'[y].cut
      BY <1>3, <1>4, <1>5 DEF Scheduling, Others
<1>17. \A y \in Posts : (Approving(y)' <=> Approving(y)) /\ (Taking(y)' <=> Taking(y))
      BY <1>1, <1>5 DEF Approving, Taking
<1>18. PostsFit' /\ PauseFits'
      BY <1>1, <1>5, <1>6, <1>15, <1>17 DEF AutopilotInv, PostsFit, PauseFits
<1>19. HeldPostsRest' /\ BlockedRest'
      BY <1>1, <1>5, <1>6, <1>16, <1>17 DEF AutopilotInv, HeldPostsRest, BlockedRest
<1> QED
    BY <1>7, <1>10, <1>11, <1>12, <1>13, <1>14, <1>18, <1>19 DEF AutopilotInv

LEMMA WorkersKeepAll ==
  ASSUME AutopilotInv, NEW w \in Workers, WorkerStep(w) \/ Overrun(w) \/ Crash(w)
  PROVE  AutopilotInv'
PROOF
BY SweepKeeps, MarkExpiredKeeps, SkipMissedKeeps, PlanSlotsKeeps, ClaimKeeps, EndSweepKeeps, CheckKeeps,
   ReleaseKeeps, SkipSlotKeeps, RecoverKeeps, WriteKeeps, RecheckKeeps, SavePostKeeps, FinishSlotKeeps,
   FailSlotKeeps, CountFailureKeeps, AutoPauseKeeps, RouteKeeps, ScheduleKeeps, MarkScheduledKeeps,
   CancelFailedKeeps, HoldKeeps, OverrunKeeps, CrashKeeps
   DEF WorkerStep

-------------------------------------------------------------------------------
(* The steps of people, of publish runs and of time.                       *)

(* What the invariant says of one post.                                    *)
PostFits(p) ==
  /\ posts[p].live = "sending" => time = "past"
  /\ blocked[p] # "no" => time = "past"
  /\ Taking(p) => posts[p].status # "none"
  /\ p[1] \notin settings.overrun =>
       /\ posts[p].status = "READY" => posts[p].held # "none"
       /\ posts[p].status = "SCHEDULED" => posts[p].held # "APPROVAL_REQUIRED"
       /\ posts[p].status = "SCHEDULED" /\ ~ posts[p].approved => Settled(p)
       /\ Taking(p) => posts[p].held # "APPROVAL_REQUIRED" /\ Settled(p)
       /\ person.pc = "hold" /\ person.post = p => posts[p].live = "none"
       /\ posts[p].status = "READY" /\ ~ posts[p].cut /\ ~ Approving(p) /\ ~ Scheduling(p)
            => posts[p].live = "none"
       /\ blocked[p] # "no" => posts[p].live = "none" \/ Approving(p)

LEMMA PostsFitAll == PostsInv <=> \A p \in Posts : PostFits(p)
PROOF BY DEF PostsInv, PostsFit, PauseFits, HeldPostsRest, BlockedRest, PostFits

LEMMA PostsFitAllNext == PostsInv' <=> \A p \in Posts : PostFits(p)'
PROOF BY DEF PostsInv, PostsFit, PauseFits, HeldPostsRest, BlockedRest, PostFits

LEMMA Untouched ==
  ASSUME NEW p \in Posts, PostFits(p), workers' = workers, posts'[p] = posts[p], blocked'[p] = blocked[p],
         OverrunStays, time = "past" => time' = "past", Approving(p) => Approving(p)', Taking(p)' => Taking(p),
         person'.pc = "hold" /\ person'.post = p => person.pc = "hold" /\ person.post = p
  PROVE  PostFits(p)'
PROOF
<1>1. (Settled(p)' <=> Settled(p)) /\ (Scheduling(p)' <=> Scheduling(p))
      BY DEF Settled, ToRoute, Scheduling
<1> QED
    BY <1>1 DEF PostFits, OverrunStays

(* What a step of no worker keeps.                                         *)
LEMMA WorkersRest ==
  ASSUME AutopilotInv, UNCHANGED <<workers, time>>, OverrunStays, AutopilotTyped', PostsStay, FailuresPause',
         \A s \in Slots : \/ slots'[s].status = slots[s].status
                          \/ slots[s].status \in {"none", "PLANNED", "FAILED"}
                          \/ slots[s].status = "SKIPPED" /\ time = "far",
         \A s \in Slots : slots'[s].status = "GENERATED" => slots[s].status = "GENERATED",
         \A p \in Posts : PostFits(p)'
  PROVE  AutopilotInv'
PROOF
<1>1. OneHandler' /\ SlotsHeld'
      BY SlotsUnheld DEF AutopilotInv, OverrunStays
<1>2. WorkersKeep'
      BY WorkersKept DEF AutopilotInv
<1>3. WorkersInTime'
      BY WorkersStayInTime DEF AutopilotInv, OverrunStays
<1>4. WrittenExist'
      BY WrittenStay DEF AutopilotInv
<1>5. PostsInv'
      BY PostsFitAllNext
<1> QED
    BY <1>1, <1>2, <1>3, <1>4, <1>5 DEF AutopilotInv, PostsInv

LEMMA Typed ==
  ASSUME AutopilotInv
  PROVE  /\ settings \in Settings /\ slots \in [Slots -> Slot] /\ posts \in [Posts -> Post]
         /\ blocked \in [Posts -> PostStatuses \cup {"no"}] /\ workers \in [Workers -> Worker]
         /\ person \in Person /\ time \in Times
         /\ \A p \in Posts : PostFits(p)
PROOF BY PostsFitAll DEF AutopilotInv, AutopilotTyped, PostsInv

LEMMA PauseKeeps ==
  ASSUME AutopilotInv, Pause
  PROVE  AutopilotInv'
PROOF
<1>1. /\ person.pc = "none" /\ UNCHANGED <<slots, posts, blocked, workers, time>>
      /\ settings' = [settings EXCEPT !.status = "PAUSED"]
      /\ person' = [NoRequest EXCEPT !.pc = "find"]
      BY DEF Pause, Ask
<1>2. settings' \in Settings /\ settings'.status = "PAUSED"
      BY <1>1, Typed DEF Settings
<1>3. person' \in Person /\ person'.pc = "find" /\ person'.todo = {}
      BY <1>1, NoRequestTyped DEF Person
<1>4. AutopilotTyped'
      BY <1>1, <1>2, <1>3 DEF AutopilotInv, AutopilotTyped
<1>5. FailuresPause'
      BY <1>2 DEF FailuresPause, Active
<1>6. \A p \in Posts : PostFits(p)'
  <2> SUFFICES ASSUME NEW p \in Posts PROVE PostFits(p)'
      OBVIOUS
  <2>1. PostFits(p) /\ ~ Taking(p)' /\ (Approving(p) => Approving(p)')
        BY <1>1, <1>3, Typed DEF Taking, Approving
  <2> QED
      BY <1>1, <1>3, <2>1, Untouched DEF OverrunStays
<1> QED
    BY <1>1, <1>4, <1>5, <1>6, WorkersRest DEF PostsStay, OverrunStays

LEMMA FindScheduledKeeps ==
  ASSUME AutopilotInv, FindScheduled
  PROVE  AutopilotInv'
PROOF
<1> DEFINE found == {p \in Posts : posts[p].status = "SCHEDULED" /\ ~ posts[p].approved}
<1>1. /\ person.pc = "find" /\ UNCHANGED <<settings, slots, posts, blocked, workers, time>>
      /\ person' = [person EXCEPT !.pc = "unschedule", !.todo = found]
      BY DEF FindScheduled
<1>2. found \in SUBSET Posts
      OBVIOUS
<1> HIDE DEF found
<1>3. person' \in Person /\ person'.pc = "unschedule" /\ person'.todo = found
      BY <1>1, <1>2, Typed DEF Person
<1>4. AutopilotTyped'
      BY <1>1, <1>3 DEF AutopilotInv, AutopilotTyped
<1>5. FailuresPause'
      BY <1>1 DEF AutopilotInv, FailuresPause, Active
<1>6. \A p \in Posts : PostFits(p)'
  <2> SUFFICES ASSUME NEW p \in Posts PROVE PostFits(p)'
      OBVIOUS
  <2>1. PostFits(p)
        BY Typed
  <2>2. Taking(p)' => posts[p].status = "SCHEDULED" /\ ~ posts[p].approved
        BY <1>3 DEF Taking, found
  <2>3. (Settled(p)' <=> Settled(p)) /\ (Scheduling(p)' <=> Scheduling(p))
        BY <1>1 DEF Settled, ToRoute, Scheduling
  <2>4. Approving(p)' <=> Approving(p)
        BY <1>1, <1>3 DEF Approving
  <2> QED
      BY <1>1, <1>3, <2>1, <2>2, <2>3, <2>4 DEF PostFits
<1> QED
    BY <1>1, <1>4, <1>5, <1>6, WorkersRest DEF PostsStay, OverrunStays

LEMMA UnscheduleKeeps ==
  ASSUME AutopilotInv, Unschedule
  PROVE  AutopilotInv'
PROOF
<1>1. person.pc = "unschedule" /\ UNCHANGED <<settings, slots, blocked, workers, time>>
      BY DEF Unschedule
<1>2. FailuresPause'
      BY <1>1 DEF AutopilotInv, FailuresPause, Active
<1>3. CASE person.todo = {}
  <2>1. person' = NoRequest /\ posts' = posts
        BY <1>3 DEF Unschedule
  <2>2. AutopilotTyped'
        BY <1>1, <2>1, NoRequestTyped DEF AutopilotInv, AutopilotTyped
  <2>3. \A p \in Posts : PostFits(p)'
    <3> SUFFICES ASSUME NEW p \in Posts PROVE PostFits(p)'
        OBVIOUS
    <3>1. PostFits(p) /\ ~ Taking(p)' /\ (Approving(p) => Approving(p)')
          BY <1>1, <2>1, NoRequestTyped, Typed DEF Taking, Approving
    <3> QED
        BY <1>1, <2>1, <3>1, NoRequestTyped, Untouched DEF OverrunStays
  <2> QED
      BY <1>1, <1>2, <2>1, <2>2, <2>3, WorkersRest DEF PostsStay, OverrunStays
<1>4. CASE person.todo # {}
  <2>1. PICK p \in person.todo :
          /\ posts' = [posts EXCEPT ![p] = Cancelled(@)]
          /\ person' = [person EXCEPT !.todo = @ \ {p}, !.post = p,
                          !.pc = IF posts[p].live = "sending" THEN "unschedule" ELSE "hold"]
        BY <1>4 DEF Unschedule
  <2>2. p \in Posts /\ posts[p] \in Post
        BY Typed DEF Person
  <2> DEFINE pc == IF posts[p].live = "sending" THEN "unschedule" ELSE "hold"
  <2>3. pc \in {"unschedule", "hold"} /\ (pc = "hold" => posts[p].live # "sending")
        OBVIOUS
  <2>4. person' = [person EXCEPT !.todo = @ \ {p}, !.post = p, !.pc = pc]
        BY <2>1
  <2> HIDE DEF pc
  <2>5. person' \in Person /\ person'.pc = pc /\ person'.todo = person.todo \ {p} /\ person'.post = p
        BY <2>2, <2>3, <2>4, Typed DEF Person
  <2>6. /\ Cancelled(posts[p]) \in Post /\ Cancelled(posts[p]).live \in {"none", "sending"}
        /\ Cancelled(posts[p]).live # "sending" \/ posts[p].live = "sending"
        /\ Cancelled(posts[p]).status = posts[p].status /\ Cancelled(posts[p]).held = posts[p].held
        /\ Cancelled(posts[p]).approved = posts[p].approved /\ Cancelled(posts[p]).cut = posts[p].cut
        BY <2>2, CancelledTyped
  <2>7. /\ posts' \in [Posts -> Post] /\ posts'[p] = Cancelled(posts[p])
        /\ \A y \in Posts : y # p => posts'[y] = posts[y]
        BY <2>1, <2>2, <2>6, Typed
  <2>8. AutopilotTyped'
        BY <1>1, <2>5, <2>7 DEF AutopilotInv, AutopilotTyped
  <2>9. PostsStay
        BY <2>6, <2>7 DEF PostsStay
  <2>10. \A y \in Posts : PostFits(y)'
    <3> SUFFICES ASSUME NEW y \in Posts PROVE PostFits(y)'
        OBVIOUS
    <3>1. PostFits(y)
          BY Typed
    <3>2. Approving(y)' <=> Approving(y)
          BY <1>1, <2>3, <2>5, <2>6, <2>7 DEF Approving
    <3>3. CASE y # p
      <4>1. Taking(y)' => Taking(y)
            BY <2>5, <3>3 DEF Taking
      <4> QED
          BY <1>1, <2>5, <2>7, <3>1, <3>2, <3>3, <4>1, Untouched DEF OverrunStays
    <3>4. CASE y = p
      <4>1. Taking(p)
            BY <2>2 DEF Taking
      <4>2. (Settled(p)' <=> Settled(p)) /\ (Scheduling(p)' <=> Scheduling(p))
            BY <1>1 DEF Settled, ToRoute, Scheduling
      <4> QED
          BY <1>1, <2>3, <2>5, <2>6, <2>7, <3>1, <3>2, <3>4, <4>1, <4>2 DEF PostFits
    <3> QED
        BY <3>3, <3>4
  <2> QED
      BY <1>1, <1>2, <2>8, <2>9, <2>10, WorkersRest DEF OverrunStays
<1> QED
    BY <1>3, <1>4

LEMMA HoldUnscheduledKeeps ==
  ASSUME AutopilotInv, HoldUnscheduled
  PROVE  AutopilotInv'
PROOF
<1>1. /\ person.pc = "hold" /\ UNCHANGED <<settings, slots, blocked, workers, time>>
      /\ person' = [person EXCEPT !.pc = "unschedule", !.post = None]
      BY DEF HoldUnscheduled
<1>2. PICK p : p = person.post
      OBVIOUS
<1>3. posts' = [posts EXCEPT ![p] = [@ EXCEPT !.status = "READY", !.held = "PAUSED"]]
      BY <1>2 DEF HoldUnscheduled
<1>4. /\ posts' \in [Posts -> Post]
      /\ \A y \in Posts : y # p => posts'[y] = posts[y]
      /\ p \in Posts => /\ posts'[p].status = "READY" /\ posts'[p].held = "PAUSED"
                        /\ posts'[p].live = posts[p].live
  <2>1. PICK m : m = [posts[p] EXCEPT !.status = "READY", !.held = "PAUSED"]
        OBVIOUS
  <2>2. posts' = [posts EXCEPT ![p] = m]
        BY <1>3, <2>1
  <2>3. posts \in [Posts -> Post]
        BY Typed
  <2>4. p \in Posts =>
          m \in Post /\ m.status = "READY" /\ m.held = "PAUSED" /\ m.live = posts[p].live
        BY <2>1, <2>3 DEF Post, PostStatuses, Reasons
  <2> QED
      BY ONLY <2>2, <2>3, <2>4
<1>5. person' \in Person /\ person'.pc = "unschedule" /\ person'.todo = person.todo
      BY <1>1, Typed DEF Person
<1>6. AutopilotTyped'
      BY <1>1, <1>4, <1>5 DEF AutopilotInv, AutopilotTyped
<1>7. FailuresPause'
      BY <1>1 DEF AutopilotInv, FailuresPause, Active
<1>8. PostsStay
      BY <1>4 DEF PostsStay
<1>9. \A y \in Posts : PostFits(y)'
  <2> SUFFICES ASSUME NEW y \in Posts PROVE PostFits(y)'
      OBVIOUS
  <2>1. PostFits(y)
        BY Typed
  <2>2. CASE y # p
    <3>1. Taking(y)' => Taking(y)
          BY <1>5 DEF Taking
    <3>2. Approving(y) => Approving(y)'
          BY <1>1, <1>4, <2>2 DEF Approving
    <3> QED
        BY <1>1, <1>4, <1>5, <2>1, <2>2, <3>1, <3>2, Untouched DEF OverrunStays
  <2>3. CASE y = p
    <3>1. y[1] \notin settings.overrun => Taking(y) /\ posts[y].live = "none" /\ Settled(y)
          BY <1>1, <1>2, <2>1, <2>3 DEF Taking, PostFits
    <3>2. Settled(y)' <=> Settled(y)
          BY <1>1 DEF Settled, ToRoute
    <3>3. (blocked'[y] # "no" => time' = "past") /\ (posts[y].live = "sending" => time' = "past")
          BY <1>1, <2>1 DEF PostFits
    <3> QED
        BY <1>1, <1>4, <1>5, <2>3, <3>1, <3>2, <3>3 DEF PostFits
  <2> QED
      BY <2>2, <2>3
<1> QED
    BY <1>1, <1>6, <1>7, <1>8, <1>9, WorkersRest DEF OverrunStays

(* A request that touches no post.                                         *)
LEMMA PostsUntouched ==
  ASSUME AutopilotInv, UNCHANGED <<posts, blocked, workers, person, time>>, OverrunStays
  PROVE  PostsStay /\ \A p \in Posts : PostFits(p)'
PROOF
<1> SUFFICES ASSUME NEW p \in Posts PROVE PostFits(p)'
    BY DEF PostsStay
<1>1. PostFits(p) /\ (Approving(p) => Approving(p)') /\ (Taking(p)' => Taking(p))
      BY Typed DEF Approving, Taking
<1> QED
    BY <1>1, Untouched DEF OverrunStays

LEMMA StartKeeps ==
  ASSUME AutopilotInv, Start
  PROVE  AutopilotInv'
PROOF
<1>1. /\ UNCHANGED <<posts, blocked, workers, person, time>>
      /\ settings' = [settings EXCEPT !.status = "ACTIVE", !.failures = 0, !.failedPublishes = 0]
      /\ slots' = Planned(slots, time)
      BY DEF Start
<1>2. settings' \in Settings /\ settings'.failures = 0
      BY <1>1, Typed DEF Settings
<1>3. /\ slots' \in [Slots -> Slot]
      /\ \A s \in Slots : slots'[s] = slots[s] \/ (slots[s].status = "none" /\ slots'[s].status = "PLANNED")
      BY <1>1, PlansSlots, Typed
<1>4. AutopilotTyped'
      BY <1>1, <1>2, <1>3 DEF AutopilotInv, AutopilotTyped
<1>5. FailuresPause'
      BY <1>2, AutopilotAssumption DEF FailuresPause
<1> QED
    BY <1>1, <1>3, <1>4, <1>5, PostsUntouched, WorkersRest DEF OverrunStays

LEMMA UpdateSettingsKeeps ==
  ASSUME AutopilotInv, UpdateSettings
  PROVE  AutopilotInv'
PROOF
<1> DEFINE cleared == [s \in Slots |-> IF slots[s].status = "PLANNED" /\ time # "past" /\ Clearable(s)
                                       THEN [status |-> "none", attempts |-> 0] ELSE slots[s]]
<1>1. /\ UNCHANGED <<posts, blocked, workers, person, time>>
      /\ settings' = [settings EXCEPT !.approval = ~ @]
      /\ slots' = IF Active /\ allowed THEN Planned(cleared, time) ELSE cleared
      BY DEF UpdateSettings
<1>2. /\ settings' \in Settings /\ settings'.status = settings.status
      /\ settings'.failures = settings.failures /\ settings'.unpaused = settings.unpaused
      BY <1>1, Typed DEF Settings
<1>3. /\ cleared \in [Slots -> Slot]
      /\ \A s \in Slots : cleared[s] = slots[s] \/ (slots[s].status = "PLANNED" /\ cleared[s].status = "none")
      BY Typed DEF Slot, SlotStatuses
<1> HIDE DEF cleared
<1>4. /\ slots' \in [Slots -> Slot]
      /\ \A s \in Slots : slots'[s] = slots[s] \/ ( /\ slots[s].status \in {"none", "PLANNED"}
                                                    /\ slots'[s].status \in {"none", "PLANNED"} )
  <2>1. CASE Active /\ allowed
    <3>1. slots' = Planned(cleared, time)
          BY <1>1, <2>1
    <3>2. /\ slots' \in [Slots -> Slot]
          /\ \A s \in Slots : slots'[s] = cleared[s] \/ (cleared[s].status = "none" /\ slots'[s].status = "PLANNED")
          BY <1>3, <3>1, PlansSlots
    <3> QED
        BY <1>3, <3>2
  <2>2. CASE ~ (Active /\ allowed)
        BY <1>1, <1>3, <2>2
  <2> QED
      BY <2>1, <2>2
<1>5. AutopilotTyped'
      BY <1>1, <1>2, <1>4 DEF AutopilotInv, AutopilotTyped
<1>6. FailuresPause'
      BY <1>1, <1>2 DEF AutopilotInv, FailuresPause, Active
<1> QED
    BY <1>1, <1>4, <1>5, <1>6, PostsUntouched, WorkersRest DEF OverrunStays

LEMMA RetrySlotKeeps ==
  ASSUME AutopilotInv, RetrySlot
  PROVE  AutopilotInv'
PROOF
<1>1. UNCHANGED <<settings, posts, blocked, workers, person, time>> /\ time = "far"
      BY DEF RetrySlot
<1>2. PICK s \in Slots : /\ slots[s].status \in {"FAILED", "SKIPPED"}
                         /\ slots' = [slots EXCEPT ![s] = [status |-> "PLANNED", attempts |-> 0]]
      BY DEF RetrySlot
<1>3. /\ slots' \in [Slots -> Slot] /\ slots'[s].status = "PLANNED"
      /\ \A t \in Slots : t # s => slots'[t] = slots[t]
      BY <1>2, Typed DEF Slot, SlotStatuses
<1>4. AutopilotTyped'
      BY <1>1, <1>3 DEF AutopilotInv, AutopilotTyped
<1>5. FailuresPause'
      BY <1>1 DEF AutopilotInv, FailuresPause, Active
<1> QED
    BY <1>1, <1>2, <1>3, <1>4, <1>5, PostsUntouched, WorkersRest DEF OverrunStays

LEMMA LoseRightsKeeps ==
  ASSUME AutopilotInv, LoseRights
  PROVE  AutopilotInv'
PROOF
<1>1. UNCHANGED <<settings, slots, posts, blocked, workers, person, time>>
      BY DEF LoseRights
<1>2. AutopilotTyped' /\ FailuresPause'
      BY <1>1 DEF AutopilotInv, AutopilotTyped, FailuresPause, Active
<1> QED
    BY <1>1, <1>2, PostsUntouched, WorkersRest DEF OverrunStays

LEMMA ApproveKeeps ==
  ASSUME AutopilotInv, Approve
  PROVE  AutopilotInv'
PROOF
<1>1. person.pc = "none" /\ UNCHANGED <<settings, slots, blocked, workers, time>>
      BY DEF Approve, Ask
<1>2. PICK p \in Posts :
        /\ posts[p].status = "READY" /\ posts[p].held # "none"
        /\ posts' = [posts EXCEPT ![p].live = "queued"]
        /\ person' = [NoRequest EXCEPT !.pc = "approved", !.post = p]
      BY DEF Approve
<1>3. /\ posts' \in [Posts -> Post] /\ SameDecision(p) /\ posts'[p].live = "queued"
      /\ \A y \in Posts : y # p => posts'[y] = posts[y]
      BY <1>2, Typed DEF Post, SameDecision
<1>4. person' \in Person /\ person'.pc = "approved" /\ person'.todo = {} /\ person'.post = p
      BY <1>2, NoRequestTyped DEF Person
<1>5. AutopilotTyped'
      BY <1>1, <1>3, <1>4 DEF AutopilotInv, AutopilotTyped
<1>6. FailuresPause'
      BY <1>1 DEF AutopilotInv, FailuresPause, Active
<1>7. PostsStay
      BY <1>3 DEF PostsStay, SameDecision
<1>8. \A y \in Posts : PostFits(y)'
  <2> SUFFICES ASSUME NEW y \in Posts PROVE PostFits(y)'
      OBVIOUS
  <2>1. PostFits(y) /\ ~ Taking(y)'
        BY <1>4, Typed DEF Taking
  <2>2. CASE y # p
    <3>1. Approving(y) => Approving(y)'
          BY <1>1, <1>3, <2>2 DEF Approving
    <3> QED
        BY <1>1, <1>3, <1>4, <2>1, <2>2, <3>1, Untouched DEF OverrunStays
  <2>3. CASE y = p
    <3>1. Approving(y)'
          BY <1>4, <2>3 DEF Approving
    <3> QED
        BY <1>1, <1>2, <1>3, <1>4, <2>1, <2>3, <3>1 DEF PostFits, SameDecision
  <2> QED
      BY <2>2, <2>3
<1> QED
    BY <1>1, <1>5, <1>6, <1>7, <1>8, WorkersRest DEF OverrunStays

LEMMA SaveApprovalKeeps ==
  ASSUME AutopilotInv, SaveApproval
  PROVE  AutopilotInv'
PROOF
<1>1. person.pc = "approved" /\ UNCHANGED <<settings, slots, blocked, workers, time>> /\ person' = NoRequest
      BY DEF SaveApproval
<1>2. PICK p : p = person.post
      OBVIOUS
<1>3. posts' = [posts EXCEPT ![p] =
        [@ EXCEPT !.status = "SCHEDULED", !.held = "none", !.approved = TRUE, !.planned = TRUE]]
      BY <1>2 DEF SaveApproval
<1>4. /\ posts' \in [Posts -> Post]
      /\ \A y \in Posts : y # p => posts'[y] = posts[y]
      /\ p \in Posts => /\ posts'[p].status = "SCHEDULED" /\ posts'[p].held = "none"
                        /\ posts'[p].approved /\ posts'[p].live = posts[p].live
  <2> DEFINE new == [posts[p] EXCEPT !.status = "SCHEDULED", !.held = "none", !.approved = TRUE,
                                     !.planned = TRUE]
  <2>1. CASE p \in Posts
    <3>1. posts[p] \in Post
          BY <2>1, Typed
    <3>2. new \in Post /\ new.status = "SCHEDULED" /\ new.held = "none" /\ new.approved /\ new.live = posts[p].live
          BY <3>1 DEF Post, PostStatuses, Reasons
    <3>3. posts' = [posts EXCEPT ![p] = new]
          BY <1>3
    <3> HIDE DEF new
    <3> QED
        BY <2>1, <3>2, <3>3, Typed
  <2>2. CASE p \notin Posts
    <3>1. posts' = posts
          BY <1>3, <2>2, Typed
    <3> QED
        BY <2>2, <3>1, Typed
  <2> QED
      BY <2>1, <2>2
<1>5. AutopilotTyped'
      BY <1>1, <1>4, NoRequestTyped DEF AutopilotInv, AutopilotTyped
<1>6. FailuresPause'
      BY <1>1 DEF AutopilotInv, FailuresPause, Active
<1>7. PostsStay
      BY <1>4 DEF PostsStay
<1>8. \A y \in Posts : PostFits(y)'
  <2> SUFFICES ASSUME NEW y \in Posts PROVE PostFits(y)'
      OBVIOUS
  <2>1. PostFits(y) /\ ~ Taking(y)' /\ person'.pc # "hold"
        BY <1>1, NoRequestTyped, Typed DEF Taking
  <2>2. CASE y # p
    <3>1. Approving(y) => Approving(y)'
          BY <1>2, <1>4, <2>2 DEF Approving
    <3> QED
        BY <1>1, <1>4, <2>1, <2>2, <3>1, Untouched DEF OverrunStays
  <2>3. CASE y = p
    <3>1. Approving(y)'
          BY <1>4, <2>3 DEF Approving
    <3> QED
        BY <1>1, <1>4, <2>1, <2>3, <3>1 DEF PostFits
  <2> QED
      BY <2>2, <2>3
<1> QED
    BY <1>1, <1>5, <1>6, <1>7, <1>8, WorkersRest DEF OverrunStays

LEMMA RejectKeeps ==
  ASSUME AutopilotInv, Reject
  PROVE  AutopilotInv'
PROOF
<1>1. person.pc = "none" /\ UNCHANGED <<settings, slots, blocked, workers, time>>
      BY DEF Reject, Ask
<1>2. PICK p \in Posts :
        /\ posts' = [posts EXCEPT ![p] = Cancelled(@)]
        /\ person' = [NoRequest EXCEPT !.pc = "rejected", !.post = p, !.held = posts[p].held # "none"]
      BY DEF Reject
<1>3. posts[p] \in Post
      BY Typed
<1>4. /\ Cancelled(posts[p]) \in Post /\ Cancelled(posts[p]).live \in {"none", "sending"}
      /\ Cancelled(posts[p]).live # "sending" \/ posts[p].live = "sending"
      /\ Cancelled(posts[p]).status = posts[p].status /\ Cancelled(posts[p]).held = posts[p].held
      /\ Cancelled(posts[p]).approved = posts[p].approved /\ Cancelled(posts[p]).cut = posts[p].cut
      BY <1>3, CancelledTyped
<1>5. /\ posts' \in [Posts -> Post] /\ posts'[p] = Cancelled(posts[p])
      /\ \A y \in Posts : y # p => posts'[y] = posts[y]
      BY <1>2, <1>4, Typed
<1>6. person' \in Person /\ person'.pc = "rejected" /\ person'.todo = {}
  <2>1. (posts[p].held # "none") \in BOOLEAN
        OBVIOUS
  <2> QED
      BY <1>2, <2>1, NoRequestTyped DEF Person
<1>7. AutopilotTyped'
      BY <1>1, <1>5, <1>6 DEF AutopilotInv, AutopilotTyped
<1>8. FailuresPause'
      BY <1>1 DEF AutopilotInv, FailuresPause, Active
<1>9. PostsStay
      BY <1>4, <1>5 DEF PostsStay
<1>10. \A y \in Posts : PostFits(y)'
  <2> SUFFICES ASSUME NEW y \in Posts PROVE PostFits(y)'
      OBVIOUS
  <2>1. PostFits(y) /\ ~ Taking(y)'
        BY <1>6, Typed DEF Taking
  <2>2. Approving(y)' <=> Approving(y)
        BY <1>1, <1>4, <1>5, <1>6 DEF Approving
  <2>3. CASE y # p
        BY <1>1, <1>5, <1>6, <2>1, <2>2, <2>3, Untouched DEF OverrunStays
  <2>4. CASE y = p
    <3>1. (Settled(y)' <=> Settled(y)) /\ (Scheduling(y)' <=> Scheduling(y))
          BY <1>1 DEF Settled, ToRoute, Scheduling
    <3> QED
        BY <1>1, <1>4, <1>5, <1>6, <2>1, <2>2, <2>4, <3>1 DEF PostFits
  <2> QED
      BY <2>3, <2>4
<1> QED
    BY <1>1, <1>7, <1>8, <1>9, <1>10, WorkersRest DEF OverrunStays

LEMMA SaveRejectionKeeps ==
  ASSUME AutopilotInv, SaveRejection
  PROVE  AutopilotInv'
PROOF
<1>1. person.pc = "rejected" /\ UNCHANGED <<settings, slots, blocked, workers, time>> /\ person' = NoRequest
      BY DEF SaveRejection
<1>2. PICK p : p = person.post
      OBVIOUS
<1>3. posts' = [posts EXCEPT ![p] =
        [@ EXCEPT !.status = "DRAFT", !.planned = FALSE, !.held = IF person.held THEN "none" ELSE posts[p].held]]
      BY <1>2 DEF SaveRejection
<1>4. /\ posts' \in [Posts -> Post]
      /\ \A y \in Posts : y # p => posts'[y] = posts[y]
      /\ p \in Posts => /\ posts'[p].status = "DRAFT" /\ posts'[p].live = posts[p].live
                        /\ posts'[p].approved = posts[p].approved
  <2>1. CASE p \in Posts
    <3>0. posts[p] \in Post
          BY <2>1, Typed
    <3>1. PICK held \in Reasons : held = IF person.held THEN "none" ELSE posts[p].held
          BY <3>0 DEF Post, Reasons
    <3> DEFINE new == [posts[p] EXCEPT !.status = "DRAFT", !.planned = FALSE, !.held = held]
    <3>2. new \in Post /\ new.status = "DRAFT" /\ new.live = posts[p].live /\ new.approved = posts[p].approved
          BY <3>0 DEF Post, PostStatuses
    <3>3. posts' = [posts EXCEPT ![p] = new]
          BY <1>3, <3>1
    <3> HIDE DEF new
    <3> QED
        BY <2>1, <3>2, <3>3, Typed
  <2>2. CASE p \notin Posts
    <3>1. posts' = posts
          BY <1>3, <2>2, Typed
    <3> QED
        BY <2>2, <3>1, Typed
  <2> QED
      BY <2>1, <2>2
<1>5. AutopilotTyped'
      BY <1>1, <1>4, NoRequestTyped DEF AutopilotInv, AutopilotTyped
<1>6. FailuresPause'
      BY <1>1 DEF AutopilotInv, FailuresPause, Active
<1>7. PostsStay
      BY <1>4 DEF PostsStay
<1>8. \A y \in Posts : PostFits(y)'
  <2> SUFFICES ASSUME NEW y \in Posts PROVE PostFits(y)'
      OBVIOUS
  <2>1. PostFits(y) /\ ~ Taking(y)' /\ person'.pc # "hold"
        BY <1>1, NoRequestTyped, Typed DEF Taking
  <2>2. Approving(y) => Approving(y)'
        BY <1>1, <1>4 DEF Approving
  <2>3. CASE y # p
        BY <1>1, <1>4, <2>1, <2>2, <2>3, Untouched DEF OverrunStays
  <2>4. CASE y = p
        BY <1>1, <1>4, <2>1, <2>2, <2>4 DEF PostFits
  <2> QED
      BY <2>3, <2>4
<1> QED
    BY <1>1, <1>5, <1>6, <1>7, <1>8, WorkersRest DEF OverrunStays

LEMMA RequestsKeep ==
  ASSUME AutopilotInv, Request \/ RequestStep
  PROVE  AutopilotInv'
PROOF
BY PauseKeeps, StartKeeps, UpdateSettingsKeeps, RetrySlotKeeps, ApproveKeeps, RejectKeeps, LoseRightsKeeps,
   FindScheduledKeeps, UnscheduleKeeps, HoldUnscheduledKeeps, SaveApprovalKeeps, SaveRejectionKeeps
   DEF Request, RequestStep

LEMMA SendKeeps ==
  ASSUME AutopilotInv, NEW p \in Posts, Send(p)
  PROVE  AutopilotInv'
PROOF
<1>1. /\ UNCHANGED <<settings, slots, blocked, workers, person, time>>
      /\ posts[p].live = "queued" /\ time = "past"
      /\ posts' = [posts EXCEPT ![p] = [@ EXCEPT !.live = "sending", !.status = "PUBLISHING"]]
      BY DEF Send, Due
<1>2. /\ posts' \in [Posts -> Post] /\ posts'[p].live = "sending" /\ posts'[p].status = "PUBLISHING"
      /\ posts'[p].held = posts[p].held /\ posts'[p].approved = posts[p].approved
      /\ \A y \in Posts : y # p => posts'[y] = posts[y]
      BY <1>1, Typed DEF Post, PostStatuses
<1>3. AutopilotTyped'
      BY <1>1, <1>2 DEF AutopilotInv, AutopilotTyped
<1>4. FailuresPause'
      BY <1>1 DEF AutopilotInv, FailuresPause, Active
<1>5. PostsStay
      BY <1>2 DEF PostsStay
<1>6. \A y \in Posts : PostFits(y)'
  <2> SUFFICES ASSUME NEW y \in Posts PROVE PostFits(y)'
      OBVIOUS
  <2>1. PostFits(y) /\ (Taking(y)' <=> Taking(y)) /\ (Approving(y)' <=> Approving(y))
        BY <1>1, <1>2, Typed DEF Taking, Approving
  <2>2. CASE y # p
        BY <1>1, <1>2, <2>1, <2>2, Untouched DEF OverrunStays
  <2>3. CASE y = p
    <3>1. Settled(y)' <=> Settled(y)
          BY <1>1 DEF Settled, ToRoute
    <3> QED
        BY <1>1, <1>2, <2>1, <2>3, <3>1 DEF PostFits
  <2> QED
      BY <2>2, <2>3
<1> QED
    BY <1>1, <1>3, <1>4, <1>5, <1>6, WorkersRest DEF OverrunStays

LEMMA AnswerKeeps ==
  ASSUME AutopilotInv, NEW p \in Posts, Answer(p)
  PROVE  AutopilotInv'
PROOF
<1>1. UNCHANGED <<slots, blocked, workers, person, time>>
      BY DEF Answer
<1>2. PICK x \in {"PUBLISHED", "FAILED"} :
        posts' = [posts EXCEPT ![p] = [@ EXCEPT !.live = "none", !.status = x]]
      BY DEF Answer
<1>3. /\ settings' \in Settings /\ settings'.overrun = settings.overrun
      /\ settings'.failures = settings.failures /\ settings'.unpaused = settings.unpaused
      /\ settings'.status = settings.status \/ settings'.status = "PAUSED"
  <2>1. settings \in Settings
        BY Typed
  <2>2. CASE settings' = [settings EXCEPT !.failedPublishes = 0]
        BY <2>1, <2>2 DEF Settings
  <2>3. CASE LET counted == [settings EXCEPT !.failedPublishes = @ + 1] IN
             settings' = IF TooMany(counted.failedPublishes) THEN AutoPaused(counted) ELSE counted
    <3>1. settings.failedPublishes + 1 \in Nat
          BY <2>1 DEF Settings
    <3> DEFINE counted == [settings EXCEPT !.failedPublishes = @ + 1]
    <3>2. /\ counted \in Settings /\ counted.failures = settings.failures
          /\ counted.unpaused = settings.unpaused /\ counted.status = settings.status
          /\ counted.overrun = settings.overrun
          BY <2>1, <3>1 DEF Settings
    <3>3. settings' = counted \/ settings' = AutoPaused(counted)
          BY <2>3
    <3> HIDE DEF counted
    <3>4. /\ AutoPaused(counted) \in Settings /\ AutoPaused(counted).failures = counted.failures
          /\ AutoPaused(counted).unpaused = counted.unpaused /\ AutoPaused(counted).status = "PAUSED"
          /\ AutoPaused(counted).overrun = counted.overrun
          BY <3>2 DEF AutoPaused, Settings
    <3> QED
        BY <3>2, <3>3, <3>4
  <2> QED
      BY <2>2, <2>3 DEF Answer
<1>4. /\ posts' \in [Posts -> Post] /\ posts'[p].live = "none" /\ posts'[p].status = x
      /\ posts'[p].held = posts[p].held /\ posts'[p].approved = posts[p].approved
      /\ \A y \in Posts : y # p => posts'[y] = posts[y]
      BY <1>2, Typed DEF Post, PostStatuses
<1>5. AutopilotTyped'
      BY <1>1, <1>3, <1>4 DEF AutopilotInv, AutopilotTyped
<1>6. FailuresPause'
      BY <1>1, <1>3 DEF AutopilotInv, FailuresPause, Active
<1>7. PostsStay
      BY <1>4 DEF PostsStay
<1>8. \A y \in Posts : PostFits(y)'
  <2> SUFFICES ASSUME NEW y \in Posts PROVE PostFits(y)'
      OBVIOUS
  <2>1. PostFits(y) /\ (Taking(y)' <=> Taking(y)) /\ (Approving(y)' <=> Approving(y))
        BY <1>1, <1>4, Typed DEF Taking, Approving
  <2>2. CASE y # p
        BY <1>1, <1>3, <1>4, <2>1, <2>2, Untouched DEF OverrunStays
  <2>3. CASE y = p
    <3>1. Settled(y)' <=> Settled(y)
          BY <1>1 DEF Settled, ToRoute
    <3> QED
        BY <1>1, <1>3, <1>4, <2>1, <2>3, <3>1 DEF PostFits
  <2> QED
      BY <2>2, <2>3
<1> QED
    BY <1>1, <1>3, <1>5, <1>6, <1>7, <1>8, WorkersRest DEF OverrunStays

LEMMA BlockKeeps ==
  ASSUME AutopilotInv, NEW p \in Posts, Block(p)
  PROVE  AutopilotInv'
PROOF
<1>1. /\ UNCHANGED <<settings, slots, workers, person, time>> /\ time = "past"
      /\ posts' = [posts EXCEPT ![p].live = "none"]
      /\ blocked' = [blocked EXCEPT ![p] = posts[p].status]
      BY DEF Block, Due
<1>2. /\ posts' \in [Posts -> Post] /\ SameDecision(p) /\ posts'[p].live = "none"
      /\ \A y \in Posts : y # p => posts'[y] = posts[y]
      BY <1>1, Typed DEF Post, SameDecision
<1>3. /\ blocked' \in [Posts -> PostStatuses \cup {"no"}]
      /\ \A y \in Posts : y # p => blocked'[y] = blocked[y]
  <2>1. posts[p].status \in PostStatuses
        BY Typed DEF Post
  <2> QED
      BY <1>1, <2>1, Typed
<1>4. AutopilotTyped'
      BY <1>1, <1>2, <1>3 DEF AutopilotInv, AutopilotTyped
<1>5. FailuresPause'
      BY <1>1 DEF AutopilotInv, FailuresPause, Active
<1>6. PostsStay
      BY <1>2 DEF PostsStay, SameDecision
<1>7. \A y \in Posts : PostFits(y)'
  <2> SUFFICES ASSUME NEW y \in Posts PROVE PostFits(y)'
      OBVIOUS
  <2>1. PostFits(y) /\ (Taking(y)' <=> Taking(y)) /\ (Approving(y)' <=> Approving(y))
        BY <1>1, <1>2, Typed DEF Taking, Approving, SameDecision
  <2>2. CASE y # p
        BY <1>1, <1>2, <1>3, <2>1, <2>2, Untouched DEF OverrunStays
  <2>3. CASE y = p
    <3>1. Settled(y)' <=> Settled(y)
          BY <1>1 DEF Settled, ToRoute
    <3> QED
        BY <1>1, <1>2, <2>1, <2>3, <3>1 DEF PostFits, SameDecision
  <2> QED
      BY <2>2, <2>3
<1> QED
    BY <1>1, <1>4, <1>5, <1>6, <1>7, WorkersRest DEF OverrunStays

LEMMA HoldBlockedKeeps ==
  ASSUME AutopilotInv, NEW p \in Posts, HoldBlocked(p)
  PROVE  AutopilotInv'
PROOF
<1>1. /\ UNCHANGED <<settings, slots, workers, person, time>> /\ blocked[p] # "no"
      /\ posts' = [posts EXCEPT ![p] = [@ EXCEPT !.held = "PAUSED",
                                  !.status = IF blocked[p] = "READY" THEN posts[p].status ELSE "READY"]]
      /\ blocked' = [blocked EXCEPT ![p] = "no"]
      BY DEF HoldBlocked, HeldByPause
<1>2. /\ posts' \in [Posts -> Post] /\ posts'[p].held = "PAUSED" /\ posts'[p].live = posts[p].live
      /\ posts'[p].status = posts[p].status \/ posts'[p].status = "READY"
      /\ posts'[p].approved = posts[p].approved
      /\ \A y \in Posts : y # p => posts'[y] = posts[y]
  <2>1. posts[p] \in Post
        BY Typed
  <2>2. PICK status \in PostStatuses :
          /\ status = IF blocked[p] = "READY" THEN posts[p].status ELSE "READY"
          /\ status = posts[p].status \/ status = "READY"
        BY <2>1 DEF Post, PostStatuses
  <2> DEFINE new == [posts[p] EXCEPT !.held = "PAUSED", !.status = status]
  <2>3. /\ new \in Post /\ new.held = "PAUSED" /\ new.live = posts[p].live
        /\ new.status = status /\ new.approved = posts[p].approved
        BY <2>1 DEF Post, Reasons
  <2>4. posts' = [posts EXCEPT ![p] = new]
        BY <1>1, <2>2
  <2> HIDE DEF new
  <2> QED
      BY <2>2, <2>3, <2>4, Typed
<1>3. /\ blocked' \in [Posts -> PostStatuses \cup {"no"}]
      /\ \A y \in Posts : y # p => blocked'[y] = blocked[y]
      BY <1>1, Typed
<1>4. AutopilotTyped'
      BY <1>1, <1>2, <1>3 DEF AutopilotInv, AutopilotTyped
<1>5. FailuresPause'
      BY <1>1 DEF AutopilotInv, FailuresPause, Active
<1>6. PostsStay
      BY <1>2 DEF PostsStay
<1>7. \A y \in Posts : PostFits(y)'
  <2> SUFFICES ASSUME NEW y \in Posts PROVE PostFits(y)'
      OBVIOUS
  <2>1. PostFits(y) /\ (Taking(y)' <=> Taking(y)) /\ (Approving(y)' <=> Approving(y))
        BY <1>1, <1>2, Typed DEF Taking, Approving
  <2>2. CASE y # p
        BY <1>1, <1>2, <1>3, <2>1, <2>2, Untouched DEF OverrunStays
  <2>3. CASE y = p
    <3>1. Settled(y)' <=> Settled(y)
          BY <1>1 DEF Settled, ToRoute
    <3>2. time = "past" /\ (y[1] \notin settings.overrun => posts[y].live = "none" \/ Approving(y))
          BY <1>1, <2>1, <2>3 DEF PostFits
    <3> QED
        BY <1>1, <1>2, <2>1, <2>3, <3>1, <3>2 DEF PostFits
  <2> QED
      BY <2>2, <2>3
<1> QED
    BY <1>1, <1>4, <1>5, <1>6, <1>7, WorkersRest DEF OverrunStays

LEMMA TickKeeps ==
  ASSUME AutopilotInv, Tick
  PROVE  AutopilotInv'
PROOF
<1>1. /\ UNCHANGED <<slots, posts, blocked, workers, person>>
      /\ time # "past" /\ time' \in {"close", "past"} /\ time' # "far"
      /\ settings' = settings \/ settings' = [settings EXCEPT !.overrun = Slots]
      /\ time' = "past" =>
           \/ \A w \in Workers : workers[w].pc \in {"off", "idle"} \/ workers[w].now # "far"
           \/ settings' = [settings EXCEPT !.overrun = Slots]
      BY DEF Tick, InTime
<1>2. /\ settings' \in Settings /\ settings.overrun \subseteq settings'.overrun
      /\ settings' = settings \/ settings'.overrun = Slots
      /\ settings' = [settings EXCEPT !.overrun = Slots] => settings'.overrun = Slots
      /\ settings'.status = settings.status /\ settings'.failures = settings.failures
      /\ settings'.unpaused = settings.unpaused
      BY <1>1, Typed DEF Settings
<1>3. AutopilotTyped'
      BY <1>1, <1>2 DEF AutopilotInv, AutopilotTyped, Times
<1>4. OneHandler' /\ SlotsHeld'
      BY <1>1, <1>2 DEF AutopilotInv, OneHandler, SlotsHeld, Handling
<1>5. WorkersKeep' /\ WrittenExist'
      BY <1>1, WorkersKept, WrittenStay DEF AutopilotInv, PostsStay
<1>6. WorkersInTime'
      BY <1>1, <1>2 DEF WorkersInTime
<1>7. FailuresPause'
      BY <1>1, <1>2 DEF AutopilotInv, FailuresPause, Active
<1>8. PostsInv'
  <2> SUFFICES ASSUME NEW p \in Posts PROVE PostFits(p)'
      BY PostsFitAllNext
  <2>1. PostFits(p) /\ (Approving(p) => Approving(p)') /\ (Taking(p)' => Taking(p))
        BY <1>1, Typed DEF Approving, Taking
  <2> QED
      BY <1>1, <1>2, <2>1, Untouched DEF OverrunStays
<1> QED
    BY <1>3, <1>4, <1>5, <1>6, <1>7, <1>8 DEF AutopilotInv, PostsInv

-------------------------------------------------------------------------------
(* The theorems.                                                           *)

LEMMA AutopilotStarts ==
  ASSUME AutopilotInit
  PROVE  AutopilotInv
PROOF
<1>1. PICK o \in Openings :
        /\ settings = [status |-> "ACTIVE", approval |-> o.approval, platforms |-> o.platforms,
                       perWeek |-> o.perWeek, perDay |-> o.perDay, failures |-> 0,
                       failedPublishes |-> 0, unpaused |-> FALSE, overrun |-> {}]
        /\ slots = [s \in Slots |-> [status |-> IF s \in o.slots THEN "PLANNED" ELSE "SKIPPED", attempts |-> 0]]
        /\ posts = [p \in Posts |-> NoPost]
        /\ blocked = [p \in Posts |-> "no"]
        /\ workers = [w \in Workers |-> IF w \in o.workers THEN Idle ELSE [Idle EXCEPT !.pc = "off"]]
        /\ person = NoRequest
        /\ time = "far"
      BY DEF AutopilotInit
<1>2. o.platforms \subseteq Platforms /\ o.perWeek \in Nat /\ o.perDay \in Nat /\ o.approval \in BOOLEAN
      BY AutopilotAssumption
<1>3. settings \in Settings /\ settings.failures = 0
      BY <1>1, <1>2 DEF Settings
<1>4. /\ slots \in [Slots -> Slot]
      /\ \A s \in Slots : slots[s].status \in {"PLANNED", "SKIPPED"}
      BY <1>1 DEF Slot, SlotStatuses
<1>5. posts \in [Posts -> Post] /\ \A p \in Posts : posts[p] = NoPost
      BY <1>1, NoPostTyped
<1>6. /\ workers \in [Workers -> Worker]
      /\ \A w \in Workers : /\ workers[w].pc \in {"idle", "off"}
                            /\ workers[w].written = {} /\ workers[w].missed = {}
  <2>1. [Idle EXCEPT !.pc = "off"] \in Worker /\ [Idle EXCEPT !.pc = "off"].pc = "off"
        /\ [Idle EXCEPT !.pc = "off"].written = {} /\ [Idle EXCEPT !.pc = "off"].missed = {}
        BY IdleTyped, WithPc DEF Pcs
  <2> DEFINE Off == [Idle EXCEPT !.pc = "off"]
  <2> HIDE DEF Off
  <2>2. \A w \in Workers : workers[w] = Idle \/ workers[w] = Off
        BY <1>1 DEF Off
  <2>3. Off \in Worker /\ Off.pc = "off" /\ Off.written = {} /\ Off.missed = {}
        BY <2>1 DEF Off
  <2>4. workers = [w \in Workers |-> workers[w]]
        BY <1>1
  <2> QED
      BY <2>2, <2>3, <2>4, IdleTyped
<1>7. AutopilotTyped
      BY <1>1, <1>3, <1>4, <1>5, <1>6, NoRequestTyped DEF AutopilotTyped, Times, PostStatuses
<1>8. OneHandler /\ SlotsHeld
      BY <1>6 DEF OneHandler, SlotsHeld, Handling, Writers, Routers
<1>9. WorkersKeep /\ WorkersInTime
      BY <1>6 DEF WorkersKeep, Keeps, WorkersInTime, Writers, Routers
<1>10. WrittenExist
      BY <1>4 DEF WrittenExist
<1>11. FailuresPause
      BY <1>3, AutopilotAssumption DEF FailuresPause
<1>12. PostsFit /\ HeldPostsRest /\ BlockedRest
      BY <1>1, <1>5, NoPostTyped DEF PostsFit, HeldPostsRest, BlockedRest
<1>13. PauseFits
      BY <1>1, NoRequestTyped DEF PauseFits, Taking
<1> QED
    BY <1>7, <1>8, <1>9, <1>10, <1>11, <1>12, <1>13 DEF AutopilotInv

LEMMA AutopilotStays ==
  ASSUME AutopilotInv, [AutopilotNext]_autopilotVars
  PROVE  AutopilotInv'
PROOF
<1>1. CASE UNCHANGED autopilotVars
  <2>1. UNCHANGED <<settings, slots, posts, blocked, workers, person, time>>
        BY <1>1 DEF autopilotVars
  <2>2. AutopilotTyped' /\ FailuresPause'
        BY <2>1 DEF AutopilotInv, AutopilotTyped, FailuresPause, Active
  <2> QED
      BY <2>1, <2>2, PostsUntouched, WorkersRest DEF OverrunStays
<1>2. CASE \E w \in Workers : WorkerStep(w) \/ Overrun(w) \/ Crash(w)
      BY <1>2, WorkersKeepAll
<1>3. CASE \E p \in Posts : PublishStep(p)
      BY <1>3, SendKeeps, AnswerKeeps, BlockKeeps, HoldBlockedKeeps DEF PublishStep
<1>4. CASE Request \/ RequestStep
      BY <1>4, RequestsKeep
<1>5. CASE Tick
      BY <1>5, TickKeeps
<1> QED
    BY <1>1, <1>2, <1>3, <1>4, <1>5 DEF AutopilotNext

LEMMA AutopilotInvAlways == AutopilotSpec => []AutopilotInv
PROOF
<1>1. AutopilotInit => AutopilotInv
      BY AutopilotStarts
<1>2. AutopilotInv /\ [AutopilotNext]_autopilotVars => AutopilotInv'
      BY AutopilotStays
<1> QED
    BY <1>1, <1>2, PTL DEF AutopilotSpec

(* However many workers sweep, crash and give up, and whatever people ask  *)
(* for meanwhile, at most one live worker works on a posting time, unless  *)
(* a sweep took it from one that was late (processSlot's claim, and the    *)
(* sweep that requeues locked slots).                                      *)
THEOREM OneWriterAlways == AutopilotSpec => []OneWriter
PROOF
<1>1. AutopilotInv => OneWriter
      BY DEF AutopilotInv, OneHandler, OneWriter, Handling, Writing, Writers
<1> QED
    BY <1>1, AutopilotInvAlways, PTL

(* Autopilot queues no post that waits for a person's decision, unless a   *)
(* crash or a second failure cuts its routing short or its slot did not    *)
(* wait for its worker, and it stops after too many failures (routePost,   *)
(* unscheduleForPause, runPublishJob, handleGenerationFailure).            *)
THEOREM PeopleAlwaysDecide == AutopilotSpec => []PeopleDecide
PROOF
<1>1. AutopilotInv => AutopilotTypeOK
      BY DEF AutopilotInv, AutopilotTyped, AutopilotTypeOK, WrittenExist, Settings, Slot, SlotStatuses
<1>2. AutopilotInv => HeldPostsStay
      BY DEF AutopilotInv, HeldPostsRest, HeldPostsStay, Approving, Scheduling
<1>3. AutopilotInv => FailuresPause
      BY DEF AutopilotInv
<1>4. AutopilotInv => PeopleDecide
      BY <1>1, <1>2, <1>3 DEF PeopleDecide
<1> QED
    BY <1>4, AutopilotInvAlways, PTL
=============================================================================
