----------------------------- MODULE Workspaces -----------------------------
(***************************************************************************)
(* The life of workspaces: created, archived, restored and deleted for     *)
(* good by their owner while members work in them and a publish worker     *)
(* sends what they scheduled.  Each workspace has one post.                *)
(*                                                                         *)
(* Who may do what in a team is in Team; how a schedule is run, retried    *)
(* and recovered is in Publishing.                                         *)
(***************************************************************************)
EXTENDS Naturals, FiniteSets, FiniteSetsExt, Sequences

CONSTANTS
  Spaces,      \* workspaces there may be: numbers, in the order they were joined
  Allowed,     \* the plan's limit on active workspaces
  Beginnings   \* the situations a behaviour may start in

ASSUME SpacesAssumption ==
  Spaces \subseteq Nat \ {0} /\ IsFiniteSet(Spaces) /\ Allowed \in Nat \ {0}

VARIABLES
  space,    \* the Workspace documents, with their members and settings
  slot,     \* the workspace's post and its schedule
  landing,  \* User.activeWorkspace
  calls,    \* the API requests
  run,      \* the publish worker's run
  sendings, \* history: how often each workspace's post was sent
  mishaps,  \* failures still to come
  wrecked   \* history: the workspaces a server died over

workspaceVars == <<space, slot, landing, calls, run, sendings, mishaps, wrecked>>

-----------------------------------------------------------------------------
Nowhere == 0
Owner == "owner"  \* created every workspace and pays for it
People == {Owner, "editor"}
Space == [status : {"NONE", "ACTIVE", "ARCHIVED", "DELETED"}, crew : SUBSET People,
          invited : BOOLEAN, autopilot : {"ACTIVE", "PAUSED"}]
Slot == [post : {"NONE", "READY", "SCHEDULED", "PUBLISHING", "PUBLISHED", "FAILED"},
         schedule : {"none", "live", "sending", "cancelled", "published", "failed"}]
Empty == [post |-> "NONE", schedule |-> "none"]
Kinds == {"create", "archive", "restore", "delete", "switch", "schedule"}
CallSteps == {"new", "enter", "count", "insert", "join", "undo", "land", "archive", "revoke",
              "unland", "list", "cancel", "unschedule", "pause", "restore", "remove", "clean",
              "queue", "mark", "over"}
Collections == {"members", "posts", "publishing", "landings"}
(* The workspace a request is about, the status it read, and what a         *)
(* deletion has still to remove.                                            *)
Call == [what : Kinds, by : People, at : CallSteps, on : Spaces \cup {Nowhere},
         read : {"NONE", "ACTIVE", "ARCHIVED"}, left : SUBSET Collections]
Ask(what, by) == [what |-> what, by |-> by, at |-> "new", on |-> Nowhere,
                      read |-> "NONE", left |-> {}]
(* since: history; the workspace was not active when the run began, nor     *)
(* restored since.                                                          *)
NoRun == [at |-> "idle", on |-> Nowhere, since |-> FALSE]

WorkspacesTypeOK ==
  /\ space \in [Spaces -> Space]
  /\ slot \in [Spaces -> Slot]
  /\ landing \in [People -> Spaces \cup {Nowhere}]
  /\ \A c \in DOMAIN calls : calls[c] \in Call
  /\ run \in [at : {"idle", "look", "claim", "send", "finish"},
              on : Spaces \cup {Nowhere}, since : BOOLEAN]
  /\ sendings \in [Spaces -> Nat]
  /\ mishaps \in Nat
  /\ wrecked \subseteq Spaces

(* An opening says how each workspace stands, the requests to come and how  *)
(* often something may fail.                                                *)
Beginning(stand, asks, failures) == [stand |-> stand, asks |-> asks, failures |-> failures]

(* To begin with the plan is kept, and no request is let in.                *)
ASSUME BeginningsAssumption ==
  \A beginning \in Beginnings :
    /\ beginning.stand \in [Spaces -> {"NONE", "ACTIVE", "ARCHIVED"}]
    /\ Cardinality({s \in Spaces : beginning.stand[s] = "ACTIVE"}) <= Allowed
    /\ beginning.asks \in Seq(Call)
    /\ \A c \in DOMAIN beginning.asks :
         \E what \in Kinds, by \in People : beginning.asks[c] = Ask(what, by)
    /\ beginning.failures \in Nat

(* An active workspace has a scheduled post, an invitation and a running    *)
(* Autopilot; an archived one was archived in good order.                   *)
WorkspacesInit ==
  \E beginning \in Beginnings :
    LET is(s, status) == beginning.stand[s] = status IN
    /\ space = [s \in Spaces |->
         [status |-> beginning.stand[s],
          crew |-> IF is(s, "NONE") THEN {} ELSE People,
          invited |-> is(s, "ACTIVE"),
          autopilot |-> IF is(s, "ACTIVE") THEN "ACTIVE" ELSE "PAUSED"]]
    /\ slot = [s \in Spaces |->
         IF is(s, "ACTIVE") THEN [post |-> "SCHEDULED", schedule |-> "live"]
         ELSE IF is(s, "ARCHIVED") THEN [post |-> "READY", schedule |-> "cancelled"]
         ELSE Empty]
    /\ landing = [p \in People |-> Min({Nowhere} \cup {s \in Spaces : is(s, "ACTIVE")})]
    /\ calls = beginning.asks
    /\ run = NoRun
    /\ sendings = [s \in Spaces |-> 0]
    /\ mishaps = beginning.failures
    /\ wrecked = {}

-----------------------------------------------------------------------------
Exists(s) == space[s].status \in {"ACTIVE", "ARCHIVED"}
IsActive(s) == space[s].status = "ACTIVE"
(* countWorkspaces: what counts toward the owner's plan.                    *)
Counted == {s \in Spaces : IsActive(s)}

(* listUserWorkspaces: archived workspaces are shown to their owner only.   *)
Shown(p) == {s \in Spaces : p \in space[s].crew /\ (IsActive(s) \/ (Exists(s) /\ p = Owner))}
Offered(p, status) == {s \in Shown(p) : space[s].status = status}
(* The workspace the app opens: the last one used, if it still can.         *)
Landed(p) ==
  IF landing[p] \in Offered(p, "ACTIVE") THEN landing[p]
  ELSE IF Offered(p, "ACTIVE") = {} THEN Nowhere ELSE Min(Offered(p, "ACTIVE"))

(* requireWorkspace and requireWorkspaceRole.                               *)
MayEnter(p, s, archivedToo) ==
  /\ p \in space[s].crew
  /\ IsActive(s) \/ (archivedToo /\ Exists(s))

Does(c, what, step) == calls[c].what = what /\ calls[c].at = step
Moves(c, step) == calls' = [calls EXCEPT ![c].at = step]
Fails == mishaps > 0 /\ mishaps' = mishaps - 1

(* People act on what they were shown: the open workspace, or one of the    *)
(* list.                                                                    *)
Aim(c) ==
  LET by == calls[c].by
      targets == CASE calls[c].what = "schedule" -> {Landed(by)} \ {Nowhere}
                   [] calls[c].what \in {"switch", "archive"} -> Offered(by, "ACTIVE")
                   [] OTHER -> Offered(by, "ARCHIVED") IN
  /\ calls[c].at = "new"
  /\ calls[c].what # "create"
  /\ \E s \in targets : calls' = [calls EXCEPT ![c].at = "enter", ![c].on = s]
  /\ UNCHANGED <<space, slot, landing, run, sendings, mishaps, wrecked>>

Enter(c) ==
  LET call == calls[c]
      status == space[call.on].status
      first == CASE call.what = "switch" -> "land"
                 [] call.what = "schedule" -> "queue"
                 [] call.what = "archive" -> "archive"
                 [] call.what = "restore" -> IF status = "ACTIVE" THEN "restore" ELSE "count"
                 [] OTHER -> IF status = "ARCHIVED" THEN "remove" ELSE "over" IN
  /\ call.at = "enter"
  /\ IF MayEnter(call.by, call.on, call.what \in {"restore", "delete"})
       THEN calls' = [calls EXCEPT ![c].at = first, ![c].read = status]
       ELSE Moves(c, "over")
  /\ UNCHANGED <<space, slot, landing, run, sendings, mishaps, wrecked>>

-----------------------------------------------------------------------------
(* Creating a workspace and restoring one.                                  *)

\* Mutant: a plan may be filled to one more than its limit.
OneMore == Cardinality(Counted) <= Allowed
(* assertCanCreateWorkspace.                                                *)
MayCreate == Cardinality(Counted) < Allowed
Count(c) ==
  /\ Does(c, "create", "new") \/ Does(c, "restore", "count")
  /\ Moves(c, IF ~MayCreate THEN "over"
              ELSE IF calls[c].what = "create" THEN "insert" ELSE "restore")
  /\ UNCHANGED <<space, slot, landing, run, sendings, mishaps, wrecked>>

Establish(c) ==
  /\ Does(c, "create", "insert")
  /\ \E s \in Spaces :
       /\ space[s].status = "NONE"
       /\ space' = [space EXCEPT ![s].status = "ACTIVE"]
       /\ calls' = [calls EXCEPT ![c].at = "join", ![c].on = s]
  /\ UNCHANGED <<slot, landing, run, sendings, mishaps, wrecked>>

\* Mutant: a workspace without an owner stays.
NotUndone == "over"
(* The workspace that could not be given its owner is deleted.              *)
AfterRefusal == "undo"
Join(c) ==
  LET s == calls[c].on IN
  /\ Does(c, "create", "join")
  /\ \/ /\ space' = [space EXCEPT ![s].crew = {Owner}]
        /\ Moves(c, "land")
        /\ UNCHANGED mishaps
     \/ Fails /\ Moves(c, AfterRefusal) /\ UNCHANGED space
  /\ UNCHANGED <<slot, landing, run, sendings, wrecked>>

Undo(c) ==
  /\ Does(c, "create", "undo")
  /\ space' = [space EXCEPT ![calls[c].on].status = "DELETED"]
  /\ Moves(c, "over")
  /\ UNCHANGED <<slot, landing, run, sendings, mishaps, wrecked>>

(* setActiveWorkspace, by createWorkspace and switchWorkspace.              *)
Land(c) ==
  /\ calls[c].at = "land"
  /\ landing' = [landing EXCEPT ![calls[c].by] = calls[c].on]
  /\ Moves(c, "over")
  /\ UNCHANGED <<space, slot, run, sendings, mishaps, wrecked>>

(* save() writes what the request changed in its copy, and fails when the   *)
(* workspace is gone.  A restored one counts as quiet no more.              *)
Reinstate(c) ==
  LET s == calls[c].on
      changed == calls[c].read = "ARCHIVED" /\ Exists(s) IN
  /\ Does(c, "restore", "restore")
  /\ space' = IF changed THEN [space EXCEPT ![s].status = "ACTIVE"] ELSE space
  /\ run' = IF changed /\ run.on = s THEN [run EXCEPT !.since = FALSE] ELSE run
  /\ Moves(c, "over")
  /\ UNCHANGED <<slot, landing, sendings, mishaps, wrecked>>

-----------------------------------------------------------------------------
(* Archiving.                                                               *)

ArchiveStep(c, step) == Does(c, "archive", step)

Archive(c) ==
  LET s == calls[c].on IN
  /\ ArchiveStep(c, "archive")
  /\ IF Exists(s)
       THEN space' = [space EXCEPT ![s].status = "ARCHIVED"] /\ Moves(c, "revoke")
       ELSE UNCHANGED space /\ Moves(c, "over")
  /\ UNCHANGED <<slot, landing, run, sendings, mishaps, wrecked>>

Revoke(c) ==
  /\ ArchiveStep(c, "revoke")
  /\ space' = [space EXCEPT ![calls[c].on].invited = FALSE]
  /\ Moves(c, "unland")
  /\ UNCHANGED <<slot, landing, run, sendings, mishaps, wrecked>>

NoLanding(s) == [p \in People |-> IF landing[p] = s THEN Nowhere ELSE landing[p]]
Unland(c) ==
  /\ ArchiveStep(c, "unland")
  /\ landing' = NoLanding(calls[c].on)
  /\ Moves(c, "list")
  /\ UNCHANGED <<space, slot, run, sendings, mishaps, wrecked>>

ListScheduled(c) ==
  /\ ArchiveStep(c, "list")
  /\ Moves(c, IF slot[calls[c].on].post = "SCHEDULED" THEN "cancel" ELSE "pause")
  /\ UNCHANGED <<space, slot, landing, run, sendings, mishaps, wrecked>>

Ended(schedule) == IF schedule = "live" THEN "cancelled" ELSE schedule
(* cancelLiveSchedule, refused while the post is being sent: that post is   *)
(* left to the worker.                                                      *)
CancelSchedule(c) ==
  LET s == calls[c].on IN
  /\ ArchiveStep(c, "cancel")
  /\ slot' = [slot EXCEPT ![s].schedule = Ended(@)]
  /\ Moves(c, IF slot[s].schedule = "sending" THEN "pause" ELSE "unschedule")
  /\ UNCHANGED <<space, landing, run, sendings, mishaps, wrecked>>

SavePost(s, status) ==
  slot' = IF slot[s].post = "NONE" THEN slot ELSE [slot EXCEPT ![s].post = status]
Unschedule(c) ==
  /\ ArchiveStep(c, "unschedule")
  /\ SavePost(calls[c].on, "READY")
  /\ Moves(c, "pause")
  /\ UNCHANGED <<space, landing, run, sendings, mishaps, wrecked>>

PauseAutopilot(c) ==
  /\ ArchiveStep(c, "pause")
  /\ space' = [space EXCEPT ![calls[c].on].autopilot = "PAUSED"]
  /\ Moves(c, "over")
  /\ UNCHANGED <<slot, landing, run, sendings, mishaps, wrecked>>

-----------------------------------------------------------------------------
(* Deleting for good: the document first, then everything it owns at once.  *)

Remove(c) ==
  LET s == calls[c].on IN
  /\ Does(c, "delete", "remove")
  /\ space' = [space EXCEPT ![s].status = "DELETED"]
  /\ calls' = [calls EXCEPT ![c].at = "clean", ![c].left = Collections]
  /\ UNCHANGED <<slot, landing, run, sendings, mishaps, wrecked>>

Clean(c) ==
  LET s == calls[c].on IN
  /\ Does(c, "delete", "clean")
  /\ \E part \in calls[c].left :
       /\ space' = IF part = "members"
                     THEN [space EXCEPT ![s].crew = {}, ![s].invited = FALSE] ELSE space
       /\ slot' = CASE part = "posts" -> [slot EXCEPT ![s].post = "NONE"]
                     [] part = "publishing" -> [slot EXCEPT ![s].schedule = "none"]
                     [] OTHER -> slot
       /\ landing' = IF part = "landings" THEN NoLanding(s) ELSE landing
       /\ calls' = [calls EXCEPT ![c].left = @ \ {part},
                      ![c].at = IF calls[c].left = {part} THEN "over" ELSE @]
  /\ UNCHANGED <<run, sendings, mishaps, wrecked>>

(* A server that dies over a request leaves the rest of it undone.          *)
ServerDies(c) ==
  /\ calls[c].on # Nowhere /\ calls[c].at \notin {"enter", "over"}
  /\ Fails
  /\ Moves(c, "over")
  /\ wrecked' = wrecked \cup {calls[c].on}
  /\ UNCHANGED <<space, slot, landing, run, sendings>>

-----------------------------------------------------------------------------
(* Scheduling and sending a post of the workspace.                          *)

(* schedulePublish: the live schedule is replaced, unless the post is being *)
(* sent.                                                                    *)
Queue(c) ==
  LET s == calls[c].on IN
  /\ Does(c, "schedule", "queue")
  /\ IF slot[s].post \in {"NONE", "PUBLISHING", "PUBLISHED"} \/ slot[s].schedule = "sending"
       THEN Moves(c, "over") /\ UNCHANGED slot
       ELSE slot' = [slot EXCEPT ![s].schedule = "live"] /\ Moves(c, "mark")
  /\ UNCHANGED <<space, landing, run, sendings, mishaps, wrecked>>

Mark(c) ==
  /\ Does(c, "schedule", "mark")
  /\ SavePost(calls[c].on, "SCHEDULED")
  /\ Moves(c, "over")
  /\ UNCHANGED <<space, landing, run, sendings, mishaps, wrecked>>

RunAt(step) == run.at = step
RunMoves(step) == run' = [run EXCEPT !.at = step]
Begins(s) ==
  /\ RunAt("idle") /\ slot[s].schedule = "live"
  /\ run' = [at |-> "look", on |-> s, since |-> ~IsActive(s)]
  /\ UNCHANGED <<space, slot, landing, calls, sendings, mishaps, wrecked>>

\* Mutant: only a deleted workspace stops a run.
Stands(s) == Exists(s)
(* An archived or deleted workspace publishes nothing.                      *)
Publishes(s) == IsActive(s)
Look ==
  LET s == run.on IN
  /\ RunAt("look")
  /\ IF Publishes(s)
       THEN RunMoves("claim") /\ UNCHANGED slot
       ELSE slot' = [slot EXCEPT ![s].schedule = Ended(@)] /\ run' = NoRun
  /\ UNCHANGED <<space, landing, calls, sendings, mishaps, wrecked>>

ClaimSlot ==
  LET s == run.on IN
  /\ RunAt("claim")
  /\ IF slot[s].schedule = "live"
       THEN /\ slot' = [slot EXCEPT ![s].schedule = "sending",
                                   ![s].post = IF @ = "NONE" THEN @ ELSE "PUBLISHING"]
            /\ RunMoves("send")
       ELSE run' = NoRun /\ UNCHANGED slot
  /\ UNCHANGED <<space, landing, calls, sendings, mishaps, wrecked>>

(* What the run writes of a schedule or post deleted under it is lost.      *)
Settles(s, schedule, post_) ==
  slot' = [slot EXCEPT ![s].schedule = IF @ = "sending" THEN schedule ELSE @,
                       ![s].post = IF @ = "NONE" THEN @ ELSE post_]
SendSlot ==
  LET s == run.on IN
  /\ RunAt("send")
  /\ \/ /\ slot[s].post # "NONE"
        /\ sendings' = [sendings EXCEPT ![s] = @ + 1]
        /\ RunMoves("finish")
        /\ UNCHANGED <<slot, mishaps>>
     \/ /\ slot[s].post = "NONE"
        /\ Settles(s, "failed", "FAILED")
        /\ run' = NoRun
        /\ UNCHANGED <<sendings, mishaps>>
     \/ /\ Fails  \* a platform out of order: tried again, or given up
        /\ Settles(s, "live", "SCHEDULED") \/ Settles(s, "failed", "FAILED")
        /\ run' = NoRun
        /\ UNCHANGED sendings
  /\ UNCHANGED <<space, landing, calls, wrecked>>

FinishSlot ==
  /\ RunAt("finish")
  /\ Settles(run.on, "published", "PUBLISHED")
  /\ run' = NoRun
  /\ UNCHANGED <<space, landing, calls, sendings, mishaps, wrecked>>

-----------------------------------------------------------------------------
CallNext(c) ==
  \/ Aim(c) \/ Enter(c) \/ Count(c) \/ Establish(c) \/ Join(c) \/ Undo(c) \/ Land(c)
  \/ Reinstate(c) \/ Archive(c) \/ Revoke(c) \/ Unland(c) \/ ListScheduled(c)
  \/ CancelSchedule(c) \/ Unschedule(c) \/ PauseAutopilot(c) \/ Remove(c) \/ Clean(c)
  \/ ServerDies(c) \/ Queue(c) \/ Mark(c)
RunNext == (\E s \in Spaces : Begins(s)) \/ Look \/ ClaimSlot \/ SendSlot \/ FinishSlot

WorkspacesNext == (\E c \in DOMAIN calls : CallNext(c)) \/ RunNext

-----------------------------------------------------------------------------
Over(c) == calls[c].at \in {"new", "over"}
Whole(s) == s \notin wrecked

(* A workspace there is has its owner, who alone can restore or delete it:  *)
(* one whose owner could not be added does not stay.                        *)
OwnersStay ==
  \A s \in Spaces :
    Exists(s) /\ Whole(s) =>
      \/ Owner \in space[s].crew
      \/ \E c \in DOMAIN calls : calls[c].on = s /\ calls[c].at \in {"join", "undo"}

(* Active workspaces exceed the plan by no more than the requests that      *)
(* looked at the limit together.                                            *)
SpacesWithinPlan ==
  Cardinality(Counted) < Allowed
    + Max({1, Cardinality({c \in DOMAIN calls : calls[c].what \in {"create", "restore"}})})

Quiet(s) == Whole(s) /\ \A c \in DOMAIN calls : calls[c].on = s => Over(c)
(* Once the requests about a deleted workspace are over, its members and    *)
(* its post are gone, and nobody ever gets to see what others left of it.   *)
DeletedIsGone ==
  \A s \in Spaces :
    space[s].status = "DELETED" =>
      /\ \A p \in People : s \notin Shown(p) /\ Landed(p) # s /\ ~MayEnter(p, s, TRUE)
      /\ Quiet(s) => space[s].crew = {} /\ slot[s].post = "NONE"

(* What archiving is for stands when its request is over: no invitation is  *)
(* open and Autopilot rests.                                                *)
ArchivesRest ==
  \A s \in Spaces :
    space[s].status = "ARCHIVED" /\ Quiet(s) =>
      ~space[s].invited /\ space[s].autopilot = "PAUSED"

(* How workspaces come and go, together.                                    *)
WorkspacesHold == WorkspacesTypeOK /\ OwnersStay /\ SpacesWithinPlan /\ DeletedIsGone /\ ArchivesRest

(* "Nothing in it may go out": a run that begins once a workspace is        *)
(* archived or deleted sends nothing of it, though a request let in earlier *)
(* schedules a post after that, an attempt comes round again or the server  *)
(* dies before it has unscheduled anything.                                 *)
NothingGoesOut ==
  [][\A s \in Spaces : sendings'[s] # sendings[s] => run.on = s /\ ~run.since]_workspaceVars
=============================================================================
