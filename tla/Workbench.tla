------------------------------ MODULE Workbench ------------------------------
(***************************************************************************)
(* What people work on: their workspaces, a workspace's brand profile, a   *)
(* post with its versions and files, and the media it carries.  The four   *)
(* share no record that one changes under another, so a behaviour is about *)
(* one of them while the others rest.                                      *)
(***************************************************************************)
EXTENDS Posts, Workspaces, MediaRules, Profiles

-----------------------------------------------------------------------------
(* The parts at rest: nothing to do in them.                                *)
NoEvents == [event \in Events |-> 0]
PostsRest ==
  /\ post = [exists |-> FALSE, status |-> "READY", current |-> 0, count |-> 0]
  /\ version = [n \in Numbers |-> NoVersion]
  /\ file = [f \in Files |-> [record |-> FALSE, object |-> FALSE]]
  /\ request = [h \in Requests |-> Idle]
  /\ upload = [pc |-> "done", waiting |-> {}, failed |-> FALSE]
  /\ worker = [pc |-> "idle", number |-> 0, media |-> {}]
  /\ schedule = "none" /\ sent = Nothing /\ kept = {} /\ budget = NoEvents

WorkspacesRest ==
  /\ space = [s \in Spaces |->
       [status |-> "NONE", crew |-> {}, invited |-> FALSE, autopilot |-> "PAUSED"]]
  /\ slot = [s \in Spaces |-> Empty]
  /\ landing = [p \in People |-> Nowhere]
  /\ calls = <<>> /\ run = NoRun /\ sendings = [s \in Spaces |-> 0]
  /\ mishaps = 0 /\ wrecked = {}

MediaRest ==
  /\ draft = [platform |-> "LINKEDIN", text |-> "short", title |-> None,
              media |-> {}, format |-> None]
  /\ shelf = {} /\ picker = Closed /\ going = "sent"

ProfileRests ==
  /\ profile = ProfileOf(FALSE, "NOT_STARTED", [s \in Wizard |-> Blank], {})
  /\ asked = <<>> /\ crossed = FALSE

Init ==
  \/ PostsInit /\ WorkspacesRest /\ MediaRest /\ ProfileRests
  \/ WorkspacesInit /\ PostsRest /\ MediaRest /\ ProfileRests
  \/ MediaInit /\ PostsRest /\ WorkspacesRest /\ ProfileRests
  \/ ProfilesInit /\ PostsRest /\ WorkspacesRest /\ MediaRest

Next ==
  \/ PostsNext /\ UNCHANGED <<workspaceVars, mediaVars, profileVars>>
  \/ WorkspacesNext /\ UNCHANGED <<postVars, mediaVars, profileVars>>
  \/ MediaNext /\ UNCHANGED <<postVars, workspaceVars, profileVars>>
  \/ ProfilesNext /\ UNCHANGED <<postVars, workspaceVars, mediaVars>>

Spec == Init /\ [][Next]_<<postVars, workspaceVars, mediaVars, profileVars>>
=============================================================================
