----------------------------- MODULE MCWorkbench -----------------------------
(***************************************************************************)
(* Small instances of posts, workspaces, media and the brand profile for   *)
(* TLC.                                                                    *)
(***************************************************************************)
EXTENDS Workbench, TLC

CONSTANTS h1, h2, f1, f2, f3
TwoRequests == {h1, h2}
ThreeFiles == {f1, f2, f3}
OneStored == {f1}
Symmetry == Permutations(Requests) \cup Permutations(Files \ Stored)

Only(edits, claims, deletes, removes, uploads, faults) ==
  [edit |-> edits, claim |-> claims, delete |-> deletes,
   removeFile |-> removes, upload |-> uploads, fault |-> faults]
(* Versions are added, so many at once that a request runs out of attempts; *)
(* the post is sent and deleted meanwhile; files come and go.               *)
SixOpenings ==
  {Only(4, 0, 0, 0, 0, 0), Only(3, 1, 0, 0, 0, 0), Only(2, 1, 1, 0, 0, 0),
   Only(1, 1, 1, 1, 0, 0), Only(2, 1, 0, 1, 1, 0), Only(1, 1, 0, 1, 1, 2)}

(* Two workspaces, of which the plan allows one active.                     *)
TwoSpaces == {1, 2}
Own(what) == Ask(what, "owner")
Edits(what) == Ask(what, "editor")
One == <<"ACTIVE", "NONE">>
SevenBeginnings ==
  {Beginning(One, <<Own("create"), Own("archive"), Edits("schedule")>>, 1),
   Beginning(One, <<Own("create"), Own("archive"), Edits("switch")>>, 1),
   Beginning(<<"ACTIVE", "ARCHIVED">>, <<Own("restore"), Own("archive"), Own("delete")>>, 1),
   Beginning(One, <<Own("archive"), Own("delete"), Edits("schedule")>>, 1),
   Beginning(One, <<Own("archive"), Own("restore"), Edits("schedule")>>, 1),
   Beginning(One, <<Own("archive"), Own("delete"), Own("restore"), Edits("schedule")>>, 0),
   Beginning(<<"ARCHIVED", "NONE">>, <<Own("restore"), Own("create"), Own("restore")>>, 1)}

(* A file of each kind the platforms treat differently.                     *)
Item(name, type, large) == [name |-> name, type |-> type, large |-> large]
SixFiles ==
  {Item("photo", "image/jpeg", FALSE), Item("poster", "image/jpeg", TRUE),
   Item("banner", "image/webp", FALSE), Item("clip", "video/mp4", FALSE),
   Item("screencast", "video/webm", FALSE), Item("brochure", "application/pdf", FALSE)}

ThreeSteps == {"business", "voice", "competitors"}
LastStep == {"competitors"}
ListSteps == {"voice", "competitors"}
(* Filled in with the workspace's details, or by an earlier request.        *)
Earlier == 9
Fresh(prefilled) ==
  ProfileOf(FALSE, "NOT_STARTED",
    [s \in ThreeSteps |-> IF s = "business" THEN prefilled ELSE Blank], {})
Begun ==
  ProfileOf(TRUE, "IN_PROGRESS",
    [s \in ThreeSteps |-> IF s = "competitors" THEN Blank ELSE Earlier], {"business", "voice"})
Story(of, wishes) == [profile |-> of, wishes |-> [i \in DOMAIN wishes |-> Wish(wishes[i])]]
FourStories ==
  {Story(Fresh(Earlier), <<"draft", "complete", "draft">>),
   Story(Fresh(Blank), <<"step", "step", "complete">>),
   Story(Begun, <<"draft", "complete", "draft">>),
   Story(Begun, <<"step", "step", "step", "complete">>)}
=============================================================================
