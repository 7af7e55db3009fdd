------------------------------ MODULE Profiles ------------------------------
(***************************************************************************)
(* One workspace's brand profile: drafts, steps of the wizard saved or     *)
(* skipped, and the completion of the onboarding, asked for by teammates   *)
(* at once.  Each request reads the profile, changes its copy and saves    *)
(* what it changed.                                                        *)
(***************************************************************************)
EXTENDS Naturals, Sequences

CONSTANTS
  Wizard,   \* steps of the wizard
  Optional, \* those with no required field
  Lists,    \* those whose field is a list
  Stories   \* the situations a behaviour may start in

ASSUME WizardAssumption == Optional \subseteq Wizard /\ Lists \subseteq Wizard

VARIABLES
  profile, \* the BrandProfile document, or what a new one would hold
  asked,   \* the API requests, with the copy each of them read and its changes
  crossed  \* history: a required field was cleared while the profile was completed

profileVars == <<profile, asked, crossed>>

-----------------------------------------------------------------------------
Blank == 0
Required == Wizard \ Optional
(* One field stands for those of each step; a request fills one in with its *)
(* own number.  version is Mongoose's.                                      *)
Profile == [saved : BOOLEAN, version : Nat, status : {"NOT_STARTED", "IN_PROGRESS", "COMPLETED"},
            field : [Wizard -> Nat], completed : SUBSET Wizard, skipped : SUBSET Wizard]
ProfileOf(saved, status, field, completed) ==
  [saved |-> saved, version |-> 0, status |-> status, field |-> field,
   completed |-> completed, skipped |-> {}]
Wish(what) == [what |-> what, at |-> "new"]

(* A story begins with a profile the program saved, or with a new one.      *)
Found(p) ==
  /\ p \in Profile /\ p.completed \cap p.skipped = {}
  /\ p.saved <=> p.status # "NOT_STARTED"
  /\ p.status = "COMPLETED" => \A s \in Required : p.field[s] # Blank
ASSUME StoriesAssumption ==
  \A story \in Stories :
    /\ Found(story.profile)
    /\ DOMAIN story.wishes \subseteq Nat \ {Blank}
    /\ \A c \in DOMAIN story.wishes : story.wishes[c] \in {Wish(w) : w \in {"draft", "step", "complete"}}

ProfilesTypeOK ==
  /\ profile \in Profile
  /\ \A c \in DOMAIN asked :
       /\ asked[c].what \in {"draft", "step", "complete"}
       /\ asked[c].at \in {"new", "over"} \/ (asked[c].at = "save" /\ asked[c].mine \in Profile)
  /\ crossed \in BOOLEAN

ProfilesInit ==
  \E story \in Stories :
    /\ profile = story.profile
    /\ asked = story.wishes
    /\ crossed = FALSE

-----------------------------------------------------------------------------
(* findMissingFields.                                                       *)
Unfilled(p, steps) == {s \in steps \cap Required : p.field[s] = Blank}
MarkInProgress(p) == [p EXCEPT !.status = IF @ = "NOT_STARTED" THEN "IN_PROGRESS" ELSE @]

Refused(c) == asked' = [asked EXCEPT ![c] = [what |-> @.what, at |-> "over"]]
Changes(c, mine) ==
  asked' = [asked EXCEPT ![c] = [what |-> @.what, at |-> "save", copy |-> profile, mine |-> mine]]
IsNew(c, what) == asked[c].at = "new" /\ asked[c].what = what

\* Mutant: what a draft clears is not looked at.
AnyDraft(p) == TRUE
(* Once onboarding is complete, required fields can no longer be cleared.   *)
MayDraft(p) == p.status = "COMPLETED" => Unfilled(p, Wizard) = {}

(* updateBrandProfile: any of the fields, filled in or cleared.             *)
SaveDraft(c) ==
  /\ IsNew(c, "draft")
  /\ \E sent \in SUBSET Wizard : \E filled \in SUBSET sent :
       LET mine == [profile EXCEPT !.field = [s \in Wizard |->
             IF s \in filled THEN c ELSE IF s \in sent THEN Blank ELSE @[s]]] IN
       IF MayDraft(mine) THEN Changes(c, MarkInProgress(mine)) ELSE Refused(c)
  /\ UNCHANGED <<profile, crossed>>

(* saveOnboardingStep, filled in or skipped.                                *)
SaveStep(c, s) ==
  /\ IsNew(c, "step")
  /\ \E value \in {c, Blank, profile.field[s]} :
       IF s \in Required /\ value = Blank THEN Refused(c)
       ELSE Changes(c, MarkInProgress([profile EXCEPT
              !.field[s] = value, !.completed = @ \cup {s}, !.skipped = @ \ {s}]))
  /\ UNCHANGED <<profile, crossed>>

SkipStep(c, s) ==
  /\ IsNew(c, "step")
  /\ IF s \in Required THEN Refused(c)
     ELSE Changes(c, MarkInProgress([profile EXCEPT !.completed = @ \ {s},
                                                    !.skipped = @ \cup {s}]))
  /\ UNCHANGED <<profile, crossed>>

(* completeOnboarding.                                                      *)
Complete(c) ==
  /\ IsNew(c, "complete")
  /\ IF profile.status = "COMPLETED" \/ Unfilled(profile, Wizard) # {} THEN Refused(c)
     ELSE Changes(c, [profile EXCEPT !.status = "COMPLETED"])
  /\ UNCHANGED <<profile, crossed>>

-----------------------------------------------------------------------------
Altered(c, s) == asked[c].mine.field[s] # asked[c].copy.field[s]
(* Mongoose: a save that writes a whole list fails when another such save   *)
(* came between, and any other save goes through.                           *)
WritesList(c) ==
  LET mine == asked[c].mine copy == asked[c].copy IN
  \/ mine.completed # copy.completed \/ mine.skipped # copy.skipped
  \/ \E s \in Lists : Altered(c, s)
\* Mutant: two teammates may both start the profile.
Overwrites(c) == ~asked[c].copy.saved
(* The unique index keeps the first profile of a workspace.                 *)
Starts(c) == ~asked[c].copy.saved /\ ~profile.saved
Saves(c) ==
  \/ Starts(c)
  \/ asked[c].copy.saved /\ (WritesList(c) => profile.version = asked[c].copy.version)

Merged(c) ==
  LET mine == asked[c].mine copy == asked[c].copy
      changed(old, new, now) == IF new = old THEN now ELSE new IN
  [saved |-> TRUE,
   version |-> IF copy.saved /\ WritesList(c) THEN profile.version + 1 ELSE profile.version,
   status |-> changed(copy.status, mine.status, profile.status),
   field |-> [s \in Wizard |-> IF Altered(c, s) THEN mine.field[s] ELSE profile.field[s]],
   completed |-> changed(copy.completed, mine.completed, profile.completed),
   skipped |-> changed(copy.skipped, mine.skipped, profile.skipped)]

(* A draft that clears a field and a completion, each read before the other *)
(* was saved.                                                               *)
Clears(c) == \E s \in Required : Altered(c, s) /\ asked[c].mine.field[s] = Blank
Crosses(c) ==
  /\ Clears(c) /\ asked[c].copy.status # "COMPLETED"
  /\ \/ profile.status = "COMPLETED"
     \/ \E d \in DOMAIN asked : asked[d].what = "complete" /\ asked[d].at = "save"

SaveProfile(c) ==
  /\ asked[c].at = "save"
  /\ IF Saves(c) THEN profile' = Merged(c) /\ crossed' = (crossed \/ Crosses(c))
                 ELSE UNCHANGED <<profile, crossed>>
  /\ Refused(c)

ProfilesNext ==
  \E c \in DOMAIN asked :
    \/ SaveDraft(c) \/ Complete(c) \/ SaveProfile(c)
    \/ \E s \in Wizard : SaveStep(c, s) \/ SkipStep(c, s)

ProfilesSpec == ProfilesInit /\ [][ProfilesNext]_profileVars

-----------------------------------------------------------------------------
(* Two teammates never leave a step both completed and skipped.             *)
StepsApart == profile.completed \cap profile.skipped = {}

(* A completed profile has every required field, as the AI that writes from *)
(* it expects, unless a draft cleared one across the completion.            *)
CompletedIsWhole ==
  profile.status = "COMPLETED" => Unfilled(profile, Wizard) = {} \/ crossed

(* Onboarding is never opened again, though a request that found no profile *)
(* may save after others started and completed it.                          *)
NeverReopened == [][profile.status = "COMPLETED" => profile'.status = "COMPLETED"]_profileVars

(* A step is never lost: only skipping it takes it from the completed.      *)
StepsAreKept == [][profile.completed \subseteq profile'.completed \cup profile'.skipped]_profileVars

(* What teammates do to one profile at once, together.                      *)
ProfilesHold ==
  [](ProfilesTypeOK /\ StepsApart /\ CompletedIsWhole) /\ NeverReopened /\ StepsAreKept
=============================================================================
