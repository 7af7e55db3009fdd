----------------------------- MODULE Strategies -----------------------------
(***************************************************************************)
(* The content strategies of one workspace: AI writes the next version as  *)
(* a draft, editors edit and delete drafts, admins make one version the    *)
(* active one.  Requests overlap between any two database calls, and the   *)
(* API server may die between them.                                        *)
(***************************************************************************)
EXTENDS AIUsage, Sequences, FiniteSetsExt

CONSTANT MaxAttempts          \* tries at taking the next version number

VARIABLES strategies,         \* in the order they were created
          requests            \* what each request has read so far

strategyVars == <<strategies, requests>>

(* A deleted document is one of two: a draft, or a version that was active. *)
Deleted == {"DELETED", "REMOVED"}
Statuses == {"DRAFT", "ACTIVE", "ARCHIVED"} \cup Deleted
Ids == DOMAIN strategies
Stored == {s \in Ids : strategies[s].status \notin Deleted}
Active == {s \in Ids : strategies[s].status = "ACTIVE"}

Strategy(version, status) == [version |-> version, status |-> status, revision |-> 0]

(* A request not yet made: what it asks, the role of who asks.              *)
Ask(what, role) ==
  [what |-> what, role |-> role, at |-> "new", on |-> 0, saw |-> "",
   revision |-> 0, previous |-> {}, latest |-> 0, tries |-> 0, week |-> 0]

Is(r, at) == requests[r].at = at
Goes(r, at) == requests' = [requests EXCEPT ![r].at = at]
Ends(r) == Goes(r, "done")
OneOf(r, whats) == Is(r, "new") /\ requests[r].what \in whats

WithStatus(all, chosen, status) ==
  [s \in DOMAIN all |->
     IF s \in chosen THEN [all[s] EXCEPT !.status = status] ELSE all[s]]

-----------------------------------------------------------------------------
(* AI writes a version                                                     *)

(* Regenerating reads the version it starts from, which stays as it is.     *)
StartsFrom(r) == requests[r].what = "regenerate" => Stored # {}

Generate(r) ==
  /\ OneOf(r, {"generate", "regenerate"})
  /\ StartsFrom(r)
  /\ Goes(r, IF MayGenerate THEN "generating" ELSE "done")
  /\ UNCHANGED <<strategies, uses, faults>>

Generated(r) ==
  /\ Is(r, "generating")
  /\ \E answer \in Answers :
       /\ RecordUsage(answer)
       /\ Goes(r, IF answer = "usable" THEN "latest" ELSE "done")
  /\ UNCHANGED strategies

FindLatest(r) ==
  /\ Is(r, "latest")
  /\ requests' = [requests EXCEPT ![r].at = "create",
       ![r].latest = Max({strategies[s].version : s \in Stored} \cup {0})]
  /\ UNCHANGED <<strategies, uses, faults>>

(* The unique index on workspace and version.                              *)
Taken(version) == \E s \in Stored : strategies[s].version = version

GiveUpAt == MaxAttempts

CreateVersion(r) ==
  LET next == requests[r].latest + 1 IN
  /\ Is(r, "create")
  /\ IF Taken(next)
       THEN /\ requests' = [requests EXCEPT ![r].tries = @ + 1,
                 ![r].at = IF requests[r].tries + 1 >= GiveUpAt THEN "lost" ELSE "latest"]
            /\ UNCHANGED strategies
       ELSE /\ strategies' = Append(strategies, Strategy(next, "DRAFT"))
            /\ Ends(r)
  /\ UNCHANGED <<uses, faults>>

-----------------------------------------------------------------------------
(* People edit and delete                                                  *)

IsAdmin(r) == requests[r].role = "ADMIN"

(* The page sends the revision it was loaded with: the one stored now, or   *)
(* an older one.  A version found archived is not edited, and the active    *)
(* one only by an admin.                                                    *)
FindForUpdate(r, s) ==
  /\ OneOf(r, {"update"}) /\ s \in Stored
  /\ strategies[s].status # "ARCHIVED"
  /\ strategies[s].status = "ACTIVE" => IsAdmin(r)
  /\ \E seen \in 0 .. strategies[s].revision :
       requests' = [requests EXCEPT ![r].at = "update", ![r].on = s,
                      ![r].saw = strategies[s].status, ![r].revision = seen]
  /\ UNCHANGED <<strategies, uses, faults>>

\* Mutant: the save does not ask for the status that was checked.
SameRevision(r) == LET s == strategies[requests[r].on] IN
  s.revision = requests[r].revision /\ s.status \notin Deleted

Unchanged(r) ==
  LET s == strategies[requests[r].on] IN
  s.revision = requests[r].revision /\ s.status = requests[r].saw

Update(r) ==
  /\ Is(r, "update")
  /\ strategies' = IF Unchanged(r)
       THEN [strategies EXCEPT ![requests[r].on].revision = @ + 1]
       ELSE strategies
  /\ Ends(r)
  /\ UNCHANGED <<uses, faults>>

FindForDelete(r, s) ==
  /\ OneOf(r, {"delete"}) /\ s \in Stored
  /\ strategies[s].status # "DRAFT" => IsAdmin(r)
  /\ requests' = [requests EXCEPT ![r].at = "delete", ![r].on = s]
  /\ UNCHANGED <<strategies, uses, faults>>

(* By its id alone: whatever the version has become is deleted.             *)
Delete(r) ==
  /\ Is(r, "delete")
  /\ strategies' = [strategies EXCEPT ![requests[r].on].status =
       IF @ \in Deleted THEN @ ELSE IF @ = "DRAFT" THEN "DELETED" ELSE "REMOVED"]
  /\ Ends(r)
  /\ UNCHANGED <<uses, faults>>

-----------------------------------------------------------------------------
(* An admin activates a version                                            *)

FindForActivation(r, s) ==
  /\ OneOf(r, {"activate"}) /\ IsAdmin(r)
  /\ s \in Stored /\ strategies[s].status # "ACTIVE"
  /\ requests' = [requests EXCEPT ![r].at = "previous", ![r].on = s]
  /\ UNCHANGED <<strategies, uses, faults>>

FindPrevious(r) ==
  /\ Is(r, "previous")
  /\ requests' = [requests EXCEPT ![r].previous = Active,
                    ![r].at = IF Active = {} THEN "activate" ELSE "archive"]
  /\ UNCHANGED <<strategies, uses, faults>>

(* By their ids alone, those that still exist.                              *)
ArchivePrevious(r) ==
  /\ Is(r, "archive")
  /\ strategies' = WithStatus(strategies, requests[r].previous \cap Stored, "ARCHIVED")
  /\ Goes(r, "activate")
  /\ UNCHANGED <<uses, faults>>

(* The partial unique index: no second ACTIVE one.                          *)
Accepted(s) == Active \subseteq {s}

(* The version is there to activate; otherwise the previous one comes back. *)
Waiting(s) == s \in Stored \ Active

\* Mutant: the activation gives up without restoring.
NoRestore == "done"

(* What becomes of the one archived, when the version itself is gone.       *)
AfterLoss == "restore"

Activate(r) ==
  LET s == requests[r].on IN
  /\ Is(r, "activate")
  /\ \/ /\ Waiting(s) /\ Accepted(s)
        /\ strategies' = WithStatus(strategies, {s}, "ACTIVE")
        /\ Ends(r)
     \/ /\ Waiting(s) /\ ~Accepted(s)
        /\ Ends(r)
        /\ UNCHANGED strategies
     \/ /\ ~Waiting(s)
        /\ Goes(r, AfterLoss)
        /\ UNCHANGED strategies
  /\ UNCHANGED <<uses, faults>>

RestorePrevious(r) ==
  LET back == requests[r].previous \cap Stored IN
  /\ Is(r, "restore")
  /\ strategies' = IF \A s \in back : Accepted(s)
       THEN WithStatus(strategies, back, "ACTIVE")
       ELSE strategies
  /\ Ends(r)
  /\ UNCHANGED <<uses, faults>>

-----------------------------------------------------------------------------
(* The API server dies with the request.                                   *)
Dies(r) ==
  /\ ~Is(r, "new") /\ ~Is(r, "done") /\ faults > 0
  /\ faults' = faults - 1
  /\ Goes(r, "dead")
  /\ UNCHANGED <<strategies, uses>>

Request(r) ==
  \/ Generate(r) \/ Generated(r) \/ FindLatest(r) \/ CreateVersion(r)
  \/ Update(r) \/ Delete(r)
  \/ FindPrevious(r) \/ ArchivePrevious(r) \/ Activate(r) \/ RestorePrevious(r)
  \/ Dies(r)
  \/ \E s \in Ids :
       FindForUpdate(r, s) \/ FindForDelete(r, s) \/ FindForActivation(r, s)

StrategiesStep == \E r \in DOMAIN requests : Request(r)
=============================================================================
