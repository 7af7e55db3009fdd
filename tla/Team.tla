---------------------------------- MODULE Team ----------------------------------
(***************************************************************************)
(* The members of a workspace: invitations and the seats of the plan, role *)
(* changes and removals and the owner every workspace needs.  A request    *)
(* loads the workspace and the actor's membership first and then works     *)
(* statement by statement; several requests are in progress at a time.     *)
(***************************************************************************)
EXTENDS Naturals, FiniteSets, Sequences

CONSTANTS
  Users,     \* users, members or not
  Handlers,  \* requests, each made once
  Openings,  \* the teams a behaviour may begin with
  Seats      \* teamMembersPerWorkspace of the plan

(* An opening is a team, its pending invitations and what each request is. *)
ASSUME TeamAssumption ==
  /\ Seats \in Nat \ {0}
  /\ Users # {} /\ IsFiniteSet(Users) /\ IsFiniteSet(Handlers)
  /\ \A o \in Openings :
       /\ o.team \in [Users -> {"OWNER", "ADMIN", "EDITOR", "none"}]
       /\ o.kinds \in [Handlers -> {"role", "remove", "invite", "revoke", "accept", "none"}]
       /\ \E u \in Users : o.team[u] = "OWNER"
       /\ o.invited \subseteq {u \in Users : o.team[u] = "none"}
       /\ Cardinality({u \in Users : o.team[u] # "none"} \union o.invited) <= Seats

VARIABLES
  members,      \* WorkspaceMember: each user's role and document
  invitations,  \* WorkspaceInvitation, in the order of their creation
  billingOwner, \* Workspace.billingOwner
  seats,        \* the seats of the plan in force
  requests      \* the requests, with what each of them has read

teamVars == <<members, invitations, billingOwner, seats, requests>>

Roles == {"OWNER", "ADMIN", "EDITOR"}
Rank == [OWNER |-> 3, ADMIN |-> 2, EDITOR |-> 1, none |-> 0]

canManageMember(actor, target) == actor = "OWNER" \/ Rank[actor] > Rank[target]
canAssignRole(actor, role) == actor = "OWNER" \/ Rank[actor] > Rank[role]

(* A document's number tells it from an earlier membership of the user and *)
(* who is longest-standing.                                                *)
Member(u) == members[u].role # "none"
Team == {u \in Users : Member(u)}
Owners == {u \in Users : members[u].role = "OWNER"}
NewDoc == CHOOSE n \in 2..(Cardinality(Users) * Cardinality(Handlers) + 2) :
            /\ \A u \in Users : members[u].doc < n
            /\ n = 2 \/ \E u \in Users : members[u].doc = n - 1

(* An expired invitation keeps its status; `joins' counts the memberships  *)
(* it led to.                                                              *)
Invitation(u, role, by, during) ==
  [email |-> u, role |-> role, by |-> by, status |-> "pending", expired |-> FALSE,
   joins |-> 0, during |-> during]
Usable(i) == invitations[i].status = "pending" /\ ~ invitations[i].expired
Pending == {i \in DOMAIN invitations : Usable(i)}
PendingFor(u) == {i \in Pending : invitations[i].email = u}

NoRequest == [pc |-> "ready", kind |-> "none", actor |-> "none", as |-> "none", target |-> "none",
              invitation |-> 0, role |-> "none", was |-> "none", doc |-> 0, payer |-> "none",
              replacing |-> 0, allowed |-> 0, first |-> "none", counted |-> {}, limit |-> 0]
Answered == [NoRequest EXCEPT !.pc = "done"]
InFlight == {r \in Handlers : requests[r].pc \notin {"ready", "done"}}

TeamInit ==
  \E o \in Openings :
    /\ members = [u \in Users |-> [role |-> o.team[u], doc |-> IF o.team[u] = "none" THEN 0 ELSE 1]]
    /\ billingOwner \in {u \in Users : o.team[u] = "OWNER"}
    /\ \E order \in [1..Cardinality(o.invited) -> o.invited] :
         /\ \A i, k \in DOMAIN order : i # k => order[i] # order[k]
         /\ invitations = [i \in DOMAIN order |-> Invitation(order[i], "EDITOR", billingOwner, {})]
    /\ seats = Seats
    /\ requests = [r \in Handlers |-> IF o.kinds[r] = "none" THEN Answered
                                      ELSE [NoRequest EXCEPT !.kind = o.kinds[r]]]

(* An answered request forgets what it read.                               *)
Moved(q, pc) == IF pc = "done" THEN Answered ELSE [q EXCEPT !.pc = pc]
MoveTo(r, pc) == requests' = [requests EXCEPT ![r] = Moved(@, pc)]
MoveIf(r, condition, pc) == MoveTo(r, IF condition THEN pc ELSE "done")
Kept == UNCHANGED <<members, invitations, billingOwner, seats>>

-------------------------------------------------------------------------------
(* The middleware: the actor's membership and the workspace are read once. *)

MinimumRole == [role |-> "ADMIN", remove |-> "EDITOR", invite |-> "ADMIN", revoke |-> "ADMIN"]

Begin(r) ==
  LET kind == requests[r].kind IN
  /\ requests[r].pc = "ready" /\ kind # "accept"
  /\ \E u \in Team, target \in Users, role \in Roles :
       /\ Rank[members[u].role] >= Rank[MinimumRole[kind]]
       /\ kind = "invite" => role # "OWNER" /\ canAssignRole(members[u].role, role)
       /\ kind \in {"remove", "revoke"} => role = "EDITOR"
       /\ requests' = [requests EXCEPT ![r] = [requests[r] EXCEPT
            !.pc = IF kind = "invite" THEN "count" ELSE kind, !.actor = u,
            !.as = members[u].role, !.target = target, !.role = role, !.payer = billingOwner]]
  /\ Kept

-------------------------------------------------------------------------------
(* Roles and removals.                                                     *)

(* findMemberInWorkspace and the checks on what it returned.               *)
Allowed(r, was) ==
  LET q == requests[r]
      self == q.actor = q.target
  IN IF q.kind = "role"
     THEN /\ was # q.role
          /\ IF self THEN q.as = "OWNER" ELSE canManageMember(q.as, was)
          /\ canAssignRole(q.as, q.role)
     ELSE self \/ (Rank[q.as] >= Rank.ADMIN /\ canManageMember(q.as, was))

Find(r) ==
  LET target == requests[r].target
      was == members[target].role IN
  /\ requests[r].pc \in {"role", "remove"}
  /\ requests' = [requests EXCEPT ![r] = Moved(
       [@ EXCEPT !.was = was, !.doc = members[target].doc],
       IF ~ Member(target) \/ ~ Allowed(r, was) THEN "done"
       ELSE IF was = "OWNER" THEN "owners" ELSE "apply")]
  /\ Kept

(* The last owner stays.                                                   *)
CheckOwners(r) ==
  /\ requests[r].pc = "owners"
  /\ MoveIf(r, Cardinality(Owners) > 1, "apply")
  /\ Kept

(* The document the request loaded is still there.                         *)
Found(r) ==
  LET q == requests[r] IN Member(q.target) /\ members[q.target].doc = q.doc

(* A save of a deleted document is an error, its deletion is not.          *)
ChangeRole(r) ==
  LET q == requests[r] IN
  /\ q.pc = "apply" /\ q.kind = "role"
  /\ members' = IF Found(r) THEN [members EXCEPT ![q.target].role = q.role] ELSE members
  /\ MoveIf(r, Found(r), "verify")
  /\ UNCHANGED <<invitations, billingOwner, seats>>

RemoveMember(r) ==
  LET q == requests[r] IN
  /\ q.pc = "apply" /\ q.kind = "remove"
  /\ members' = IF Found(r) THEN [members EXCEPT ![q.target].role = "none"] ELSE members
  /\ MoveIf(r, q.was = "OWNER", "verify")
  /\ UNCHANGED <<invitations, billingOwner, seats>>

\* Mutant: nobody looks whether an owner is left.
NeverUndone(r) == FALSE

Undone(r) == Owners = {}

(* The owners are counted again.                                           *)
Verify(r) ==
  /\ requests[r].pc = "verify"
  /\ IF Undone(r) THEN MoveTo(r, "undo") ELSE MoveIf(r, requests[r].was = "OWNER", "payer")
  /\ Kept

(* No owner is left: the role is given back, or the membership.            *)
Undo(r) ==
  LET q == requests[r] IN
  /\ q.pc = "undo"
  /\ members' =
       IF q.kind = "role" /\ Found(r) THEN [members EXCEPT ![q.target].role = q.was]
       ELSE IF q.kind = "remove" /\ ~ Member(q.target)
       THEN [members EXCEPT ![q.target] = [role |-> q.was, doc |-> NewDoc]]
       ELSE members
  /\ MoveTo(r, "done")
  /\ UNCHANGED <<invitations, billingOwner, seats>>

(* reassignBillingOwner: to the longest-standing other owner, if the       *)
(* workspace that was loaded names the former one.                         *)
ChoosePayer(r) ==
  LET q == requests[r]
      others == Owners \ {q.target} IN
  /\ q.pc = "payer"
  /\ IF q.payer # q.target \/ others = {} THEN MoveTo(r, "done")
     ELSE \E u \in others :
            /\ \A v \in others : members[u].doc <= members[v].doc
            /\ requests' = [requests EXCEPT ![r].pc = "bill", ![r].payer = u]
  /\ Kept

Bill(r) ==
  /\ requests[r].pc = "bill"
  /\ billingOwner' = requests[r].payer
  /\ MoveTo(r, "done")
  /\ UNCHANGED <<members, invitations, seats>>

-------------------------------------------------------------------------------
(* Invitations.                                                            *)

(* createInvitation: not a member yet; how many invitations it replaces.   *)
CountReplaced(r) ==
  LET u == requests[r].target IN
  /\ requests[r].pc = "count"
  /\ requests' = [requests EXCEPT ![r] = Moved(
       [@ EXCEPT !.replacing = Cardinality(PendingFor(u))], IF Member(u) THEN "done" ELSE "room")]
  /\ Kept

(* assertCanAddTeamMember reads the plan, then asks countTeamSeats.        *)
ReadPlan(r) ==
  /\ requests[r].pc \in {"room", "seat"} /\ requests[r].allowed = 0
  /\ requests' = [requests EXCEPT ![r].allowed = seats]
  /\ Kept

\* Mutant: only members count, as they did before there were invitations.
MembersOnly(query) == IF query = "members" THEN Team ELSE {}

(* What each query of countTeamSeats finds: members, or invited addresses. *)
Answer(query) == IF query = "members" THEN Team ELSE {invitations[i].email : i \in Pending}
Other(query) == IF query = "members" THEN "invitations" ELSE "members"

(* The queries run side by side: either is answered first.                 *)
CountSeats(r) ==
  /\ requests[r].pc \in {"room", "seat"} /\ requests[r].allowed > 0 /\ requests[r].first = "none"
  /\ \E query \in {"members", "invitations"} :
       requests' = [requests EXCEPT ![r] = [requests[r] EXCEPT
         !.first = query, !.counted = Answer(query)]]
  /\ Kept

Taken(q) == Cardinality(q.counted) + Cardinality(Answer(Other(q.first)))
Decided(q) == [q EXCEPT !.allowed = 0, !.first = "none", !.counted = {}]

CheckRoom(r) ==
  LET q == requests[r] IN
  /\ q.pc = "room" /\ q.first # "none"
  /\ requests' = [requests EXCEPT ![r] = Moved(Decided(q),
       IF Taken(q) - q.replacing + 1 <= q.allowed THEN "replace" ELSE "done")]
  /\ Kept

Revoked(chosen) ==
  [i \in DOMAIN invitations |->
     IF i \in chosen /\ invitations[i].status = "pending"
     THEN [invitations[i] EXCEPT !.status = "revoked"] ELSE invitations[i]]

Replace(r) ==
  /\ requests[r].pc = "replace"
  /\ invitations' = Revoked({i \in DOMAIN invitations : invitations[i].email = requests[r].target})
  /\ MoveTo(r, "create")
  /\ UNCHANGED <<members, billingOwner, seats>>

(* A unique index allows one pending invitation of an address.             *)
Duplicate(u) == \E i \in DOMAIN invitations :
                  invitations[i].email = u /\ invitations[i].status = "pending"

Create(r) ==
  LET q == requests[r] IN
  /\ q.pc = "create"
  /\ invitations' =
       IF Duplicate(q.target) THEN invitations
       ELSE Append(invitations, Invitation(q.target, q.role, q.actor, InFlight \ {r}))
  /\ MoveTo(r, "done")
  /\ UNCHANGED <<members, billingOwner, seats>>

RevokeInvitation(r) ==
  /\ requests[r].pc = "revoke"
  /\ \E k \in DOMAIN invitations : invitations' = Revoked({k})
  /\ MoveTo(r, "done")
  /\ UNCHANGED <<members, billingOwner, seats>>

(* Not while it is being accepted: invitations live for days.              *)
Expire(i) ==
  /\ Usable(i) /\ \A r \in InFlight : requests[r].invitation # i
  /\ invitations' = [invitations EXCEPT ![i].expired = TRUE]
  /\ UNCHANGED <<members, billingOwner, seats, requests>>

(* acceptInvitation: findUsableInvitation and the inviter's standing.  The *)
(* link travels by e-mail, so the requests in progress when it was made    *)
(* are over by the time it is opened.                                      *)
Accept(r) ==
  /\ requests[r].pc = "ready" /\ requests[r].kind = "accept"
  /\ \E i \in Pending :
       /\ invitations[i].during \intersect InFlight = {}
       /\ Member(invitations[i].by)
       /\ canAssignRole(members[invitations[i].by].role, invitations[i].role)
       /\ requests' = [requests EXCEPT ![r] = [requests[r] EXCEPT
            !.pc = IF Member(invitations[i].email) THEN "claim" ELSE "seat",
            !.invitation = i, !.target = invitations[i].email]]
  /\ Kept

(* Who may be in the team shortly without taking a seat yet: somebody whose *)
(* invitation is claimed, and an owner whose removal may be undone.        *)
MayReturn(q) ==
  \/ q.pc = "join"
  \/ q.kind = "remove" /\ q.was = "OWNER" /\ q.pc \in {"owners", "apply", "verify", "undo"}
Returns(u) == \E r \in Handlers : requests[r].target = u /\ MayReturn(requests[r])

(* Whom neither query found: those, and who joined between the queries.    *)
Uncounted(q) ==
  {u \in Users : Member(u) \/ Returns(u)} \ (q.counted \union Answer(Other(q.first)))

(* The seat is checked again: the plan may have changed since.             *)
CheckSeat(r) ==
  LET q == requests[r] IN
  /\ q.pc = "seat" /\ q.first # "none"
  /\ requests' = [requests EXCEPT ![r] = Moved(
       [Decided(q) EXCEPT !.limit = q.allowed + Cardinality(Uncounted(q))],
       IF Taken(q) <= q.allowed THEN "claim" ELSE "done")]
  /\ Kept

Claimable(i) == invitations[i].status = "pending"

ClaimInvitation(r) ==
  LET i == requests[r].invitation IN
  /\ requests[r].pc = "claim"
  /\ invitations' = IF Claimable(i) THEN [invitations EXCEPT ![i].status = "accepted"]
                    ELSE invitations
  /\ MoveIf(r, Claimable(i), "join")
  /\ UNCHANGED <<members, billingOwner, seats>>

Join(r) ==
  LET q == requests[r]
      i == q.invitation IN
  /\ q.pc = "join"
  /\ IF Member(q.target) THEN UNCHANGED <<members, invitations>>
     ELSE /\ members' = [members EXCEPT ![q.target] = [role |-> invitations[i].role, doc |-> NewDoc]]
          /\ invitations' = [invitations EXCEPT ![i].joins = @ + 1]
  /\ MoveTo(r, "done")
  /\ UNCHANGED <<billingOwner, seats>>

-------------------------------------------------------------------------------

(* The billing owner's plan allows fewer members from now on.              *)
LowerPlan ==
  /\ seats = Seats /\ Seats > 1
  /\ seats' = Seats - 1
  /\ UNCHANGED <<members, invitations, billingOwner, requests>>

TeamStep(r) ==
  \/ Begin(r) \/ Find(r) \/ CheckOwners(r) \/ ChangeRole(r) \/ RemoveMember(r)
  \/ Verify(r) \/ Undo(r) \/ ChoosePayer(r) \/ Bill(r)
  \/ ReadPlan(r) \/ CountSeats(r)
  \/ CountReplaced(r) \/ CheckRoom(r) \/ Replace(r) \/ Create(r) \/ RevokeInvitation(r)
  \/ Accept(r) \/ CheckSeat(r) \/ ClaimInvitation(r) \/ Join(r)

TeamNext ==
  \/ \E r \in Handlers : TeamStep(r)
  \/ \E i \in DOMAIN invitations : Expire(i)
  \/ LowerPlan

TeamSpec == TeamInit /\ [][TeamNext]_teamVars

-------------------------------------------------------------------------------

(* Types; an address has at most one pending invitation.                   *)
TeamTypeOK ==
  /\ \A u \in Users : members[u].role \in Roles \union {"none"} /\ members[u].doc \in Nat
  /\ \A i, k \in DOMAIN invitations :
       i # k /\ invitations[i].status = "pending" /\ invitations[k].status = "pending"
         => invitations[i].email # invitations[k].email
  /\ billingOwner \in Users /\ seats \in 1..Seats

(* However two requests that demote or remove owners overlap, one owner is *)
(* left when they are done.                                                *)
OwnersRemain == InFlight = {} => Owners # {}

(* An acceptance by a member is not checked, even if he is being removed.  *)
Checked(q) == q.limit > 0

(* However invitations, acceptances and a smaller plan race, nobody joins  *)
(* beyond the seats his acceptance was checked against, but for those whom *)
(* neither query of countTeamSeats found.                                  *)
TeamWithinPlan ==
  [][\A r \in Handlers :
       requests[r].pc = "join" /\ Checked(requests[r]) /\ members' # members /\ requests'[r].pc = "done"
         => Cardinality(Team') <= requests[r].limit]_teamVars

(* A link lets somebody in once: a member who was removed does not come    *)
(* back by it, though an acceptance of it was still in progress.           *)
InvitationsWorkOnce == \A i \in DOMAIN invitations : invitations[i].joins <= 1

(* The team stays in order: somebody owns it and everyone in it was let in. *)
TeamHolds == TeamTypeOK /\ OwnersRemain /\ InvitationsWorkOnce
===============================================================================
