----------------------------- MODULE UserAccounts -----------------------------
(***************************************************************************)
(* People's accounts: their sign-in sessions, and what they are in a       *)
(* workspace.  Neither changes a record of the other, so a behaviour is     *)
(* about one of them while the other rests.                                *)
(***************************************************************************)
EXTENDS Sessions, Team

-----------------------------------------------------------------------------
(* The parts at rest: nothing to do in them.                                *)
SessionsRest ==
  /\ account = [version |-> 0, suspended |-> FALSE, link |-> FALSE]
  /\ tokens = <<>>
  /\ jobs = [r \in Requests |-> Over]
  /\ held = {} /\ ended = {} /\ revoked = 0 /\ abused = FALSE

TeamRests ==
  /\ members = [u \in Users |-> [role |-> "OWNER", doc |-> 1]]
  /\ invitations = <<>>
  /\ billingOwner \in {CHOOSE u \in Users : TRUE}
  /\ seats = 1
  /\ requests = [r \in Handlers |-> Answered]

UserAccountsInit ==
  \/ Init /\ TeamRests
  \/ TeamInit /\ SessionsRest

UserAccountsNext ==
  \/ Next /\ UNCHANGED teamVars
  \/ TeamNext /\ UNCHANGED vars

UserAccountsSpec ==
  UserAccountsInit /\ [][UserAccountsNext]_<<vars, teamVars>>
=============================================================================
