----------------------------- MODULE Connections -----------------------------
(***************************************************************************)
(* The social accounts of a workspace: how they come to be connected, and  *)
(* how the tokens of a connected one are kept fresh.  A behaviour is about *)
(* one of the two while the other rests: Connecting has what a connection  *)
(* stores and takes away as a flag, TokenRefresh follows the tokens of one *)
(* account through it.                                                     *)
(***************************************************************************)
EXTENDS TokenRefresh, Connecting

-----------------------------------------------------------------------------
(* The parts at rest: nothing to do in them.                                *)
TokensRest ==
  /\ account = Nobody
  /\ user = [c \in Users |-> Idle]
  /\ age = [g \in 1..MaxGen |-> "fresh"]
  /\ platform = [current |-> 1, revoked |-> FALSE]
  /\ lost = FALSE /\ undone = FALSE
  /\ budget = [e \in Events |-> 0]

ConnectingRests ==
  /\ way \in {CHOOSE w \in Ways : TRUE}
  /\ state = [f \in Flows |-> [stage |-> "gone", by |-> None]]
  /\ cookie = [p \in People |-> None]
  /\ draft = [f \in Flows |-> NoDraft]
  /\ accounts = [a \in Accounts |-> Absent]
  /\ admin = {}
  /\ request = [r \in Requests |-> Resting]
  /\ exchanged = [f \in Flows |-> <<>>]
  /\ stored = [f \in Flows |-> 0]
  /\ chances = [o \in Occasions |-> 0]

ConnectionsInit ==
  \/ Init /\ ConnectingRests
  \/ ConnectingInit /\ TokensRest

ConnectionsNext ==
  \/ Next /\ UNCHANGED connectingVars
  \/ ConnectingNext /\ UNCHANGED vars

ConnectionsSpec == ConnectionsInit /\ [][ConnectionsNext]_<<vars, connectingVars>>
=============================================================================
