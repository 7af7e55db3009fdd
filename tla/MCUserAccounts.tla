---------------------------- MODULE MCUserAccounts ----------------------------
(***************************************************************************)
(* Small instances of the sign-in sessions and of a workspace's team for   *)
(* TLC: four requests, of which the first two are alike, as are the owners. *)
(***************************************************************************)
EXTENDS UserAccounts, TLC

CONSTANTS r1, r2, r3, r4, a, b, c, d, e
FourRequests == {r1, r2, r3, r4}
Symmetry == {f @@ g : f \in Permutations({r1, r2}), g \in Permutations({a, b})}

(* Two refreshes and two of the other requests.                            *)
Mixed == r1 :> {"refresh"} @@ r2 :> {"refresh"} @@
         r3 :> {"logout", "logoutAll", "reset", "reactivate"} @@
         r4 :> {"change", "login", "suspend"}

(* Two owners, an editor and two outsiders; or without the editor.         *)
FiveUsers == {a, b, c, d, e}
TheTeam == a :> "OWNER" @@ b :> "OWNER" @@ c :> "EDITOR" @@ d :> "none" @@ e :> "none"
Kinds(k1, k2, k3, k4) == r1 :> k1 @@ r2 :> k2 @@ r3 :> k3 @@ r4 :> k4
Opening(team, invited, kinds) == [team |-> team, invited |-> invited, kinds |-> kinds]

(* Two requests about owners; invitations racing; acceptances racing with  *)
(* the other requests about the team.                                      *)
SomeOpenings ==
  { Opening(TheTeam, {}, Kinds(k1, k2, "none", "none")) :
      k1 \in {"role", "remove"}, k2 \in {"role", "remove"} }
  \union { Opening(TheTeam, {d}, Kinds("invite", "invite", "accept", "none")),
           Opening(TheTeam, {d}, Kinds("accept", "accept", "remove", "revoke")),
           Opening(TheTeam, {d}, Kinds("accept", "none", "invite", "remove")),
           Opening([TheTeam EXCEPT ![c] = "none"], {d}, Kinds("accept", "accept", "invite", "none")) }
=============================================================================
