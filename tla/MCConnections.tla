---------------------------- MODULE MCConnections ----------------------------
(***************************************************************************)
(* Small instances of connecting accounts and of token refresh for TLC.    *)
(***************************************************************************)
EXTENDS Connections, TLC

CONSTANTS f1, f2, p1, p2, a1, a2, r1, r2, none
(* The operations that refresh tokens are such requests, too.              *)
TwoRequests == {r1, r2}

Nothing == [e \in Events |-> 0]
With(e, n, b) == [b EXCEPT ![e] = n]

(* Operations share an account while people disconnect and reconnect it,   *)
(* and one thing goes wrong.                                               *)
Sharing ==
  With("use", 3, With("aging", 2, With("disconnect", 1, With("reconnect", 1,
    With("fault", 1, Nothing)))))

(* One way to sign in of each shape: two or three requests, one account or *)
(* several.                                                                *)
TwoFlows == {f1, f2}
TwoPeople == {p1, p2}
TwoAccounts == {a1, a2}
ThreeWays == {"youtube", "instagram", "facebook"}
Opening(callbacks, choices, disconnections, uses, admins, faults) ==
  "callback" :> callbacks @@ "choose" :> choices @@ "disconnect" :> disconnections
    @@ "use" :> uses @@ "admin" :> admins @@ "fault" :> faults
SomeOpenings ==
  { Opening(2, 1, 1, 0, 0, 1), Opening(3, 0, 1, 0, 0, 0), Opening(2, 1, 0, 0, 1, 0),
    Opening(1, 2, 0, 0, 0, 0), Opening(2, 0, 1, 1, 0, 0) }
Alike == Permutations(TwoRequests) \union Permutations(TwoAccounts)
=============================================================================
