----------------------------- MODULE PublishOnce -----------------------------
(***************************************************************************)
(* What publishing promises of everything that is scheduled: it appears on *)
(* the platform at most once; it is called published only when it is       *)
(* there, and failed only when it is not there and will not appear; when   *)
(* nobody can tell, a person is asked to look.                             *)
(***************************************************************************)
EXTENDS Naturals

CONSTANT Items  \* what was scheduled

VARIABLES
  posts,    \* how often each item is on the platform
  verdict   \* what the user is told of it

vars == <<posts, verdict>>

Verdicts == {"open", "published", "failed", "review"}
(* An item for which the platform's word is still awaited or never came.    *)
Undecided(i) == verdict[i] \in {"open", "review"}

TypeOK ==
  /\ posts \in [Items -> 0..1]
  /\ verdict \in [Items -> Verdicts]

Init ==
  /\ posts = [i \in Items |-> 0]
  /\ verdict = [i \in Items |-> "open"]

(* The platform shows the item, and the answer may be the verdict.          *)
Appear(i) ==
  /\ posts[i] = 0
  /\ Undecided(i)
  /\ posts' = [posts EXCEPT ![i] = 1]
  /\ \E v \in {verdict[i], "review", "published"} : verdict' = [verdict EXCEPT ![i] = v]

Settle(i) ==
  /\ Undecided(i)
  /\ \E v \in Verdicts \ {"open"} :
       /\ v = "published" => posts[i] = 1
       /\ v = "failed" => posts[i] = 0
       /\ verdict' = [verdict EXCEPT ![i] = v]
  /\ UNCHANGED posts

Next == \E i \in Items : Appear(i) \/ Settle(i)

Spec == Init /\ [][Next]_vars
=============================================================================
