---------------------------- MODULE MCPublishing ----------------------------
(***************************************************************************)
(* Small instances of scheduled publishing for TLC.  Two worker processes  *)
(* p1 and p2 with a run each; p1 also runs the recovery sweep.             *)
(***************************************************************************)
EXTENDS PublishInvariant, TLC

CONSTANTS s1, s2, r1, r2, v1, p1, p2

OneSchedule == {s1}
TwoSchedules == {s1, s2}
OneRun == {r1}
TwoRuns == {r1, r2}
NoSweeps == {}
OneSweep == {v1}
Where == [a \in Actors |-> IF a = r2 THEN p2 ELSE p1]
Symmetry == Permutations(Schedules)

Nothing == [f \in Faults \cup Events |-> 0]
With(f, n, b) == [b EXCEPT ![f] = n]

(* People reschedule, cancel, pause and archive while one worker works, or  *)
(* two requests race each other and the worker and the API may die.         *)
People ==
  {With("request", 2, With("archive", 1, Nothing)),
   With("request", 1, With("archive", 1, With("pause", 1, Nothing))),
   With("request", 2, With("apiCrash", 1, Nothing))}

(* A worker dies, BullMQ delivers a job twice or Redis forgets it, the      *)
(* database refuses a write and a platform's answer is cut off.             *)
Failures ==
  {With("request", 1, With("crash", 1, With("redelivery", 1, Nothing))),
   With("request", 1, With("lostEntry", 1, With("redelivery", 1, With("storeError", 1, Nothing)))),
   With("request", 1, With("redelivery", 1, With("connectionReset", 1, Nothing)))}

(* Redis forgets a job and BullMQ delivers it twice, or the worker dies.    *)
Interruptions ==
  {With("request", 1, With("lostEntry", 1, With("redelivery", 1, Nothing))),
   With("request", 1, With("crash", 1, Nothing))}
=============================================================================
