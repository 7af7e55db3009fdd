------------------------------- MODULE AIUsage -------------------------------
(***************************************************************************)
(* What every use of the AI goes through: the plan's allowance is looked   *)
(* up, the provider is asked, and an answer is counted.  The look-up and   *)
(* the count are far apart, and counting never fails the request.  One     *)
(* billing period of one owner; the prompt and the text are left out.      *)
(***************************************************************************)
EXTENDS Integers

CONSTANT Quota        \* the generations the plan allows in a period

VARIABLES uses,       \* the successful generations counted in this period
          faults      \* how many more crashes and lost counts may happen

(* A usable answer; one that fails the check a person's edit would have to  *)
(* pass; a provider that gave none.                                         *)
Answers == {"usable", "invalid", "none"}

MayGenerate == uses < Quota

(* An answer counts before it is checked; one that never came does not.     *)
Counted(answer) == uses' = IF answer = "none" THEN uses ELSE uses + 1

(* recordUsage swallows its own failure: the answer is used, uncounted.     *)
Uncounted(answer) ==
  /\ answer # "none" /\ faults > 0
  /\ faults' = faults - 1
  /\ UNCHANGED uses

RecordUsage(answer) ==
  \/ Counted(answer) /\ UNCHANGED faults
  \/ Uncounted(answer)
=============================================================================
