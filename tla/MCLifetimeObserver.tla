------------------------ MODULE MCLifetimeObserver ------------------------
(***************************************************************************)
(* Instances of LifetimeObserver for TLC.  The plan names two planets; the *)
(* post qualifications ask for the planet the leg started from, the other  *)
(* one, or both in turn, so pointers are reused with and without a change  *)
(* of label.                                                               *)
(***************************************************************************)
EXTENDS LifetimeObserver, TLC

CONSTANTS p1, p2, p3, wA, wB,
          MaxAttempts, PerStep, Total   \* the bounds of the scripts

PlanSteps(l1, l2, l3, l4) ==
  << Qualify(1, "selection-control", "A"), Qualify(2, "selection-control", "B"),
     Qualify(3, "selection-control", "A"),
     Qualify(4, "pre-replacement", l1), Replace(5, RequiredMechanisms[1]),
     Qualify(6, "post-replacement", l2),
     Qualify(7, "pre-replacement", l3), Replace(8, RequiredMechanisms[2]),
     Qualify(9, "post-replacement", l4) >>

PlanBounds == [maxActions |-> 9, maxAttempts |-> MaxAttempts, perStep |-> PerStep, total |-> Total]

\* A plan and two scripts validate_action_script must refuse: a leg without
\* its replacement and one with a second replacement.
OnePlan  == {[steps |-> PlanSteps("A", "A", "B", "A"), bounds |-> PlanBounds]}
Refused  == {[steps |-> SubSeq(PlanSteps("A", "A", "B", "A"), 1, 7), bounds |-> PlanBounds],
             [steps |-> Append(PlanSteps("A", "A", "B", "A"), Replace(9, RequiredMechanisms[2])),
              bounds |-> PlanBounds]}
AllScripts == OnePlan \cup Refused

TwoLabels   == {"A", "B"}
TwoWitnesses == [l \in TwoLabels |-> IF l = "A" THEN wA ELSE wB]

TwoPointers == {p1, p2}
\* The game rebuilds the records in place, or anywhere it likes.
InPlace  == {[p \in TwoPointers |-> IF p = p1 THEN wA ELSE wB]}
Anywhere == [TwoPointers -> {wA, wB}]
PointerSymmetry == Permutations({p1, p2})
=============================================================================
