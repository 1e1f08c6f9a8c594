------------------------ MODULE MCLifetimePipeline ------------------------
(***************************************************************************)
(* The instance of LifetimePipeline for TLC: the plans and the layouts of  *)
(* MCLifetimeObserver.                                                     *)
(***************************************************************************)
EXTENDS LifetimePipeline, MCLifetimeObserver

PlansAndOneRefused ==
  OnePlan \cup {[steps |-> SubSeq(PlanSteps("A", "A", "B", "A"), 1, 7), bounds |-> PlanBounds]}

\* The records keep their places or change them.
KeptOrSwapped == {[p \in TwoPointers |-> IF p = p1 THEN wA ELSE wB],
                  [p \in TwoPointers |-> IF p = p1 THEN wB ELSE wA]}
=============================================================================
