------------------------------ MODULE PlanRun ------------------------------
(***************************************************************************)
(* What a run of the A1 plan promises, whatever happens to its helpers:    *)
(* the nine steps are recorded in order, the population in the game is     *)
(* replaced at most once for each of the two replace steps and only when   *)
(* the plan has come to it, nothing after a replace step is recorded       *)
(* before the replacement took place, and the verdict is "complete" only   *)
(* when every step is recorded.                                            *)
(***************************************************************************)
EXTENDS Naturals

VARIABLES
  verdict,   \* "planned", "running", "complete", "incomplete-harness" or "refused"
  recorded,  \* the number of steps recorded
  replaced   \* the number of replacements that took place

runVars == <<verdict, recorded, replaced>>

\* The replace steps of the plan, and how many there are among the first n.
ReplaceSteps == {5, 8}
Due(n) == IF n < 5 THEN 0 ELSE IF n < 8 THEN 1 ELSE 2

RunInit == verdict = "planned" /\ recorded = 0 /\ replaced = 0

Admit ==
  /\ verdict = "planned"
  /\ verdict' \in {"running", "refused"}
  /\ UNCHANGED <<recorded, replaced>>

\* The world changes first; the step that asked for it may never be recorded.
ReplaceWorld ==
  /\ verdict = "running"
  /\ recorded + 1 \in ReplaceSteps
  /\ replaced = Due(recorded)
  /\ replaced' = replaced + 1
  /\ UNCHANGED <<verdict, recorded>>

Record ==
  /\ verdict = "running"
  /\ recorded < 9
  /\ replaced = Due(recorded + 1)
  /\ recorded' = recorded + 1
  /\ UNCHANGED <<verdict, replaced>>

\* A step whose result is refused may still be the last one recorded.
GiveUp ==
  /\ verdict = "running"
  /\ verdict' = "incomplete-harness"
  /\ \/ UNCHANGED recorded
     \/ recorded < 9 /\ replaced = Due(recorded + 1) /\ recorded' = recorded + 1
  /\ UNCHANGED replaced

Complete ==
  /\ verdict = "running"
  /\ recorded = 9
  /\ verdict' = "complete"
  /\ UNCHANGED <<recorded, replaced>>

RunNext == Admit \/ ReplaceWorld \/ Record \/ GiveUp \/ Complete

RunSpec == RunInit /\ [][RunNext]_runVars
=============================================================================
