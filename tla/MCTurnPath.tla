----------------------------- MODULE MCTurnPath -----------------------------
(* One scenario of RE5 under every way of its game, or the artifacts of many. *)
EXTENDS TurnProbe

CONSTANTS Focused, None

\* The choice "all" of --scenario is none of the focused ones.
ASSUME FocusedAssumption == "all" \notin Focused

VARIABLES part, artifacts, aggregate, exit, latest

evidence == <<artifacts, aggregate, exit, latest>>

Evidence == INSTANCE TurnEvidence

MCInit ==
  \/ /\ part = "probe" /\ Init
     /\ artifacts = [s \in Focused |-> None] /\ aggregate = None /\ exit = "none" /\ latest = None
  \/ /\ part = "evidence" /\ Evidence!Init
     /\ InitWith("manual-control", [gates |-> {TRUE}, bypass |-> FALSE, direct |-> FALSE],
                 FALSE, "done")

ProbeStep == part = "probe" /\ Next /\ UNCHANGED <<part, evidence>>
EvidenceStep == part = "evidence" /\ Evidence!Next /\ UNCHANGED <<part, vars>>

MCNext == ProbeStep \/ EvidenceStep

MCSpec == MCInit /\ [][MCNext]_<<part, vars, evidence>>
          /\ WF_<<part, vars, evidence>>(ProbeStep /\ Runner)
          /\ SF_<<part, vars, evidence>>(ProbeStep /\ WindowEnds)

\* The type invariant of both parts.
BothTypeOK == TypeOK /\ Evidence!TypeOK

(***************************************************************************)
(* The aggregate is evidence of one experiment, and an invocation that     *)
(* ends well with all files present leaves the aggregate of those files    *)
(* (aggregate_focused_results, main).                                      *)
(***************************************************************************)
AggregateIsEvidence ==
  /\ Evidence!AggregateIsOneExperiment
  /\ Evidence!SuccessMeansFreshAggregate
=============================================================================
