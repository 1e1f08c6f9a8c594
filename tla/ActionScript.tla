---------------------------- MODULE ActionScript ----------------------------
(***************************************************************************)
(* The bounded A1 action script and its validator,                         *)
(* scripts/a1_lifetime_action_script.py.                                   *)
(*                                                                         *)
(* A script is a sequence of steps plus four bounds.  A step is a record   *)
(*   [id, action, label, phase, mechanism]                                 *)
(* in which a key the JSON object does not carry has the value Absent.     *)
(* Wrong JSON types and blank strings are not represented: the validator   *)
(* rejects them at the first field it reads.                               *)
(***************************************************************************)
EXTENDS Naturals, Sequences

CONSTANTS
  Labels,   \* the logical planet labels a script may name
  StepIds,  \* the step identifiers a script may use
  Absent    \* the value of a key that the step object does not have

ASSUME AbsentIsNoLabel == Absent \notin Labels

\* _REQUIRED_REPLACEMENT_MECHANISMS and _ALLOWED_PHASES.
RequiredMechanisms == <<"new-game-reset", "save-load-replacement">>
Mechanisms == {"new-game-reset", "save-load-replacement"}
Phases     == {"selection-control", "pre-replacement", "post-replacement"}

Qualify(id, phase, label) ==
  [id |-> id, action |-> "qualify", label |-> label, phase |-> phase, mechanism |-> Absent]

Replace(id, mechanism) ==
  [id |-> id, action |-> "replace", label |-> Absent, phase |-> Absent, mechanism |-> mechanism]

\* The per-step checks of the first loop: a qualify step has a label and an
\* allowed phase and no mechanism, a replace step the converse.
WellFormedStep(step) ==
  \/ /\ step.action = "qualify"
     /\ step.label \in Labels
     /\ step.phase \in Phases
     /\ step.mechanism = Absent
  \/ /\ step.action = "replace"
     /\ step.mechanism \in Mechanisms
     /\ step.label = Absent
     /\ step.phase = Absent

\* The four bounds are positive and the step timeout fits the total one.
ValidBounds(bounds) ==
  /\ bounds.maxActions > 0
  /\ bounds.maxAttempts > 0
  /\ bounds.perStep > 0
  /\ bounds.total > 0
  /\ bounds.perStep <= bounds.total

IdsAreUnique(steps) ==
  \A i, j \in 1..Len(steps) : steps[i].id = steps[j].id => i = j

\* The first three steps are the A -> B -> A selection control.
ControlShape(steps) ==
  /\ \A i \in 1..3 : steps[i].action = "qualify" /\ steps[i].phase = "selection-control"
  /\ steps[1].label = steps[3].label
  /\ steps[1].label # steps[2].label

\* A fault: the end of the leg is not looked at.
TripleAtWithoutPost(steps, cursor) ==
  /\ cursor + 2 <= Len(steps)
  /\ steps[cursor].action = "qualify"
  /\ steps[cursor].phase = "pre-replacement"
  /\ steps[cursor + 1].action = "replace"
  /\ steps[cursor + 2].action = "qualify"

\* One iteration of the cursor loop: a contiguous pre / replace / post triple.
TripleAt(steps, cursor) ==
  /\ cursor + 2 <= Len(steps)
  /\ steps[cursor].action = "qualify"
  /\ steps[cursor].phase = "pre-replacement"
  /\ steps[cursor + 1].action = "replace"
  /\ steps[cursor + 2].action = "qualify"
  /\ steps[cursor + 2].phase = "post-replacement"

\* The positions the cursor takes: 4, 7, 10, ... while it is inside the script.
Cursors(steps) == {c \in 4..Len(steps) : (c - 4) % 3 = 0}

ObservedMechanisms(steps) ==
  [k \in 1..((Len(steps) - 3) \div 3) |-> steps[3 * k + 2].mechanism]

\* validate_action_script returns (TRUE) or raises (FALSE).
ValidScript(steps, bounds) ==
  /\ ValidBounds(bounds)
  /\ steps # <<>>
  /\ Len(steps) <= bounds.maxActions
  /\ \A i \in 1..Len(steps) : WellFormedStep(steps[i])
  /\ IdsAreUnique(steps)
  /\ Len(steps) >= 9
  /\ ControlShape(steps)
  /\ \A c \in Cursors(steps) : TripleAt(steps, c)
  /\ ObservedMechanisms(steps) = RequiredMechanisms
=============================================================================
