--------------------------- MODULE MCActionScript ---------------------------
(***************************************************************************)
(* TLC explores the neighbourhood of the plans the tool documents: it      *)
(* starts from a well-shaped plan over two labels and applies up to    *)
(* MaxEdits edits (substitute, drop, duplicate, swap a step, or change a   *)
(* bound).  Every script reached is given to the validator.                *)
(***************************************************************************)
EXTENDS ActionScript, SequencesExt

CONSTANT MaxEdits   \* bound on the number of edits

VARIABLES steps, bounds, edits

vars == <<steps, bounds, edits>>

Plan(a, b, l) ==
  << Qualify(1, "selection-control", a), Qualify(2, "selection-control", b),
     Qualify(3, "selection-control", a),
     Qualify(4, "pre-replacement", l[1]), Replace(5, RequiredMechanisms[1]),
     Qualify(6, "post-replacement", l[2]),
     Qualify(7, "pre-replacement", l[3]), Replace(8, RequiredMechanisms[2]),
     Qualify(9, "post-replacement", l[4]) >>

Init ==
  /\ LET a == CHOOSE l \in Labels : TRUE
         b == CHOOSE l \in Labels : l # a
     IN  steps = Plan(a, b, <<a, b, b, a>>)
  /\ bounds \in [maxActions : {9, 12}, maxAttempts : {2}, perStep : {1}, total : {1}]
  /\ edits = 0

AnyStep ==
  {Qualify(id, p, l) : id \in StepIds, p \in Phases \cup {Absent}, l \in Labels}
    \cup {Replace(id, m) : id \in StepIds, m \in Mechanisms \cup {Absent}}
    \cup {[Replace(id, m) EXCEPT !.label = l] : id \in StepIds, m \in Mechanisms, l \in Labels}
    \cup {[Qualify(id, "pre-replacement", l) EXCEPT !.mechanism = m] :
             id \in StepIds, m \in Mechanisms, l \in Labels}

Edit(s) ==
  /\ edits < MaxEdits
  /\ edits' = edits + 1
  /\ steps' = s
  /\ UNCHANGED bounds

Substitute == \E i \in 1..Len(steps), s \in AnyStep : Edit(ReplaceAt(steps, i, s))
Drop       == \E i \in 1..Len(steps) : Edit(RemoveAt(steps, i))
Duplicate  == \E i \in 1..Len(steps) : Edit(InsertAt(steps, i, [steps[i] EXCEPT !.id = 10]))
Swap       == \E i, j \in 1..Len(steps) :
                i < j /\ Edit([steps EXCEPT ![i] = steps[j], ![j] = steps[i]])
Extend     == \E a, b \in Labels :
                Edit(steps \o << Qualify(10, "pre-replacement", a), Replace(11, RequiredMechanisms[2]),
                                 Qualify(12, "post-replacement", b) >>)
Rebound    == /\ edits < MaxEdits
              /\ edits' = edits + 1
              /\ \E f \in {"maxActions", "maxAttempts", "perStep", "total"}, v \in {0, 1, 12} :
                   bounds' = [bounds EXCEPT ![f] = v]
              /\ UNCHANGED steps

Next == Substitute \/ Drop \/ Duplicate \/ Swap \/ Extend \/ Rebound

Spec == Init /\ [][Next]_vars

\* The plan as the contract describes it: control A -> B -> A with A and B
\* distinct, then the reset leg and the load leg, each a pre / replace / post.
IsPlan(s) ==
  /\ Len(s) = 9
  /\ \E a, b, p, q, r, t \in Labels :
       /\ a # b
       /\ \A i \in 1..9 : [s[i] EXCEPT !.id = i] = Plan(a, b, <<p, q, r, t>>)[i]
  /\ IsInjective([i \in 1..Len(s) |-> s[i].id])

(***************************************************************************)
(* The validator accepts a script exactly when it is the plan of the       *)
(* contract and its bounds are usable: no truncated, reordered, repeated   *)
(* or padded leg is accepted, and no plan is refused                       *)
(* (a1_lifetime_action_script.py, validate_action_script).                 *)
(***************************************************************************)
AcceptsExactlyThePlan ==
  ValidScript(steps, bounds) <=>
    /\ IsPlan(steps)
    /\ bounds.maxActions >= 9 /\ bounds.maxAttempts >= 1
    /\ 1 <= bounds.perStep /\ bounds.perStep <= bounds.total
=============================================================================
