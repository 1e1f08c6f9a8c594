------------------------------ MODULE TurnProbe ------------------------------
(***************************************************************************)
(* One scenario of run_re5_runtime_turn_path.py: the runner stops the game *)
(* for every read and write of its memory, arms a planet, patches one call *)
(* site, watches the planet for a window and draws a conclusion about how  *)
(* the game works inside.  The game is external; what it does in its turns *)
(* is fixed by truth, which the runner does not know.                      *)
(***************************************************************************)
EXTENDS Naturals

CONSTANTS MaxTurns,      \* bound: turns the game plays
          StardateLast   \* a turn raises the stardate after its planet pass

ASSUME TurnAssumption == MaxTurns \in Nat \ {0} /\ StardateLast \in BOOLEAN

Scenarios == {"manual-control", "manual-gate-probe", "managed-gate-probe", "managed-control",
              "managed-policy-suppressed", "managed-action-write-suppressed"}

Managed(s) == s \notin {"manual-control", "manual-gate-probe"}

Negative == {"manual-control", "manual-gate-probe", "managed-policy-suppressed"}

Original == [policy |-> "call", write |-> "mov"]

\* PatchPlan: the bytes a scenario expects and those it puts there.
PatchedSite(s) == IF s = "managed-action-write-suppressed" THEN "write" ELSE "policy"

Replacement(s) ==
  IF s \in {"manual-gate-probe", "managed-gate-probe"} THEN "marker" ELSE "nop"

IsPatched(s) == s \notin {"manual-control", "managed-control"}

(***************************************************************************)
(* validate_scenario on a trace: what the samples showed of the slot and   *)
(* of the action, the armed field in the last of them, and whether the     *)
(* stardate moved.                                                         *)
(***************************************************************************)
Signs(s, t) ==
  /\ t.slot <=> s \in {"managed-control", "managed-action-write-suppressed"}
  /\ CASE s = "managed-gate-probe" -> t.action = "marker"
       [] s = "managed-control"    -> t.action # "none"
       [] OTHER                    -> t.action = "none"

\* Faults: the stardate, or the field at the end, is not looked at.
ValidatesStill(s, t) == t.managed = Managed(s) /\ Signs(s, t)
ValidatesDrifted(s, t) == (s \in Negative => t.delta > 0) /\ Signs(s, t)

Validates(s, t) ==
  /\ t.managed = Managed(s)
  /\ s \in Negative => t.delta > 0
  /\ Signs(s, t)

VARIABLES
  spec,      \* the scenario
  truth,     \* how the game works: see Reached, Selects, Commits
  game,      \* managed, slot, action, stardate of the planet's game
  code,      \* the two patch sites
  turn,      \* "idle", or the part of a turn that is done
  drifted,   \* the game changed the armed field by itself
  alive,     \* the DOSBox process
  halted,    \* "running", "pending" (SIGSTOP sent), "stopped"
  keys,      \* keys and clicks the game has not taken yet
  pc, trace, patch_applied, result,
  passes     \* planet passes while armed and patched (ghost; also trace.passes, .torn)

gameVars == <<game, turn, drifted, alive, code>>
runVars  == <<pc, trace, patch_applied, result, keys>>
vars     == <<spec, truth, gameVars, runVars, halted, passes>>

Truths == [gates : {{}, {TRUE}, {TRUE, FALSE}}, bypass : BOOLEAN, direct : BOOLEAN]

Traces == [initial : 0..MaxTurns, delta : 0..MaxTurns, slot : BOOLEAN,
           action : {"none", "auto", "marker"}, managed : BOOLEAN, passes : 0..MaxTurns, torn : BOOLEAN]

NoTrace == [initial |-> 0, delta |-> 0, slot |-> FALSE, action |-> "none",
            managed |-> FALSE, passes |-> 0, torn |-> FALSE]

Sections == {"record", "rearmed", "patch", "first", "sample", "restore", "rollback"}

TypeOK ==
  /\ spec \in Scenarios /\ truth \in Truths
  /\ game \in [managed : BOOLEAN, slot : BOOLEAN, action : {"none", "auto", "marker"},
               forward : BOOLEAN, stardate : 0..MaxTurns]
  /\ code \in [policy : {"call", "nop", "marker", "torn"}, write : {"mov", "nop", "torn"}]
  /\ turn \in {"idle", "dated", "selected", "passed"}
  /\ drifted \in BOOLEAN /\ alive \in BOOLEAN /\ patch_applied \in BOOLEAN
  /\ halted \in {"running", "pending", "stopped"}
  /\ keys \subseteq {"m", "forward"}
  /\ pc \in Sections \cup {"launch", "arm", "arming", "forward", "watch", "validate",
                           "finally", "teardown", "done"}
  /\ trace \in Traces /\ result \in {"none", "passed", "raised"}
  /\ passes \in 0..MaxTurns

InitWith(s, t, m, p) ==
  /\ spec = s /\ truth = t
  /\ game = [managed |-> m, slot |-> FALSE, action |-> "none", forward |-> FALSE,
             stardate |-> 0]
  /\ code = Original /\ turn = "idle" /\ drifted = FALSE
  /\ alive = FALSE /\ halted = "running" /\ keys = {}
  /\ pc = p /\ trace = NoTrace /\ patch_applied = FALSE /\ result = "none"
  /\ passes = 0

Init == \E s \in Scenarios, t \in Truths, m \in BOOLEAN : InitWith(s, t, m, "launch")
-----------------------------------------------------------------------------
(* The game, while the kernel lets it run.                                 *)

Runs == alive /\ halted # "stopped"

\* The call at the gate is reached; the marker is written; the policy selects; the
\* selection is committed.
Reached == game.managed \in truth.gates
Marks == Reached /\ code.policy = "marker"
Selects == (Reached /\ code.policy = "call") \/ (truth.bypass /\ game.managed)
Commits == code.write = "mov" \/ truth.direct
AfterPass == IF StardateLast THEN "passed" ELSE "idle"

Armed == game.managed = Managed(spec) /\ (IsPatched(spec) => patch_applied)

PlanetPass ==
  /\ Runs /\ game.forward
  /\ turn = (IF StardateLast THEN "idle" ELSE "dated")
  /\ game.stardate < MaxTurns \/ turn = "dated"
  /\ turn' = IF Selects THEN "selected" ELSE AfterPass
  /\ game' = [game EXCEPT !.slot = @ \/ Selects,
                          !.action = IF @ = "none" /\ Marks THEN "marker" ELSE @]
  /\ passes' = IF Armed /\ passes < MaxTurns THEN passes + 1 ELSE passes
  /\ UNCHANGED <<spec, truth, code, drifted, alive, runVars, halted>>

Commit ==
  /\ Runs /\ turn = "selected"
  /\ turn' = AfterPass
  /\ game' = [game EXCEPT !.action = IF @ = "none" /\ Commits THEN "auto" ELSE @]
  /\ UNCHANGED <<spec, truth, code, drifted, alive, runVars, halted, passes>>

Stardate ==
  /\ Runs /\ game.forward
  /\ turn = AfterPass
  /\ game.stardate < MaxTurns
  /\ turn' = IF StardateLast THEN "idle" ELSE "dated"
  /\ game' = [game EXCEPT !.stardate = @ + 1]
  /\ UNCHANGED <<spec, truth, code, drifted, alive, runVars, halted, passes>>

Drift ==
  /\ Runs /\ ~drifted /\ pc \in {"watch", "sample", "first", "restore"}
  /\ drifted' = TRUE
  /\ game' = [game EXCEPT !.managed = ~@]
  /\ UNCHANGED <<spec, truth, code, turn, alive, runVars, halted, passes>>

TakeKey ==
  /\ Runs
  /\ \E k \in keys :
       /\ keys' = keys \ {k}
       /\ game' = IF k = "m" THEN [game EXCEPT !.managed = ~@]
                              ELSE [game EXCEPT !.forward = TRUE]
  /\ UNCHANGED <<spec, truth, code, turn, drifted, alive, pc, trace, patch_applied, result,
                 halted, passes>>

GameDies ==
  /\ alive
  /\ alive' = FALSE
  /\ UNCHANGED <<spec, truth, game, turn, drifted, code, runVars, halted, passes>>
-----------------------------------------------------------------------------
(* stopped_process: every section sends SIGSTOP, waits for the stopped     *)
(* state at most 0.25 s, does its operation and sends SIGCONT.             *)

Go(p) == pc' = p
Raise == Go("finally") /\ result' = IF result = "none" THEN "raised" ELSE result

Halt ==
  /\ pc \in Sections /\ halted = "running"
  /\ halted' = "pending"
  /\ UNCHANGED <<spec, truth, gameVars, runVars, passes>>

KernelStops ==
  /\ halted = "pending" /\ alive
  /\ halted' = "stopped"
  /\ UNCHANGED <<spec, truth, gameVars, runVars, passes>>

\* What a failing section does: an error of the rollback is kept for the end.
SectionRaises ==
  IF pc = "rollback"
  THEN Go("teardown") /\ result' = "raised"
  ELSE Raise

\* A fault: the finally clause sends no SIGCONT.
NotStoppedForgets ==
  /\ halted = "pending"
  /\ SectionRaises
  /\ UNCHANGED <<spec, truth, gameVars, trace, patch_applied, keys, passes, halted>>

NotStopped ==
  /\ halted = "pending"
  /\ halted' = "running"
  /\ SectionRaises
  /\ UNCHANGED <<spec, truth, gameVars, trace, patch_applied, keys, passes>>

\* A read or a write fails, or the process is gone when it is made.
SectionBreaks ==
  /\ halted = "stopped"
  /\ halted' = "running"
  /\ SectionRaises
  /\ UNCHANGED <<spec, truth, gameVars, trace, patch_applied, keys, passes>>

Section(p) == pc = p /\ halted = "stopped" /\ alive /\ halted' = "running"
-----------------------------------------------------------------------------
(* run_scenario.                                                           *)

Launch ==
  /\ pc = "launch"
  /\ \/ Go("record") /\ alive' = TRUE /\ UNCHANGED result
     \/ Raise /\ alive' \in BOOLEAN
  /\ UNCHANGED <<spec, truth, game, turn, drifted, code, trace, patch_applied, keys, halted,
                 passes>>

SampleRecord ==
  /\ Section("record")
  /\ IF game.slot \/ game.action # "none" THEN Raise ELSE Go("arm") /\ UNCHANGED result
  /\ UNCHANGED <<spec, truth, gameVars, trace, patch_applied, keys, passes>>

Arm ==
  /\ pc = "arm"
  /\ IF game.managed = Managed(spec)
     THEN Go("rearmed") /\ UNCHANGED keys
     ELSE Go("arming") /\ keys' = keys \cup {"m"}
  /\ UNCHANGED <<spec, truth, gameVars, trace, patch_applied, result, halted, passes>>

\* A fault: the wait for the key has no deadline.
WaitFieldForever ==
  /\ pc = "arming" /\ alive /\ game.managed = Managed(spec)
  /\ Go("rearmed")
  /\ UNCHANGED <<spec, truth, gameVars, trace, patch_applied, result, keys, halted, passes>>

\* wait_field: the field is read without a stop until it has the value, or 1 s is over.
WaitField ==
  /\ pc = "arming"
  /\ \/ alive /\ game.managed = Managed(spec) /\ Go("rearmed") /\ UNCHANGED result
     \/ Raise
  /\ UNCHANGED <<spec, truth, gameVars, trace, patch_applied, keys, halted, passes>>

SampleArmed ==
  /\ Section("rearmed")
  /\ IF game.managed # Managed(spec) THEN Raise
     ELSE Go(IF IsPatched(spec) THEN "patch" ELSE "forward") /\ UNCHANGED result
  /\ UNCHANGED <<spec, truth, gameVars, trace, patch_applied, keys, passes>>

\* checked_apply_patch: the write may be short or its verification fail.
ApplyPatch ==
  /\ Section("patch")
  /\ \E bytes \in {code[PatchedSite(spec)], "torn", Replacement(spec)}, verified \in BOOLEAN :
       /\ code' = [code EXCEPT ![PatchedSite(spec)] = bytes]
       /\ IF bytes = Replacement(spec) /\ verified
          THEN Go("forward") /\ patch_applied' = TRUE /\ UNCHANGED result
          ELSE Raise /\ UNCHANGED patch_applied
  /\ UNCHANGED <<spec, truth, game, turn, drifted, alive, trace, keys, passes>>

FastForward ==
  /\ pc = "forward"
  /\ Go("first") /\ keys' = keys \cup {"forward"}
  /\ UNCHANGED <<spec, truth, gameVars, trace, patch_applied, result, halted, passes>>

\* monitor_turn, the initial coherent sample.
FirstSample ==
  /\ Section("first")
  /\ trace' = [trace EXCEPT !.initial = game.stardate, !.managed = game.managed,
                            !.passes = passes]
  /\ IF game.slot \/ game.action # "none" THEN Raise ELSE Go("watch") /\ UNCHANGED result
  /\ UNCHANGED <<spec, truth, gameVars, patch_applied, keys, passes>>

NextSample ==
  /\ pc = "watch" /\ Go("sample")
  /\ UNCHANGED <<spec, truth, gameVars, trace, patch_applied, result, keys, halted, passes>>

WindowEnds ==
  /\ pc = "watch" /\ Go("validate")
  /\ UNCHANGED <<spec, truth, gameVars, trace, patch_applied, result, keys, halted, passes>>

\* A fault: the progress is taken the wrong way round.
SampleReversed ==
  /\ Section("sample")
  /\ trace' = [trace EXCEPT !.delta = trace.initial - game.stardate]
  /\ Go("watch")
  /\ UNCHANGED <<spec, truth, gameVars, patch_applied, result, keys, passes>>

Sample ==
  /\ Section("sample")
  /\ trace' = [initial |-> trace.initial, delta |-> game.stardate - trace.initial,
               slot |-> trace.slot \/ game.slot, action |-> game.action,
               managed |-> game.managed, passes |-> passes, torn |-> turn = "selected"]
  /\ Go(IF game.action # "none" THEN "validate" ELSE "watch")
  /\ UNCHANGED <<spec, truth, gameVars, patch_applied, result, keys, passes>>

\* Leaving the try block by return.
Pass == Go("finally") /\ result' = "passed"

\* A fault: the scenario has passed before its patch is taken back.
ValidateEarly ==
  /\ pc = "validate"
  /\ IF ~Validates(spec, trace) THEN Raise
     ELSE /\ Go(IF IsPatched(spec) THEN "restore" ELSE "finally")
          /\ result' = "passed"
  /\ UNCHANGED <<spec, truth, gameVars, trace, patch_applied, keys, halted, passes>>

Validate ==
  /\ pc = "validate"
  /\ IF ~Validates(spec, trace) THEN Raise
     ELSE IF IsPatched(spec) THEN Go("restore") /\ UNCHANGED result
     ELSE Pass
  /\ UNCHANGED <<spec, truth, gameVars, trace, patch_applied, keys, halted, passes>>

\* checked_restore_patch, before the return and in the finally clause.
Restores(bytes, verified) ==
  /\ code[PatchedSite(spec)] = Replacement(spec)
  /\ bytes = Original[PatchedSite(spec)] /\ verified

RestorePatch ==
  /\ Section("restore") \/ Section("rollback")
  /\ \E bytes \in {code[PatchedSite(spec)], "torn", Original[PatchedSite(spec)]},
        verified \in BOOLEAN :
       /\ code' = [code EXCEPT ![PatchedSite(spec)] = bytes]
       /\ CASE ~Restores(bytes, verified) -> SectionRaises /\ UNCHANGED patch_applied
            [] Restores(bytes, verified) /\ pc = "restore" -> Pass /\ patch_applied' = FALSE
            [] OTHER -> Go("teardown") /\ UNCHANGED <<result, patch_applied>>
  /\ UNCHANGED <<spec, truth, game, turn, drifted, alive, trace, keys, passes>>

Finally ==
  /\ pc = "finally"
  /\ Go(IF alive /\ patch_applied THEN "rollback" ELSE "teardown")
  /\ UNCHANGED <<spec, truth, gameVars, trace, patch_applied, result, keys, halted, passes>>

\* terminate, two seconds, kill.
Teardown ==
  /\ pc = "teardown"
  /\ Go("done") /\ alive' = FALSE
  /\ UNCHANGED <<spec, truth, game, turn, drifted, code, trace, patch_applied, result, keys,
                 halted, passes>>

Returned == pc = "done" /\ UNCHANGED vars

Runner ==
  \/ Launch \/ Halt \/ NotStopped \/ SectionBreaks \/ SampleRecord \/ Arm \/ WaitField
  \/ SampleArmed \/ ApplyPatch \/ FastForward \/ FirstSample \/ NextSample \/ WindowEnds
  \/ Sample \/ Validate \/ RestorePatch \/ Finally \/ Teardown

Next == Runner \/ PlanetPass \/ Commit \/ Stardate \/ Drift \/ TakeKey \/ GameDies \/ KernelStops \/ Returned

Spec == Init /\ [][Next]_vars

(***************************************************************************)
(* The runner is one thread that never waits for ever: every wait of it    *)
(* has a deadline, which NotStopped, WaitField and WindowEnds stand for.   *)
(* WindowEnds needs strong fairness: the loop leaves "watch" for every     *)
(* sample, and the clock is past the deadline at one of its tests.         *)
(***************************************************************************)
FairSpec == Spec /\ WF_vars(Runner) /\ SF_vars(WindowEnds)
-----------------------------------------------------------------------------
(***************************************************************************)
(* A signal that stops the game is followed by the one that lets it go on, *)
(* whatever happens in between: the finally clause of stopped_process.     *)
(***************************************************************************)
AlwaysResumed == halted # "running" ~> halted = "running"

\* Every run ends with the process torn down: the finally clause of run_scenario.
Terminates == <>(pc = "done" /\ ~alive)

(***************************************************************************)
(* run_scenario reports "passed" only with the original bytes back in the  *)
(* code, although writes may be short, verifications fail and the game may *)
(* die on the way.                                                         *)
(***************************************************************************)
PassedIsRestored == result = "passed" => code = Original

(***************************************************************************)
(* A scenario that must see nothing passes only when the game made a       *)
(* planet pass between the arming (and the patch) and the last sample: it  *)
(* did not stay idle for want of a turn (delta > 0 in validate_scenario).  *)
(***************************************************************************)
NegativeSawAPass == result = "passed" /\ spec \in Negative => trace.passes > 0

(***************************************************************************)
(* What summarize_causality concludes from a passed scenario is true of    *)
(* the game, however turns, samples, drift of the armed field and deaths   *)
(* of the process interleave.  One thing escapes it: a window that ends    *)
(* between a selection and its commit shows no commit in any case (torn).  *)
(***************************************************************************)
Conclusion(s) ==
  CASE s = "manual-control" -> FALSE \notin truth.gates
    [] s = "manual-gate-probe" -> FALSE \notin truth.gates
    [] s = "managed-gate-probe" -> TRUE \in truth.gates /\ ~truth.bypass
    [] s = "managed-control" -> TRUE \in truth.gates \/ truth.bypass
    [] s = "managed-policy-suppressed" -> ~truth.bypass
    [] s = "managed-action-write-suppressed" -> truth.direct => trace.torn

VerdictIsRight == result = "passed" => Conclusion(spec)

(***************************************************************************)
(* What a passed scenario concludes about the game is true of it, and the  *)
(* negative scenarios saw a planet pass: they did not pass for want of one *)
(* (validate_scenario, summarize_causality).                               *)
(***************************************************************************)
PassedMeansItHappened == NegativeSawAPass /\ VerdictIsRight
=============================================================================
