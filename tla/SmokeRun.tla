------------------------------- MODULE SmokeRun -------------------------------
(***************************************************************************)
(* run_cf3_runtime_smoke.py: an executable is laid over a copy of a game   *)
(* tree and run with a probe that reports the video modes it sets.  The    *)
(* run ends by itself or at a timeout; either may be what was expected.    *)
(* DOS does not tell names apart by case, the copy does.                   *)
(***************************************************************************)
EXTENDS Naturals, Sequences, FiniteSets, SequencesExt

CONSTANTS Timeout,   \* --timeout
          Codes      \* names of the exit codes

SmokeAssumption == Timeout \in Nat \ {0} /\ Codes \cap {"any", "timeout"} = {}

\* A name is a stem and whether it is in upper case; contents are told apart by owner.
Names == [stem : {"ascend", "other"}, upper : BOOLEAN]
Contents == {"tree", "given"}
Expectations == [mode : BOOLEAN, ending : {"any", "timeout"} \cup Codes]

VARIABLES tree, exe, expect,     \* the arguments
          mount, ran,            \* the copy; the content DOSBox ran
          pc, clock, modes, ending, artifact, exit

vars == <<tree, exe, expect, mount, ran, pc, clock, modes, ending, artifact, exit>>

Files(dir) == {f \in Names \X Contents : f[1] \in dir /\ f[2] = "tree"}

TypeOK ==
  /\ tree \subseteq Names /\ exe \in Names /\ expect \in Expectations
  /\ mount \subseteq Names \X Contents /\ ran \in Contents \cup {"nothing"}
  /\ pc \in {"check", "overlay", "launch", "run", "artifact", "judge", "done"}
  /\ clock \in 0..Timeout /\ modes \in Seq(BOOLEAN) /\ Len(modes) <= Timeout
  /\ ending \in {"none", "timeout"} \cup Codes
  /\ artifact \in [ending : {"timeout"} \cup Codes, mode : BOOLEAN] \cup {<< >>}
  /\ exit \in {"none", "pass", "fail"}

\* verify_manifest_tree refuses two names that differ in case only.
Unambiguous(dir) == \A m, n \in dir : m.stem = n.stem => m = n

Init ==
  /\ tree \in {d \in SUBSET Names : Unambiguous(d)}
  /\ exe \in [stem : {"ascend"}, upper : BOOLEAN] /\ expect \in Expectations
  /\ mount = {} /\ ran = "nothing" /\ pc = "check" /\ clock = 0 /\ modes = << >>
  /\ ending = "none" /\ artifact = << >> /\ exit = "none"

Fail == pc' = "done" /\ exit' = "fail"

\* main up to the temporary directory: arguments, tree, executable and its hash.
CheckInputs ==
  /\ pc = "check"
  /\ \/ /\ expect.mode => expect.ending # "any"
        /\ pc' = "overlay" /\ UNCHANGED exit
     \/ Fail
  /\ UNCHANGED <<tree, exe, expect, mount, ran, clock, modes, ending, artifact>>

Target == [exe EXCEPT !.upper = TRUE]

\* A fault: a file of that name stays.
OverlaidUnder == Files(tree) \cup (IF Target \in tree THEN {} ELSE {<<Target, "given">>})

\* materialize_overlay: the file of exactly that name goes.
Overlaid == {f \in Files(tree) : f[1] # Target} \cup {<<Target, "given">>}

Overlay ==
  /\ pc = "overlay"
  /\ \/ mount' = Overlaid /\ pc' = "launch" /\ UNCHANGED exit
     \/ UNCHANGED mount /\ Fail       \* compile_probe, or a copy
  /\ UNCHANGED <<tree, exe, expect, ran, clock, modes, ending, artifact>>

\* DOSBox takes a file whose name is the one asked for, whatever its case.
Launch ==
  /\ pc = "launch"
  /\ \E f \in mount : f[1].stem = exe.stem /\ ran' = f[2]
  /\ pc' = "run"
  /\ UNCHANGED <<tree, exe, expect, mount, clock, modes, ending, artifact, exit>>

\* A moment of the run, in which the game may set a mode, or try to.
GameRuns ==
  /\ pc = "run" /\ clock < Timeout /\ clock' = clock + 1
  /\ modes' \in {modes} \cup {Append(modes, ok) : ok \in BOOLEAN}
  /\ UNCHANGED <<tree, exe, expect, mount, ran, pc, ending, artifact, exit>>

GameEnds ==
  /\ pc = "run" /\ pc' = "artifact"
  /\ IF clock = Timeout THEN ending' = "timeout" ELSE ending' \in Codes
  /\ UNCHANGED <<tree, exe, expect, mount, ran, clock, modes, artifact, exit>>

\* A fault: an attempt to set the mode is enough.
ModeTried == modes # << >>

ModeSeen == TRUE \in ToSet(modes)

\* The metadata and make_artifact, before anything is judged.
WriteArtifact ==
  /\ pc = "artifact"
  /\ \/ artifact' = [ending |-> ending, mode |-> expect.mode => ModeSeen]
        /\ pc' = "judge" /\ UNCHANGED exit
     \/ UNCHANGED artifact /\ Fail
  /\ UNCHANGED <<tree, exe, expect, mount, ran, clock, modes, ending>>

Judge ==
  /\ pc = "judge" /\ pc' = "done"
  /\ exit' = IF (expect.mode => ModeSeen) /\ expect.ending \in {"any", ending}
             THEN "pass" ELSE "fail"
  /\ UNCHANGED <<tree, exe, expect, mount, ran, clock, modes, ending, artifact>>

Next ==
  \/ CheckInputs \/ Overlay \/ Launch \/ GameRuns \/ GameEnds \/ WriteArtifact \/ Judge

Spec == Init /\ [][Next]_vars
-----------------------------------------------------------------------------
(***************************************************************************)
(* A pass is about the executable whose digest the artifact carries: DOS   *)
(* finds no other file of that name in the copy (materialize_overlay).     *)
(* There is one exception.  verify_manifest_tree takes a tree whose file   *)
(* of that name is in lower case, the copy leaves it beside the executable *)
(* under test, and DOS may find either of the two.                         *)
(***************************************************************************)
RanTheGiven ==
  exit = "pass" => ran = "given" \/ [exe EXCEPT !.upper = FALSE] \in tree

(***************************************************************************)
(* A pass with an expected mode has seen the game set it with success,     *)
(* whatever attempts failed before and after, and ended as asked for       *)
(* (main).                                                                 *)
(***************************************************************************)
PassMeansExpected ==
  exit = "pass" =>
    /\ expect.mode => \E i \in DOMAIN modes : modes[i]
    /\ expect.ending = "timeout" => clock = Timeout
    /\ expect.ending \in Codes => clock < Timeout
=============================================================================
