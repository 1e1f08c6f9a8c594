------------------------------ MODULE DemoFetch ------------------------------
(***************************************************************************)
(* tools/fetch_demo.py: the archive of the demo is downloaded and checked, *)
(* its files are checked and copied to a staging directory, the old tree   *)
(* is removed, and the staging directory takes its name.  An invocation    *)
(* may fail at every call, or be killed between two of them.               *)
(***************************************************************************)
EXTENDS Naturals, FiniteSets

CONSTANTS Files,        \* the names in the manifest
          MaxFailures   \* bound: downloads, writes and removals that fail, and kills

DemoAssumption == IsFiniteSet(Files) /\ Files # {} /\ MaxFailures \in Nat

Bytes == {"pinned", "other"}
Absent == {}       \* a directory is the set of its files; exists says whether it is there

VARIABLES dest, destExists,        \* the tree: a set of pairs of a name and bytes
          staging, stagingExists,
          pc, exit, failures

dirs == <<dest, destExists, staging, stagingExists>>
vars == <<dirs, pc, exit, failures>>

Trees == SUBSET (Files \X Bytes)
PinnedTree == Files \X {"pinned"}

TypeOK ==
  /\ dest \in Trees /\ staging \in Trees /\ destExists \in BOOLEAN /\ stagingExists \in BOOLEAN
  /\ destExists \/ dest = Absent
  /\ stagingExists \/ staging = Absent
  /\ failures \in 0..MaxFailures
  /\ pc \in {"idle", "archive", "clear", "copy", "remove", "move", "verify"}
  /\ exit \in {"none", "success", "failure", "raised"}

Init ==
  /\ \/ destExists = TRUE /\ dest \in {Files \X {"other"}, PinnedTree}
     \/ destExists = FALSE /\ dest = Absent
  /\ staging = Absent /\ stagingExists = FALSE
  /\ pc = "idle" /\ exit = "none" /\ failures = 0

Stop(how) == pc' = "idle" /\ exit' = how

\* resolve_dest has accepted the destination.
Start ==
  /\ pc = "idle" /\ exit # "success" /\ pc' = "archive" /\ exit' = "none"
  /\ UNCHANGED <<dirs, failures>>

\* archive_bytes and the members' checks: nothing is written unless all of it is pinned.
Fetch ==
  /\ pc = "archive"
  /\ \/ pc' = "clear" /\ UNCHANGED <<exit, failures>>
     \/ failures < MaxFailures /\ failures' = failures + 1 /\ Stop("failure")
  /\ UNCHANGED dirs

\* A fault: the staging directory of an earlier run is not expected; copytree raises.
ClearNothing ==
  /\ pc = "clear"
  /\ IF stagingExists THEN Stop("raised") ELSE pc' = "copy" /\ UNCHANGED exit
  /\ UNCHANGED <<dirs, failures>>

\* What an earlier run left in the staging directory goes, file by file.
ClearStaging ==
  /\ pc = "clear"
  /\ IF staging # {}
     THEN \E f \in staging : staging' = staging \ {f} /\ UNCHANGED <<stagingExists, pc>>
     ELSE stagingExists' = FALSE /\ staging' = Absent /\ pc' = "copy"
  /\ UNCHANGED <<dest, destExists, exit, failures>>

\* copytree.
CopyToStaging ==
  /\ pc = "copy" /\ stagingExists' = TRUE
  /\ IF staging # PinnedTree
     THEN \E f \in PinnedTree \ staging : staging' = staging \cup {f} /\ UNCHANGED pc
     ELSE pc' = "remove" /\ UNCHANGED staging
  /\ UNCHANGED <<dest, destExists, exit, failures>>

\* A fault: the staging directory's files are moved over those of the tree.
MoveFileByFile ==
  /\ pc = "remove"
  /\ IF staging # {}
     THEN \E f \in staging :
            dest' = {g \in dest : g[1] # f[1]} \cup {f} /\ staging' = staging \ {f} /\ UNCHANGED pc
     ELSE pc' = "verify" /\ UNCHANGED <<dest, staging>>
  /\ destExists' = TRUE
  /\ UNCHANGED <<stagingExists, exit, failures>>

\* The old tree goes, file by file.
RemoveOld ==
  /\ pc = "remove"
  /\ IF dest # {}
     THEN \E f \in dest : dest' = dest \ {f} /\ UNCHANGED <<destExists, pc>>
     ELSE destExists' = FALSE /\ dest' = Absent /\ pc' = "move"
  /\ UNCHANGED <<staging, stagingExists, exit, failures>>

Move ==
  /\ pc = "move" /\ pc' = "verify"
  /\ dest' = staging /\ destExists' = TRUE /\ staging' = Absent /\ stagingExists' = FALSE
  /\ UNCHANGED <<exit, failures>>

\* verify_tree.
VerifyTree ==
  /\ pc = "verify"
  /\ Stop(IF PinnedTree \subseteq dest THEN "success" ELSE "failure")
  /\ UNCHANGED <<dirs, failures>>

\* An OSError, which main does not catch, or a kill.
Break ==
  /\ pc \in {"clear", "copy", "remove", "move"} /\ failures < MaxFailures
  /\ failures' = failures + 1 /\ Stop("raised")
  /\ UNCHANGED dirs

Works ==
  Start \/ Fetch \/ ClearStaging \/ CopyToStaging \/ RemoveOld \/ Move \/ VerifyTree

Next == Works \/ Break

\* Somebody starts it again until it has succeeded, and only so many things fail.
Spec == Init /\ [][Next]_vars /\ WF_vars(Works)
-----------------------------------------------------------------------------
(***************************************************************************)
(* A kill or a failure never leaves new files among old ones: the tree is  *)
(* the one that was there, what is left of it, or the pinned one           *)
(* (extract_verified).                                                     *)
(***************************************************************************)
TreeIsNotMixed ==
  \/ dest \subseteq Files \X {"other"} \/ dest \subseteq PinnedTree

(***************************************************************************)
(* However often it was killed, and whatever that left behind, the         *)
(* invocations after it arrive at the pinned tree, and report success only *)
(* then.                                                                   *)
(***************************************************************************)
Recovers == <>[](exit = "success" /\ dest = PinnedTree)
=============================================================================
