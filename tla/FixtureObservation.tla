-------------------------- MODULE FixtureObservation --------------------------
(***************************************************************************)
(* run_t3_multi_planet_fixture.py: a candidate save is loaded by the game  *)
(* in a private copy of its tree, the planets are counted in memory, the   *)
(* harness's sources are preserved beside the result, and the result       *)
(* replaces the artifact.  The tool may be killed and run again, the       *)
(* maintainer edits sources and saves meanwhile, and writes may fail.      *)
(***************************************************************************)
EXTENDS Naturals, Sequences, SequencesExt

CONSTANTS Versions,    \* contents of a source or of a save, told apart by their digests
          Wanted,      \* the content --candidate-sha256 names
          None, Torn,  \* no file, a part of a content
          MaxEdits     \* bound: edits by the maintainer

HarnessSources == <<"run_t3_multi_planet_fixture.py", "run_re5_runtime_turn_path.py">>
Names == ToSet(HarnessSources)
Failure == [status |-> "failed"]
Results == [status : {"passed"}, loaded : Versions, sha256 : [Names -> Versions \cup {None}]]

\* None and Torn are no content, and no document.
VersionsAssumption ==
  /\ Wanted \in Versions /\ None \notin Versions /\ Torn \notin Versions /\ None # Torn
  /\ None \notin Results
  /\ MaxEdits \in Nat

VARIABLES candidate, source,           \* the maintainer's files
          snapshot, partial, artifact, \* the tool's files
          pc, bytes, resume, hashes, data, document,
          edits

input == <<candidate, source, edits>>
files == <<snapshot, partial, artifact>>
local == <<bytes, resume, hashes, data, document>>
vars == <<input, files, pc, local>>

TypeOK ==
  /\ candidate \in Versions /\ source \in [Names -> Versions] /\ edits \in 0..MaxEdits
  /\ snapshot \in [Names -> Versions \cup {None}]
  /\ partial \in [Names -> Versions \cup {None, Torn}]
  /\ artifact \in Results \cup {Failure, None}
  /\ pc \in {"idle", "launch", "load", "recheck", "preserve", "write", "replace", "result", "publish"}
  /\ bytes \in Versions \cup {None} /\ resume \in Versions \cup {None}
  /\ hashes \in [Names -> Versions \cup {None}] /\ data \in Versions \cup {None}
  /\ document \in Results \cup {Failure, None}

Fresh == bytes = None /\ resume = None /\ hashes = [n \in Names |-> None]
         /\ data = None /\ document = None

Init ==
  /\ candidate \in Versions /\ source \in [Names -> Versions] /\ edits = 0
  /\ snapshot = [n \in Names |-> None] /\ partial = snapshot /\ artifact = None
  /\ pc = "idle" /\ Fresh
-----------------------------------------------------------------------------
(* Any exception of run becomes the failure document of main. *)
Fail == pc' = "publish" /\ document' = Failure /\ UNCHANGED <<bytes, resume, hashes, data>>

Begin ==
  /\ pc = "idle"
  /\ \/ /\ candidate = Wanted /\ bytes' = candidate /\ pc' = "launch"
        /\ UNCHANGED <<resume, hashes, data, document>>
     \/ Fail    \* also a game tree, an executable or a manifest that is not the pinned one
  /\ UNCHANGED <<input, files>>

\* A fault: the save is copied from its path.
LaunchFromPath ==
  /\ pc = "launch" /\ resume' = candidate /\ pc' = "load"
  /\ UNCHANGED <<input, files, bytes, hashes, data, document>>

\* _prepare_mount and _launch: the tree's saves go, the candidate is resume.gam.
Launch ==
  /\ pc = "launch"
  /\ \/ /\ resume' = bytes /\ pc' = "load"
        /\ UNCHANGED <<bytes, hashes, data, document>>
     \/ Fail
  /\ UNCHANGED <<input, files>>

\* verify_candidate_save: the game may write the save it has loaded, the oracle may refuse.
Load ==
  /\ pc = "load"
  /\ \E written \in Versions :
       IF written = bytes
       THEN /\ pc' = "recheck" /\ UNCHANGED <<bytes, resume, hashes, data, document>>
            \/ Fail
       ELSE Fail
  /\ UNCHANGED <<input, files>>

RecheckCandidate ==
  /\ pc = "recheck"
  /\ IF candidate = bytes
     THEN pc' = "preserve" /\ UNCHANGED <<bytes, resume, hashes, data, document>>
     ELSE Fail
  /\ UNCHANGED <<input, files>>

\* The first source without a digest yet, in the order of harness_source_paths.
Pending == {i \in DOMAIN HarnessSources : hashes[HarnessSources[i]] = None}
Current == HarnessSources[CHOOSE i \in Pending : \A j \in Pending : i <= j]
AfterLast(h) == IF \E n \in Names : h[n] = None THEN "preserve" ELSE "result"

\* A fault: a snapshot of other bytes is replaced.
PreserveOver ==
  /\ pc = "preserve" /\ data' = source[Current] /\ pc' = "write"
  /\ UNCHANGED <<input, files, bytes, resume, hashes, document>>

\* A source is read, and compared with the snapshot of an earlier run if there is one.
Preserve ==
  /\ pc = "preserve"
  /\ IF snapshot[Current] = None
     THEN data' = source[Current] /\ pc' = "write" /\ UNCHANGED <<bytes, resume, hashes, document>>
     ELSE IF snapshot[Current] = source[Current]
     THEN /\ hashes' = [hashes EXCEPT ![Current] = source[Current]]
          /\ pc' = AfterLast(hashes') /\ UNCHANGED <<bytes, resume, data, document>>
     ELSE Fail
  /\ UNCHANGED <<input, files>>

\* The write of the .part: not yet, in part, all of it; a failure unlinks it.
WritePartial ==
  /\ pc = "write"
  /\ \/ /\ partial[Current] # Torn /\ partial' = [partial EXCEPT ![Current] = Torn]
        /\ UNCHANGED <<pc, local>>
     \/ /\ partial[Current] = Torn /\ partial' = [partial EXCEPT ![Current] = data]
        /\ pc' = "replace" /\ UNCHANGED local
     \/ /\ partial' = [partial EXCEPT ![Current] = None] /\ Fail
  /\ UNCHANGED <<input, snapshot, artifact>>

ReplacePartial ==
  /\ pc = "replace"
  /\ partial' = [partial EXCEPT ![Current] = None]
  /\ \/ /\ snapshot' = [snapshot EXCEPT ![Current] = partial[Current]]
        /\ hashes' = [hashes EXCEPT ![Current] = data]
        /\ pc' = AfterLast(hashes') /\ UNCHANGED <<bytes, resume, data, document>>
     \/ Fail /\ UNCHANGED snapshot
  /\ UNCHANGED <<input, artifact>>

\* The candidate is read a last time, for source_unchanged only; its path may be gone.
Result ==
  /\ pc = "result"
  /\ \/ /\ document' = [status |-> "passed", loaded |-> resume, sha256 |-> hashes]
        /\ pc' = "publish" /\ UNCHANGED <<bytes, resume, hashes, data>>
     \/ Fail
  /\ UNCHANGED <<input, files>>

\* A fault: the artifact is written in place.
PublishInPlace ==
  /\ pc = "publish"
  /\ IF artifact = Torn
     THEN /\ artifact' = document /\ pc' = "idle"
          /\ bytes' = None /\ resume' = None /\ hashes' = [n \in Names |-> None]
          /\ data' = None /\ document' = None
     ELSE artifact' = Torn /\ UNCHANGED <<pc, local>>
  /\ UNCHANGED <<input, snapshot, partial>>

\* write_json_atomic: a temporary file of its own, then os.replace; main ends also if it raises.
Publish ==
  /\ pc = "publish" /\ pc' = "idle"
  /\ artifact' \in {artifact, document}
  /\ bytes' = None /\ resume' = None /\ hashes' = [n \in Names |-> None]
  /\ data' = None /\ document' = None
  /\ UNCHANGED <<input, snapshot, partial>>

\* The tool is killed; its temporary files stay.
Crash ==
  /\ pc # "idle" /\ pc' = "idle"
  /\ bytes' = None /\ resume' = None /\ hashes' = [n \in Names |-> None]
  /\ data' = None /\ document' = None
  /\ UNCHANGED <<input, files>>

Edit ==
  /\ edits < MaxEdits /\ edits' = edits + 1
  /\ \/ candidate' \in Versions \ {candidate} /\ UNCHANGED source
     \/ /\ \E n \in Names, v \in Versions : source' = [source EXCEPT ![n] = v]
        /\ source' # source /\ UNCHANGED candidate
  /\ UNCHANGED <<files, pc, local>>

Next ==
  \/ Begin \/ Launch \/ Load \/ RecheckCandidate \/ Preserve \/ WritePartial \/ ReplacePartial
  \/ Result \/ Publish \/ Crash \/ Edit

Spec == Init /\ [][Next]_vars
-----------------------------------------------------------------------------
(***************************************************************************)
(* The sources beside a passing artifact are the ones whose digests it     *)
(* carries, through every later run that fails, is killed, or finds other  *)
(* sources (harness_provenance): evidence, once published, stays whole.    *)
(***************************************************************************)
EvidenceStaysWhole ==
  artifact \in Results => snapshot = artifact.sha256

(***************************************************************************)
(* The save a passing artifact speaks of is the one its digest names, also *)
(* when the file was exchanged during the run and put back (run).          *)
(***************************************************************************)
LoadedTheCandidate == artifact \in Results => artifact.loaded = Wanted
=============================================================================
