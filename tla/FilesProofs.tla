----------------------------- MODULE FilesProofs -----------------------------
(***************************************************************************)
(* TLAPS proofs about the tools that write evidence and targets, in the    *)
(* composition of MCFiles: the artifact of a fixture observation, the      *)
(* fetched targets of one invocation at a time, and the demo's tree.       *)
(***************************************************************************)
EXTENDS MCFiles, TLAPS

-----------------------------------------------------------------------------
(* A fixture observation.                                                   *)

\* The run under way is about the wanted save.
Wanting ==
  /\ pc \in {"launch", "load", "recheck", "preserve", "write", "replace", "result"} => bytes = Wanted
  /\ pc \in {"load", "recheck", "preserve", "write", "replace", "result"} => resume = Wanted

\* A source whose digest was taken has its snapshot, and the one at hand has none.
Preserving ==
  /\ \A n \in Fixture!Names : hashes[n] # None => snapshot[n] = hashes[n]
  /\ pc \notin {"result", "publish"} => \E n \in Fixture!Names : hashes[n] = None
  /\ pc \in {"write", "replace"} => data \in Versions /\ snapshot[Fixture!Current] = None
  /\ pc = "replace" => partial[Fixture!Current] = data
  /\ pc = "result" => \A n \in Fixture!Names : hashes[n] # None

\* A passing document, published or about to be, speaks of the wanted save and
\* of all the snapshots there are.
Speaks(d) ==
  d \in Fixture!Results =>
    d.loaded = Wanted /\ d.sha256 = snapshot /\ \A n \in Fixture!Names : snapshot[n] # None

FixtureInv == Fixture!TypeOK /\ Wanting /\ Preserving /\ Speaks(document) /\ Speaks(artifact)

-----------------------------------------------------------------------------
(* The fetched targets, one invocation at a time.                           *)

Alone == \A p, q \in Invocations : p = q

\* The file that is being written is this invocation's .part, with the pinned
\* bytes once it is written.
Fetching(p) ==
  /\ pc[p] \in {"open", "write", "replace"} => member[p] = "good"
  /\ pc[p] = "write" => at[p] = "part"
  /\ pc[p] = "replace" => partFile[entry[p]] = "good"
  /\ pc[p] \in {"download", "open", "write", "replace"} =>
       output[entry[p]] # "good" /\ (output[entry[p]] = "old" => mode[p] = "force")
  /\ pc[p] = "unlink" => raising[p] \/ output[entry[p]] = "good"

\* No failure so far: what lies behind is pinned.
Behind(p) ==
  /\ pc[p] # "idle" /\ ~failed[p] => \A e \in 1..Last : e < entry[p] => output[e] = "good"
  /\ pc[p] # "idle" => exit[p] = "none"
  /\ exit[p] = "success" => \A e \in 1..Last : output[e] = "good"

TargetInv ==
  /\ Target!TypeOK
  /\ Target!OutputsArePinned
  /\ \A p \in Invocations : Fetching(p) /\ Behind(p)

-----------------------------------------------------------------------------
(* The demo's tree.                                                         *)

DemoInv == Demo!TypeOK /\ Demo!TreeIsNotMixed /\ staging \subseteq Demo!PinnedTree

(***************************************************************************)
(* The part in play keeps its invariant; the targets' one is about an      *)
(* invocation that has the directory to itself.                            *)
(***************************************************************************)
EvidenceInv ==
  /\ part \in {"fixture", "target", "demo"}
  /\ part = "fixture" => FixtureInv
  /\ part = "target" => Target!TypeOK
  /\ part = "demo" => DemoInv

FilesInv == EvidenceInv /\ (part = "target" => TargetInv)

-----------------------------------------------------------------------------
\* Whatever is on disk before the first fetch of the demo, its tree is all old
\* or all pinned.
LEMMA DemoInit ==
  Demo!Init => DemoInv
<1> SUFFICES ASSUME Demo!Init PROVE DemoInv
  OBVIOUS
<1> USE DEF Demo!Init, Demo!Trees, Demo!PinnedTree, Demo!Absent, Demo!Bytes
<1>1. dest \in SUBSET (Files \X {"other"}) \/ dest \in SUBSET (Files \X {"pinned"})
  OBVIOUS
<1>2. Files \X {"other"} \subseteq Files \X Demo!Bytes /\ Files \X {"pinned"} \subseteq Files \X Demo!Bytes
  OBVIOUS
<1>3. dest \in Demo!Trees /\ staging \in Demo!Trees /\ staging \subseteq Demo!PinnedTree
  BY <1>1, <1>2
<1>4. Demo!TreeIsNotMixed
  BY <1>1 DEF Demo!TreeIsNotMixed
<1>5. destExists \in BOOLEAN /\ stagingExists \in BOOLEAN /\ (destExists \/ dest = Demo!Absent)
  OBVIOUS
<1>6. failures \in 0..MaxFailures
  BY ConstantsFit DEF Demo!DemoAssumption
<1> QED
  BY <1>3, <1>4, <1>5, <1>6 DEF DemoInv, Demo!TypeOK

\* No step of fetch_demo puts a file into the tree that is there.
LEMMA DemoStepKeeps ==
  ASSUME DemoInv, Demo!Next
  PROVE  DemoInv'
<1> USE DEF DemoInv, Demo!TypeOK, Demo!dirs, Demo!Absent, Demo!Stop
<1>1. MaxFailures \in Nat /\ failures \in 0..MaxFailures
  BY ConstantsFit DEF Demo!DemoAssumption
<1>2. CASE Demo!Start \/ Demo!Fetch \/ Demo!VerifyTree \/ Demo!Break
  <2>1. UNCHANGED <<dest, destExists, staging, stagingExists>>
    BY <1>2 DEF Demo!Start, Demo!Fetch, Demo!VerifyTree, Demo!Break
  <2>2. /\ pc' \in {"idle", "archive", "clear", "copy", "remove", "move", "verify"}
        /\ exit' \in {"none", "success", "failure", "raised"}
    BY <1>2 DEF Demo!Start, Demo!Fetch, Demo!VerifyTree, Demo!Break
  <2>3. failures' = failures \/ (failures < MaxFailures /\ failures' = failures + 1)
    BY <1>2 DEF Demo!Start, Demo!Fetch, Demo!VerifyTree, Demo!Break
  <2>4. failures' \in 0..MaxFailures
    BY <1>1, <2>3
  <2> QED
    BY <2>1, <2>2, <2>4 DEF Demo!TreeIsNotMixed, Demo!Trees, Demo!PinnedTree
<1>3. CASE Demo!ClearStaging
  <2>1. UNCHANGED <<dest, destExists, failures, exit>> /\ staging' \subseteq staging
    BY <1>3 DEF Demo!ClearStaging
  <2>2. pc' \in {"clear", "copy"}
    BY <1>3 DEF Demo!ClearStaging
  <2>3. stagingExists' \in BOOLEAN /\ (stagingExists' \/ staging' = {})
    BY <1>3 DEF Demo!ClearStaging
  <2> QED
    BY <2>1, <2>2, <2>3 DEF Demo!TreeIsNotMixed, Demo!Trees, Demo!PinnedTree
<1>4. CASE Demo!CopyToStaging
  <2>1. UNCHANGED <<dest, destExists, failures, exit>> /\ staging' \subseteq Demo!PinnedTree
    BY <1>4 DEF Demo!CopyToStaging
  <2>2. pc' \in {"copy", "remove"} /\ stagingExists' = TRUE
    BY <1>4 DEF Demo!CopyToStaging
  <2>3. Demo!PinnedTree \subseteq Files \X Demo!Bytes
    BY DEF Demo!PinnedTree, Demo!Bytes
  <2>4. stagingExists' \in BOOLEAN
    BY <2>2
  <2> QED
    BY <2>1, <2>2, <2>3, <2>4 DEF Demo!TreeIsNotMixed, Demo!Trees, Demo!PinnedTree
<1>5. CASE Demo!RemoveOld
  <2>1. UNCHANGED <<staging, stagingExists, failures, exit>> /\ dest' \subseteq dest
    BY <1>5 DEF Demo!RemoveOld
  <2>2. pc' \in {"remove", "move"}
    BY <1>5 DEF Demo!RemoveOld
  <2>3. destExists' \in BOOLEAN /\ (destExists' \/ dest' = {})
    BY <1>5 DEF Demo!RemoveOld
  <2> QED
    BY <2>1, <2>2, <2>3 DEF Demo!TreeIsNotMixed, Demo!Trees, Demo!PinnedTree
<1>6. CASE Demo!Move
  <2>1. /\ dest' = staging /\ staging' = {} /\ destExists' = TRUE /\ stagingExists' = FALSE
        /\ pc' = "verify" /\ UNCHANGED <<exit, failures>>
    BY <1>6 DEF Demo!Move
  <2>2. destExists' \in BOOLEAN /\ stagingExists' \in BOOLEAN
    BY <2>1
  <2> QED
    BY <2>1, <2>2 DEF Demo!TreeIsNotMixed, Demo!Trees, Demo!PinnedTree
<1> QED
  BY <1>2, <1>3, <1>4, <1>5, <1>6 DEF Demo!Next, Demo!Works
-----------------------------------------------------------------------------
\* Outputs that are there before the first fetch satisfy the invariant: nothing
\* is claimed of them yet.
LEMMA TargetInit ==
  Target!Init => TargetInv
<1> SUFFICES ASSUME Target!Init PROVE TargetInv
  OBVIOUS
<1>1. Last \in Nat \ {0} /\ Sources \in Nat \ {0} /\ MaxStarts \in Nat
  BY ConstantsFit DEF Target!FetchAssumption
<1>2. Target!TypeOK
  <2>1. failed \in [Invocations -> BOOLEAN] /\ raising \in [Invocations -> BOOLEAN]
    BY DEF Target!Init
  <2>2. /\ output \in [Target!Entries -> Target!Contents \cup {None}]
        /\ partFile \in [Target!Entries -> Target!Contents \cup {None}]
    BY DEF Target!Init, Target!Contents
  <2>3. /\ pc \in [Invocations -> {"idle", "check", "download", "open", "write", "replace", "unlink"}]
        /\ entry \in [Invocations -> Target!Entries] /\ tried \in [Invocations -> 0..Sources]
        /\ member \in [Invocations -> Target!Members \cup {None}]
        /\ mode \in [Invocations -> Target!Modes]
        /\ exit \in [Invocations -> {"none", "success", "failure", "raised", "killed"}]
        /\ at \in [Invocations -> {"part", "output", "gone"}] /\ starts \in 0..MaxStarts
    BY <1>1 DEF Target!Init, Target!Entries, Target!Members, Target!Modes
  <2> QED
    BY <2>1, <2>2, <2>3 DEF Target!TypeOK
<1>3. Target!OutputsArePinned
  BY DEF Target!Init, Target!OutputsArePinned
<1>4. \A p \in Invocations : Fetching(p) /\ Behind(p)
  BY DEF Target!Init, Fetching, Behind
<1> QED
  BY <1>2, <1>3, <1>4 DEF TargetInv

\* The end of an entry that succeeded, or failed, keeps the account of what
\* lies behind; it touches no file.
LEMMA EntryEnds ==
  ASSUME TargetInv, NEW p \in Invocations, NEW fails \in BOOLEAN, Target!EndEntry(p, fails),
         Alone, ~fails => output'[entry[p]] = "good", pc[p] # "idle",
         output' \in [Target!Entries -> Target!Contents \cup {None}],
         \A e \in Target!Entries : output[e] = "good" => output'[e] = "good"
  PROVE  /\ pc' \in [Invocations -> {"idle", "check", "download", "open", "write", "replace", "unlink"}]
         /\ entry' \in [Invocations -> Target!Entries] /\ tried' \in [Invocations -> 0..Sources]
         /\ failed' \in [Invocations -> BOOLEAN]
         /\ exit' \in [Invocations -> {"none", "success", "failure", "raised", "killed"}]
         /\ pc'[p] \in {"idle", "check"} /\ Behind(p)'
<1>1. Last \in Nat \ {0} /\ Sources \in Nat \ {0}
  BY ConstantsFit DEF Target!FetchAssumption
<1>2. /\ entry[p] \in 1..Last /\ entry \in [Invocations -> 1..Last]
      /\ failed \in [Invocations -> BOOLEAN] /\ tried \in [Invocations -> 0..Sources]
      /\ pc \in [Invocations -> {"idle", "check", "download", "open", "write", "replace", "unlink"}]
      /\ exit \in [Invocations -> {"none", "success", "failure", "raised", "killed"}]
  BY DEF TargetInv, Target!TypeOK, Target!Entries
<1>3. failed' = [failed EXCEPT ![p] = @ \/ fails] /\ tried' = [tried EXCEPT ![p] = 0]
  BY DEF Target!EndEntry
<1>4. failed' \in [Invocations -> BOOLEAN] /\ tried' \in [Invocations -> 0..Sources]
  BY <1>1, <1>2, <1>3
<1>5. ~failed'[p] => ~failed[p] /\ ~fails
  BY <1>2, <1>3
<1>6. ~failed'[p] => \A e \in 1..Last : e <= entry[p] => output'[e] = "good"
  <2> SUFFICES ASSUME ~failed'[p], NEW e \in 1..Last, e <= entry[p]
               PROVE  output'[e] = "good"
    OBVIOUS
  <2>1. ~failed[p] /\ ~fails
    BY <1>5
  <2>2. CASE e = entry[p]
    BY <2>1, <2>2
  <2>3. CASE e < entry[p]
    BY <2>1, <2>3 DEF TargetInv, Behind, Target!Entries
  <2> QED
    BY <1>2, <2>2, <2>3
<1>7. CASE entry[p] < Last
  <2>1. /\ pc' = [pc EXCEPT ![p] = "check"] /\ entry' = [entry EXCEPT ![p] = @ + 1]
        /\ UNCHANGED exit
    BY <1>7 DEF Target!EndEntry, Target!Goto
  <2>2. /\ pc'[p] = "check" /\ entry'[p] = entry[p] + 1 /\ exit'[p] = "none"
    BY <1>2, <2>1 DEF TargetInv, Behind
  <2>3. entry' \in [Invocations -> 1..Last]
    BY <1>1, <1>2, <1>7, <2>1
  <2>4. Behind(p)'
    <3>1. ~failed'[p] => \A e \in 1..Last : e < entry'[p] => output'[e] = "good"
      BY <1>2, <1>6, <2>2
    <3> QED
      BY <2>2, <3>1 DEF Behind
  <2> QED
    BY <1>2, <1>4, <2>1, <2>2, <2>3, <2>4 DEF Target!Entries
<1>8. CASE ~(entry[p] < Last)
  <2>1. /\ pc' = [pc EXCEPT ![p] = "idle"] /\ UNCHANGED entry
        /\ exit' = [exit EXCEPT ![p] = IF failed'[p] THEN "failure" ELSE "success"]
    BY <1>8 DEF Target!EndEntry, Target!Goto
  <2>2. pc'[p] = "idle" /\ exit'[p] = (IF failed'[p] THEN "failure" ELSE "success")
    BY <1>2, <2>1
  <2>3. \A e \in 1..Last : e <= entry[p]
    BY <1>1, <1>2, <1>8
  <2>4. exit'[p] = "success" => \A e \in 1..Last : output'[e] = "good"
    BY <1>6, <2>2, <2>3
  <2>5. Behind(p)'
    BY <2>2, <2>4 DEF Behind
  <2> QED
    BY <1>2, <1>4, <2>1, <2>2, <2>5 DEF Target!Entries
<1> QED
  BY <1>7, <1>8
\* The types of one invocation's variables, opened once.
LEMMA TargetTypes ==
  ASSUME TargetInv, NEW p \in Invocations
  PROVE  /\ Last \in Nat \ {0} /\ Sources \in Nat \ {0} /\ MaxStarts \in Nat
         /\ output \in [1..Last -> Target!Contents \cup {None}]
         /\ partFile \in [1..Last -> Target!Contents \cup {None}]
         /\ pc \in [Invocations -> {"idle", "check", "download", "open", "write", "replace", "unlink"}]
         /\ entry \in [Invocations -> 1..Last] /\ entry[p] \in 1..Last
         /\ tried \in [Invocations -> 0..Sources] /\ tried[p] \in 0..Sources
         /\ member \in [Invocations -> Target!Members \cup {None}]
         /\ failed \in [Invocations -> BOOLEAN] /\ mode \in [Invocations -> Target!Modes]
         /\ raising \in [Invocations -> BOOLEAN]
         /\ exit \in [Invocations -> {"none", "success", "failure", "raised", "killed"}]
         /\ at \in [Invocations -> {"part", "output", "gone"}] /\ starts \in 0..MaxStarts
         /\ \A e \in 1..Last : output[e] \in {None, "old", "good"}
         /\ None \notin {"good", "bad", "torn", "old"}
         /\ Fetching(p) /\ Behind(p)
BY ConstantsFit DEF Target!FetchAssumption, Target!Contents, Target!Members, TargetInv, Target!TypeOK, Target!Entries,
   Target!OutputsArePinned

\* The next state of the only invocation is the next state of all.
LEMMA AloneSuffices ==
  ASSUME Alone, NEW p \in Invocations, Target!TypeOK', Target!OutputsArePinned',
         Fetching(p)', Behind(p)'
  PROVE  TargetInv'
<1>1. \A q \in Invocations : q = p
  BY DEF Alone
<1> QED
  BY <1>1 DEF TargetInv

\* A new invocation claims nothing yet, so outputs of earlier ones stay as they
\* are.
LEMMA StartKeeps ==
  ASSUME TargetInv, Alone, NEW p \in Invocations, Target!Start(p)
  PROVE  TargetInv'
<1>1. /\ pc' = [pc EXCEPT ![p] = "check"] /\ exit' = [exit EXCEPT ![p] = "none"]
      /\ entry' = [entry EXCEPT ![p] = 1] /\ failed' = [failed EXCEPT ![p] = FALSE]
      /\ tried' = [tried EXCEPT ![p] = 0] /\ raising' = [raising EXCEPT ![p] = FALSE]
      /\ starts < MaxStarts /\ starts' = starts + 1
      /\ UNCHANGED <<output, partFile, member, at>>
  BY DEF Target!Start, Target!Goto, Target!files
<1>2. mode' \in [Invocations -> Target!Modes]
  <2>1. PICK m \in Target!Modes : mode' = [mode EXCEPT ![p] = m]
    BY DEF Target!Start
  <2> QED
    BY <2>1, TargetTypes
<1>3. failed' \in [Invocations -> BOOLEAN] /\ raising' \in [Invocations -> BOOLEAN]
  BY <1>1, TargetTypes
<1>4. /\ pc' \in [Invocations -> {"idle", "check", "download", "open", "write", "replace", "unlink"}]
      /\ exit' \in [Invocations -> {"none", "success", "failure", "raised", "killed"}]
      /\ entry' \in [Invocations -> 1..Last] /\ tried' \in [Invocations -> 0..Sources]
      /\ starts' \in 0..MaxStarts
  BY <1>1, TargetTypes
<1>5. Target!TypeOK'
  BY <1>1, <1>2, <1>3, <1>4, TargetTypes DEF Target!TypeOK, Target!Entries
<1>6. pc'[p] = "check" /\ entry'[p] = 1 /\ exit'[p] = "none"
  BY <1>1, TargetTypes
<1>7. Fetching(p)' /\ Behind(p)'
  BY <1>6 DEF Fetching, Behind
<1> QED
  BY <1>1, <1>5, <1>7, AloneSuffices DEF TargetInv, Target!OutputsArePinned

\* Where an entry ends, nothing is being fetched.
LEMMA EndKeeps ==
  ASSUME TargetInv, Alone, NEW p \in Invocations, NEW fails \in BOOLEAN,
         Target!EndEntry(p, fails), ~fails => output[entry[p]] = "good", pc[p] # "idle",
         UNCHANGED <<output, member, mode, raising, starts>>,
         partFile' \in [1..Last -> Target!Contents \cup {None}],
         at' \in [Invocations -> {"part", "output", "gone"}]
  PROVE  TargetInv'
<1>1. output' \in [Target!Entries -> Target!Contents \cup {None}]
  BY TargetTypes DEF Target!Entries
<1>2. /\ pc' \in [Invocations -> {"idle", "check", "download", "open", "write", "replace", "unlink"}]
      /\ entry' \in [Invocations -> Target!Entries] /\ tried' \in [Invocations -> 0..Sources]
      /\ failed' \in [Invocations -> BOOLEAN]
      /\ exit' \in [Invocations -> {"none", "success", "failure", "raised", "killed"}]
      /\ pc'[p] \in {"idle", "check"} /\ Behind(p)'
  BY <1>1, EntryEnds
<1>3. Target!TypeOK'
  <2>1. failed' \in [Invocations -> BOOLEAN] /\ raising' \in [Invocations -> BOOLEAN]
    BY <1>2, TargetTypes
  <2> QED
    BY <1>1, <1>2, <2>1, TargetTypes DEF Target!TypeOK, Target!Entries
<1>4. Fetching(p)'
  BY <1>2 DEF Fetching
<1>5. Target!OutputsArePinned'
  BY DEF TargetInv, Target!OutputsArePinned
<1> QED
  BY <1>2, <1>3, <1>4, <1>5, AloneSuffices

\* Leaving a pinned output alone, and refusing a foreign one without --force,
\* keep the invariant.
LEMMA CheckKeeps ==
  ASSUME TargetInv, Alone, NEW p \in Invocations, Target!Check(p)
  PROVE  TargetInv'
<1>1. /\ pc[p] = "check" /\ UNCHANGED <<output, partFile, member, mode, raising, at, starts>>
  BY DEF Target!Check, Target!files
<1>2. CASE Target!EndEntry(p, FALSE) /\ output[entry[p]] = "good"
  BY <1>1, <1>2, EndKeeps, TargetTypes
<1>3. CASE Target!EndEntry(p, TRUE)
  BY <1>1, <1>3, EndKeeps, TargetTypes
<1>4. CASE /\ output[entry[p]] # "good" /\ ~Target!Refuses(p)
           /\ pc' = [pc EXCEPT ![p] = "download"] /\ UNCHANGED <<entry, tried, failed, exit>>
  <2>1. pc'[p] = "download"
       /\ pc' \in [Invocations -> {"idle", "check", "download", "open", "write", "replace", "unlink"}]
    BY <1>4, TargetTypes
  <2>2. output[entry[p]] = "old" => mode[p] = "force"
    BY <1>4, TargetTypes DEF Target!Refuses
  <2>3. Target!TypeOK'
    BY <1>1, <1>4, <2>1, TargetTypes DEF Target!TypeOK, Target!Entries
  <2>4. Fetching(p)'
    BY <1>1, <1>4, <2>1, <2>2 DEF Fetching
  <2>5. Behind(p)'
    BY <1>1, <1>4, <2>1, TargetTypes DEF Behind
  <2> QED
    BY <1>1, <2>3, <2>4, <2>5, AloneSuffices DEF TargetInv, Target!OutputsArePinned
<1> QED
  BY <1>1, <1>2, <1>3, <1>4 DEF Target!Check, Target!Goto
\* An archive goes on to be written only when its bytes are the pinned ones.
LEMMA VerifyKeeps ==
  ASSUME TargetInv, Alone, NEW p \in Invocations, Target!Verify(p)
  PROVE  TargetInv'
<1>1. /\ pc[p] = "check" /\ UNCHANGED <<output, partFile, member, mode, raising, at, starts>>
      /\ Target!EndEntry(p, output[entry[p]] # "good")
  BY DEF Target!Verify, Target!files
<1>2. (output[entry[p]] # "good") \in BOOLEAN
  OBVIOUS
<1> QED
  BY <1>1, <1>2, EndKeeps, TargetTypes

\* A source that fails or delivers other bytes leads to the next source, or to
\* a failed entry.
LEMMA DownloadKeeps ==
  ASSUME TargetInv, Alone, NEW p \in Invocations, Target!Download(p)
  PROVE  TargetInv'
<1>1. pc[p] = "download" /\ UNCHANGED <<output, partFile, mode, raising, at, starts>>
  BY DEF Target!Download, Target!files
<1>2. CASE Target!EndEntry(p, TRUE) /\ UNCHANGED member
  BY <1>1, <1>2, EndKeeps, TargetTypes
<1>3. ASSUME member' = [member EXCEPT ![p] = "good"], pc' = [pc EXCEPT ![p] = "open"],
             UNCHANGED <<tried, entry, failed, exit>>
      PROVE  TargetInv'
  <2>1. /\ pc'[p] = "open" /\ member'[p] = "good"
        /\ pc' \in [Invocations -> {"idle", "check", "download", "open", "write", "replace", "unlink"}]
        /\ member' \in [Invocations -> Target!Members \cup {None}]
    BY <1>3, TargetTypes DEF Target!Members
  <2>2. Target!TypeOK'
    BY <1>1, <1>3, <2>1, TargetTypes DEF Target!TypeOK, Target!Entries
  <2>3. Fetching(p)' /\ Behind(p)'
    BY <1>1, <1>3, <2>1, TargetTypes DEF Fetching, Behind
  <2> QED
    BY <1>1, <2>2, <2>3, AloneSuffices DEF TargetInv, Target!OutputsArePinned
<1>4. ASSUME tried[p] < Sources, tried' = [tried EXCEPT ![p] = @ + 1],
             UNCHANGED <<member, pc, entry, failed, exit>>
      PROVE  TargetInv'
  <2>1. tried' \in [Invocations -> 0..Sources]
    BY <1>4, TargetTypes
  <2>2. Target!TypeOK'
    BY <1>1, <1>4, <2>1, TargetTypes DEF Target!TypeOK, Target!Entries
  <2>3. Fetching(p)' /\ Behind(p)'
    BY <1>1, <1>4, TargetTypes DEF Fetching, Behind
  <2> QED
    BY <1>1, <2>2, <2>3, AloneSuffices DEF TargetInv, Target!OutputsArePinned
<1> QED
  BY <1>2, <1>3, <1>4 DEF Target!Download, Target!Pinned, Target!Goto

\* Opening the .part file touches no output.
LEMMA OpenKeeps ==
  ASSUME TargetInv, Alone, NEW p \in Invocations, Target!Open(p)
  PROVE  TargetInv'
<1>1. pc[p] = "open" /\ UNCHANGED <<output, entry, tried, member, failed, mode, exit, starts>>
  BY DEF Target!Open
<1>2. CASE /\ partFile' = [partFile EXCEPT ![entry[p]] = "torn"] /\ at' = [at EXCEPT ![p] = "part"]
           /\ pc' = [pc EXCEPT ![p] = "write"] /\ UNCHANGED raising
  <2>1. /\ pc'[p] = "write" /\ at'[p] = "part"
        /\ pc' \in [Invocations -> {"idle", "check", "download", "open", "write", "replace", "unlink"}]
        /\ at' \in [Invocations -> {"part", "output", "gone"}]
    BY <1>2, TargetTypes
  <2>2. partFile' \in [1..Last -> Target!Contents \cup {None}]
    BY <1>2, TargetTypes DEF Target!Contents
  <2>3. Target!TypeOK'
    BY <1>1, <1>2, <2>1, <2>2, TargetTypes DEF Target!TypeOK, Target!Entries
  <2>4. Fetching(p)' /\ Behind(p)'
    BY <1>1, <2>1, TargetTypes DEF Fetching, Behind
  <2> QED
    BY <1>1, <2>3, <2>4, AloneSuffices DEF TargetInv, Target!OutputsArePinned
<1>3. CASE /\ pc' = [pc EXCEPT ![p] = "unlink"] /\ raising' = [raising EXCEPT ![p] = TRUE]
           /\ UNCHANGED <<partFile, at>>
  <2>1. /\ pc'[p] = "unlink" /\ raising'[p] = TRUE
        /\ pc' \in [Invocations -> {"idle", "check", "download", "open", "write", "replace", "unlink"}]
        /\ raising' \in [Invocations -> BOOLEAN]
    BY <1>3, TargetTypes
  <2>2. Target!TypeOK'
    BY <1>1, <1>3, <2>1, TargetTypes DEF Target!TypeOK, Target!Entries
  <2>3. Fetching(p)' /\ Behind(p)'
    BY <1>1, <2>1, TargetTypes DEF Fetching, Behind
  <2> QED
    BY <1>1, <2>2, <2>3, AloneSuffices DEF TargetInv, Target!OutputsArePinned
<1> QED
  BY <1>2, <1>3 DEF Target!Open, Target!Goto

\* The .part file holds the pinned bytes once it is written, and part of them
\* when the write fails.
LEMMA WriteKeeps ==
  ASSUME TargetInv, Alone, NEW p \in Invocations, Target!Write(p)
  PROVE  TargetInv'
<1>1. pc[p] = "write" /\ UNCHANGED <<entry, tried, member, failed, mode, exit, at, starts>>
  BY DEF Target!Write
<1>2. at[p] = "part" /\ member[p] = "good"
  BY <1>1, TargetTypes DEF Fetching
<1>3. CASE /\ pc' = [pc EXCEPT ![p] = "replace"] /\ UNCHANGED <<raising, output>>
           /\ partFile' = [partFile EXCEPT ![entry[p]] = "good"]
  <2>1. /\ pc'[p] = "replace"
        /\ pc' \in [Invocations -> {"idle", "check", "download", "open", "write", "replace", "unlink"}]
    BY <1>3, TargetTypes
  <2>2. partFile' \in [1..Last -> Target!Contents \cup {None}] /\ partFile'[entry[p]] = "good"
    BY <1>3, TargetTypes DEF Target!Contents, Target!Members
  <2>3. Target!TypeOK'
    BY <1>1, <1>3, <2>1, <2>2, TargetTypes DEF Target!TypeOK, Target!Entries
  <2>4. Fetching(p)' /\ Behind(p)'
    BY <1>1, <1>2, <1>3, <2>1, <2>2, TargetTypes DEF Fetching, Behind
  <2> QED
    BY <1>3, <2>3, <2>4, AloneSuffices DEF TargetInv, Target!OutputsArePinned
<1>4. CASE /\ pc' = [pc EXCEPT ![p] = "unlink"] /\ raising' = [raising EXCEPT ![p] = TRUE]
           /\ UNCHANGED <<output, partFile>>
  <2>1. /\ pc'[p] = "unlink" /\ raising'[p] = TRUE
        /\ pc' \in [Invocations -> {"idle", "check", "download", "open", "write", "replace", "unlink"}]
        /\ raising' \in [Invocations -> BOOLEAN]
    BY <1>4, TargetTypes
  <2>2. Target!TypeOK'
    BY <1>1, <1>4, <2>1, TargetTypes DEF Target!TypeOK, Target!Entries
  <2>3. Fetching(p)' /\ Behind(p)'
    BY <1>1, <1>4, <2>1, TargetTypes DEF Fetching, Behind
  <2> QED
    BY <1>4, <2>2, <2>3, AloneSuffices DEF TargetInv, Target!OutputsArePinned
<1> QED
  BY <1>2, <1>3, <1>4 DEF Target!Write, Target!Goto, Target!files

\* What is moved over an output is the finished .part file with the pinned
\* bytes.
LEMMA ReplaceKeeps ==
  ASSUME TargetInv, Alone, NEW p \in Invocations, Target!Replace(p)
  PROVE  TargetInv'
<1>1. /\ pc[p] = "replace" /\ pc' = [pc EXCEPT ![p] = "unlink"]
      /\ UNCHANGED <<entry, tried, member, failed, mode, exit, starts>>
  BY DEF Target!Replace, Target!Goto
<1>2. partFile[entry[p]] = "good"
  BY <1>1, TargetTypes DEF Fetching
<1>3. /\ output' = [output EXCEPT ![entry[p]] = "good"] /\ UNCHANGED raising
      /\ partFile' = [partFile EXCEPT ![entry[p]] = None]
      /\ at' = Target!Renamed(entry[p])
  BY <1>2, TargetTypes DEF Target!Replace
<1>4. at' \in [Invocations -> {"part", "output", "gone"}]
  BY <1>3, TargetTypes DEF Target!Renamed
<1>5. /\ pc'[p] = "unlink"
      /\ pc' \in [Invocations -> {"idle", "check", "download", "open", "write", "replace", "unlink"}]
  BY <1>1, TargetTypes
<1>6. /\ output' \in [1..Last -> Target!Contents \cup {None}] /\ output'[entry[p]] = "good"
      /\ partFile' \in [1..Last -> Target!Contents \cup {None}]
      /\ \A e \in 1..Last : output'[e] = output[e] \/ output'[e] = "good"
  BY <1>3, TargetTypes DEF Target!Contents, Target!Members
<1>7. Target!TypeOK'
  BY <1>1, <1>3, <1>4, <1>5, <1>6, TargetTypes DEF Target!TypeOK, Target!Entries
<1>8. Fetching(p)' /\ Behind(p)'
  BY <1>1, <1>5, <1>6, TargetTypes DEF Fetching, Behind
<1>9. Target!OutputsArePinned'
  BY <1>6, TargetTypes DEF Target!OutputsArePinned, Target!Entries
<1> QED
  BY <1>7, <1>8, <1>9, AloneSuffices

\* Cleaning up removes the .part file only.
LEMMA UnlinkKeeps ==
  ASSUME TargetInv, Alone, NEW p \in Invocations, Target!Unlink(p)
  PROVE  TargetInv'
<1>1. /\ pc[p] = "unlink" /\ partFile' = [partFile EXCEPT ![entry[p]] = None]
      /\ UNCHANGED <<output, member, mode, raising, starts>>
  BY DEF Target!Unlink
<1>2. partFile' \in [1..Last -> Target!Contents \cup {None}]
  BY <1>1, TargetTypes
<1>3. at' \in [Invocations -> {"part", "output", "gone"}]
  BY TargetTypes DEF Target!Unlink
<1>4. CASE raising[p]
  <2>1. /\ pc' = [pc EXCEPT ![p] = "idle"] /\ exit' = [exit EXCEPT ![p] = "raised"]
        /\ UNCHANGED <<entry, tried, failed>>
    BY <1>4 DEF Target!Unlink, Target!Goto
  <2>2. /\ pc'[p] = "idle" /\ exit'[p] = "raised"
        /\ pc' \in [Invocations -> {"idle", "check", "download", "open", "write", "replace", "unlink"}]
        /\ exit' \in [Invocations -> {"none", "success", "failure", "raised", "killed"}]
    BY <2>1, TargetTypes
  <2>3. Target!TypeOK'
    BY <1>1, <1>2, <1>3, <2>1, <2>2, TargetTypes DEF Target!TypeOK, Target!Entries
  <2>4. Fetching(p)' /\ Behind(p)'
    BY <2>2 DEF Fetching, Behind
  <2> QED
    BY <1>1, <2>3, <2>4, AloneSuffices DEF TargetInv, Target!OutputsArePinned
<1>5. CASE ~raising[p]
  <2>1. Target!EndEntry(p, FALSE)
    BY <1>5 DEF Target!Unlink
  <2>2. output[entry[p]] = "good"
    BY <1>1, <1>5, TargetTypes DEF Fetching
  <2> QED
    BY <1>1, <1>2, <1>3, <2>1, <2>2, EndKeeps
<1> QED
  BY <1>4, <1>5

\* A kill between any two file operations leaves every output pinned or as it
\* was.
LEMMA KillKeeps ==
  ASSUME TargetInv, Alone, NEW p \in Invocations, Target!Kill(p)
  PROVE  TargetInv'
<1>1. /\ pc' = [pc EXCEPT ![p] = "idle"] /\ exit' = [exit EXCEPT ![p] = "killed"]
      /\ UNCHANGED <<output, partFile, entry, tried, member, failed, mode, raising, at, starts>>
  BY DEF Target!Kill, Target!Goto, Target!files
<1>2. /\ pc'[p] = "idle" /\ exit'[p] = "killed"
      /\ pc' \in [Invocations -> {"idle", "check", "download", "open", "write", "replace", "unlink"}]
      /\ exit' \in [Invocations -> {"none", "success", "failure", "raised", "killed"}]
  BY <1>1, TargetTypes
<1>3. Target!TypeOK'
  BY <1>1, <1>2, TargetTypes DEF Target!TypeOK, Target!Entries
<1>4. Fetching(p)' /\ Behind(p)'
  BY <1>2 DEF Fetching, Behind
<1> QED
  BY <1>1, <1>3, <1>4, AloneSuffices DEF TargetInv, Target!OutputsArePinned

\* Every step of the fetch tool keeps the invariant.
LEMMA TargetStepKeeps ==
  ASSUME TargetInv, Alone, Target!Next
  PROVE  TargetInv'
BY StartKeeps, CheckKeeps, VerifyKeeps, DownloadKeeps, OpenKeeps, WriteKeeps, ReplaceKeeps,
   UnlinkKeeps, KillKeeps DEF Target!Next, Target!Works
\* Only the move over an output changes it, and only one that was to be changed.
LEMMA TargetKeepsFiles ==
  ASSUME TargetInv, Alone, Target!Next, NEW e \in 1..Last, output'[e] # output[e]
  PROVE  /\ output[e] # "good"
         /\ output[e] = "old" => \E p \in Invocations : pc[p] = "replace" /\ mode[p] = "force"
<1>1. PICK p \in Invocations : Target!Start(p) \/ Target!Works(p) \/ Target!Kill(p)
  BY DEF Target!Next
<1>2. Target!Write(p) \/ Target!Replace(p)
  BY <1>1 DEF Target!Works, Target!Start, Target!Kill, Target!Check, Target!Verify, Target!Download,
     Target!Open, Target!Unlink, Target!files
<1>3. ~Target!Write(p)
  <2> SUFFICES ASSUME Target!Write(p) PROVE FALSE
    OBVIOUS
  <2>1. at[p] = "part"
    BY TargetTypes DEF Fetching, Target!Write
  <2> QED
    BY <2>1 DEF Target!Write, Target!files
<1>4. pc[p] = "replace" /\ (UNCHANGED output \/ output' = [output EXCEPT ![entry[p]] = partFile[entry[p]]])
  BY <1>2, <1>3 DEF Target!Replace, Target!files
<1>5. e = entry[p]
  BY <1>4, TargetTypes
<1> QED
  BY <1>4, <1>5, TargetTypes DEF Fetching

-----------------------------------------------------------------------------
(* A fixture observation.                                                   *)

\* The two sources, and the one at hand.
LEMMA SourcesInOrder ==
  /\ DOMAIN Fixture!HarnessSources = {1, 2}
  /\ Fixture!Names = {Fixture!HarnessSources[1], Fixture!HarnessSources[2]}
<1> DEFINE h == Fixture!HarnessSources
<1>1. h = <<"run_t3_multi_planet_fixture.py", "run_re5_runtime_turn_path.py">>
  BY DEF Fixture!HarnessSources
<1>2. DOMAIN h = {1, 2}
  BY <1>1
<1>3. Fixture!Names = {h[i] : i \in DOMAIN h}
  BY DEF Fixture!Names, Fixture!ToSet
<1> QED
  BY <1>2, <1>3

\* The source at hand is one that has no digest yet.
LEMMA CurrentIsPending ==
  ASSUME NEW m \in Fixture!Names, hashes[m] = None
  PROVE  Fixture!Current \in Fixture!Names /\ hashes[Fixture!Current] = None
<1>1. Fixture!Pending \subseteq {1, 2} /\ Fixture!Pending # {}
  BY SourcesInOrder DEF Fixture!Pending
<1>2. \E i \in Fixture!Pending : \A j \in Fixture!Pending : i <= j
  <2>1. CASE 1 \in Fixture!Pending
    BY <1>1, <2>1
  <2>2. CASE 1 \notin Fixture!Pending
    <3>1. Fixture!Pending = {2}
      BY <1>1, <2>2
    <3> QED
      BY <3>1
  <2> QED
    BY <2>1, <2>2
<1>3. PICK i \in Fixture!Pending : Fixture!Current = Fixture!HarnessSources[i]
  BY <1>2 DEF Fixture!Current
<1> QED
  BY <1>1, <1>3, SourcesInOrder DEF Fixture!Pending

\* What is at hand depends on the digests alone.
LEMMA CurrentStays ==
  ASSUME UNCHANGED hashes
  PROVE  Fixture!Current' = Fixture!Current
BY DEF Fixture!Current, Fixture!Pending

\* Before a harness is started no artifact speaks of anything.
LEMMA FixtureInit ==
  Fixture!Init => FixtureInv
<1> SUFFICES ASSUME Fixture!Init PROVE FixtureInv
  OBVIOUS
<1>1. Fixture!TypeOK
  BY ConstantsFit DEF Fixture!Init, Fixture!TypeOK, Fixture!Fresh, Fixture!VersionsAssumption
<1>2. Wanting /\ Preserving
  BY SourcesInOrder DEF Fixture!Init, Fixture!Fresh, Wanting, Preserving
<1>3. None \notin Fixture!Results
  BY ConstantsFit DEF Fixture!VersionsAssumption
<1> QED
  BY <1>1, <1>2, <1>3 DEF FixtureInv, Speaks, Fixture!Init, Fixture!Fresh
\* What a document of the harness is: a failure is no result, and a passing one
\* has the three fields.
LEMMA Documents ==
  /\ Fixture!Failure \notin Fixture!Results
  /\ None \notin Fixture!Results
  /\ Wanted \in Versions /\ None \notin Versions /\ MaxEdits \in Nat
<1>1. \A d \in Fixture!Results : d.status = "passed"
  BY DEF Fixture!Results
<1>2. Fixture!Failure.status = "failed"
  BY DEF Fixture!Failure
<1> QED
  BY <1>1, <1>2, ConstantsFit DEF Fixture!VersionsAssumption

\* A run that fails leaves the snapshots, and so every published document, alone.
LEMMA FailureKeeps ==
  ASSUME FixtureInv, Fixture!Fail, UNCHANGED <<candidate, source, edits, snapshot, artifact>>,
         partial' \in [Fixture!Names -> Versions \cup {None, Torn}]
  PROVE  FixtureInv'
<1>1. pc' = "publish" /\ document' = Fixture!Failure /\ UNCHANGED <<bytes, resume, hashes, data>>
  BY DEF Fixture!Fail
<1>2. Fixture!TypeOK'
  BY <1>1 DEF FixtureInv, Fixture!TypeOK
<1>3. Wanting'
  BY <1>1 DEF Wanting
<1>4. Preserving'
  BY <1>1 DEF FixtureInv, Preserving
<1>5. Speaks(document)'
  BY <1>1, Documents DEF Speaks
<1>6. Speaks(artifact)'
  BY DEF FixtureInv, Speaks
<1> QED
  BY <1>2, <1>3, <1>4, <1>5, <1>6 DEF FixtureInv

\* A run that ends, or is killed, forgets what it held.
LEMMA RunEndsKeeps ==
  ASSUME FixtureInv, pc' = "idle", artifact' \in {artifact, document},
         bytes' = None, resume' = None, hashes' = [n \in Fixture!Names |-> None],
         data' = None, document' = None, UNCHANGED <<candidate, source, edits, snapshot, partial>>
  PROVE  FixtureInv'
<1>1. Fixture!TypeOK'
  <2>1. artifact' \in Fixture!Results \cup {Fixture!Failure, None}
    BY DEF FixtureInv, Fixture!TypeOK
  <2>2. hashes' \in [Fixture!Names -> Versions \cup {None}]
    OBVIOUS
  <2>3. None \in Versions \cup {None} /\ None \in Fixture!Results \cup {Fixture!Failure, None}
    OBVIOUS
  <2> QED
    BY <2>1, <2>2, <2>3 DEF FixtureInv, Fixture!TypeOK
<1>2. Wanting' /\ Preserving'
  BY SourcesInOrder DEF Wanting, Preserving
<1>3. Speaks(document)'
  BY Documents DEF Speaks
<1>4. Speaks(artifact)'
  BY DEF FixtureInv, Speaks
<1> QED
  BY <1>1, <1>2, <1>3, <1>4 DEF FixtureInv

\* Taking the digest of the source at hand, when its snapshot has just these bytes.
LEMMA DigestKeeps ==
  ASSUME FixtureInv, pc \in {"preserve", "write", "replace"}, NEW v \in Versions,
         hashes' = [hashes EXCEPT ![Fixture!Current] = v], pc' = Fixture!AfterLast(hashes'),
         snapshot' = [snapshot EXCEPT ![Fixture!Current] = v],
         snapshot[Fixture!Current] \in {v, None},
         partial' \in [Fixture!Names -> Versions \cup {None, Torn}],
         UNCHANGED <<candidate, source, edits, artifact, bytes, resume, data, document>>
  PROVE  FixtureInv'
<1>1. Fixture!Current \in Fixture!Names
  BY CurrentIsPending DEF FixtureInv, Preserving
<1>2. /\ hashes \in [Fixture!Names -> Versions \cup {None}]
      /\ snapshot \in [Fixture!Names -> Versions \cup {None}]
  BY DEF FixtureInv, Fixture!TypeOK
<1>3. pc' \in {"preserve", "result"}
      /\ (pc' = "preserve" => \E n \in Fixture!Names : hashes'[n] = None)
      /\ (pc' = "result" => \A n \in Fixture!Names : hashes'[n] # None)
  BY DEF Fixture!AfterLast
<1>4. Fixture!TypeOK'
  <2>1. /\ hashes' \in [Fixture!Names -> Versions \cup {None}]
        /\ snapshot' \in [Fixture!Names -> Versions \cup {None}]
    BY <1>1, <1>2
  <2> QED
    BY <1>3, <2>1 DEF FixtureInv, Fixture!TypeOK
<1>5. Wanting'
  BY <1>3 DEF FixtureInv, Wanting
<1>6. \A n \in Fixture!Names : hashes'[n] # None => snapshot'[n] = hashes'[n]
  BY <1>1, <1>2 DEF FixtureInv, Preserving
<1>7. Preserving'
  BY <1>3, <1>6 DEF Preserving
\* A passing document has every snapshot: then this one was there, and stays.
<1>8. \A d : Speaks(d) => (d \in Fixture!Results => d.loaded = Wanted /\ d.sha256 = snapshot'
                                                      /\ \A n \in Fixture!Names : snapshot'[n] # None)
  <2> SUFFICES ASSUME NEW d, Speaks(d), d \in Fixture!Results
               PROVE  d.loaded = Wanted /\ d.sha256 = snapshot'
                      /\ \A n \in Fixture!Names : snapshot'[n] # None
    OBVIOUS
  <2>1. d.loaded = Wanted /\ d.sha256 = snapshot /\ \A n \in Fixture!Names : snapshot[n] # None
    BY DEF Speaks
  <2>2. snapshot[Fixture!Current] = v
    BY <1>1, <2>1
  <2>3. snapshot' = snapshot
    BY <1>1, <1>2, <2>2
  <2> QED
    BY <2>1, <2>3
<1>9. Speaks(document)' /\ Speaks(artifact)'
  BY <1>8 DEF FixtureInv, Speaks
<1> QED
  BY <1>4, <1>5, <1>7, <1>9 DEF FixtureInv
\* Every step of the harness, of the maintainer who edits sources and saves,
\* and every kill keeps the invariant.
LEMMA FixtureStepKeeps ==
  ASSUME FixtureInv, Fixture!Next
  PROVE  FixtureInv'
<1> USE DEF Fixture!input, Fixture!files, Fixture!local
<1>1. Fixture!TypeOK /\ Wanting /\ Preserving /\ Speaks(document) /\ Speaks(artifact)
  BY DEF FixtureInv
<1>2. partial \in [Fixture!Names -> Versions \cup {None, Torn}]
  BY <1>1 DEF Fixture!TypeOK
<1>3. CASE Fixture!Begin
  <2>1. CASE Fixture!Fail
    BY <1>2, <1>3, <2>1, FailureKeeps DEF Fixture!Begin
  <2>2. CASE ~Fixture!Fail
    <3>1. /\ pc = "idle" /\ pc' = "launch" /\ bytes' = Wanted
          /\ UNCHANGED <<candidate, source, edits, snapshot, partial, artifact, resume, hashes, data, document>>
      BY <1>3, <2>2 DEF Fixture!Begin
    <3>2. Fixture!TypeOK' /\ Wanting'
      BY <1>1, <3>1, Documents DEF Fixture!TypeOK, Wanting
    <3>3. Preserving' /\ Speaks(document)' /\ Speaks(artifact)'
      BY <1>1, <3>1 DEF Preserving, Speaks
    <3> QED
      BY <3>2, <3>3 DEF FixtureInv
  <2> QED
    BY <2>1, <2>2
<1>4. CASE Fixture!Launch
  <2>1. CASE Fixture!Fail
    BY <1>2, <1>4, <2>1, FailureKeeps DEF Fixture!Launch
  <2>2. CASE ~Fixture!Fail
    <3>1. /\ pc = "launch" /\ pc' = "load" /\ resume' = bytes
          /\ UNCHANGED <<candidate, source, edits, snapshot, partial, artifact, bytes, hashes, data, document>>
      BY <1>4, <2>2 DEF Fixture!Launch
    <3>2. Fixture!TypeOK' /\ Wanting'
      BY <1>1, <3>1, Documents DEF Fixture!TypeOK, Wanting
    <3>3. Preserving' /\ Speaks(document)' /\ Speaks(artifact)'
      BY <1>1, <3>1 DEF Preserving, Speaks
    <3> QED
      BY <3>2, <3>3 DEF FixtureInv
  <2> QED
    BY <2>1, <2>2
<1>5. CASE Fixture!Load
  <2>1. CASE Fixture!Fail
    BY <1>2, <1>5, <2>1, FailureKeeps DEF Fixture!Load
  <2>2. CASE ~Fixture!Fail
    <3>1. /\ pc = "load" /\ pc' = "recheck"
          /\ UNCHANGED <<candidate, source, edits, snapshot, partial, artifact, bytes, resume, hashes, data, document>>
      BY <1>5, <2>2 DEF Fixture!Load
    <3>2. Fixture!TypeOK' /\ Wanting' /\ Preserving' /\ Speaks(document)' /\ Speaks(artifact)'
      BY <1>1, <3>1 DEF Fixture!TypeOK, Wanting, Preserving, Speaks
    <3> QED
      BY <3>2 DEF FixtureInv
  <2> QED
    BY <2>1, <2>2
<1>6. CASE Fixture!RecheckCandidate
  <2>1. CASE Fixture!Fail
    BY <1>2, <1>6, <2>1, FailureKeeps DEF Fixture!RecheckCandidate
  <2>2. CASE ~Fixture!Fail
    <3>1. /\ pc = "recheck" /\ pc' = "preserve"
          /\ UNCHANGED <<candidate, source, edits, snapshot, partial, artifact, bytes, resume, hashes, data, document>>
      BY <1>6, <2>2 DEF Fixture!RecheckCandidate
    <3>2. Fixture!TypeOK' /\ Wanting' /\ Preserving' /\ Speaks(document)' /\ Speaks(artifact)'
      BY <1>1, <3>1 DEF Fixture!TypeOK, Wanting, Preserving, Speaks
    <3> QED
      BY <3>2 DEF FixtureInv
  <2> QED
    BY <2>1, <2>2
<1>7. CASE Fixture!Result
  <2>1. CASE Fixture!Fail
    BY <1>2, <1>7, <2>1, FailureKeeps DEF Fixture!Result
  <2>2. CASE ~Fixture!Fail
    <3>1. /\ pc = "result" /\ pc' = "publish"
          /\ document' = [status |-> "passed", loaded |-> resume, sha256 |-> hashes]
          /\ UNCHANGED <<candidate, source, edits, snapshot, partial, artifact, bytes, resume, hashes, data>>
      BY <1>7, <2>2 DEF Fixture!Result
    <3>2. resume = Wanted /\ \A n \in Fixture!Names : hashes[n] # None
      BY <1>1, <3>1 DEF Wanting, Preserving
    <3>3. hashes = snapshot
      BY <1>1, <3>2 DEF Preserving, Fixture!TypeOK
    <3>4. document' \in Fixture!Results
      BY <1>1, <3>1, <3>2, Documents DEF Fixture!TypeOK, Fixture!Results
    <3>5. Fixture!TypeOK'
      BY <1>1, <3>1, <3>4 DEF Fixture!TypeOK
    <3>6. Wanting' /\ Preserving' /\ Speaks(artifact)'
      BY <1>1, <3>1 DEF Wanting, Preserving, Speaks
    <3>7. Speaks(document)'
      BY <3>1, <3>2, <3>3 DEF Speaks
    <3> QED
      BY <3>5, <3>6, <3>7 DEF FixtureInv
  <2> QED
    BY <2>1, <2>2
<1>8. CASE Fixture!Publish \/ Fixture!Crash
  <2>1. /\ pc' = "idle" /\ artifact' \in {artifact, document}
        /\ bytes' = None /\ resume' = None /\ hashes' = [n \in Fixture!Names |-> None]
        /\ data' = None /\ document' = None /\ UNCHANGED <<candidate, source, edits, snapshot, partial>>
    BY <1>8 DEF Fixture!Publish, Fixture!Crash
  <2> QED
    BY <2>1, RunEndsKeeps
<1>9. CASE Fixture!Edit
  <2>1. UNCHANGED <<snapshot, partial, artifact, pc, bytes, resume, hashes, data, document>>
    BY <1>9 DEF Fixture!Edit
  <2>2. candidate' \in Versions /\ source' \in [Fixture!Names -> Versions]
    BY <1>1, <1>9 DEF Fixture!Edit, Fixture!TypeOK
  <2>3. edits' \in 0..MaxEdits
    BY <1>1, <1>9, Documents DEF Fixture!Edit, Fixture!TypeOK
  <2>4. Fixture!TypeOK'
    BY <1>1, <2>1, <2>2, <2>3 DEF Fixture!TypeOK
  <2>5. Wanting' /\ Speaks(document)' /\ Speaks(artifact)'
    BY <1>1, <2>1 DEF Wanting, Speaks
  <2>6. Preserving'
    BY <1>1, <2>1, CurrentStays DEF Preserving
  <2> QED
    BY <2>4, <2>5, <2>6 DEF FixtureInv
<1>10. CASE Fixture!Preserve
  <2> DEFINE c == Fixture!Current
  <2>1. c \in Fixture!Names /\ hashes[c] = None
    BY <1>1, <1>10, CurrentIsPending DEF Preserving, Fixture!Preserve
  <2>2. source[c] \in Versions
    BY <1>1, <2>1 DEF Fixture!TypeOK
  <2>3. CASE snapshot[c] = None
    <3>1. /\ pc' = "write" /\ data' = source[c] /\ pc = "preserve"
          /\ UNCHANGED <<candidate, source, edits, snapshot, partial, artifact, bytes, resume, hashes, document>>
      BY <1>10, <2>3 DEF Fixture!Preserve
    <3>2. Fixture!TypeOK' /\ Wanting' /\ Speaks(document)' /\ Speaks(artifact)'
      BY <1>1, <2>2, <3>1 DEF Fixture!TypeOK, Wanting, Speaks
    <3>3. Preserving'
      BY <1>1, <2>1, <2>2, <2>3, <3>1, CurrentStays DEF Preserving
    <3> QED
      BY <3>2, <3>3 DEF FixtureInv
  <2>4. CASE snapshot[c] # None /\ snapshot[c] = source[c]
    <3>1. /\ hashes' = [hashes EXCEPT ![c] = source[c]] /\ pc' = Fixture!AfterLast(hashes')
          /\ pc = "preserve"
          /\ UNCHANGED <<candidate, source, edits, snapshot, partial, artifact, bytes, resume, data, document>>
      BY <1>10, <2>4 DEF Fixture!Preserve
    <3>2. snapshot' = [snapshot EXCEPT ![c] = source[c]]
      BY <1>1, <2>4, <3>1 DEF Fixture!TypeOK
    <3> QED
      BY <1>2, <2>2, <2>4, <3>1, <3>2, DigestKeeps
  <2>5. CASE snapshot[c] # None /\ snapshot[c] # source[c]
    <3>1. Fixture!Fail /\ UNCHANGED <<candidate, source, edits, snapshot, partial, artifact>>
      BY <1>10, <2>5 DEF Fixture!Preserve
    <3> QED
      BY <1>2, <3>1, FailureKeeps
  <2> QED
    BY <2>3, <2>4, <2>5
<1>11. CASE Fixture!WritePartial
  <2> DEFINE c == Fixture!Current
  <2>1. pc = "write" /\ UNCHANGED <<candidate, source, edits, snapshot, artifact>>
    BY <1>11 DEF Fixture!WritePartial
  <2>2. c \in Fixture!Names /\ data \in Versions
    BY <1>1, <2>1, CurrentIsPending DEF Preserving
  <2>3. \A x \in {Torn, None, data} :
          [partial EXCEPT ![c] = x] \in [Fixture!Names -> Versions \cup {None, Torn}]
    BY <1>2, <2>2
  <2>4. CASE partial' = [partial EXCEPT ![c] = Torn] /\ UNCHANGED <<pc, bytes, resume, hashes, data, document>>
    <3>1. Fixture!TypeOK' /\ Wanting' /\ Speaks(document)' /\ Speaks(artifact)'
      BY <1>1, <2>1, <2>3, <2>4 DEF Fixture!TypeOK, Wanting, Speaks
    <3>2. Preserving'
      BY <1>1, <2>1, <2>4, CurrentStays DEF Preserving
    <3> QED
      BY <3>1, <3>2 DEF FixtureInv
  <2>5. CASE /\ partial' = [partial EXCEPT ![c] = data] /\ pc' = "replace"
             /\ UNCHANGED <<bytes, resume, hashes, data, document>>
    <3>1. Fixture!TypeOK' /\ Wanting' /\ Speaks(document)' /\ Speaks(artifact)'
      BY <1>1, <2>1, <2>3, <2>5 DEF Fixture!TypeOK, Wanting, Speaks
    <3>2. partial'[c] = data
      BY <1>2, <2>2, <2>5
    <3>3. Preserving'
      BY <1>1, <2>1, <2>5, <3>2, CurrentStays DEF Preserving
    <3> QED
      BY <3>1, <3>3 DEF FixtureInv
  <2>6. CASE partial' = [partial EXCEPT ![c] = None] /\ Fixture!Fail
    BY <2>1, <2>3, <2>6, FailureKeeps
  <2> QED
    BY <1>11, <2>4, <2>5, <2>6 DEF Fixture!WritePartial
<1>12. CASE Fixture!ReplacePartial
  <2> DEFINE c == Fixture!Current
  <2>1. pc = "replace" /\ partial' = [partial EXCEPT ![c] = None] /\ UNCHANGED <<candidate, source, edits, artifact>>
    BY <1>12 DEF Fixture!ReplacePartial
  <2>2. data \in Versions /\ snapshot[c] = None /\ partial[c] = data
    BY <1>1, <2>1 DEF Preserving
  <2>3. partial' \in [Fixture!Names -> Versions \cup {None, Torn}]
    BY <1>2, <2>1
  <2>4. CASE Fixture!Fail /\ UNCHANGED snapshot
    BY <2>1, <2>3, <2>4, FailureKeeps
  <2>5. CASE /\ snapshot' = [snapshot EXCEPT ![c] = partial[c]] /\ hashes' = [hashes EXCEPT ![c] = data]
             /\ pc' = Fixture!AfterLast(hashes') /\ UNCHANGED <<bytes, resume, data, document>>
    BY <2>1, <2>2, <2>3, <2>5, DigestKeeps
  <2> QED
    BY <1>12, <2>4, <2>5 DEF Fixture!ReplacePartial
<1> QED
  BY <1>3, <1>4, <1>5, <1>6, <1>7, <1>8, <1>9, <1>10, <1>11, <1>12 DEF Fixture!Next
-----------------------------------------------------------------------------
(* The types of the targets, whoever shares the directory.                  *)

\* Ending an entry, well or not, goes to the next one or to the exit, within
\* the types.
LEMMA EntryTypes ==
  ASSUME Target!TypeOK, NEW p \in Invocations, NEW fails \in BOOLEAN, Target!EndEntry(p, fails)
  PROVE  /\ pc' \in [Invocations -> {"idle", "check", "download", "open", "write", "replace", "unlink"}]
         /\ entry' \in [Invocations -> Target!Entries] /\ tried' \in [Invocations -> 0..Sources]
         /\ failed' \in [Invocations -> BOOLEAN]
         /\ exit' \in [Invocations -> {"none", "success", "failure", "raised", "killed"}]
<1>1. Last \in Nat \ {0} /\ Sources \in Nat \ {0}
  BY ConstantsFit DEF Target!FetchAssumption
<1>2. /\ entry[p] \in 1..Last /\ entry \in [Invocations -> 1..Last]
      /\ failed \in [Invocations -> BOOLEAN] /\ tried \in [Invocations -> 0..Sources]
      /\ pc \in [Invocations -> {"idle", "check", "download", "open", "write", "replace", "unlink"}]
      /\ exit \in [Invocations -> {"none", "success", "failure", "raised", "killed"}]
  BY DEF Target!TypeOK, Target!Entries
<1>3. failed' = [failed EXCEPT ![p] = @ \/ fails] /\ tried' = [tried EXCEPT ![p] = 0]
  BY DEF Target!EndEntry
<1>4. failed' \in [Invocations -> BOOLEAN]
  BY <1>2, <1>3
<1>5. tried' \in [Invocations -> 0..Sources]
  BY <1>1, <1>2, <1>3
<1>6. CASE entry[p] < Last
  <2>1. pc' = [pc EXCEPT ![p] = "check"] /\ entry' = [entry EXCEPT ![p] = @ + 1] /\ UNCHANGED exit
    BY <1>6 DEF Target!EndEntry, Target!Goto
  <2>2. entry[p] + 1 \in 1..Last
    BY <1>1, <1>2, <1>6
  <2>3. entry' \in [Invocations -> 1..Last]
    BY <1>2, <2>1, <2>2
  <2> QED
    BY <1>2, <1>4, <1>5, <2>1, <2>3 DEF Target!Entries
<1>7. CASE ~(entry[p] < Last)
  <2>1. /\ pc' = [pc EXCEPT ![p] = "idle"] /\ UNCHANGED entry
        /\ \E how \in {"failure", "success"} : exit' = [exit EXCEPT ![p] = how]
    BY <1>7 DEF Target!EndEntry, Target!Goto
  <2> QED
    BY <1>2, <1>4, <1>5, <2>1 DEF Target!Entries
<1> QED
  BY <1>6, <1>7

\* Every step of the fetch tool keeps its types, also when two invocations run
\* side by side.
LEMMA TargetTypesKeep ==
  ASSUME Target!TypeOK, Target!Next
  PROVE  Target!TypeOK'
<1> USE DEF Target!Entries, Target!Goto, Target!files
<1>1. PICK p \in Invocations : Target!Start(p) \/ Target!Works(p) \/ Target!Kill(p)
  BY DEF Target!Next
<1>2. Last \in Nat \ {0} /\ Sources \in Nat \ {0} /\ MaxStarts \in Nat
  BY ConstantsFit DEF Target!FetchAssumption
<1> DEFINE Places == {"idle", "check", "download", "open", "write", "replace", "unlink"}
           Ends == {"none", "success", "failure", "raised", "killed"}
           Held == Target!Contents \cup {None}
<1>3. /\ output \in [1..Last -> Held] /\ partFile \in [1..Last -> Held]
      /\ pc \in [Invocations -> Places] /\ entry \in [Invocations -> 1..Last]
      /\ tried \in [Invocations -> 0..Sources]
      /\ member \in [Invocations -> Target!Members \cup {None}]
      /\ mode \in [Invocations -> Target!Modes] /\ exit \in [Invocations -> Ends]
      /\ at \in [Invocations -> {"part", "output", "gone"}] /\ starts \in 0..MaxStarts
  BY DEF Target!TypeOK
<1>4. failed \in [Invocations -> BOOLEAN] /\ raising \in [Invocations -> BOOLEAN]
  BY DEF Target!TypeOK
<1>5. /\ Target!Members \cup {None} \subseteq Held
      /\ "torn" \in Held /\ None \in Held
  BY DEF Target!Contents
<1>6. \A place \in Places : [pc EXCEPT ![p] = place] \in [Invocations -> Places]
  BY <1>3
<1>7. [raising EXCEPT ![p] = TRUE] \in [Invocations -> BOOLEAN]
  BY <1>4
<1> HIDE DEF Held, Places, Ends
<1>8. CASE Target!Start(p)
  <2>1. UNCHANGED <<output, partFile, member, at>> /\ starts' = starts + 1 /\ starts < MaxStarts
    BY <1>8 DEF Target!Start
  <2>2. starts' \in 0..MaxStarts
    BY <1>2, <1>3, <2>1
  <2>3. pc' \in [Invocations -> Places] /\ exit' \in [Invocations -> Ends]
    BY <1>3, <1>8 DEF Target!Start, Places, Ends
  <2>4. entry' \in [Invocations -> 1..Last] /\ tried' \in [Invocations -> 0..Sources]
    BY <1>2, <1>3, <1>8 DEF Target!Start
  <2>5. failed' \in [Invocations -> BOOLEAN]
    BY <1>4, <1>8 DEF Target!Start
  <2>6. raising' \in [Invocations -> BOOLEAN]
    BY <1>4, <1>8 DEF Target!Start
  <2>7. mode' \in [Invocations -> Target!Modes]
    BY <1>3, <1>8 DEF Target!Start
  <2> QED
    BY <1>3, <2>1, <2>2, <2>3, <2>4, <2>5, <2>6, <2>7 DEF Target!TypeOK, Held, Places, Ends
<1>9. CASE Target!Check(p) \/ Target!Verify(p)
  <2>1. UNCHANGED <<output, partFile, member, mode, raising, at, starts>>
    BY <1>9 DEF Target!Check, Target!Verify
  <2>2. CASE \E fails \in BOOLEAN : Target!EndEntry(p, fails)
    BY <1>3, <1>4, <2>1, <2>2, EntryTypes DEF Target!TypeOK, Held
  <2>3. CASE pc' = [pc EXCEPT ![p] = "download"] /\ UNCHANGED <<entry, tried, failed, exit>>
    BY <1>3, <1>4, <1>6, <2>1, <2>3 DEF Target!TypeOK, Held, Places, Ends
  <2> QED
    BY <1>9, <2>2, <2>3 DEF Target!Check, Target!Verify
<1>10. CASE Target!Download(p)
  <2>1. UNCHANGED <<output, partFile, mode, raising, at, starts>>
    BY <1>10 DEF Target!Download
  <2>2. CASE Target!EndEntry(p, TRUE) /\ UNCHANGED member
    BY <1>3, <1>4, <2>1, <2>2, EntryTypes DEF Target!TypeOK, Held
  <2>3. CASE /\ UNCHANGED <<entry, failed, exit>> /\ tried[p] < Sources
             /\ \E m \in Target!Members :
                  \/ member' = [member EXCEPT ![p] = m] /\ pc' = [pc EXCEPT ![p] = "open"]
                     /\ UNCHANGED tried
                  \/ tried' = [tried EXCEPT ![p] = @ + 1] /\ UNCHANGED <<member, pc>>
    <3>1. tried' \in [Invocations -> 0..Sources]
      <4>1. tried[p] + 1 \in 0..Sources
        BY <1>2, <1>3, <2>3
      <4>2. UNCHANGED tried \/ tried' = [tried EXCEPT ![p] = tried[p] + 1]
        BY <2>3
      <4> QED
        BY <1>3, <4>1, <4>2
    <3>2. member' \in [Invocations -> Target!Members \cup {None}]
      BY <1>3, <2>3
    <3>3. pc' \in [Invocations -> Places]
      BY <1>3, <2>3 DEF Places
    <3> QED
      BY <1>3, <1>4, <2>1, <2>3, <3>1, <3>2, <3>3 DEF Target!TypeOK, Held, Places, Ends
  <2> QED
    BY <1>10, <2>2, <2>3 DEF Target!Download
<1>11. CASE Target!Open(p) \/ Target!Write(p) \/ Target!Replace(p)
  <2>1. UNCHANGED <<entry, tried, member, failed, mode, exit, starts>>
    BY <1>11 DEF Target!Open, Target!Write, Target!Replace
  <2>2. pc' \in [Invocations -> Places]
    <3>1. \E place \in {"write", "unlink", "replace"} : pc' = [pc EXCEPT ![p] = place]
      BY <1>11 DEF Target!Open, Target!Write, Target!Replace
    <3> QED
      BY <1>3, <3>1 DEF Places
  <2>3. raising' \in [Invocations -> BOOLEAN]
    <3>1. UNCHANGED raising \/ raising' = [raising EXCEPT ![p] = TRUE]
      BY <1>11 DEF Target!Open, Target!Write, Target!Replace
    <3> QED
      BY <1>4, <1>7, <3>1
  <2>4. at' \in [Invocations -> {"part", "output", "gone"}]
    <3>1. UNCHANGED at \/ at' = [at EXCEPT ![p] = "part"] \/ at' = Target!Renamed(entry[p])
      BY <1>11 DEF Target!Open, Target!Write, Target!Replace
    <3>2. Target!Renamed(entry[p]) \in [Invocations -> {"part", "output", "gone"}]
      BY <1>3 DEF Target!Renamed
    <3> QED
      BY <1>3, <3>1, <3>2
  <2>5. partFile' \in [1..Last -> Held]
    <3>1. \/ UNCHANGED partFile
          \/ \E x \in {"torn", member[p], None} : partFile' = [partFile EXCEPT ![entry[p]] = x]
      BY <1>11 DEF Target!Open, Target!Write, Target!Replace
    <3>2. \A x \in {"torn", member[p], None} : x \in Held
      BY <1>3, <1>5
    <3> QED
      BY <1>3, <3>1, <3>2
  <2>6. output' \in [1..Last -> Held]
    <3>1. \/ UNCHANGED output
          \/ \E x \in {partFile[entry[p]], member[p]} : output' = [output EXCEPT ![entry[p]] = x]
      BY <1>11 DEF Target!Open, Target!Write, Target!Replace
    <3>2. \A x \in {partFile[entry[p]], member[p]} : x \in Held
      BY <1>3, <1>5
    <3> QED
      BY <1>3, <3>1, <3>2
  <2> QED
    BY <1>3, <1>4, <2>1, <2>2, <2>3, <2>4, <2>5, <2>6 DEF Target!TypeOK, Held, Places, Ends
<1>12. CASE Target!Unlink(p)
  <2>1. UNCHANGED <<output, member, mode, raising, starts>>
        /\ partFile' = [partFile EXCEPT ![entry[p]] = None]
    BY <1>12 DEF Target!Unlink
  <2>2. partFile' \in [1..Last -> Held]
    BY <1>3, <1>5, <2>1
  <2>3. at' \in [Invocations -> {"part", "output", "gone"}]
    BY <1>3, <1>12 DEF Target!Unlink
  <2>4. CASE Target!EndEntry(p, FALSE)
    BY <1>3, <1>4, <2>1, <2>2, <2>3, <2>4, EntryTypes DEF Target!TypeOK, Held
  <2>5. CASE /\ pc' = [pc EXCEPT ![p] = "idle"] /\ exit' = [exit EXCEPT ![p] = "raised"]
             /\ UNCHANGED <<entry, tried, failed>>
    <3>1. pc' \in [Invocations -> Places] /\ exit' \in [Invocations -> Ends]
      BY <1>3, <2>5 DEF Places, Ends
    <3> QED
      BY <1>3, <1>4, <2>1, <2>2, <2>3, <2>5, <3>1 DEF Target!TypeOK, Held, Places, Ends
  <2> QED
    BY <1>12, <2>4, <2>5 DEF Target!Unlink
<1>13. CASE Target!Kill(p)
  <2>1. /\ pc' = [pc EXCEPT ![p] = "idle"] /\ exit' = [exit EXCEPT ![p] = "killed"]
        /\ UNCHANGED <<output, partFile, entry, tried, member, failed, mode, raising, at, starts>>
    BY <1>13 DEF Target!Kill
  <2>2. pc' \in [Invocations -> Places] /\ exit' \in [Invocations -> Ends]
    BY <1>3, <2>1 DEF Places, Ends
  <2> QED
    BY <1>3, <1>4, <2>1, <2>2 DEF Target!TypeOK, Held, Places, Ends
<1> QED
  BY <1>1, <1>8, <1>9, <1>10, <1>11, <1>12, <1>13 DEF Target!Works
-----------------------------------------------------------------------------
(* The composition.                                                         *)

\* Whichever tool is in play starts in its invariant.
LEMMA FilesInit ==
  MCInit => EvidenceInv /\ (Alone => FilesInv)
<1>1. TargetInv => Target!TypeOK
  BY DEF TargetInv
<1> QED
  BY <1>1, FixtureInit, TargetInit, DemoInit DEF MCInit, EvidenceInv, FilesInv

\* The parts not in play keep still, and so does all in a stuttering step.
LEMMA StillKeeps ==
  ASSUME UNCHANGED all
  PROVE  /\ FixtureInv => FixtureInv'
         /\ TargetInv => TargetInv'
         /\ Target!TypeOK => Target!TypeOK'
         /\ DemoInv => DemoInv'
<1>1. /\ UNCHANGED <<candidate, source, edits, snapshot, partial, artifact, bytes, resume, hashes>>
      /\ UNCHANGED <<data, document, pc>>
  BY DEF all, onlyFixture
<1>2. /\ UNCHANGED <<output, partFile, entry, tried, member, failed, mode, raising, at, starts>>
      /\ UNCHANGED exit
  BY DEF all, onlyTarget
<1>3. UNCHANGED <<dest, destExists, staging, stagingExists, failures>>
  BY DEF all, onlyDemo
<1>4. FixtureInv => FixtureInv'
  <2>1. Fixture!TypeOK => Fixture!TypeOK'
    BY <1>1 DEF Fixture!TypeOK
  <2>2. Wanting => Wanting'
    BY <1>1 DEF Wanting
  <2>3. Preserving => Preserving'
    BY <1>1, CurrentStays DEF Preserving
  <2>4. (Speaks(document) => Speaks(document)') /\ (Speaks(artifact) => Speaks(artifact)')
    BY <1>1 DEF Speaks
  <2> QED
    BY <2>1, <2>2, <2>3, <2>4 DEF FixtureInv
<1>5. Target!TypeOK => Target!TypeOK'
  BY <1>1, <1>2 DEF Target!TypeOK
<1>6. TargetInv => TargetInv'
  <2>1. Target!OutputsArePinned => Target!OutputsArePinned'
    BY <1>2 DEF Target!OutputsArePinned
  <2>2. ASSUME NEW p \in Invocations
        PROVE  (Fetching(p) => Fetching(p)') /\ (Behind(p) => Behind(p)')
    BY <1>1, <1>2 DEF Fetching, Behind
  <2> QED
    BY <1>5, <2>1, <2>2 DEF TargetInv
<1>7. DemoInv => DemoInv'
  BY <1>1, <1>2, <1>3 DEF DemoInv, Demo!TypeOK, Demo!TreeIsNotMixed
<1> QED
  BY <1>4, <1>5, <1>6, <1>7

\* A step of the tool in play keeps its invariant, and the other two stand
\* still.
LEMMA EvidenceStepKeeps ==
  ASSUME EvidenceInv, [MCNext]_all
  PROVE  EvidenceInv'
<1>1. CASE FixtureStep
  <2>1. part = "fixture" /\ part' = "fixture" /\ Fixture!Next
    BY <1>1 DEF FixtureStep
  <2> QED
    BY <2>1, FixtureStepKeeps DEF EvidenceInv
<1>2. CASE TargetStep
  <2>1. part = "target" /\ part' = "target" /\ Target!Next
    BY <1>2 DEF TargetStep
  <2> QED
    BY <2>1, TargetTypesKeep DEF EvidenceInv
<1>3. CASE DemoStep(Demo!Next)
  <2>1. part = "demo" /\ part' = "demo" /\ Demo!Next
    BY <1>3 DEF DemoStep
  <2> QED
    BY <2>1, DemoStepKeeps DEF EvidenceInv
<1>4. CASE UNCHANGED all
  <2>1. UNCHANGED part
    BY <1>4 DEF all
  <2> QED
    BY <1>4, <2>1, StillKeeps DEF EvidenceInv
<1> QED
  BY <1>1, <1>2, <1>3, <1>4 DEF MCNext

\* The same with the outputs of an invocation that has the directory to itself.
LEMMA FilesStepKeeps ==
  ASSUME Alone, FilesInv, [MCNext]_all
  PROVE  FilesInv'
<1>1. EvidenceInv'
  BY EvidenceStepKeeps DEF FilesInv
<1>2. part' = "target" => TargetInv'
  <2>1. CASE TargetStep
    BY <2>1, TargetStepKeeps DEF FilesInv, TargetStep
  <2>2. CASE FixtureStep
    BY <2>2 DEF FixtureStep
  <2>3. CASE DemoStep(Demo!Next)
    BY <2>3 DEF DemoStep
  <2>4. CASE UNCHANGED all
    <3>1. UNCHANGED part
      BY <2>4 DEF all
    <3> QED
      BY <2>4, <3>1, StillKeeps DEF FilesInv
  <2> QED
    BY <2>1, <2>2, <2>3, <2>4 DEF MCNext
<1> QED
  BY <1>1, <1>2 DEF FilesInv

\* Every file, document and program counter stays within its type, in a fixture
\* observation, in any number of invocations of fetch_free_targets, and in
\* fetch_demo, through failed writes, kills and edits.
THEOREM FilesTypes == MCSpec => []TypeOK
<1>1. MCInit => EvidenceInv
  BY FilesInit
<1>2. EvidenceInv /\ [MCNext]_all => EvidenceInv'
  BY EvidenceStepKeeps
<1>3. EvidenceInv => TypeOK
  BY DEF EvidenceInv, TypeOK, FixtureInv, DemoInv
<1> QED
  BY <1>1, <1>2, <1>3, PTL DEF MCSpec

\* run_t3_multi_planet_fixture.py: the sources beside a passing artifact are the
\* ones it names, and it speaks of the wanted save, through every later run that
\* fails, is killed between two writes, or finds other sources.
THEOREM EvidenceStays == MCSpec => []EvidenceHolds
<1>1. MCInit => EvidenceInv
  BY FilesInit
<1>2. EvidenceInv /\ [MCNext]_all => EvidenceInv'
  BY EvidenceStepKeeps
<1>3. EvidenceInv => EvidenceHolds
  BY DEF EvidenceInv, EvidenceHolds, FixtureInv, Speaks, Fixture!EvidenceStaysWhole,
     Fixture!LoadedTheCandidate
<1> QED
  BY <1>1, <1>2, <1>3, PTL DEF MCSpec

\* fetch_free_targets.py with the directory to itself, and fetch_demo.py: an
\* output has its pinned bytes or those that were there, success is reported for
\* pinned outputs only, and the demo's tree never mixes two versions.
THEOREM Fetched == Alone => (MCSpec => []FetchedIsPinned)
<1> SUFFICES ASSUME Alone PROVE MCSpec => []FetchedIsPinned
  OBVIOUS
<1>1. MCInit => FilesInv
  BY FilesInit
<1>2. FilesInv /\ [MCNext]_all => FilesInv'
  BY FilesStepKeeps
<1>3. FilesInv => FetchedIsPinned
  BY DEF FilesInv, EvidenceInv, FetchedIsPinned, TargetInv, DemoInv, Behind,
     Target!SuccessMeansAll, Target!Entries
<1> QED
  BY <1>1, <1>2, <1>3, PTL DEF MCSpec

\* A run of fetch_demo that has succeeded was the last one.
DemoSucceeded == exit = "success" => dest = Demo!PinnedTree /\ pc = "idle"

\* fetch_demo.py: whatever was killed or failed before, success is reported for
\* the whole pinned tree and nothing else, which stays (verify_tree, main).  This
\* is Recovers without its promise that the success comes.
THEOREM DemoSuccessIsTheTree == MCSpec => [](part = "demo" => DemoSucceeded)
<1> DEFINE Inv == EvidenceInv /\ (part = "demo" => DemoSucceeded)
<1>1. MCInit => Inv
  BY FilesInit DEF MCInit, DemoSucceeded, Demo!Init
<1>2. Inv /\ [MCNext]_all => Inv'
  <2> SUFFICES ASSUME Inv, [MCNext]_all PROVE Inv'
    OBVIOUS
  <2>1. EvidenceInv'
    BY EvidenceStepKeeps
  <2>2. CASE UNCHANGED all
    BY <2>1, <2>2 DEF all, onlyDemo, DemoSucceeded, Demo!PinnedTree
  <2>3. CASE FixtureStep \/ TargetStep
    BY <2>1, <2>3 DEF FixtureStep, TargetStep
  <2>4. CASE DemoStep(Demo!Next)
    <3>1. part = "demo" /\ part' = part /\ Demo!Next /\ DemoInv /\ DemoSucceeded
      BY <2>4 DEF DemoStep, EvidenceInv
    <3>2. exit # "success"
      BY <3>1 DEF DemoSucceeded, Demo!Next, Demo!Works, Demo!Start, Demo!Fetch, Demo!ClearStaging,
         Demo!CopyToStaging, Demo!RemoveOld, Demo!Move, Demo!VerifyTree, Demo!Break
    <3>3. CASE Demo!VerifyTree
      <4>1. /\ exit' = (IF Demo!PinnedTree \subseteq dest THEN "success" ELSE "failure")
            /\ pc' = "idle" /\ dest' = dest
        BY <3>3 DEF Demo!VerifyTree, Demo!Stop, Demo!dirs
      <4>2. Demo!PinnedTree \subseteq dest => dest = Demo!PinnedTree
        <5>1. Files # {}
          BY ConstantsFit DEF Demo!DemoAssumption
        <5>2. dest \subseteq Files \X {"other"} \/ dest \subseteq Demo!PinnedTree
          BY <3>1 DEF DemoInv, Demo!TreeIsNotMixed
        <5>3. ~(Demo!PinnedTree \subseteq Files \X {"other"})
          <6>1. PICK f \in Files : TRUE
            BY <5>1
          <6>2. <<f, "pinned">> \in Demo!PinnedTree
            BY <6>1 DEF Demo!PinnedTree
          <6>3. <<f, "pinned">> \notin Files \X {"other"}
            OBVIOUS
          <6> QED
            BY <6>2, <6>3
        <5> QED
          BY <5>2, <5>3
      <4> QED
        BY <2>1, <3>1, <4>1, <4>2 DEF DemoSucceeded, Demo!PinnedTree
    <3>4. CASE ~Demo!VerifyTree
      <4>1. exit' # "success"
        BY <3>1, <3>2, <3>4 DEF Demo!Next, Demo!Works, Demo!Start, Demo!Fetch, Demo!ClearStaging,
           Demo!CopyToStaging, Demo!RemoveOld, Demo!Move, Demo!Break, Demo!Stop
      <4> QED
        BY <2>1, <4>1 DEF DemoSucceeded
    <3> QED
      BY <3>3, <3>4
  <2> QED
    BY <2>2, <2>3, <2>4 DEF MCNext
<1> QED
  BY <1>1, <1>2, PTL DEF MCSpec

\* fetch_free_targets.py with the directory to itself: a file nobody fetched is
\* replaced only under --force, and a pinned one is never lost.
THEOREM NothingLost == Alone => (MCSpec => KeepsWhatIsThere)
<1> SUFFICES ASSUME Alone PROVE MCSpec => KeepsWhatIsThere
  OBVIOUS
<1>1. MCInit => FilesInv
  BY FilesInit
<1>2. FilesInv /\ [MCNext]_all => FilesInv'
  BY FilesStepKeeps
<1> DEFINE Kept == part = "target" =>
                     \A e \in 1..Last : output'[e] # output[e] =>
                       /\ output[e] # "good"
                       /\ output[e] = "old" =>
                            \E p \in Invocations : pc[p] = "replace" /\ mode[p] = "force"
<1>3. FilesInv /\ [MCNext]_all => [Kept]_all
  <2> SUFFICES ASSUME FilesInv, MCNext, part = "target", NEW e \in 1..Last, output'[e] # output[e]
               PROVE  /\ output[e] # "good"
                      /\ output[e] = "old" =>
                           \E p \in Invocations : pc[p] = "replace" /\ mode[p] = "force"
    OBVIOUS
  <2>1. Target!Next /\ TargetInv
    BY DEF FilesInv, MCNext, FixtureStep, TargetStep, DemoStep
  <2> QED
    BY <2>1, TargetKeepsFiles
<1> QED
  BY <1>1, <1>2, <1>3, PTL DEF MCSpec, KeepsWhatIsThere
=============================================================================
