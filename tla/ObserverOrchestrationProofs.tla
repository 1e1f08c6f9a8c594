---------------------- MODULE ObserverOrchestrationProofs ----------------------
(***************************************************************************)
(* What the rechecks of run_observer buy, for any number of versions and   *)
(* attempts, when no writer puts an earlier content back: a digest taken   *)
(* before the observer's read and found again after it pins what was read. *)
(***************************************************************************)
EXTENDS ObserverOrchestration, TLAPS

BeforeLaunch == {"start", "output", "qualification", "source", "digest source",
                 "digest observer", "manifest", "inputs", "launch"}
SinceLaunch == {"communicate", "reap", "recheck", "bind"}

Types ==
  /\ content \in [Files -> Nat] /\ digest \in [Files -> Nat] /\ used \in [Seen -> Nat]
  /\ raw \in Nat /\ next \in 1..6 /\ pc \in Labels
  /\ pc = "recheck" => next \in 1..5
  /\ record \in Records

\* The order of the reads: no digest and no read is of a later content than the
\* one on disk, and the observer reads after the digest was taken.
InOrder ==
  /\ raw <= content["qualification"]
  /\ \A f \in Files : digest[f] <= content[f]
  /\ \A f \in Seen : used[f] <= content[f]
  /\ \A f \in Seen : used[f] # Nothing => digest[f] <= used[f]
  /\ pc \in BeforeLaunch => \A f \in Seen : used[f] = Nothing

\* The manifest is built from the bytes whose digest is taken.
ManifestIsDerived ==
  /\ pc \in {"digest source", "digest observer", "manifest"} => digest["qualification"] = raw
  /\ pc \in {"inputs", "launch"} \cup SinceLaunch => digest["manifest"] = digest["qualification"]

\* Between the check of record_output and the binding, the record file is the
\* observer's own.
OwnRecord ==
  /\ proc = "running" => pc = "communicate"
  /\ pc \in BeforeLaunch \ {"start", "output"} => record = NoRecord
  /\ pc \in SinceLaunch /\ record # NoRecord =>
       ~Bound(record) /\ record.seen = used /\ \A f \in Seen : used[f] # Nothing
  /\ pc \in {"recheck", "bind"} => record # NoRecord

\* What has been rechecked is what the observer had read.
Rechecked ==
  /\ pc = "recheck" =>
       \A i \in 1..5 : i < next /\ RecheckOrder[i] \in Seen
                        => used[RecheckOrder[i]] = digest[RecheckOrder[i]]
  /\ pc = "bind" => \A f \in Seen : used[f] = digest[f]

IInv == Types /\ InOrder /\ ManifestIsDerived /\ OwnRecord /\ Rechecked /\ ProvenanceIsTruthful

-----------------------------------------------------------------------------
\* The invariant holds before the first file is read.
LEMMA InvInit == Init => IInv
BY DEF Init, IInv, Types, InOrder, ManifestIsDerived, OwnRecord, Rechecked, ProvenanceIsTruthful,
       Bound, NoRecord, Files, Seen, Labels, Records, BeforeLaunch, SinceLaunch, Nothing, Outcomes

\* Taking the digest of a file before the launch keeps the reads in order.
LEMMA DigestInOrder ==
  ASSUME Types, InOrder, pc \in BeforeLaunch, NEW g \in Files, NEW v \in Nat, v <= content[g],
         digest' = [digest EXCEPT ![g] = v], UNCHANGED <<content, used, raw>>
  PROVE  InOrder'
<1>1. \A f \in Seen : used[f] = Nothing
  BY DEF InOrder
<1>2. digest'[g] = v /\ \A f \in Files \ {g} : digest'[f] = digest[f]
  BY DEF Types
<1>3. \A f \in Files : digest'[f] <= content[f]
  BY <1>2 DEF InOrder
<1>4. QED
  BY <1>1, <1>3 DEF InOrder

\* The same when the digest is of what is on disk now.
LEMMA ReadInOrder ==
  ASSUME Types, InOrder, pc \in BeforeLaunch, NEW g \in Files,
         digest' = [digest EXCEPT ![g] = content[g]], UNCHANGED <<content, used, raw>>
  PROVE  InOrder'
<1>1. content[g] \in Nat
  BY DEF Types
<1>2. content[g] <= content[g]
  BY <1>1
<1>3. QED
  BY <1>1, <1>2, DigestInOrder

\* Stated here because the solver does not find it among the facts of a step.
LEMMA LeqTransitive == \A x, y, z \in Nat : x <= y /\ y <= z => x <= z
OBVIOUS

\* The recheck visits five files, those that reach the observer among them.
LEMMA RecheckLength == Len(RecheckOrder) = 5
BY DEF RecheckOrder

\* Every file that reaches the observer is rechecked.
LEMMA RecheckCoversSeen == \A f \in Seen : \E i \in 1..5 : RecheckOrder[i] = f
<1>1. RecheckOrder[3] = "observer" /\ RecheckOrder[4] = "manifest" /\ RecheckOrder[5] = "inputs"
  BY DEF RecheckOrder
<1>2. QED
  BY <1>1 DEF Seen

\* Every step keeps the types and the record the observer's own, whatever a
\* writer puts back.
LEMMA TypesStep == ASSUME Types, OwnRecord, [Next]_vars PROVE Types' /\ OwnRecord'
<1> USE DEF Files, Seen, Labels, BeforeLaunch, SinceLaunch, Nothing, Goto, Fail, process, orchestrator
<1>0. Types /\ OwnRecord
  OBVIOUS
<1>1. CASE SnapshotInputs
  <2>1. Types'
    BY <1>0, <1>1 DEF SnapshotInputs, Types
  <2>4. OwnRecord'
    BY <1>0, <1>1 DEF SnapshotInputs, Types, OwnRecord, Bound
  <2>7. QED
    BY <2>1, <2>4
<1>2. CASE CheckOutput
  <2>1. Types'
    BY <1>0, <1>2 DEF CheckOutput, NoRecord, Types
  <2>4. OwnRecord'
    BY <1>0, <1>2 DEF CheckOutput, NoRecord, Types, OwnRecord, Bound
  <2>7. QED
    BY <2>1, <2>4
<1>3. CASE ReadQualification
  <2>1. Types'
    BY <1>0, <1>3 DEF ReadQualification, Types
  <2>4. OwnRecord'
    BY <1>0, <1>3 DEF ReadQualification, Types, OwnRecord, Bound
  <2>7. QED
    BY <2>1, <2>4
<1>4. CASE BuildManifest
  <2>1. Types'
    BY <1>0, <1>4 DEF BuildManifest, Types
  <2>4. OwnRecord'
    BY <1>0, <1>4 DEF BuildManifest, Types, OwnRecord, Bound
  <2>7. QED
    BY <2>1, <2>4
<1>5. CASE DigestSource
  <2>1. Types'
    BY <1>0, <1>5 DEF DigestSource, Types
  <2>4. OwnRecord'
    BY <1>0, <1>5 DEF DigestSource, Types, OwnRecord, Bound
  <2>7. QED
    BY <2>1, <2>4
<1>6. CASE DigestObserver
  <2>1. Types'
    BY <1>0, <1>6 DEF DigestObserver, Types
  <2>4. OwnRecord'
    BY <1>0, <1>6 DEF DigestObserver, Types, OwnRecord, Bound
  <2>7. QED
    BY <2>1, <2>4
<1>7. CASE WriteManifest
  <2>1. Types'
    BY <1>0, <1>7 DEF WriteManifest, Types
  <2>4. OwnRecord'
    BY <1>0, <1>7 DEF WriteManifest, Types, OwnRecord, Bound
  <2>7. QED
    BY <2>1, <2>4
<1>8. CASE RecheckBeforeLaunch
  <2>1. Types'
    BY <1>0, <1>8 DEF RecheckBeforeLaunch, Types
  <2>4. OwnRecord'
    BY <1>0, <1>8 DEF RecheckBeforeLaunch, Types, OwnRecord, Bound
  <2>7. QED
    BY <2>1, <2>4
<1>9. CASE Launch
  <2>1. Types'
    BY <1>0, <1>9 DEF Launch, Types
  <2>4. OwnRecord'
    BY <1>0, <1>9 DEF Launch, Types, OwnRecord, Bound
  <2>7. QED
    BY <2>1, <2>4
<1>10. CASE TimesOut
  <2>1. Types'
    BY <1>0, <1>10 DEF TimesOut, Types
  <2>4. OwnRecord'
    BY <1>0, <1>10 DEF TimesOut, Types, OwnRecord, Bound
  <2>7. QED
    BY <2>1, <2>4
<1>11. CASE Reap
  <2>1. Types'
    BY <1>0, <1>11 DEF Reap, Types
  <2>4. OwnRecord'
    BY <1>0, <1>11 DEF Reap, Types, OwnRecord, Bound
  <2>7. QED
    BY <2>1, <2>4
<1>12. CASE Collect
  <2>1. Types'
    <3>1. pc' \in Labels
      BY <1>12 DEF Collect
    <3>2. next' \in 1..6 /\ next' \in 1..5
      <4>1. next' = 1
        BY <1>12 DEF Collect
      <4>2. QED
        BY <4>1
    <3>3. UNCHANGED <<content, record, used, raw, digest>>
      BY <1>12 DEF Collect
    <3>4. QED
      BY <1>0, <3>1, <3>2, <3>3 DEF Types
  <2>4. OwnRecord'
    BY <1>0, <1>12 DEF Collect, NoRecord, Types, OwnRecord, Bound
  <2>7. QED
    BY <2>1, <2>4
<1>13. CASE Recheck
  <2>1. Types'
    <3>1. next' \in 1..6 /\ (pc' = "recheck" => next' \in 1..5)
      BY <1>0, <1>13, RecheckLength DEF Recheck, Types
    <3>2. pc' \in Labels /\ UNCHANGED <<content, record, used, raw, digest>>
      BY <1>13 DEF Recheck
    <3>3. QED
      BY <1>0, <3>1, <3>2 DEF Types
  <2>4. OwnRecord'
    BY <1>0, <1>13 DEF Recheck, Types, OwnRecord, Bound
  <2>7. QED
    BY <2>1, <2>4
<1>14. CASE Bind
  <2>1. Types'
    BY <1>0, <1>14 DEF Bind, NoRecord, Records, Outcomes, Types
  <2>4. OwnRecord'
    BY <1>0, <1>14 DEF Bind, NoRecord, Records, Outcomes, Types, OwnRecord, Bound
  <2>7. QED
    BY <2>1, <2>4
<1>15. CASE JudgeSource
  <2>1. Types'
    BY <1>0, <1>15 DEF JudgeSource, Types
  <2>4. OwnRecord'
    BY <1>0, <1>15 DEF JudgeSource, Types, OwnRecord, Bound
  <2>7. QED
    BY <2>1, <2>4
<1>16. CASE Judge
  <2>1. Types'
    BY <1>0, <1>16 DEF Judge, Types
  <2>4. OwnRecord'
    BY <1>0, <1>16 DEF Judge, Types, OwnRecord, Bound
  <2>7. QED
    BY <2>1, <2>4
<1>17. CASE ObserverWrites
  <2>1. Types'
    BY <1>0, <1>17 DEF ObserverWrites, NoRecord, Records, Outcomes, Types
  <2>4. OwnRecord'
    BY <1>0, <1>17 DEF ObserverWrites, NoRecord, Records, Outcomes, Types, OwnRecord, Bound
  <2>7. QED
    BY <2>1, <2>4
<1>18. CASE ObserverStarts
  <2>1. Types'
    BY <1>0, <1>18 DEF ObserverStarts, Types
  <2>4. OwnRecord'
    BY <1>0, <1>18 DEF ObserverStarts, Types, OwnRecord, Bound
  <2>7. QED
    BY <2>1, <2>4
<1>19. CASE ChildExits
  <2>1. Types'
    BY <1>0, <1>19 DEF ChildExits, Types
  <2>4. OwnRecord'
    BY <1>0, <1>19 DEF ChildExits, Types, OwnRecord, Bound
  <2>7. QED
    BY <2>1, <2>4
<1>20. CASE ObserverExits
  <2>1. Types'
    BY <1>0, <1>20 DEF ObserverExits, Types
  <2>4. OwnRecord'
    BY <1>0, <1>20 DEF ObserverExits, Types, OwnRecord, Bound
  <2>7. QED
    BY <2>1, <2>4
<1>21. CASE RunAgain
  <2>1. Types'
    <3>1. pc' = "start" /\ raw' \in Nat /\ next' \in 1..6 /\ content' = content
      BY <1>21 DEF RunAgain
    <3>2. digest' \in [Files -> Nat] /\ used' \in [Seen -> Nat]
      BY <1>21 DEF RunAgain
    <3>3. NoRecord \in Records
      BY DEF NoRecord, Records
    <3>4. record' \in Records
      BY <1>0, <1>21, <3>3 DEF RunAgain, Types
    <3>5. QED
      BY <1>0, <3>1, <3>2, <3>4 DEF Types
  <2>4. OwnRecord'
    BY <1>0, <1>21 DEF RunAgain, NoRecord, Records, Outcomes, Types, OwnRecord, Bound
  <2>7. QED
    BY <2>1, <2>4
<1>22. CASE \E f \in Seen : ObserverReads(f)
  <2>1. Types'
    BY <1>0, <1>22 DEF ObserverReads, Types
  <2>4. OwnRecord'
    BY <1>0, <1>22 DEF ObserverReads, Types, OwnRecord, Bound
  <2>7. QED
    BY <2>1, <2>4
<1>23. CASE \E f \in Files : Rewrite(f)
  <2> PICK g \in Files, v \in 1..MaxVersion :
        /\ content' = [content EXCEPT ![g] = v]
        /\ UNCHANGED <<record, orchestrator, process>>
    BY <1>23 DEF Rewrite
  <2>7. MaxVersion \in Nat
    BY BoundAssumption
  <2>8. v \in Nat /\ content \in [Files -> Nat]
    <3>1. v \in Nat
      BY <2>7
    <3>2. content \in [Files -> Nat]
      BY <1>0 DEF Types
    <3>3. QED
      BY <3>1, <3>2
  <2>0. content' \in [Files -> Nat]
    BY <2>8
  <2>1. Types'
    BY <1>0, <2>0 DEF Types
  <2>4. OwnRecord'
    BY <1>0, <2>0 DEF Types, OwnRecord, Bound
  <2>10. QED
    BY <2>1, <2>4
<1>24. CASE UNCHANGED vars
  <2>1. Types'
    BY <1>0, <1>24 DEF vars, Types
  <2>4. OwnRecord'
    BY <1>0, <1>24 DEF vars, Types, OwnRecord, Bound
  <2>7. QED
    BY <2>1, <2>4
<1>25. QED
  BY <1>1, <1>2, <1>3, <1>4, <1>5, <1>6, <1>7, <1>8, <1>9, <1>10, <1>11, <1>12, <1>13, <1>14, <1>15, <1>16, <1>17, <1>18, <1>19, <1>20, <1>21, <1>22, <1>23, <1>24 DEF Next, Orchestrator, Environment, Stop

\* Every step of the orchestrator, of the observer and of a writer that only
\* moves forward keeps the invariant.
LEMMA InvStep == ASSUME ~Restores, IInv, [Next]_vars PROVE IInv'
<1> USE DEF Files, Seen, Labels, BeforeLaunch, SinceLaunch, Nothing, Goto, Fail, process, orchestrator
<1>0. Types /\ InOrder /\ ManifestIsDerived /\ OwnRecord /\ Rechecked /\ ProvenanceIsTruthful
  BY DEF IInv
<1>00. Types' /\ OwnRecord'
  BY <1>0, TypesStep
<1>1. CASE SnapshotInputs
  <2>2. InOrder'
    <3>1. CASE UNCHANGED digest
      BY <1>0, <1>1, <3>1 DEF SnapshotInputs, Types, InOrder
    <3>2. CASE digest' = [digest EXCEPT !["inputs"] = content["inputs"]]
      <4>1. "inputs" \in Files
        OBVIOUS
      <4>2. pc \in BeforeLaunch /\ UNCHANGED <<content, used, raw>>
        BY <1>1 DEF SnapshotInputs
      <4>3. QED
        BY <1>0, <3>2, <4>1, <4>2, ReadInOrder
    <3>3. QED
      BY <1>1, <3>1, <3>2 DEF SnapshotInputs
  <2>3. ManifestIsDerived'
    BY <1>0, <1>1 DEF SnapshotInputs, Types, ManifestIsDerived
  <2>5. Rechecked'
    BY <1>0, <1>1 DEF SnapshotInputs, Types, Rechecked, OwnRecord
  <2>6. ProvenanceIsTruthful'
    BY <1>0, <1>1 DEF SnapshotInputs, Types, ProvenanceIsTruthful, Bound
  <2>7. QED
    BY <1>00, <2>2, <2>3, <2>5, <2>6 DEF IInv
<1>2. CASE CheckOutput
  <2>2. InOrder'
    BY <1>0, <1>2 DEF CheckOutput, NoRecord, Types, InOrder
  <2>3. ManifestIsDerived'
    BY <1>0, <1>2 DEF CheckOutput, NoRecord, Types, ManifestIsDerived
  <2>5. Rechecked'
    BY <1>0, <1>2 DEF CheckOutput, NoRecord, Types, Rechecked, OwnRecord
  <2>6. ProvenanceIsTruthful'
    BY <1>0, <1>2 DEF CheckOutput, NoRecord, Types, ProvenanceIsTruthful, Bound
  <2>7. QED
    BY <1>00, <2>2, <2>3, <2>5, <2>6 DEF IInv
<1>3. CASE ReadQualification
  <2>2. InOrder'
    BY <1>0, <1>3 DEF ReadQualification, Types, InOrder
  <2>3. ManifestIsDerived'
    BY <1>0, <1>3 DEF ReadQualification, Types, ManifestIsDerived
  <2>5. Rechecked'
    BY <1>0, <1>3 DEF ReadQualification, Types, Rechecked, OwnRecord
  <2>6. ProvenanceIsTruthful'
    BY <1>0, <1>3 DEF ReadQualification, Types, ProvenanceIsTruthful, Bound
  <2>7. QED
    BY <1>00, <2>2, <2>3, <2>5, <2>6 DEF IInv
<1>4. CASE BuildManifest
  <2>2. InOrder'
    <3>1. CASE UNCHANGED digest
      BY <1>0, <1>4, <3>1 DEF BuildManifest, Types, InOrder
    <3>2. CASE digest' = [digest EXCEPT !["qualification"] = raw]
      <4>1. raw \in Nat /\ raw <= content["qualification"]
        BY <1>0 DEF Types, InOrder
      <4>2. pc \in BeforeLaunch /\ UNCHANGED <<content, used, raw>>
        BY <1>4 DEF BuildManifest
      <4>3. QED
        BY <1>0, <3>2, <4>1, <4>2, DigestInOrder
    <3>3. QED
      BY <1>4, <3>1, <3>2 DEF BuildManifest
  <2>3. ManifestIsDerived'
    BY <1>0, <1>4 DEF BuildManifest, Types, ManifestIsDerived
  <2>5. Rechecked'
    BY <1>0, <1>4 DEF BuildManifest, Types, Rechecked, OwnRecord
  <2>6. ProvenanceIsTruthful'
    BY <1>0, <1>4 DEF BuildManifest, Types, ProvenanceIsTruthful, Bound
  <2>7. QED
    BY <1>00, <2>2, <2>3, <2>5, <2>6 DEF IInv
<1>5. CASE DigestSource
  <2>2. InOrder'
    <3>1. CASE UNCHANGED digest
      BY <1>0, <1>5, <3>1 DEF DigestSource, Types, InOrder
    <3>2. CASE digest' = [digest EXCEPT !["source"] = content["source"]]
      <4>1. "source" \in Files
        OBVIOUS
      <4>2. pc \in BeforeLaunch /\ UNCHANGED <<content, used, raw>>
        BY <1>5 DEF DigestSource
      <4>3. QED
        BY <1>0, <3>2, <4>1, <4>2, ReadInOrder
    <3>3. QED
      BY <1>5, <3>1, <3>2 DEF DigestSource
  <2>3. ManifestIsDerived'
    BY <1>0, <1>5 DEF DigestSource, Types, ManifestIsDerived
  <2>5. Rechecked'
    BY <1>0, <1>5 DEF DigestSource, Types, Rechecked, OwnRecord
  <2>6. ProvenanceIsTruthful'
    BY <1>0, <1>5 DEF DigestSource, Types, ProvenanceIsTruthful, Bound
  <2>7. QED
    BY <1>00, <2>2, <2>3, <2>5, <2>6 DEF IInv
<1>6. CASE DigestObserver
  <2>2. InOrder'
    <3>1. CASE UNCHANGED digest
      BY <1>0, <1>6, <3>1 DEF DigestObserver, Types, InOrder
    <3>2. CASE digest' = [digest EXCEPT !["observer"] = content["observer"]]
      <4>1. "observer" \in Files
        OBVIOUS
      <4>2. pc \in BeforeLaunch /\ UNCHANGED <<content, used, raw>>
        BY <1>6 DEF DigestObserver
      <4>3. QED
        BY <1>0, <3>2, <4>1, <4>2, ReadInOrder
    <3>3. QED
      BY <1>6, <3>1, <3>2 DEF DigestObserver
  <2>3. ManifestIsDerived'
    BY <1>0, <1>6 DEF DigestObserver, Types, ManifestIsDerived
  <2>5. Rechecked'
    BY <1>0, <1>6 DEF DigestObserver, Types, Rechecked, OwnRecord
  <2>6. ProvenanceIsTruthful'
    BY <1>0, <1>6 DEF DigestObserver, Types, ProvenanceIsTruthful, Bound
  <2>7. QED
    BY <1>00, <2>2, <2>3, <2>5, <2>6 DEF IInv
<1>7. CASE WriteManifest
  <2>2. InOrder'
    BY <1>0, <1>7 DEF WriteManifest, Types, InOrder
  <2>3. ManifestIsDerived'
    BY <1>0, <1>7 DEF WriteManifest, Types, ManifestIsDerived
  <2>5. Rechecked'
    BY <1>0, <1>7 DEF WriteManifest, Types, Rechecked, OwnRecord
  <2>6. ProvenanceIsTruthful'
    BY <1>0, <1>7 DEF WriteManifest, Types, ProvenanceIsTruthful, Bound
  <2>7. QED
    BY <1>00, <2>2, <2>3, <2>5, <2>6 DEF IInv
<1>8. CASE RecheckBeforeLaunch
  <2>2. InOrder'
    BY <1>0, <1>8 DEF RecheckBeforeLaunch, Types, InOrder
  <2>3. ManifestIsDerived'
    BY <1>0, <1>8 DEF RecheckBeforeLaunch, Types, ManifestIsDerived
  <2>5. Rechecked'
    BY <1>0, <1>8 DEF RecheckBeforeLaunch, Types, Rechecked, OwnRecord
  <2>6. ProvenanceIsTruthful'
    BY <1>0, <1>8 DEF RecheckBeforeLaunch, Types, ProvenanceIsTruthful, Bound
  <2>7. QED
    BY <1>00, <2>2, <2>3, <2>5, <2>6 DEF IInv
<1>9. CASE Launch
  <2>2. InOrder'
    BY <1>0, <1>9 DEF Launch, Types, InOrder
  <2>3. ManifestIsDerived'
    BY <1>0, <1>9 DEF Launch, Types, ManifestIsDerived
  <2>5. Rechecked'
    BY <1>0, <1>9 DEF Launch, Types, Rechecked, OwnRecord
  <2>6. ProvenanceIsTruthful'
    BY <1>0, <1>9 DEF Launch, Types, ProvenanceIsTruthful, Bound
  <2>7. QED
    BY <1>00, <2>2, <2>3, <2>5, <2>6 DEF IInv
<1>10. CASE TimesOut
  <2>2. InOrder'
    BY <1>0, <1>10 DEF TimesOut, Types, InOrder
  <2>3. ManifestIsDerived'
    BY <1>0, <1>10 DEF TimesOut, Types, ManifestIsDerived
  <2>5. Rechecked'
    BY <1>0, <1>10 DEF TimesOut, Types, Rechecked, OwnRecord
  <2>6. ProvenanceIsTruthful'
    BY <1>0, <1>10 DEF TimesOut, Types, ProvenanceIsTruthful, Bound
  <2>7. QED
    BY <1>00, <2>2, <2>3, <2>5, <2>6 DEF IInv
<1>11. CASE Reap
  <2>2. InOrder'
    BY <1>0, <1>11 DEF Reap, Types, InOrder
  <2>3. ManifestIsDerived'
    BY <1>0, <1>11 DEF Reap, Types, ManifestIsDerived
  <2>5. Rechecked'
    BY <1>0, <1>11 DEF Reap, Types, Rechecked, OwnRecord
  <2>6. ProvenanceIsTruthful'
    BY <1>0, <1>11 DEF Reap, Types, ProvenanceIsTruthful, Bound
  <2>7. QED
    BY <1>00, <2>2, <2>3, <2>5, <2>6 DEF IInv
<1>12. CASE Collect
  <2>2. InOrder'
    BY <1>0, <1>12 DEF Collect, NoRecord, Types, InOrder
  <2>3. ManifestIsDerived'
    BY <1>0, <1>12 DEF Collect, NoRecord, Types, ManifestIsDerived
  <2>5. Rechecked'
    <3>1. pc' # "bind" /\ next' = 1
      BY <1>12 DEF Collect
    <3>2. QED
      BY <3>1 DEF Rechecked
  <2>6. ProvenanceIsTruthful'
    BY <1>0, <1>12 DEF Collect, NoRecord, Types, ProvenanceIsTruthful, Bound
  <2>7. QED
    BY <1>00, <2>2, <2>3, <2>5, <2>6 DEF IInv
<1>13. CASE Recheck
  <2>2. InOrder'
    BY <1>0, <1>13 DEF Recheck, Types, InOrder
  <2>3. ManifestIsDerived'
    BY <1>0, <1>13 DEF Recheck, Types, ManifestIsDerived
  <2>5. Rechecked'
    <3> SUFFICES ASSUME pc' # "failed" PROVE Rechecked'
      BY DEF Rechecked
    <3>1. pc = "recheck" /\ next \in 1..5 /\ next' = next + 1 /\ UNCHANGED <<content, digest, used, record>>
      BY <1>0, <1>13 DEF Recheck, Types
    <3>2. content[RecheckOrder[next]] = digest[RecheckOrder[next]]
      BY <1>13 DEF Recheck
    <3>3. \A f \in Seen : used[f] # Nothing
      BY <1>0, <3>1 DEF OwnRecord
    <3>4. RecheckOrder[next] \in Seen => used[RecheckOrder[next]] = digest[RecheckOrder[next]]
      <4> SUFFICES ASSUME NEW f \in Seen, content[f] = digest[f]
                   PROVE  used[f] = digest[f]
        BY <3>2
      <4>1. used[f] \in Nat /\ digest[f] \in Nat
        BY <1>0 DEF Types
      <4>2. digest[f] <= used[f] /\ used[f] <= content[f]
        BY <1>0, <3>3 DEF InOrder
      <4>3. QED
        BY <4>1, <4>2
    <3>5. \A i \in 1..5 : i < next' /\ RecheckOrder[i] \in Seen
                         => used[RecheckOrder[i]] = digest[RecheckOrder[i]]
      BY <1>0, <3>1, <3>4 DEF Rechecked
    <3>6. CASE pc' = "recheck"
      <4>1. next # 5
        BY <1>13, <3>6, RecheckLength DEF Recheck
      <4>2. QED
        BY <3>1, <3>5, <3>6, <4>1 DEF Rechecked
    <3>7. CASE pc' = "bind"
      <4>1. next' = 6
        BY <1>13, <3>1, <3>7, RecheckLength DEF Recheck
      <4>2. \A f \in Seen : \E i \in 1..5 : RecheckOrder[i] = f
        BY RecheckCoversSeen
      <4>3. QED
        BY <3>1, <3>5, <3>7, <4>1, <4>2 DEF Rechecked
    <3>8. QED
      BY <1>13, <3>6, <3>7 DEF Recheck
  <2>6. ProvenanceIsTruthful'
    BY <1>0, <1>13 DEF Recheck, Types, ProvenanceIsTruthful, Bound
  <2>7. QED
    BY <1>00, <2>2, <2>3, <2>5, <2>6 DEF IInv
<1>14. CASE Bind
  <2>2. InOrder'
    BY <1>0, <1>14 DEF Bind, NoRecord, Records, Outcomes, Types, InOrder
  <2>3. ManifestIsDerived'
    BY <1>0, <1>14 DEF Bind, NoRecord, Records, Outcomes, Types, ManifestIsDerived
  <2>5. Rechecked'
    BY <1>0, <1>14 DEF Bind, NoRecord, Records, Outcomes, Types, Rechecked, OwnRecord
  <2>6. ProvenanceIsTruthful'
    BY <1>0, <1>14 DEF Bind, NoRecord, Records, Outcomes, Types, ProvenanceIsTruthful, Bound, Rechecked, OwnRecord, ManifestIsDerived
  <2>7. QED
    BY <1>00, <2>2, <2>3, <2>5, <2>6 DEF IInv
<1>15. CASE JudgeSource
  <2>2. InOrder'
    BY <1>0, <1>15 DEF JudgeSource, Types, InOrder
  <2>3. ManifestIsDerived'
    BY <1>0, <1>15 DEF JudgeSource, Types, ManifestIsDerived
  <2>5. Rechecked'
    BY <1>0, <1>15 DEF JudgeSource, Types, Rechecked, OwnRecord
  <2>6. ProvenanceIsTruthful'
    BY <1>0, <1>15 DEF JudgeSource, Types, ProvenanceIsTruthful, Bound
  <2>7. QED
    BY <1>00, <2>2, <2>3, <2>5, <2>6 DEF IInv
<1>16. CASE Judge
  <2>2. InOrder'
    BY <1>0, <1>16 DEF Judge, Types, InOrder
  <2>3. ManifestIsDerived'
    BY <1>0, <1>16 DEF Judge, Types, ManifestIsDerived
  <2>5. Rechecked'
    BY <1>0, <1>16 DEF Judge, Types, Rechecked, OwnRecord
  <2>6. ProvenanceIsTruthful'
    BY <1>0, <1>16 DEF Judge, Types, ProvenanceIsTruthful, Bound
  <2>7. QED
    BY <1>00, <2>2, <2>3, <2>5, <2>6 DEF IInv
<1>17. CASE ObserverWrites
  <2>2. InOrder'
    BY <1>0, <1>17 DEF ObserverWrites, NoRecord, Records, Outcomes, Types, InOrder
  <2>3. ManifestIsDerived'
    BY <1>0, <1>17 DEF ObserverWrites, NoRecord, Records, Outcomes, Types, ManifestIsDerived
  <2>5. Rechecked'
    BY <1>0, <1>17 DEF ObserverWrites, NoRecord, Records, Outcomes, Types, Rechecked, OwnRecord
  <2>6. ProvenanceIsTruthful'
    BY <1>0, <1>17 DEF ObserverWrites, NoRecord, Records, Outcomes, Types, ProvenanceIsTruthful, Bound
  <2>7. QED
    BY <1>00, <2>2, <2>3, <2>5, <2>6 DEF IInv
<1>18. CASE ObserverStarts
  <2>2. InOrder'
    BY <1>0, <1>18 DEF ObserverStarts, Types, InOrder
  <2>3. ManifestIsDerived'
    BY <1>0, <1>18 DEF ObserverStarts, Types, ManifestIsDerived
  <2>5. Rechecked'
    BY <1>0, <1>18 DEF ObserverStarts, Types, Rechecked, OwnRecord
  <2>6. ProvenanceIsTruthful'
    BY <1>0, <1>18 DEF ObserverStarts, Types, ProvenanceIsTruthful, Bound
  <2>7. QED
    BY <1>00, <2>2, <2>3, <2>5, <2>6 DEF IInv
<1>19. CASE ChildExits
  <2>2. InOrder'
    BY <1>0, <1>19 DEF ChildExits, Types, InOrder
  <2>3. ManifestIsDerived'
    BY <1>0, <1>19 DEF ChildExits, Types, ManifestIsDerived
  <2>5. Rechecked'
    BY <1>0, <1>19 DEF ChildExits, Types, Rechecked, OwnRecord
  <2>6. ProvenanceIsTruthful'
    BY <1>0, <1>19 DEF ChildExits, Types, ProvenanceIsTruthful, Bound
  <2>7. QED
    BY <1>00, <2>2, <2>3, <2>5, <2>6 DEF IInv
<1>20. CASE ObserverExits
  <2>2. InOrder'
    BY <1>0, <1>20 DEF ObserverExits, Types, InOrder
  <2>3. ManifestIsDerived'
    BY <1>0, <1>20 DEF ObserverExits, Types, ManifestIsDerived
  <2>5. Rechecked'
    BY <1>0, <1>20 DEF ObserverExits, Types, Rechecked, OwnRecord
  <2>6. ProvenanceIsTruthful'
    BY <1>0, <1>20 DEF ObserverExits, Types, ProvenanceIsTruthful, Bound
  <2>7. QED
    BY <1>00, <2>2, <2>3, <2>5, <2>6 DEF IInv
<1>21. CASE RunAgain
  <2>2. InOrder'
    BY <1>0, <1>21 DEF RunAgain, NoRecord, Records, Outcomes, Types, InOrder
  <2>3. ManifestIsDerived'
    BY <1>0, <1>21 DEF RunAgain, NoRecord, Records, Outcomes, Types, ManifestIsDerived
  <2>5. Rechecked'
    BY <1>0, <1>21 DEF RunAgain, NoRecord, Records, Outcomes, Types, Rechecked, OwnRecord
  <2>6. ProvenanceIsTruthful'
    BY <1>0, <1>21 DEF RunAgain, NoRecord, Records, Outcomes, Types, ProvenanceIsTruthful, Bound
  <2>7. QED
    BY <1>00, <2>2, <2>3, <2>5, <2>6 DEF IInv
<1>22. CASE \E f \in Seen : ObserverReads(f)
  <2>2. InOrder'
    <3>1. PICK g \in Seen : used[g] = Nothing /\ used' = [used EXCEPT ![g] = content[g]]
      BY <1>22 DEF ObserverReads
    <3>2. UNCHANGED <<content, digest, raw, pc>> /\ pc \notin BeforeLaunch
      BY <1>0, <1>22 DEF ObserverReads, OwnRecord
    <3>3. \A f \in Seen \ {g} : used'[f] = used[f]
      BY <1>0, <3>1 DEF Types
    <3>4. used'[g] = content[g] /\ content[g] \in Nat
      BY <1>0, <3>1 DEF Types
    <3>5. used'[g] <= content[g] /\ digest[g] <= used'[g]
      <4>1. content[g] <= content[g]
        BY <3>4
      <4>2. QED
        BY <1>0, <3>4, <4>1 DEF InOrder
    <3>6. QED
      BY <1>0, <3>2, <3>3, <3>5 DEF InOrder
  <2>3. ManifestIsDerived'
    BY <1>0, <1>22 DEF ObserverReads, Types, ManifestIsDerived
  <2>5. Rechecked'
    BY <1>0, <1>22 DEF ObserverReads, Types, Rechecked, OwnRecord, OwnRecord
  <2>6. ProvenanceIsTruthful'
    BY <1>0, <1>22 DEF ObserverReads, Types, ProvenanceIsTruthful, Bound
  <2>7. QED
    BY <1>00, <2>2, <2>3, <2>5, <2>6 DEF IInv
<1>23. CASE \E f \in Files : Rewrite(f)
  <2> PICK g \in Files, v \in 1..MaxVersion :
        /\ v > content[g] /\ content' = [content EXCEPT ![g] = v]
        /\ UNCHANGED <<record, orchestrator, process>>
    BY <1>23 DEF Rewrite
  <2>7. MaxVersion \in Nat
    BY BoundAssumption
  <2>8. v \in Nat /\ content \in [Files -> Nat]
    <3>1. v \in Nat
      BY <2>7
    <3>2. content \in [Files -> Nat]
      BY <1>0 DEF Types
    <3>3. QED
      BY <3>1, <3>2
  <2>0. content' \in [Files -> Nat]
    BY <2>8
  <2>9. \A f \in Files : content[f] <= content'[f]
    <3>1. \A f \in Files \ {g} : content'[f] = content[f]
      BY <2>8
    <3>2. \A f \in Files : content[f] \in Nat
      BY <2>8
    <3>3. content'[g] = v /\ content[g] <= v
      BY <2>8, <3>2
    <3>4. QED
      BY <3>1, <3>2, <3>3
  <2>2. InOrder'
    <3>1. raw <= content'["qualification"]
      BY <1>0, <2>0, <2>8, <2>9, LeqTransitive DEF Types, InOrder
    <3>2. \A f \in Files : digest[f] <= content'[f]
      BY <1>0, <2>0, <2>8, <2>9, LeqTransitive DEF Types, InOrder
    <3>3. \A f \in Seen : used[f] <= content'[f]
      BY <1>0, <2>0, <2>8, <2>9, LeqTransitive DEF Types, InOrder
    <3>4. QED
      BY <1>0, <3>1, <3>2, <3>3 DEF InOrder
  <2>3. ManifestIsDerived'
    BY <1>0, <2>0 DEF Types, ManifestIsDerived
  <2>5. Rechecked'
    BY <1>0, <2>0 DEF Types, Rechecked, OwnRecord
  <2>6. ProvenanceIsTruthful'
    BY <1>0, <2>0 DEF Types, ProvenanceIsTruthful, Bound
  <2>10. QED
    BY <1>00, <2>2, <2>3, <2>5, <2>6 DEF IInv
<1>24. CASE UNCHANGED vars
  <2>2. InOrder'
    BY <1>0, <1>24 DEF vars, Types, InOrder
  <2>3. ManifestIsDerived'
    BY <1>0, <1>24 DEF vars, Types, ManifestIsDerived
  <2>5. Rechecked'
    BY <1>0, <1>24 DEF vars, Types, Rechecked, OwnRecord
  <2>6. ProvenanceIsTruthful'
    BY <1>0, <1>24 DEF vars, Types, ProvenanceIsTruthful, Bound
  <2>7. QED
    BY <1>00, <2>2, <2>3, <2>5, <2>6 DEF IInv
<1>25. QED
  BY <1>1, <1>2, <1>3, <1>4, <1>5, <1>6, <1>7, <1>8, <1>9, <1>10, <1>11, <1>12, <1>13, <1>14, <1>15, <1>16, <1>17, <1>18, <1>19, <1>20, <1>21, <1>22, <1>23, <1>24 DEF Next, Orchestrator, Environment, Stop

-----------------------------------------------------------------------------
\* When no writer puts an earlier content back, a record that carries a
\* provenance was made from exactly the files whose digests it carries, whatever
\* is rewritten meanwhile and however often the tool is run (run_observer).
THEOREM ProvenanceHolds == ~Restores => (Spec => []ProvenanceIsTruthful)
<1> SUFFICES ASSUME ~Restores PROVE Spec => []ProvenanceIsTruthful
  OBVIOUS
<1>1. Init => IInv
  BY InvInit
<1>2. IInv /\ [Next]_vars => IInv'
  BY InvStep
<1>3. IInv => ProvenanceIsTruthful
  BY DEF IInv
<1>4. QED
  BY <1>1, <1>2, <1>3, PTL DEF Spec
-----------------------------------------------------------------------------
(* What else the steps of an attempt leave behind.                         *)

Whys == {"none", "arguments", "output", "manifest", "inputs", "timeout", "exit",
         "no record", "changed", "record", "judged"}

\* The steps between the manifest and the judgement have a digest of every file.
DigestsAreTaken ==
  /\ pc \notin {"start", "failed"} => digest["inputs"] # Nothing
  /\ pc \notin {"start", "output", "qualification", "failed"} => raw # Nothing
  /\ pc \notin {"start", "output", "qualification", "source", "failed"} => digest["qualification"] # Nothing
  /\ pc \notin {"start", "output", "qualification", "source", "digest source", "failed"} => digest["source"] # Nothing
  /\ pc \in {"manifest", "inputs", "launch"} \cup SinceLaunch => digest["observer"] # Nothing
  /\ pc \in {"inputs", "launch"} \cup SinceLaunch => digest["manifest"] # Nothing

\* A bound record is one with a digest of every file, and a record is judged
\* only once it is bound.
BoundIsWhole ==
  /\ Bound(record) => record.provenance \in [Files -> Versions]
  /\ pc \in {"judge source", "judge", "succeeded"} => Bound(record)

\* Nobody of the group is left when the tool waits for the pipes to close.
GroupIsGone ==
  pc = "reap" \/ (pc = "failed" /\ why = "timeout") => group = {} /\ proc \in {"exited", "killed"}

\* An observer runs only while it is waited for.
RunsOnlyThen ==
  /\ proc \in {"none", "running", "exited", "killed"} /\ code \in {"none", "zero", "nonzero"}
  /\ pc = "communicate" => proc \in {"running", "exited"}

RunInv ==
  /\ attempt \in 1..MaxAttempts /\ why \in Whys /\ judging \in Nat /\ judged \in Nat
  /\ content \in [Files -> Versions] /\ group \subseteq {"piped", "quiet"}
  /\ Types /\ OwnRecord /\ DigestsAreTaken /\ BoundIsWhole /\ GroupIsGone /\ RunsOnlyThen

\* Before the first file is read nothing is bound and nobody runs.
LEMMA RunInit == Init => RunInv
BY BoundAssumption, InvInit DEF Init, IInv, RunInv, Whys, DigestsAreTaken, BoundIsWhole, GroupIsGone, RunsOnlyThen,
   Bound, NoRecord, Files, Seen, Versions, Nothing, SinceLaunch

\* Every step keeps the digests, the bound record and the group in order, whatever
\* a writer puts back.
LEMMA RunStep == ASSUME RunInv, [Next]_vars PROVE RunInv'
<1> USE DEF Files, Seen, SinceLaunch, Nothing, Goto, Fail, process, orchestrator, Versions, Whys
<1>0. Types /\ OwnRecord
  BY DEF RunInv
<1>00. Types' /\ OwnRecord'
  BY <1>0, TypesStep
<1>1. CASE SnapshotInputs \/ CheckOutput \/ ReadQualification \/ BuildManifest \/ DigestSource
           \/ DigestObserver \/ RecheckBeforeLaunch
  <2>1. /\ UNCHANGED <<content, record, used, proc, code, group, attempt, judging, judged>>
        /\ pc' \notin {"communicate", "reap", "judge source", "judge", "succeeded"}
        /\ pc' = "failed" => why' # "timeout"
        /\ why' \in Whys
    BY <1>1 DEF SnapshotInputs, CheckOutput, ReadQualification, BuildManifest, DigestSource,
                DigestObserver, RecheckBeforeLaunch, RunInv
  <2>2. DigestsAreTaken'
    BY <1>0, <1>1 DEF SnapshotInputs, CheckOutput, ReadQualification, BuildManifest, DigestSource,
                DigestObserver, RecheckBeforeLaunch, RunInv, DigestsAreTaken, Types
  <2>3. BoundIsWhole'
    BY <2>1 DEF RunInv, BoundIsWhole, Bound
  <2>4. QED
    BY <1>00, <2>1, <2>2, <2>3 DEF RunInv, GroupIsGone, RunsOnlyThen
<1>2. CASE WriteManifest
  <2>1. /\ UNCHANGED <<record, used, proc, code, group, attempt, judging, judged, why, raw>>
        /\ pc = "manifest" /\ pc' = "inputs"
        /\ content' = [content EXCEPT !["manifest"] = raw]
        /\ digest' = [digest EXCEPT !["manifest"] = raw]
    BY <1>2 DEF WriteManifest
  <2>2. raw \in Versions
    BY <1>0, <2>1 DEF RunInv, DigestsAreTaken, Types
  <2>3. content' \in [Files -> Versions]
    BY <2>1, <2>2 DEF RunInv
  <2>4. DigestsAreTaken'
    BY <1>0, <2>1, <2>2 DEF RunInv, DigestsAreTaken, Types
  <2>5. BoundIsWhole'
    BY <2>1 DEF RunInv, BoundIsWhole, Bound
  <2>6. QED
    BY <1>00, <2>1, <2>3, <2>4, <2>5 DEF RunInv, GroupIsGone, RunsOnlyThen
<1>3. CASE Launch \/ TimesOut \/ Reap \/ Collect
  <2>1. /\ UNCHANGED <<content, record, attempt, raw, digest, judging, judged>>
        /\ pc' \notin {"judge source", "judge", "succeeded"} /\ pc \in {"launch"} \cup SinceLaunch
        /\ pc' \in SinceLaunch \cup {"failed"} /\ why' \in Whys
    BY <1>3 DEF Launch, TimesOut, Reap, Collect, RunInv
  <2>2. DigestsAreTaken'
    BY <2>1 DEF RunInv, DigestsAreTaken
  <2>3. BoundIsWhole'
    BY <2>1 DEF RunInv, BoundIsWhole, Bound
  <2>4. RunsOnlyThen' /\ group' \subseteq {"piped", "quiet"}
    BY <1>3 DEF Launch, TimesOut, Reap, Collect, RunInv, RunsOnlyThen
  <2>5. GroupIsGone'
    BY <1>3 DEF Launch, TimesOut, Reap, Collect, RunInv, RunsOnlyThen, GroupIsGone
  <2>6. QED
    BY <1>00, <2>1, <2>2, <2>3, <2>4, <2>5 DEF RunInv
<1>4. CASE Recheck \/ JudgeSource
  <2>1. /\ UNCHANGED <<content, record, used, proc, code, group, attempt, raw, digest, judged>>
        /\ pc' \notin {"communicate", "reap", "succeeded"} /\ why' \in Whys
        /\ pc' = "failed" => why' # "timeout"
        /\ pc = "recheck" => pc' \in {"recheck", "bind", "failed"}
        /\ pc # "recheck" => pc = "judge source" /\ pc' = "judge"
        /\ judging' \in Nat
    BY <1>0, <1>4 DEF Recheck, JudgeSource, RunInv, Types
  <2>2. DigestsAreTaken'
    BY <2>1 DEF RunInv, DigestsAreTaken
  <2>3. BoundIsWhole'
    BY <2>1 DEF RunInv, BoundIsWhole, Bound
  <2>4. QED
    BY <1>00, <2>1, <2>2, <2>3 DEF RunInv, GroupIsGone, RunsOnlyThen
<1>5. CASE Bind
  <2>1. /\ UNCHANGED <<content, used, proc, code, group, attempt, raw, digest, judging, judged>>
        /\ pc = "bind" /\ pc' \in {"failed", "judge source"} /\ why' \in Whys
        /\ pc' = "failed" => why' # "timeout" /\ record' = record
        /\ pc' = "judge source" => record' = [record EXCEPT !.provenance = digest]
    BY <1>5 DEF Bind, RunInv
  <2>2. DigestsAreTaken'
    BY <2>1 DEF RunInv, DigestsAreTaken
  <2>3. digest \in [Files -> Versions]
    BY <1>0, <2>1 DEF RunInv, DigestsAreTaken, Types
  <2>4. BoundIsWhole'
    <3>1. CASE pc' = "failed"
      BY <2>1, <3>1 DEF RunInv, BoundIsWhole, Bound
    <3>2. CASE pc' = "judge source"
      <4>1. record'.provenance = digest
        BY <1>0, <2>1, <3>2 DEF Types, Records
      <4>2. QED
        BY <2>3, <3>2, <4>1 DEF BoundIsWhole, Bound
    <3>3. QED
      BY <2>1, <3>1, <3>2
  <2>5. QED
    BY <1>00, <2>1, <2>2, <2>4 DEF RunInv, GroupIsGone, RunsOnlyThen
<1>6. CASE Judge
  <2>1. /\ UNCHANGED <<content, record, used, proc, code, group, attempt, raw, digest, judging>>
        /\ pc = "judge" /\ pc' \in {"failed", "succeeded"} /\ why' \in Whys
        /\ pc' = "failed" => why' # "timeout"
        /\ judged' \in Nat
    BY <1>0, <1>6 DEF Judge, RunInv, Types
  <2>2. DigestsAreTaken'
    BY <2>1 DEF RunInv, DigestsAreTaken
  <2>3. BoundIsWhole'
    BY <2>1 DEF RunInv, BoundIsWhole, Bound
  <2>4. QED
    BY <1>00, <2>1, <2>2, <2>3 DEF RunInv, GroupIsGone, RunsOnlyThen
<1>7. CASE ObserverWrites
  <2>1. /\ UNCHANGED <<content, pc, attempt, why, raw, digest, judging, judged, used, proc, code, group>>
        /\ pc = "communicate"
        /\ \E o \in Outcomes, b \in BOOLEAN :
             record' = [NoRecord EXCEPT !.outcome = o, !.prebound = b, !.seen = used]
    BY <1>0, <1>7 DEF ObserverWrites, OwnRecord
  <2>2. ~Bound(record')
    BY <2>1 DEF Bound, NoRecord
  <2>3. DigestsAreTaken'
    BY <2>1 DEF RunInv, DigestsAreTaken
  <2>4. QED
    BY <1>00, <2>1, <2>2, <2>3 DEF RunInv, BoundIsWhole, GroupIsGone, RunsOnlyThen
<1>8. CASE (\E f \in Seen : ObserverReads(f)) \/ ObserverStarts \/ ChildExits \/ ObserverExits
  <2>1. /\ UNCHANGED <<content, record, pc, attempt, why, raw, digest, judging, judged>>
        /\ group' \subseteq {"piped", "quiet"}
    BY <1>8 DEF ObserverReads, ObserverStarts, ChildExits, ObserverExits, RunInv
  <2>2. RunsOnlyThen'
    BY <1>0, <1>8, <2>1 DEF ObserverReads, ObserverStarts, ChildExits, ObserverExits, RunInv, RunsOnlyThen
  <2>3. GroupIsGone'
    BY <1>0, <1>8, <2>1 DEF ObserverReads, ObserverStarts, ChildExits, ObserverExits, RunInv, GroupIsGone,
                           OwnRecord
  <2>4. DigestsAreTaken'
    BY <2>1 DEF RunInv, DigestsAreTaken
  <2>5. QED
    BY <1>00, <2>1, <2>2, <2>3, <2>4 DEF RunInv, BoundIsWhole, Bound
<1>9. CASE \E f \in Files : Rewrite(f)
  <2> PICK f \in Files, v \in 1..MaxVersion : content' = [content EXCEPT ![f] = v]
    BY <1>9 DEF Rewrite
  <2>1. UNCHANGED <<record, pc, attempt, why, raw, digest, judging, judged, used, proc, code, group>>
    BY <1>9 DEF Rewrite
  <2>2. v \in Versions
    BY BoundAssumption
  <2>3. content' \in [Files -> Versions]
    BY <2>2 DEF RunInv
  <2>4. DigestsAreTaken'
    BY <2>1 DEF RunInv, DigestsAreTaken
  <2>5. QED
    BY <1>00, <2>1, <2>3, <2>4 DEF RunInv, BoundIsWhole, Bound, GroupIsGone, RunsOnlyThen
<1>10. CASE RunAgain
  <2>1. /\ pc' = "start" /\ why' = "none" /\ proc' = "none" /\ code' = "none" /\ group' = {}
        /\ judging' = 0 /\ judged' = 0 /\ content' = content
        /\ attempt < MaxAttempts /\ attempt' = attempt + 1
        /\ record' \in {record, NoRecord}
    BY <1>10 DEF RunAgain
  <2>2. ~Bound(NoRecord)
    BY DEF Bound, NoRecord
  <2>3. BoundIsWhole'
    BY <2>1, <2>2 DEF RunInv, BoundIsWhole, Bound
  <2>4. attempt' \in 1..MaxAttempts
    <3>1. attempt \in 1..MaxAttempts
      BY DEF RunInv
    <3>2. attempt < MaxAttempts /\ attempt' = attempt + 1
      BY <2>1
    <3>3. QED
      BY <3>1, <3>2, BoundAssumption
  <2>5. QED
    BY <1>00, <2>1, <2>3, <2>4 DEF RunInv, DigestsAreTaken, GroupIsGone, RunsOnlyThen
<1>11. CASE Stop \/ UNCHANGED vars
  <2>1. UNCHANGED <<content, record, pc, attempt, why, raw, digest, judging, judged, used, proc, code, group>>
    BY <1>11 DEF Stop, vars
  <2>2. DigestsAreTaken'
    BY <2>1 DEF RunInv, DigestsAreTaken
  <2>3. QED
    BY <1>00, <2>1, <2>2 DEF RunInv, BoundIsWhole, Bound, GroupIsGone, RunsOnlyThen
<1>12. QED
  BY <1>1, <1>2, <1>3, <1>4, <1>5, <1>6, <1>7, <1>8, <1>9, <1>10, <1>11 DEF Next, Orchestrator, Environment

\* Only the binding step binds a record, and it is the attempt's own.
LEMMA BindingStep ==
  ASSUME RunInv, Next, Bound(record'), ~Bound(record)
  PROVE  record # NoRecord /\ record.seen = used
<1>1. CASE Bind
  <2>1. pc = "bind"
    BY <1>1 DEF Bind
  <2>2. QED
    BY <2>1 DEF RunInv, OwnRecord, SinceLaunch
<1>2. CASE ObserverWrites \/ RunAgain
  <2>1. ~Bound(NoRecord)
    BY DEF Bound, NoRecord, Nothing, Files
  <2>2. \A o \in Outcomes, b \in BOOLEAN :
          ~Bound([NoRecord EXCEPT !.outcome = o, !.prebound = b, !.seen = used])
    BY DEF Bound, NoRecord, Nothing, Files
  <2>3. QED
    BY <1>2, <2>1, <2>2 DEF ObserverWrites, RunAgain
<1>3. CASE ~Bind /\ ~ObserverWrites /\ ~RunAgain
  <2>1. record' = record
    BY <1>3 DEF Next, Orchestrator, Environment, SnapshotInputs, CheckOutput, ReadQualification, BuildManifest,
       DigestSource, DigestObserver, WriteManifest, RecheckBeforeLaunch, Launch, TimesOut, Reap, Collect,
       Recheck, JudgeSource, Judge, ObserverReads, ObserverStarts, ChildExits, ObserverExits, Rewrite, Stop, vars
  <2>2. QED
    BY <2>1 DEF Bound
<1>4. QED
  BY <1>1, <1>2, <1>3

\* A success is judged by an input equal to the one the bound record is of.
LEMMA PositiveStep ==
  ASSUME RunInv, [Next]_vars, PositiveIsBound, RunInv', ProvenanceIsTruthful'
  PROVE  PositiveIsBound'
<1>1. CASE Judge
  <2> SUFFICES ASSUME pc' = "succeeded", record'.outcome = "positive"
               PROVE  /\ judged' = record'.provenance["qualification"]
                      /\ judged' = record'.seen["manifest"]
    BY DEF PositiveIsBound
  <2>1. Accepts(content["qualification"]) /\ judged' = content["qualification"] /\ record' = record
    BY <1>1 DEF Judge, Goto, Fail
  <2>2. record.seen["manifest"] = judged'
    BY <2>1 DEF Accepts
  <2>3. Bound(record')
    BY DEF RunInv, BoundIsWhole
  <2>4. /\ record'.seen["manifest"] = record'.provenance["manifest"]
        /\ record'.provenance["manifest"] = record'.provenance["qualification"]
    BY <2>3 DEF ProvenanceIsTruthful, Seen
  <2>5. QED
    BY <2>1, <2>2, <2>4
<1>2. CASE ~Judge /\ pc' = "succeeded"
  <2>1. UNCHANGED <<pc, record, judged>>
    BY <1>2 DEF Next, Orchestrator, Environment, Goto, Fail, SnapshotInputs, CheckOutput, ReadQualification,
       BuildManifest, DigestSource, DigestObserver, WriteManifest, RecheckBeforeLaunch, Launch, TimesOut, Reap,
       Collect, Recheck, Bind, JudgeSource, ObserverReads, ObserverStarts, ObserverWrites, ChildExits,
       ObserverExits, Rewrite, RunAgain, Stop, orchestrator, process, vars, RunInv, OwnRecord
  <2>2. QED
    BY <2>1 DEF PositiveIsBound
<1>3. QED
  BY <1>1, <1>2 DEF PositiveIsBound

\* What one run of the orchestrator keeps in order holds throughout.
LEMMA RunInvariant == Spec => []RunInv
<1>1. Init => RunInv
  BY RunInit
<1>2. RunInv /\ [Next]_vars => RunInv'
  BY RunStep
<1>3. QED
  BY <1>1, <1>2, PTL DEF Spec

\* Every variable keeps its type, and a bound record carries a digest of every
\* file.
THEOREM OrchestrationTypes == Spec => []TypeOK
<1>1. ASSUME RunInv PROVE TypeOK
  <2>1. /\ digest \in [Files -> Nat] /\ raw \in Nat /\ pc \in Labels
        /\ record \in Records /\ used \in [Seen -> Nat]
    BY <1>1 DEF RunInv, Types
  <2>2. next \in 1..(Len(RecheckOrder) + 1)
    BY <1>1, RecheckLength DEF RunInv, Types
  <2>3. /\ content \in [Files -> Versions] /\ attempt \in 1..MaxAttempts
        /\ judging \in Nat /\ judged \in Nat /\ group \subseteq {"piped", "quiet"}
    BY <1>1 DEF RunInv
  <2>4. why \in {"none", "arguments", "output", "manifest", "inputs", "timeout", "exit",
                "no record", "changed", "record", "judged"}
    BY <1>1 DEF RunInv, Whys
  <2>5. proc \in {"none", "running", "exited", "killed"} /\ code \in {"none", "zero", "nonzero"}
    BY <1>1 DEF RunInv, RunsOnlyThen
  <2>6. Bound(record) => record.provenance \in [Files -> Versions]
    BY <1>1 DEF RunInv, BoundIsWhole
  <2>7. QED
    BY <2>1, <2>2, <2>3, <2>4, <2>5, <2>6 DEF TypeOK
<1>2. QED
  BY <1>1, RunInvariant, PTL

\* A reported timeout leaves neither the observer nor a child of its process
\* group running, however many attempts there are (_run_bounded_process).
THEOREM TimeoutIsFinal == Spec => []TimeoutKillsTheGroup
<1>1. RunInv => TimeoutKillsTheGroup
  BY DEF RunInv, GroupIsGone, TimeoutKillsTheGroup
<1>2. QED
  BY <1>1, RunInvariant, PTL

\* What is bound is the attempt's own record, and what is accepted as positive
\* is judged against the very input it was made from (run_observer).
THEOREM RecordsOfTheirRun == ~Restores => (Spec => RecordsAreBoundToTheirRun)
<1> SUFFICES ASSUME ~Restores PROVE Spec => RecordsAreBoundToTheirRun
  OBVIOUS
<1>1. RunInv /\ [Next]_vars =>
        [Bound(record') /\ ~Bound(record) => record # NoRecord /\ record.seen = used]_vars
  BY BindingStep
<1>2. Init => PositiveIsBound
  BY DEF Init, PositiveIsBound
<1>3. RunInv /\ RunInv' /\ ProvenanceIsTruthful' /\ PositiveIsBound /\ [Next]_vars => PositiveIsBound'
  BY PositiveStep
<1>4. Spec => []ProvenanceIsTruthful
  BY ProvenanceHolds
<1>5. Spec => []PositiveIsBound
  BY <1>2, <1>3, <1>4, RunInvariant, PTL DEF Spec
<1>6. QED
  BY <1>1, <1>5, RunInvariant, PTL DEF Spec, RecordsAreBoundToTheirRun, OnlyItsOwnRecordIsBound
-----------------------------------------------------------------------------
(* An attempt needs nobody to go on.                                       *)

\* How far an attempt has come; the recheck goes through its files in order.
Place(l) ==
  CASE l = "start" -> 1 [] l = "output" -> 2 [] l = "qualification" -> 3 [] l = "source" -> 4
    [] l = "digest source" -> 5 [] l = "digest observer" -> 6 [] l = "manifest" -> 7
    [] l = "inputs" -> 8 [] l = "launch" -> 9 [] l = "communicate" -> 10 [] l = "reap" -> 11
    [] l = "recheck" -> 12 [] l = "bind" -> 13 [] l = "judge source" -> 14 [] l = "judge" -> 15
    [] OTHER -> 16

\* The numbers of the places, one by one.
LEMMA Places ==
  /\ Place("start") = 1 /\ Place("output") = 2 /\ Place("qualification") = 3 /\ Place("source") = 4
  /\ Place("digest source") = 5 /\ Place("digest observer") = 6 /\ Place("manifest") = 7
  /\ Place("inputs") = 8 /\ Place("launch") = 9 /\ Place("communicate") = 10 /\ Place("reap") = 11
  /\ Place("recheck") = 12 /\ Place("bind") = 13 /\ Place("judge source") = 14 /\ Place("judge") = 15
  /\ Place("succeeded") = 16 /\ Place("failed") = 16
BY DEF Place

\* Where the tool waits, either the timeout or the end of the pipes is open to
\* it, the pipes are free once the group is killed, and every file the recheck
\* comes to is one of its list.
NeverStuck ==
  /\ pc = "communicate" => \/ proc = "running" \/ "piped" \in group
                           \/ proc = "exited" /\ "piped" \notin group
  /\ pc = "reap" => "piped" \notin group
  /\ pc = "recheck" => next \in 1..Len(RecheckOrder)

\* The attempt comes to a later place, or the recheck to its next file.
Forward ==
  \/ Place(pc') > Place(pc)
  \/ pc = "recheck" /\ pc' = "recheck" /\ next' = next + 1

\* A step of the tool brings its attempt forward, and nothing else moves it.
LeadsOn ==
  [][attempt' = attempt => IF Orchestrator THEN Forward ELSE UNCHANGED <<pc, next>>]_vars

\* The recheck stands at a file of its list.
RecheckInside == pc = "recheck" => next \in 1..Len(RecheckOrder)

(***************************************************************************)
(* Whatever the observer, its children and the writers of the files do, a  *)
(* step of the tool is open until the attempt returns, and each brings it  *)
(* forward by one of finitely many (_run_bounded_process, run_observer).   *)
(* This is Returns without the fairness that takes the steps.              *)
(***************************************************************************)
THEOREM AttemptsLeadOn == Spec => []NeverStuck /\ LeadsOn
<1> USE RecheckLength
<1>1. Init => RecheckInside
  BY DEF Init, RecheckInside
<1>2. RunInv /\ RecheckInside /\ [Next]_vars => RecheckInside'
  <2> SUFFICES ASSUME RunInv, RecheckInside, [Next]_vars, pc' = "recheck" PROVE next' \in 1..Len(RecheckOrder)
    BY DEF RecheckInside
  <2>1. CASE Recheck
    BY <2>1 DEF Recheck, RecheckInside, Goto, Fail
  <2>2. CASE Collect
    BY <2>2 DEF Collect, Goto, Fail
  <2>3. CASE ~Recheck /\ ~Collect
    <3>1. pc = "recheck" /\ next' = next
      BY <2>3 DEF Next, Orchestrator, Environment, SnapshotInputs, CheckOutput, ReadQualification,
         BuildManifest, DigestSource, DigestObserver, WriteManifest, RecheckBeforeLaunch, Launch, TimesOut,
         Reap, Bind, JudgeSource, Judge, ObserverReads, ObserverStarts, ObserverWrites, ChildExits,
         ObserverExits, Rewrite, RunAgain, Stop, orchestrator, process, vars, Goto, Fail
    <3> QED
      BY <3>1 DEF RecheckInside
  <2> QED
    BY <2>1, <2>2, <2>3
<1>3. RunInv /\ RecheckInside => NeverStuck
  BY DEF RunInv, RunsOnlyThen, GroupIsGone, RecheckInside, NeverStuck
<1>4. ASSUME RunInv, Environment \/ RunAgain \/ Stop, attempt' = attempt
      PROVE  UNCHANGED <<pc, next>>
  <2>1. attempt \in Nat
    BY <1>4, BoundAssumption DEF RunInv
  <2>2. ~RunAgain
    BY <1>4, <2>1 DEF RunAgain
  <2>3. CASE Stop
    BY <2>3 DEF Stop, vars, orchestrator
  <2>4. CASE Environment
    <3>1. UNCHANGED orchestrator
      BY <2>4 DEF Environment, ObserverReads, ObserverStarts, ObserverWrites, ChildExits,
         ObserverExits, Rewrite
    <3> QED
      BY <3>1 DEF orchestrator
  <2> QED
    BY <1>4, <2>2, <2>3, <2>4
<1>5. ASSUME Orchestrator
      PROVE  Forward
  <2>1. CASE SnapshotInputs \/ CheckOutput \/ ReadQualification \/ BuildManifest \/ DigestSource
    <3>1. \/ pc = "start" /\ pc' \in {"output", "failed"}
          \/ pc = "output" /\ pc' \in {"qualification", "failed"}
          \/ pc = "qualification" /\ pc' \in {"source"}
          \/ pc = "source" /\ pc' \in {"digest source", "failed"}
          \/ pc = "digest source" /\ pc' \in {"digest observer"}
      BY <2>1 DEF SnapshotInputs, CheckOutput, ReadQualification, BuildManifest, DigestSource, Goto, Fail
    <3>2. \/ Place(pc) = 1 /\ Place(pc') \in {2, 16}
          \/ Place(pc) = 2 /\ Place(pc') \in {3, 16}
          \/ Place(pc) = 3 /\ Place(pc') \in {4}
          \/ Place(pc) = 4 /\ Place(pc') \in {5, 16}
          \/ Place(pc) = 5 /\ Place(pc') \in {6}
      BY <3>1, Places
    <3> QED
      BY <3>2 DEF Forward
  <2>2. CASE DigestObserver \/ WriteManifest \/ RecheckBeforeLaunch \/ Launch \/ TimesOut
    <3>1. \/ pc = "digest observer" /\ pc' \in {"manifest"}
          \/ pc = "manifest" /\ pc' \in {"inputs"}
          \/ pc = "inputs" /\ pc' \in {"launch", "failed"}
          \/ pc = "launch" /\ pc' \in {"communicate"}
          \/ pc = "communicate" /\ pc' \in {"reap"}
      BY <2>2 DEF DigestObserver, WriteManifest, RecheckBeforeLaunch, Launch, TimesOut, Goto, Fail
    <3>2. \/ Place(pc) = 6 /\ Place(pc') \in {7}
          \/ Place(pc) = 7 /\ Place(pc') \in {8}
          \/ Place(pc) = 8 /\ Place(pc') \in {9, 16}
          \/ Place(pc) = 9 /\ Place(pc') \in {10}
          \/ Place(pc) = 10 /\ Place(pc') \in {11}
      BY <3>1, Places
    <3> QED
      BY <3>2 DEF Forward
  <2>3. CASE Reap \/ Collect \/ Bind \/ JudgeSource \/ Judge
    <3>1. \/ pc = "reap" /\ pc' \in {"failed"}
          \/ pc = "communicate" /\ pc' \in {"recheck", "failed"}
          \/ pc = "bind" /\ pc' \in {"judge source", "failed"}
          \/ pc = "judge source" /\ pc' \in {"judge"}
          \/ pc = "judge" /\ pc' \in {"succeeded", "failed"}
      BY <2>3 DEF Reap, Collect, Bind, JudgeSource, Judge, Goto, Fail
    <3>2. \/ Place(pc) = 11 /\ Place(pc') \in {16}
          \/ Place(pc) = 10 /\ Place(pc') \in {12, 16}
          \/ Place(pc) = 13 /\ Place(pc') \in {14, 16}
          \/ Place(pc) = 14 /\ Place(pc') \in {15}
          \/ Place(pc) = 15 /\ Place(pc') \in {16}
      BY <3>1, Places
    <3> QED
      BY <3>2 DEF Forward
  <2>4. CASE Recheck
    <3>1. /\ pc = "recheck" /\ pc' \in {"recheck", "bind", "failed"}
          /\ pc' = "recheck" => next' = next + 1
      BY <2>4 DEF Recheck, Goto, Fail
    <3>2. \/ Place(pc) = 12 /\ Place(pc') \in {13, 16}
          \/ pc = "recheck" /\ pc' = "recheck" /\ next' = next + 1
      BY <3>1, Places
    <3> QED
      BY <3>2 DEF Forward
  <2> QED
    BY <1>5, <2>1, <2>2, <2>3, <2>4 DEF Orchestrator
<1>6. RunInv /\ [Next]_vars =>
        [attempt' = attempt => IF Orchestrator THEN Forward ELSE UNCHANGED <<pc, next>>]_vars
  BY <1>4, <1>5 DEF Next
<1>7. Spec => LeadsOn
  BY <1>6, RunInvariant, PTL DEF Spec, LeadsOn
<1>8. Spec => []NeverStuck
  BY <1>1, <1>2, <1>3, RunInvariant, PTL DEF Spec
<1> QED
  BY <1>7, <1>8
=============================================================================
