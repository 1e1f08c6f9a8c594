---------------------------- MODULE StaticProofs ----------------------------
(***************************************************************************)
(* TLAPS proofs about the validators of detached evidence, for scripts of  *)
(* any length, records of any number of edits, windows of any number of    *)
(* samples and repositories with any saves.                                *)
(***************************************************************************)
EXTENDS MCStatic, LeProofs, TLAPS

-----------------------------------------------------------------------------
(* Witness ranges: the two files that decide separately.                    *)

\* A usable range ends inside the record and does not overlap the name.
LEMMA NoNameByteIsOffTheName ==
  ASSUME NEW offset \in Nat, NEW length \in Nat, length > 0
  PROVE  NoNameByte(offset, length) <=>
           offset + length <= 123 /\ ~(offset < 68 /\ offset + length > 36)
<1>1. ASSUME NoNameByte(offset, length)
      PROVE  offset + length <= 123 /\ ~(offset < 68 /\ offset + length > 36)
  <2>1. offset + length - 1 \in offset..(offset + length - 1)
    OBVIOUS
  <2>2. offset + length - 1 < 123 /\ ~(36 <= offset + length - 1 /\ offset + length - 1 < 68)
    BY <1>1, <2>1 DEF NoNameByte
  <2>3. ASSUME offset < 68, offset + length > 36 PROVE FALSE
    <3>1. CASE offset >= 36
      <4>1. offset \in offset..(offset + length - 1)
        OBVIOUS
      <4>2. QED
        BY <1>1, <2>3, <3>1, <4>1 DEF NoNameByte
    <3>2. CASE offset < 36
      <4>1. 36 \in offset..(offset + length - 1)
        BY <2>3, <3>2
      <4>2. QED
        BY <1>1, <4>1 DEF NoNameByte
    <3>3. QED
      BY <3>1, <3>2
  <2>4. QED
    BY <2>2, <2>3
<1>2. ASSUME offset + length <= 123, ~(offset < 68 /\ offset + length > 36)
      PROVE  NoNameByte(offset, length)
  BY <1>2 DEF NoNameByte
<1>3. QED
  BY <1>1, <1>2

\* One planet, as the range subject takes it.
LEMMA RangesAgreeEverywhere ==
  ASSUME subject = "range" => doc \in [offset : Nat, length : Nat]
  PROVE  RangesAgree
<1> SUFFICES ASSUME subject = "range" PROVE RangesAgree
  BY DEF RangesAgree
<1> DEFINE entry == [label |-> "A", basis |-> "bounded-record-metadata", metadata |-> Bytes["A"],
                     length |-> doc.length, offset |-> doc.offset]
           input == [schema |-> "v2", source |-> This, planets |-> <<entry>>]
           usable == doc.length > 0 /\ NoNameByte(doc.offset, doc.length)
<1>1. doc.length \in Nat /\ doc.offset \in Nat
  OBVIOUS
<1>2. usable <=> /\ doc.length > 0 /\ doc.offset + doc.length <= 123
                 /\ ~(doc.offset < 68 /\ doc.offset + doc.length > 36)
  BY <1>1, NoNameByteIsOffTheName
<1>3. Len(input.planets) = 1 /\ input.planets[1] = entry /\ input.planets # << >>
  OBVIOUS
<1>4. Oracle!EntryValid(entry, "v2") <=> usable
  <2> HIDE DEF usable
  <2> QED
    BY <1>1, <1>2 DEF Oracle!EntryValid, Oracle!RejectsNameOverlap, Oracle!MetadataBasis,
       Oracle!MaxMetadataBytes, Oracle!PlanetRecordSize, Oracle!PresentationNameOffset,
       Oracle!PresentationNameLength
<1>5. Oracle!InputValid(input, This) <=> usable
  <2>1. input.schema = "v2" /\ input.source = This
    OBVIOUS
  <2> HIDE DEF input, entry, usable
  <2> QED
    BY <1>3, <1>4, <2>1 DEF Oracle!InputValid
<1>6. /\ DOMAIN Oracle!BuildManifest(input).planets = {"A"}
      /\ DOMAIN Oracle!BuildManifest(input).ranges = {"A"}
      /\ Oracle!BuildManifest(input).planets["A"] = Bytes["A"]
      /\ Oracle!BuildManifest(input).ranges["A"] =
           [basis |-> "bounded-record-metadata", offset |-> doc.offset, length |-> doc.length,
            digest |-> Bytes["A"]]
  <2>1. {input.planets[i] : i \in 1..Len(input.planets)} = {entry}
        /\ {input.planets[i].label : i \in 1..Len(input.planets)} = {"A"}
    OBVIOUS
  <2>2. (CHOOSE e \in {entry} : e.label = "A") = entry
    <3>1. entry \in {entry} /\ entry.label = "A"
      OBVIOUS
    <3> HIDE DEF entry
    <3> QED
      BY <3>1
  <2>3. input.schema # "v1" /\ entry.metadata = Bytes["A"] /\ entry.offset = doc.offset
        /\ entry.length = doc.length /\ entry.basis = "bounded-record-metadata"
    OBVIOUS
  <2> HIDE DEF input, entry
  <2> QED
    BY <2>1, <2>2, <2>3 DEF Oracle!BuildManifest
<1>7. Oracle!WitnessContract(Oracle!BuildManifest(input), "A") <=> usable
  <2> HIDE DEF input, usable
  <2> QED
    BY <1>1, <1>2, <1>6 DEF Oracle!WitnessContract, Oracle!OverlapsName, Oracle!MetadataBasis,
       Oracle!MaxMetadataBytes, Oracle!PlanetRecordSize, Oracle!PresentationNameOffset,
       Oracle!PresentationNameLength
<1> QED
  BY <1>5, <1>7 DEF RangesAgree

-----------------------------------------------------------------------------
(* Manual transitions.                                                      *)

Trips ==
  [managedBefore : Nat, manualWrite : Nat, invalidation : Nat, managedAfter : Nat,
   manualValue : {"0", "ffffffff"}, beforeValue : {"0", "ffffffff"}, afterValue : {"0", "ffffffff"},
   mechanism : {"m", "n"}, lossless : BOOLEAN, staleVisible : BOOLEAN]

\* The round trips of a record stay what they are, a field apart.
ManualInv(d) ==
  /\ "record" \in DOMAIN d /\ "transitions" \in DOMAIN d.record
  /\ d.record.transitions \in Seq(Trips) /\ Len(d.record.transitions) = 2

\* Changing one element of a sequence leaves a sequence of the same length.
LEMMA ReplacedElement ==
  ASSUME NEW S, NEW s \in Seq(S), NEW i \in 1..Len(s), NEW e \in S
  PROVE  [s EXCEPT ![i] = e] \in Seq(S) /\ Len([s EXCEPT ![i] = e]) = Len(s)
OBVIOUS

\* The records TLC starts from.
LEMMA ManualDocsFit ==
  ASSUME NEW d \in ManualDocs
  PROVE  ManualInv(d)
<1>1. PICK b \in Manual!CoverageBases, o \in Manual!ManualOutcomes :
        d = [record |-> [outcome |-> o, established |-> TRUE, transitions |-> <<Trip, Trip>>,
                         inputs |-> [f \in Manual!BoundFields |-> Evidence(b)[f]], coverage |-> Coverage(b)],
             evidence |-> Evidence(b),
             expected |-> [target_sha256 |-> "canonical", harness_sha256 |-> "h", scenario_identity |-> "s",
                           basis |-> b, digest |-> Evidence(b)]]
  BY DEF ManualDocs
<1>2. Trip \in Trips
  BY DEF Trip, Trips
<1>3. <<Trip, Trip>> \in Seq(Trips) /\ Len(<<Trip, Trip>>) = 2
  BY <1>2
<1>4. /\ "record" \in DOMAIN d /\ "transitions" \in DOMAIN d.record
      /\ d.record.transitions = <<Trip, Trip>>
  BY <1>1
<1>5. QED
  BY <1>3, <1>4 DEF ManualInv

\* Editing a trip leaves a trip.
LEMMA TripEdited ==
  ASSUME NEW t \in Trips, NEW e \in TripEdits(t)
  PROVE  e \in Trips
<1>1. CASE \E f \in {"managedBefore", "manualWrite", "invalidation", "managedAfter"}, n \in 0..4 :
             e = [t EXCEPT ![f] = n]
  BY <1>1 DEF Trips
<1>2. CASE \E f \in {"manualValue", "beforeValue", "afterValue"}, v \in {"0", "ffffffff"} :
             e = [t EXCEPT ![f] = v]
  BY <1>2 DEF Trips
<1>3. CASE e \in {[t EXCEPT !.mechanism = "n"], [t EXCEPT !.lossless = FALSE], [t EXCEPT !.staleVisible = TRUE]}
  BY <1>3 DEF Trips
<1>4. QED
  BY <1>1, <1>2, <1>3 DEF TripEdits

\* Editing a record leaves the other trips alone.
LEMMA ManualEdited ==
  ASSUME NEW d, ManualInv(d), NEW e \in ManualEdits(d)
  PROVE  ManualInv(e)
<1>1. CASE \E t \in TripEdits(d.record.transitions[1]) : e = [d EXCEPT !.record.transitions[1] = t]
  <2>1. PICK t \in TripEdits(d.record.transitions[1]) : e = [d EXCEPT !.record.transitions[1] = t]
    BY <1>1
  <2>2. d.record.transitions[1] \in Trips /\ 1 \in 1..Len(d.record.transitions)
    BY DEF ManualInv
  <2>3. t \in Trips
    BY <2>1, <2>2, TripEdited
  <2>4. /\ "record" \in DOMAIN e /\ "transitions" \in DOMAIN e.record
        /\ e.record.transitions = [d.record.transitions EXCEPT ![1] = t]
    BY <2>1 DEF ManualInv
  <2>5. QED
    BY <2>2, <2>3, <2>4, ReplacedElement DEF ManualInv
<1>2. ASSUME "record" \in DOMAIN e, "transitions" \in DOMAIN e.record,
             e.record.transitions = d.record.transitions
      PROVE  ManualInv(e)
  BY <1>2 DEF ManualInv
<1>3. "record" \in DOMAIN d /\ "transitions" \in DOMAIN d.record
  BY DEF ManualInv
<1>4. CASE e = [d EXCEPT !.record.established = ~@]
  BY <1>2, <1>3, <1>4
<1>5. CASE \E f \in Manual!BoundFields : e = [d EXCEPT !.record.inputs[f] = "other"]
  BY <1>2, <1>3, <1>5
<1>6. CASE \E c : e = [d EXCEPT !.record.coverage = c]
  BY <1>2, <1>3, <1>6
<1>7. CASE e \in {[d EXCEPT !.expected.digest = d.evidence],
                  [d EXCEPT !.expected.basis = Manual!OtherBasis(@)],
                  [d EXCEPT !.expected.harness_sha256 = "other"],
                  [d EXCEPT !.evidence.scenario_identity = "other"],
                  [d EXCEPT !.evidence.mechanism = "n"],
                  [d EXCEPT !.evidence.sampled = TRUE]}
  <2>1. e.record = d.record /\ "record" \in DOMAIN e
    BY <1>3, <1>7
  <2>2. QED
    BY <1>2, <1>3, <2>1
<1>8. CASE \E x : e = [d EXCEPT !.evidence.established = x]
  BY <1>2, <1>3, <1>8
<1>9. QED
  <2>1. \/ e \in {[d EXCEPT !.record.transitions[1] = t] : t \in TripEdits(d.record.transitions[1])}
        \/ e \in {[d EXCEPT !.record.established = ~@]}
        \/ e \in {[d EXCEPT !.record.inputs[f] = "other"] : f \in Manual!BoundFields}
        \/ e \in {[d EXCEPT !.record.coverage = c] :
                    c \in [sampled : BOOLEAN, established : SUBSET Manual!CoverageBases]}
        \/ e \in {[d EXCEPT !.expected.digest = d.evidence],
                  [d EXCEPT !.expected.basis = Manual!OtherBasis(@)],
                  [d EXCEPT !.expected.harness_sha256 = "other"],
                  [d EXCEPT !.evidence.scenario_identity = "other"],
                  [d EXCEPT !.evidence.mechanism = "n"],
                  [d EXCEPT !.evidence.sampled = TRUE]}
        \/ e \in {[d EXCEPT !.evidence.established = x] : x \in SUBSET Manual!CoverageBases}
    BY DEF ManualEdits
  <2>2. QED
    BY <2>1, <1>1, <1>4, <1>5, <1>6, <1>7, <1>8

\* An accepted record drops every profile that was cached while managed.
LEMMA ManualRecordsFailClosed ==
  ASSUME subject = "manual" => ManualInv(doc)
  PROVE  ManualFailsClosed
<1> SUFFICES ASSUME subject = "manual",
                    Manual!ValidManualRecord(doc.record, doc.expected, doc.evidence),
                    doc.record.outcome = "positive-lossless-invalidation"
             PROVE  /\ \A i \in 1..Len(doc.record.transitions) : TripFailsClosed(doc.record.transitions[i])
                    /\ ~doc.evidence.sampled /\ ~doc.record.coverage.sampled
                    /\ doc.record.coverage.established \cap doc.evidence.established # {}
  BY DEF ManualFailsClosed
<1>1. /\ Manual!CoverageExpected(doc.record, doc.expected, doc.evidence)
      /\ \A i \in 1..Len(doc.record.transitions) :
           Manual!RoundTripValid(doc.record.transitions[i], doc.evidence.mechanism)
      /\ Manual!CoverageReported(doc.record.coverage, doc.expected.basis)
  BY DEF Manual!ValidManualRecord
<1>2. ASSUME NEW i \in 1..Len(doc.record.transitions)
      PROVE  TripFailsClosed(doc.record.transitions[i])
  <2> DEFINE t == doc.record.transitions[i]
  <2>1. t \in Trips
    BY DEF ManualInv
  <2>2. t.managedBefore \in Nat /\ t.manualWrite \in Nat /\ t.invalidation \in Nat /\ t.managedAfter \in Nat
    BY <2>1 DEF Trips
  <2>3. t.managedBefore < t.manualWrite /\ t.manualWrite <= t.invalidation /\ t.invalidation < t.managedAfter
    BY <1>1 DEF Manual!RoundTripValid
  <2> HIDE DEF t
  <2>4. TripFailsClosed(t)
    BY <2>2, <2>3 DEF TripFailsClosed
  <2>5. QED
    BY <2>4 DEF t
<1>3. ~doc.evidence.sampled /\ ~doc.record.coverage.sampled
  BY <1>1 DEF Manual!CoverageExpected, Manual!CoverageReported
<1>4. doc.record.coverage.established \cap doc.evidence.established # {}
  <2>1. doc.expected.basis \in doc.record.coverage.established
    BY <1>1 DEF Manual!CoverageReported
  <2>2. doc.expected.basis \in doc.evidence.established
    BY <1>1 DEF Manual!CoverageExpected
  <2>3. QED
    BY <2>1, <2>2
<1>5. QED
  BY <1>2, <1>3, <1>4

-----------------------------------------------------------------------------
(* Roles of fixtures.                                                       *)

\* A run without a flaw saw what the game shows of its save, and a production
\* without a flaw wrote its save, one of w; the flaws there are, are looked for.
Earned(file, w) ==
  /\ file.kind = "run" =>
       /\ file.observed = TrueProperties[file.save]
          \/ {"target", "data-writes", "save-changed"} \cap file.flaws # {}
  /\ file.kind = "production" =>
       file.save \in w \/ {"target", "code-writes", "oracle"} \cap file.flaws # {}

\* No file says more than its run did, and the record is a record.
RolesInv ==
  /\ files \in [Roles!Paths -> {files[p] : p \in Roles!Paths}]
  /\ \A p \in Roles!Paths : Earned(files[p], written)
  /\ files[Roles!Record].kind = "record" /\ "kind" \in DOMAIN files[Roles!Record]

\* The paths with a meaning of their own differ from each other.
LEMMA PathsDiffer ==
  /\ Roles!Record \in Roles!Paths /\ Roles!RunArtifact \in Roles!Paths
  /\ Roles!ProductionArtifact \in Roles!Paths /\ Roles!ProducerSnapshot \in Roles!Paths
  /\ Roles!Prose \in Roles!Paths
  /\ \A name \in HarnessFiles : Roles!Snapshot(name) \in Roles!Paths
  /\ Roles!Record # Roles!RunArtifact /\ Roles!Record # Roles!ProductionArtifact
  /\ Roles!Record # Roles!ProducerSnapshot /\ Roles!Record # Roles!Prose
  /\ Roles!RunArtifact # Roles!ProductionArtifact /\ Roles!ProductionArtifact # Roles!ProducerSnapshot
  /\ Roles!RunArtifact # Roles!Prose /\ Roles!RunArtifact # Roles!ProducerSnapshot
  /\ \A name \in HarnessFiles : Roles!Snapshot(name) # Roles!Record
BY DEF Roles!Record, Roles!RunArtifact, Roles!ProductionArtifact, Roles!ProducerSnapshot, Roles!Prose,
   Roles!Snapshot, Roles!Paths

\* A repository whose fixture has been observed tells the truth.
LEMMA RolesInitial ==
  ASSUME Roles!Init
  PROVE  RolesInv
<1>1. PICK v \in Saves :
        LET properties == TrueProperties[v]
            sources == [name \in HarnessFiles |-> "1"]
            run == [kind |-> "run", status |-> "passed", id |-> "fixture", save |-> v,
                    role |-> "multi", claimed |-> properties, observed |-> properties,
                    flaws |-> {}, sources |-> sources]
        IN  files = [p \in Roles!Paths |->
                CASE p = Roles!RunArtifact -> run
                  [] p = Roles!Record -> [kind |-> "record", runtime |-> TRUE,
                                    observations |-> <<Roles!ObservationBlock(v, properties, run)>>,
                                    productions |-> <<>>]
                  [] p = Roles!Prose -> [kind |-> "record", runtime |-> FALSE, observations |-> <<>>,
                                   productions |-> <<>>]
                  [] p \in {Roles!ProductionArtifact, Roles!ProducerSnapshot} -> Roles!NoFile
                  [] OTHER -> [kind |-> "source", version |-> "1"]]
  BY Zenon DEF Roles!Init
<1> DEFINE properties == TrueProperties[v]
           sources == [name \in HarnessFiles |-> "1"]
           run == [kind |-> "run", status |-> "passed", id |-> "fixture", save |-> v,
                   role |-> "multi", claimed |-> properties, observed |-> properties,
                   flaws |-> {}, sources |-> sources]
           record == [kind |-> "record", runtime |-> TRUE,
                      observations |-> <<Roles!ObservationBlock(v, properties, run)>>,
                      productions |-> <<>>]
           prose == [kind |-> "record", runtime |-> FALSE, observations |-> <<>>, productions |-> <<>>]
           source == [kind |-> "source", version |-> "1"]
           content(p) == CASE p = Roles!RunArtifact -> run
                           [] p = Roles!Record -> record
                           [] p = Roles!Prose -> prose
                           [] p \in {Roles!ProductionArtifact, Roles!ProducerSnapshot} -> Roles!NoFile
                           [] OTHER -> source
<1>2. DOMAIN files = Roles!Paths /\ files = [p \in Roles!Paths |-> content(p)]
  BY <1>1, Zenon
<1>3. /\ content(Roles!RunArtifact) = run
      /\ content(Roles!Record) = record
      /\ \A p : p # Roles!RunArtifact => content(p) \in {record, prose, Roles!NoFile, source}
  <2> HIDE DEF run, record, prose, source
  <2>1. content(Roles!RunArtifact) = run
    BY PathsDiffer, Zenon
  <2>2. content(Roles!Record) = record
    BY PathsDiffer, Zenon
  <2>3. \A p : p # Roles!RunArtifact => content(p) \in {record, prose, Roles!NoFile, source}
    BY Zenon
  <2>4. QED
    BY <2>1, <2>2, <2>3
<1>4. files[Roles!Record] = record /\ files[Roles!RunArtifact] = run
      /\ \A p \in Roles!Paths \ {Roles!RunArtifact} : files[p] \in {record, prose, Roles!NoFile, source}
  <2> HIDE DEF content, run, record, prose, source
  <2>1. QED
    BY <1>2, <1>3, PathsDiffer
<1>5. ASSUME NEW p \in Roles!Paths PROVE Earned(files[p], written)
  <2>1. CASE p = Roles!RunArtifact
    <3>1. files[p].kind = "run" /\ files[p].observed = TrueProperties[files[p].save]
      BY <1>4, <2>1
    <3>2. QED
      BY <3>1 DEF Earned
  <2>2. CASE p # Roles!RunArtifact
    <3>1. files[p].kind \in {"record", "none", "source"}
      BY <1>4, <2>2 DEF Roles!NoFile
    <3>2. QED
      BY <3>1 DEF Earned
  <2>3. QED
    BY <2>1, <2>2
<1>6. files = [p \in Roles!Paths |-> files[p]]
  BY <1>2
<1>7. files[Roles!Record].kind = "record" /\ "kind" \in DOMAIN files[Roles!Record]
  BY <1>4
<1>8. QED
  BY <1>7, <1>5, <1>6 DEF RolesInv


\* What one file holds after a step that changes only files outside a set.
LEMMA RolesKeptBy ==
  ASSUME RolesInv, written \subseteq written', DOMAIN files' = Roles!Paths,
         files' = [p \in Roles!Paths |-> files'[p]],
         \A p \in Roles!Paths : files'[p] = files[p] \/ Earned(files'[p], written'),
         files'[Roles!Record].kind = "record", "kind" \in DOMAIN files'[Roles!Record]
  PROVE  RolesInv'
<1>1. ASSUME NEW p \in Roles!Paths PROVE Earned(files'[p], written')
  <2>1. CASE files'[p] = files[p]
    BY <2>1 DEF RolesInv, Earned
  <2>2. CASE Earned(files'[p], written')
    BY <2>2 DEF Earned
  <2>3. QED
    BY <2>1, <2>2
<1>2. QED
  BY <1>1 DEF RolesInv

\* A run, with or without a flaw, and the sources it preserves.
LEMMA ObserveKeeps ==
  ASSUME RolesInv, Roles!Observe
  PROVE  RolesInv'
<1>1. written' = written
  BY DEF Roles!Observe
<1>2. PICK v \in Saves, claim, seen \in {TrueProperties[s] : s \in Saves},
           flaws \in {{}, {"target"}, {"data-writes"}, {"save-changed"}} :
        /\ flaws = {} => seen = TrueProperties[v]
        /\ files' = [p \in Roles!Paths |->
                       IF p = Roles!RunArtifact THEN Roles!RunOf(v, claim, seen, flaws)
                       ELSE IF \E name \in HarnessFiles : p = Roles!Snapshot(name)
                       THEN [kind |-> "source",
                             version |-> harness[CHOOSE name \in HarnessFiles : p = Roles!Snapshot(name)]]
                       ELSE files[p]]
  BY DEF Roles!Observe
<1>3. DOMAIN files' = Roles!Paths /\ files' = [p \in Roles!Paths |-> files'[p]]
  BY <1>2
<1>4. files'[Roles!Record] = files[Roles!Record]
  BY <1>2, PathsDiffer
<1>5. ASSUME NEW p \in Roles!Paths PROVE files'[p] = files[p] \/ Earned(files'[p], written')
  <2>1. CASE p = Roles!RunArtifact
    <3>1. /\ files'[p].kind = "run" /\ files'[p].observed = seen /\ files'[p].save = v
          /\ files'[p].flaws = flaws
      BY <1>2, <2>1 DEF Roles!RunOf
    <3>2. seen = TrueProperties[v] \/ {"target", "data-writes", "save-changed"} \cap flaws # {}
      BY <1>2
    <3>3. QED
      BY <3>1, <3>2 DEF Earned
  <2>2. CASE p # Roles!RunArtifact /\ \E name \in HarnessFiles : p = Roles!Snapshot(name)
    <3>1. files'[p].kind = "source"
      BY <1>2, <2>2
    <3>2. QED
      BY <3>1 DEF Earned
  <2>3. CASE p # Roles!RunArtifact /\ ~\E name \in HarnessFiles : p = Roles!Snapshot(name)
    BY <1>2, <2>3
  <2>4. QED
    BY <2>1, <2>2, <2>3
<1>6. files'[Roles!Record].kind = "record" /\ "kind" \in DOMAIN files'[Roles!Record]
  BY <1>4 DEF RolesInv
<1>7. QED
  BY <1>1, <1>3, <1>5, <1>6, RolesKeptBy

\* A production, with or without a flaw.
LEMMA ProduceKeeps ==
  ASSUME RolesInv, Roles!Produce
  PROVE  RolesInv'
<1>1. PICK v \in Saves, flaws \in {{}, {"target"}, {"code-writes"}, {"oracle"}} :
        /\ files' = [files EXCEPT
                       ![Roles!ProductionArtifact] =
                          [kind |-> "production", status |-> "passed", save |-> v, output |-> v,
                           method |-> "save menu", flaws |-> flaws, source |-> "1"],
                       ![Roles!ProducerSnapshot] = [kind |-> "source", version |-> "1"]]
        /\ written' = IF flaws = {} THEN written \cup {v} ELSE written
  BY DEF Roles!Produce
<1>2. written \subseteq written' /\ (flaws = {} => v \in written')
  BY <1>1
<1>3. DOMAIN files = Roles!Paths
  BY DEF RolesInv
<1>4. DOMAIN files' = Roles!Paths /\ files' = [p \in Roles!Paths |-> files'[p]]
  BY <1>1, <1>3
<1>5. /\ files'[Roles!ProductionArtifact] =
           [kind |-> "production", status |-> "passed", save |-> v, output |-> v,
            method |-> "save menu", flaws |-> flaws, source |-> "1"]
      /\ files'[Roles!ProducerSnapshot].kind = "source"
      /\ \A p \in Roles!Paths \ {Roles!ProductionArtifact, Roles!ProducerSnapshot} : files'[p] = files[p]
  BY <1>1, <1>3, PathsDiffer
<1>6. Earned(files'[Roles!ProductionArtifact], written')
  <2>1. {"target", "code-writes", "oracle"} \cap flaws # {} \/ flaws = {}
    OBVIOUS
  <2>2. /\ files'[Roles!ProductionArtifact].kind = "production"
        /\ files'[Roles!ProductionArtifact].save = v
        /\ files'[Roles!ProductionArtifact].flaws = flaws
    <3> DEFINE file == [kind |-> "production", status |-> "passed", save |-> v, output |-> v,
                        method |-> "save menu", flaws |-> flaws, source |-> "1"]
    <3>1. file.kind = "production" /\ file.save = v /\ file.flaws = flaws
      OBVIOUS
    <3>2. files'[Roles!ProductionArtifact] = file
      BY <1>5
    <3> HIDE DEF file
    <3>3. QED
      BY <3>1, <3>2
  <2>3. QED
    BY <1>2, <2>1, <2>2 DEF Earned
<1>7. Earned(files'[Roles!ProducerSnapshot], written')
  BY <1>5 DEF Earned
<1>8. files'[Roles!Record].kind = "record" /\ "kind" \in DOMAIN files'[Roles!Record]
  BY <1>5, PathsDiffer DEF RolesInv
<1>9. QED
  BY <1>2, <1>4, <1>5, <1>6, <1>7, <1>8, RolesKeptBy

\* A source of the harness says nothing of a save.
LEMMA EditSourceKeeps ==
  ASSUME RolesInv, Roles!EditSource
  PROVE  RolesInv'
<1>1. written' = written
  BY DEF Roles!EditSource
<1>2. CASE files' = files
  BY <1>1, <1>2 DEF RolesInv, Earned
<1>3. CASE \E name \in HarnessFiles :
             files' = [files EXCEPT ![Roles!Snapshot(name)] = [kind |-> "source", version |-> "2"]]
  <2>1. PICK name \in HarnessFiles :
          files' = [files EXCEPT ![Roles!Snapshot(name)] = [kind |-> "source", version |-> "2"]]
    BY <1>3
  <2>2. DOMAIN files = Roles!Paths
    BY DEF RolesInv
  <2>3. DOMAIN files' = Roles!Paths /\ files' = [p \in Roles!Paths |-> files'[p]]
    BY <2>1, <2>2
  <2>4. /\ files'[Roles!Snapshot(name)].kind = "source"
        /\ \A p \in Roles!Paths \ {Roles!Snapshot(name)} : files'[p] = files[p]
    BY <2>1, <2>2, PathsDiffer
  <2>5. Earned(files'[Roles!Snapshot(name)], written')
    BY <2>4 DEF Earned
  <2>6. files'[Roles!Record].kind = "record" /\ "kind" \in DOMAIN files'[Roles!Record]
    BY <2>4, PathsDiffer DEF RolesInv
  <2>7. QED
    BY <1>1, <2>3, <2>4, <2>5, <2>6, RolesKeptBy
<1>4. QED
  BY <1>2, <1>3 DEF Roles!EditSource

\* The record stays a record, whatever it is made to say.
LEMMA EditRecordKeeps ==
  ASSUME RolesInv, Roles!EditRecord
  PROVE  RolesInv'
<1>1. written' = written
  BY DEF Roles!EditRecord
<1>2. \E e : \/ files' = [files EXCEPT ![Roles!Record].observations = e]
             \/ files' = [files EXCEPT ![Roles!Record].productions = e]
             \/ files' = [files EXCEPT ![Roles!Record].runtime = e]
  BY DEF Roles!EditRecord
<1>3. DOMAIN files = Roles!Paths /\ Roles!Record \in Roles!Paths
  BY PathsDiffer DEF RolesInv
<1>4. DOMAIN files' = Roles!Paths /\ files' = [p \in Roles!Paths |-> files'[p]]
  BY <1>2, <1>3
<1>5. /\ files'[Roles!Record].kind = files[Roles!Record].kind
      /\ DOMAIN files'[Roles!Record] = DOMAIN files[Roles!Record]
      /\ \A p \in Roles!Paths \ {Roles!Record} : files'[p] = files[p]
  BY <1>2, <1>3 DEF RolesInv
<1>6. files'[Roles!Record].kind = "record" /\ "kind" \in DOMAIN files'[Roles!Record]
  BY <1>5 DEF RolesInv
<1>7. Earned(files'[Roles!Record], written')
  BY <1>6 DEF Earned
<1>8. QED
  BY <1>1, <1>4, <1>5, <1>6, <1>7, RolesKeptBy

\* Every edit of the repository keeps the files honest.
LEMMA RolesStepKeeps ==
  ASSUME RolesInv, Roles!Next
  PROVE  RolesInv'
<1>1. CASE Roles!EditDeclaration
  BY <1>1 DEF Roles!EditDeclaration, RolesInv, Earned
<1>2. QED
  BY <1>1, ObserveKeeps, ProduceKeeps, EditSourceKeeps, EditRecordKeeps DEF Roles!Next

\* A satisfied role rests on a run whose flaws were looked for, and so on what
\* the game did.
LEMMA RolesRest ==
  ASSUME RolesInv
  PROVE  Roles!RolesRestOnRuns
<1> SUFFICES ASSUME NEW i \in 1..Len(declared), Roles!FixtureValid(declared[i]),
                    Roles!Satisfies(declared[i])
             PROVE  /\ Roles!Requirements[declared[i].role].artifact =>
                         declared[i].properties = TrueProperties[declared[i].save]
                    /\ Roles!Requirements[declared[i].role].production => declared[i].save \in written
  BY DEF Roles!RolesRestOnRuns, Roles!DeclarationValid
<1> DEFINE fixture == declared[i]
<1> HIDE DEF fixture
<1>1. ASSUME Roles!Requirements[fixture.role].artifact, Roles!Satisfies(fixture)
      PROVE  fixture.properties = TrueProperties[fixture.save]
  <2>1. \E path, pin : Roles!CurrentStateArtifact(path, pin, fixture)
    BY <1>1 DEF Roles!Satisfies, Roles!SourceRecord
  <2>2. PICK path, pin : Roles!CurrentStateArtifact(path, pin, fixture)
    BY <2>1
  <2>3. /\ pin.kind = "run" /\ pin.save = fixture.save /\ pin.observed = fixture.properties
        /\ {"target", "data-writes", "save-changed"} \cap pin.flaws = {}
    BY <2>2 DEF Roles!CurrentStateArtifact, Roles!ArtifactIdentified, Roles!ArtifactUndisturbed,
       Roles!ArtifactObserved
  <2>4. path \in Roles!Paths /\ files[path] = pin
    BY <2>2 DEF Roles!CurrentStateArtifact, Roles!Experiments
  <2>5. Earned(pin, written)
    BY <2>4 DEF RolesInv
  <2>6. QED
    BY <2>3, <2>5 DEF Earned
<1>2. ASSUME Roles!Requirements[fixture.role].production, Roles!Satisfies(fixture)
      PROVE  fixture.save \in written
  <2>1. \E path, pin, method : Roles!ProductionRun(path, pin, fixture, method)
    BY <1>2 DEF Roles!Satisfies, Roles!ProductionRecord
  <2>2. PICK path, pin, method : Roles!ProductionRun(path, pin, fixture, method)
    BY <2>1
  <2>3. /\ pin.kind = "production" /\ pin.save = fixture.save
        /\ {"target", "code-writes", "oracle"} \cap pin.flaws = {}
    BY <2>2 DEF Roles!ProductionRun, Roles!ProductionIdentified, Roles!ProductionOrdinary,
       Roles!ProductionMatched
  <2>4. path \in Roles!Paths /\ files[path] = pin
    BY <2>2 DEF Roles!ProductionRun, Roles!Experiments
  <2>5. Earned(pin, written)
    BY <2>4 DEF RolesInv
  <2>6. QED
    BY <2>3, <2>5 DEF Earned
<1>3. QED
  BY <1>1, <1>2 DEF fixture

-----------------------------------------------------------------------------
(* The follow-up: what its artifacts support.                               *)

\* Traces that all validate support every claim of the summary.
LEMMA ClaimsFollow ==
  ASSUME NEW t, \A s \in Followup!Scenarios : Followup!Validates(s, t[s])
  PROVE  \A claim \in DOMAIN Followup!Causality(t) : Followup!Causality(t)[claim]
<1> DEFINE a == t["manual-control"]
           b == t["manual-gate-probe"]
           c == t["managed-gate-probe"]
           d == t["managed-control"]
           e == t["managed-policy-suppressed"]
           f == t["managed-action-write-suppressed"]
<1>1. /\ Followup!Validates("manual-control", a) /\ Followup!Validates("manual-gate-probe", b)
      /\ Followup!Validates("managed-gate-probe", c) /\ Followup!Validates("managed-control", d)
      /\ Followup!Validates("managed-policy-suppressed", e)
      /\ Followup!Validates("managed-action-write-suppressed", f)
  BY DEF Followup!Scenarios
<1> HIDE DEF a, b, c, d, e, f
<1>2. a.delta > 0 /\ a.action = 0
  BY <1>1, Zenon DEF Followup!Validates, Followup!Signs
<1>3. b.delta > 0 /\ b.targetMet /\ b.marker = 0
  BY <1>1, Zenon DEF Followup!Validates, Followup!Signs
<1>4. c.marker # 0
  BY <1>1, Zenon DEF Followup!Validates, Followup!Signs
<1>5. d.action # 0
  BY <1>1, Zenon DEF Followup!Validates, Followup!Signs
<1>6. e.delta > 0 /\ e.action = 0
  BY <1>1, Zenon DEF Followup!Validates, Followup!Signs
<1>7. f.slot # 0 /\ f.action = 0
  BY <1>1, Zenon DEF Followup!Validates, Followup!Signs
<1>8. /\ Followup!Causality(t).manual_turn_progress_witnessed
      /\ Followup!Causality(t).manual_gate_probe_turn_progress_witnessed
      /\ Followup!Causality(t).manual_gate_probe_progress_target_met
      /\ Followup!Causality(t).policy_suppressed_turn_progress_witnessed
      /\ Followup!Causality(t).manual_stays_idle
      /\ Followup!Causality(t).manual_does_not_reach_gate_policy_call
      /\ Followup!Causality(t).managed_reaches_gate_policy_call
      /\ Followup!Causality(t).override_path_inactive_for_manual_probe
      /\ Followup!Causality(t).managed_commits_action
      /\ Followup!Causality(t).gate_policy_call_is_necessary
      /\ Followup!Causality(t).selection_survives_action_write_suppression
      /\ Followup!Causality(t).action_write_is_commit_seam
  <2>1. Followup!Causality(t).manual_turn_progress_witnessed
    BY <1>2, Zenon DEF Followup!Causality, a, b, c, d, e, f
  <2>2. Followup!Causality(t).manual_gate_probe_turn_progress_witnessed
    BY <1>3, Zenon DEF Followup!Causality, a, b, c, d, e, f
  <2>3. Followup!Causality(t).manual_gate_probe_progress_target_met
    BY <1>3, Zenon DEF Followup!Causality, a, b, c, d, e, f
  <2>4. Followup!Causality(t).policy_suppressed_turn_progress_witnessed
    BY <1>6, Zenon DEF Followup!Causality, a, b, c, d, e, f
  <2>5. Followup!Causality(t).manual_stays_idle
    BY <1>2, Zenon DEF Followup!Causality, a, b, c, d, e, f
  <2>6. Followup!Causality(t).manual_does_not_reach_gate_policy_call
    BY <1>3, Zenon DEF Followup!Causality, a, b, c, d, e, f
  <2>7. Followup!Causality(t).managed_reaches_gate_policy_call
    BY <1>4, Zenon DEF Followup!Causality, a, b, c, d, e, f
  <2>8. Followup!Causality(t).override_path_inactive_for_manual_probe
    BY <1>3, <1>4, Zenon DEF Followup!Causality, a, b, c, d, e, f
  <2>9. Followup!Causality(t).managed_commits_action
    BY <1>5, Zenon DEF Followup!Causality, a, b, c, d, e, f
  <2>10. Followup!Causality(t).gate_policy_call_is_necessary
    BY <1>6, Zenon DEF Followup!Causality, a, b, c, d, e, f
  <2>11. Followup!Causality(t).selection_survives_action_write_suppression
    BY <1>7, Zenon DEF Followup!Causality, a, b, c, d, e, f
  <2>12. Followup!Causality(t).action_write_is_commit_seam
    BY <1>7, Zenon DEF Followup!Causality, a, b, c, d, e, f
  <2>13. QED
    BY <2>1, <2>2, <2>3, <2>4, <2>5, <2>6, <2>7, <2>8, <2>9, <2>10, <2>11, <2>12
<1>9. DOMAIN Followup!Causality(t) =
        {"manual_turn_progress_witnessed", "manual_gate_probe_turn_progress_witnessed",
         "manual_gate_probe_progress_target_met", "policy_suppressed_turn_progress_witnessed",
         "manual_stays_idle", "manual_does_not_reach_gate_policy_call",
         "managed_reaches_gate_policy_call", "override_path_inactive_for_manual_probe",
         "managed_commits_action", "gate_policy_call_is_necessary",
         "selection_survives_action_write_suppression", "action_write_is_commit_seam"}
  BY DEF Followup!Causality
<1>10. QED
  BY <1>8, <1>9

\* What is aggregated, and a set that passes, supports every claim.
LEMMA ArtifactsSupport ==
  ASSUME NEW artifacts
  PROVE  /\ Followup!Aggregates(artifacts, "this") =>
              LET claims == Followup!Causality([s \in Followup!Scenarios |-> artifacts[s].trace])
              IN  \A claim \in DOMAIN claims : claims[claim]
         /\ LET traces == [s \in Followup!Scenarios |-> artifacts[s].trace]
                all == Followup!RunAll(traces)
            IN  /\ (\E s \in Followup!Scenarios : ~Followup!Validates(s, traces[s])) => all.status # "passed"
                /\ all.status = "passed" => \A claim \in DOMAIN all.claims : all.claims[claim]
<1> DEFINE traces == [s \in Followup!Scenarios |-> artifacts[s].trace]
<1>1. \A s \in Followup!Scenarios : traces[s] = artifacts[s].trace
  OBVIOUS
<1> HIDE DEF traces
<1>2. ASSUME Followup!Aggregates(artifacts, "this")
      PROVE  \A claim \in DOMAIN Followup!Causality(traces) : Followup!Causality(traces)[claim]
  <2>1. \A s \in Followup!Scenarios : Followup!Validates(s, traces[s])
    BY <1>1, <1>2 DEF Followup!Aggregates, Followup!ArtifactUsable
  <2>2. QED
    BY <2>1, ClaimsFollow
<1> DEFINE order == Followup!ScenarioOrder
           status(n) == Followup!Classify(order[n], traces[order[n]])
           short == {n \in 1..Len(order) : status(n) # "passed"}
           first == CHOOSE k \in short : \A l \in short : k <= l
<1>3. /\ short = {} => Followup!RunAll(traces) =
                         [status |-> "passed", judged |-> Len(order), claims |-> Followup!Causality(traces)]
      /\ short # {} => Followup!RunAll(traces) = [status |-> status(first), judged |-> first, claims |-> << >>]
  BY DEF Followup!RunAll
<1>4. \A s \in Followup!Scenarios : \E n \in 1..Len(order) : order[n] = s
  BY DEF Followup!Scenarios, Followup!ScenarioOrder
<1>5. \A n \in 1..Len(order) : status(n) = "passed" <=> Followup!Validates(order[n], traces[order[n]])
  <2>1. \A s, t : Followup!Classify(s, t) = "passed" <=> Followup!Validates(s, t)
    BY Zenon DEF Followup!Classify
  <2>2. QED
    BY <2>1
<1>6. short # {} => status(first) # "passed"
  <2>1. ASSUME short # {} PROVE first \in short
    <3>1. Len(order) = 6
      BY DEF Followup!ScenarioOrder
    <3>2. \E k \in short : \A l \in short : k <= l
      <4>1. short \in SUBSET Nat
        BY <3>1
      <4> HIDE DEF short
      <4>2. QED
        BY <2>1, <4>1, Least
    <3> HIDE DEF short
    <3>3. QED
      BY <3>2
  <2>2. QED
    BY <2>1
<1>7. (\E s \in Followup!Scenarios : ~Followup!Validates(s, traces[s])) => short # {}
  BY <1>4, <1>5
<1> HIDE DEF order, status, short, first
<1>8. ASSUME short = {} PROVE \A s \in Followup!Scenarios : Followup!Validates(s, traces[s])
  BY <1>7, <1>8
<1>9. ASSUME short = {}
      PROVE  \A claim \in DOMAIN Followup!RunAll(traces).claims : Followup!RunAll(traces).claims[claim]
  BY <1>3, <1>8, <1>9, ClaimsFollow
<1>10. short # {} => Followup!RunAll(traces).status = status(first)
  BY <1>3
<1>11. QED
  BY <1>2, <1>6, <1>7, <1>9, <1>10 DEF traces
-----------------------------------------------------------------------------
(* Lifetime records.                                                        *)

Witnesses ==
  [planet : Planets, basis : {"bounded-record-metadata", "presentation-name"},
   metadata : Contents \cup {<<>>}, declared : Contents, offset : Nat, length : Nat]

QualificationPoints ==
  [seq : Nat, pointer : Int, logical : Planets, base : Nat, count : Nat, index : Nat,
   witness : Witnesses]

ReuseEvents ==
  [seq : Nat, kind : {"record-pointer-reuse", "index-reassignment", "other-identity-reuse"},
   before : Planets, after : Planets, beforeDigest : Contents, afterDigest : Contents,
   pointer : Nat, base : Nat, index : Nat, identity : {"epoch", ""}]

Signals == [before : Nat, after : Nat, seq : Nat]
SignalNames == {"epoch_signal", "reuse_detector_signal", "other_invalidation_signal"}

\* A step with points among names; the fields of a leg only where it has them.
StepFits(s, names) ==
  /\ {"label", "replacement", "basis", "weak", "points"} \subseteq DOMAIN s
  /\ s.label \in Oracle!RequiredTransitions
  /\ DOMAIN s.points \subseteq names
  /\ s.points \in [DOMAIN s.points -> QualificationPoints]

LegFits(s) ==
  /\ StepFits(s, {"pre", "post"})
  /\ s.label \in Oracle!ReplacementTransitions
  /\ {"event", "signals"} \subseteq DOMAIN s
  /\ s.event \in ReuseEvents /\ s.signals \in [SignalNames -> Signals]

ControlFits(s) == StepFits(s, {"first", "second", "return"})

\* A record keeps its three steps, in their places.
LifetimeInv(d) ==
  /\ {"record", "input", "expected"} \subseteq DOMAIN d /\ "transitions" \in DOMAIN d.record
  /\ d.record.transitions \in Seq({d.record.transitions[i] : i \in 1..3})
  /\ Len(d.record.transitions) = 3
  /\ ControlFits(d.record.transitions[1])
  /\ LegFits(d.record.transitions[2]) /\ LegFits(d.record.transitions[3])

\* Editing a witness leaves a witness.
LEMMA WitnessEdited ==
  ASSUME NEW w \in Witnesses, NEW e \in WitnessEdits(w)
  PROVE  e \in Witnesses
<1>1. CASE \E p \in Planets : e = [w EXCEPT !.planet = p]
  BY <1>1 DEF Witnesses
<1>2. CASE e = [w EXCEPT !.basis = "presentation-name"]
  BY <1>2 DEF Witnesses
<1>3. CASE \E c \in Contents \cup {<<>>} : e = [w EXCEPT !.metadata = c]
  BY <1>3 DEF Witnesses
<1>4. CASE \E c \in Contents : e = [w EXCEPT !.declared = c]
  BY <1>4 DEF Witnesses
<1>5. CASE e \in {[w EXCEPT !.offset = 40], [w EXCEPT !.length = 4]}
  BY <1>5 DEF Witnesses
<1>6. QED
  BY <1>1, <1>2, <1>3, <1>4, <1>5 DEF WitnessEdits

\* Editing a point leaves a point.
LEMMA PointEdited ==
  ASSUME NEW p \in QualificationPoints, NEW e \in PointEdits(p)
  PROVE  e \in QualificationPoints
<1>1. CASE \E n \in 0..4 : e = [p EXCEPT !.seq = n]
  BY <1>1 DEF QualificationPoints
<1>2. CASE \E n \in {-1, 100, 200} : e = [p EXCEPT !.pointer = n]
  BY <1>2 DEF QualificationPoints
<1>3. CASE \E planet \in Planets : e = [p EXCEPT !.logical = planet]
  BY <1>3 DEF QualificationPoints
<1>4. CASE e \in {[p EXCEPT !.base = 0], [p EXCEPT !.count = 0], [p EXCEPT !.index = 0],
                  [p EXCEPT !.index = 2]}
  BY <1>4 DEF QualificationPoints
<1>5. CASE \E w \in WitnessEdits(p.witness) : e = [p EXCEPT !.witness = w]
  <2>1. PICK w \in WitnessEdits(p.witness) : e = [p EXCEPT !.witness = w]
    BY <1>5
  <2>2. w \in Witnesses
    BY <2>1, WitnessEdited DEF QualificationPoints
  <2>3. QED
    BY <2>1, <2>2 DEF QualificationPoints
<1>6. QED
  BY <1>1, <1>2, <1>3, <1>4, <1>5 DEF PointEdits

\* Editing an event leaves an event.
LEMMA EventEdited ==
  ASSUME NEW v \in ReuseEvents, NEW e \in EventEdits(v)
  PROVE  e \in ReuseEvents
<1>1. CASE \E n \in 0..4 : e = [v EXCEPT !.seq = n]
  <2>1. PICK n \in 0..4 : e = [v EXCEPT !.seq = n]
    BY <1>1
  <2>2. n \in Nat
    OBVIOUS
  <2>3. QED
    BY <2>1, <2>2 DEF ReuseEvents
<1>2. CASE \E planet \in Planets : e = [v EXCEPT !.before = planet]
  BY <1>2 DEF ReuseEvents
<1>3. CASE \E planet \in Planets : e = [v EXCEPT !.after = planet]
  BY <1>3 DEF ReuseEvents
<1>4. CASE \E c \in Contents : e = [v EXCEPT !.beforeDigest = c]
  BY <1>4 DEF ReuseEvents
<1>5. CASE \E c \in Contents : e = [v EXCEPT !.afterDigest = c]
  BY <1>5 DEF ReuseEvents
<1>6. CASE e \in {[v EXCEPT !.kind = "index-reassignment"], [v EXCEPT !.pointer = 200],
                  [v EXCEPT !.base = 0], [v EXCEPT !.index = 0],
                  [v EXCEPT !.identity = ""]}
  <2>1. CASE e = [v EXCEPT !.kind = "index-reassignment"]
    BY <2>1 DEF ReuseEvents
  <2>2. CASE e = [v EXCEPT !.pointer = 200]
    BY <2>2 DEF ReuseEvents
  <2>3. CASE e = [v EXCEPT !.base = 0]
    BY <2>3 DEF ReuseEvents
  <2>4. CASE e = [v EXCEPT !.index = 0]
    BY <2>4 DEF ReuseEvents
  <2>5. CASE e = [v EXCEPT !.identity = ""]
    BY <2>5 DEF ReuseEvents
  <2>6. QED
    BY <1>6, <2>1, <2>2, <2>3, <2>4, <2>5
<1>7. QED
  BY <1>1, <1>2, <1>3, <1>4, <1>5, <1>6 DEF EventEdits

\* What an edit of the points of a step, or of its other fields, leaves alone.
LEMMA StepEdited ==
  ASSUME NEW s, NEW names, StepFits(s, names), NEW e \in StepEdits(s)
  PROVE  /\ StepFits(e, names)
         /\ DOMAIN e = DOMAIN s
         /\ e.label \in {s.label, "new-game-reset"}
         /\ "event" \in DOMAIN s => e.event = s.event
         /\ "signals" \in DOMAIN s => e.signals = s.signals
<1> DEFINE Same == /\ DOMAIN e = DOMAIN s
                   /\ "event" \in DOMAIN s => e.event = s.event
                   /\ "signals" \in DOMAIN s => e.signals = s.signals
<1>1. {"label", "replacement", "basis", "weak", "points"} \subseteq DOMAIN s
  BY DEF StepFits
<1>2. ASSUME Same, e.label = s.label, DOMAIN e.points \subseteq names,
             e.points \in [DOMAIN e.points -> QualificationPoints]
      PROVE  StepFits(e, names) /\ Same /\ e.label \in {s.label, "new-game-reset"}
  BY <1>2 DEF StepFits
<1>3. CASE \E n \in DOMAIN s.points : \E p \in PointEdits(s.points[n]) : e = [s EXCEPT !.points[n] = p]
  <2>1. PICK n \in DOMAIN s.points : \E p \in PointEdits(s.points[n]) : e = [s EXCEPT !.points[n] = p]
    BY <1>3
  <2>2. PICK p \in PointEdits(s.points[n]) : e = [s EXCEPT !.points[n] = p]
    BY <2>1
  <2>3. s.points[n] \in QualificationPoints
    BY DEF StepFits
  <2>4. p \in QualificationPoints
    BY <2>3, PointEdited
  <2>5. Same /\ e.label = s.label /\ e.points = [s.points EXCEPT ![n] = p]
    BY <2>2, <1>1
  <2>6. DOMAIN e.points \subseteq names /\ e.points \in [DOMAIN e.points -> QualificationPoints]
    BY <2>4, <2>5 DEF StepFits
  <2>7. QED
    BY <2>5, <2>6, <1>2
<1>4. CASE \E n \in DOMAIN s.points :
             e = [s EXCEPT !.points = [m \in DOMAIN s.points \ {n} |-> s.points[m]]]
  <2>1. PICK n \in DOMAIN s.points :
          e = [s EXCEPT !.points = [m \in DOMAIN s.points \ {n} |-> s.points[m]]]
    BY <1>4
  <2>2. Same /\ e.label = s.label /\ e.points = [m \in DOMAIN s.points \ {n} |-> s.points[m]]
    BY <2>1, <1>1
  <2>3. DOMAIN e.points \subseteq names /\ e.points \in [DOMAIN e.points -> QualificationPoints]
    BY <2>2 DEF StepFits
  <2>4. QED
    BY <2>2, <2>3, <1>2
<1>5. CASE e \in {[s EXCEPT !.replacement = ~@], [s EXCEPT !.weak = {"post-hoc"}]}
  <2>1. Same /\ e.label = s.label /\ e.points = s.points
    BY <1>5, <1>1
  <2>2. QED
    BY <2>1, <1>2 DEF StepFits
<1>6. CASE e = [s EXCEPT !.label = "new-game-reset"]
  <2>1. Same /\ e.label = "new-game-reset" /\ e.points = s.points
    BY <1>6, <1>1
  <2>2. QED
    BY <2>1 DEF StepFits, Oracle!RequiredTransitions, Oracle!ReplacementTransitions
<1>7. CASE \E b : e = [s EXCEPT !.basis = b]
  <2>1. Same /\ e.label = s.label /\ e.points = s.points
    BY <1>7, <1>1
  <2>2. QED
    BY <2>1, <1>2 DEF StepFits
<1>8. QED
  <2>1. \/ \E n \in DOMAIN s.points : e \in {[s EXCEPT !.points[n] = p] : p \in PointEdits(s.points[n])}
        \/ \E n \in DOMAIN s.points : e = [s EXCEPT !.points = [m \in DOMAIN s.points \ {n} |-> s.points[m]]]
        \/ e \in {[s EXCEPT !.replacement = ~@], [s EXCEPT !.weak = {"post-hoc"}],
                  [s EXCEPT !.label = "new-game-reset"]}
        \/ e \in {[s EXCEPT !.basis = b] : b \in {"none", "epoch", "reuse-detector", "other"}}
    BY DEF StepEdits
  <2>2. QED
    BY <2>1, <1>3, <1>4, <1>5, <1>6, <1>7

\* A leg stays a leg.
LEMMA LegEdited ==
  ASSUME NEW s, LegFits(s), NEW e \in LegEdits(s)
  PROVE  LegFits(e)
<1>1. StepFits(s, {"pre", "post"}) /\ {"event", "signals"} \subseteq DOMAIN s
  BY DEF LegFits
<1>2. CASE e \in StepEdits(s)
  BY <1>1, <1>2, StepEdited DEF LegFits, Oracle!ReplacementTransitions
<1>3. ASSUME DOMAIN e = DOMAIN s, e.label = s.label, e.points = s.points,
             e.event \in ReuseEvents, e.signals \in [SignalNames -> Signals]
      PROVE  LegFits(e)
  BY <1>3 DEF LegFits, StepFits
<1>4. {"label", "points", "event", "signals"} \subseteq DOMAIN s
      /\ s.event \in ReuseEvents /\ s.signals \in [SignalNames -> Signals]
  BY DEF LegFits, StepFits
<1>5. CASE \E v \in EventEdits(s.event) : e = [s EXCEPT !.event = v]
  <2>1. PICK v \in EventEdits(s.event) : e = [s EXCEPT !.event = v]
    BY <1>5
  <2>2. v \in ReuseEvents
    BY <1>4, EventEdited
  <2>3. QED
    BY <1>3, <1>4, <2>1, <2>2
<1>6. CASE \E n \in DOMAIN s.signals, t \in 0..4 : e = [s EXCEPT !.signals[n].seq = t]
  <2>1. PICK n \in DOMAIN s.signals, t \in 0..4 : e = [s EXCEPT !.signals[n].seq = t]
    BY <1>6
  <2>2. [s.signals EXCEPT ![n].seq = t] \in [SignalNames -> Signals]
    BY <1>4 DEF Signals
  <2>3. QED
    BY <1>3, <1>4, <2>1, <2>2
<1>7. CASE \E n \in DOMAIN s.signals : e = [s EXCEPT !.signals[n].after = s.signals[n].before]
  <2>1. PICK n \in DOMAIN s.signals : e = [s EXCEPT !.signals[n].after = s.signals[n].before]
    BY <1>7
  <2>2. [s.signals EXCEPT ![n].after = s.signals[n].before] \in [SignalNames -> Signals]
    BY <1>4 DEF Signals
  <2>3. QED
    BY <1>3, <1>4, <2>1, <2>2
<1>8. QED
  <2>1. \/ e \in StepEdits(s)
        \/ e \in {[s EXCEPT !.event = v] : v \in EventEdits(s.event)}
        \/ e \in {[s EXCEPT !.signals[n].seq = t] : n \in DOMAIN s.signals, t \in 0..4}
        \/ e \in {[s EXCEPT !.signals[n].after = s.signals[n].before] : n \in DOMAIN s.signals}
    BY DEF LegEdits
  <2>2. QED
    BY <2>1, <1>2, <1>5, <1>6, <1>7

\* A record keeps its legs, whatever field of it is edited.
LEMMA LifetimeEdited ==
  ASSUME NEW d, LifetimeInv(d), NEW e \in LifetimeEdits(d)
  PROVE  LifetimeInv(e)
<1> DEFINE r == d.record
           tr == r.transitions
<1>1. /\ {"record", "input", "expected"} \subseteq DOMAIN d /\ "transitions" \in DOMAIN r
      /\ Len(tr) = 3 /\ DOMAIN tr = 1..3
      /\ ControlFits(tr[1]) /\ LegFits(tr[2]) /\ LegFits(tr[3])
  BY DEF LifetimeInv
<1>2. ASSUME NEW q, e = [d EXCEPT !.record = q], "transitions" \in DOMAIN q,
             NEW t, q.transitions = t, t = [i \in 1..3 |-> t[i]],
             ControlFits(t[1]), LegFits(t[2]), LegFits(t[3])
      PROVE  LifetimeInv(e)
  <2>1. t \in Seq({t[i] : i \in 1..3}) /\ Len(t) = 3
    BY <1>2
  <2>2. e.record = q /\ DOMAIN e = DOMAIN d
    BY <1>1, <1>2
  <2> HIDE DEF r, tr
  <2>3. QED
    BY <1>1, <1>2, <2>1, <2>2 DEF LifetimeInv
<1>3. tr = [i \in 1..3 |-> tr[i]]
  BY DEF LifetimeInv
<1>4. CASE \E q \in RecordEditsOf(r) : e = [d EXCEPT !.record = q]
  <2>1. PICK q \in RecordEditsOf(r) : e = [d EXCEPT !.record = q]
    BY <1>4
  <2>2. CASE \E s \in LegEdits(tr[2]) : q = [r EXCEPT !.transitions[2] = s]
    <3>1. PICK s \in LegEdits(tr[2]) : q = [r EXCEPT !.transitions[2] = s]
      BY <2>2
    <3>2. LegFits(s)
      BY <1>1, LegEdited
    <3>3. q.transitions = [tr EXCEPT ![2] = s] /\ "transitions" \in DOMAIN q
      BY <1>1, <3>1
    <3> HIDE DEF r, tr
    <3>4. /\ q.transitions = [i \in 1..3 |-> q.transitions[i]]
          /\ q.transitions[1] = tr[1] /\ q.transitions[2] = s /\ q.transitions[3] = tr[3]
      <4> DEFINE t == q.transitions
      <4>1. DOMAIN t = 1..3 /\ \A i \in 1..3 : t[i] = IF i = 2 THEN s ELSE tr[i]
        BY <1>1, <3>3
      <4>2. t = [i \in DOMAIN t |-> t[i]]
        BY <3>3
      <4> HIDE DEF t
      <4>3. t = [i \in 1..3 |-> t[i]]
        BY <4>1, <4>2
      <4>4. t[1] = tr[1] /\ t[2] = s /\ t[3] = tr[3]
        BY <4>1
      <4>5. QED
        BY <4>3, <4>4 DEF t
    <3>5. QED
      BY <1>1, <1>2, <2>1, <3>2, <3>3, <3>4
  <2>3. CASE \E s \in StepEdits(tr[1]) : q = [r EXCEPT !.transitions[1] = s]
    <3>1. PICK s \in StepEdits(tr[1]) : q = [r EXCEPT !.transitions[1] = s]
      BY <2>3
    <3>2. ControlFits(s)
      BY <1>1, StepEdited DEF ControlFits
    <3>3. q.transitions = [tr EXCEPT ![1] = s] /\ "transitions" \in DOMAIN q
      BY <1>1, <3>1
    <3> HIDE DEF r, tr
    <3>4. /\ q.transitions = [i \in 1..3 |-> q.transitions[i]]
          /\ q.transitions[1] = s /\ q.transitions[2] = tr[2] /\ q.transitions[3] = tr[3]
      <4> DEFINE t == q.transitions
      <4>1. DOMAIN t = 1..3 /\ \A i \in 1..3 : t[i] = IF i = 1 THEN s ELSE tr[i]
        BY <1>1, <3>3
      <4>2. t = [i \in DOMAIN t |-> t[i]]
        BY <3>3
      <4> HIDE DEF t
      <4>3. t = [i \in 1..3 |-> t[i]]
        BY <4>1, <4>2
      <4>4. t[1] = s /\ t[2] = tr[2] /\ t[3] = tr[3]
        BY <4>1
      <4>5. QED
        BY <4>3, <4>4 DEF t
    <3>5. QED
      BY <1>1, <1>2, <2>1, <3>2, <3>3, <3>4
  <2>4. ASSUME q.transitions = tr, "transitions" \in DOMAIN q
        PROVE  LifetimeInv(e)
    <3> HIDE DEF r, tr
    <3>1. QED
      BY <1>1, <1>2, <1>3, <2>1, <2>4
  <2>5. CASE \/ \E o : q = [r EXCEPT !.outcome = o]
             \/ \E c : q = [r EXCEPT !.claims = @ \ {c}]
             \/ q \in {[r EXCEPT !.controlPassed = FALSE], [r EXCEPT !.failsClosed = FALSE]}
             \/ \E f : q = [r EXCEPT !.source[f] = "other"]
    <3>1. q.transitions = tr /\ "transitions" \in DOMAIN q
      <4> HIDE DEF r
      <4>1. QED
        BY <1>1, <2>5
    <3>2. QED
      BY <2>4, <3>1
  <2>6. QED
    <3>1. \/ q \in {[r EXCEPT !.transitions[2] = s] : s \in LegEdits(tr[2])}
          \/ q \in {[r EXCEPT !.transitions[1] = s] : s \in StepEdits(tr[1])}
          \/ q \in {[r EXCEPT !.outcome = o] : o \in Oracle!Outcomes}
          \/ q \in {[r EXCEPT !.claims = @ \ {c}] : c \in r.claims}
          \/ q \in {[r EXCEPT !.controlPassed = FALSE], [r EXCEPT !.failsClosed = FALSE]}
          \/ q \in {[r EXCEPT !.source[f] = "other"] : f \in Oracle!SourceFields}
      BY DEF RecordEditsOf
    <3> HIDE DEF r
    <3>2. QED
      BY <3>1, <2>2, <2>3, <2>5
<1>5. CASE \E i \in InputEdits(d.input) : e = [d EXCEPT !.input = i]
  <2>1. e.record = d.record /\ DOMAIN e = DOMAIN d
    BY <1>1, <1>5
  <2>2. QED
    BY <2>1 DEF LifetimeInv
<1>6. CASE e = [d EXCEPT !.expected["schema"] = "other"]
  <2>1. e.record = d.record /\ DOMAIN e = DOMAIN d
    BY <1>1, <1>6
  <2>2. QED
    BY <2>1 DEF LifetimeInv
<1>7. QED
  BY <1>4, <1>5, <1>6 DEF LifetimeEdits

\* The points and the legs TLC starts from.
LEMMA PointFits ==
  ASSUME NEW schema, NEW seq \in Nat, NEW pointer \in Nat, NEW planet \in Planets
  PROVE  Point(schema, seq, pointer, planet) \in QualificationPoints
<1> DEFINE w == [planet |-> planet, basis |-> "bounded-record-metadata",
                 metadata |-> IF schema = "v1" THEN Bytes[planet] ELSE <<>>,
                 declared |-> Bytes[planet], offset |-> 0, length |-> 1]
<1>1. Bytes[planet] \in Contents
  BY DEF Contents
<1>2. w \in Witnesses
  <2>1. (IF schema = "v1" THEN Bytes[planet] ELSE <<>>) \in Contents \cup {<<>>}
    BY <1>1
  <2>2. QED
    BY <1>1, <2>1 DEF Witnesses
<1> HIDE DEF w
<1>3. [seq |-> seq, pointer |-> pointer, logical |-> planet, base |-> 8, count |-> 2, index |-> 1,
       witness |-> w] \in QualificationPoints
  BY <1>2 DEF QualificationPoints
<1>4. QED
  BY <1>3 DEF Point, w

\* A replacement of the records TLC starts from is a leg.
LEMMA ReplacementStepFits ==
  ASSUME NEW label \in Oracle!ReplacementTransitions, NEW schema,
         NEW outcome \in DOMAIN Oracle!AcceptedBasis, NEW basis
  PROVE  LegFits(ReplacementStep(label, schema, outcome, basis))
<1> DEFINE points == [pre |-> Point(schema, 1, 100, "A"), post |-> Point(schema, 4, 100, "B")]
           event == [seq |-> 3, kind |-> Oracle!ReuseEventKind[outcome], before |-> "A", after |-> "B",
                     beforeDigest |-> Bytes["A"], afterDigest |-> Bytes["B"],
                     pointer |-> 100, base |-> 8, index |-> 1, identity |-> "epoch"]
           signals == [s \in {"epoch_signal", "reuse_detector_signal", "other_invalidation_signal"} |->
                         [before |-> 1, after |-> 2, seq |-> 2]]
           step == [label |-> label, replacement |-> TRUE, basis |-> basis, weak |-> {},
                    points |-> points, event |-> event, signals |-> signals]
<1>1. "A" \in Planets /\ "B" \in Planets /\ Bytes["A"] \in Contents /\ Bytes["B"] \in Contents
  BY DEF Planets, Contents
<1>2. Point(schema, 1, 100, "A") \in QualificationPoints /\ Point(schema, 4, 100, "B") \in QualificationPoints
  BY <1>1, PointFits
<1>3. DOMAIN points = {"pre", "post"} /\ points \in [{"pre", "post"} -> QualificationPoints]
  BY <1>2
<1>4. event \in ReuseEvents
  <2>1. Oracle!ReuseEventKind[outcome] \in {"record-pointer-reuse", "index-reassignment", "other-identity-reuse"}
    BY DEF Oracle!ReuseEventKind
  <2>2. QED
    BY <1>1, <2>1 DEF ReuseEvents
<1>5. signals \in [SignalNames -> Signals]
  BY DEF SignalNames, Signals
<1>6. step = ReplacementStep(label, schema, outcome, basis)
  BY DEF ReplacementStep
<1> HIDE DEF points, event, signals
<1>7. /\ {"label", "replacement", "basis", "weak", "points", "event", "signals"} \subseteq DOMAIN step
      /\ step.label = label /\ step.points = points /\ step.event = event /\ step.signals = signals
  OBVIOUS
<1> HIDE DEF step
<1>8. LegFits(step)
  BY <1>3, <1>4, <1>5, <1>7 DEF LegFits, StepFits, Oracle!RequiredTransitions
<1>9. QED
  BY <1>6, <1>8

\* The records TLC starts from have two legs after the control.
LEMMA LifetimeDocsFit ==
  ASSUME NEW d \in LifetimeDocs
  PROVE  LifetimeInv(d)
<1>1. \E outcome \in DOMAIN Oracle!AcceptedBasis : \E schema, basis :
        d = [record |-> GoodRecord(schema, outcome, basis), input |-> Input(schema), expected |-> ExpectedSource]
  <2>1. PICK k \in { <<"v1", "positive-epoch-pointer", "epoch+reuse-detector">>,
                     <<"v2", "positive-epoch-pointer", "reuse-detector">>,
                     <<"v2", "positive-epoch-index", "epoch">>,
                     <<"v1", "positive-other", "other">> } :
          d = [record |-> GoodRecord(k[1], k[2], k[3]), input |-> Input(k[1]), expected |-> ExpectedSource]
    BY DEF LifetimeDocs
  <2>2. k[2] \in DOMAIN Oracle!AcceptedBasis
    BY DEF Oracle!AcceptedBasis
  <2>3. QED
    BY <2>1, <2>2
<1>2. PICK outcome \in DOMAIN Oracle!AcceptedBasis : \E schema, basis :
        d = [record |-> GoodRecord(schema, outcome, basis), input |-> Input(schema), expected |-> ExpectedSource]
  BY <1>1
<1>3. PICK schema, basis :
        d = [record |-> GoodRecord(schema, outcome, basis), input |-> Input(schema), expected |-> ExpectedSource]
  BY <1>2
<1> DEFINE control(n) == CASE n = "first"  -> Point(schema, 1, 100, "A")
                           [] n = "second" -> Point(schema, 2, 200, "B")
                           [] n = "return" -> Point(schema, 3, 100, "A")
           points == [n \in {"first", "second", "return"} |-> control(n)]
           first == [label |-> "selection-control", replacement |-> FALSE, basis |-> "none", weak |-> {},
                     points |-> points]
           reset == ReplacementStep("new-game-reset", schema, outcome, basis)
           load == ReplacementStep("save-load-replacement", schema, outcome, basis)
           record == [outcome |-> outcome, source |-> This, controlPassed |-> TRUE, failsClosed |-> TRUE,
                      claims |-> {"epoch_boundary_established", "reuse_detector_established",
                                  "array_base_established", "array_count_established",
                                  "stable_index_established"},
                      transitions |-> <<first, reset, load>>]
<1>4. GoodRecord(schema, outcome, basis) = record
  BY Zenon DEF GoodRecord
<1>5. LegFits(reset) /\ LegFits(load)
  BY ReplacementStepFits DEF Oracle!ReplacementTransitions
<1>6. DOMAIN points = {"first", "second", "return"}
      /\ points \in [{"first", "second", "return"} -> QualificationPoints]
  <2>1. "A" \in Planets /\ "B" \in Planets
    BY DEF Planets
  <2>2. /\ Point(schema, 1, 100, "A") \in QualificationPoints
        /\ Point(schema, 2, 200, "B") \in QualificationPoints
        /\ Point(schema, 3, 100, "A") \in QualificationPoints
    BY <2>1, PointFits
  <2>3. /\ control("first") = Point(schema, 1, 100, "A") /\ control("second") = Point(schema, 2, 200, "B")
        /\ control("return") = Point(schema, 3, 100, "A")
    BY Zenon
  <2> HIDE DEF control
  <2>4. QED
    BY <2>2, <2>3
<1>7. ControlFits(first)
  <2> HIDE DEF points
  <2>1. /\ {"label", "replacement", "basis", "weak", "points"} \subseteq DOMAIN first
        /\ first.label = "selection-control" /\ first.points = points
    OBVIOUS
  <2> HIDE DEF first
  <2>2. QED
    BY <1>6, <2>1 DEF ControlFits, StepFits, Oracle!RequiredTransitions
<1>8. /\ {"record", "input", "expected"} \subseteq DOMAIN d /\ d.record = record
  BY <1>3, <1>4
<1> HIDE DEF first, reset, load
<1>9. "transitions" \in DOMAIN record /\ record.transitions = <<first, reset, load>>
  OBVIOUS
<1> HIDE DEF record
<1>10. QED
  BY <1>5, <1>7, <1>8, <1>9 DEF LifetimeInv

\* A basis that an outcome accepts rests on a signal.
LEMMA BasisHasSignals ==
  ASSUME NEW outcome, Oracle!Positive(outcome), NEW basis \in Oracle!AcceptedBasis[outcome]
  PROVE  \E n : n \in Oracle!SignalsOf(basis)
<1>1. basis \in {"epoch", "reuse-detector", "epoch+reuse-detector", "other"}
  BY DEF Oracle!AcceptedBasis, Oracle!Positive
<1>2. CASE basis = "epoch"
  BY <1>2, Zenon DEF Oracle!SignalsOf
<1>3. CASE basis = "reuse-detector"
  <2>1. "reuse_detector_signal" \in Oracle!SignalsOf(basis)
    BY <1>3, Zenon DEF Oracle!SignalsOf
  <2>2. QED
    BY <2>1
<1>4. CASE basis = "epoch+reuse-detector"
  <2>1. "epoch_signal" \in Oracle!SignalsOf(basis)
    BY <1>4, Zenon DEF Oracle!SignalsOf
  <2>2. QED
    BY <2>1
<1>5. CASE basis = "other"
  <2>1. "other_invalidation_signal" \in Oracle!SignalsOf(basis)
    BY <1>5, Zenon DEF Oracle!SignalsOf
  <2>2. QED
    BY <2>1
<1>6. QED
  BY <1>1, <1>2, <1>3, <1>4, <1>5

\* An accepted leg: a cache dropped on its signals serves no replaced record.
LEMMA LegsFailClosed ==
  ASSUME NEW step, LegFits(step), NEW outcome, Oracle!Positive(outcome),
         step.basis \in Oracle!AcceptedBasis[outcome],
         NEW manifest, Oracle!ReplacementObserved(step, outcome, manifest)
  PROVE  LegFailsClosed(step, outcome)
<1> DEFINE pre == step.points["pre"]
           post == step.points["post"]
           event == step.event
<1>1. /\ {"pre", "post"} \subseteq DOMAIN step.points
      /\ pre.seq < post.seq
      /\ Oracle!ReuseEventValid(event, outcome, pre, post)
      /\ \A s \in Oracle!SignalsOf(step.basis) :
           s \in DOMAIN step.signals /\ Oracle!SignalValid(step.signals[s], pre.seq, event.seq)
  BY DEF Oracle!ReplacementObserved
<1>2. /\ pre.seq \in Nat /\ post.seq \in Nat /\ event.seq \in Nat
      /\ \A s \in DOMAIN step.signals : step.signals[s].seq \in Nat
  <2>1. pre \in QualificationPoints /\ post \in QualificationPoints
    BY <1>1 DEF LegFits, StepFits
  <2>2. event \in ReuseEvents /\ step.signals \in [SignalNames -> Signals]
    BY DEF LegFits
  <2>3. pre.seq \in Nat /\ post.seq \in Nat /\ event.seq \in Nat
    BY <2>1, <2>2 DEF QualificationPoints, ReuseEvents
  <2>4. \A s \in DOMAIN step.signals : step.signals[s].seq \in Nat
    BY <2>2 DEF Signals
  <2>5. QED
    BY <2>3, <2>4
<1>3. /\ pre.seq < event.seq /\ event.seq <= post.seq
      /\ event.before = pre.logical /\ event.after = post.logical /\ event.before # event.after
  BY <1>1 DEF Oracle!ReuseEventValid
<1>4. Key(outcome, pre) = Key(outcome, post)
  <2>1. CASE outcome = "positive-epoch-pointer"
    <3>1. pre.pointer = post.pointer
      BY <1>1, <2>1 DEF Oracle!ReuseEventValid
    <3>2. QED
      BY <2>1, <3>1, Zenon DEF Key
  <2>2. CASE outcome = "positive-epoch-index"
    <3>1. pre.base = post.base /\ pre.index = post.index
      BY <1>1, <2>2 DEF Oracle!ReuseEventValid
    <3>2. QED
      BY <2>2, <3>1, Zenon DEF Key
  <2>3. CASE outcome # "positive-epoch-pointer" /\ outcome # "positive-epoch-index"
    BY <2>3, Zenon DEF Key
  <2>4. QED
    BY <2>1, <2>2, <2>3
<1>5. \A t \in Nat : t < event.seq => HolderAt(step, t) = pre.logical
  BY <1>2, <1>3 DEF HolderAt
<1>6. HolderAt(step, post.seq) = post.logical
  BY <1>2, <1>3 DEF HolderAt
<1>7. ASSUME NEW t \in 0..4, EntryLivesAt(step, t)
      PROVE  HolderAt(step, t) = pre.logical
  <2>1. PICK n : n \in Oracle!SignalsOf(step.basis)
    BY BasisHasSignals
  <2>2. /\ step.signals[n].before # step.signals[n].after
        /\ pre.seq < step.signals[n].seq /\ step.signals[n].seq < event.seq
        /\ step.signals[n].seq \in Nat
    BY <1>1, <1>2, <2>1 DEF Oracle!SignalValid
  <2>3. ~(step.signals[n].seq < t)
    BY <1>7, <2>1, <2>2 DEF EntryLivesAt
  <2>4. t \in Nat /\ t < event.seq
    BY <1>2, <2>2, <2>3
  <2>5. QED
    BY <1>5, <2>4
<1>8. HolderAt(step, pre.seq) = pre.logical
  BY <1>2, <1>3, <1>5
<1>9. QED
  BY <1>3, <1>4, <1>6, <1>7, <1>8 DEF LegFailsClosed

\* A witness bound to the range of its record reads bytes of the record.
LEMMA BoundWitnessIsOffTheName ==
  ASSUME NEW p \in QualificationPoints, NEW manifest,
         Oracle!WitnessBound(p.witness, p.logical, manifest)
  PROVE  NoNameByte(p.witness.offset, p.witness.length)
<1> DEFINE offset == p.witness.offset
           length == p.witness.length
<1>1. offset \in Nat /\ length \in Nat
  BY DEF QualificationPoints, Witnesses
<1>2. Oracle!WitnessContract(manifest, p.logical) /\ manifest.ranges[p.logical].offset = offset
      /\ manifest.ranges[p.logical].length = length
  BY DEF Oracle!WitnessBound
<1> HIDE DEF offset, length
<1>3. /\ length > 0 /\ offset + length <= 123 /\ ~(offset < 68 /\ offset + length > 36)
  BY <1>1, <1>2 DEF Oracle!WitnessContract, Oracle!OverlapsName, Oracle!PlanetRecordSize,
     Oracle!PresentationNameOffset, Oracle!PresentationNameLength
<1>4. QED
  BY <1>1, <1>3, NoNameByteIsOffTheName DEF offset, length

\* The points of a step with a label of a leg, and those of the control, are
\* all qualified, so every witness of a v2 record is bound.
LEMMA LifetimeRecordsFailClosed ==
  ASSUME subject = "lifetime" => LifetimeInv(doc)
  PROVE  LifetimeFailsClosed
<1> DEFINE manifest == Oracle!BuildManifest(doc.input)
           r == doc.record
<1> SUFFICES ASSUME subject = "lifetime", Oracle!ValidRecord(r, manifest, doc.expected),
                    Oracle!Positive(r.outcome),
                    NEW i \in 1..Len(r.transitions)
             PROVE  /\ r.transitions[i].label \in Oracle!ReplacementTransitions =>
                         LegFailsClosed(r.transitions[i], r.outcome)
                    /\ manifest.schema = "v2" =>
                         \A n \in DOMAIN r.transitions[i].points :
                           LET w == r.transitions[i].points[n].witness
                           IN  w.declared = Bytes[r.transitions[i].points[n].logical]
                                 => NoNameByte(w.offset, w.length)
  BY DEF LifetimeFailsClosed
<1> HIDE DEF manifest
<1> DEFINE step == r.transitions[i]
<1>1. Oracle!PositiveContract(r, manifest, doc.expected)
  BY DEF Oracle!ValidRecord
<1>2. /\ Len(r.transitions) = 3 /\ ControlFits(r.transitions[1])
      /\ LegFits(r.transitions[2]) /\ LegFits(r.transitions[3])
  BY DEF LifetimeInv
<1>3. ControlFits(step) \/ LegFits(step)
  BY <1>2
<1>4. step.label \in Oracle!ReplacementTransitions =>
        /\ step.basis \in Oracle!AcceptedBasis[r.outcome]
        /\ Oracle!ReplacementObserved(step, r.outcome, manifest)
  BY <1>1 DEF Oracle!PositiveContract
<1>5. step.label \in Oracle!ReplacementTransitions => LegFits(step)
  <2>1. ASSUME step.label \in Oracle!ReplacementTransitions, ControlFits(step) PROVE FALSE
    <3>1. "pre" \in DOMAIN step.points
      BY <1>4, <2>1 DEF Oracle!ReplacementObserved
    <3>2. DOMAIN step.points \subseteq {"first", "second", "return"}
      BY <2>1 DEF ControlFits, StepFits
    <3>3. QED
      BY <3>1, <3>2
  <2>2. QED
    BY <1>3, <2>1
<1>6. step.label \in Oracle!ReplacementTransitions => LegFailsClosed(step, r.outcome)
  BY <1>4, <1>5, LegsFailClosed
<1>7. ASSUME manifest.schema = "v2", NEW n \in DOMAIN step.points
      PROVE  Oracle!WitnessBound(step.points[n].witness, step.points[n].logical, manifest)
  <2>1. CASE step.label \in Oracle!ReplacementTransitions
    <3>1. n \in {"pre", "post"}
      BY <1>5, <2>1 DEF LegFits, StepFits
    <3>2. Oracle!PointQualified(step.points["pre"], manifest) /\ Oracle!PointQualified(step.points["post"], manifest)
      BY <1>4, <2>1 DEF Oracle!ReplacementObserved
    <3>3. QED
      BY <1>7, <3>1, <3>2 DEF Oracle!PointQualified
  <2>2. CASE step.label \notin Oracle!ReplacementTransitions
    <3>1. ControlFits(step) /\ step.label = "selection-control"
      BY <1>3, <2>2 DEF LegFits, ControlFits, StepFits, Oracle!RequiredTransitions
    <3>2. n \in {"first", "second", "return"}
      BY <3>1 DEF ControlFits, StepFits
    <3> DEFINE controls == {k \in 1..Len(r.transitions) : r.transitions[k].label = "selection-control"}
               chosen == CHOOSE k \in controls : TRUE
    <3>3. i \in controls
      BY <3>1
    <3>4. \A k \in controls : k = i
      <4>1. \A j, k \in 1..Len(r.transitions) :
              r.transitions[j].label = r.transitions[k].label => j = k
        BY DEF Oracle!ValidRecord, Oracle!WellFormed
      <4>2. QED
        BY <3>3, <4>1
    <3>5. chosen = i
      <4> HIDE DEF controls
      <4>1. QED
        BY <3>3, <3>4
    <3>6. Oracle!SelectionControlValid(r, manifest)
      BY <1>1 DEF Oracle!PositiveContract
    <3>7. /\ Oracle!ControlPointQualified(r.transitions[chosen].points["first"], manifest)
          /\ Oracle!ControlPointQualified(r.transitions[chosen].points["second"], manifest)
          /\ Oracle!ControlPointQualified(r.transitions[chosen].points["return"], manifest)
      BY <3>6 DEF Oracle!SelectionControlValid
    <3> HIDE DEF chosen
    <3>8. QED
      BY <1>7, <3>2, <3>5, <3>7 DEF Oracle!ControlPointQualified
  <2>3. QED
    BY <2>1, <2>2
<1>8. ASSUME NEW n \in DOMAIN step.points PROVE step.points[n] \in QualificationPoints
  BY <1>3 DEF LegFits, ControlFits, StepFits
<1>9. QED
  BY <1>6, <1>7, <1>8, BoundWitnessIsOffTheName

-----------------------------------------------------------------------------
(* Action scripts.                                                          *)

\* The two labels of the plan TLC starts from.
FirstLabel == CHOOSE l \in Labels : TRUE
SecondLabel == CHOOSE l \in Labels : l # FirstLabel

ScriptSteps ==
  [id : StepIds \cup Nat, action : {"qualify", "replace"},
   label : Labels \cup {Absent, FirstLabel, SecondLabel},
   phase : Phases \cup {Absent}, mechanism : Mechanisms \cup {Absent}]

ScriptInv ==
  /\ steps \in Seq(ScriptSteps)
  /\ bounds \in [maxActions : Nat, maxAttempts : Nat, perStep : Nat, total : Nat]

\* A qualification of the plans is a step.
LEMMA QualifyFits ==
  ASSUME NEW id \in StepIds \cup Nat, NEW phase \in Phases \cup {Absent},
         NEW label \in Labels \cup {FirstLabel, SecondLabel}
  PROVE  Qualify(id, phase, label) \in ScriptSteps
BY DEF Qualify, ScriptSteps

\* A replacement of the plans is a step.
LEMMA ReplaceFits ==
  ASSUME NEW id \in StepIds \cup Nat, NEW mechanism \in Mechanisms \cup {Absent}
  PROVE  Replace(id, mechanism) \in ScriptSteps
BY DEF Replace, ScriptSteps

\* The plan TLC starts from is a sequence of steps.
LEMMA ScriptInitial ==
  ASSUME Init
  PROVE  ScriptInv
<1> DEFINE a == FirstLabel
           b == SecondLabel
           plan == Plan(a, b, <<a, b, b, a>>)
<1>1. steps = plan
  BY DEF Init, FirstLabel, SecondLabel
<1>2. bounds \in [maxActions : Nat, maxAttempts : Nat, perStep : Nat, total : Nat]
  <2>1. bounds \in [maxActions : {9, 12}, maxAttempts : {2}, perStep : {1}, total : {1}]
    BY DEF Init
  <2>2. QED
    BY <2>1
<1>3. /\ "selection-control" \in Phases /\ "pre-replacement" \in Phases /\ "post-replacement" \in Phases
      /\ RequiredMechanisms[1] \in Mechanisms /\ RequiredMechanisms[2] \in Mechanisms
  BY DEF Phases, RequiredMechanisms, Mechanisms
<1>4. /\ \A id \in Nat, phase \in Phases, l \in {a, b} : Qualify(id, phase, l) \in ScriptSteps
      /\ \A id \in Nat, m \in Mechanisms : Replace(id, m) \in ScriptSteps
  BY QualifyFits, ReplaceFits
<1>5. plan = << Qualify(1, "selection-control", a), Qualify(2, "selection-control", b),
                Qualify(3, "selection-control", a), Qualify(4, "pre-replacement", a),
                Replace(5, RequiredMechanisms[1]), Qualify(6, "post-replacement", b),
                Qualify(7, "pre-replacement", b), Replace(8, RequiredMechanisms[2]),
                Qualify(9, "post-replacement", a) >>
  BY DEF Plan
<1> HIDE DEF plan, a, b
<1>6. plan \in Seq(ScriptSteps)
  BY <1>3, <1>4, <1>5
<1>7. QED
  BY <1>1, <1>2, <1>6 DEF ScriptInv

\* The steps an edit substitutes are steps.
LEMMA AnyStepFits == AnyStep \subseteq ScriptSteps
<1> SUFFICES ASSUME NEW s \in AnyStep PROVE s \in ScriptSteps
  OBVIOUS
<1>1. CASE \E id \in StepIds, p \in Phases \cup {Absent}, l \in Labels : s = Qualify(id, p, l)
  BY <1>1, QualifyFits
<1>2. CASE \E id \in StepIds, m \in Mechanisms \cup {Absent} : s = Replace(id, m)
  BY <1>2, ReplaceFits
<1>3. CASE \E id \in StepIds, m \in Mechanisms, l \in Labels : s = [Replace(id, m) EXCEPT !.label = l]
  BY <1>3 DEF Replace, ScriptSteps
<1>4. CASE \E id \in StepIds, m \in Mechanisms, l \in Labels :
             s = [Qualify(id, "pre-replacement", l) EXCEPT !.mechanism = m]
  <2>1. "pre-replacement" \in Phases
    BY DEF Phases
  <2>2. QED
    BY <1>4, <2>1 DEF Qualify, ScriptSteps
<1>5. QED
  BY <1>1, <1>2, <1>3, <1>4 DEF AnyStep

\* An edited script is a sequence of steps.
LEMMA ScriptStepKeeps ==
  ASSUME ScriptInv, Next
  PROVE  ScriptInv'
<1>1. steps \in Seq(ScriptSteps)
      /\ bounds \in [maxActions : Nat, maxAttempts : Nat, perStep : Nat, total : Nat]
  BY DEF ScriptInv
<1>2. ASSUME NEW s \in Seq(ScriptSteps), Edit(s) PROVE ScriptInv'
  BY <1>1, <1>2 DEF Edit, ScriptInv
<1>3. CASE Substitute
  <2>1. PICK i \in 1..Len(steps), s \in AnyStep : Edit(ReplaceAt(steps, i, s))
    BY <1>3 DEF Substitute
  <2>2. ReplaceAt(steps, i, s) \in Seq(ScriptSteps)
    BY <1>1, AnyStepFits, ReplacedElement DEF ReplaceAt
  <2>3. QED
    BY <1>2, <2>1, <2>2
<1>4. CASE Drop
  <2>1. PICK i \in 1..Len(steps) : Edit(RemoveAt(steps, i))
    BY <1>4 DEF Drop
  <2>2. RemoveAt(steps, i) \in Seq(ScriptSteps)
    <3>1. SubSeq(steps, 1, i-1) \in Seq(ScriptSteps) /\ SubSeq(steps, i+1, Len(steps)) \in Seq(ScriptSteps)
      BY <1>1
    <3>2. QED
      BY <3>1 DEF RemoveAt
  <2>3. QED
    BY <1>2, <2>1, <2>2
<1>5. CASE Duplicate
  <2>1. PICK i \in 1..Len(steps) : Edit(InsertAt(steps, i, [steps[i] EXCEPT !.id = 10]))
    BY <1>5 DEF Duplicate
  <2>2. [steps[i] EXCEPT !.id = 10] \in ScriptSteps
    <3>1. steps[i] \in ScriptSteps
      BY <1>1
    <3>2. QED
      BY <3>1 DEF ScriptSteps
  <2>3. InsertAt(steps, i, [steps[i] EXCEPT !.id = 10]) \in Seq(ScriptSteps)
    <3>1. SubSeq(steps, 1, i-1) \in Seq(ScriptSteps) /\ SubSeq(steps, i, Len(steps)) \in Seq(ScriptSteps)
      BY <1>1
    <3>2. <<[steps[i] EXCEPT !.id = 10]>> \in Seq(ScriptSteps)
      BY <2>2
    <3>3. QED
      BY <3>1, <3>2 DEF InsertAt
  <2>4. QED
    BY <1>2, <2>1, <2>3
<1>6. CASE Swap
  <2>1. PICK i, j \in 1..Len(steps) : Edit([steps EXCEPT ![i] = steps[j], ![j] = steps[i]])
    BY <1>6 DEF Swap
  <2>2. steps[i] \in ScriptSteps /\ steps[j] \in ScriptSteps
    BY <1>1
  <2>3. [steps EXCEPT ![i] = steps[j]] \in Seq(ScriptSteps)
        /\ Len([steps EXCEPT ![i] = steps[j]]) = Len(steps)
    BY <1>1, <2>2, ReplacedElement
  <2>4. [[steps EXCEPT ![i] = steps[j]] EXCEPT ![j] = steps[i]] \in Seq(ScriptSteps)
    BY <2>2, <2>3, ReplacedElement
  <2>5. [steps EXCEPT ![i] = steps[j], ![j] = steps[i]]
          = [[steps EXCEPT ![i] = steps[j]] EXCEPT ![j] = steps[i]]
    OBVIOUS
  <2>6. QED
    BY <1>2, <2>1, <2>4, <2>5
<1>7. CASE Extend
  <2>1. PICK a, b \in Labels :
          Edit(steps \o << Qualify(10, "pre-replacement", a), Replace(11, RequiredMechanisms[2]),
                           Qualify(12, "post-replacement", b) >>)
    BY <1>7 DEF Extend
  <2>2. /\ Qualify(10, "pre-replacement", a) \in ScriptSteps
        /\ Replace(11, RequiredMechanisms[2]) \in ScriptSteps
        /\ Qualify(12, "post-replacement", b) \in ScriptSteps
    <3>1. "pre-replacement" \in Phases /\ "post-replacement" \in Phases
          /\ RequiredMechanisms[2] \in Mechanisms
      BY DEF Phases, RequiredMechanisms, Mechanisms
    <3>2. QED
      BY <3>1, QualifyFits, ReplaceFits
  <2>3. steps \o << Qualify(10, "pre-replacement", a), Replace(11, RequiredMechanisms[2]),
                    Qualify(12, "post-replacement", b) >> \in Seq(ScriptSteps)
    BY <1>1, <2>2
  <2>4. QED
    BY <1>2, <2>1, <2>3
<1>8. CASE Rebound
  BY <1>1, <1>8 DEF Rebound, ScriptInv
<1>9. QED
  BY <1>3, <1>4, <1>5, <1>6, <1>7, <1>8 DEF Next

\* A plan, field by field.
Shaped(s) ==
  /\ \A i \in {1, 2, 3} :
       /\ s[i].action = "qualify" /\ s[i].phase = "selection-control" /\ s[i].mechanism = Absent
       /\ s[i].label \in Labels
  /\ \A i \in {4, 7} :
       /\ s[i].action = "qualify" /\ s[i].phase = "pre-replacement" /\ s[i].mechanism = Absent
       /\ s[i].label \in Labels
  /\ \A i \in {6, 9} :
       /\ s[i].action = "qualify" /\ s[i].phase = "post-replacement" /\ s[i].mechanism = Absent
       /\ s[i].label \in Labels
  /\ \A i \in {5, 8} : s[i].action = "replace" /\ s[i].label = Absent /\ s[i].phase = Absent
  /\ s[5].mechanism = RequiredMechanisms[1] /\ s[8].mechanism = RequiredMechanisms[2]
  /\ s[1].label = s[3].label /\ s[1].label # s[2].label

\* The plan of the contract is the shape, on nine steps with ids of their own.
LEMMA PlansAreShaped ==
  ASSUME NEW s \in Seq(ScriptSteps)
  PROVE  IsPlan(s) <=> Len(s) = 9 /\ Shaped(s) /\ IdsAreUnique(s)
<1>1. IsInjective([i \in 1..Len(s) |-> s[i].id]) <=> IdsAreUnique(s)
  BY DEF IsInjective, IdsAreUnique
<1>2. ASSUME Len(s) = 9, NEW i \in 1..9, NEW p, NEW l
      PROVE  [s[i] EXCEPT !.id = i] = Qualify(i, p, l) <=>
               /\ s[i].action = "qualify" /\ s[i].label = l /\ s[i].phase = p /\ s[i].mechanism = Absent
  <2>1. i \in 1..Len(s)
    BY <1>2
  <2>2. s[i] \in ScriptSteps
    BY <2>1
  <2>3. QED
    BY <2>2 DEF ScriptSteps, Qualify
<1>3. ASSUME Len(s) = 9, NEW i \in 1..9, NEW m
      PROVE  [s[i] EXCEPT !.id = i] = Replace(i, m) <=>
               /\ s[i].action = "replace" /\ s[i].label = Absent /\ s[i].phase = Absent /\ s[i].mechanism = m
  <2>1. i \in 1..Len(s)
    BY <1>3
  <2>2. s[i] \in ScriptSteps
    BY <2>1
  <2>3. QED
    BY <2>2 DEF ScriptSteps, Replace
<1>4. ASSUME NEW a, NEW b, NEW p, NEW q, NEW r, NEW t
      PROVE  /\ Plan(a, b, <<p, q, r, t>>)[1] = Qualify(1, "selection-control", a)
             /\ Plan(a, b, <<p, q, r, t>>)[2] = Qualify(2, "selection-control", b)
             /\ Plan(a, b, <<p, q, r, t>>)[3] = Qualify(3, "selection-control", a)
             /\ Plan(a, b, <<p, q, r, t>>)[4] = Qualify(4, "pre-replacement", p)
             /\ Plan(a, b, <<p, q, r, t>>)[5] = Replace(5, RequiredMechanisms[1])
             /\ Plan(a, b, <<p, q, r, t>>)[6] = Qualify(6, "post-replacement", q)
             /\ Plan(a, b, <<p, q, r, t>>)[7] = Qualify(7, "pre-replacement", r)
             /\ Plan(a, b, <<p, q, r, t>>)[8] = Replace(8, RequiredMechanisms[2])
             /\ Plan(a, b, <<p, q, r, t>>)[9] = Qualify(9, "post-replacement", t)
  BY DEF Plan
<1>5. ASSUME Len(s) = 9, Shaped(s), IdsAreUnique(s) PROVE IsPlan(s)
  <2> DEFINE plan == Plan(s[1].label, s[2].label, <<s[4].label, s[6].label, s[7].label, s[9].label>>)
  <2>1. \A i \in {1, 2, 3} : [s[i] EXCEPT !.id = i] = Qualify(i, "selection-control", s[i].label)
    <3>1. \A i \in {1, 2, 3} :
            s[i].action = "qualify" /\ s[i].phase = "selection-control" /\ s[i].mechanism = Absent
      BY <1>5 DEF Shaped
    <3>2. QED
      BY <1>2, <1>5, <3>1
  <2>2. \A i \in {4, 7} : [s[i] EXCEPT !.id = i] = Qualify(i, "pre-replacement", s[i].label)
    <3>1. \A i \in {4, 7} :
            s[i].action = "qualify" /\ s[i].phase = "pre-replacement" /\ s[i].mechanism = Absent
      BY <1>5 DEF Shaped
    <3>2. QED
      BY <1>2, <1>5, <3>1
  <2>3. \A i \in {6, 9} : [s[i] EXCEPT !.id = i] = Qualify(i, "post-replacement", s[i].label)
    <3>1. \A i \in {6, 9} :
            s[i].action = "qualify" /\ s[i].phase = "post-replacement" /\ s[i].mechanism = Absent
      BY <1>5 DEF Shaped
    <3>2. QED
      BY <1>2, <1>5, <3>1
  <2>4. /\ [s[5] EXCEPT !.id = 5] = Replace(5, RequiredMechanisms[1])
        /\ [s[8] EXCEPT !.id = 8] = Replace(8, RequiredMechanisms[2])
    <3>1. /\ \A i \in {5, 8} : s[i].action = "replace" /\ s[i].label = Absent /\ s[i].phase = Absent
          /\ s[5].mechanism = RequiredMechanisms[1] /\ s[8].mechanism = RequiredMechanisms[2]
      BY <1>5 DEF Shaped
    <3>2. QED
      BY <1>3, <1>5, <3>1
  <2>5. s[1].label = s[3].label /\ s[1].label # s[2].label
        /\ \A i \in {1, 2, 4, 6, 7, 9} : s[i].label \in Labels
    BY <1>5 DEF Shaped
  <2>6. \A i \in 1..9 : [s[i] EXCEPT !.id = i] = plan[i]
    <3> SUFFICES ASSUME NEW i \in 1..9 PROVE [s[i] EXCEPT !.id = i] = plan[i]
      OBVIOUS
    <3> HIDE DEF plan
    <3>1. /\ plan[1] = Qualify(1, "selection-control", s[1].label)
          /\ plan[2] = Qualify(2, "selection-control", s[2].label)
          /\ plan[3] = Qualify(3, "selection-control", s[3].label)
          /\ plan[4] = Qualify(4, "pre-replacement", s[4].label)
          /\ plan[5] = Replace(5, RequiredMechanisms[1])
          /\ plan[6] = Qualify(6, "post-replacement", s[6].label)
          /\ plan[7] = Qualify(7, "pre-replacement", s[7].label)
          /\ plan[8] = Replace(8, RequiredMechanisms[2])
          /\ plan[9] = Qualify(9, "post-replacement", s[9].label)
      BY <1>4, <2>5 DEF plan
    <3>2. i \in {1, 2, 3, 4, 5, 6, 7, 8, 9}
      OBVIOUS
    <3>3. QED
      BY <2>1, <2>2, <2>3, <2>4, <3>1, <3>2
  <2> HIDE DEF plan
  <2>7. \E a, b, p, q, r, t \in Labels :
          /\ a # b
          /\ \A i \in 1..9 : [s[i] EXCEPT !.id = i] = Plan(a, b, <<p, q, r, t>>)[i]
    <3>1. /\ s[1].label \in Labels /\ s[2].label \in Labels /\ s[4].label \in Labels
          /\ s[6].label \in Labels /\ s[7].label \in Labels /\ s[9].label \in Labels
      BY <2>5
    <3>2. /\ s[1].label # s[2].label
          /\ \A i \in 1..9 : [s[i] EXCEPT !.id = i] =
               Plan(s[1].label, s[2].label, <<s[4].label, s[6].label, s[7].label, s[9].label>>)[i]
      BY <2>5, <2>6 DEF plan
    <3> DEFINE Fits(a, b, p, q, r, t) ==
                 /\ a # b
                 /\ \A i \in 1..9 : [s[i] EXCEPT !.id = i] = Plan(a, b, <<p, q, r, t>>)[i]
    <3>3. Fits(s[1].label, s[2].label, s[4].label, s[6].label, s[7].label, s[9].label)
      BY <3>2
    <3> HIDE DEF Fits
    <3>4. \E a, b, p, q, r, t \in Labels : Fits(a, b, p, q, r, t)
      BY <3>1, <3>3
    <3>5. QED
      BY <3>4 DEF Fits
  <2>8. QED
    BY <1>1, <1>5, <2>7 DEF IsPlan
<1>6. ASSUME IsPlan(s) PROVE Len(s) = 9 /\ Shaped(s) /\ IdsAreUnique(s)
  <2>1. PICK a, b, p, q, r, t \in Labels :
          /\ a # b
          /\ \A i \in 1..9 : [s[i] EXCEPT !.id = i] = Plan(a, b, <<p, q, r, t>>)[i]
    BY <1>6 DEF IsPlan
  <2>2. Len(s) = 9 /\ IdsAreUnique(s)
    BY <1>1, <1>6 DEF IsPlan
  <2>3. /\ [s[1] EXCEPT !.id = 1] = Qualify(1, "selection-control", a)
        /\ [s[2] EXCEPT !.id = 2] = Qualify(2, "selection-control", b)
        /\ [s[3] EXCEPT !.id = 3] = Qualify(3, "selection-control", a)
        /\ [s[4] EXCEPT !.id = 4] = Qualify(4, "pre-replacement", p)
        /\ [s[5] EXCEPT !.id = 5] = Replace(5, RequiredMechanisms[1])
        /\ [s[6] EXCEPT !.id = 6] = Qualify(6, "post-replacement", q)
        /\ [s[7] EXCEPT !.id = 7] = Qualify(7, "pre-replacement", r)
        /\ [s[8] EXCEPT !.id = 8] = Replace(8, RequiredMechanisms[2])
        /\ [s[9] EXCEPT !.id = 9] = Qualify(9, "post-replacement", t)
    BY <1>4, <2>1
  <2>4. /\ \A i \in {1, 2, 3} :
             s[i].action = "qualify" /\ s[i].phase = "selection-control" /\ s[i].mechanism = Absent
        /\ s[1].label = a /\ s[2].label = b /\ s[3].label = a
    BY <1>2, <2>2, <2>3
  <2>5. /\ \A i \in {4, 7} :
             s[i].action = "qualify" /\ s[i].phase = "pre-replacement" /\ s[i].mechanism = Absent
        /\ s[4].label = p /\ s[7].label = r
    BY <1>2, <2>2, <2>3
  <2>6. /\ \A i \in {6, 9} :
             s[i].action = "qualify" /\ s[i].phase = "post-replacement" /\ s[i].mechanism = Absent
        /\ s[6].label = q /\ s[9].label = t
    BY <1>2, <2>2, <2>3
  <2>7. /\ \A i \in {5, 8} : s[i].action = "replace" /\ s[i].label = Absent /\ s[i].phase = Absent
        /\ s[5].mechanism = RequiredMechanisms[1] /\ s[8].mechanism = RequiredMechanisms[2]
    BY <1>3, <2>2, <2>3
  <2>8. QED
    BY <2>1, <2>2, <2>4, <2>5, <2>6, <2>7 DEF Shaped
<1>7. QED
  BY <1>5, <1>6

\* A script of nine steps has its triples at 4 and 7, and two mechanisms.
LEMMA TriplesOfNine ==
  ASSUME NEW s \in Seq(ScriptSteps), Len(s) = 9
  PROVE  /\ Cursors(s) = {4, 7}
         /\ ObservedMechanisms(s) = RequiredMechanisms <=>
              s[5].mechanism = RequiredMechanisms[1] /\ s[8].mechanism = RequiredMechanisms[2]
<1>1. Cursors(s) = {4, 7}
  BY DEF Cursors
<1>2. ObservedMechanisms(s) = [k \in 1..2 |-> s[3 * k + 2].mechanism]
  <2>1. (9 - 3) \div 3 = 2
    OBVIOUS
  <2>2. QED
    BY <2>1 DEF ObservedMechanisms
<1>3. RequiredMechanisms = [k \in 1..2 |-> RequiredMechanisms[k]]
  BY DEF RequiredMechanisms
<1> DEFINE f(k) == s[3 * k + 2].mechanism
<1>4. f(1) = s[5].mechanism /\ f(2) = s[8].mechanism
  OBVIOUS
<1>5. [k \in 1..2 |-> f(k)] = [k \in 1..2 |-> RequiredMechanisms[k]] <=>
        \A k \in 1..2 : f(k) = RequiredMechanisms[k]
  <2> HIDE DEF f
  <2>1. QED
    OBVIOUS
<1> HIDE DEF f
<1>6. (\A k \in 1..2 : f(k) = RequiredMechanisms[k]) <=>
        f(1) = RequiredMechanisms[1] /\ f(2) = RequiredMechanisms[2]
  OBVIOUS
<1>7. QED
  BY <1>1, <1>2, <1>3, <1>4, <1>5, <1>6 DEF f

\* What the validator accepts has nine steps: a tenth would start a triple
\* that does not end.
LEMMA AcceptedHasNineSteps ==
  ASSUME NEW s \in Seq(ScriptSteps), Len(s) >= 9, \A c \in Cursors(s) : TripleAt(s, c),
         ObservedMechanisms(s) = RequiredMechanisms
  PROVE  Len(s) = 9
<1>1. DOMAIN ObservedMechanisms(s) = 1..((Len(s) - 3) \div 3)
  BY DEF ObservedMechanisms
<1>2. DOMAIN RequiredMechanisms = 1..2
  BY DEF RequiredMechanisms
<1>3. (Len(s) - 3) \div 3 = 2
  <2>1. (Len(s) - 3) \div 3 \in Nat
    OBVIOUS
  <2>2. 1..((Len(s) - 3) \div 3) = 1..2
    BY <1>1, <1>2
  <2> DEFINE q == (Len(s) - 3) \div 3
  <2> HIDE DEF q
  <2>3. q \in Nat /\ 1..q = 1..2 => q = 2
    OBVIOUS
  <2>4. QED
    BY <2>1, <2>2, <2>3 DEF q
<1>4. Len(s) \in {9, 10, 11}
  <2>1. \A n \in Nat : n >= 12 => (n - 3) \div 3 >= 3
    OBVIOUS
  <2>2. Len(s) \in Nat /\ ~(Len(s) >= 12)
    BY <1>3, <2>1
  <2>3. \A n \in Nat : n >= 9 /\ ~(n >= 12) => n \in {9, 10, 11}
    OBVIOUS
  <2>4. QED
    BY <2>2, <2>3
<1>5. ASSUME Len(s) > 9 PROVE FALSE
  <2>1. 10 \in 4..Len(s) /\ (10 - 4) % 3 = 0
    <3>1. 10 - 4 = 6 /\ 6 % 3 = 0
      OBVIOUS
    <3>2. QED
      BY <1>4, <1>5, <3>1
  <2>2. TripleAt(s, 10)
    BY <2>1 DEF Cursors
  <2>3. QED
    BY <1>4, <2>2 DEF TripleAt
<1>6. Len(s) \in {9, 10, 11} /\ ~(Len(s) > 9)
  BY <1>4, <1>5
<1>7. \A n \in {9, 10, 11} : ~(n > 9) => n = 9
  OBVIOUS
<1>8. QED
  BY <1>6, <1>7, Zenon

\* The validator accepts exactly the plans, with usable bounds.
LEMMA ScriptsAcceptPlans ==
  ASSUME ScriptInv
  PROVE  AcceptsExactlyThePlan
<1> DEFINE usable == /\ bounds.maxActions >= 9 /\ bounds.maxAttempts >= 1
                     /\ 1 <= bounds.perStep /\ bounds.perStep <= bounds.total
<1>1. steps \in Seq(ScriptSteps)
      /\ bounds.maxActions \in Nat /\ bounds.maxAttempts \in Nat /\ bounds.perStep \in Nat
      /\ bounds.total \in Nat
  BY DEF ScriptInv
<1>2. ASSUME ValidScript(steps, bounds) PROVE IsPlan(steps) /\ usable
  <2>1. Len(steps) = 9
    BY <1>1, <1>2, AcceptedHasNineSteps DEF ValidScript
  <2>2. usable
    BY <1>1, <1>2, <2>1 DEF ValidScript, ValidBounds
  <2>3. /\ TripleAt(steps, 4) /\ TripleAt(steps, 7)
        /\ steps[5].mechanism = RequiredMechanisms[1] /\ steps[8].mechanism = RequiredMechanisms[2]
    BY <1>1, <1>2, <2>1, TriplesOfNine DEF ValidScript
  <2>4. /\ steps[4].action = "qualify" /\ steps[4].phase = "pre-replacement"
        /\ steps[5].action = "replace"
        /\ steps[6].action = "qualify" /\ steps[6].phase = "post-replacement"
        /\ steps[7].action = "qualify" /\ steps[7].phase = "pre-replacement"
        /\ steps[8].action = "replace"
        /\ steps[9].action = "qualify" /\ steps[9].phase = "post-replacement"
    <3>1. 4 + 1 = 5 /\ 4 + 2 = 6 /\ 7 + 1 = 8 /\ 7 + 2 = 9
      OBVIOUS
    <3>2. QED
      BY <2>3, <3>1 DEF TripleAt
  <2>5. ControlShape(steps)
    BY <1>2 DEF ValidScript
  <2>6. \A i \in 1..9 : WellFormedStep(steps[i])
    BY <1>2, <2>1 DEF ValidScript
  <2>7. \A i \in 1..9 : steps[i].action = "qualify" =>
          steps[i].label \in Labels /\ steps[i].mechanism = Absent
    BY <2>6 DEF WellFormedStep
  <2>8. \A i \in 1..9 : steps[i].action = "replace" => steps[i].label = Absent /\ steps[i].phase = Absent
    BY <2>6 DEF WellFormedStep
  <2>9. /\ \A i \in {1, 2, 3} : steps[i].action = "qualify" /\ steps[i].phase = "selection-control"
        /\ steps[1].label = steps[3].label /\ steps[1].label # steps[2].label
    BY <2>5 DEF ControlShape
  <2>10. Shaped(steps)
    <3>1. \A i \in {1, 2, 3} :
            /\ steps[i].action = "qualify" /\ steps[i].phase = "selection-control"
            /\ steps[i].mechanism = Absent /\ steps[i].label \in Labels
      BY <2>7, <2>9
    <3>2. \A i \in {4, 7} :
            /\ steps[i].action = "qualify" /\ steps[i].phase = "pre-replacement"
            /\ steps[i].mechanism = Absent /\ steps[i].label \in Labels
      BY <2>4, <2>7
    <3>3. \A i \in {6, 9} :
            /\ steps[i].action = "qualify" /\ steps[i].phase = "post-replacement"
            /\ steps[i].mechanism = Absent /\ steps[i].label \in Labels
      BY <2>4, <2>7
    <3>4. \A i \in {5, 8} :
            steps[i].action = "replace" /\ steps[i].label = Absent /\ steps[i].phase = Absent
      BY <2>4, <2>8
    <3>5. QED
      BY <2>3, <2>9, <3>1, <3>2, <3>3, <3>4 DEF Shaped
  <2>11. IdsAreUnique(steps)
    BY <1>2 DEF ValidScript
  <2>12. QED
    BY <1>1, <2>1, <2>2, <2>10, <2>11, PlansAreShaped
<1>3. ASSUME IsPlan(steps), usable PROVE ValidScript(steps, bounds)
  <2>1. Len(steps) = 9 /\ Shaped(steps) /\ IdsAreUnique(steps)
    BY <1>1, <1>3, PlansAreShaped
  <2>2. ValidBounds(bounds) /\ Len(steps) <= bounds.maxActions /\ steps # <<>>
    <3>1. Len(steps) = 9
      BY <2>1
    <3>2. steps # <<>>
      <4>1. Len(<<>>) = 0 /\ 0 # 9
        OBVIOUS
      <4>2. QED
        BY <3>1, <4>1, Zenon
    <3>3. QED
      BY <1>1, <1>3, <3>1, <3>2 DEF ValidBounds
  <2>3. RequiredMechanisms[1] \in Mechanisms /\ RequiredMechanisms[2] \in Mechanisms
        /\ {"selection-control", "pre-replacement", "post-replacement"} \subseteq Phases
    BY DEF RequiredMechanisms, Mechanisms, Phases
  <2>4. \A i \in {1, 2, 3, 4, 6, 7, 9} : WellFormedStep(steps[i])
    <3>1. \A i \in {1, 2, 3, 4, 6, 7, 9} :
            /\ steps[i].action = "qualify" /\ steps[i].mechanism = Absent /\ steps[i].label \in Labels
            /\ steps[i].phase \in {"selection-control", "pre-replacement", "post-replacement"}
      BY <2>1 DEF Shaped
    <3>2. QED
      BY <2>3, <3>1 DEF WellFormedStep
  <2>5. \A i \in {5, 8} : WellFormedStep(steps[i])
    <3>1. \A i \in {5, 8} :
            /\ steps[i].action = "replace" /\ steps[i].label = Absent /\ steps[i].phase = Absent
            /\ steps[i].mechanism \in {RequiredMechanisms[1], RequiredMechanisms[2]}
      BY <2>1 DEF Shaped
    <3>2. QED
      BY <2>3, <3>1 DEF WellFormedStep
  <2>6. \A i \in 1..Len(steps) : WellFormedStep(steps[i])
    <3>1. \A i \in 1..9 : i \in {1, 2, 3, 4, 6, 7, 9} \/ i \in {5, 8}
      OBVIOUS
    <3>2. QED
      BY <2>1, <2>4, <2>5, <3>1
  <2>7. ControlShape(steps)
    <3>1. \A i \in {1, 2, 3} : steps[i].action = "qualify" /\ steps[i].phase = "selection-control"
      BY <2>1 DEF Shaped
    <3>2. steps[1].label = steps[3].label /\ steps[1].label # steps[2].label
      BY <2>1 DEF Shaped
    <3>3. \A i \in 1..3 : i \in {1, 2, 3}
      OBVIOUS
    <3>4. QED
      BY <3>1, <3>2, <3>3 DEF ControlShape
  <2>8. TripleAt(steps, 4) /\ TripleAt(steps, 7)
    <3>1. 4 + 1 = 5 /\ 4 + 2 = 6 /\ 7 + 1 = 8 /\ 7 + 2 = 9
      OBVIOUS
    <3>2. /\ steps[4].action = "qualify" /\ steps[4].phase = "pre-replacement"
          /\ steps[5].action = "replace"
          /\ steps[6].action = "qualify" /\ steps[6].phase = "post-replacement"
          /\ steps[7].action = "qualify" /\ steps[7].phase = "pre-replacement"
          /\ steps[8].action = "replace"
          /\ steps[9].action = "qualify" /\ steps[9].phase = "post-replacement"
      BY <2>1 DEF Shaped
    <3>3. QED
      BY <2>1, <3>1, <3>2 DEF TripleAt
  <2>9. (\A c \in Cursors(steps) : TripleAt(steps, c)) /\ ObservedMechanisms(steps) = RequiredMechanisms
    <3>1. steps[5].mechanism = RequiredMechanisms[1] /\ steps[8].mechanism = RequiredMechanisms[2]
      BY <2>1 DEF Shaped
    <3>2. QED
      BY <1>1, <2>1, <2>8, <3>1, TriplesOfNine
  <2>10. QED
    BY <2>1, <2>2, <2>6, <2>7, <2>9 DEF ValidScript
<1>4. QED
  BY <1>2, <1>3 DEF AcceptsExactlyThePlan

-----------------------------------------------------------------------------
(* The follow-up: what the samples of a window show.                        *)

WindowSample ==
  [slot : BOOLEAN, action : {"none", "auto", "marker"}, managed : BOOLEAN, stardate : Nat,
   collateral : SUBSET {"left", "right"}]

\* A window starts from an empty planet.
WindowInv(d) ==
  /\ {"scenario", "samples"} \subseteq DOMAIN d
  /\ d.scenario \in Followup!Scenarios
  /\ d.samples \in Seq(WindowSample) /\ Len(d.samples) >= 1
  /\ ~d.samples[1].slot /\ d.samples[1].action = "none"

\* The loop stops at sample n.
StopsAt(s, samples, n) ==
  \/ Followup!StopPolicy(s) = "first_action" /\ samples[n].action # "none"
  \/ s = "manual-gate-probe" /\ samples[n].stardate - samples[1].stardate >= 4

\* What the registers of the loop say of the samples up to n.
Seen(e, samples, n) ==
  /\ e.slot \in Nat /\ e.action \in Nat /\ e.marker \in Nat
  /\ e.slot # 0 <=> \E k \in 2..n : samples[k].slot
  /\ e.action # 0 <=> \E k \in 2..n : samples[k].action # "none"
  /\ e.marker # 0 <=> \E k \in 2..n : samples[k].action = "marker"
  /\ e.last = samples[n]

\* The loop stops for the reason of its policy.
LEMMA StopReasonIs ==
  ASSUME NEW s \in Followup!Scenarios, NEW samples, NEW n,
         samples[n].stardate - samples[1].stardate \in Int
  PROVE  Followup!StopReason(s, samples[n].action # "none",
                             samples[n].stardate - samples[1].stardate) # "none"
           <=> StopsAt(s, samples, n)
<1> DEFINE changed == samples[n].action # "none"
           progress == samples[n].stardate - samples[1].stardate
<1>1. s = "manual-gate-probe" <=> Followup!StopPolicy(s) = "progress_target_or_timeout"
  BY Zenon DEF Followup!StopPolicy
<1>2. progress >= Followup!ProgressTarget <=> progress >= 4
  BY DEF Followup!ProgressTarget
<1> DEFINE first == Followup!StopPolicy(s) = "first_action" /\ changed
           target == Followup!StopPolicy(s) = "progress_target_or_timeout" /\ progress >= Followup!ProgressTarget
<1>3. CASE first
  <2>1. Followup!StopReason(s, changed, progress) = "first_action"
    BY <1>3, Zenon DEF Followup!StopReason
  <2>2. StopsAt(s, samples, n)
    BY <1>3 DEF StopsAt
  <2>3. QED
    BY <2>1, <2>2
<1>4. CASE ~first /\ target
  <2>1. Followup!StopReason(s, changed, progress) = "progress_target"
    BY <1>4, Zenon DEF Followup!StopReason
  <2>2. StopsAt(s, samples, n)
    BY <1>1, <1>2, <1>4 DEF StopsAt
  <2>3. QED
    BY <2>1, <2>2
<1>5. CASE ~first /\ ~target
  <2>1. Followup!StopReason(s, changed, progress) = "none"
    BY <1>5, Zenon DEF Followup!StopReason
  <2>2. ~StopsAt(s, samples, n)
    BY <1>1, <1>2, <1>5 DEF StopsAt
  <2>3. QED
    BY <2>1, <2>2
<1>6. QED
  BY <1>3, <1>4, <1>5

\* One iteration sees one sample more, unless it stopped before.
LEMMA ReadSees ==
  ASSUME NEW s \in Followup!Scenarios, NEW samples \in Seq(WindowSample), ~samples[1].slot,
         NEW n \in 2..Len(samples), NEW e, Seen(e, samples, n - 1), e.stop = "none"
  PROVE  LET r == Followup!Read(s, samples[1], e, samples[n], n)
         IN  Seen(r, samples, n) /\ (r.stop # "none" <=> StopsAt(s, samples, n))
<1> DEFINE x == samples[n]
           changed == x.action # "none"
           progress == x.stardate - samples[1].stardate
           r == Followup!Read(s, samples[1], e, x, n)
<1>1. samples[1] \in WindowSample /\ samples[n - 1] \in WindowSample /\ x \in WindowSample
  <2>1. 1 \in 1..Len(samples) /\ n - 1 \in 1..Len(samples) /\ n \in 1..Len(samples)
    OBVIOUS
  <2>2. QED
    BY <2>1
<1>2. changed \in BOOLEAN /\ progress \in Int
  BY <1>1 DEF WindowSample
<1>3. /\ r.slot = Followup!FirstTime(e.slot, x.slot # e.last.slot, n)
      /\ r.action = Followup!FirstTime(e.action, changed, n)
      /\ r.marker = Followup!FirstTime(e.marker, x.action = "marker", n)
      /\ r.last = x
      /\ r.stop = Followup!StopReason(s, changed, progress)
  <2> HIDE DEF x
  <2>1. QED
    BY DEF Followup!Read
<1>4. r.stop # "none" <=> StopsAt(s, samples, n)
  <2>1. Followup!StopReason(s, changed, progress) # "none" <=> StopsAt(s, samples, n)
    BY <1>2, StopReasonIs
  <2> HIDE DEF changed, progress, r
  <2>2. QED
    BY <1>3, <2>1
<1>5. \A seen \in Nat, condition \in BOOLEAN :
        /\ Followup!FirstTime(seen, condition, n) \in Nat
        /\ Followup!FirstTime(seen, condition, n) # 0 <=> seen # 0 \/ condition
  <2>1. n \in Nat /\ n # 0
    OBVIOUS
  <2>2. QED
    BY <2>1 DEF Followup!FirstTime
<1>6. \A k : k \in 2..n <=> k \in 2..(n - 1) \/ k = n
  OBVIOUS
<1>7. e.slot \in Nat /\ e.action \in Nat /\ e.marker \in Nat
  BY DEF Seen
<1>8. r.slot \in Nat /\ r.action \in Nat /\ r.marker \in Nat
  <2>1. (x.slot # e.last.slot) \in BOOLEAN /\ (x.action = "marker") \in BOOLEAN
    OBVIOUS
  <2> HIDE DEF x, r
  <2>2. QED
    BY <1>2, <1>3, <1>5, <1>7, <2>1
<1>9. r.action # 0 <=> \E k \in 2..n : samples[k].action # "none"
  <2>1. r.action # 0 <=> e.action # 0 \/ changed
    BY <1>2, <1>3, <1>5, <1>7
  <2>2. e.action # 0 <=> \E k \in 2..(n - 1) : samples[k].action # "none"
    BY DEF Seen
  <2>3. QED
    BY <1>6, <2>1, <2>2
<1>10. r.marker # 0 <=> \E k \in 2..n : samples[k].action = "marker"
  <2>1. r.marker # 0 <=> e.marker # 0 \/ x.action = "marker"
    BY <1>3, <1>5, <1>7
  <2>2. e.marker # 0 <=> \E k \in 2..(n - 1) : samples[k].action = "marker"
    BY DEF Seen
  <2>3. QED
    BY <1>6, <2>1, <2>2
<1>11. r.slot # 0 <=> \E k \in 2..n : samples[k].slot
  <2>1. r.slot # 0 <=> e.slot # 0 \/ x.slot # samples[n - 1].slot
    <3>1. e.last = samples[n - 1]
      BY DEF Seen
    <3>2. QED
      BY <1>3, <1>5, <1>7, <3>1
  <2>2. e.slot # 0 <=> \E k \in 2..(n - 1) : samples[k].slot
    BY DEF Seen
  <2>3. CASE e.slot # 0
    BY <1>6, <2>1, <2>2, <2>3
  <2>4. CASE e.slot = 0
    <3>1. ~samples[n - 1].slot
      <4>1. CASE n = 2
        BY <4>1
      <4>2. CASE n # 2
        <5>1. n - 1 \in 2..(n - 1)
          BY <4>2
        <5>2. QED
          BY <2>2, <2>4, <5>1
      <4>3. QED
        BY <4>1, <4>2
    <3>2. x.slot \in BOOLEAN /\ samples[n - 1].slot \in BOOLEAN
      BY <1>1 DEF WindowSample
    <3>3. r.slot # 0 <=> x.slot
      BY <2>1, <2>4, <3>1, <3>2
    <3>4. QED
      BY <1>6, <2>2, <2>4, <3>3
  <2>5. QED
    BY <2>3, <2>4
<1>12. Seen(r, samples, n)
  BY <1>3, <1>8, <1>9, <1>10, <1>11 DEF Seen
<1>13. QED
  BY <1>4, <1>12

\* The table of the registers up to sample m of a window.
Registers(g, s, samples, m) ==
  g = [n \in 1..m |-> IF n = 1 THEN Followup!Unread(samples[1])
                      ELSE Followup!Read(s, samples[1], g[n - 1], samples[n], n)]

\* Each window has its table of registers.
LEMMA RegistersExist ==
  ASSUME NEW s, NEW samples
  PROVE  \A m \in Nat : \E g : Registers(g, s, samples, m)
<1> DEFINE S == {m \in Nat : \E g : Registers(g, s, samples, m)}
           row(n, before) == IF n = 1 THEN Followup!Unread(samples[1])
                             ELSE Followup!Read(s, samples[1], before, samples[n], n)
<1> HIDE DEF row
<1>1. \A g, m : Registers(g, s, samples, m) <=> g = [n \in 1..m |-> row(n, g[n - 1])]
  BY DEF Registers, row
<1>2. 0 \in S
  <2>1. [n \in 1..0 |-> n] = [n \in 1..0 |-> row(n, [k \in 1..0 |-> k][n - 1])]
    OBVIOUS
  <2>2. QED
    BY <1>1, <2>1
<1>3. ASSUME NEW m \in Nat, m \in S PROVE m + 1 \in S
  <2>1. PICK g : g = [n \in 1..m |-> row(n, g[n - 1])]
    BY <1>1, <1>3
  <2> DEFINE h == [n \in 1..(m + 1) |-> IF n = m + 1 THEN row(n, g[m]) ELSE g[n]]
  <2>2. ASSUME NEW n \in 1..(m + 1) PROVE h[n] = row(n, h[n - 1])
    <3>1. CASE n = 1
      <4>1. \A before, after : row(1, before) = row(1, after)
        BY DEF row
      <4>2. h[n] = row(1, g[m]) \/ h[n] = g[1]
        BY <3>1
      <4>3. m # 0 => g[1] = row(1, g[1 - 1])
        BY <2>1
      <4>4. m = 0 => h[n] = row(1, g[m])
        BY <3>1
      <4>5. QED
        <5> HIDE DEF h
        <5>1. h[n] = row(1, g[m]) \/ h[n] = row(1, g[1 - 1])
          BY <4>2, <4>3, <4>4
        <5>2. h[n] = row(1, h[n - 1])
          BY <4>1, <5>1
        <5>3. QED
          BY <3>1, <5>2
    <3>2. CASE n # 1 /\ n = m + 1
      <4>1. h[n] = row(n, g[m]) /\ h[n - 1] = g[m]
        BY <3>2
      <4>2. QED
        BY <4>1
    <3>3. CASE n # 1 /\ n # m + 1
      <4>1. n \in 1..m /\ n - 1 \in 1..m /\ h[n] = g[n] /\ h[n - 1] = g[n - 1]
        BY <3>3
      <4>2. g[n] = row(n, g[n - 1])
        BY <2>1, <4>1
      <4>3. QED
        BY <4>1, <4>2
    <3>4. QED
      BY <3>1, <3>2, <3>3
  <2>3. h = [n \in 1..(m + 1) |-> h[n]]
    OBVIOUS
  <2> HIDE DEF h
  <2>4. h = [n \in 1..(m + 1) |-> row(n, h[n - 1])]
    BY <2>2, <2>3
  <2>5. Registers(h, s, samples, m + 1) /\ m + 1 \in Nat
    BY <1>1, <2>4
  <2>6. QED
    BY <2>5
<1> HIDE DEF S
<1>4. \A m \in Nat : m \in S
  BY <1>2, <1>3, Induction
<1>5. QED
  BY <1>4 DEF S

\* What the loop returns is the last row of such a table.
LEMMA ObserveIsTheLastRow ==
  ASSUME NEW s, NEW samples, Len(samples) \in Nat
  PROVE  \E g : Registers(g, s, samples, Len(samples)) /\ Followup!Observe(s, samples) = g[Len(samples)]
<1> DEFINE G == CHOOSE g : Registers(g, s, samples, Len(samples))
<1>1. Registers(G, s, samples, Len(samples))
  BY RegistersExist
<1>2. Followup!Observe(s, samples) = G[Len(samples)]
  BY Zenon DEF Followup!Observe, Registers
<1>3. QED
  BY <1>1, <1>2

\* m is the number of the last sample the loop reads.
LastRead(s, samples, m) ==
  /\ m \in 1..Len(samples)
  /\ \A n \in 2..(m - 1) : ~StopsAt(s, samples, n)
  /\ m # Len(samples) => m >= 2 /\ StopsAt(s, samples, m)

\* The registers of the loop are those of the samples up to the last one read.
LEMMA ObserveSees ==
  ASSUME NEW s \in Followup!Scenarios, NEW samples \in Seq(WindowSample), Len(samples) >= 1,
         ~samples[1].slot
  PROVE  \E m \in 1..Len(samples) :
           /\ LastRead(s, samples, m)
           /\ Seen(Followup!Observe(s, samples), samples, m)
           /\ Followup!Observe(s, samples).stop # "none" <=> m >= 2 /\ StopsAt(s, samples, m)
<1> DEFINE L == Len(samples)
<1>1. L \in Nat /\ L >= 1
  OBVIOUS
<1>2. PICK g : Registers(g, s, samples, L) /\ Followup!Observe(s, samples) = g[L]
  BY <1>1, ObserveIsTheLastRow
<1>3. /\ g[1] = Followup!Unread(samples[1])
      /\ \A n \in 2..L : g[n] = Followup!Read(s, samples[1], g[n - 1], samples[n], n)
  BY <1>1, <1>2 DEF Registers
<1> HIDE DEF L
<1> DEFINE quiet(k) == \A n \in 2..k : ~StopsAt(s, samples, n)
           S == {k \in Nat : k \in 1..L /\ quiet(k) => Seen(g[k], samples, k) /\ g[k].stop = "none"}
<1>4. \A k \in Nat : k \in S
  <2>1. 0 \in S
    OBVIOUS
  <2>2. ASSUME NEW k \in Nat, k \in S PROVE k + 1 \in S
    <3> SUFFICES ASSUME k + 1 \in 1..L, quiet(k + 1)
                 PROVE  Seen(g[k + 1], samples, k + 1) /\ g[k + 1].stop = "none"
      OBVIOUS
    <3>1. CASE k = 0
      <4>1. g[1].slot = 0 /\ g[1].action = 0 /\ g[1].marker = 0 /\ g[1].last = samples[1]
            /\ g[1].stop = "none"
        BY <1>3 DEF Followup!Unread
      <4>2. 2..1 = {}
        OBVIOUS
      <4>3. Seen(g[1], samples, 1)
        BY <4>1, <4>2 DEF Seen
      <4>4. QED
        BY <3>1, <4>1, <4>3
    <3>2. CASE k # 0
      <4>1. k \in 1..L /\ k + 1 \in 2..L /\ (k + 1) - 1 = k /\ 2..k \subseteq 2..(k + 1)
        BY <1>1, <3>2
      <4>2. quiet(k)
        BY <4>1
      <4>3. Seen(g[k], samples, k) /\ g[k].stop = "none"
        BY <2>2, <4>1, <4>2
      <4>4. g[k + 1] = Followup!Read(s, samples[1], g[k], samples[k + 1], k + 1)
        BY <1>3, <4>1
      <4>5. Seen(g[k + 1], samples, k + 1) /\ (g[k + 1].stop # "none" <=> StopsAt(s, samples, k + 1))
        BY <4>1, <4>3, <4>4, ReadSees DEF L
      <4>6. ~StopsAt(s, samples, k + 1)
        BY <4>1
      <4>7. QED
        BY <4>5, <4>6
    <3>3. QED
      BY <3>1, <3>2
  <2> HIDE DEF S
  <2>3. QED
    BY <2>1, <2>2, Induction
<1>5. CASE quiet(L)
  <2>1. Seen(g[L], samples, L) /\ g[L].stop = "none"
    BY <1>1, <1>4, <1>5
  <2>2. LastRead(s, samples, L)
    <3>1. L \in 1..L /\ \A n \in 2..(L - 1) : ~StopsAt(s, samples, n)
      BY <1>1, <1>5
    <3>2. QED
      BY <3>1 DEF LastRead, L
  <2>3. ~(L >= 2 /\ StopsAt(s, samples, L))
    BY <1>1, <1>5
  <2>4. L \in 1..L
    BY <1>1
  <2>5. QED
    BY <1>2, <2>1, <2>2, <2>3, <2>4 DEF L
<1>6. CASE ~quiet(L)
  <2> DEFINE stops == {n \in 2..L : StopsAt(s, samples, n)}
  <2>1. PICK m \in stops : \A n \in stops : m <= n
    <3>1. stops # {} /\ stops \in SUBSET Nat
      BY <1>1, <1>6
    <3> HIDE DEF stops
    <3>2. QED
      BY <3>1, Least
  <2>2. m \in 2..L /\ StopsAt(s, samples, m) /\ m - 1 \in 1..L /\ m - 1 \in Nat
    BY <1>1, <2>1
  <2>3. quiet(m - 1)
    <3> SUFFICES ASSUME NEW n \in 2..(m - 1), StopsAt(s, samples, n) PROVE FALSE
      OBVIOUS
    <3>1. n \in stops /\ ~(m <= n)
      BY <1>1, <2>2
    <3>2. QED
      BY <2>1, <3>1
  <2>4. Seen(g[m - 1], samples, m - 1) /\ g[m - 1].stop = "none"
    BY <1>4, <2>2, <2>3
  <2>5. Seen(g[m], samples, m) /\ g[m].stop # "none"
    <3>1. g[m] = Followup!Read(s, samples[1], g[m - 1], samples[m], m)
      BY <1>3, <2>2
    <3>2. Seen(g[m], samples, m) /\ (g[m].stop # "none" <=> StopsAt(s, samples, m))
      BY <2>2, <2>4, <3>1, ReadSees DEF L
    <3>3. QED
      BY <2>2, <3>2
  <2> DEFINE T == {k \in Nat : k \in m..L => g[k] = g[m]}
  <2>6. \A k \in Nat : k \in T
    <3>1. 0 \in T
      BY <2>2
    <3>2. ASSUME NEW k \in Nat, k \in T PROVE k + 1 \in T
      <4> SUFFICES ASSUME k + 1 \in m..L PROVE g[k + 1] = g[m]
        OBVIOUS
      <4>1. CASE k + 1 = m
        BY <4>1
      <4>2. CASE k + 1 # m
        <5>1. k \in m..L /\ k + 1 \in 2..L /\ (k + 1) - 1 = k
          BY <1>1, <2>2, <4>2
        <5>2. g[k] = g[m]
          BY <3>2, <5>1
        <5>3. g[k + 1] = Followup!Read(s, samples[1], g[k], samples[k + 1], k + 1)
          BY <1>3, <5>1
        <5>4. QED
          BY <2>5, <5>2, <5>3 DEF Followup!Read
      <4>3. QED
        BY <4>1, <4>2
    <3> HIDE DEF T
    <3>3. QED
      BY <3>1, <3>2, Induction
  <2>7. g[L] = g[m]
    <3>1. L \in m..L
      BY <1>1, <2>2
    <3>2. QED
      BY <1>1, <2>6, <3>1
  <2>8. LastRead(s, samples, m)
    BY <1>1, <2>2, <2>3 DEF LastRead, L
  <2>9. m \in 1..L /\ m >= 2
    BY <1>1, <2>2
  <2>10. QED
    BY <1>2, <2>2, <2>5, <2>7, <2>8, <2>9 DEF L
<1>7. QED
  BY <1>5, <1>6

\* The watched samples are those the loop reads.
LEMMA WatchedIsWhatIsRead ==
  ASSUME NEW s, NEW samples \in Seq(WindowSample), NEW m \in 1..Len(samples), LastRead(s, samples, m)
  PROVE  /\ Watched(s, samples) \in Seq(WindowSample)
         /\ Len(Watched(s, samples)) = m
         /\ \A n \in 1..m : Watched(s, samples)[n] = samples[n]
<1> DEFINE L == Len(samples)
           stops == {n \in 2..L : \/ Followup!StopPolicy(s) = "first_action" /\ samples[n].action # "none"
                                  \/ /\ s = "manual-gate-probe"
                                     /\ samples[n].stardate - samples[1].stardate >= 4}
           least == CHOOSE n \in stops : \A k \in stops : n <= k
<1>1. L \in Nat /\ m \in 1..L
  OBVIOUS
<1>2. stops = {n \in 2..L : StopsAt(s, samples, n)}
  BY DEF StopsAt
<1>3. Watched(s, samples) = IF stops = {} THEN samples ELSE SubSeq(samples, 1, least)
  BY DEF Watched
<1> HIDE DEF L, stops, least
<1>4. CASE m \in stops
  <2>1. \A n \in stops : m <= n
    BY <1>1, <1>2 DEF LastRead
  <2>2. \A n \in stops : (\A k \in stops : n <= k) => n = m
    BY <1>1, <1>2, <1>4, <2>1
  <2>3. least = m
    BY <1>4, <2>1, <2>2 DEF least
  <2>4. Watched(s, samples) = SubSeq(samples, 1, m)
    BY <1>3, <1>4, <2>3
  <2>5. QED
    BY <1>1, <2>4 DEF L
<1>5. CASE m \notin stops
  <2>1. m = L /\ stops = {}
    BY <1>1, <1>2, <1>5 DEF LastRead, L
  <2>2. Watched(s, samples) = samples
    BY <1>3, <2>1
  <2>3. QED
    BY <2>1, <2>2 DEF L
<1>6. QED
  BY <1>4, <1>5

\* A window passes when what was watched shows its conclusion, and is
\* inconclusive for a Manual probe short of its target.
LEMMA WindowVerdicts ==
  ASSUME NEW d, WindowInv(d)
  PROVE  LET watched == Watched(d.scenario, d.samples)
             progress == watched[Len(watched)].stardate - watched[1].stardate
             verdict == Followup!Classify(d.scenario, Followup!Trace(d.scenario, d.samples))
         IN  /\ verdict = "passed" <=> Shows(d.scenario, watched)
             /\ verdict = "inconclusive" <=>
                  /\ d.scenario = "manual-gate-probe" /\ progress \in 1..3
                  /\ \A n \in 2..Len(watched) : watched[n].action # "marker"
<1> DEFINE s == d.scenario
           samples == d.samples
           e == Followup!Observe(s, samples)
           t == Followup!Trace(s, samples)
           w == Watched(s, samples)
           last == w[Len(w)]
           progress == last.stardate - w[1].stardate
           selected == \E n \in 2..Len(w) : w[n].slot
           acted == \E n \in 2..Len(w) : w[n].action # "none"
           marked == \E n \in 2..Len(w) : w[n].action = "marker"
<1>1. /\ s \in Followup!Scenarios /\ samples \in Seq(WindowSample) /\ Len(samples) >= 1
      /\ ~samples[1].slot /\ samples[1].action = "none"
  BY DEF WindowInv
<1> HIDE DEF s, samples
<1>2. PICK m \in 1..Len(samples) :
        /\ LastRead(s, samples, m)
        /\ Seen(e, samples, m)
        /\ e.stop # "none" <=> m >= 2 /\ StopsAt(s, samples, m)
  BY <1>1, ObserveSees
<1>3. /\ w \in Seq(WindowSample) /\ Len(w) = m
      /\ \A n \in 1..m : w[n] = samples[n]
  BY <1>1, <1>2, WatchedIsWhatIsRead
<1>4. m \in Nat /\ m >= 1
  BY <1>1
<1> HIDE DEF w
<1>5. /\ last = samples[m] /\ w[1] = samples[1]
      /\ last \in WindowSample /\ w[1] \in WindowSample
  BY <1>3, <1>4
<1>6. progress \in Int
  BY <1>5 DEF WindowSample
<1>7. /\ t.policy = Followup!Policy(s)
      /\ t.slot = e.slot /\ t.action = e.action /\ t.marker = e.marker
      /\ t.final = e.last
      /\ t.delta = e.last.stardate - samples[1].stardate
      /\ t.stop = IF e.stop # "none" THEN e.stop
                  ELSE IF Followup!StopPolicy(s) = "fixed_window" THEN "fixed_window" ELSE "timeout"
  <2> HIDE DEF e
  <2>1. QED
    BY DEF Followup!Trace, e
<1>8. t.targetMet <=> s = "manual-gate-probe" /\ e.last.stardate - samples[1].stardate >= Followup!ProgressTarget
  BY DEF Followup!Trace
<1> HIDE DEF e, t
<1>9. /\ t.slot # 0 <=> selected
      /\ t.action # 0 <=> acted
      /\ t.marker # 0 <=> marked
  <2>1. \A n \in 2..Len(w) : w[n] = samples[n] /\ n \in 2..m
    BY <1>3, <1>4
  <2>2. \A n \in 2..m : w[n] = samples[n] /\ n \in 2..Len(w)
    BY <1>3, <1>4
  <2>3. t.slot # 0 <=> selected
    BY <1>2, <1>7, <2>1, <2>2 DEF Seen
  <2>4. t.action # 0 <=> acted
    BY <1>2, <1>7, <2>1, <2>2 DEF Seen
  <2>5. t.marker # 0 <=> marked
    BY <1>2, <1>7, <2>1, <2>2 DEF Seen
  <2>6. QED
    BY <2>3, <2>4, <2>5
<1>10. t.final = last /\ t.delta = progress
  BY <1>2, <1>5, <1>7 DEF Seen
<1>11. t.targetMet <=> s = "manual-gate-probe" /\ progress >= 4
  <2>1. e.last.stardate - samples[1].stardate = progress
    BY <1>7, <1>10
  <2>2. QED
    BY <1>8, <2>1 DEF Followup!ProgressTarget
<1>12. s = "manual-gate-probe" /\ ~(progress >= 4) => t.stop = "timeout"
  <2> SUFFICES ASSUME s = "manual-gate-probe", ~(progress >= 4) PROVE t.stop = "timeout"
    OBVIOUS
  <2>1. Followup!StopPolicy(s) = "progress_target_or_timeout"
    BY Zenon DEF Followup!StopPolicy
  <2>2. ~StopsAt(s, samples, m)
    BY <1>5, <2>1 DEF StopsAt
  <2>3. e.stop = "none"
    BY <1>2, <2>2
  <2>4. QED
    BY <1>7, <2>1, <2>3
<1>13. last.action # "none" => acted
  <2>1. CASE m = 1
    BY <1>1, <1>5, <2>1
  <2>2. CASE m # 1
    <3>1. m \in 2..Len(w) /\ last = w[m]
      BY <1>3, <1>4, <2>2
    <3> HIDE DEF last
    <3>2. QED
      BY <3>1
  <2>3. QED
    BY <2>1, <2>2
<1>14. marked => acted
  OBVIOUS
<1>15. Shows(s, w) <=>
         /\ last.managed = Followup!Managed(s)
         /\ CASE s \in {"manual-control", "managed-policy-suppressed"} -> ~selected /\ ~acted /\ progress > 0
              [] s = "manual-gate-probe"  -> ~selected /\ ~acted /\ progress >= 4
              [] s = "managed-gate-probe" -> marked
              [] s = "managed-control"    -> selected /\ last.action # "none"
              [] s = "managed-action-write-suppressed" -> selected /\ ~acted
  BY Zenon DEF Shows
<1> HIDE DEF last, progress, selected, acted, marked
<1>16. Followup!Validates(s, t) <=>
         /\ last.managed = Followup!Managed(s)
         /\ s \in {"manual-control", "manual-gate-probe", "managed-policy-suppressed"} => progress > 0
         /\ Followup!Signs(s, t)
  BY <1>7, <1>10 DEF Followup!Validates
<1>17. Followup!Validates(s, t) <=> Shows(s, w)
  <2>1. ASSUME s \in {"manual-control", "managed-policy-suppressed"} PROVE Followup!Validates(s, t) <=> Shows(s, w)
    <3>1. Followup!Signs(s, t) <=> t.slot = 0 /\ t.action = 0
      BY <2>1, Zenon DEF Followup!Signs
    <3>2. Shows(s, w) <=> last.managed = Followup!Managed(s) /\ ~selected /\ ~acted /\ progress > 0
      BY <1>15, <2>1, Zenon
    <3>3. QED
      BY <1>9, <1>16, <2>1, <3>1, <3>2
  <2>2. ASSUME s = "manual-gate-probe" PROVE Followup!Validates(s, t) <=> Shows(s, w)
    <3>1. Followup!Signs(s, t) <=> t.marker = 0 /\ t.slot = 0 /\ t.action = 0 /\ t.targetMet
      BY <2>2, Zenon DEF Followup!Signs
    <3>2. Shows(s, w) <=> last.managed = Followup!Managed(s) /\ ~selected /\ ~acted /\ progress >= 4
      BY <1>15, <2>2, Zenon
    <3>3. progress >= 4 => progress > 0
      BY <1>6
    <3>4. QED
      BY <1>9, <1>11, <1>14, <1>16, <2>2, <3>1, <3>2, <3>3
  <2>3. ASSUME s = "managed-gate-probe" PROVE Followup!Validates(s, t) <=> Shows(s, w)
    <3>1. Followup!Signs(s, t) <=> t.marker # 0
      BY <2>3, Zenon DEF Followup!Signs
    <3>2. Shows(s, w) <=> last.managed = Followup!Managed(s) /\ marked
      BY <1>15, <2>3, Zenon
    <3>3. QED
      BY <1>9, <1>16, <2>3, <3>1, <3>2
  <2>4. ASSUME s = "managed-control" PROVE Followup!Validates(s, t) <=> Shows(s, w)
    <3>1. Followup!Signs(s, t) <=> t.slot # 0 /\ t.action # 0 /\ t.final.action # "none"
      BY <2>4, Zenon DEF Followup!Signs
    <3>2. Shows(s, w) <=> last.managed = Followup!Managed(s) /\ selected /\ last.action # "none"
      BY <1>15, <2>4, Zenon
    <3>3. QED
      BY <1>9, <1>10, <1>13, <1>16, <2>4, <3>1, <3>2
  <2>5. ASSUME s = "managed-action-write-suppressed" PROVE Followup!Validates(s, t) <=> Shows(s, w)
    <3>1. Followup!Signs(s, t) <=> t.slot # 0 /\ t.action = 0 /\ t.final.action = "none"
      BY <2>5, Zenon DEF Followup!Signs
    <3>2. Shows(s, w) <=> last.managed = Followup!Managed(s) /\ selected /\ ~acted
      BY <1>15, <2>5, Zenon
    <3>3. QED
      BY <1>9, <1>10, <1>13, <1>16, <2>5, <3>1, <3>2
  <2>6. QED
    BY <1>1, <2>1, <2>2, <2>3, <2>4, <2>5 DEF Followup!Scenarios
<1> DEFINE verdict == Followup!Classify(s, t)
           short == /\ s = "manual-gate-probe" /\ t.stop = "timeout"
                    /\ t.marker = 0 /\ t.delta > 0 /\ ~t.targetMet
<1>18. verdict = "passed" <=> Followup!Validates(s, t)
  BY Zenon DEF Followup!Classify
<1>19. verdict = "inconclusive" <=> ~Followup!Validates(s, t) /\ short
  <2>1. CASE Followup!Validates(s, t)
    <3>1. verdict = "passed"
      BY <1>18, <2>1
    <3>2. QED
      BY <2>1, <3>1
  <2>2. CASE ~Followup!Validates(s, t) /\ short
    <3>1. verdict = "inconclusive"
      BY <2>2, Zenon DEF Followup!Classify
    <3>2. QED
      BY <2>2, <3>1
  <2>3. CASE ~Followup!Validates(s, t) /\ ~short
    <3>1. verdict = "failed"
      BY <2>3, Zenon DEF Followup!Classify
    <3>2. QED
      BY <2>3, <3>1
  <2>4. QED
    BY <2>1, <2>2, <2>3
<1>20. ~Followup!Validates(s, t) /\ short <=> s = "manual-gate-probe" /\ progress \in 1..3 /\ ~marked
  <2>1. CASE s = "manual-gate-probe"
    <3>1. t.targetMet <=> progress >= 4
      BY <1>11, <2>1
    <3>2. Followup!Validates(s, t) => progress >= 4
      <4>1. Followup!Signs(s, t) => t.targetMet
        BY <2>1, Zenon DEF Followup!Signs
      <4>2. QED
        BY <1>16, <3>1, <4>1
    <3>3. progress \in 1..3 <=> progress > 0 /\ ~(progress >= 4)
      BY <1>6
    <3>4. t.marker = 0 <=> ~marked
      BY <1>9
    <3>5. QED
      BY <1>10, <1>12, <2>1, <3>1, <3>2, <3>3, <3>4
  <2>2. CASE s # "manual-gate-probe"
    BY <2>2
  <2>3. QED
    BY <2>1, <2>2
<1> HIDE DEF verdict
<1>21. /\ verdict = "passed" <=> Shows(s, w)
       /\ verdict = "inconclusive" <=> s = "manual-gate-probe" /\ progress \in 1..3 /\ ~marked
  BY <1>17, <1>18, <1>19, <1>20
<1>22. ~marked <=> \A n \in 2..Len(w) : w[n].action # "marker"
  BY DEF marked
<1>23. QED
  BY <1>21, <1>22 DEF verdict, progress, last, w, t, s, samples

\* The windows TLC starts from, and one sample more.
LEMMA WindowDocsFit ==
  ASSUME NEW d \in WindowDocs
  PROVE  WindowInv(d)
<1>1. PICK s \in Followup!Scenarios, first \in FirstSamples : d = [scenario |-> s, samples |-> <<first>>]
  BY DEF WindowDocs
<1>2. first \in WindowSample /\ ~first.slot /\ first.action = "none"
  <2>1. PICK m \in BOOLEAN :
          first = [slot |-> FALSE, action |-> "none", managed |-> m, stardate |-> 0, collateral |-> {}]
    BY DEF FirstSamples
  <2>2. first.slot = FALSE /\ first.action = "none"
    BY <2>1
  <2>3. first \in WindowSample
    BY <2>1 DEF WindowSample
  <2>4. QED
    BY <2>2, <2>3
<1>3. <<first>> \in Seq(WindowSample) /\ Len(<<first>>) = 1 /\ <<first>>[1] = first
  BY <1>2
<1>4. {"scenario", "samples"} \subseteq DOMAIN d /\ d.scenario = s /\ d.samples = <<first>>
  BY <1>1
<1>5. QED
  BY <1>2, <1>3, <1>4 DEF WindowInv

\* A window with one sample more is a window.
LEMMA SampleTaken ==
  ASSUME NEW d, WindowInv(d), NEW x \in NextSamples(d.scenario, d.samples[Len(d.samples)])
  PROVE  WindowInv([d EXCEPT !.samples = Append(@, x)])
<1> DEFINE e == [d EXCEPT !.samples = Append(@, x)]
           last == d.samples[Len(d.samples)]
<1>1. /\ {"scenario", "samples"} \subseteq DOMAIN d /\ d.samples \in Seq(WindowSample)
      /\ Len(d.samples) >= 1
  BY DEF WindowInv
<1>2. last \in WindowSample
  BY <1>1
<1>3. last.stardate \in Nat
  BY <1>2 DEF WindowSample
<1> HIDE DEF last
<1>4. x \in WindowSample
  <2>1. x \in [slot : BOOLEAN, action : {"none", "auto", "marker"}, managed : BOOLEAN,
               stardate : {last.stardate, last.stardate + 1, last.stardate + 3},
               collateral : IF Followup!Probe(d.scenario) THEN {{}, {"left", "right"}} ELSE {{}}]
    BY DEF NextSamples, last
  <2>2. {last.stardate, last.stardate + 1, last.stardate + 3} \subseteq Nat
    BY <1>3
  <2>3. (IF Followup!Probe(d.scenario) THEN {{}, {"left", "right"}} ELSE {{}}) \subseteq SUBSET {"left", "right"}
    OBVIOUS
  <2>4. QED
    BY <2>1, <2>2, <2>3 DEF WindowSample
<1>5. /\ {"scenario", "samples"} \subseteq DOMAIN e /\ e.scenario = d.scenario
      /\ e.samples = Append(d.samples, x)
  BY <1>1
<1> HIDE DEF e
<1>6. /\ Append(d.samples, x) \in Seq(WindowSample) /\ Len(Append(d.samples, x)) = Len(d.samples) + 1
      /\ Append(d.samples, x)[1] = d.samples[1]
  BY <1>1, <1>4
<1>7. WindowInv(e)
  BY <1>1, <1>5, <1>6 DEF WindowInv
<1>8. QED
  BY <1>7 DEF e

-----------------------------------------------------------------------------
(* Every subject keeps its shape, whatever is edited.                       *)

StaticInv ==
  /\ subject = "script" => ScriptInv
  /\ subject = "lifetime" => LifetimeInv(doc)
  /\ subject = "manual" => ManualInv(doc)
  /\ subject = "window" => WindowInv(doc)
  /\ subject = "range" => doc \in [offset : Nat, length : Nat]
  /\ subject = "roles" => RolesInv
  /\ subject = "image" => doc \in ImageRecord
  /\ subject = "code" => CodeInv(doc)
  /\ subject = "diff" => DiffInv(doc)

\* Every subject starts in its shape.
LEMMA StaticInitial == MCInit => StaticInv
<1> SUFFICES ASSUME MCInit PROVE StaticInv
  OBVIOUS
<1>1. CASE subject = "script" /\ Init
  BY <1>1, ScriptInitial DEF StaticInv
<1>2. CASE subject = "roles" /\ Roles!Init
  BY <1>2, RolesInitial DEF StaticInv
<1>3. CASE subject = "lifetime" /\ doc \in LifetimeDocs
  BY <1>3, LifetimeDocsFit DEF StaticInv
<1>4. CASE subject = "manual" /\ doc \in ManualDocs
  BY <1>4, ManualDocsFit DEF StaticInv
<1>5. CASE subject = "window" /\ doc \in WindowDocs
  BY <1>5, WindowDocsFit DEF StaticInv
<1>6. CASE subject = "image" /\ doc \in ImageDocs
  BY <1>6, ImageDocsFit DEF StaticInv
<1>7. CASE subject = "code" /\ doc \in CodeDocs
  BY <1>7, CodeDocsFit DEF StaticInv
<1>8. CASE subject = "diff" /\ doc \in DiffDocs
  BY <1>8, DiffDocsFit DEF StaticInv
<1>9. CASE subject = "artifacts"
  BY <1>9 DEF StaticInv
<1>10. CASE subject = "range" /\ doc \in [offset : 0..124, length : 0..124]
  BY <1>10 DEF StaticInv
<1>11. QED
  BY <1>1, <1>2, <1>3, <1>4, <1>5, <1>6, <1>7, <1>8, <1>9, <1>10 DEF MCInit

\* An edit of one subject keeps its shape, and is of that subject alone.
LEMMA StaticStepKeeps ==
  StaticInv /\ [MCNext]_<<subject, doc, edits, scriptVars, rolesVars>> => StaticInv'
<1> SUFFICES ASSUME StaticInv, [MCNext]_<<subject, doc, edits, scriptVars, rolesVars>> PROVE StaticInv'
  OBVIOUS
<1> DEFINE scriptKept == steps' = steps /\ bounds' = bounds
           rolesKept == /\ declared' = declared /\ files' = files /\ harness' = harness
                        /\ written' = written
<1>1. scriptKept => (ScriptInv' <=> ScriptInv)
  BY DEF ScriptInv
<1>2. rolesKept => (RolesInv' <=> RolesInv)
  <2> SUFFICES ASSUME files' = files, written' = written PROVE RolesInv' <=> RolesInv
    OBVIOUS
  <2>1. QED
    BY DEF RolesInv, Earned
<1>3. ASSUME NEW name, NEW bound, NEW next, subject = name, EditDoc(name, bound, next)
      PROVE  subject' = subject /\ scriptKept /\ rolesKept /\ doc' \in next
  BY <1>3 DEF EditDoc, scriptVars, rolesVars
<1>4. CASE EditScript
  <2>1. subject = "script" /\ subject' = subject /\ Next
    BY <1>4 DEF EditScript
  <2>2. ScriptInv'
    BY <2>1, ScriptStepKeeps DEF StaticInv
  <2>3. QED
    BY <2>1, <2>2 DEF StaticInv
<1>5. CASE EditRoles
  <2>1. subject = "roles" /\ subject' = subject /\ Roles!Next
    BY <1>5 DEF EditRoles
  <2>2. RolesInv'
    BY <2>1, RolesStepKeeps DEF StaticInv
  <2>3. QED
    BY <2>1, <2>2 DEF StaticInv
<1>6. CASE EditLifetime
  <2>1. subject = "lifetime" /\ subject' = subject /\ doc' \in LifetimeEdits(doc)
    BY <1>3, <1>6 DEF EditLifetime
  <2>2. LifetimeInv(doc')
    BY <2>1, LifetimeEdited DEF StaticInv
  <2>3. QED
    BY <2>1, <2>2 DEF StaticInv
<1>7. CASE EditManual
  <2>1. subject = "manual" /\ subject' = subject /\ doc' \in ManualEdits(doc)
    BY <1>3, <1>7 DEF EditManual
  <2>2. ManualInv(doc')
    BY <2>1, ManualEdited DEF StaticInv
  <2>3. QED
    BY <2>1, <2>2 DEF StaticInv
<1>8. CASE TakeSample
  <2>1. /\ subject = "window" /\ subject' = subject
        /\ doc' \in {[doc EXCEPT !.samples = Append(@, x)] :
                       x \in NextSamples(doc.scenario, doc.samples[Len(doc.samples)])}
    BY <1>3, <1>8 DEF TakeSample
  <2>2. WindowInv(doc')
    BY <2>1, SampleTaken DEF StaticInv
  <2>3. QED
    BY <2>1, <2>2 DEF StaticInv
<1>9. CASE EditImage
  <2>1. subject = "image" /\ subject' = subject /\ doc' \in ImageEdits(doc)
    BY <1>3, <1>9 DEF EditImage
  <2>2. doc' \in ImageRecord
    BY <2>1, ImageEdited DEF StaticInv
  <2>3. QED
    BY <2>1, <2>2 DEF StaticInv
<1>10. CASE EditCode
  <2>1. subject = "code" /\ subject' = subject /\ doc' \in CodeEdits(doc)
    BY <1>3, <1>10 DEF EditCode
  <2>2. CodeInv(doc')
    BY <2>1, CodeEdited DEF StaticInv
  <2>3. QED
    BY <2>1, <2>2 DEF StaticInv
<1>11. CASE AddFunction
  <2>1. subject = "diff" /\ subject' = subject /\ doc' \in DiffEdits(doc)
    BY <1>3, <1>11 DEF AddFunction
  <2>2. DiffInv(doc')
    BY <2>1, DiffEdited DEF StaticInv
  <2>3. QED
    BY <2>1, <2>2 DEF StaticInv
<1>12. CASE EditArtifacts
  <2>1. subject = "artifacts" /\ subject' = subject
    BY <1>3, <1>12 DEF EditArtifacts
  <2>2. QED
    BY <2>1 DEF StaticInv
<1>13. CASE UNCHANGED <<subject, doc, edits, scriptVars, rolesVars>>
  <2>1. subject' = subject /\ doc' = doc /\ scriptKept /\ rolesKept
    BY <1>13 DEF scriptVars, rolesVars
  <2>2. QED
    BY <1>1, <1>2, <2>1 DEF StaticInv
<1>14. QED
  BY <1>4, <1>5, <1>6, <1>7, <1>8, <1>9, <1>10, <1>11, <1>12, <1>13 DEF MCNext

\* The subject in the hands of the validators is what it is taken for.
THEOREM StaticInvariant == MCSpec => []StaticInv
<1>1. QED
  BY StaticInitial, StaticStepKeeps, PTL DEF MCSpec

(***************************************************************************)
(* validate_action_script accepts a script exactly when it is the plan of  *)
(* the contract with usable bounds, for scripts of any length, any number  *)
(* of edits and any labels.                                                *)
(***************************************************************************)
THEOREM PlansAreAccepted == MCSpec => []ScriptsArePlans
<1>1. StaticInv => ScriptsArePlans
  BY ScriptsAcceptPlans DEF StaticInv, ScriptsArePlans
<1>2. QED
  BY <1>1, StaticInvariant, PTL

(***************************************************************************)
(* What the oracles accept as positive fails closed: a cache keyed by the  *)
(* accepted identity serves no replaced record at any instant, and no      *)
(* witness reads the name (validate_record, _validate_witness_range).      *)
(***************************************************************************)
THEOREM PositiveIsSafe == MCSpec => []PositiveFailsClosed
<1>1. StaticInv => PositiveFailsClosed
  <2> SUFFICES ASSUME StaticInv PROVE PositiveFailsClosed
    OBVIOUS
  <2>1. LifetimeFailsClosed
    BY LifetimeRecordsFailClosed DEF StaticInv
  <2>2. ManualFailsClosed
    BY ManualRecordsFailClosed DEF StaticInv
  <2>3. RangesAgree
    BY RangesAgreeEverywhere DEF StaticInv
  <2>4. QED
    BY <2>1, <2>2, <2>3 DEF PositiveFailsClosed
<1>2. QED
  BY <1>1, StaticInvariant, PTL

(***************************************************************************)
(* Of every image the parser accepts, of any number of pages and objects,  *)
(* the rebuilt objects, the backed addresses, the strings and the anchors  *)
(* are what the page map puts in memory (object_bytes, va_to_file_offset,  *)
(* strings, check_anchor).                                                 *)
(***************************************************************************)
THEOREM ImagesAreTheirPages == MCSpec => []ImagesAreTheFile
<1>1. StaticInv => ImagesAreTheFile
  BY ImagesAreExact DEF StaticInv, ImagesAreTheFile
<1>2. QED
  BY <1>1, StaticInvariant, PTL

(***************************************************************************)
(* Of any lines of the object, with any calls, the inventory attributes    *)
(* every instruction, byte and call once (build_inventory); and a          *)
(* comparison of inventories of any number of functions puts every         *)
(* function in the class that is true of it (match_pass, compare).         *)
(***************************************************************************)
THEOREM ComparisonsHold == MCSpec => []CodeIsComparedHonestly
<1>1. StaticInv => CodeIsComparedHonestly
  BY InventoriesCount, ComparisonsAreHonest DEF StaticInv, CodeIsComparedHonestly
<1>2. QED
  BY <1>1, StaticInvariant, PTL

(***************************************************************************)
(* The verdicts of the follow-up follow from its samples, for windows of   *)
(* any number of samples, and its artifacts support every claim            *)
(* (monitor_turn, validate_scenario, classify_observation,                 *)
(* summarize_causality).                                                   *)
(***************************************************************************)
THEOREM VerdictsFollow == MCSpec => []FollowupVerdictsHold
<1>1. StaticInv => FollowupVerdictsHold
  <2> SUFFICES ASSUME StaticInv PROVE FollowupVerdictsHold
    OBVIOUS
  <2>1. subject = "window" => WindowInv(doc)
    BY DEF StaticInv
  <2>2. QED
    BY <2>1, WindowVerdicts, ArtifactsSupport DEF FollowupVerdictsHold
<1>2. QED
  BY <1>1, StaticInvariant, PTL

(***************************************************************************)
(* A role a fixture satisfies rests on a run that observed its save, and a *)
(* production that wrote it, whatever is edited (validate_fixture_roles).  *)
(***************************************************************************)
THEOREM RolesAreEarned == MCSpec => []RolesRestOnRuns
<1>1. StaticInv => RolesRestOnRuns
  BY RolesRest DEF StaticInv, RolesRestOnRuns
<1>2. QED
  BY <1>1, StaticInvariant, PTL
=============================================================================
