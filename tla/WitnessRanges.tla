--------------------------- MODULE WitnessRanges ---------------------------
(***************************************************************************)
(* How a scenario is qualified before a run and a witness after it:        *)
(* scripts/a1_scenario_qualification.py builds the manifest, the labels of *)
(* the planets with the digest of some bytes of each record and, for v2,   *)
(* the place of those bytes; scripts/a1_v2_witness_binding.py binds what a *)
(* run read to that place.  The two files decide separately which places   *)
(* are allowed.                                                            *)
(*                                                                         *)
(* SHA-256 is taken to be injective: bytes stand for their digest.         *)
(***************************************************************************)
EXTENDS Integers, Sequences

PlanetRecordSize == 123        \* 0x7b
PresentationNameOffset == 36   \* 0x24
PresentationNameLength == 32
MaxMetadataBytes == 512
MetadataBasis == "bounded-record-metadata"

SourceFields == {"target_sha256", "retail_manifest_identity", "scenario_identity",
                 "qualification_source_sha256"}

----------------------------------------------------------------------------
\* a1_scenario_qualification.py.  An entry of the input: label, basis,
\* metadata (the bytes), length (their number) and offset.

\* A fault: only a range that starts inside the name is refused.
RejectsNameStart(offset, length) ==
  /\ PresentationNameOffset <= offset
  /\ offset < PresentationNameOffset + PresentationNameLength

RejectsNameOverlap(offset, length) ==
  /\ offset < PresentationNameOffset + PresentationNameLength
  /\ offset + length > PresentationNameOffset

EntryValid(entry, schema) ==
  /\ entry.basis = MetadataBasis
  /\ 0 < entry.length /\ entry.length <= MaxMetadataBytes
  /\ schema = "v2" =>
       /\ entry.offset >= 0
       /\ entry.offset + entry.length <= PlanetRecordSize
       /\ ~RejectsNameOverlap(entry.offset, entry.length)

\* _validated_input: the document says of its source what the expected source
\* says, is the one it pins (the digest of the document is the value of
\* input.source["qualification_source_sha256"]), and every entry is valid and
\* has a label of its own.
InputValid(input, expected) ==
  /\ input.schema \in {"v1", "v2"}
  /\ input.source = expected
  /\ input.planets # <<>>
  /\ \A i \in 1..Len(input.planets) : EntryValid(input.planets[i], input.schema)
  /\ \A i, j \in 1..Len(input.planets) :
       input.planets[i].label = input.planets[j].label => i = j

\* build_manifest; validate_manifest accepts this manifest only.
BuildManifest(input) ==
  LET entry(label) == CHOOSE e \in {input.planets[i] : i \in 1..Len(input.planets)} :
                        e.label = label
      labels == {input.planets[i].label : i \in 1..Len(input.planets)}
  IN  [schema |-> input.schema,
       source |-> input.source,
       planets |-> [label \in labels |-> entry(label).metadata],
       ranges |-> IF input.schema = "v1" THEN [label \in {} |-> <<>>]
                  ELSE [label \in labels |->
                          [basis |-> entry(label).basis, offset |-> entry(label).offset,
                           length |-> entry(label).length, digest |-> entry(label).metadata]]]

----------------------------------------------------------------------------
\* a1_v2_witness_binding.py.

OverlapsName(offset, length) ==
  LET nameEnd == PresentationNameOffset + PresentationNameLength
  IN  offset < nameEnd /\ offset + length > PresentationNameOffset

\* A fault: the last byte of the range is not counted.
WitnessContractShort(manifest, label) ==
  /\ label \in DOMAIN manifest.planets /\ label \in DOMAIN manifest.ranges
  /\ LET range == manifest.ranges[label]
     IN  /\ range.basis = MetadataBasis
         /\ range.digest = manifest.planets[label]
         /\ range.offset + range.length < PlanetRecordSize
         /\ ~OverlapsName(range.offset, range.length)

\* witness_contract: the predeclared range of a label is usable.
WitnessContract(manifest, label) ==
  /\ label \in DOMAIN manifest.planets /\ label \in DOMAIN manifest.ranges
  /\ LET range == manifest.ranges[label]
     IN  /\ range.basis = MetadataBasis
         /\ range.offset >= 0 /\ range.length > 0
         /\ range.digest = manifest.planets[label]
         /\ range.length <= MaxMetadataBytes
         /\ range.offset + range.length <= PlanetRecordSize
         /\ ~OverlapsName(range.offset, range.length)

\* validate_qualified_witness: the witness of a point names the point's
\* record, and reads the bytes the manifest declared for it.
WitnessBound(witness, logical, manifest) ==
  /\ witness.planet = logical
  /\ witness.metadata = <<>>
  /\ WitnessContract(manifest, logical)
  /\ LET range == manifest.ranges[logical]
     IN  /\ witness.basis = range.basis
         /\ witness.offset = range.offset
         /\ witness.length = range.length
         /\ witness.declared = range.digest
=============================================================================
