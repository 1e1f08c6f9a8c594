---------------------------- MODULE GateRelocation ----------------------------
(***************************************************************************)
(* validate_gate_override_relationship of run_re5_override_witness.py: the *)
(* address in an instruction, bytes 0 to 3 from page offset Site, is taken *)
(* from the one relocation of the page that has this very offset.  What    *)
(* the loader makes of those bytes depends on every relocation of the page *)
(* that overlaps them.                                                     *)
(***************************************************************************)
EXTENDS Integers, Sequences, FiniteSets, SequencesExt

CONSTANTS Offsets,     \* page offsets of relocations
          Expected     \* EXPECTED_OVERRIDE_VA

GateAssumption == Offsets \subseteq Nat

Site == 4
Bases == [o \in {1, 2} |-> o * 10]

\* A fixup of the one source type supported writes four bytes at its offset.  Its record
\* gives the place in the object it names in two bytes or in four; other forms exist.
Fixups == [at : Offsets, form : {"target16", "target32", "other"}, object : {1, 2}, target : {1, 2}]
Gates == [raw : {1, 2}, fixups : UNION {[1..n -> Fixups] : n \in 0..2}]

Address(fixup) == Bases[fixup.object] + fixup.target

\* _parse_simple_le_fixup_records gives up on a page with any other form.
Parses(gate) == \A i \in DOMAIN gate.fixups : gate.fixups[i].form # "other"

AtSite(gate) == {i \in DOMAIN gate.fixups : gate.fixups[i].at = Site}

\* A fault: the first of several relocations is taken.
RelatesFirst(gate) ==
  /\ Parses(gate) /\ AtSite(gate) # {}
  /\ LET f == gate.fixups[CHOOSE i \in AtSite(gate) : \A j \in AtSite(gate) : i <= j]
     IN  f.form = "target32" /\ f.target = gate.raw /\ Address(f) = Expected

\* One relocation at the site, of the wide form, which agrees with the raw bytes.
Relates(gate) ==
  /\ Parses(gate) /\ Cardinality(AtSite(gate)) = 1
  /\ LET f == gate.fixups[CHOOSE i \in AtSite(gate) : TRUE]
     IN  f.form = "target32" /\ f.target = gate.raw /\ Address(f) = Expected

Highest(S) == CHOOSE x \in S : \A y \in S : y <= x

Byte(address, n) == (address \div 256 ^ n) % 256
Bytes(address) == [n \in 0..3 |-> Byte(address, n)]

\* The fixups that write byte n of the address in the instruction.
Writing(gate, n) ==
  {i \in DOMAIN gate.fixups : Site + n - gate.fixups[i].at \in 0..3}

\* The bytes once the loader has applied the page's fixups in order.
Loaded(gate) ==
  [n \in 0..3 |->
     IF Writing(gate, n) = {} THEN Byte(gate.raw, n)
     ELSE LET f == gate.fixups[Highest(Writing(gate, n))]
          IN  Byte(Address(f), Site + n - f.at)]

VARIABLES gate, verdict

TypeOK == gate \in Gates /\ verdict \in {"none", "related", "refused"}

Init == gate \in Gates /\ verdict = "none"

Validate ==
  /\ verdict = "none" /\ UNCHANGED gate
  /\ verdict' = IF Relates(gate) THEN "related" ELSE "refused"

Spec == Init /\ [][Validate]_<<gate, verdict>>
-----------------------------------------------------------------------------
(***************************************************************************)
(* The address the witness watches is the one the loaded instruction has,  *)
(* unless another relocation of the page overlaps its bytes: offsets are   *)
(* compared for equality, so the code does not see such a one, and only    *)
(* the pinned digest of the file excludes it.                              *)
(***************************************************************************)
RelatedIsLoaded ==
  verdict = "related" =>
    \/ Loaded(gate) = Bytes(Expected)
    \/ \E f \in ToSet(gate.fixups) : f.at # Site /\ Site - f.at \in -3..3
=============================================================================
