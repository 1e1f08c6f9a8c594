---------------------------- MODULE LeInventory ----------------------------
(***************************************************************************)
(* The code inventory of tools/le_disasm.py: candidate functions, their    *)
(* signatures and the call graph, from the lines objdump prints for one    *)
(* object.                                                                 *)
(*                                                                         *)
(* A line is [address, text]; a text is [op, value]: the mnemonic with its *)
(* other operands, and the hex operand (NoValue: none).  A call through a  *)
(* register has no value, and is not a direct call.  SHA-256 is taken to   *)
(* be injective: the digest of a body is the body.                         *)
(***************************************************************************)
EXTENDS Integers, Sequences, FiniteSets, FiniteSetsExt, LeLists

NoValue == -1
ADDR == -2               \* "ADDR", an in-image reference, masked
IMM == -3                \* "IMM", any hex operand, masked

InRanges(value, ranges) == \E r \in ranges : r.low <= value /\ value < r.high

\* normalize, normalize_references and normalize_shape.
Normalize(text) == text
NormalizeReferences(text, ranges) ==
  IF text.value # NoValue /\ InRanges(text.value, ranges) THEN [text EXCEPT !.value = ADDR] ELSE text
NormalizeShape(text) == IF text.value # NoValue THEN [text EXCEPT !.value = IMM] ELSE text

\* disassemble, its second half: a length is the gap to the next line.
WithLengths(lines, end) ==
  [i \in 1..Len(lines) |->
     [address |-> lines[i].address, text |-> lines[i].text,
      length |-> Max({0, (IF i < Len(lines) THEN lines[i + 1].address ELSE end)
                           - lines[i].address})]]

\* The addresses of a set in [low, high), in order.
Sorted(addresses, low, high) ==
  Chosen([i \in 1..(high - low) |-> low + i - 1],
         {i \in 1..(high - low) : low + i - 1 \in addresses})

\* The greatest start not after the address, by bisection (0: none).
Owner(starts, address) ==
  LET search[s \in [low : 1..(Len(starts) + 1), high : 0..Len(starts), best : 0..Len(starts)]] ==
        IF s.low > s.high THEN s.best
        ELSE LET mid == (s.low + s.high) \div 2
             IN  IF starts[mid] <= address
                 THEN search[[low |-> mid + 1, high |-> s.high, best |-> mid]]
                 ELSE search[[low |-> s.low, high |-> mid - 1, best |-> s.best]]
  IN  search[[low |-> 1, high |-> Len(starts), best |-> 0]]

Calls(instruction) == instruction.text.op = "call" /\ instruction.text.value # NoValue
Branches(instruction) == instruction.text.op = "jmp" /\ instruction.text.value # NoValue

\* build_inventory.  seed is in [low, high).
BuildInventory(instructions, seed, low, high, ranges) ==
  LET indices == 1..Len(instructions)
      InObject(i) == low <= instructions[i].text.value /\ instructions[i].text.value < high
      Target(i) == instructions[i].text.value
      sites == {i \in indices : Calls(instructions[i]) /\ InObject(i)}
      starts == Sorted({seed} \cup {Target(i) : i \in sites}, low, high)
      OwnerOf(i) == Owner(starts, instructions[i].address)
      Owned(n) == Chosen(instructions, {i \in indices : OwnerOf(i) = n})
      Body(n, Line(_)) == LET own == Owned(n) IN [k \in 1..Len(own) |-> Line(own[k].text)]
      Lengths(n) == LET own == Owned(n) IN [k \in 1..Len(own) |-> own[k].length]
      pairs == {<<OwnerOf(i), Target(i)>> : i \in {k \in sites : OwnerOf(k) # 0}}
  IN  [instruction_count |-> Len(instructions),
       call_site_count |-> Cardinality(sites),
       branch_target_count |->
         Cardinality({Target(i) : i \in {k \in indices : Branches(instructions[k]) /\ InObject(k)}}),
       functions |->
         [n \in 1..Len(starts) |->
            [address |-> starts[n],
             end |-> IF n < Len(starts) THEN starts[n + 1] ELSE high,
             instruction_count |-> Len(Owned(n)),
             byte_length |-> Summed(Lengths(n)),
             callers |-> Cardinality({i \in sites : Target(i) = starts[n]}),
             signature |-> Body(n, Normalize),
             reference_signature |-> Body(n, LAMBDA text : NormalizeReferences(text, ranges)),
             shape_signature |-> Body(n, NormalizeShape)]],
       call_edges |->
         {[from |-> starts[p[1]], to |-> p[2],
           count |-> Cardinality({i \in sites : OwnerOf(i) = p[1] /\ Target(i) = p[2]})] : p \in pairs}]

\* analyse: the seed is the image's entry when that is in the object, and the
\* object's base when it is not.
Seed(object, entry) ==
  IF object.base <= entry /\ entry < object.base + object.size THEN entry ELSE object.base

Analyse(objects, object, entry, lines) ==
  BuildInventory(WithLengths(lines, object.base + object.size), Seed(object, entry),
                 object.base, object.base + object.size,
                 {[low |-> o.base, high |-> o.base + o.size] : o \in objects})
=============================================================================
