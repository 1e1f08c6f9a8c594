------------------------------- MODULE LeDiff -------------------------------
(***************************************************************************)
(* The comparison of two code inventories, tools/le_diff.py: three passes  *)
(* that match functions by ever weaker signatures.                         *)
(*                                                                         *)
(* An inventory is [schema, layout, tool, functions]; functions is the     *)
(* sequence of LeInventory, in the order of the addresses.  The reports    *)
(* are sorted by size for the reader: here they are sets.                  *)
(***************************************************************************)
EXTENDS Integers, Sequences, SequencesExt, FiniteSetsExt, LeLists

IdentityFields == {"objdump", "arch", "method", "normalization"}   \* DECODER_IDENTITY_FIELDS

\* validate_inventory ("" stands for a blank provenance).
ValidInventory(report) ==
  /\ report.schema = "current" /\ report.layout = "current"
  /\ IdentityFields \subseteq DOMAIN report.tool
  /\ \A field \in IdentityFields : report.tool[field] # ""

\* decoder_identity, require_matching_decoder.
DecoderIdentity(report) == [field \in IdentityFields |-> report.tool[field]]
SameDecoder(left, right) == DecoderIdentity(left) = DecoderIdentity(right)

\* group: the functions of one signature, in order; and the signatures, in
\* the order in which they first occur.
Group(functions, key, signature) ==
  Chosen(functions, {i \in 1..Len(functions) : functions[i][key] = signature})
Signatures(functions, key) ==
  LET firsts == {i \in 1..Len(functions) :
                   \A j \in 1..(i - 1) : functions[j][key] # functions[i][key]}
  IN  Chosen([i \in 1..Len(functions) |-> functions[i][key]], firsts)

Paired(a, b) == Min({Len(a), Len(b)})

\* match_pass, the pairs.
Pairs(lefts, rights, key) ==
  UNION {LET a == Group(lefts, key, signature)
             b == Group(rights, key, signature)
         IN  {<<a[n], b[n]>> : n \in 1..Paired(a, b)} :
           signature \in {f[key] : f \in ToSet(lefts)}}

\* A fault: the first of the group is left over, not the last.
LeftoversFirst(primary, other, key) ==
  LET order == Signatures(primary, key)
  IN  FlattenSeq([n \in 1..Len(order) |->
        LET items == Group(primary, key, order[n])
        IN  SubSeq(items, 1, Len(items) - Paired(items, Group(other, key, order[n])))])

\* match_pass, the leftovers: group by group, what the zip did not reach.
Leftovers(primary, other, key) ==
  LET order == Signatures(primary, key)
  IN  FlattenSeq([n \in 1..Len(order) |->
        LET items == Group(primary, key, order[n])
        IN  SubSeq(items, 1 + Paired(items, Group(other, key, order[n])), Len(items))])

Difference(p) == [left |-> p[1].address, right |-> p[2].address,
                  moved |-> p[1].address # p[2].address]

\* The three passes of compare, the strongest signature first.
Keys == <<"signature", "reference_signature", "shape_signature">>

\* match_pass, what it hands on to the next pass.
MatchPass(lists, key) ==
  [left |-> Leftovers(lists.left, lists.right, key),
   right |-> Leftovers(lists.right, lists.left, key)]

Bytes(list) == Summed([i \in 1..Len(list) |-> list[i].byte_length])

\* compare ("refused" when a side is not comparable).
Compare(left, right) ==
  IF ~(ValidInventory(left) /\ ValidInventory(right) /\ SameDecoder(left, right))
  THEN [status |-> "refused"]
  ELSE LET entering[n \in 1..4] ==      \* the functions no pass before the nth has matched
             IF n = 1 THEN [left |-> left.functions, right |-> right.functions]
             ELSE MatchPass(entering[n - 1], Keys[n - 1])
           Matches(n) == {Difference(p) : p \in Pairs(entering[n].left, entering[n].right, Keys[n])}
           BytesOf(lists) == [left |-> Bytes(lists.left), right |-> Bytes(lists.right)]
       IN  [status |-> "compared",
            matched |-> Matches(1), reference_only |-> Matches(2), constant_only |-> Matches(3),
            only_in_left |-> {f.address : f \in ToSet(entering[4].left)},
            only_in_right |-> {f.address : f \in ToSet(entering[4].right)},
            unmatched_bytes |-> BytesOf(entering[4]),
            attributed_bytes |-> BytesOf(entering[1])]
=============================================================================
