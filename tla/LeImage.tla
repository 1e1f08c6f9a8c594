------------------------------ MODULE LeImage ------------------------------
(***************************************************************************)
(* The LE parser of tools/le_image.py: which images it accepts, and how it *)
(* rebuilds the memory an accepted image loads into.                       *)
(*                                                                         *)
(* An image is a record of the fields the parser reads; objects is the     *)
(* object table, pageMap the entries of the page map as far as the file    *)
(* goes, of which the parser reads the first image.pages.  A byte of the   *)
(* file stands for its offset, so that two different bytes differ.         *)
(***************************************************************************)
EXTENDS Integers, Sequences, SequencesExt, FiniteSetsExt

HeaderFields == 160      \* H_MIN_SIZE
ObjectEntry == 24        \* OBJECT_ENTRY_SIZE
PageMapEntry == 4        \* PAGE_MAP_ENTRY_SIZE

\* The zero the loader pads with; no file offset of page data is 0, and the
\* same value stands for an address no byte of the file backs.
Zero == 0
NotBacked == 0

\* _parse_header.
HeaderValid(image) ==
  /\ image.mz /\ image.lfanew > 0 /\ image.lfanew + HeaderFields <= image.size
  /\ image.magic = "LE" /\ image.littleEndian /\ image.level = 0 /\ image.cpuKnown
  /\ image.pageSize \in {2^k : k \in 0..30}
  /\ image.pages > 0
  /\ 0 < image.lastPageSize /\ image.lastPageSize <= image.pageSize
  /\ image.objects # <<>>
  /\ image.dataPages # 0

\* _parse_objects.
ObjectsValid(image) ==
  /\ image.lfanew + image.objectTable + Len(image.objects) * ObjectEntry <= image.size
  /\ \A i \in 1..Len(image.objects) :
       LET o == image.objects[i]
       IN  /\ ~o.invalid
           /\ o.pages > 0 => o.firstPage >= 1 /\ o.firstPage + o.pages - 1 <= image.pages

PageMapEnd(image) == image.lfanew + image.pageMapAt + image.pages * PageMapEntry

\* _parse_page_map.
PageMapValid(image) ==
  /\ PageMapEnd(image) <= image.size
  /\ \A i \in 1..image.pages :
       image.pageMap[i].legal /\ image.pageMap[i].number \in 1..image.pages

----------------------------------------------------------------------------
\* page_file_offset, page_length, entry_address.
PageFileOffset(image, number) == image.dataPages + (number - 1) * image.pageSize
PageLength(image, number) == IF number = image.pages THEN image.lastPageSize ELSE image.pageSize
EntryAddress(image) == image.objects[image.start].base + image.eip

Holds(o, address) == o.base <= address /\ address < o.base + o.size

\* object_containing: the first object that holds the address (0: none).
ObjectContaining(image, address) ==
  LET holders == {i \in 1..Len(image.objects) : Holds(image.objects[i], address)}
  IN  IF holders = {} THEN 0 ELSE Min(holders)

\* The physical page the i-th page of an object is mapped to.
PageOf(image, o, i) == image.pageMap[o.firstPage + i - 1].number

\* va_to_file_offset.
FileOffset(image, address) ==
  LET i == ObjectContaining(image, address)
      o == image.objects[i]
      delta == address - o.base
      number == PageOf(image, o, 1 + delta \div image.pageSize)
  IN  IF \/ i = 0
         \/ delta \div image.pageSize >= o.pages
         \/ (delta % image.pageSize) >= PageLength(image, number)
      THEN NotBacked
      ELSE PageFileOffset(image, number) + (delta % image.pageSize)

PageDataEnd(image) ==
  image.dataPages + (image.pages - 1) * image.pageSize + image.lastPageSize

\* _check_invariants.
InvariantsHold(image) ==
  /\ MapThenSumSet(LAMBDA i : image.objects[i].pages, 1..Len(image.objects)) = image.pages
  /\ PageMapEnd(image) <= image.dataPages
  /\ PageDataEnd(image) <= image.size
  /\ image.start \in 1..Len(image.objects)
  /\ image.eip < image.objects[image.start].size
  /\ image.objects[image.start].executable
  /\ image.autodata \in 0..Len(image.objects)
  /\ image.debugSize > 0 => image.debugAt > 0 /\ image.debugAt + image.debugSize <= image.size
  /\ FileOffset(image, EntryAddress(image)) # NotBacked

\* LEImage(data) does not raise.
Accepted(image) ==
  HeaderValid(image) /\ ObjectsValid(image) /\ PageMapValid(image) /\ InvariantsHold(image)

----------------------------------------------------------------------------
\* A fault: a short page takes no more room than its bytes.
ChunkUnpadded(image, number) ==
  [b \in 1..PageLength(image, number) |-> PageFileOffset(image, number) + b - 1]

\* One page of object_bytes, padded to the page size.
Chunk(image, number) ==
  [b \in 1..image.pageSize |->
     IF b <= PageLength(image, number) THEN PageFileOffset(image, number) + b - 1 ELSE Zero]

\* object_bytes: cut or padded to the virtual size.
ObjectBytes(image, o) ==
  LET loaded == FlattenSeq([i \in 1..o.pages |-> Chunk(image, PageOf(image, o, i))])
  IN  [b \in 1..o.size |-> IF b <= Len(loaded) THEN loaded[b] ELSE Zero]

\* check_anchor: the bytes of the FILE from the anchor's offset on.
CheckAnchor(image, address, expected) ==
  LET offset == FileOffset(image, address)
      there == Min({Len(expected), image.size - offset})
  IN  /\ offset # NotBacked
      /\ expected = [b \in 1..there |-> offset + b - 1]

\* strings: the printable runs of an object that are long enough, found with
\* one register, the start of the run (0: not in one).
Strings(image, o, printable, minLength) ==
  LET bytes == ObjectBytes(image, o)
      Ended(run, i) == IF run # 0 /\ i - run >= minLength
                       THEN {[address |-> o.base + run - 1, length |-> i - run]} ELSE {}
      scan[i \in 0..Len(bytes)] ==
        IF i = 0 THEN [run |-> 0, found |-> {}]
        ELSE LET before == scan[i - 1]
             IN  IF bytes[i] \in printable
                 THEN [before EXCEPT !.run = IF @ = 0 THEN i ELSE @]
                 ELSE [run |-> 0, found |-> before.found \cup Ended(before.run, i)]
      last == scan[Len(bytes)]
  IN  last.found \cup Ended(last.run, Len(bytes) + 1)
=============================================================================
