------------------------------ MODULE MCLeCode ------------------------------
(***************************************************************************)
(* Subjects for the LE tools (LeImage, LeInventory, LeDiff): an image, the *)
(* lines of a disassembly, and two inventories; the edits of each, and     *)
(* what the tools promise of them.  MCStatic takes them up.                *)
(***************************************************************************)
EXTENDS Integers, Sequences, FiniteSets, LeLists

Image == INSTANCE LeImage
Inventory == INSTANCE LeInventory
Diff == INSTANCE LeDiff

----------------------------------------------------------------------------
(* An image of three pages of four bytes, the last with two; code at 16    *)
(* over two pages, data at 32 over one.                                    *)

Entry(n) == [number |-> n, legal |-> TRUE]

ImageOf(p1, p2, p3) ==
  [size |-> 296, mz |-> TRUE, lfanew |-> 64, magic |-> "LE", littleEndian |-> TRUE,
   level |-> 0, cpuKnown |-> TRUE, pageSize |-> 4, pages |-> 3, lastPageSize |-> 2,
   start |-> 1, eip |-> 1, objectTable |-> 160, pageMapAt |-> 208, dataPages |-> 284,
   autodata |-> 2, debugAt |-> 0, debugSize |-> 0,
   objects |-> <<[size |-> 8, base |-> 16, executable |-> TRUE, invalid |-> FALSE,
                  firstPage |-> 1, pages |-> 2],
                 [size |-> 5, base |-> 32, executable |-> FALSE, invalid |-> FALSE,
                  firstPage |-> 3, pages |-> 1]>>,
   pageMap |-> <<Entry(p1), Entry(p2), Entry(p3), Entry(0)>>]

ImageDocs == {ImageOf(1, 2, 3), ImageOf(3, 1, 2), ImageOf(2, 3, 1)}

ObjectEdits(o) ==
  {[o EXCEPT !.size = n] : n \in {0, 1, 4, 7, 9, 16}}
    \cup {[o EXCEPT !.base = n] : n \in {16, 20, 32}}
    \cup {[o EXCEPT !.firstPage = n] : n \in 0..4}
    \cup {[o EXCEPT !.pages = n] : n \in 0..3}
    \cup {[o EXCEPT !.executable = ~@], [o EXCEPT !.invalid = TRUE]}

PageMapEdits(image) ==
  {[image EXCEPT !.pageMap[i] = e] : i \in 1..3,
     e \in {Entry(n) : n \in 0..4} \cup {[number |-> 1, legal |-> FALSE]}}

ObjectTableEdits(image) ==
  UNION {{[image EXCEPT !.objects[i] = o] : o \in ObjectEdits(image.objects[i])} :
           i \in DOMAIN image.objects}

HeaderEdits(image) ==
  {[image EXCEPT !.size = n] : n \in {200, 283, 293, 294}}
    \cup {[image EXCEPT !.pages = n] : n \in {0, 2, 4}}
    \cup {[image EXCEPT !.pageSize = n] : n \in {0, 2, 3, 8}}
    \cup {[image EXCEPT !.lastPageSize = n] : n \in {0, 1, 3, 4, 5}}
    \cup {[image EXCEPT !.start = n] : n \in {0, 2, 3}}
    \cup {[image EXCEPT !.eip = n] : n \in {0, 3, 6, 7, 8}}
    \cup {[image EXCEPT !.dataPages = n] : n \in {0, 280, 286}}
    \cup {[image EXCEPT !.autodata = n] : n \in {0, 3}}
    \cup {[image EXCEPT !.debugAt = n, !.debugSize = 2] : n \in {0, 294, 295}}
    \cup {[image EXCEPT !.mz = FALSE], [image EXCEPT !.magic = "LX"], [image EXCEPT !.lfanew = 0],
          [image EXCEPT !.littleEndian = FALSE], [image EXCEPT !.level = 1],
          [image EXCEPT !.cpuKnown = FALSE], [image EXCEPT !.objects = <<>>]}

ImageEdits(image) == PageMapEdits(image) \cup ObjectTableEdits(image) \cup HeaderEdits(image)

\* The memory the image loads into, address by address: what its object's
\* page, of the page map, holds there.
MemoryAt(image, o, address) ==
  LET at == address - o.base
      page == at \div image.pageSize
      number == image.pageMap[o.firstPage + page].number
      held == IF number = image.pages THEN image.lastPageSize ELSE image.pageSize
  IN  IF page < o.pages /\ at - page * image.pageSize < held
      THEN image.dataPages + (number - 1) * image.pageSize + at - page * image.pageSize
      ELSE 0

InOnePage(image, o, address, n) ==
  ((address - o.base) % image.pageSize) + n <= image.pageSize

\* Of an accepted image: the object rebuilt as bytes is the memory; an
\* address is backed by the byte that is there, inside the page data; every
\* long run of printable bytes is found once, whole, at its address; and an
\* anchor inside one page that lies in the file is confirmed when, and only
\* when, the memory holds it.
ImageIsTheFile(image) ==
  Image!Accepted(image) =>
    /\ image.objects[image.start].executable
    /\ \A i \in 1..Len(image.objects) :
         LET o == image.objects[i]
             bytes == Image!ObjectBytes(image, o)
             Memory(a) == MemoryAt(image, o, a)
             addresses == o.base..(o.base + o.size - 1)
         IN  /\ Len(bytes) = o.size
             /\ \A a \in addresses : bytes[a - o.base + 1] = Memory(a)
             /\ \A a \in addresses : Image!ObjectContaining(image, a) = i =>
                  LET offset == Image!FileOffset(image, a)
                  IN  /\ offset = Memory(a)
                      /\ offset # 0 => image.dataPages <= offset /\ offset < image.size
             /\ LET printable == {n \in image.dataPages..image.size : n % 5 # 0}
                    runs == Image!Strings(image, o, printable, 2)
                    Printed(a) == a \in addresses /\ Memory(a) \in printable
                IN  \A a \in addresses, n \in 1..o.size :
                      [address |-> a, length |-> n] \in runs <=>
                        /\ n >= 2
                        /\ \A b \in a..(a + n - 1) : Printed(b)
                        /\ ~Printed(a - 1) /\ ~Printed(a + n)
             /\ \A a \in addresses, n \in 1..2 :
                  (/\ Image!ObjectContaining(image, a) = i
                   /\ InOnePage(image, o, a, n) /\ a + n - 1 \in addresses
                   /\ Memory(a + n - 1) # 0)
                  => \A shift \in {0, 1} :
                       LET expected == [b \in 1..n |-> Memory(a) + b - 1 + shift]
                       IN  Image!CheckAnchor(image, a, expected) <=>
                             \A b \in 1..n : expected[b] = Memory(a + b - 1)

----------------------------------------------------------------------------
(* The lines of the object [16, 24), next to the object [32, 40).          *)

Text(op, value) == [op |-> op, value |-> value]

Lines(addresses) == [i \in 1..Len(addresses) |->
                       [address |-> addresses[i], text |-> Text("mov", Inventory!NoValue)]]

CodeDocs == {[entry |-> 16, lines |-> Lines(<<16, 18, 19, 22>>)],
             [entry |-> 34, lines |-> Lines(<<17, 18, 21>>)]}

NewTexts == {Text(op, value) : op \in {"call", "jmp", "mov"},
                               value \in {Inventory!NoValue, 16, 18, 20, 22, 24, 34}}

CodeEdits(d) ==
  {[d EXCEPT !.lines[i].text = text] : i \in 1..Len(d.lines), text \in NewTexts}
    \cup {[d EXCEPT !.entry = n] : n \in {16, 19, 23, 24, 34}}

Objects == {[base |-> 16, size |-> 8], [base |-> 32, size |-> 8]}
Analysed(d) ==
  Inventory!Analyse(Objects, CHOOSE o \in Objects : o.base = 16, d.entry, d.lines)

\* The candidate functions cut the object from its first start to its end;
\* each one counts the instructions, the bytes and the callers that are its
\* own, and the call graph holds every direct call made from a function.
Counts(d, inventory) ==
  LET functions == inventory.functions
      last == Len(functions)
      Own(f) == {i \in 1..Len(d.lines) : f.address <= d.lines[i].address /\ d.lines[i].address < f.end}
      DirectCall(i) == d.lines[i].text.op = "call" /\ d.lines[i].text.value \in 16..23
      owned == UNION {Own(functions[n]) : n \in 1..last}
      Total(field) == Summed([n \in 1..last |-> functions[n][field]])
  IN  /\ \A n \in 1..last :
           LET f == functions[n]
           IN  /\ f.address < f.end /\ f.end = (IF n < last THEN functions[n + 1].address ELSE 24)
               /\ f.instruction_count = Cardinality(Own(f))
               /\ Len(f.signature) = Cardinality(Own(f))
               /\ f.callers = Cardinality({i \in 1..Len(d.lines) :
                                             DirectCall(i) /\ d.lines[i].text.value = f.address})
      /\ \A i \in 1..Len(d.lines) : i \notin owned => d.lines[i].address < functions[1].address
      /\ Total("byte_length")
           = (IF owned = {} THEN 0
              ELSE 24 - d.lines[CHOOSE i \in owned : \A k \in owned : i <= k].address)
      /\ Total("callers") = inventory.call_site_count
      /\ inventory.call_edges =
           {[from |-> functions[p[1]].address, to |-> functions[p[2]].address,
             count |-> Cardinality({i \in Own(functions[p[1]]) :
                          DirectCall(i) /\ d.lines[i].text.value = functions[p[2]].address})] :
              p \in {q \in (1..last) \X (1..last) :
                 \E i \in Own(functions[q[1]]) :
                   DirectCall(i) /\ d.lines[i].text.value = functions[q[2]].address}}

InventoryCounts(d) == Counts(d, Analysed(d))

----------------------------------------------------------------------------
(* Two inventories, grown a function at a time.                            *)

Model == [field \in Diff!IdentityFields |-> "this"]
Report(tool) == [schema |-> "current", layout |-> "current", tool |-> tool, functions |-> <<>>]

OtherModels == UNION {{[Model EXCEPT ![field] = v] : v \in {"other", ""}} : field \in Diff!IdentityFields}
RightReports == {Report(Model), [Report(Model) EXCEPT !.schema = "old"]}
                  \cup {Report(tool) : tool \in OtherModels}

DiffDocs == {[left |-> Report(Model), right |-> r] : r \in RightReports}

Ranges == {[low |-> 16, high |-> 24], [low |-> 32, high |-> 40]}

Function(n, text) ==
  [address |-> 10 * n, byte_length |-> n,
   signature |-> <<text>>,
   reference_signature |-> <<Inventory!NormalizeReferences(text, Ranges)>>,
   shape_signature |-> <<Inventory!NormalizeShape(text)>>]

Texts == {Text("mov", 18), Text("mov", 34), Text("mov", 100), Text("mov", 101),
          Text("cmp", 18)}

DiffEdits(d) ==
  {[d EXCEPT ![side].functions = Append(@, Function(1 + Len(@), text))] :
     side \in {"left", "right"}, text \in Texts}

(***************************************************************************)
(* What a comparison says: inventories of different models are refused; the *)
(* four classes hold every function of each side once; the classes mean    *)
(* what they say, in order of strength; what is only on one side has no    *)
(* function of its shape only on the other; and as many functions as can   *)
(* be identical are.                                                       *)
(***************************************************************************)
Honest(d, report) ==
  LET At(side, address) == side.functions[address \div 10]
      classes == {"matched", "reference_only", "constant_only"}
      Firsts(class) == {p.left : p \in report[class]}
      Seconds(class) == {p.right : p \in report[class]}
      All(side) == {f.address : f \in {side.functions[n] : n \in 1..Len(side.functions)}}
      Partition(sets) ==
        \A n, m \in DOMAIN sets : n # m => sets[n] \cap sets[m] = {}
      lefts == [class \in classes |-> Firsts(class)]
      rights == [class \in classes |-> Seconds(class)]
      Alike(p, signature) == At(d.left, p.left)[signature] = At(d.right, p.right)[signature]
      Occurs(side, text) == Cardinality({n \in 1..Len(side.functions) :
                                           side.functions[n].signature = <<text>>})
      Less(a, b) == IF a < b THEN a ELSE b
  IN  IF d.right.schema # "current" \/ d.right.tool # Model THEN report.status = "refused"
      ELSE /\ report.status = "compared"
           /\ \A class \in classes :
                /\ Cardinality(Firsts(class)) = Cardinality(report[class])
                /\ Cardinality(Seconds(class)) = Cardinality(report[class])
                /\ Firsts(class) \cap report.only_in_left = {}
                /\ Seconds(class) \cap report.only_in_right = {}
           /\ Partition(lefts) /\ Partition(rights)
           /\ (UNION {lefts[class] : class \in classes}) \cup report.only_in_left = All(d.left)
           /\ (UNION {rights[class] : class \in classes}) \cup report.only_in_right = All(d.right)
           /\ \A p \in report.matched : Alike(p, "signature")
           /\ \A p \in report.reference_only : Alike(p, "reference_signature") /\ ~Alike(p, "signature")
           /\ \A p \in report.constant_only : Alike(p, "shape_signature") /\ ~Alike(p, "reference_signature")
           /\ \A a \in report.only_in_left, b \in report.only_in_right :
                At(d.left, a).shape_signature # At(d.right, b).shape_signature
           /\ \A text \in Texts :
                Cardinality({p \in report.matched : At(d.left, p.left).signature = <<text>>})
                  = Less(Occurs(d.left, text), Occurs(d.right, text))
           /\ d.left.functions = d.right.functions => \A p \in report.matched : ~p.moved

DiffIsHonest(d) == Honest(d, Diff!Compare(d.left, d.right))
=============================================================================
