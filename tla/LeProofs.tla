------------------------------ MODULE LeProofs ------------------------------
(***************************************************************************)
(* TLAPS proofs about the LE tools, for images of any number of pages and  *)
(* objects.                                                                *)
(***************************************************************************)
EXTENDS MCLeCode, LeLists, SequenceTheorems, FiniteSetTheorems, WellFoundedInduction, TLAPS

\* A set of natural numbers that is not empty has a least element.
LEMMA Least ==
  ASSUME NEW T \in SUBSET Nat, T # {}
  PROVE  \E x \in T : \A y \in T : x <= y
<1> DEFINE R == {ss \in Nat \X Nat : ss[1] < ss[2]}
<1>1. IsWellFoundedOn(R, Nat)
  BY NatLessThanWellFounded, Zenon DEF OpToRel
<1> HIDE DEF R
<1>2. \E x \in T : \A y \in T : ~ (<<y, x>> \in R)
  BY <1>1, WFMin, Zenon
<1>3. \A x, y \in Nat : ~ (<<y, x>> \in R) => x <= y
  BY DEF R
<1> QED
  BY <1>2, <1>3

\* Induction over the natural numbers, for a set in the place of a predicate.
LEMMA Induction ==
  ASSUME NEW S, 0 \in S, \A n \in Nat : n \in S => n + 1 \in S
  PROVE  \A n \in Nat : n \in S
<1> SUFFICES ASSUME \E n \in Nat : n \notin S PROVE FALSE
  OBVIOUS
<1> DEFINE T == {n \in Nat : n \notin S}
<1>1. PICK x \in T : \A y \in T : x <= y
  <2> T # {} /\ T \in SUBSET Nat
    OBVIOUS
  <2> QED
    BY Least
<1>2. x \in Nat /\ x # 0 /\ x - 1 \in Nat
  OBVIOUS
<1>3. x - 1 \in S
  BY <1>1, <1>2
<1> QED
  BY <1>2, <1>3

\* The values a loop carries: first before it, and Turn of the last at each.
IsTable(f, V, first, Turn, m) ==
  f \in [0..m -> V] /\ f[0] = first /\ \A n \in 1..m : f[n] = Turn[<<n, f[n - 1]>>]

\* A loop that carries a value of V has a table of its values.
LEMMA Iteration ==
  ASSUME NEW V, NEW first \in V, NEW Turn \in [Nat \X V -> V]
  PROVE  \A m \in Nat : \E f : IsTable(f, V, first, Turn, m)
<1> USE DEF IsTable
<1> DEFINE Table(f, m) == IsTable(f, V, first, Turn, m)
           S == {m \in Nat : \E f : Table(f, m)}
<1>1. 0 \in S
  <2>1. Table([n \in 0..0 |-> first], 0)
    OBVIOUS
  <2> QED
    BY <2>1
<1>2. ASSUME NEW m \in Nat, m \in S PROVE m + 1 \in S
  <2>1. PICK f : Table(f, m)
    BY <1>2
  <2> DEFINE g == [n \in 0..(m + 1) |-> IF n = m + 1 THEN Turn[<<m + 1, f[m]>>] ELSE f[n]]
  <2>2. m \in 0..m /\ f[m] \in V /\ Turn[<<m + 1, f[m]>>] \in V
    BY <2>1
  <2>3. g \in [0..(m + 1) -> V]
    BY <2>1, <2>2
  <2>4. g[0] = first
    BY <2>1
  <2>5. ASSUME NEW n \in 1..(m + 1) PROVE g[n] = Turn[<<n, g[n - 1]>>]
    <3>1. g[n - 1] = f[n - 1] /\ n - 1 \in 0..m
      OBVIOUS
    <3>2. CASE n = m + 1
      <4>1. g[n] = Turn[<<m + 1, f[m]>>] /\ g[n - 1] = f[m]
        BY <3>1, <3>2
      <4> QED
        BY <3>2, <4>1
    <3>3. CASE n # m + 1
      BY <2>1, <3>1, <3>3
    <3> QED
      BY <3>2, <3>3
  <2> HIDE DEF g
  <2>6. Table(g, m + 1)
    BY <2>3, <2>4, <2>5
  <2> QED
    BY <2>6
<1> HIDE DEF S
<1>3. \A m \in Nat : m \in S
  BY <1>1, <1>2, Induction
<1> QED
  BY <1>3 DEF S

-----------------------------------------------------------------------------
(* Pages: quotients, remainders, and pages laid end to end.                 *)

\* Quotient and remainder.
LEMMA Division ==
  ASSUME NEW a \in Nat, NEW n \in Nat, n > 0
  PROVE  /\ a \div n \in Nat /\ a % n \in 0..(n - 1)
         /\ a = (a \div n) * n + (a % n)
<1>1. a \div n \in Nat
  OBVIOUS
<1>2. a % n \in 0..(n - 1)
  OBVIOUS
<1>3. a = (a \div n) * n + (a % n)
  OBVIOUS
<1> QED
  BY <1>1, <1>2, <1>3

LEMMA DivisionIsUnique ==
  ASSUME NEW n \in Nat, n > 0, NEW q \in Nat, NEW r \in 0..(n - 1)
  PROVE  (q * n + r) \div n = q /\ (q * n + r) % n = r
<1>1. (q * n + r) \div n = q
  OBVIOUS
<1>2. (q * n + r) % n = r
  OBVIOUS
<1> QED
  BY <1>1, <1>2

\* The running concatenations of a sequence of sequences.
LEMMA FlattenTable ==
  ASSUME NEW V, NEW seqs \in Seq(Seq(V))
  PROVE  \E g \in [0..Len(seqs) -> Seq(V)] :
           /\ g[0] = << >>
           /\ \A i \in 1..Len(seqs) : g[i] = g[i - 1] \o seqs[i]
           /\ Image!FlattenSeq(seqs) = g[Len(seqs)]
<1> DEFINE L == Len(seqs)
<1>0. L \in Nat /\ \A i \in 1..L : seqs[i] \in Seq(V)
  OBVIOUS
<1> HIDE DEF L
<1> DEFINE Turn == [p \in Nat \X Seq(V) |-> IF p[1] \in 1..L THEN p[2] \o seqs[p[1]] ELSE p[2]]
<1>1. Turn \in [Nat \X Seq(V) -> Seq(V)]
  BY <1>0
<1>2. \A n \in Nat, s \in Seq(V) : n \in 1..L => Turn[<<n, s>>] = s \o seqs[n]
  OBVIOUS
<1> HIDE DEF Turn
<1>3. << >> \in Seq(V)
  OBVIOUS
<1>4. PICK f \in [0..L -> Seq(V)] : f[0] = << >> /\ \A n \in 1..L : f[n] = Turn[<<n, f[n - 1]>>]
  <2> DEFINE W == Seq(V)
             e == << >>
  <2>1. Turn \in [Nat \X W -> W] /\ e \in W
    BY <1>1, <1>3
  <2> HIDE DEF W, e
  <2>2. \E f : IsTable(f, W, e, Turn, L)
    BY <1>0, <2>1, Iteration
  <2> QED
    BY <2>2 DEF W, e, IsTable
<1>5. \A n \in 1..L : f[n] = f[n - 1] \o seqs[n]
  <2> TAKE n \in 1..L
  <2>1. n - 1 \in 0..L /\ f[n - 1] \in Seq(V) /\ n \in Nat
    BY <1>0
  <2> QED
    BY <1>2, <1>4, <2>1
<1>6. CASE L = 0
  <2>1. seqs = << >>
    BY <1>6 DEF L
  <2>2. Image!FlattenSeq(seqs) = seqs
    BY <1>6 DEF Image!FlattenSeq, L
  <2> QED
    BY <1>4, <1>5, <1>6, <2>1, <2>2 DEF L
<1>7. CASE L # 0
  <2> DEFINE Flat(h) == h = [i \in 1..L |-> IF i = 1 THEN seqs[i] ELSE h[i - 1] \o seqs[i]]
             h == [i \in 1..L |-> f[i]]
  <2>1. Flat(h)
    <3>1. ASSUME NEW i \in 1..L PROVE h[i] = IF i = 1 THEN seqs[i] ELSE h[i - 1] \o seqs[i]
      <4>1. CASE i = 1
        <5>1. h[1] = f[1] /\ f[1] = f[1 - 1] \o seqs[1] /\ seqs[1] \in Seq(V)
          BY <1>0, <1>5, <4>1
        <5>2. h[1] = << >> \o seqs[1]
          <6>1. 1 - 1 = 0
            OBVIOUS
          <6> HIDE DEF h
          <6> QED
            BY <1>4, <5>1, <6>1
        <5>3. << >> \o seqs[1] = seqs[1]
          BY <5>1
        <5> QED
          BY <4>1, <5>2, <5>3
      <4>2. CASE i # 1
        <5>1. i - 1 \in 1..L
          BY <1>0, <4>2
        <5>2. h[i] = f[i] /\ h[i - 1] = f[i - 1]
          BY <5>1
        <5> HIDE DEF h
        <5> QED
          BY <1>5, <4>2, <5>2
      <4> QED
        BY <4>1, <4>2
    <3> QED
      BY <3>1
  <2> DEFINE G == CHOOSE k : Flat(k)
  <2>2. Flat(G)
    BY <2>1
  <2>3. Image!FlattenSeq(seqs) = G[L]
    BY <1>7, Zenon DEF Image!FlattenSeq, L
  <2> HIDE DEF G, h
  <2> DEFINE S == {i \in Nat : i \in 1..L => G[i] = f[i]}
  <2>4. 0 \in S
    OBVIOUS
  <2>5. ASSUME NEW i \in Nat, i \in S PROVE i + 1 \in S
    <3> SUFFICES ASSUME i + 1 \in 1..L PROVE G[i + 1] = f[i + 1]
      OBVIOUS
    <3>1. CASE i = 0
      <4>1. 1 \in 1..L /\ 1 - 1 = 0 /\ i + 1 = 1 /\ seqs[1] \in Seq(V)
        BY <1>0, <1>7, <3>1
      <4>2. G[1] = seqs[1]
        BY <2>2, <4>1
      <4>3. f[1] = << >> \o seqs[1]
        BY <1>4, <1>5, <4>1
      <4>4. << >> \o seqs[1] = seqs[1]
        BY <4>1
      <4> QED
        BY <4>1, <4>2, <4>3, <4>4
    <3>2. CASE i # 0
      <4>1. i \in 1..L /\ i + 1 # 1 /\ (i + 1) - 1 = i
        BY <1>0, <3>2
      <4>2. G[i + 1] = G[i] \o seqs[i + 1]
        BY <2>2, <4>1
      <4> QED
        BY <1>5, <2>5, <4>1, <4>2
    <3> QED
      BY <3>1, <3>2
  <2> HIDE DEF S
  <2>6. \A i \in Nat : i \in S
    BY <2>4, <2>5, Induction
  <2>7. G[L] = f[L]
    BY <1>0, <1>7, <2>6 DEF S
  <2> QED
    BY <1>4, <1>5, <2>3, <2>7 DEF L
<1> QED
  BY <1>6, <1>7

\* A function on 1..n is a sequence of n elements.
LEMMA IsSequence ==
  ASSUME NEW V, NEW n \in Nat, NEW f \in [1..n -> V]
  PROVE  f \in Seq(V) /\ Len(f) = n
OBVIOUS

\* The length and the elements of a concatenation.
LEMMA Joined ==
  ASSUME NEW V, NEW a \in Seq(V), NEW b \in Seq(V)
  PROVE  /\ a \o b \in Seq(V) /\ Len(a \o b) = Len(a) + Len(b)
         /\ \A n \in 1..Len(a) : (a \o b)[n] = a[n]
         /\ \A n \in 1..Len(b) : (a \o b)[Len(a) + n] = b[n]
<1>1. \A n \in 1..Len(b) : (a \o b)[Len(a) + n] = b[n]
  <2> TAKE n \in 1..Len(b)
  <2>1. Len(a) + n \in 1..(Len(a) + Len(b)) /\ ~ (Len(a) + n <= Len(a)) /\ (Len(a) + n) - Len(a) = n
    OBVIOUS
  <2> QED
    BY <2>1
<1> QED
  BY <1>1

\* Pages of one length; and laid end to end, where the byte at q pages and r
\* bytes is the byte r of the page q.
ArePages(seqs, V, ps) == seqs \in Seq(Seq(V)) /\ \A i \in 1..Len(seqs) : Len(seqs[i]) = ps

LaidEndToEnd(whole, seqs, V, ps) ==
  /\ whole \in Seq(V) /\ Len(whole) = Len(seqs) * ps
  /\ \A q \in 0..(Len(seqs) - 1), r \in 0..(ps - 1) : whole[q * ps + r + 1] = seqs[q + 1][r + 1]

LEMMA PagesEndToEnd ==
  ASSUME NEW V, NEW ps \in Nat, ps > 0, NEW seqs, ArePages(seqs, V, ps)
  PROVE  LaidEndToEnd(Image!FlattenSeq(seqs), seqs, V, ps)
<1> USE DEF ArePages, LaidEndToEnd
<1> DEFINE L == Len(seqs)
<1>0. L \in Nat /\ \A i \in 1..L : seqs[i] \in Seq(V) /\ Len(seqs[i]) = ps
  OBVIOUS
<1>1. PICK g \in [0..L -> Seq(V)] :
        /\ g[0] = << >>
        /\ \A i \in 1..L : g[i] = g[i - 1] \o seqs[i]
        /\ Image!FlattenSeq(seqs) = g[L]
  BY FlattenTable
<1> HIDE DEF L
<1> DEFINE Good(i) == /\ Len(g[i]) = i * ps
                      /\ \A q \in 0..(i - 1), r \in 0..(ps - 1) : g[i][q * ps + r + 1] = seqs[q + 1][r + 1]
           S == {i \in Nat : i \in 0..L => Good(i)}
<1>2. 0 \in S
  <2>1. Len(g[0]) = 0 /\ 0 * ps = 0 /\ 0..(0 - 1) = {}
    BY <1>1
  <2> QED
    BY <2>1
<1>3. ASSUME NEW i \in Nat, i \in S PROVE i + 1 \in S
  <2> SUFFICES ASSUME i + 1 \in 0..L PROVE Good(i + 1)
    OBVIOUS
  <2>1. Good(i) /\ i \in 0..L /\ i + 1 \in 1..L
    BY <1>0, <1>3
  <2> DEFINE before == g[i]
             page == seqs[i + 1]
  <2>2. g[i + 1] = before \o page
    <3>1. (i + 1) - 1 = i
      OBVIOUS
    <3> QED
      BY <1>1, <2>1, <3>1
  <2>3. before \in Seq(V) /\ page \in Seq(V) /\ Len(page) = ps
    BY <1>0, <1>1, <2>1
  <2>4. Len(before) = i * ps /\ i * ps \in Nat
    <3>1. i * ps \in Nat
      OBVIOUS
    <3> QED
      BY <2>1, <3>1
  <2>5. (i + 1) * ps = i * ps + ps
    OBVIOUS
  <2> DEFINE whole == g[i + 1]
             n == i * ps
  <2>6. n \in Nat /\ Len(before) = n
    BY <2>4
  <2>7. /\ Len(whole) = n + ps
        /\ \A b \in 1..n : whole[b] = before[b]
        /\ \A b \in 1..ps : whole[n + b] = page[b]
    <3>1. whole = before \o page
      BY <2>2
    <3>2. Len(before) = n /\ Len(page) = ps
      BY <2>3, <2>6
    <3>3. before \in Seq(V) /\ page \in Seq(V)
      BY <2>3
    <3>4. n \in Nat
      BY <2>6
    <3> HIDE DEF n, before, page, whole
    <3>5. /\ Len(before \o page) = Len(before) + Len(page)
          /\ \A b \in 1..Len(before) : (before \o page)[b] = before[b]
          /\ \A b \in 1..Len(page) : (before \o page)[Len(before) + b] = page[b]
      BY <3>3, Joined
    <3> QED
      BY <3>1, <3>2, <3>5
  <2>8. ASSUME NEW q \in 0..i, NEW r \in 0..(ps - 1)
        PROVE  whole[q * ps + r + 1] = seqs[q + 1][r + 1]
    <3>1. CASE q = i
      <4>1. r + 1 \in 1..ps /\ q * ps + r + 1 = n + (r + 1)
        BY <3>1
      <4> QED
        BY <2>7, <3>1, <4>1
    <3>2. CASE q # i
      <4>1. q \in 0..(i - 1) /\ q + 1 <= i
        BY <3>2
      <4>2. q * ps \in Nat /\ q * ps + ps <= n
        <5>1. (q + 1) * ps = q * ps + ps
          OBVIOUS
        <5>2. (q + 1) * ps <= i * ps
          <6>1. i = (q + 1) + (i - q - 1) /\ i - q - 1 \in Nat
            BY <4>1
          <6>2. (i - q - 1) * ps \in Nat
            BY <6>1
          <6>3. i * ps = (q + 1) * ps + (i - q - 1) * ps
            BY <6>1
          <6>4. (q + 1) * ps \in Nat
            OBVIOUS
          <6> QED
            BY <6>2, <6>3, <6>4
        <5>3. q * ps \in Nat
          OBVIOUS
        <5> QED
          BY <5>1, <5>2, <5>3
      <4>3. q * ps + r + 1 \in 1..n
        <5> DEFINE m == q * ps
        <5>1. m \in Nat /\ m + ps <= n
          BY <4>2
        <5> HIDE DEF n, m
        <5>2. m + r + 1 \in 1..n
          BY <2>6, <5>1
        <5> QED
          BY <5>2 DEF m
      <4>4. before[q * ps + r + 1] = seqs[q + 1][r + 1]
        BY <2>1, <4>1
      <4> QED
        BY <2>7, <4>3, <4>4
    <3> QED
      BY <3>1, <3>2
  <2>9. (i + 1) - 1 = i
    OBVIOUS
  <2> QED
    BY <2>5, <2>7, <2>8, <2>9
<1> HIDE DEF S
<1>4. \A i \in Nat : i \in S
  BY <1>2, <1>3, Induction
<1>5. L \in S /\ L \in 0..L
  BY <1>0, <1>4
<1>6. Good(L) /\ g[L] \in Seq(V)
  <2> HIDE DEF Good
  <2>1. Good(L)
    BY <1>5 DEF S
  <2> QED
    BY <1>1, <1>5, <2>1
<1> QED
  BY <1>1, <1>6 DEF L

-----------------------------------------------------------------------------
(* Images.                                                                  *)

ObjectRecord == [size : Nat, base : Nat, executable : BOOLEAN, invalid : BOOLEAN,
                 firstPage : Nat, pages : Nat]

ImageRecord ==
  [size : Nat, mz : BOOLEAN, lfanew : Nat, magic : {"LE", "LX"}, littleEndian : BOOLEAN,
   level : Nat, cpuKnown : BOOLEAN, pageSize : Nat, pages : Nat, lastPageSize : Nat,
   start : Nat, eip : Nat, objectTable : Nat, pageMapAt : Nat, dataPages : Nat,
   autodata : Nat, debugAt : Nat, debugSize : Nat,
   objects : Seq(ObjectRecord), pageMap : Seq([number : Nat, legal : BOOLEAN])]

\* What the parser's checks leave of an image.
Geometry(image) ==
  /\ image.pageSize \in Nat /\ image.pageSize > 0
  /\ image.lastPageSize \in 1..image.pageSize
  /\ image.pages \in Nat /\ image.pages > 0
  /\ image.dataPages \in Nat /\ image.dataPages > 0
  /\ image.size \in Nat
  /\ image.dataPages + (image.pages - 1) * image.pageSize + image.lastPageSize <= image.size
  /\ image.objects \in Seq(ObjectRecord)
  /\ \A i \in 1..Len(image.objects) : \A p \in 0..(image.objects[i].pages - 1) :
       image.pageMap[image.objects[i].firstPage + p].number \in 1..image.pages

LEMMA AcceptedHasGeometry ==
  ASSUME NEW image \in ImageRecord, Image!Accepted(image)
  PROVE  /\ Geometry(image)
         /\ image.start \in 1..Len(image.objects)
         /\ image.objects[image.start].executable
<1>1. Image!HeaderValid(image) /\ Image!ObjectsValid(image) /\ Image!PageMapValid(image)
      /\ Image!InvariantsHold(image)
  BY Zenon DEF Image!Accepted
<1>2. /\ image.pageSize \in Nat /\ image.lastPageSize \in Nat /\ image.pages \in Nat
      /\ image.dataPages \in Nat /\ image.size \in Nat /\ image.objects \in Seq(ObjectRecord)
  BY DEF ImageRecord
<1>3. /\ image.pages > 0 /\ 0 < image.lastPageSize /\ image.lastPageSize <= image.pageSize
      /\ image.dataPages # 0
  BY <1>1 DEF Image!HeaderValid
<1>4. /\ image.dataPages + (image.pages - 1) * image.pageSize + image.lastPageSize <= image.size
      /\ image.start \in 1..Len(image.objects) /\ image.objects[image.start].executable
  BY <1>1, Zenon DEF Image!InvariantsHold, Image!PageDataEnd
<1>5. ASSUME NEW i \in 1..Len(image.objects), NEW p \in 0..(image.objects[i].pages - 1)
      PROVE  image.pageMap[image.objects[i].firstPage + p].number \in 1..image.pages
  <2> DEFINE o == image.objects[i]
  <2>1. o \in ObjectRecord
    BY <1>2
  <2>2. o.pages > 0 => o.firstPage >= 1 /\ o.firstPage + o.pages - 1 <= image.pages
    BY <1>1, Zenon DEF Image!ObjectsValid
  <2>3. o.pages \in Nat /\ o.firstPage \in Nat
    BY <2>1 DEF ObjectRecord
  <2>4. o.firstPage + p \in 1..image.pages
    <3> HIDE DEF o
    <3>1. p \in 0..(o.pages - 1)
      BY DEF o
    <3> QED
      BY <1>2, <2>2, <2>3, <3>1
  <2> QED
    BY <1>1, <2>4, Zenon DEF Image!PageMapValid
<1>6. image.pageSize > 0 /\ image.lastPageSize \in 1..image.pageSize /\ image.dataPages > 0
  BY <1>2, <1>3
<1> QED
  BY <1>2, <1>3, <1>4, <1>5, <1>6 DEF Geometry

\* A byte of a page lies in the page data.
LEMMA PageDataIsInTheFile ==
  ASSUME NEW image, Geometry(image), NEW number \in 1..image.pages,
         NEW r \in Nat, r < Image!PageLength(image, number)
  PROVE  /\ Image!PageFileOffset(image, number) \in Nat
         /\ Image!PageFileOffset(image, number) + r >= image.dataPages
         /\ Image!PageFileOffset(image, number) + r < image.size
         /\ Image!PageLength(image, number) <= image.pageSize
<1> DEFINE ps == image.pageSize
           n == image.pages
           from == image.dataPages
           last == image.lastPageSize
           held == Image!PageLength(image, number)
<1>1. /\ ps \in Nat /\ ps > 0 /\ last \in 1..ps /\ n \in Nat /\ n > 0 /\ from \in Nat /\ from > 0
      /\ image.size \in Nat /\ from + (n - 1) * ps + last <= image.size
  BY DEF Geometry
<1>2. held = (IF number = n THEN last ELSE ps) /\ r < held
  BY DEF Image!PageLength
<1>3. number \in 1..n
  OBVIOUS
<1> DEFINE at == (number - 1) * ps
           end == (n - 1) * ps
<1>4. at \in Nat /\ end \in Nat
  <2>1. number - 1 \in Nat /\ n - 1 \in Nat
    BY <1>1
  <2> HIDE DEF ps, n
  <2>2. (number - 1) * ps \in Nat
    BY <1>1, <2>1
  <2>3. (n - 1) * ps \in Nat
    BY <1>1, <2>1
  <2> QED
    BY <2>2, <2>3
<1>5. Image!PageFileOffset(image, number) = from + at
  BY Zenon DEF Image!PageFileOffset
<1>6. number = n \/ at + ps <= end
  <2> SUFFICES ASSUME number # n PROVE at + ps <= end
    OBVIOUS
  <2>1. n - 1 - number \in Nat /\ number \in Nat
    <3> HIDE DEF n, ps, from, last
    <3> QED
      BY <1>1, <1>3
  <2> DEFINE gap == n - 1 - number
  <2>2. gap \in Nat /\ n - 1 = number + gap
    BY <1>1, <2>1
  <2> HIDE DEF ps, n, gap
  <2>3. (n - 1) * ps = number * ps + gap * ps
    <3>1. (number + gap) * ps = number * ps + gap * ps
      BY <1>1, <2>1, <2>2
    <3> QED
      BY <2>2, <3>1
  <2>4. gap * ps \in Nat
    BY <1>1, <2>2
  <2>5. (number - 1) * ps = number * ps - ps
    BY <1>1, <2>1
  <2>6. number * ps \in Nat
    BY <1>1, <2>1
  <2> QED
    BY <1>1, <2>3, <2>4, <2>5, <2>6
<1>7. number = n => at = end
  OBVIOUS
<1> HIDE DEF ps, n, from, last, held, at, end
<1>8. from + end + last <= image.size
  BY <1>1 DEF end
<1>9. held <= ps
  BY <1>1, <1>2
<1>10. from + at \in Nat /\ from + at + r >= from
  BY <1>1, <1>4
<1>11. from + at + r < image.size
  BY <1>1, <1>2, <1>4, <1>6, <1>7, <1>8
<1> QED
  BY <1>5, <1>9, <1>10, <1>11 DEF from, held, ps

\* The page of an object and the offset in it, of an address not below it.
PageAt(image, o, a) == (a - o.base) \div image.pageSize
PlaceAt(image, o, a) == (a - o.base) % image.pageSize
NumberAt(image, o, a) == image.pageMap[o.firstPage + PageAt(image, o, a)].number
IsHeld(image, o, a) ==
  PageAt(image, o, a) < o.pages
    /\ PlaceAt(image, o, a) < Image!PageLength(image, NumberAt(image, o, a))

LEMMA PagesOfAddresses ==
  ASSUME NEW image, Geometry(image), NEW o \in ObjectRecord, NEW a \in Nat, a >= o.base
  PROVE  /\ PageAt(image, o, a) \in Nat
         /\ PlaceAt(image, o, a) \in 0..(image.pageSize - 1)
         /\ a - o.base = PageAt(image, o, a) * image.pageSize + PlaceAt(image, o, a)
<1> DEFINE ps == image.pageSize
           d == a - o.base
<1>1. d \in Nat /\ ps \in Nat /\ ps > 0
  BY DEF Geometry, ObjectRecord
<1> HIDE DEF ps, d
<1>2. d \div ps \in Nat /\ d % ps \in 0..(ps - 1) /\ d = (d \div ps) * ps + (d % ps)
  BY <1>1, Division
<1>3. PageAt(image, o, a) = d \div ps /\ PlaceAt(image, o, a) = d % ps
  BY Zenon DEF PageAt, PlaceAt, d, ps
<1> QED
  BY <1>2, <1>3 DEF d, ps

\* A page number of an object, where an address of the object has one.
LEMMA NumberInTheMap ==
  ASSUME NEW image, Geometry(image), NEW i \in 1..Len(image.objects), NEW a \in Nat,
         a >= image.objects[i].base, PageAt(image, image.objects[i], a) < image.objects[i].pages
  PROVE  /\ NumberAt(image, image.objects[i], a) \in 1..image.pages
         /\ Image!PageOf(image, image.objects[i], 1 + PageAt(image, image.objects[i], a))
              = NumberAt(image, image.objects[i], a)
<1> DEFINE o == image.objects[i]
           p == PageAt(image, o, a)
<1>1. o \in ObjectRecord
  BY DEF Geometry
<1>2. o.pages \in Nat /\ o.firstPage \in Nat
  BY <1>1 DEF ObjectRecord
<1>3. p \in Nat /\ p < o.pages
  BY <1>1, PagesOfAddresses
<1>4. o.firstPage + (1 + p) - 1 = o.firstPage + p /\ p \in 0..(o.pages - 1)
  <2> HIDE DEF o, p
  <2> QED
    BY <1>2, <1>3
<1>5. image.pageMap[o.firstPage + p].number \in 1..image.pages
  BY <1>4, Zenon DEF Geometry
<1>6. NumberAt(image, o, a) = image.pageMap[o.firstPage + p].number
  BY Zenon DEF NumberAt
<1>7. Image!PageOf(image, o, 1 + p) = image.pageMap[o.firstPage + p].number
  BY <1>4, Zenon DEF Image!PageOf
<1> QED
  BY <1>5, <1>6, <1>7, Zenon

\* The memory of an image, by the page and the place of the address.
LEMMA MemoryIs ==
  ASSUME NEW image, Geometry(image), NEW i \in 1..Len(image.objects), NEW a \in Nat,
         a >= image.objects[i].base
  PROVE  MemoryAt(image, image.objects[i], a) =
           IF IsHeld(image, image.objects[i], a)
           THEN Image!PageFileOffset(image, NumberAt(image, image.objects[i], a))
                  + PlaceAt(image, image.objects[i], a)
           ELSE 0
<1> DEFINE o == image.objects[i]
<1>0. o \in ObjectRecord
  BY DEF Geometry
<1> DEFINE ps == image.pageSize
           page == PageAt(image, o, a)
           r == PlaceAt(image, o, a)
           d == a - o.base
           number == NumberAt(image, o, a)
           held == IF number = image.pages THEN image.lastPageSize ELSE image.pageSize
           from == image.dataPages + (number - 1) * ps
<1>1. page \in Nat /\ r \in 0..(ps - 1) /\ d = page * ps + r
  BY <1>0, PagesOfAddresses
<1>2. ps \in Nat
  BY DEF Geometry
<1>3. d - page * ps = r
  <2> DEFINE m == page * ps
  <2> HIDE DEF ps, page, r, d
  <2>1. m \in Nat
    BY <1>1, <1>2
  <2> HIDE DEF m
  <2>2. d = m + r
    BY <1>1 DEF m
  <2>3. d - m = r
    BY <1>1, <2>1, <2>2
  <2> QED
    BY <2>3 DEF m
<1>4. held = Image!PageLength(image, number) /\ from = Image!PageFileOffset(image, number)
  BY Zenon DEF Image!PageLength, Image!PageFileOffset
<1>5. MemoryAt(image, o, a) = IF page < o.pages /\ d - page * ps < held
                              THEN image.dataPages + (number - 1) * ps + d - page * ps
                              ELSE 0
  BY Zenon DEF MemoryAt, NumberAt, PageAt
<1>6. IsHeld(image, o, a) <=> page < o.pages /\ r < held
  BY <1>4, Zenon DEF IsHeld
<1>7. ASSUME page < o.pages, r < held
      PROVE  image.dataPages + (number - 1) * ps + d - page * ps = from + r
  <2> DEFINE m == page * ps
  <2>1. from + d - m = from + (d - m)
    <3>1. d \in Nat /\ m \in Nat /\ from \in Int
      <4>1. d \in Nat
        BY <1>0 DEF ObjectRecord
      <4>2. m \in Nat
        <5> HIDE DEF page, ps
        <5> QED
          BY <1>1, <1>2
      <4>3. from \in Int
        <5>1. number \in 1..image.pages
          BY <1>7, NumberInTheMap
        <5>2. r \in Nat /\ r < Image!PageLength(image, number)
          BY <1>1, <1>2, <1>4, <1>7
        <5> HIDE DEF number, r, from
        <5> QED
          BY <1>4, <5>1, <5>2, PageDataIsInTheFile
      <4> QED
        BY <4>1, <4>2, <4>3
    <3> HIDE DEF from, d, m
    <3> QED
      BY <3>1
  <2> QED
    BY <1>3, <2>1, Zenon
<1> QED
  BY <1>3, <1>4, <1>5, <1>6, <1>7, Zenon

\* What the memory holds is 0, or the offset of a byte of the page data.
LEMMA MemoryIsPageData ==
  ASSUME NEW image, Geometry(image), NEW i \in 1..Len(image.objects), NEW a \in Nat,
         a >= image.objects[i].base, IsHeld(image, image.objects[i], a)
  PROVE  /\ MemoryAt(image, image.objects[i], a) \in Nat
         /\ MemoryAt(image, image.objects[i], a) # 0
         /\ image.dataPages <= MemoryAt(image, image.objects[i], a)
         /\ MemoryAt(image, image.objects[i], a) < image.size
         /\ NumberAt(image, image.objects[i], a) \in 1..image.pages
         /\ Image!PageFileOffset(image, NumberAt(image, image.objects[i], a)) \in Nat
<1> DEFINE o == image.objects[i]
           number == NumberAt(image, o, a)
           r == PlaceAt(image, o, a)
           from == Image!PageFileOffset(image, number)
<1>1. PageAt(image, o, a) < o.pages /\ r < Image!PageLength(image, number)
  BY Zenon DEF IsHeld
<1>2. number \in 1..image.pages
  BY <1>1, NumberInTheMap
<1>3. r \in Nat
  <2>1. o \in ObjectRecord
    BY DEF Geometry
  <2>2. r \in 0..(image.pageSize - 1)
    BY <2>1, PagesOfAddresses
  <2> QED
    BY <2>2
<1>4. MemoryAt(image, o, a) = from + r
  BY MemoryIs
<1> HIDE DEF o, number, r
<1>5. from \in Nat /\ from + r >= image.dataPages /\ from + r < image.size
  BY <1>1, <1>2, <1>3, PageDataIsInTheFile
<1>6. image.dataPages \in Nat /\ image.dataPages > 0
  BY DEF Geometry
<1> HIDE DEF from
<1>7. from + r \in Nat /\ from + r # 0
  BY <1>3, <1>5, <1>6
<1> QED
  BY <1>2, <1>4, <1>5, <1>7 DEF number, o, from

\* The memory is a natural number anywhere in an object.
LEMMA MemoryIsNat ==
  ASSUME NEW image, Geometry(image), NEW i \in 1..Len(image.objects), NEW a \in Nat,
         a >= image.objects[i].base
  PROVE  /\ MemoryAt(image, image.objects[i], a) \in Nat
         /\ MemoryAt(image, image.objects[i], a) # 0 <=> IsHeld(image, image.objects[i], a)
<1>1. CASE IsHeld(image, image.objects[i], a)
  BY <1>1, MemoryIsPageData
<1>2. CASE ~ IsHeld(image, image.objects[i], a)
  <2>1. MemoryAt(image, image.objects[i], a) = 0
    BY <1>2, MemoryIs
  <2> QED
    BY <1>2, <2>1
<1> QED
  BY <1>1, <1>2

\* The offset of an address is the memory there.
LEMMA OffsetIsTheMemory ==
  ASSUME NEW image, Geometry(image), NEW i \in 1..Len(image.objects), NEW a \in Nat,
         a >= image.objects[i].base, Image!ObjectContaining(image, a) = i
  PROVE  Image!FileOffset(image, a) = MemoryAt(image, image.objects[i], a)
<1> DEFINE o == image.objects[i]
           ps == image.pageSize
           delta == a - o.base
           page == PageAt(image, o, a)
           number == NumberAt(image, o, a)
           there == Image!PageOf(image, o, 1 + page)
           r == PlaceAt(image, o, a)
<1>1. o \in ObjectRecord /\ page \in Nat /\ o.pages \in Nat /\ r \in 0..(ps - 1) /\ ps \in Nat
  <2>1. o \in ObjectRecord
    BY DEF Geometry
  <2>2. page \in Nat /\ r \in 0..(ps - 1)
    BY <2>1, PagesOfAddresses
  <2> QED
    BY <2>1, <2>2 DEF Geometry, ObjectRecord
<1>2. i # 0
  OBVIOUS
<1>3. Image!FileOffset(image, a) =
        IF i = 0 \/ page >= o.pages \/ r >= Image!PageLength(image, there)
        THEN 0 ELSE Image!PageFileOffset(image, there) + r
  BY Zenon DEF Image!FileOffset, Image!NotBacked, PageAt, PlaceAt
<1>4. CASE page >= o.pages
  <2>1. ~ IsHeld(image, o, a)
    <3>1. ~ (page < o.pages)
      <4> HIDE DEF page, o
      <4> QED
        BY <1>1, <1>4
    <3> QED
      BY <3>1, Zenon DEF IsHeld
  <2>2. MemoryAt(image, o, a) = 0
    BY <2>1, MemoryIs
  <2> QED
    BY <1>3, <1>4, <2>2, Zenon
<1>5. CASE ~ (page >= o.pages)
  <2>1. page < o.pages
    <3> HIDE DEF page, o
    <3> QED
      BY <1>1, <1>5
  <2>2. there = number /\ number \in 1..image.pages
    BY <2>1, NumberInTheMap
  <2>3. Image!PageLength(image, number) \in Nat
    BY DEF Image!PageLength, Geometry
  <2>4. r >= Image!PageLength(image, number) <=> ~ (r < Image!PageLength(image, number))
    <3> DEFINE n == Image!PageLength(image, number)
    <3>1. n \in Nat /\ r \in Int
      BY <1>1, <2>3
    <3> HIDE DEF n, r
    <3>2. r >= n <=> ~ (r < n)
      BY <3>1
    <3> QED
      BY <3>2 DEF n
  <2>5. MemoryAt(image, o, a) = IF IsHeld(image, o, a)
                                THEN Image!PageFileOffset(image, number) + r ELSE 0
    BY MemoryIs
  <2>6. IsHeld(image, o, a) <=> r < Image!PageLength(image, number)
    BY <2>1, Zenon DEF IsHeld
  <2> QED
    BY <1>2, <1>3, <1>5, <2>2, <2>4, <2>5, <2>6, Zenon
<1> QED
  BY <1>4, <1>5

\* A page, padded to the page size.
LEMMA ChunkIs ==
  ASSUME NEW image, Geometry(image), NEW number \in 1..image.pages
  PROVE  /\ Image!Chunk(image, number) \in Seq(Int)
         /\ Len(Image!Chunk(image, number)) = image.pageSize
         /\ \A r \in 0..(image.pageSize - 1) :
              Image!Chunk(image, number)[r + 1] =
                IF r < Image!PageLength(image, number)
                THEN Image!PageFileOffset(image, number) + r ELSE 0
<1> DEFINE ps == image.pageSize
           held == Image!PageLength(image, number)
           from == Image!PageFileOffset(image, number)
           chunk == Image!Chunk(image, number)
<1>1. ps \in Nat /\ ps > 0 /\ held \in Nat
  BY DEF Geometry, Image!PageLength
<1>2. held > 0
  BY DEF Geometry, Image!PageLength
<1>3. from \in Nat
  <2>1. 0 \in Nat /\ 0 < held
    BY <1>1, <1>2
  <2> QED
    BY <2>1, PageDataIsInTheFile
<1>4. chunk = [b \in 1..ps |-> IF b <= held THEN from + b - 1 ELSE 0]
  BY Zenon DEF Image!Chunk, Image!Zero
<1> HIDE DEF ps, held, from, chunk
<1>5. chunk \in Seq(Int) /\ Len(chunk) = ps
  <2>1. chunk \in [1..ps -> Int]
    BY <1>1, <1>3, <1>4
  <2> QED
    BY <1>1, <2>1
<1>6. ASSUME NEW r \in 0..(ps - 1) PROVE chunk[r + 1] = IF r < held THEN from + r ELSE 0
  <2>1. r + 1 \in 1..ps /\ (r + 1 <= held <=> r < held) /\ from + (r + 1) - 1 = from + r
    BY <1>1, <1>3
  <2>2. chunk[r + 1] = IF r + 1 <= held THEN from + (r + 1) - 1 ELSE 0
    BY <1>4, <2>1
  <2> QED
    BY <2>1, <2>2
<1> QED
  BY <1>5, <1>6 DEF ps, held, from, chunk

\* The bytes of an object are the memory.
LEMMA ObjectBytesAreTheMemory ==
  ASSUME NEW image, Geometry(image), NEW i \in 1..Len(image.objects)
  PROVE  /\ Image!ObjectBytes(image, image.objects[i]) \in Seq(Int)
         /\ Len(Image!ObjectBytes(image, image.objects[i])) = image.objects[i].size
         /\ \A a \in image.objects[i].base..(image.objects[i].base + image.objects[i].size - 1) :
              Image!ObjectBytes(image, image.objects[i])[a - image.objects[i].base + 1]
                = MemoryAt(image, image.objects[i], a)
<1> DEFINE o == image.objects[i]
           ps == image.pageSize
           Page(p) == Image!Chunk(image, Image!PageOf(image, o, p))
           chunks == [p \in 1..o.pages |-> Page(p)]
           loaded == Image!FlattenSeq(chunks)
           bytes == Image!ObjectBytes(image, o)
<1>1. /\ o \in ObjectRecord /\ o.size \in Nat /\ o.base \in Nat /\ o.pages \in Nat /\ o.firstPage \in Nat
      /\ ps \in Nat /\ ps > 0
  <2>1. o \in ObjectRecord /\ ps \in Nat /\ ps > 0
    BY DEF Geometry
  <2> QED
    BY <2>1 DEF ObjectRecord
<1>2. \A p \in 1..o.pages : Image!PageOf(image, o, p) \in 1..image.pages
  <2> TAKE p \in 1..o.pages
  <2>1. p - 1 \in 0..(o.pages - 1) /\ o.firstPage + p - 1 = o.firstPage + (p - 1)
    <3> HIDE DEF o
    <3> QED
      BY <1>1
  <2>2. image.pageMap[o.firstPage + (p - 1)].number \in 1..image.pages
    BY <2>1, Zenon DEF Geometry
  <2> QED
    BY <2>1, <2>2, Zenon DEF Image!PageOf
<1>3. ASSUME NEW p \in 1..o.pages PROVE Page(p) \in Seq(Int) /\ Len(Page(p)) = ps
  BY <1>2, ChunkIs
<1>4. chunks \in Seq(Seq(Int)) /\ Len(chunks) = o.pages /\ \A p \in 1..Len(chunks) : Len(chunks[p]) = ps
  <2> HIDE DEF Page, ps, o
  <2>1. chunks \in [1..o.pages -> Seq(Int)]
    BY <1>3
  <2>2. \A p \in 1..o.pages : Len(chunks[p]) = ps
    BY <1>3
  <2> HIDE DEF chunks
  <2> QED
    BY <1>1, <2>1, <2>2, IsSequence
<1>5. /\ loaded \in Seq(Int) /\ Len(loaded) = o.pages * ps
      /\ \A q \in 0..(o.pages - 1), r \in 0..(ps - 1) : loaded[q * ps + r + 1] = chunks[q + 1][r + 1]
  <2> DEFINE V == Int
  <2>1. ArePages(chunks, V, ps)
    BY <1>4, Zenon DEF ArePages
  <2> HIDE DEF chunks, ps, o, V
  <2>2. LaidEndToEnd(Image!FlattenSeq(chunks), chunks, V, ps)
    BY <1>1, <2>1, PagesEndToEnd
  <2> QED
    BY <1>4, <2>2 DEF V, LaidEndToEnd
<1>6. bytes = [b \in 1..o.size |-> IF b <= Len(loaded) THEN loaded[b] ELSE 0]
  BY Zenon DEF Image!ObjectBytes, Image!Zero
<1>7. bytes \in Seq(Int) /\ Len(bytes) = o.size
  <2> HIDE DEF loaded, o, bytes
  <2>1. bytes \in [1..o.size -> Int]
    <3>1. \A b \in 1..o.size : b <= Len(loaded) => loaded[b] \in Int
      BY <1>5
    <3> QED
      BY <1>6, <3>1
  <2> QED
    BY <1>1, <2>1
<1>8. ASSUME NEW a \in o.base..(o.base + o.size - 1) PROVE bytes[a - o.base + 1] = MemoryAt(image, o, a)
  <2> DEFINE q == PageAt(image, o, a)
             r == PlaceAt(image, o, a)
             number == NumberAt(image, o, a)
             k == a - o.base + 1
             from == Image!PageFileOffset(image, number)
  <2>1. a \in Nat /\ a >= o.base /\ k \in 1..o.size
    <3> HIDE DEF o
    <3> QED
      BY <1>1
  <2>2. q \in Nat /\ r \in 0..(ps - 1) /\ a - o.base = q * ps + r
    BY <1>1, <2>1, PagesOfAddresses
  <2>3. MemoryAt(image, o, a) = IF IsHeld(image, o, a) THEN from + r ELSE 0
    BY <2>1, MemoryIs
  <2>4. IsHeld(image, o, a) <=> q < o.pages /\ r < Image!PageLength(image, number)
    BY Zenon DEF IsHeld
  <2>5. bytes[k] = IF k <= Len(loaded) THEN loaded[k] ELSE 0
    <3> HIDE DEF bytes, loaded, k
    <3> QED
      BY <1>6, <2>1
  <2>6. k = q * ps + r + 1
    <3> DEFINE m == q * ps
    <3>1. m \in Nat
      <4> HIDE DEF q, ps
      <4> QED
        BY <1>1, <2>2
    <3>2. a - o.base = m + r
      BY <2>2
    <3> HIDE DEF m, q, ps, r, o
    <3>3. k = m + r + 1
      BY <1>1, <3>2
    <3> QED
      BY <3>3 DEF m
  <2>7. k <= Len(loaded) <=> q < o.pages
    <3> HIDE DEF q, ps, r, o, loaded, k
    <3>1. CASE q < o.pages
      <4> DEFINE gap == o.pages - 1 - q
                 n == q * ps
      <4>1. gap \in Nat /\ o.pages = (q + 1) + gap
        BY <1>1, <2>2, <3>1
      <4>2. n \in Nat
        BY <1>1, <2>2
      <4> HIDE DEF gap
      <4>3. ((q + 1) + gap) * ps = (q * ps + ps) + gap * ps
        BY <1>1, <2>2, <4>1
      <4>4. gap * ps \in Nat
        BY <1>1, <4>1
      <4>5. o.pages * ps >= n + ps
        <5>1. o.pages * ps = (q * ps + ps) + gap * ps
          BY <4>1, <4>3
        <5> HIDE DEF n
        <5>2. o.pages * ps = (n + ps) + gap * ps
          BY <5>1 DEF n
        <5> QED
          BY <1>1, <4>2, <4>4, <5>2
      <4>6. k = n + r + 1
        BY <2>6
      <4> HIDE DEF n
      <4> QED
        BY <1>1, <1>5, <2>2, <3>1, <4>2, <4>5, <4>6
    <3>2. CASE ~ (q < o.pages)
      <4> DEFINE gap == q - o.pages
                 n == o.pages * ps
      <4>1. gap \in Nat /\ q = o.pages + gap
        BY <1>1, <2>2, <3>2
      <4>2. n \in Nat
        BY <1>1
      <4> HIDE DEF gap
      <4>3. (o.pages + gap) * ps = o.pages * ps + gap * ps
        BY <1>1, <4>1
      <4>4. gap * ps \in Nat
        BY <1>1, <4>1
      <4>5. q * ps >= n
        <5>1. q * ps = o.pages * ps + gap * ps
          BY <4>1, <4>3
        <5> HIDE DEF n
        <5>2. q * ps = n + gap * ps
          BY <5>1 DEF n
        <5> QED
          BY <4>2, <4>4, <5>2
      <4>6. Len(loaded) = n
        BY <1>5
      <4> DEFINE m == q * ps
      <4>7. m \in Nat /\ m >= n /\ k = m + r + 1
        BY <1>1, <2>2, <2>6, <4>5
      <4> HIDE DEF n, m
      <4> QED
        BY <2>2, <3>2, <4>2, <4>6, <4>7
    <3> QED
      BY <3>1, <3>2
  <2>8. CASE q < o.pages
    <3>1. number \in 1..image.pages /\ Image!PageOf(image, o, 1 + q) = number
      BY <2>1, <2>8, NumberInTheMap
    <3>2. q \in 0..(o.pages - 1) /\ q + 1 \in 1..o.pages /\ q + 1 = 1 + q
      <4> HIDE DEF q, o
      <4> QED
        BY <1>1, <2>2, <2>8
    <3>3. loaded[k] = chunks[q + 1][r + 1]
      <4> HIDE DEF loaded, q, k, r, chunks, ps, o
      <4> QED
        BY <1>5, <2>2, <2>6, <3>2
    <3>4. chunks[q + 1] = Image!Chunk(image, number)
      <4>1. chunks[q + 1] = Page(q + 1)
        <5> HIDE DEF Page, q, o
        <5> QED
          BY <3>2
      <4> QED
        BY <3>1, <3>2, <4>1, Zenon
    <3>5. Image!Chunk(image, number)[r + 1] = IF r < Image!PageLength(image, number) THEN from + r ELSE 0
      <4> HIDE DEF number, r
      <4> QED
        BY <2>2, <3>1, ChunkIs
    <3> QED
      BY <2>3, <2>4, <2>5, <2>7, <2>8, <3>3, <3>4, <3>5, Zenon
  <2>9. CASE ~ (q < o.pages)
    BY <2>3, <2>4, <2>5, <2>7, <2>9, Zenon
  <2> QED
    BY <2>8, <2>9
<1> QED
  BY <1>7, <1>8

-----------------------------------------------------------------------------
(* The printable runs, found with one register.                             *)

\* A run of the positions in P: from s, up to e and without it.
IsRun(P, s, e) ==
  s < e /\ (\A j \in s..(e - 1) : j \in P) /\ (s = 1 \/ s - 1 \notin P)

RunRecord == [address : Int, length : Int]
Found(base, s, e) == [address |-> base + s - 1, length |-> e - s]
Scanned == [run : Nat, found : SUBSET RunRecord]

\* The runs that end when position e is read, and one turn of the loop.
Ends(base, least, run, e) ==
  IF run # 0 /\ e - run >= least THEN {[address |-> base + run - 1, length |-> e - run]} ELSE {}
Read(P, base, least, i, before) ==
  IF i \in P THEN [before EXCEPT !.run = IF @ = 0 THEN i ELSE @]
  ELSE [run |-> 0, found |-> before.found \cup Ends(base, least, before.run, i)]

\* What the loop knows after i positions: the start of the run it is in, and
\* the runs that are over.
ScanKnows(P, base, least, i, v) ==
  /\ v \in Scanned
  /\ v.run \in 0..i
  /\ v.run = 0 <=> ~ (i > 0 /\ i \in P)
  /\ v.run # 0 => IsRun(P, v.run, i + 1)
  /\ \A x : x \in v.found <=>
       \E s \in 1..i : \E e \in 1..i :
         IsRun(P, s, e) /\ e \notin P /\ e - s >= least /\ x = Found(base, s, e)

LEMMA EndsAreRuns ==
  ASSUME NEW base \in Nat, NEW least, NEW run \in Nat, NEW e \in Nat
  PROVE  Ends(base, least, run, e) \in SUBSET RunRecord
BY DEF Ends, RunRecord

\* x tells of a run among L positions that is long enough; and the same, by
\* the address a and the length n.
TellsOfRun(P, L, base, least, x) ==
  \E s \in 1..(L + 1) : \E e \in 1..(L + 1) :
    IsRun(P, s, e) /\ e \notin P /\ e - s >= least /\ x = Found(base, s, e)
IsRunAt(P, base, least, a, n) ==
  /\ n >= least
  /\ \A b \in a..(a + n - 1) : (b - base) + 1 \in P
  /\ ((a - 1) - base) + 1 \notin P
  /\ ((a + n) - base) + 1 \notin P

\* Two runs that end at the same position start at the same one.
LEMMA OneRunEnds ==
  ASSUME NEW P, NEW e \in Nat, NEW s \in Nat, s > 0, NEW t \in Nat, t > 0, IsRun(P, s, e), IsRun(P, t, e)
  PROVE  s = t
<1>1. ASSUME NEW a \in Nat, NEW b \in Nat, b > 0, IsRun(P, a, e), IsRun(P, b, e), a < b, a > 0 PROVE FALSE
  <2>1. b - 1 \in a..(e - 1) /\ b # 1
    BY <1>1 DEF IsRun
  <2> QED
    BY <1>1, <2>1 DEF IsRun
<1> QED
  BY <1>1

LEMMA ReadKeeps ==
  ASSUME NEW P, NEW base \in Nat, NEW least \in Nat, NEW i \in Nat, NEW v,
         ScanKnows(P, base, least, i, v)
  PROVE  ScanKnows(P, base, least, i + 1, Read(P, base, least, i + 1, v))
<1> DEFINE w == Read(P, base, least, i + 1, v)
<1>0. /\ v \in Scanned /\ v.run \in 0..i /\ v.run \in Nat
      /\ v.run = 0 <=> ~ (i > 0 /\ i \in P)
      /\ v.run # 0 => IsRun(P, v.run, i + 1)
  BY DEF ScanKnows
<1>1. \A x : x \in v.found <=>
        \E s \in 1..i : \E e \in 1..i :
          IsRun(P, s, e) /\ e \notin P /\ e - s >= least /\ x = Found(base, s, e)
  BY Zenon DEF ScanKnows
<1>2. v.run \in Nat /\ v.found \in SUBSET RunRecord
  BY <1>0 DEF Scanned
<1>3. CASE i + 1 \in P
  <2>1. w = [v EXCEPT !.run = IF v.run = 0 THEN i + 1 ELSE v.run]
    BY <1>3, Zenon DEF Read
  <2>2. w.run = (IF v.run = 0 THEN i + 1 ELSE v.run) /\ w.found = v.found /\ w \in Scanned
    BY <1>0, <2>1 DEF Scanned
  <2> HIDE DEF w
  <2>3. w.run \in 0..(i + 1) /\ w.run # 0 /\ i + 1 > 0
    BY <1>0, <2>2
  <2>4. IsRun(P, w.run, i + 2)
    <3>1. CASE v.run = 0
      <4>1. w.run = i + 1 /\ (i + 1)..((i + 2) - 1) = {i + 1} /\ i + 1 < i + 2 /\ (i + 1) - 1 = i
        BY <2>2, <3>1
      <4>2. i + 1 = 1 \/ i \notin P
        BY <1>0, <3>1
      <4> QED
        BY <1>3, <4>1, <4>2 DEF IsRun
    <3>2. CASE v.run # 0
      <4>1. w.run = v.run /\ IsRun(P, v.run, i + 1)
        BY <1>0, <2>2, <3>2
      <4>2. \A j \in v.run..((i + 2) - 1) : j \in v.run..((i + 1) - 1) \/ j = i + 1
        BY <1>0
      <4>3. v.run < i + 2
        BY <1>0
      <4> QED
        BY <1>3, <4>1, <4>2, <4>3 DEF IsRun
    <3> QED
      BY <3>1, <3>2
  <2>5. \A s \in 1..(i + 1), e \in 1..(i + 1) :
          IsRun(P, s, e) /\ e \notin P <=> s \in 1..i /\ e \in 1..i /\ IsRun(P, s, e) /\ e \notin P
    <3> TAKE s \in 1..(i + 1), e \in 1..(i + 1)
    <3>1. IsRun(P, s, e) /\ e \notin P => s < e /\ e # i + 1
      BY <1>3 DEF IsRun
    <3> QED
      BY <3>1
  <2>6. 1..i \subseteq 1..(i + 1)
    OBVIOUS
  <2>7. \A x : x \in w.found <=>
          \E s \in 1..(i + 1) : \E e \in 1..(i + 1) :
            IsRun(P, s, e) /\ e \notin P /\ e - s >= least /\ x = Found(base, s, e)
    BY <1>1, <2>2, <2>5, <2>6, Zenon
  <2>8. (i + 1) + 1 = i + 2
    OBVIOUS
  <2>9. w.run = 0 <=> ~ (i + 1 > 0 /\ i + 1 \in P)
    BY <1>3, <2>3
  <2> QED
    BY <2>2, <2>3, <2>4, <2>7, <2>8, <2>9, Zenon DEF ScanKnows, w
<1>4. CASE i + 1 \notin P
  <2>1. w = [run |-> 0, found |-> v.found \cup Ends(base, least, v.run, i + 1)]
    BY <1>4, Zenon DEF Read
  <2>2. w.run = 0 /\ w.found = v.found \cup Ends(base, least, v.run, i + 1)
    BY <2>1
  <2>3. w \in Scanned
    <3>1. Ends(base, least, v.run, i + 1) \in SUBSET RunRecord
      BY <1>2, EndsAreRuns
    <3> QED
      BY <1>2, <2>1, <3>1 DEF Scanned
  <2> HIDE DEF w
  <2>4. ASSUME NEW x PROVE x \in Ends(base, least, v.run, i + 1) <=>
                             \E s \in 1..(i + 1) : IsRun(P, s, i + 1) /\ (i + 1) - s >= least /\ x = Found(base, s, i + 1)
    <3>1. ASSUME x \in Ends(base, least, v.run, i + 1)
          PROVE  \E s \in 1..(i + 1) : IsRun(P, s, i + 1) /\ (i + 1) - s >= least /\ x = Found(base, s, i + 1)
      <4>1. v.run # 0 /\ (i + 1) - v.run >= least /\ x = [address |-> base + v.run - 1, length |-> (i + 1) - v.run]
        <5>1. CASE v.run # 0 /\ (i + 1) - v.run >= least
          <6>1. Ends(base, least, v.run, i + 1) = {[address |-> base + v.run - 1, length |-> (i + 1) - v.run]}
            BY <5>1, Zenon DEF Ends
          <6> QED
            BY <3>1, <5>1, <6>1
        <5>2. CASE ~ (v.run # 0 /\ (i + 1) - v.run >= least)
          <6>1. Ends(base, least, v.run, i + 1) = {}
            BY <5>2, Zenon DEF Ends
          <6> QED
            BY <3>1, <6>1
        <5> QED
          BY <5>1, <5>2
      <4>2. v.run \in 1..(i + 1) /\ IsRun(P, v.run, i + 1)
        BY <1>0, <4>1
      <4> QED
        BY <4>1, <4>2 DEF Found
    <3>2. ASSUME NEW s \in 1..(i + 1), IsRun(P, s, i + 1), (i + 1) - s >= least, x = Found(base, s, i + 1)
          PROVE  x \in Ends(base, least, v.run, i + 1)
      <4>1. s < i + 1 /\ i \in s..((i + 1) - 1) /\ i > 0
        BY <3>2 DEF IsRun
      <4>2. i \in P
        BY <3>2, <4>1 DEF IsRun
      <4>3. v.run # 0 /\ IsRun(P, v.run, i + 1) /\ v.run > 0
        BY <1>0, <4>1, <4>2
      <4>4. s \in Nat /\ s > 0 /\ i + 1 \in Nat
        OBVIOUS
      <4>5. s = v.run
        BY <1>2, <3>2, <4>3, <4>4, OneRunEnds
      <4> QED
        BY <3>2, <4>3, <4>5 DEF Ends, Found
    <3> QED
      BY <3>1, <3>2
  <2>5. \A s \in 1..(i + 1), e \in 1..(i + 1) :
          IsRun(P, s, e) => s \in 1..i
    BY DEF IsRun
  <2>6. 1..(i + 1) = 1..i \cup {i + 1} /\ i + 1 \in 1..(i + 1)
    OBVIOUS
  <2>7. ASSUME NEW x
        PROVE x \in w.found <=>
          \E s \in 1..(i + 1) : \E e \in 1..(i + 1) :
            IsRun(P, s, e) /\ e \notin P /\ e - s >= least /\ x = Found(base, s, e)
    <3>1. x \in w.found <=> x \in v.found \/ x \in Ends(base, least, v.run, i + 1)
      BY <2>2
    <3>2. x \in v.found <=> \E s \in 1..i : \E e \in 1..i :
            IsRun(P, s, e) /\ e \notin P /\ e - s >= least /\ x = Found(base, s, e)
      BY <1>1, Zenon
    <3>3. x \in Ends(base, least, v.run, i + 1) <=>
            \E s \in 1..(i + 1) : IsRun(P, s, i + 1) /\ (i + 1) - s >= least /\ x = Found(base, s, i + 1)
      BY <2>4, Zenon
    <3>4. ASSUME x \in w.found
          PROVE  \E s \in 1..(i + 1) : \E e \in 1..(i + 1) :
                   IsRun(P, s, e) /\ e \notin P /\ e - s >= least /\ x = Found(base, s, e)
      <4>1. CASE x \in v.found
        BY <2>6, <3>2, <4>1, Zenon
      <4>2. CASE x \in Ends(base, least, v.run, i + 1)
        <5>1. PICK s \in 1..(i + 1) : IsRun(P, s, i + 1) /\ (i + 1) - s >= least /\ x = Found(base, s, i + 1)
          BY <3>3, <4>2
        <5> DEFINE e == i + 1
        <5>2. e \in 1..(i + 1) /\ e \notin P
          BY <1>4
        <5>3. IsRun(P, s, e) /\ e - s >= least /\ x = Found(base, s, e)
          BY <5>1
        <5> HIDE DEF e
        <5> QED
          BY <5>2, <5>3
      <4> QED
        BY <3>1, <3>4, <4>1, <4>2
    <3>5. ASSUME NEW s \in 1..(i + 1), NEW e \in 1..(i + 1),
                 IsRun(P, s, e), e \notin P, e - s >= least, x = Found(base, s, e)
          PROVE  x \in w.found
      <4>1. CASE e = i + 1
        <5>1. IsRun(P, s, i + 1) /\ (i + 1) - s >= least /\ x = Found(base, s, i + 1)
          BY <3>5, <4>1
        <5> QED
          BY <3>1, <3>3, <5>1, Zenon
      <4>2. CASE e # i + 1
        <5>1. s \in 1..i /\ e \in 1..i
          BY <2>5, <2>6, <3>5, <4>2, Zenon
        <5> QED
          BY <3>1, <3>2, <3>5, <5>1, Zenon
      <4> QED
        BY <4>1, <4>2
    <3> QED
      BY <3>4, <3>5, Zenon
  <2>8. w.run \in 0..(i + 1) /\ (w.run = 0 <=> ~ (i + 1 > 0 /\ i + 1 \in P)) /\ ~ (w.run # 0)
    BY <1>4, <2>2
  <2> QED
    BY <2>3, <2>7, <2>8, Zenon DEF ScanKnows, w
<1> QED
  BY <1>3, <1>4

PrintedPositions(image, o, printable) ==
  {j \in 1..Len(Image!ObjectBytes(image, o)) : Image!ObjectBytes(image, o)[j] \in printable}

\* strings returns the runs of printable bytes that are long enough.
LEMMA StringsAreRuns ==
  ASSUME NEW image, NEW o, o.base \in Nat, NEW printable, NEW least \in Nat,
         Image!ObjectBytes(image, o) \in Seq(Int),
         NEW L, L = Len(Image!ObjectBytes(image, o)),
         NEW P, P = PrintedPositions(image, o, printable)
  PROVE  \A x : x \in Image!Strings(image, o, printable, least) <=> TellsOfRun(P, L, o.base, least, x)
<1> DEFINE bytes == Image!ObjectBytes(image, o)
           n0 == Len(bytes)
           start == [run |-> 0, found |-> {}]
           Turned(h, i) == IF bytes[i] \in printable
                           THEN [h[i - 1] EXCEPT !.run = IF @ = 0 THEN i ELSE @]
                           ELSE [run |-> 0, found |-> h[i - 1].found \cup Ends(o.base, least, h[i - 1].run, i)]
           Flat(h) == h = [i \in 0..n0 |-> IF i = 0 THEN start ELSE Turned(h, i)]
           G == CHOOSE h : Flat(h)
           last == G[L]
<1>1. Image!Strings(image, o, printable, least) = last.found \cup Ends(o.base, least, last.run, L + 1)
  <2>1. Image!Strings(image, o, printable, least)
          = G[n0].found \cup Ends(o.base, least, G[n0].run, n0 + 1)
    BY Zenon DEF Image!Strings, Ends
  <2> HIDE DEF G
  <2> QED
    BY <2>1
<1>2. L \in Nat /\ n0 = L
  OBVIOUS
<1> HIDE DEF bytes, n0
<1>3. ASSUME NEW h, NEW i \in 1..L PROVE Turned(h, i) = Read(P, o.base, least, i, h[i - 1])
  <2>1. i \in P <=> bytes[i] \in printable
    BY DEF bytes, PrintedPositions
  <2> QED
    BY <2>1, Zenon DEF Read
<1>4. ScanKnows(P, o.base, least, 0, start)
  <2>1. start \in Scanned
    BY DEF Scanned
  <2>2. start.run = 0 /\ start.found = {} /\ 1..0 = {} /\ 0 \in 0..0 /\ ~ (0 > 0)
    OBVIOUS
  <2> QED
    BY <2>1, <2>2, Zenon DEF ScanKnows
<1>5. Flat(G)
  <2> DEFINE Knowing(i) == {v \in Scanned : ScanKnows(P, o.base, least, i, v)}
             Turn == [p \in Nat \X Scanned |->
                        IF p[1] > 0 /\ p[2] \in Knowing(p[1] - 1) THEN Read(P, o.base, least, p[1], p[2]) ELSE p[2]]
             V == Scanned
  <2>1. Turn \in [Nat \X V -> V]
    <3> SUFFICES ASSUME NEW n \in Nat, NEW v \in Scanned, n > 0, v \in Knowing(n - 1)
                 PROVE  Read(P, o.base, least, n, v) \in Scanned
      OBVIOUS
    <3>1. n - 1 \in Nat /\ (n - 1) + 1 = n /\ ScanKnows(P, o.base, least, n - 1, v)
      OBVIOUS
    <3>2. ScanKnows(P, o.base, least, (n - 1) + 1, Read(P, o.base, least, (n - 1) + 1, v))
      BY <3>1, ReadKeeps
    <3> QED
      BY <3>1, <3>2, Zenon DEF ScanKnows
  <2>2. ASSUME NEW n \in Nat, NEW v \in Scanned, n > 0, ScanKnows(P, o.base, least, n - 1, v)
        PROVE  Turn[<<n, v>>] = Read(P, o.base, least, n, v)
    BY <2>2
  <2> HIDE DEF Turn
  <2>3. start \in V
    BY DEF Scanned
  <2>4. PICK f : IsTable(f, V, start, Turn, L)
    <3> HIDE DEF V, start
    <3> QED
      BY <1>2, <2>1, <2>3, Iteration
  <2>5. f \in [0..L -> V] /\ f[0] = start /\ \A n \in 1..L : f[n] = Turn[<<n, f[n - 1]>>]
    BY <2>4, Zenon DEF IsTable
  <2> DEFINE S == {n \in Nat : n \in 0..L => ScanKnows(P, o.base, least, n, f[n])}
             Knows(n) == ScanKnows(P, o.base, least, n, f[n])
  <2>6. 0 \in S
    BY <1>4, <2>5
  <2>7. ASSUME NEW n \in Nat, n \in 0..L, Knows(n), n + 1 \in 0..L
        PROVE  f[n + 1] = Read(P, o.base, least, n + 1, f[n]) /\ Knows(n + 1)
    <3>1. n + 1 \in 1..L /\ (n + 1) - 1 = n /\ n + 1 > 0 /\ n + 1 \in Nat
      BY <1>2, <2>7
    <3>2. f[n + 1] = Turn[<<n + 1, f[n]>>]
      BY <2>5, <3>1
    <3>3. f[n] \in Scanned /\ ScanKnows(P, o.base, least, (n + 1) - 1, f[n])
      BY <2>5, <2>7, <3>1
    <3>4. f[n + 1] = Read(P, o.base, least, n + 1, f[n])
      BY <2>2, <3>1, <3>2, <3>3
    <3>5. ScanKnows(P, o.base, least, n + 1, Read(P, o.base, least, n + 1, f[n]))
      BY <2>7, ReadKeeps
    <3> QED
      BY <3>4, <3>5
  <2>8. ASSUME NEW n \in Nat, n \in S PROVE n + 1 \in S
    <3> SUFFICES ASSUME n + 1 \in 0..L PROVE Knows(n + 1)
      OBVIOUS
    <3>1. n \in 0..L
      BY <1>2
    <3>2. Knows(n)
      BY <2>8, <3>1
    <3> HIDE DEF Knows
    <3> QED
      BY <2>7, <3>1, <3>2
  <2> HIDE DEF S
  <2>9. \A n \in Nat : n \in S
    BY <2>6, <2>8, Induction
  <2>10. \A n \in 0..L : Knows(n)
    <3> TAKE n \in 0..L
    <3>1. n \in S
      BY <1>2, <2>9
    <3> QED
      BY <3>1 DEF S
  <2>11. ASSUME NEW i \in 0..L PROVE f[i] = IF i = 0 THEN start ELSE Turned(f, i)
    <3>1. CASE i = 0
      BY <2>5, <3>1, Zenon
    <3>2. CASE i # 0
      <4>1. i - 1 \in Nat /\ i - 1 \in 0..L /\ (i - 1) + 1 = i /\ i \in 1..L
        BY <1>2, <3>2
      <4>2. Knows(i - 1)
        BY <2>10, <4>1
      <4> HIDE DEF Knows
      <4>3. f[i] = Read(P, o.base, least, i, f[i - 1])
        <5>1. (i - 1) + 1 \in 0..L
          BY <4>1
        <5>2. f[(i - 1) + 1] = Read(P, o.base, least, (i - 1) + 1, f[i - 1])
          BY <2>7, <4>1, <4>2, <5>1
        <5> QED
          BY <4>1, <5>2
      <4>4. Turned(f, i) = Read(P, o.base, least, i, f[i - 1])
        BY <1>3, <4>1
      <4> QED
        BY <3>2, <4>3, <4>4, Zenon
    <3> QED
      BY <3>1, <3>2
  <2>12. Flat(f)
    <3> HIDE DEF start, Turned
    <3>1. DOMAIN f = 0..L /\ f = [i \in 0..L |-> f[i]]
      BY <2>5
    <3> QED
      BY <1>2, <2>11, <3>1
  <2> HIDE DEF Flat
  <2> QED
    BY <2>12, Zenon
<1> HIDE DEF G
<1>6. G[0] = start /\ \A i \in 1..L : G[i] = Read(P, o.base, least, i, G[i - 1])
  <2> HIDE DEF Turned, start
  <2>1. 0 \in 0..L /\ \A i \in 1..L : i \in 0..L /\ i # 0
    BY <1>2
  <2>2. \A i \in 0..L : G[i] = IF i = 0 THEN start ELSE Turned(G, i)
    BY <1>2, <1>5
  <2> QED
    BY <1>3, <2>1, <2>2
<1> DEFINE Knows(n) == ScanKnows(P, o.base, least, n, G[n])
           S == {n \in Nat : n \in 0..L => Knows(n)}
<1>7. 0 \in S
  BY <1>4, <1>6
<1>8. ASSUME NEW n \in Nat, n \in S PROVE n + 1 \in S
  <2> SUFFICES ASSUME n + 1 \in 0..L PROVE Knows(n + 1)
    OBVIOUS
  <2>1. n \in 0..L /\ n + 1 \in 1..L /\ (n + 1) - 1 = n
    BY <1>2
  <2>2. Knows(n)
    <3> HIDE DEF Knows
    <3> QED
      BY <1>8, <2>1
  <2>3. G[n + 1] = Read(P, o.base, least, n + 1, G[n])
    <3> HIDE DEF start
    <3> QED
      BY <1>6, <2>1
  <2>4. ScanKnows(P, o.base, least, n + 1, Read(P, o.base, least, n + 1, G[n]))
    BY <2>2, ReadKeeps
  <2> QED
    BY <2>3, <2>4
<1> HIDE DEF S
<1>9. \A n \in Nat : n \in S
  BY <1>7, <1>8, Induction
<1>10. Knows(L)
  <2>1. L \in S /\ L \in 0..L
    BY <1>2, <1>9
  <2> HIDE DEF Knows
  <2> QED
    BY <2>1 DEF S
<1>11. L + 1 \notin P
  BY <1>2 DEF PrintedPositions
<1> DEFINE v == Read(P, o.base, least, L + 1, last)
<1>12. ScanKnows(P, o.base, least, L + 1, v)
  <2> QED
    BY <1>2, <1>10, ReadKeeps
<1>13. v.found = last.found \cup Ends(o.base, least, last.run, L + 1)
  <2>1. v = [run |-> 0, found |-> last.found \cup Ends(o.base, least, last.run, L + 1)]
    BY <1>11, Zenon DEF Read
  <2> HIDE DEF v, last
  <2> QED
    BY <2>1
<1> QED
  BY <1>1, <1>12, <1>13, Zenon DEF ScanKnows, TellsOfRun

\* A run of positions, told by addresses.
LEMMA RunsByAddress ==
  ASSUME NEW base \in Nat, NEW L \in Nat, NEW P \in SUBSET (1..L), NEW least \in Nat,
         NEW a \in base..(base + L - 1), NEW n \in 1..L
  PROVE  TellsOfRun(P, L, base, least, [address |-> a, length |-> n]) <=> IsRunAt(P, base, least, a, n)
<1> USE DEF TellsOfRun, IsRunAt
<1> DEFINE x == [address |-> a, length |-> n]
           s0 == (a - base) + 1
           e0 == s0 + n
<1>1. s0 \in 1..L /\ e0 \in Nat /\ ((a - 1) - base) + 1 = s0 - 1 /\ ((a + n) - base) + 1 = e0 /\ e0 - s0 = n
      /\ s0 < e0
  OBVIOUS
<1>2. ASSUME NEW s \in 1..(L + 1), NEW e \in 1..(L + 1)
      PROVE  x = Found(base, s, e) <=> s = s0 /\ e = e0
  <2>1. x = Found(base, s, e) <=> a = base + s - 1 /\ n = e - s
    BY DEF Found
  <2> QED
    BY <2>1
<1>3. \A b \in a..(a + n - 1) : (b - base) + 1 \in s0..(e0 - 1)
  OBVIOUS
<1>4. \A j \in s0..(e0 - 1) : (j + base) - 1 \in a..(a + n - 1) /\ (((j + base) - 1) - base) + 1 = j
  OBVIOUS
<1>5. IsRun(P, s0, e0) <=> (\A b \in a..(a + n - 1) : (b - base) + 1 \in P) /\ s0 - 1 \notin P
  <2>1. (\A j \in s0..(e0 - 1) : j \in P) <=> \A b \in a..(a + n - 1) : (b - base) + 1 \in P
    <3> HIDE DEF s0, e0
    <3>1. ASSUME \A j \in s0..(e0 - 1) : j \in P, NEW b \in a..(a + n - 1) PROVE (b - base) + 1 \in P
      BY <1>3, <3>1
    <3>2. ASSUME \A b \in a..(a + n - 1) : (b - base) + 1 \in P, NEW j \in s0..(e0 - 1) PROVE j \in P
      <4>1. (j + base) - 1 \in a..(a + n - 1) /\ (((j + base) - 1) - base) + 1 = j
        BY <1>4
      <4>2. (((j + base) - 1) - base) + 1 \in P
        BY <3>2, <4>1
      <4> QED
        BY <4>1, <4>2
    <3> QED
      BY <3>1, <3>2, Zenon
  <2>2. s0 = 1 => s0 - 1 \notin P
    OBVIOUS
  <2> HIDE DEF s0, e0
  <2> QED
    BY <1>1, <2>1, <2>2, Zenon DEF IsRun
<1>6. s0 \in 1..(L + 1)
  BY <1>1
<1>7. IsRun(P, s0, e0) => e0 \in 1..(L + 1)
  <2> SUFFICES ASSUME IsRun(P, s0, e0) PROVE e0 \in 1..(L + 1)
    OBVIOUS
  <2>1. e0 - 1 \in s0..(e0 - 1)
    BY <1>1
  <2>2. e0 - 1 \in P
    BY <2>1 DEF IsRun
  <2> HIDE DEF e0, s0
  <2> QED
    BY <1>1, <2>2
<1> HIDE DEF s0, e0, x
<1>8. (\E s \in 1..(L + 1) : \E e \in 1..(L + 1) :
         IsRun(P, s, e) /\ e \notin P /\ e - s >= least /\ x = Found(base, s, e))
      <=> IsRun(P, s0, e0) /\ e0 \notin P /\ n >= least
  <2>1. ASSUME NEW s \in 1..(L + 1), NEW e \in 1..(L + 1),
               IsRun(P, s, e), e \notin P, e - s >= least, x = Found(base, s, e)
        PROVE  IsRun(P, s0, e0) /\ e0 \notin P /\ n >= least
    <3>1. s = s0 /\ e = e0
      BY <1>2, <2>1
    <3> QED
      BY <1>1, <2>1, <3>1
  <2>2. ASSUME IsRun(P, s0, e0), e0 \notin P, n >= least
        PROVE  \E s \in 1..(L + 1) : \E e \in 1..(L + 1) :
                 IsRun(P, s, e) /\ e \notin P /\ e - s >= least /\ x = Found(base, s, e)
    <3>1. e0 \in 1..(L + 1) /\ e0 - s0 >= least
      BY <1>1, <1>7, <2>2
    <3>2. x = Found(base, s0, e0)
      BY <1>2, <1>6, <3>1
    <3> QED
      BY <1>6, <2>2, <3>1, <3>2
  <2> QED
    BY <2>1, <2>2, Zenon
<1> QED
  BY <1>1, <1>5, <1>8, Zenon DEF x

LEMMA Shifted ==
  ASSUME NEW a \in Nat, NEW base \in Nat, NEW m \in Nat, NEW r \in Nat, NEW b \in Nat,
         a - base = m + r
  PROVE  (a + (b - 1)) - base = m + (r + (b - 1))
OBVIOUS

\* An anchor inside one page is confirmed when the memory holds it.
LEMMA AnchorsAreConfirmed ==
  ASSUME NEW image, Geometry(image), NEW i \in 1..Len(image.objects),
         NEW a \in image.objects[i].base..(image.objects[i].base + image.objects[i].size - 1),
         NEW n \in Nat, n > 0,
         Image!ObjectContaining(image, a) = i, InOnePage(image, image.objects[i], a, n),
         MemoryAt(image, image.objects[i], a + n - 1) # 0,
         NEW expected \in Seq(Int), Len(expected) = n
  PROVE  Image!CheckAnchor(image, a, expected) <=>
           \A b \in 1..n : expected[b] = MemoryAt(image, image.objects[i], a + b - 1)
<1> DEFINE o == image.objects[i]
           ps == image.pageSize
           q == PageAt(image, o, a)
           r == PlaceAt(image, o, a)
           number == NumberAt(image, o, a)
           from == Image!PageFileOffset(image, number)
           held == Image!PageLength(image, number)
           offset == MemoryAt(image, o, a)
<1>1. /\ o \in ObjectRecord /\ o.size \in Nat /\ o.base \in Nat /\ o.pages \in Nat
      /\ ps \in Nat /\ ps > 0 /\ image.size \in Nat
  <2>1. o \in ObjectRecord /\ ps \in Nat /\ ps > 0 /\ image.size \in Nat
    BY DEF Geometry
  <2> QED
    BY <2>1 DEF ObjectRecord
<1>2. a \in Nat /\ a >= o.base
  <2>1. a \in o.base..(o.base + o.size - 1)
    OBVIOUS
  <2> HIDE DEF o
  <2> QED
    BY <1>1, <2>1
<1>3. q \in Nat /\ r \in 0..(ps - 1) /\ a - o.base = q * ps + r
  BY <1>1, <1>2, PagesOfAddresses
<1>4. r + n <= ps
  BY Zenon DEF InOnePage, PlaceAt
<1>5. ASSUME NEW b \in 1..n
      PROVE  /\ a + b - 1 \in Nat /\ a + b - 1 >= o.base
             /\ PageAt(image, o, a + b - 1) = q /\ PlaceAt(image, o, a + b - 1) = r + b - 1
  <2> DEFINE rb == r + b - 1
             m == q * ps
             c == a + b - 1
  <2>1. c \in Nat /\ c >= o.base
    <3> HIDE DEF o
    <3> QED
      BY <1>2, <1>1
  <2>2. rb \in 0..(ps - 1)
    <3> HIDE DEF r, ps
    <3> QED
      BY <1>1, <1>3, <1>4
  <2>3. c - o.base = m + rb
    <3>1. m \in Nat /\ a - o.base = m + r
      <4> HIDE DEF q, ps, r
      <4> QED
        BY <1>1, <1>3
    <3> DEFINE base == o.base
    <3>2. r \in Nat /\ base \in Nat /\ a - base = m + r
      BY <1>1, <1>3, <3>1
    <3> HIDE DEF m, r, base, ps
    <3>3. (a + (b - 1)) - base = m + (r + (b - 1))
      <4>1. a \in Nat /\ b \in Nat /\ m \in Nat /\ r \in Nat /\ base \in Nat /\ a - base = m + r
        BY <1>2, <3>1, <3>2
      <4> QED
        BY ONLY <4>1, Shifted
    <3> QED
      BY <3>3 DEF base
  <2> HIDE DEF q, ps, rb
  <2>4. (q * ps + rb) \div ps = q /\ (q * ps + rb) % ps = rb
    BY <1>1, <1>3, <2>2, DivisionIsUnique
  <2>5. (c - o.base) \div ps = q /\ (c - o.base) % ps = rb
    BY <2>3, <2>4
  <2> QED
    BY <2>1, <2>5 DEF PageAt, PlaceAt, ps, rb
<1>6. ASSUME NEW b \in 1..n
      PROVE  /\ NumberAt(image, o, a + b - 1) = number
             /\ IsHeld(image, o, a + b - 1) <=> q < o.pages /\ r + b - 1 < held
  <2>1. NumberAt(image, o, a + b - 1) = number
    BY <1>5, Zenon DEF NumberAt
  <2> QED
    BY <1>5, <2>1, Zenon DEF IsHeld
<1>7. q < o.pages /\ r + n - 1 < held
  <2>1. n \in 1..n
    OBVIOUS
  <2>2. IsHeld(image, o, a + n - 1)
    BY <1>5, <2>1, MemoryIsNat
  <2> QED
    BY <1>6, <2>1, <2>2
<1>8. held \in Nat
  BY DEF Image!PageLength, Geometry
<1>9. ASSUME NEW b \in 1..n
      PROVE  /\ MemoryAt(image, o, a + b - 1) = from + (r + b - 1)
             /\ MemoryAt(image, o, a + b - 1) \in Nat
             /\ MemoryAt(image, o, a + b - 1) # 0
             /\ MemoryAt(image, o, a + b - 1) < image.size
             /\ from \in Nat
  <2>1. r + b - 1 < held
    <3> HIDE DEF held, r
    <3> QED
      BY <1>3, <1>7, <1>8
  <2>2. IsHeld(image, o, a + b - 1) /\ NumberAt(image, o, a + b - 1) = number
    BY <1>6, <1>7, <2>1
  <2>3. MemoryAt(image, o, a + b - 1) = from + (r + b - 1)
    BY <1>5, <2>2, MemoryIs
  <2> QED
    BY <1>5, <2>2, <2>3, MemoryIsPageData
<1>10. /\ offset = from + r /\ offset \in Nat /\ offset # 0
       /\ MemoryAt(image, o, a + n - 1) = offset + n - 1
       /\ offset + n - 1 < image.size /\ from \in Nat
       /\ \A b \in 1..n : MemoryAt(image, o, a + b - 1) = offset + b - 1
  <2>1. 1 \in 1..n /\ a + 1 - 1 = a /\ n \in 1..n
    BY <1>2
  <2>2. r + 1 - 1 = r /\ r \in Nat
    <3> HIDE DEF r
    <3> QED
      BY <1>3
  <2>3. offset = from + r /\ offset \in Nat /\ offset # 0 /\ from \in Nat
    BY <1>9, <2>1, <2>2
  <2>4. \A b \in 1..n : MemoryAt(image, o, a + b - 1) = offset + b - 1
    <3> TAKE b \in 1..n
    <3> HIDE DEF offset, from, r
    <3>1. from + (r + b - 1) = offset + b - 1
      BY <2>2, <2>3
    <3> QED
      BY <1>9, <3>1
  <2>5. MemoryAt(image, o, a + n - 1) < image.size
    BY <1>9, <2>1
  <2> HIDE DEF offset, from, r
  <2> QED
    BY <2>1, <2>3, <2>4, <2>5
<1>11. Image!FileOffset(image, a) = offset
  BY <1>2, OffsetIsTheMemory
<1> HIDE DEF offset
<1>12. Image!Min({Len(expected), image.size - offset}) = n
  <2> DEFINE T == {Len(expected), image.size - offset}
  <2>1. n \in T /\ \A y \in T : n <= y
    BY <1>1, <1>10
  <2>2. T \subseteq Int
    BY <1>1, <1>10
  <2> HIDE DEF T
  <2>3. ASSUME NEW x \in T, \A y \in T : x <= y PROVE x = n
    <3>1. x <= n /\ n <= x /\ x \in Int
      BY <2>1, <2>2, <2>3
    <3> QED
      BY <3>1
  <2> QED
    BY <2>1, <2>3, Zenon DEF Image!Min, T
<1>13. Image!CheckAnchor(image, a, expected) <=> expected = [b \in 1..n |-> offset + b - 1]
  BY <1>10, <1>11, <1>12, Zenon DEF Image!CheckAnchor, Image!NotBacked
<1>14. expected = [b \in 1..n |-> offset + b - 1] <=> \A b \in 1..n : expected[b] = offset + b - 1
  <2>1. expected = [b \in 1..n |-> expected[b]]
    OBVIOUS
  <2> QED
    BY <2>1
<1> QED
  BY <1>10, <1>13, <1>14

\* A run of printable memory.
IsPrinted(image, o, printable, least, addresses, a, n) ==
  LET Printed(b) == b \in addresses /\ MemoryAt(image, o, b) \in printable
  IN  n >= least /\ (\A b \in a..(a + n - 1) : Printed(b)) /\ ~ Printed(a - 1) /\ ~ Printed(a + n)

\* The runs strings returns are the runs of printable memory.
LEMMA RunsAreInTheMemory ==
  ASSUME NEW image, Geometry(image), NEW i \in 1..Len(image.objects), NEW printable,
         NEW least \in Nat, NEW o, o = image.objects[i],
         NEW addresses, addresses = o.base..(o.base + o.size - 1),
         NEW a \in addresses, NEW n \in 1..o.size
  PROVE  [address |-> a, length |-> n] \in Image!Strings(image, o, printable, least)
           <=> IsPrinted(image, o, printable, least, addresses, a, n)
<1> DEFINE L == o.size
           base == o.base
           bytes == Image!ObjectBytes(image, o)
           P == {j \in 1..L : bytes[j] \in printable}
           Printed(b) == b \in addresses /\ MemoryAt(image, o, b) \in printable
<1>1. o \in ObjectRecord /\ L \in Nat /\ base \in Nat
  <2>1. o \in ObjectRecord
    BY DEF Geometry
  <2> QED
    BY <2>1 DEF ObjectRecord
<1>2. bytes \in Seq(Int) /\ Len(bytes) = L
      /\ \A b \in addresses : bytes[b - base + 1] = MemoryAt(image, o, b)
  BY ObjectBytesAreTheMemory
<1>3. ASSUME NEW b \in Int PROVE Printed(b) <=> (b - base) + 1 \in P
  <2>1. b \in addresses <=> (b - base) + 1 \in 1..L
    <3> HIDE DEF P
    <3> QED
      BY <1>1
  <2>2. b \in addresses => bytes[(b - base) + 1] = MemoryAt(image, o, b)
    <3>1. b - base + 1 = (b - base) + 1
      BY <1>1
    <3> QED
      BY <1>2, <3>1
  <2> QED
    BY <2>1, <2>2
<1>4. \A x : x \in Image!Strings(image, o, printable, least) <=> TellsOfRun(P, L, base, least, x)
  <2>1. P = PrintedPositions(image, o, printable)
        /\ L = Len(Image!ObjectBytes(image, o)) /\ Image!ObjectBytes(image, o) \in Seq(Int)
        /\ o.base \in Nat
    BY <1>1, <1>2, Zenon DEF PrintedPositions
  <2> HIDE DEF P, L
  <2> QED
    BY <2>1, StringsAreRuns
<1>5. a \in base..(base + L - 1) /\ a \in Nat
  <2>1. a \in base..(base + L - 1)
    OBVIOUS
  <2> HIDE DEF base, L
  <2> QED
    BY <1>1, <2>1
<1>6. P \in SUBSET (1..L)
  OBVIOUS
<1>7. TellsOfRun(P, L, base, least, [address |-> a, length |-> n]) <=> IsRunAt(P, base, least, a, n)
  <2>1. n \in 1..L
    OBVIOUS
  <2> HIDE DEF L, base, P
  <2> QED
    BY <1>1, <1>5, <1>6, <2>1, RunsByAddress
<1>8. /\ (\A b \in a..(a + n - 1) : (b - base) + 1 \in P) <=> \A b \in a..(a + n - 1) : Printed(b)
      /\ ((a - 1) - base) + 1 \in P <=> Printed(a - 1)
      /\ ((a + n) - base) + 1 \in P <=> Printed(a + n)
  <2>1. a - 1 \in Int /\ a + n \in Int /\ \A b \in a..(a + n - 1) : b \in Int
    BY <1>5
  <2> HIDE DEF P, Printed
  <2> QED
    BY <1>3, <2>1
<1> HIDE DEF P, L, base
<1> QED
  BY <1>4, <1>7, <1>8, Zenon DEF IsRunAt, IsPrinted

\* Of an image of any number of pages and objects, what the parser says is
\* what the page map puts in memory.
LEMMA ImagesAreExact ==
  ASSUME NEW image \in ImageRecord
  PROVE  ImageIsTheFile(image)
<1> SUFFICES ASSUME Image!Accepted(image) PROVE ImageIsTheFile(image)
  BY Zenon DEF ImageIsTheFile
<1>1. Geometry(image) /\ image.objects[image.start].executable
  BY AcceptedHasGeometry
<1> DEFINE Object(i) == image.objects[i]
           Addresses(i) == Object(i).base..(Object(i).base + Object(i).size - 1)
           Bytes(i) == Image!ObjectBytes(image, Object(i))
           Memory(i, a) == MemoryAt(image, Object(i), a)
           Printed(i, a) == a \in Addresses(i) /\ Memory(i, a) \in {n \in image.dataPages..image.size : n % 5 # 0}
           Runs(i) == Image!Strings(image, Object(i), {n \in image.dataPages..image.size : n % 5 # 0}, 2)
<1>2. ASSUME NEW i \in 1..Len(image.objects), NEW a \in Addresses(i)
      PROVE  a \in Nat /\ a >= Object(i).base /\ Object(i).size \in Nat
  <2>1. Object(i) \in ObjectRecord
    BY <1>1 DEF Geometry
  <2>2. Object(i).size \in Nat /\ Object(i).base \in Nat
    BY <2>1 DEF ObjectRecord
  <2>3. a \in Object(i).base..(Object(i).base + Object(i).size - 1)
    OBVIOUS
  <2> HIDE DEF Object
  <2> QED
    BY <2>2, <2>3
<1>3. ASSUME NEW i \in 1..Len(image.objects)
      PROVE  /\ Len(Bytes(i)) = Object(i).size
             /\ \A a \in Addresses(i) : Bytes(i)[a - Object(i).base + 1] = Memory(i, a)
  BY <1>1, ObjectBytesAreTheMemory
<1>4. ASSUME NEW i \in 1..Len(image.objects), NEW a \in Addresses(i), Image!ObjectContaining(image, a) = i
      PROVE  LET offset == Image!FileOffset(image, a)
             IN  /\ offset = Memory(i, a)
                 /\ offset # 0 => image.dataPages <= offset /\ offset < image.size
  <2>1. a \in Nat /\ a >= Object(i).base
    BY <1>2
  <2>2. Image!FileOffset(image, a) = Memory(i, a)
    BY <1>1, <1>4, <2>1, OffsetIsTheMemory
  <2>3. Memory(i, a) # 0 => image.dataPages <= Memory(i, a) /\ Memory(i, a) < image.size
    BY <1>1, <2>1, MemoryIsNat, MemoryIsPageData
  <2> QED
    BY <2>2, <2>3
<1>5. ASSUME NEW i \in 1..Len(image.objects), NEW a \in Addresses(i), NEW n \in 1..Object(i).size
      PROVE  [address |-> a, length |-> n] \in Runs(i) <=>
               /\ n >= 2
               /\ \A b \in a..(a + n - 1) : Printed(i, b)
               /\ ~ Printed(i, a - 1) /\ ~ Printed(i, a + n)
  <2> DEFINE printable == {k \in image.dataPages..image.size : k % 5 # 0}
             o == Object(i)
             A == Addresses(i)
  <2>1. o = image.objects[i] /\ A = o.base..(o.base + o.size - 1) /\ a \in A /\ n \in 1..o.size /\ 2 \in Nat
    OBVIOUS
  <2> HIDE DEF o, A, printable
  <2>2. [address |-> a, length |-> n] \in Image!Strings(image, o, printable, 2)
          <=> IsPrinted(image, o, printable, 2, A, a, n)
    BY <1>1, <2>1, RunsAreInTheMemory
  <2> QED
    BY <2>2, Zenon DEF o, A, printable, IsPrinted
<1>6. ASSUME NEW i \in 1..Len(image.objects), NEW a \in Addresses(i), NEW n \in 1..2,
             Image!ObjectContaining(image, a) = i, InOnePage(image, Object(i), a, n),
             a + n - 1 \in Addresses(i), Memory(i, a + n - 1) # 0, NEW shift \in {0, 1}
      PROVE  LET expected == [b \in 1..n |-> Memory(i, a) + b - 1 + shift]
             IN  Image!CheckAnchor(image, a, expected) <=> \A b \in 1..n : expected[b] = Memory(i, a + b - 1)
  <2> DEFINE expected == [b \in 1..n |-> Memory(i, a) + b - 1 + shift]
  <2>1. a \in Nat /\ a >= Object(i).base
    BY <1>2
  <2>2. Memory(i, a) \in Nat
    BY <1>1, <2>1, MemoryIsNat
  <2>3. expected \in Seq(Int) /\ Len(expected) = n
    <3> HIDE DEF Memory
    <3>1. expected \in [1..n -> Int] /\ n \in Nat
      BY <2>2
    <3> HIDE DEF expected
    <3> QED
      BY <3>1, IsSequence
  <2>4. n \in Nat /\ n > 0
    OBVIOUS
  <2> HIDE DEF expected
  <2>5. Image!CheckAnchor(image, a, expected) <=> \A b \in 1..n : expected[b] = Memory(i, a + b - 1)
    BY <1>1, <1>6, <2>3, <2>4, AnchorsAreConfirmed
  <2> QED
    BY <2>5 DEF expected
<1>7. \A i \in 1..Len(image.objects) : \A a \in Addresses(i), n \in 1..Object(i).size :
        [address |-> a, length |-> n] \in Runs(i) <=>
          /\ n >= 2
          /\ \A b \in a..(a + n - 1) : Printed(i, b)
          /\ ~ Printed(i, a - 1) /\ ~ Printed(i, a + n)
  BY <1>5, Zenon
<1>8. \A i \in 1..Len(image.objects) : \A a \in Addresses(i), n \in 1..2 :
        (/\ Image!ObjectContaining(image, a) = i
         /\ InOnePage(image, Object(i), a, n) /\ a + n - 1 \in Addresses(i)
         /\ Memory(i, a + n - 1) # 0)
        => \A shift \in {0, 1} :
             LET expected == [b \in 1..n |-> Memory(i, a) + b - 1 + shift]
             IN  Image!CheckAnchor(image, a, expected) <=> \A b \in 1..n : expected[b] = Memory(i, a + b - 1)
  BY <1>6, Zenon
<1>9. \A i \in 1..Len(image.objects) : \A a \in Addresses(i) : Image!ObjectContaining(image, a) = i =>
        LET offset == Image!FileOffset(image, a)
        IN  /\ offset = Memory(i, a)
            /\ offset # 0 => image.dataPages <= offset /\ offset < image.size
  BY <1>4, Zenon
<1> QED
  BY <1>1, <1>3, <1>7, <1>8, <1>9, Zenon DEF ImageIsTheFile

\* Changing an element of a sequence leaves a sequence, wherever it is.
LEMMA ElementEdited ==
  ASSUME NEW S, NEW s \in Seq(S), NEW i, NEW e \in S
  PROVE  [s EXCEPT ![i] = e] \in Seq(S)
<1> DEFINE t == [s EXCEPT ![i] = e]
<1>1. t \in [1..Len(s) -> S]
  <2>1. s \in [1..Len(s) -> S]
    OBVIOUS
  <2> QED
    BY <2>1
<1> HIDE DEF t
<1> QED
  BY <1>1, IsSequence DEF t

\* The image TLC starts from, and what its edits leave of it.
LEMMA ImageDocsFit ==
  ASSUME NEW d \in ImageDocs
  PROVE  d \in ImageRecord
<1> DEFINE code == [size |-> 8, base |-> 16, executable |-> TRUE, invalid |-> FALSE, firstPage |-> 1, pages |-> 2]
           data == [size |-> 5, base |-> 32, executable |-> FALSE, invalid |-> FALSE, firstPage |-> 3, pages |-> 1]
           Entries == [number : Nat, legal : BOOLEAN]
<1>1. code \in ObjectRecord /\ data \in ObjectRecord
  BY DEF ObjectRecord
<1>2. <<code, data>> \in Seq(ObjectRecord)
  <2> HIDE DEF code, data
  <2> QED
    BY <1>1
<1>3. \A n \in Nat : Entry(n) \in Entries
  BY DEF Entry
<1>4. ASSUME NEW p1 \in Nat, NEW p2 \in Nat, NEW p3 \in Nat
      PROVE  ImageOf(p1, p2, p3) \in ImageRecord
  <2>1. <<Entry(p1), Entry(p2), Entry(p3), Entry(0)>> \in Seq(Entries)
    <3>1. Entry(p1) \in Entries /\ Entry(p2) \in Entries /\ Entry(p3) \in Entries /\ Entry(0) \in Entries
      BY <1>3
    <3> HIDE DEF Entries
    <3> QED
      BY <3>1
  <2> DEFINE map == <<Entry(p1), Entry(p2), Entry(p3), Entry(0)>>
             table == <<code, data>>
  <2> HIDE DEF map, table
  <2>2. ImageOf(p1, p2, p3) =
          [size |-> 296, mz |-> TRUE, lfanew |-> 64, magic |-> "LE", littleEndian |-> TRUE,
           level |-> 0, cpuKnown |-> TRUE, pageSize |-> 4, pages |-> 3, lastPageSize |-> 2,
           start |-> 1, eip |-> 1, objectTable |-> 160, pageMapAt |-> 208, dataPages |-> 284,
           autodata |-> 2, debugAt |-> 0, debugSize |-> 0,
           objects |-> table, pageMap |-> map]
    BY Zenon DEF ImageOf, table, map
  <2>3. table \in Seq(ObjectRecord) /\ map \in Seq([number : Nat, legal : BOOLEAN])
    BY <1>2, <2>1 DEF table, map
  <2> QED
    BY <2>2, <2>3 DEF ImageRecord
<1> QED
  BY <1>4 DEF ImageDocs

LEMMA ObjectEdited ==
  ASSUME NEW o \in ObjectRecord, NEW e \in ObjectEdits(o)
  PROVE  e \in ObjectRecord
<1>1. {0, 1, 4, 7, 9, 16} \subseteq Nat /\ {16, 20, 32} \subseteq Nat /\ 0..4 \subseteq Nat /\ 0..3 \subseteq Nat
  OBVIOUS
<1>2. CASE e \in {[o EXCEPT !.size = n] : n \in {0, 1, 4, 7, 9, 16}}
  BY <1>2 DEF ObjectRecord
<1>3. CASE e \in {[o EXCEPT !.base = n] : n \in {16, 20, 32}}
  BY <1>3 DEF ObjectRecord
<1>4. CASE e \in {[o EXCEPT !.firstPage = n] : n \in 0..4}
  BY <1>4 DEF ObjectRecord
<1>5. CASE e \in {[o EXCEPT !.pages = n] : n \in 0..3}
  BY <1>5 DEF ObjectRecord
<1>6. CASE e = [o EXCEPT !.executable = ~@]
  <2>1. (~ o.executable) \in BOOLEAN
    BY DEF ObjectRecord
  <2> DEFINE x == ~ o.executable
  <2>2. e = [o EXCEPT !.executable = x]
    BY <1>6, Zenon
  <2> HIDE DEF x
  <2>3. x \in BOOLEAN
    BY <2>1 DEF x
  <2> QED
    BY <2>2, <2>3 DEF ObjectRecord
<1>7. CASE e = [o EXCEPT !.invalid = TRUE]
  BY <1>7 DEF ObjectRecord
<1> QED
  BY <1>2, <1>3, <1>4, <1>5, <1>6, <1>7, Zenon DEF ObjectEdits

LEMMA ImageEdited ==
  ASSUME NEW d \in ImageRecord, NEW e \in ImageEdits(d)
  PROVE  e \in ImageRecord
<1> DEFINE Entries == {Entry(n) : n \in 0..4} \cup {[number |-> 1, legal |-> FALSE]}
           WithSize == {[d EXCEPT !.size = n] : n \in {200, 283, 293, 294}}
           WithPages == {[d EXCEPT !.pages = n] : n \in {0, 2, 4}}
           WithPageSize == {[d EXCEPT !.pageSize = n] : n \in {0, 2, 3, 8}}
           WithLastPage == {[d EXCEPT !.lastPageSize = n] : n \in {0, 1, 3, 4, 5}}
           WithStart == {[d EXCEPT !.start = n] : n \in {0, 2, 3}}
           WithEip == {[d EXCEPT !.eip = n] : n \in {0, 3, 6, 7, 8}}
           WithData == {[d EXCEPT !.dataPages = n] : n \in {0, 280, 286}}
           WithAutodata == {[d EXCEPT !.autodata = n] : n \in {0, 3}}
           WithDebug == {[d EXCEPT !.debugAt = n, !.debugSize = 2] : n \in {0, 294, 295}}
           Broken == {[d EXCEPT !.mz = FALSE], [d EXCEPT !.magic = "LX"], [d EXCEPT !.lfanew = 0],
                      [d EXCEPT !.littleEndian = FALSE], [d EXCEPT !.level = 1],
                      [d EXCEPT !.cpuKnown = FALSE], [d EXCEPT !.objects = << >>]}
<1>0. e \in PageMapEdits(d) \/ e \in ObjectTableEdits(d) \/ e \in HeaderEdits(d)
  BY DEF ImageEdits
<1>1. e \in HeaderEdits(d) =>
      \/ e \in WithSize \/ e \in WithPages \/ e \in WithPageSize
      \/ e \in WithLastPage \/ e \in WithStart \/ e \in WithEip \/ e \in WithData \/ e \in WithAutodata
      \/ e \in WithDebug \/ e \in Broken
  BY Zenon DEF HeaderEdits
<1>2. CASE e \in PageMapEdits(d)
  <2>1. PICK i \in 1..3 : \E x \in Entries : e = [d EXCEPT !.pageMap[i] = x]
    BY <1>2 DEF PageMapEdits
  <2>2. PICK x \in Entries : e = [d EXCEPT !.pageMap[i] = x]
    BY <2>1
  <2>3. x \in [number : Nat, legal : BOOLEAN]
    <3>1. CASE x \in {Entry(n) : n \in 0..4}
      <4>1. PICK n \in 0..4 : x = Entry(n)
        BY <3>1
      <4> QED
        BY <4>1 DEF Entry
    <3>2. CASE x = [number |-> 1, legal |-> FALSE]
      BY <3>2
    <3> QED
      BY <3>1, <3>2
  <2> DEFINE map == [d.pageMap EXCEPT ![i] = x]
  <2>4. map \in Seq([number : Nat, legal : BOOLEAN])
    <3> DEFINE S == [number : Nat, legal : BOOLEAN]
    <3>1. d.pageMap \in Seq(S) /\ x \in S
      BY <2>3 DEF ImageRecord
    <3> HIDE DEF S
    <3>2. map \in Seq(S)
      BY <3>1, ElementEdited
    <3> QED
      BY <3>2 DEF S
  <2>5. e = [d EXCEPT !.pageMap = map]
    BY <2>2
  <2> HIDE DEF map
  <2> QED
    BY <2>4, <2>5 DEF ImageRecord
<1>3. CASE e \in ObjectTableEdits(d)
  <2>1. PICK i \in DOMAIN d.objects : \E o \in ObjectEdits(d.objects[i]) : e = [d EXCEPT !.objects[i] = o]
    BY <1>3 DEF ObjectTableEdits
  <2>2. PICK o \in ObjectEdits(d.objects[i]) : e = [d EXCEPT !.objects[i] = o]
    BY <2>1
  <2>3. d.objects \in Seq(ObjectRecord)
    BY DEF ImageRecord
  <2>4. o \in ObjectRecord
    <3>1. d.objects[i] \in ObjectRecord
      BY <2>3
    <3> QED
      BY <3>1, ObjectEdited
  <2> DEFINE table == [d.objects EXCEPT ![i] = o]
  <2>5. table \in Seq(ObjectRecord)
    BY <2>3, <2>4, ElementEdited
  <2>6. e = [d EXCEPT !.objects = table]
    BY <2>2
  <2> HIDE DEF table
  <2> QED
    BY <2>5, <2>6 DEF ImageRecord
<1>4. CASE e \in WithSize
  <2>1. PICK n \in Nat : e = [d EXCEPT !.size = n]
    BY <1>4
  <2> QED
    BY <2>1 DEF ImageRecord
<1>5. CASE e \in WithPages
  <2>1. PICK n \in Nat : e = [d EXCEPT !.pages = n]
    BY <1>5
  <2> QED
    BY <2>1 DEF ImageRecord
<1>6. CASE e \in WithPageSize
  <2>1. PICK n \in Nat : e = [d EXCEPT !.pageSize = n]
    BY <1>6
  <2> QED
    BY <2>1 DEF ImageRecord
<1>7. CASE e \in WithLastPage
  <2>1. PICK n \in Nat : e = [d EXCEPT !.lastPageSize = n]
    BY <1>7
  <2> QED
    BY <2>1 DEF ImageRecord
<1>8. CASE e \in WithStart
  <2>1. PICK n \in Nat : e = [d EXCEPT !.start = n]
    BY <1>8
  <2> QED
    BY <2>1 DEF ImageRecord
<1>9. CASE e \in WithEip
  <2>1. PICK n \in Nat : e = [d EXCEPT !.eip = n]
    BY <1>9
  <2> QED
    BY <2>1 DEF ImageRecord
<1>10. CASE e \in WithData
  <2>1. PICK n \in Nat : e = [d EXCEPT !.dataPages = n]
    BY <1>10
  <2> QED
    BY <2>1 DEF ImageRecord
<1>11. CASE e \in WithAutodata
  <2>1. PICK n \in Nat : e = [d EXCEPT !.autodata = n]
    BY <1>11
  <2> QED
    BY <2>1 DEF ImageRecord
<1>12. CASE e \in WithDebug
  <2>1. PICK n \in {0, 294, 295} : e = [d EXCEPT !.debugAt = n, !.debugSize = 2]
    BY <1>12, Zenon
  <2> DEFINE x == [d EXCEPT !.debugAt = n]
  <2>2. n \in Nat
    OBVIOUS
  <2>3. x \in ImageRecord
    BY <2>2 DEF ImageRecord
  <2>4. e = [x EXCEPT !.debugSize = 2]
    BY <2>1
  <2> HIDE DEF x
  <2> QED
    BY <2>3, <2>4 DEF ImageRecord
<1>13. CASE e \in Broken
  <2>1. << >> \in Seq(ObjectRecord)
    OBVIOUS
  <2>2. CASE e = [d EXCEPT !.mz = FALSE]
    BY <2>2 DEF ImageRecord
  <2>3. CASE e = [d EXCEPT !.magic = "LX"]
    BY <2>3 DEF ImageRecord
  <2>4. CASE e = [d EXCEPT !.lfanew = 0]
    BY <2>4 DEF ImageRecord
  <2>5. CASE e = [d EXCEPT !.littleEndian = FALSE]
    BY <2>5 DEF ImageRecord
  <2>6. CASE e = [d EXCEPT !.level = 1]
    BY <2>6 DEF ImageRecord
  <2>7. CASE e = [d EXCEPT !.cpuKnown = FALSE]
    BY <2>7 DEF ImageRecord
  <2>8. CASE e = [d EXCEPT !.objects = << >>]
    BY <2>1, <2>8 DEF ImageRecord
  <2> QED
    BY <1>13, <2>2, <2>3, <2>4, <2>5, <2>6, <2>7, <2>8
<1> HIDE DEF WithSize, WithPages, WithPageSize, WithLastPage, WithStart, WithEip,
             WithData, WithAutodata, WithDebug, Broken
<1> QED
  BY <1>0, <1>1, <1>2, <1>3, <1>4, <1>5, <1>6, <1>7, <1>8, <1>9, <1>10, <1>11, <1>12, <1>13

-----------------------------------------------------------------------------
(* Lists of which some elements are kept.                                   *)

\* The list c holds the elements of the list s at the positions S, in order:
\* its n-th is at the position at[n].
Selects(at, c, s, S, V) ==
  /\ c \in Seq(V)
  /\ at \in [1..Len(c) -> S]
  /\ \A n, m \in 1..Len(c) : n < m => at[n] < at[m]
  /\ \A i \in S : \E n \in 1..Len(c) : at[n] = i
  /\ \A n \in 1..Len(c) : c[n] = s[at[n]]

LEMMA SelectsMore ==
  ASSUME NEW V, NEW s \in Seq(V), NEW i \in Nat, i + 1 \in 1..Len(s), NEW S \in SUBSET (1..i),
         NEW c, NEW at, Selects(at, c, s, S, V)
  PROVE  \E more : Selects(more, Append(c, s[i + 1]), s, S \cup {i + 1}, V)
<1> DEFINE L == Len(c)
           d == Append(c, s[i + 1])
           more == [n \in 1..(L + 1) |-> IF n = L + 1 THEN i + 1 ELSE at[n]]
           T == S \cup {i + 1}
<1>1. /\ c \in Seq(V) /\ at \in [1..L -> S] /\ \A n, m \in 1..L : n < m => at[n] < at[m]
      /\ \A k \in S : \E n \in 1..L : at[n] = k
      /\ \A n \in 1..L : c[n] = s[at[n]]
  BY Zenon DEF Selects
<1>2. L \in Nat /\ s[i + 1] \in V
  BY <1>1
<1>3. d \in Seq(V) /\ Len(d) = L + 1 /\ d[L + 1] = s[i + 1] /\ \A n \in 1..L : d[n] = c[n]
  BY <1>1, <1>2
<1> HIDE DEF L, d
<1>4. more \in [1..(L + 1) -> T] /\ more[L + 1] = i + 1 /\ \A n \in 1..L : more[n] = at[n]
  <2>1. L + 1 \in 1..(L + 1) /\ \A n \in 1..(L + 1) : n # L + 1 => n \in 1..L
    BY <1>2
  <2>2. \A n \in 1..L : n \in 1..(L + 1) /\ n # L + 1
    BY <1>2
  <2> QED
    BY <1>1, <2>1, <2>2
<1> HIDE DEF more
<1>5. \A n, m \in 1..(L + 1) : n < m => more[n] < more[m]
  <2> TAKE n, m \in 1..(L + 1)
  <2> SUFFICES ASSUME n < m PROVE more[n] < more[m]
    OBVIOUS
  <2>1. n \in 1..L
    BY <1>2
  <2>2. more[n] = at[n] /\ at[n] \in 1..i
    BY <1>1, <1>4, <2>1
  <2>3. CASE m = L + 1
    BY <1>4, <2>2, <2>3
  <2>4. CASE m # L + 1
    <3>1. m \in 1..L
      BY <1>2, <2>4
    <3> QED
      BY <1>1, <1>4, <2>1, <2>2, <3>1
  <2> QED
    BY <2>3, <2>4
<1>6. \A k \in T : \E n \in 1..(L + 1) : more[n] = k
  <2> TAKE k \in T
  <2>1. CASE k \in S
    <3>1. PICK n \in 1..L : at[n] = k
      BY <1>1, <2>1
    <3>2. n \in 1..(L + 1) /\ more[n] = k
      BY <1>2, <1>4, <3>1
    <3> QED
      BY <3>2
  <2>2. CASE k = i + 1
    <3>1. L + 1 \in 1..(L + 1)
      BY <1>2
    <3> QED
      BY <1>4, <2>2, <3>1
  <2> QED
    BY <2>1, <2>2
<1>7. \A n \in 1..(L + 1) : d[n] = s[more[n]]
  <2> TAKE n \in 1..(L + 1)
  <2>1. CASE n = L + 1
    BY <1>3, <1>4, <2>1
  <2>2. CASE n # L + 1
    <3>1. n \in 1..L
      BY <1>2, <2>2
    <3> QED
      BY <1>1, <1>3, <1>4, <3>1
  <2> QED
    BY <2>1, <2>2
<1>8. Selects(more, d, s, T, V)
  BY <1>3, <1>4, <1>5, <1>6, <1>7 DEF Selects
<1> QED
  BY <1>8 DEF d

\* Chosen returns the elements at the chosen positions, in order.
LEMMA ChosenIs ==
  ASSUME NEW V, NEW s \in Seq(V), NEW S \in SUBSET (1..Len(s))
  PROVE  \E at : Selects(at, Chosen(s, S), s, S, V)
<1> DEFINE n0 == Len(s)
           Turned(h, i) == IF i \in S THEN Append(h[i - 1], s[i]) ELSE h[i - 1]
           Flat(h) == h = [i \in 0..n0 |-> IF i = 0 THEN << >> ELSE Turned(h, i)]
           G == CHOOSE h : Flat(h)
<1>1. Chosen(s, S) = G[n0]
  BY Zenon DEF Chosen
<1>2. n0 \in Nat /\ \A i \in 1..n0 : s[i] \in V
  OBVIOUS
<1>3. S \in SUBSET (1..n0)
  OBVIOUS
<1> HIDE DEF n0
<1>4. Flat(G)
  <2> DEFINE W == Seq(V)
             e == << >>
             Turn == [p \in Nat \X W |-> IF p[1] \in S THEN Append(p[2], s[p[1]]) ELSE p[2]]
  <2>1. Turn \in [Nat \X W -> W] /\ e \in W
    BY <1>2, <1>3
  <2>2. \A n \in Nat, w \in W : Turn[<<n, w>>] = IF n \in S THEN Append(w, s[n]) ELSE w
    <3> HIDE DEF W
    <3> QED
      OBVIOUS
  <2> HIDE DEF Turn, W, e
  <2>3. PICK f : IsTable(f, W, e, Turn, n0)
    BY <1>2, <2>1, Iteration
  <2>4. f \in [0..n0 -> W] /\ f[0] = << >> /\ \A n \in 1..n0 : f[n] = Turn[<<n, f[n - 1]>>]
    BY <2>3, Zenon DEF IsTable, e
  <2>5. \A i \in 0..n0 : f[i] = IF i = 0 THEN << >> ELSE Turned(f, i)
    <3> TAKE i \in 0..n0
    <3>1. CASE i = 0
      BY <2>4, <3>1, Zenon
    <3>2. CASE i # 0
      <4>1. i \in 1..n0 /\ i - 1 \in 0..n0 /\ i \in Nat
        BY <1>2, <3>2
      <4>2. f[i - 1] \in W
        BY <2>4, <4>1
      <4>3. f[i] = IF i \in S THEN Append(f[i - 1], s[i]) ELSE f[i - 1]
        BY <2>2, <2>4, <4>1, <4>2
      <4> QED
        BY <3>2, <4>3, Zenon
    <3> QED
      BY <3>1, <3>2
  <2>6. Flat(f)
    <3> HIDE DEF Turned
    <3>1. f = [i \in 0..n0 |-> f[i]]
      BY <2>4
    <3> QED
      BY <2>5, <3>1
  <2> HIDE DEF Flat
  <2> QED
    BY <2>6, Zenon
<1> HIDE DEF G
<1>5. G[0] = << >> /\ \A i \in 1..n0 : G[i] = IF i \in S THEN Append(G[i - 1], s[i]) ELSE G[i - 1]
  <2>1. 0 \in 0..n0 /\ \A i \in 1..n0 : i \in 0..n0 /\ i # 0
    BY <1>2
  <2> QED
    BY <1>4, <2>1
<1> DEFINE Up(i) == S \cap (1..i)
           Good(i) == \E at : Selects(at, G[i], s, Up(i), V)
           K == {i \in Nat : i \in 0..n0 => Good(i)}
<1>6. 0 \in K
  <2>1. Up(0) = {} /\ G[0] = << >>
    BY <1>5
  <2>2. Selects(<< >>, << >>, s, {}, V)
    BY DEF Selects
  <2> QED
    BY <2>1, <2>2
<1>7. ASSUME NEW i \in Nat, i \in K PROVE i + 1 \in K
  <2> SUFFICES ASSUME i + 1 \in 0..n0 PROVE Good(i + 1)
    <3> HIDE DEF Good
    <3> QED
      OBVIOUS
  <2>1. i \in 0..n0 /\ i + 1 \in 1..n0 /\ (i + 1) - 1 = i
    BY <1>2
  <2>2. Good(i)
    <3> HIDE DEF Good
    <3> QED
      BY <1>7, <2>1
  <2>3. PICK at : Selects(at, G[i], s, Up(i), V)
    BY <2>2
  <2>4. CASE i + 1 \in S
    <3>1. Up(i + 1) = Up(i) \cup {i + 1} /\ Up(i) \in SUBSET (1..i)
      BY <2>4
    <3>2. G[i + 1] = Append(G[i], s[i + 1])
      BY <1>5, <2>1, <2>4
    <3>3. i + 1 \in 1..Len(s)
      BY <2>1 DEF n0
    <3> HIDE DEF Up
    <3>4. \E more : Selects(more, Append(G[i], s[i + 1]), s, Up(i) \cup {i + 1}, V)
      BY <2>3, <3>1, <3>3, SelectsMore
    <3> QED
      BY <3>1, <3>2, <3>4
  <2>5. CASE i + 1 \notin S
    <3>1. Up(i + 1) = Up(i)
      <4>1. 1..(i + 1) = 1..i \cup {i + 1}
        OBVIOUS
      <4> QED
        BY <2>5, <4>1
    <3>2. G[i + 1] = G[i]
      BY <1>5, <2>1, <2>5
    <3> HIDE DEF Up
    <3> QED
      BY <2>3, <3>1, <3>2
  <2> QED
    BY <2>4, <2>5
<1> HIDE DEF K
<1>8. \A i \in Nat : i \in K
  BY <1>6, <1>7, Induction
<1>9. Good(n0)
  <2>1. n0 \in K /\ n0 \in 0..n0
    BY <1>2, <1>8
  <2> HIDE DEF Good
  <2> QED
    BY <2>1 DEF K
<1>10. Up(n0) = S
  BY <1>3
<1> QED
  BY <1>1, <1>9, <1>10

\* A list without repetitions, and its elements.
IsList(s, V) == s \in Seq(V) /\ \A n, m \in 1..Len(s) : s[n] = s[m] => n = m
Elements(s) == {s[n] : n \in 1..Len(s)}

\* A group holds the functions of one signature, once.
LEMMA GroupIs ==
  ASSUME NEW V, NEW fs, IsList(fs, V), NEW key, NEW signature
  PROVE  /\ IsList(Diff!Group(fs, key, signature), V)
         /\ \A f : f \in Elements(Diff!Group(fs, key, signature)) <=> f \in Elements(fs) /\ f[key] = signature
<1> DEFINE g == Diff!Group(fs, key, signature)
           S == {i \in 1..Len(fs) : fs[i][key] = signature}
<1>1. fs \in Seq(V) /\ \A n, m \in 1..Len(fs) : fs[n] = fs[m] => n = m
  BY Zenon DEF IsList
<1>2. g = Chosen(fs, S)
  BY Zenon DEF Diff!Group, Diff!Chosen, Chosen
<1>3. S \in SUBSET (1..Len(fs))
  OBVIOUS
<1> HIDE DEF g
<1>4. PICK at : Selects(at, g, fs, S, V)
  <2> HIDE DEF S
  <2> QED
    BY <1>1, <1>2, <1>3, ChosenIs
<1>5. /\ g \in Seq(V) /\ at \in [1..Len(g) -> S]
      /\ \A n, m \in 1..Len(g) : n < m => at[n] < at[m]
      /\ \A i \in S : \E n \in 1..Len(g) : at[n] = i
      /\ \A n \in 1..Len(g) : g[n] = fs[at[n]]
  BY <1>4, Zenon DEF Selects
<1>6. Len(g) \in Nat /\ Len(fs) \in Nat
  BY <1>1, <1>5
<1>7. \A n, m \in 1..Len(g) : g[n] = g[m] => n = m
  <2> SUFFICES ASSUME NEW n \in 1..Len(g), NEW m \in 1..Len(g), g[n] = g[m], n # m PROVE FALSE
    OBVIOUS
  <2>1. at[n] \in 1..Len(fs) /\ at[m] \in 1..Len(fs)
    BY <1>5
  <2>2. at[n] = at[m]
    BY <1>1, <1>5, <2>1
  <2>3. n < m \/ m < n
    BY <1>6
  <2>4. at[n] < at[m] \/ at[m] < at[n]
    BY <1>5, <2>3
  <2> QED
    BY <1>6, <2>1, <2>2, <2>4
<1>8. ASSUME NEW f PROVE f \in Elements(g) <=> f \in Elements(fs) /\ f[key] = signature
  <2>1. ASSUME f \in Elements(g) PROVE f \in Elements(fs) /\ f[key] = signature
    <3>1. PICK n \in 1..Len(g) : f = g[n]
      BY <2>1 DEF Elements
    <3>2. at[n] \in S /\ f = fs[at[n]]
      BY <1>5, <3>1
    <3> QED
      BY <3>2 DEF Elements
  <2>2. ASSUME f \in Elements(fs), f[key] = signature PROVE f \in Elements(g)
    <3>1. PICK i \in 1..Len(fs) : f = fs[i]
      BY <2>2 DEF Elements
    <3>2. i \in S
      BY <2>2, <3>1
    <3>3. PICK n \in 1..Len(g) : at[n] = i
      BY <1>5, <3>2
    <3>4. f = g[n]
      BY <1>5, <3>1, <3>3
    <3> QED
      BY <3>4 DEF Elements
  <2> QED
    BY <2>1, <2>2
<1> QED
  BY <1>5, <1>7, <1>8 DEF IsList, g

\* The signatures are those of the functions, each once.
LEMMA SignaturesAre ==
  ASSUME NEW V, NEW fs \in Seq(V), NEW key
  PROVE  \E U : /\ IsList(Diff!Signatures(fs, key), U)
                /\ \A x : x \in Elements(Diff!Signatures(fs, key)) <=> \E f \in Elements(fs) : x = f[key]
<1> DEFINE order == Diff!Signatures(fs, key)
           S == {i \in 1..Len(fs) : \A j \in 1..(i - 1) : fs[j][key] # fs[i][key]}
           keys == [i \in 1..Len(fs) |-> fs[i][key]]
           U == {fs[i][key] : i \in 1..Len(fs)}
<1>1. order = Chosen(keys, S)
  BY Zenon DEF Diff!Signatures, Diff!Chosen, Chosen
<1>2. Len(fs) \in Nat
  OBVIOUS
<1>3. keys \in Seq(U) /\ Len(keys) = Len(fs) /\ \A i \in 1..Len(fs) : keys[i] = fs[i][key]
  <2>1. keys \in [1..Len(fs) -> U] /\ \A i \in 1..Len(fs) : keys[i] = fs[i][key]
    OBVIOUS
  <2> HIDE DEF keys, U
  <2> QED
    BY <1>2, <2>1, IsSequence
<1>4. S \in SUBSET (1..Len(keys))
  BY <1>3
<1> HIDE DEF order, U, keys
<1>5. PICK at : Selects(at, order, keys, S, U)
  <2> HIDE DEF S
  <2> QED
    BY <1>1, <1>3, <1>4, ChosenIs
<1>6. /\ order \in Seq(U) /\ at \in [1..Len(order) -> S]
      /\ \A n, m \in 1..Len(order) : n < m => at[n] < at[m]
      /\ \A i \in S : \E n \in 1..Len(order) : at[n] = i
      /\ \A n \in 1..Len(order) : order[n] = keys[at[n]]
  BY <1>5, Zenon DEF Selects
<1>7. ASSUME NEW n \in 1..Len(order), NEW m \in 1..Len(order), n < m PROVE order[n] # order[m]
  <2>1. at[n] \in S /\ at[m] \in S /\ at[n] < at[m]
    BY <1>6, <1>7
  <2>2. at[n] \in 1..(at[m] - 1) /\ at[n] \in 1..Len(fs) /\ at[m] \in 1..Len(fs)
    BY <2>1
  <2>3. fs[at[n]][key] # fs[at[m]][key]
    BY <2>1, <2>2
  <2> QED
    BY <1>3, <1>6, <2>2, <2>3
<1>8. \A n, m \in 1..Len(order) : order[n] = order[m] => n = m
  <2> SUFFICES ASSUME NEW n \in 1..Len(order), NEW m \in 1..Len(order), order[n] = order[m], n # m
               PROVE  FALSE
    OBVIOUS
  <2>1. n < m \/ m < n
    BY <1>6
  <2> QED
    BY <1>7, <2>1
<1>9. ASSUME NEW x PROVE x \in Elements(order) <=> \E f \in Elements(fs) : x = f[key]
  <2>1. ASSUME x \in Elements(order) PROVE \E f \in Elements(fs) : x = f[key]
    <3>1. PICK n \in 1..Len(order) : x = order[n]
      BY <2>1 DEF Elements
    <3>2. at[n] \in 1..Len(fs) /\ x = fs[at[n]][key]
      BY <1>3, <1>6, <3>1
    <3> QED
      BY <3>2 DEF Elements
  <2>2. ASSUME NEW f \in Elements(fs), x = f[key] PROVE x \in Elements(order)
    <3> DEFINE T == {j \in 1..Len(fs) : fs[j][key] = x}
    <3>1. PICK i \in 1..Len(fs) : f = fs[i]
      BY DEF Elements
    <3>2. T \in SUBSET Nat /\ T # {}
      BY <2>2, <3>1
    <3>3. PICK j \in T : \A y \in T : j <= y
      BY <3>2, Least
    <3>4. j \in S
      <4>1. ASSUME NEW k \in 1..(j - 1), fs[k][key] = fs[j][key] PROVE FALSE
        <5>1. k \in T /\ k < j
          BY <1>2, <4>1
        <5> QED
          BY <3>3, <5>1
      <4> QED
        BY <4>1
    <3>5. PICK n \in 1..Len(order) : at[n] = j
      BY <1>6, <3>4
    <3>6. order[n] = x
      BY <1>3, <1>6, <3>5
    <3> QED
      BY <3>6 DEF Elements
  <2> QED
    BY <2>1, <2>2
<1> QED
  BY <1>6, <1>8, <1>9 DEF IsList, order

\* Lists without a common element, end to end.
LEMMA FlattenLists ==
  ASSUME NEW V, NEW seqs \in Seq(Seq(V)),
         \A n \in 1..Len(seqs) : IsList(seqs[n], V),
         \A n, m \in 1..Len(seqs) : n # m => Elements(seqs[n]) \cap Elements(seqs[m]) = {}
  PROVE  /\ IsList(Image!FlattenSeq(seqs), V)
         /\ \A x : x \in Elements(Image!FlattenSeq(seqs)) <=> \E n \in 1..Len(seqs) : x \in Elements(seqs[n])
<1> DEFINE L == Len(seqs)
<1>0. L \in Nat /\ \A i \in 1..L : seqs[i] \in Seq(V)
  OBVIOUS
<1>1. PICK g \in [0..L -> Seq(V)] :
        /\ g[0] = << >>
        /\ \A i \in 1..L : g[i] = g[i - 1] \o seqs[i]
        /\ Image!FlattenSeq(seqs) = g[L]
  BY FlattenTable
<1> DEFINE Good(i) == /\ IsList(g[i], V)
                      /\ \A x : x \in Elements(g[i]) <=> \E n \in 1..i : x \in Elements(seqs[n])
           S == {i \in Nat : i \in 0..L => Good(i)}
<1> HIDE DEF L
<1>2. 0 \in S
  <2>1. IsList(<< >>, V) /\ Elements(<< >>) = {} /\ 1..0 = {}
    BY DEF IsList, Elements
  <2> QED
    BY <1>1, <2>1
<1>3. ASSUME NEW i \in Nat, i \in S PROVE i + 1 \in S
  <2> SUFFICES ASSUME i + 1 \in 0..L PROVE Good(i + 1)
    <3> HIDE DEF Good
    <3> QED
      OBVIOUS
  <2>1. i \in 0..L /\ i + 1 \in 1..L /\ (i + 1) - 1 = i
    BY <1>0
  <2>2. Good(i)
    <3> HIDE DEF Good
    <3> QED
      BY <1>3, <2>1
  <2> DEFINE a == g[i]
             b == seqs[i + 1]
             c == g[i + 1]
  <2>3. c = a \o b
    BY <1>1, <2>1
  <2>4. a \in Seq(V) /\ b \in Seq(V)
    BY <1>0, <1>1, <2>1
  <2>5. IsList(a, V) /\ IsList(b, V)
    BY <2>1, <2>2 DEF L
  <2>6. Elements(a) \cap Elements(b) = {}
    <3> SUFFICES ASSUME NEW x, x \in Elements(a), x \in Elements(b) PROVE FALSE
      OBVIOUS
    <3>1. PICK n \in 1..i : x \in Elements(seqs[n])
      BY <2>2
    <3>2. n \in 1..L /\ n # i + 1
      BY <1>0, <2>1
    <3> QED
      BY <2>1, <3>1, <3>2 DEF L
  <2> HIDE DEF a, b, c
  <2>7. /\ c \in Seq(V) /\ Len(c) = Len(a) + Len(b)
        /\ \A n \in 1..Len(a) : c[n] = a[n]
        /\ \A n \in 1..Len(b) : c[Len(a) + n] = b[n]
    BY <2>3, <2>4, Joined
  <2>8. Len(a) \in Nat /\ Len(b) \in Nat
    BY <2>4
  <2>9. \A n \in 1..Len(c) : n \in 1..Len(a) \/ (n \notin 1..Len(a) /\ n - Len(a) \in 1..Len(b) /\ n = Len(a) + (n - Len(a)))
    BY <2>7, <2>8
  <2>10. Elements(c) = Elements(a) \cup Elements(b)
    <3>1. ASSUME NEW x \in Elements(c) PROVE x \in Elements(a) \cup Elements(b)
      <4>1. PICK n \in 1..Len(c) : x = c[n]
        BY DEF Elements
      <4>2. CASE n \in 1..Len(a)
        BY <2>7, <4>1, <4>2 DEF Elements
      <4>3. CASE n \notin 1..Len(a)
        <5>1. n - Len(a) \in 1..Len(b) /\ c[n] = b[n - Len(a)]
          BY <2>7, <2>9, <4>3
        <5> QED
          BY <4>1, <5>1 DEF Elements
      <4> QED
        BY <4>2, <4>3
    <3>2. ASSUME NEW x \in Elements(a) PROVE x \in Elements(c)
      <4>1. PICK n \in 1..Len(a) : x = a[n]
        BY DEF Elements
      <4>2. n \in 1..Len(c) /\ x = c[n]
        BY <2>7, <2>8, <4>1
      <4> QED
        BY <4>2 DEF Elements
    <3>3. ASSUME NEW x \in Elements(b) PROVE x \in Elements(c)
      <4>1. PICK n \in 1..Len(b) : x = b[n]
        BY DEF Elements
      <4>2. Len(a) + n \in 1..Len(c) /\ x = c[Len(a) + n]
        BY <2>7, <2>8, <4>1
      <4> QED
        BY <4>2 DEF Elements
    <3> QED
      BY <3>1, <3>2, <3>3
  <2>11. ASSUME NEW n \in 1..Len(c), NEW m \in 1..Len(c), c[n] = c[m] PROVE n = m
    <3>1. CASE n \in 1..Len(a) /\ m \in 1..Len(a)
      BY <2>5, <2>7, <2>11, <3>1 DEF IsList
    <3>2. CASE n \notin 1..Len(a) /\ m \notin 1..Len(a)
      <4>1. n - Len(a) \in 1..Len(b) /\ m - Len(a) \in 1..Len(b) /\ b[n - Len(a)] = b[m - Len(a)]
        BY <2>7, <2>9, <2>11, <3>2
      <4>2. n - Len(a) = m - Len(a)
        BY <2>5, <4>1 DEF IsList
      <4> QED
        BY <2>8, <4>2
    <3>3. CASE n \in 1..Len(a) /\ m \notin 1..Len(a)
      <4>1. c[n] \in Elements(a) /\ c[m] \in Elements(b)
        BY <2>7, <2>9, <3>3 DEF Elements
      <4> QED
        BY <2>6, <2>11, <4>1
    <3>4. CASE n \notin 1..Len(a) /\ m \in 1..Len(a)
      <4>1. c[m] \in Elements(a) /\ c[n] \in Elements(b)
        BY <2>7, <2>9, <3>4 DEF Elements
      <4> QED
        BY <2>6, <2>11, <4>1
    <3> QED
      BY <3>1, <3>2, <3>3, <3>4
  <2>12. \A x : x \in Elements(c) <=> \E n \in 1..(i + 1) : x \in Elements(seqs[n])
    <3>1. \A x : x \in Elements(a) <=> \E n \in 1..i : x \in Elements(seqs[n])
      BY <2>2 DEF a
    <3>2. 1..(i + 1) = 1..i \cup {i + 1}
      OBVIOUS
    <3> QED
      BY <2>10, <3>1, <3>2 DEF b
  <2> QED
    BY <2>7, <2>11, <2>12 DEF IsList, c
<1> HIDE DEF S
<1>4. \A i \in Nat : i \in S
  BY <1>2, <1>3, Induction
<1>5. Good(L)
  <2>1. L \in S /\ L \in 0..L
    BY <1>0, <1>4
  <2> HIDE DEF Good
  <2> QED
    BY <2>1 DEF S
<1> QED
  BY <1>1, <1>5 DEF L

\* What is left of a list after its first k elements.
LEMMA RestOfList ==
  ASSUME NEW V, NEW items, IsList(items, V), NEW k \in 0..Len(items)
  PROVE  /\ IsList(SubSeq(items, 1 + k, Len(items)), V)
         /\ \A x : x \in Elements(SubSeq(items, 1 + k, Len(items))) <=>
              \E n \in 1..Len(items) : n > k /\ x = items[n]
<1> DEFINE t == SubSeq(items, 1 + k, Len(items))
           L == Len(items)
<1>1. items \in Seq(V) /\ L \in Nat /\ \A n, m \in 1..L : items[n] = items[m] => n = m
  BY DEF IsList
<1>2. t \in Seq(V) /\ Len(t) = L - k /\ \A n \in 1..(L - k) : t[n] = items[n + k]
  <2>1. \A n \in 1..L : items[n] \in V
    BY <1>1
  <2> DEFINE m == 1 + k
  <2>2. /\ m \in Int /\ L \in Int /\ \A n \in m..L : items[n] \in V
        /\ (IF m <= L THEN (L - m) + 1 ELSE 0) = L - k /\ (L - m) + 1 = L - k
        /\ \A n \in 1..(L - k) : m + n - 1 = n + k
    BY <1>1, <2>1
  <2>3. t = SubSeq(items, m, L)
    OBVIOUS
  <2> HIDE DEF t, L, m
  <2>4. /\ SubSeq(items, m, L) \in Seq(V)
        /\ Len(SubSeq(items, m, L)) = IF m <= L THEN L - m + 1 ELSE 0
        /\ \A n \in 1..(L - m + 1) : SubSeq(items, m, L)[n] = items[m + n - 1]
    BY <2>2, SubSeqProperties
  <2> QED
    BY <2>2, <2>3, <2>4
<1> HIDE DEF t, L
<1>3. \A n \in 1..(L - k) : n + k \in 1..L /\ n + k > k
  BY <1>1
<1>4. \A n, m \in 1..(L - k) : t[n] = t[m] => n = m
  <2> SUFFICES ASSUME NEW n \in 1..(L - k), NEW m \in 1..(L - k), t[n] = t[m] PROVE n = m
    OBVIOUS
  <2>1. items[n + k] = items[m + k]
    BY <1>2
  <2>2. n + k = m + k
    BY <1>1, <1>3, <2>1
  <2> QED
    BY <1>1, <2>2
<1>5. ASSUME NEW x PROVE x \in Elements(t) <=> \E n \in 1..L : n > k /\ x = items[n]
  <2>1. ASSUME x \in Elements(t) PROVE \E n \in 1..L : n > k /\ x = items[n]
    <3>1. PICK n \in 1..Len(t) : x = t[n]
      BY <2>1 DEF Elements
    <3>2. n \in 1..(L - k)
      BY <1>2
    <3>3. x = items[n + k] /\ n + k \in 1..L /\ n + k > k
      BY <1>2, <1>3, <3>1, <3>2
    <3> QED
      BY <3>3
  <2>2. ASSUME NEW n \in 1..L, n > k, x = items[n] PROVE x \in Elements(t)
    <3>1. n - k \in 1..(L - k) /\ (n - k) + k = n
      BY <1>1, <2>2
    <3>2. t[n - k] = x /\ n - k \in 1..Len(t)
      BY <1>2, <2>2, <3>1
    <3> QED
      BY <3>2 DEF Elements
  <2> QED
    BY <2>1, <2>2
<1> QED
  BY <1>2, <1>4, <1>5 DEF IsList, t, L

LEMMA PairedIs ==
  ASSUME NEW a, NEW b, Len(a) \in Nat, Len(b) \in Nat
  PROVE  Diff!Paired(a, b) = IF Len(a) <= Len(b) THEN Len(a) ELSE Len(b)
<1> DEFINE T == {Len(a), Len(b)}
           m == IF Len(a) <= Len(b) THEN Len(a) ELSE Len(b)
<1>1. m \in T /\ \A y \in T : m <= y
  OBVIOUS
<1>2. ASSUME NEW x \in T, \A y \in T : x <= y PROVE x = m
  BY <1>1, <1>2
<1> HIDE DEF m
<1> QED
  BY <1>1, <1>2, Zenon DEF Diff!Paired, Diff!Min, m

\* A function is left over when its place in its group is beyond the zip.
IsLeft(f, primary, other, key) ==
  \E n \in 1..Len(Diff!Group(primary, key, f[key])) :
    /\ n > Diff!Paired(Diff!Group(primary, key, f[key]), Diff!Group(other, key, f[key]))
    /\ f = Diff!Group(primary, key, f[key])[n]

LEMMA LeftoversAre ==
  ASSUME NEW V, NEW primary, IsList(primary, V), NEW other, IsList(other, V), NEW key
  PROVE  /\ IsList(Diff!Leftovers(primary, other, key), V)
         /\ \A f : f \in Elements(Diff!Leftovers(primary, other, key)) <=>
              f \in Elements(primary) /\ IsLeft(f, primary, other, key)
<1> DEFINE order == Diff!Signatures(primary, key)
           Items(x) == Diff!Group(primary, key, x)
           Zipped(x) == Diff!Paired(Items(x), Diff!Group(other, key, x))
           Rest(x) == SubSeq(Items(x), 1 + Zipped(x), Len(Items(x)))
           seqs == [n \in 1..Len(order) |-> Rest(order[n])]
<1>1. primary \in Seq(V)
  BY DEF IsList
<1>2. PICK U : /\ IsList(order, U)
               /\ \A x : x \in Elements(order) <=> \E f \in Elements(primary) : x = f[key]
  BY <1>1, SignaturesAre
<1>3. Len(order) \in Nat /\ \A n, m \in 1..Len(order) : order[n] = order[m] => n = m
  BY <1>2 DEF IsList
<1>4. ASSUME NEW x
      PROVE  /\ IsList(Items(x), V) /\ Len(Items(x)) \in Nat
             /\ \A f : f \in Elements(Items(x)) <=> f \in Elements(primary) /\ f[key] = x
             /\ Zipped(x) \in 0..Len(Items(x))
  <2>1. IsList(Items(x), V) /\ \A f : f \in Elements(Items(x)) <=> f \in Elements(primary) /\ f[key] = x
    BY GroupIs
  <2>2. IsList(Diff!Group(other, key, x), V)
    BY GroupIs
  <2>3. Len(Items(x)) \in Nat /\ Len(Diff!Group(other, key, x)) \in Nat
    BY <2>1, <2>2 DEF IsList
  <2>4. Zipped(x) = IF Len(Items(x)) <= Len(Diff!Group(other, key, x)) THEN Len(Items(x))
                    ELSE Len(Diff!Group(other, key, x))
    BY <2>3, PairedIs
  <2> HIDE DEF Items, Zipped
  <2> QED
    BY <2>1, <2>3, <2>4
<1>5. ASSUME NEW x
      PROVE  /\ IsList(Rest(x), V)
             /\ \A f : f \in Elements(Rest(x)) <=>
                  \E n \in 1..Len(Items(x)) : n > Zipped(x) /\ f = Items(x)[n]
  <2> HIDE DEF Items, Zipped
  <2> QED
    BY <1>4, RestOfList
<1>6. ASSUME NEW x, NEW f \in Elements(Rest(x)) PROVE f \in Elements(primary) /\ f[key] = x
  <2>1. PICK n \in 1..Len(Items(x)) : f = Items(x)[n]
    BY <1>5
  <2>2. f \in Elements(Items(x))
    BY <2>1 DEF Elements
  <2> QED
    BY <1>4, <2>2
<1> HIDE DEF order
<1>7. seqs \in Seq(Seq(V)) /\ Len(seqs) = Len(order) /\ \A n \in 1..Len(order) : seqs[n] = Rest(order[n])
  <2>1. \A x : Rest(x) \in Seq(V)
    BY <1>5, Zenon DEF IsList
  <2> HIDE DEF Rest
  <2>2. seqs \in [1..Len(order) -> Seq(V)] /\ \A n \in 1..Len(order) : seqs[n] = Rest(order[n])
    BY <2>1
  <2> HIDE DEF seqs
  <2> QED
    BY <1>3, <2>2, IsSequence
<1>8. Diff!Leftovers(primary, other, key) = Image!FlattenSeq(seqs)
  BY Zenon DEF Diff!Leftovers, Diff!FlattenSeq, Image!FlattenSeq, order
<1> HIDE DEF seqs
<1>9. \A n \in 1..Len(seqs) : IsList(seqs[n], V)
  BY <1>5, <1>7
<1>10. \A n, m \in 1..Len(seqs) : n # m => Elements(seqs[n]) \cap Elements(seqs[m]) = {}
  <2> SUFFICES ASSUME NEW n \in 1..Len(seqs), NEW m \in 1..Len(seqs), n # m,
                      NEW f, f \in Elements(seqs[n]), f \in Elements(seqs[m])
               PROVE  FALSE
    OBVIOUS
  <2>1. f \in Elements(Rest(order[n])) /\ f \in Elements(Rest(order[m]))
    BY <1>7
  <2>2. f[key] = order[n] /\ f[key] = order[m]
    BY <1>6, <2>1
  <2> QED
    BY <1>3, <1>7, <2>2
<1>11. /\ IsList(Image!FlattenSeq(seqs), V)
       /\ \A x : x \in Elements(Image!FlattenSeq(seqs)) <=> \E n \in 1..Len(seqs) : x \in Elements(seqs[n])
  BY <1>7, <1>9, <1>10, FlattenLists
<1>12. ASSUME NEW f
       PROVE  (\E n \in 1..Len(seqs) : f \in Elements(seqs[n]))
                <=> f \in Elements(primary) /\ IsLeft(f, primary, other, key)
  <2>1. IsLeft(f, primary, other, key) <=> f \in Elements(Rest(f[key]))
    BY <1>5, Zenon DEF IsLeft
  <2> HIDE DEF Rest
  <2>2. ASSUME NEW n \in 1..Len(seqs), f \in Elements(seqs[n])
        PROVE  f \in Elements(primary) /\ f \in Elements(Rest(f[key]))
    <3>1. f \in Elements(Rest(order[n]))
      BY <1>7, <2>2
    <3>2. f \in Elements(primary) /\ f[key] = order[n]
      BY <1>6, <3>1
    <3> QED
      BY <3>1, <3>2
  <2>3. ASSUME f \in Elements(primary), f \in Elements(Rest(f[key]))
        PROVE  \E n \in 1..Len(seqs) : f \in Elements(seqs[n])
    <3>1. f[key] \in Elements(order)
      BY <1>2, <2>3
    <3>2. PICK n \in 1..Len(order) : order[n] = f[key]
      BY <3>1 DEF Elements
    <3> QED
      BY <1>7, <2>3, <3>2
  <2> QED
    BY <2>1, <2>2, <2>3, Zenon
<1> QED
  BY <1>8, <1>11, <1>12, Zenon

\* One pass over two lists: the pairs P and what is left of each list.
IsPass(P, l, r, ll, rr, key, V) ==
  /\ IsList(ll, V) /\ IsList(rr, V)
  /\ \A p \in P : p = <<p[1], p[2]>> /\ p[1] \in Elements(l) /\ p[2] \in Elements(r) /\ p[1][key] = p[2][key]
  /\ \A p, q \in P : p[1] = q[1] \/ p[2] = q[2] => p = q
  /\ \A f : f \in Elements(ll) <=> f \in Elements(l) /\ \A p \in P : p[1] # f
  /\ \A f : f \in Elements(rr) <=> f \in Elements(r) /\ \A p \in P : p[2] # f
  /\ \A f \in Elements(ll), g \in Elements(rr) : f[key] # g[key]

LEMMA ToSetIsElements ==
  ASSUME NEW V, NEW s \in Seq(V)
  PROVE  Diff!ToSet(s) = Elements(s)
BY DEF Diff!ToSet, Elements

\* The pairs of a pass: the zip of two groups.
LEMMA PairsAreZipped ==
  ASSUME NEW V, NEW l, IsList(l, V), NEW r, IsList(r, V), NEW key
  PROVE  \A p : p \in Diff!Pairs(l, r, key) <=>
           \E x : \E n \in 1..Diff!Paired(Diff!Group(l, key, x), Diff!Group(r, key, x)) :
             p = <<Diff!Group(l, key, x)[n], Diff!Group(r, key, x)[n]>>
<1> DEFINE A(x) == Diff!Group(l, key, x)
           B(x) == Diff!Group(r, key, x)
           Z(x) == Diff!Paired(A(x), B(x))
           Zip(x) == {<<A(x)[n], B(x)[n]>> : n \in 1..Z(x)}
           keys == {f[key] : f \in Diff!ToSet(l)}
<1>1. Diff!Pairs(l, r, key) = UNION {Zip(x) : x \in keys}
  BY Zenon DEF Diff!Pairs
<1>2. ASSUME NEW x, NEW n \in 1..Z(x) PROVE x \in keys
  <2>1. IsList(A(x), V) /\ IsList(B(x), V) /\ \A f : f \in Elements(A(x)) <=> f \in Elements(l) /\ f[key] = x
    BY GroupIs
  <2>2. Len(A(x)) \in Nat /\ Len(B(x)) \in Nat
    BY <2>1 DEF IsList
  <2>3. Z(x) = IF Len(A(x)) <= Len(B(x)) THEN Len(A(x)) ELSE Len(B(x))
    BY <2>2, PairedIs
  <2>4. n \in 1..Len(A(x))
    <3> HIDE DEF A, B, Z
    <3> QED
      BY <2>2, <2>3
  <2>5. A(x)[n] \in Elements(A(x))
    BY <2>4 DEF Elements
  <2>6. A(x)[n] \in Elements(l) /\ A(x)[n][key] = x
    BY <2>1, <2>5
  <2>7. Diff!ToSet(l) = Elements(l)
    BY ToSetIsElements DEF IsList
  <2> HIDE DEF A
  <2> QED
    BY <2>6, <2>7
<1> HIDE DEF A, B, Z, keys
<1>3. ASSUME NEW p PROVE p \in Diff!Pairs(l, r, key) <=> \E x : \E n \in 1..Z(x) : p = <<A(x)[n], B(x)[n]>>
  <2>1. p \in Diff!Pairs(l, r, key) <=> \E x \in keys : \E n \in 1..Z(x) : p = <<A(x)[n], B(x)[n]>>
    BY <1>1
  <2> QED
    BY <1>2, <2>1
<1> QED
  BY <1>3, Zenon DEF A, B, Z

LEMMA PassIs ==
  ASSUME NEW V, NEW l, IsList(l, V), NEW r, IsList(r, V), NEW key
  PROVE  IsPass(Diff!Pairs(l, r, key), l, r, Diff!Leftovers(l, r, key), Diff!Leftovers(r, l, key), key, V)
<1> DEFINE A(x) == Diff!Group(l, key, x)
           B(x) == Diff!Group(r, key, x)
           Z(x) == Diff!Paired(A(x), B(x))
           P == Diff!Pairs(l, r, key)
           ll == Diff!Leftovers(l, r, key)
           rr == Diff!Leftovers(r, l, key)
<1>1. \A p : p \in P <=> \E x : \E n \in 1..Z(x) : p = <<A(x)[n], B(x)[n]>>
  BY PairsAreZipped
<1>2. ASSUME NEW x
      PROVE  /\ IsList(A(x), V) /\ Len(A(x)) \in Nat
             /\ \A f : f \in Elements(A(x)) <=> f \in Elements(l) /\ f[key] = x
             /\ IsList(B(x), V) /\ Len(B(x)) \in Nat
             /\ \A f : f \in Elements(B(x)) <=> f \in Elements(r) /\ f[key] = x
             /\ Z(x) = (IF Len(A(x)) <= Len(B(x)) THEN Len(A(x)) ELSE Len(B(x)))
             /\ Diff!Paired(B(x), A(x)) = Z(x)
  <2>1. /\ IsList(A(x), V) /\ \A f : f \in Elements(A(x)) <=> f \in Elements(l) /\ f[key] = x
    BY GroupIs
  <2>2. /\ IsList(B(x), V) /\ \A f : f \in Elements(B(x)) <=> f \in Elements(r) /\ f[key] = x
    BY GroupIs
  <2>3. Len(A(x)) \in Nat /\ Len(B(x)) \in Nat
    BY <2>1, <2>2 DEF IsList
  <2>4. Z(x) = IF Len(A(x)) <= Len(B(x)) THEN Len(A(x)) ELSE Len(B(x))
    BY <2>3, PairedIs
  <2>5. Diff!Paired(B(x), A(x)) = IF Len(B(x)) <= Len(A(x)) THEN Len(B(x)) ELSE Len(A(x))
    BY <2>3, PairedIs
  <2>6. Diff!Paired(B(x), A(x)) = Z(x)
    <3> HIDE DEF A, B, Z
    <3> QED
      BY <2>3, <2>4, <2>5
  <2> QED
    BY <2>1, <2>2, <2>3, <2>4, <2>6
<1>3. /\ IsList(ll, V) /\ IsList(rr, V)
      /\ \A f : f \in Elements(ll) <=> f \in Elements(l) /\ IsLeft(f, l, r, key)
      /\ \A f : f \in Elements(rr) <=> f \in Elements(r) /\ IsLeft(f, r, l, key)
  BY LeftoversAre
<1>4. /\ \A f : IsLeft(f, l, r, key) <=> \E n \in 1..Len(A(f[key])) : n > Z(f[key]) /\ f = A(f[key])[n]
      /\ \A f : IsLeft(f, r, l, key) <=> \E n \in 1..Len(B(f[key])) : n > Z(f[key]) /\ f = B(f[key])[n]
  <2>1. \A x : Diff!Paired(Diff!Group(r, key, x), Diff!Group(l, key, x)) = Z(x)
    BY <1>2
  <2> QED
    BY <2>1, Zenon DEF IsLeft
<1> HIDE DEF A, B, Z, P, ll, rr
<1>5. ASSUME NEW x PROVE Z(x) \in Nat /\ Z(x) <= Len(A(x)) /\ Z(x) <= Len(B(x))
                         /\ (Z(x) = Len(A(x)) \/ Z(x) = Len(B(x)))
  BY <1>2
<1>6. ASSUME NEW x, NEW n \in 1..Z(x)
      PROVE  /\ n \in 1..Len(A(x)) /\ n \in 1..Len(B(x))
             /\ A(x)[n] \in Elements(l) /\ A(x)[n][key] = x
             /\ B(x)[n] \in Elements(r) /\ B(x)[n][key] = x
  <2>1. n \in 1..Len(A(x)) /\ n \in 1..Len(B(x))
    BY <1>2, <1>5
  <2>2. A(x)[n] \in Elements(A(x)) /\ B(x)[n] \in Elements(B(x))
    BY <2>1 DEF Elements
  <2> QED
    BY <1>2, <2>1, <2>2
<1>7. ASSUME NEW p \in P
      PROVE  p = <<p[1], p[2]>> /\ p[1] \in Elements(l) /\ p[2] \in Elements(r) /\ p[1][key] = p[2][key]
  <2>1. PICK x : \E n \in 1..Z(x) : p = <<A(x)[n], B(x)[n]>>
    BY <1>1
  <2>2. PICK n \in 1..Z(x) : p = <<A(x)[n], B(x)[n]>>
    BY <2>1
  <2> QED
    BY <1>6, <2>2
\* The places of a pair in its groups.
<1>8. ASSUME NEW p \in P
      PROVE  \E n \in 1..Z(p[1][key]) : p = <<A(p[1][key])[n], B(p[1][key])[n]>>
  <2>1. PICK x : \E n \in 1..Z(x) : p = <<A(x)[n], B(x)[n]>>
    BY <1>1
  <2>2. PICK n \in 1..Z(x) : p = <<A(x)[n], B(x)[n]>>
    BY <2>1
  <2>3. p[1][key] = x
    BY <1>6, <2>2
  <2> QED
    BY <2>2, <2>3
<1>9. ASSUME NEW x, NEW n \in 1..Len(A(x)), NEW m \in 1..Len(A(x)), A(x)[n] = A(x)[m] PROVE n = m
  BY <1>2, <1>9 DEF IsList
<1>10. ASSUME NEW x, NEW n \in 1..Len(B(x)), NEW m \in 1..Len(B(x)), B(x)[n] = B(x)[m] PROVE n = m
  BY <1>2, <1>10 DEF IsList
<1>11. ASSUME NEW p \in P, NEW q \in P, p[1] = q[1] \/ p[2] = q[2] PROVE p = q
  <2> DEFINE x == p[1][key]
  <2>1. q[1][key] = x
    BY <1>7, <1>11
  <2>2. PICK n \in 1..Z(x) : p = <<A(x)[n], B(x)[n]>>
    BY <1>8
  <2>3. PICK m \in 1..Z(x) : q = <<A(x)[m], B(x)[m]>>
    BY <1>8, <2>1
  <2> HIDE DEF x
  <2>4. n = m
    BY <1>6, <1>9, <1>10, <1>11, <2>2, <2>3
  <2> QED
    BY <2>2, <2>3, <2>4
<1>12. \A f : f \in Elements(ll) <=> f \in Elements(l) /\ \A p \in P : p[1] # f
  <2>1. ASSUME NEW f \in Elements(ll), NEW p \in P, p[1] = f PROVE FALSE
    <3>1. PICK n \in 1..Len(A(f[key])) : n > Z(f[key]) /\ f = A(f[key])[n]
      BY <1>3, <1>4
    <3>2. PICK m \in 1..Z(f[key]) : p = <<A(f[key])[m], B(f[key])[m]>>
      BY <1>8, <2>1
    <3>3. m \in 1..Len(A(f[key])) /\ A(f[key])[m] = f
      BY <1>6, <2>1, <3>2
    <3>4. n = m
      BY <1>9, <3>1, <3>3
    <3> QED
      BY <1>5, <3>1, <3>2, <3>4
  <2>2. ASSUME NEW f \in Elements(l), \A p \in P : p[1] # f PROVE f \in Elements(ll)
    <3>1. f \in Elements(A(f[key]))
      BY <1>2
    <3>2. PICK n \in 1..Len(A(f[key])) : f = A(f[key])[n]
      BY <3>1 DEF Elements
    <3>3. ASSUME n \in 1..Z(f[key]) PROVE FALSE
      <4> DEFINE p == <<A(f[key])[n], B(f[key])[n]>>
      <4>1. p \in P
        BY <1>1, <3>3
      <4>2. p[1] = f
        BY <3>2
      <4> QED
        BY <2>2, <4>1, <4>2
    <3>4. n > Z(f[key])
      BY <1>2, <1>5, <3>3
    <3> QED
      BY <1>3, <1>4, <3>2, <3>4
  <2> QED
    BY <1>3, <2>1, <2>2
<1>13. \A f : f \in Elements(rr) <=> f \in Elements(r) /\ \A p \in P : p[2] # f
  <2>1. ASSUME NEW f \in Elements(rr), NEW p \in P, p[2] = f PROVE FALSE
    <3>1. PICK n \in 1..Len(B(f[key])) : n > Z(f[key]) /\ f = B(f[key])[n]
      BY <1>3, <1>4
    <3>0. p[1][key] = f[key]
      BY <1>7, <2>1
    <3>2. PICK m \in 1..Z(f[key]) : p = <<A(f[key])[m], B(f[key])[m]>>
      BY <1>8, <3>0
    <3>3. m \in 1..Len(B(f[key])) /\ B(f[key])[m] = f
      BY <1>6, <2>1, <3>2
    <3>4. n = m
      BY <1>10, <3>1, <3>3
    <3> QED
      BY <1>5, <3>1, <3>2, <3>4
  <2>2. ASSUME NEW f \in Elements(r), \A p \in P : p[2] # f PROVE f \in Elements(rr)
    <3>1. f \in Elements(B(f[key]))
      BY <1>2
    <3>2. PICK n \in 1..Len(B(f[key])) : f = B(f[key])[n]
      BY <3>1 DEF Elements
    <3>3. ASSUME n \in 1..Z(f[key]) PROVE FALSE
      <4> DEFINE p == <<A(f[key])[n], B(f[key])[n]>>
      <4>1. p \in P
        BY <1>1, <3>3
      <4>2. p[2] = f
        BY <3>2
      <4> QED
        BY <2>2, <4>1, <4>2
    <3>4. n > Z(f[key])
      BY <1>2, <1>5, <3>3
    <3> QED
      BY <1>3, <1>4, <3>2, <3>4
  <2> QED
    BY <1>3, <2>1, <2>2
<1>14. ASSUME NEW f \in Elements(ll), NEW g \in Elements(rr), f[key] = g[key] PROVE FALSE
  <2>1. PICK n \in 1..Len(A(f[key])) : n > Z(f[key]) /\ f = A(f[key])[n]
    BY <1>3, <1>4
  <2>2. PICK m \in 1..Len(B(g[key])) : m > Z(g[key]) /\ g = B(g[key])[m]
    BY <1>3, <1>4
  <2>3. m \in 1..Len(B(f[key])) /\ m > Z(f[key])
    BY <1>14, <2>2
  <2>4. Z(f[key]) = Len(A(f[key])) \/ Z(f[key]) = Len(B(f[key]))
    BY <1>5
  <2>5. Z(f[key]) \in Nat /\ Len(A(f[key])) \in Nat /\ Len(B(f[key])) \in Nat
    BY <1>2, <1>5
  <2> QED
    BY <2>1, <2>3, <2>4, <2>5
<1>15. IsPass(P, l, r, ll, rr, key, V)
  BY <1>3, <1>7, <1>11, <1>12, <1>13, <1>14, Zenon DEF IsPass
<1> QED
  BY <1>15 DEF P, ll, rr

-----------------------------------------------------------------------------
(* Sets of the same size.                                                   *)

\* h takes each element of S to one of T, no two to the same.
IsInto(h, S, T) == h \in [S -> T] /\ \A x, y \in S : h[x] = h[y] => x = y
\* ... and to every one.
IsOnto(h, S, T) == IsInto(h, S, T) /\ \A t \in T : \E x \in S : h[x] = t

LEMMA FitsInto ==
  ASSUME NEW S, NEW T, IsFiniteSet(T), NEW h, IsInto(h, S, T)
  PROVE  IsFiniteSet(S) /\ Cardinality(S) <= Cardinality(T)
<1>1. h \in Injection(S, T)
  BY DEF IsInto, Injection, IsInjective
<1> QED
  BY <1>1, FS_Injection

LEMMA SameSize ==
  ASSUME NEW S, NEW T, IsFiniteSet(T), NEW h, IsOnto(h, S, T)
  PROVE  IsFiniteSet(S) /\ Cardinality(S) = Cardinality(T)
<1>1. h \in Injection(S, T) /\ h \in Surjection(S, T)
  BY DEF IsOnto, IsInto, Injection, IsInjective, Surjection
<1> QED
  BY <1>1, FS_Injection

-----------------------------------------------------------------------------
(* The three passes.                                                        *)

\* A comparison: the lists that enter each pass, and its pairs.
IsComparison(report, l, r, P, V) ==
  /\ \A n \in 1..3 : IsPass(P[n], l[n], r[n], l[n + 1], r[n + 1], Diff!Keys[n], V)
  /\ P[1] = Diff!Pairs(l[1], r[1], "signature")
  /\ report.status = "compared"
  /\ report.matched = {Diff!Difference(p) : p \in P[1]}
  /\ report.reference_only = {Diff!Difference(p) : p \in P[2]}
  /\ report.constant_only = {Diff!Difference(p) : p \in P[3]}
  /\ report.only_in_left = {f.address : f \in Elements(l[4])}
  /\ report.only_in_right = {f.address : f \in Elements(r[4])}

LEMMA PassesAre ==
  ASSUME NEW V, NEW left, IsList(left.functions, V), NEW right, IsList(right.functions, V),
         Diff!ValidInventory(left), Diff!ValidInventory(right), Diff!SameDecoder(left, right)
  PROVE  \E l, r, P : /\ l[1] = left.functions /\ r[1] = right.functions
                      /\ IsComparison(Diff!Compare(left, right), l, r, P, V)
<1> DEFINE E1 == [left |-> left.functions, right |-> right.functions]
           E2 == Diff!MatchPass(E1, "signature")
           E3 == Diff!MatchPass(E2, "reference_signature")
           E4 == Diff!MatchPass(E3, "shape_signature")
           Loop(h) == h = [n \in 1..4 |-> IF n = 1 THEN E1 ELSE Diff!MatchPass(h[n - 1], Diff!Keys[n - 1])]
           G == CHOOSE h : Loop(h)
           Matches(n) == {Diff!Difference(p) : p \in Diff!Pairs(G[n].left, G[n].right, Diff!Keys[n])}
           BytesOf(lists) == [left |-> Diff!Bytes(lists.left), right |-> Diff!Bytes(lists.right)]
           report == [status |-> "compared",
                      matched |-> Matches(1), reference_only |-> Matches(2), constant_only |-> Matches(3),
                      only_in_left |-> {f.address : f \in Diff!ToSet(G[4].left)},
                      only_in_right |-> {f.address : f \in Diff!ToSet(G[4].right)},
                      unmatched_bytes |-> BytesOf(G[4]),
                      attributed_bytes |-> BytesOf(G[1])]
<1>1. Diff!Compare(left, right) = report
  BY Zenon DEF Diff!Compare
<1>2. Diff!Keys[1] = "signature" /\ Diff!Keys[2] = "reference_signature" /\ Diff!Keys[3] = "shape_signature"
  BY DEF Diff!Keys
<1> DEFINE f == [n \in 1..4 |-> IF n = 1 THEN E1 ELSE IF n = 2 THEN E2 ELSE IF n = 3 THEN E3 ELSE E4]
<1> HIDE DEF E1, E2, E3, E4
<1>3. f[1] = E1 /\ f[2] = E2 /\ f[3] = E3 /\ f[4] = E4
  OBVIOUS
<1>4. E2 = Diff!MatchPass(E1, Diff!Keys[1]) /\ E3 = Diff!MatchPass(E2, Diff!Keys[2]) /\ E4 = Diff!MatchPass(E3, Diff!Keys[3])
  BY <1>2 DEF E2, E3, E4
<1>5. Loop(f)
  <2> DEFINE g == [n \in 1..4 |-> IF n = 1 THEN E1 ELSE Diff!MatchPass(f[n - 1], Diff!Keys[n - 1])]
  <2>1. g[1] = E1
    OBVIOUS
  <2>2. g[2] = Diff!MatchPass(f[1], Diff!Keys[1]) /\ g[3] = Diff!MatchPass(f[2], Diff!Keys[2])
        /\ g[4] = Diff!MatchPass(f[3], Diff!Keys[3])
    <3> HIDE DEF f
    <3> QED
      OBVIOUS
  <2>3. \A n \in 1..4 : g[n] = f[n]
    <3> HIDE DEF g, f
    <3>1. \A n \in 1..4 : n = 1 \/ n = 2 \/ n = 3 \/ n = 4
      OBVIOUS
    <3> QED
      BY <2>1, <2>2, <1>3, <1>4, <3>1
  <2> QED
    BY <2>3
<1>6. Loop(G)
  <2> HIDE DEF f, Loop
  <2> QED
    BY <1>5, Zenon
<1>7. G[1] = E1 /\ G[2] = E2 /\ G[3] = E3 /\ G[4] = E4
  <2>0. \A n \in 1..4 : G[n] = IF n = 1 THEN E1 ELSE Diff!MatchPass(G[n - 1], Diff!Keys[n - 1])
    <3> HIDE DEF G
    <3>1. G = [n \in 1..4 |-> IF n = 1 THEN E1 ELSE Diff!MatchPass(G[n - 1], Diff!Keys[n - 1])]
      BY <1>6
    <3> QED
      BY <3>1
  <2> HIDE DEF G
  <2>1. G[1] = E1
    BY <2>0
  <2>2. G[2] = Diff!MatchPass(G[1], Diff!Keys[1]) /\ G[3] = Diff!MatchPass(G[2], Diff!Keys[2])
        /\ G[4] = Diff!MatchPass(G[3], Diff!Keys[3])
    BY <2>0
  <2> QED
    BY <1>4, <2>1, <2>2
<1> HIDE DEF f, Loop, G
<1>8. /\ E1.left = left.functions /\ E1.right = right.functions
      /\ E2.left = Diff!Leftovers(E1.left, E1.right, "signature")
      /\ E2.right = Diff!Leftovers(E1.right, E1.left, "signature")
      /\ E3.left = Diff!Leftovers(E2.left, E2.right, "reference_signature")
      /\ E3.right = Diff!Leftovers(E2.right, E2.left, "reference_signature")
      /\ E4.left = Diff!Leftovers(E3.left, E3.right, "shape_signature")
      /\ E4.right = Diff!Leftovers(E3.right, E3.left, "shape_signature")
  BY DEF E1, E2, E3, E4, Diff!MatchPass
<1> DEFINE Q(n) == Diff!Pairs(G[n].left, G[n].right, Diff!Keys[n])
           l == [n \in 1..4 |-> G[n].left]
           r == [n \in 1..4 |-> G[n].right]
           P == [n \in 1..3 |-> Q(n)]
<1>9. ASSUME NEW n \in 1..3, IsList(l[n], V), IsList(r[n], V)
      PROVE  /\ IsPass(P[n], l[n], r[n], l[n + 1], r[n + 1], Diff!Keys[n], V)
             /\ IsList(l[n + 1], V) /\ IsList(r[n + 1], V)
  <2> DEFINE a == G[n].left
             b == G[n].right
             k == Diff!Keys[n]
  <2>1. /\ l[n] = a /\ r[n] = b /\ P[n] = Diff!Pairs(a, b, k)
        /\ l[n + 1] = Diff!Leftovers(a, b, k) /\ r[n + 1] = Diff!Leftovers(b, a, k)
    <3>0. n = 1 \/ n = 2 \/ n = 3
      OBVIOUS
    <3>1. l[n] = a /\ r[n] = b /\ P[n] = Diff!Pairs(a, b, k) /\ l[n + 1] = G[n + 1].left /\ r[n + 1] = G[n + 1].right
      OBVIOUS
    <3>2. G[n + 1].left = Diff!Leftovers(a, b, k) /\ G[n + 1].right = Diff!Leftovers(b, a, k)
      <4>1. CASE n = 1
        BY <1>2, <1>7, <1>8, <4>1
      <4>2. CASE n = 2
        BY <1>2, <1>7, <1>8, <4>2
      <4>3. CASE n = 3
        BY <1>2, <1>7, <1>8, <4>3
      <4> QED
        BY <3>0, <4>1, <4>2, <4>3
    <3> QED
      BY <3>1, <3>2
  <2>2. IsList(a, V) /\ IsList(b, V)
    BY <1>9, <2>1
  <2>3. IsPass(Diff!Pairs(a, b, k), a, b, Diff!Leftovers(a, b, k), Diff!Leftovers(b, a, k), k, V)
    BY <2>2, PassIs
  <2>4. IsList(Diff!Leftovers(a, b, k), V) /\ IsList(Diff!Leftovers(b, a, k), V)
    BY <2>3 DEF IsPass
  <2> HIDE DEF a, b, k, l, r, P
  <2>5. k = Diff!Keys[n]
    BY DEF k
  <2> QED
    BY <2>1, <2>3, <2>4, <2>5
<1>10. l[1] = left.functions /\ r[1] = right.functions /\ P[1] = Diff!Pairs(l[1], r[1], "signature")
  <2>1. l[1] = G[1].left /\ r[1] = G[1].right /\ P[1] = Diff!Pairs(l[1], r[1], Diff!Keys[1])
    OBVIOUS
  <2> HIDE DEF l, r, P
  <2> QED
    BY <2>1, <1>7, <1>8, <1>2
<1>11. IsList(l[1], V) /\ IsList(r[1], V)
  BY <1>10
<1>12. \A n \in 1..3 : IsPass(P[n], l[n], r[n], l[n + 1], r[n + 1], Diff!Keys[n], V)
  <2> HIDE DEF l, r, P
  <2>1. 1 \in 1..3 /\ 2 \in 1..3 /\ 3 \in 1..3 /\ 1 + 1 = 2 /\ 2 + 1 = 3 /\ \A n \in 1..3 : n = 1 \/ n = 2 \/ n = 3
    OBVIOUS
  <2>2. IsList(l[2], V) /\ IsList(r[2], V)
    BY <1>9, <1>11, <2>1
  <2>3. IsList(l[3], V) /\ IsList(r[3], V)
    BY <1>9, <2>2, <2>1
  <2> QED
    BY <1>9, <1>11, <2>2, <2>3, <2>1
<1>13. IsList(l[4], V) /\ IsList(r[4], V)
  <2> HIDE DEF l, r, P
  <2>1. 3 \in 1..3 /\ 3 + 1 = 4
    OBVIOUS
  <2> QED
    BY <1>12, <2>1 DEF IsPass
<1>14. Diff!ToSet(G[4].left) = Elements(l[4]) /\ Diff!ToSet(G[4].right) = Elements(r[4])
  <2>1. l[4] = G[4].left /\ r[4] = G[4].right
    OBVIOUS
  <2> HIDE DEF l, r
  <2> QED
    BY <1>13, <2>1, ToSetIsElements DEF IsList
<1>15. P[1] = Q(1) /\ P[2] = Q(2) /\ P[3] = Q(3)
  OBVIOUS
<1>16. /\ report.status = "compared"
       /\ report.matched = {Diff!Difference(p) : p \in P[1]}
       /\ report.reference_only = {Diff!Difference(p) : p \in P[2]}
       /\ report.constant_only = {Diff!Difference(p) : p \in P[3]}
       /\ report.only_in_left = {g.address : g \in Elements(l[4])}
       /\ report.only_in_right = {g.address : g \in Elements(r[4])}
  <2>1. /\ report.status = "compared"
        /\ report.matched = {Diff!Difference(p) : p \in Q(1)}
        /\ report.reference_only = {Diff!Difference(p) : p \in Q(2)}
        /\ report.constant_only = {Diff!Difference(p) : p \in Q(3)}
        /\ report.only_in_left = {g.address : g \in Diff!ToSet(G[4].left)}
        /\ report.only_in_right = {g.address : g \in Diff!ToSet(G[4].right)}
    OBVIOUS
  <2> HIDE DEF l, r, P, report, Q
  <2> QED
    BY <2>1, <1>14, <1>15
<1> HIDE DEF l, r, P, report
<1>17. IsComparison(Diff!Compare(left, right), l, r, P, V)
  BY <1>1, <1>10, <1>12, <1>16 DEF IsComparison
<1> QED
  BY <1>10, <1>17

\* One side of a comparison: s[n] enters the nth pass, which takes the ith
\* functions of the pairs P[n] away.
IsSide(i, s, P) ==
  /\ \A n \in 1..3 : \A p \in P[n] : p[i] \in Elements(s[n])
  /\ \A n \in 1..3 : \A p, q \in P[n] : p[i] = q[i] => p = q
  /\ \A n \in 1..3 : \A f : f \in Elements(s[n + 1]) <=> f \in Elements(s[n]) /\ \A p \in P[n] : p[i] # f
  /\ \A f, g \in Elements(s[1]) : f.address = g.address => f = g
  /\ IsFiniteSet(Elements(s[1]))

Addresses(P, i) == {p[i].address : p \in P}
AddressesOf(fs) == {f.address : f \in fs}

\* Every function of a side is in one of the classes, or on this side only,
\* and in no two.
IsCut(i, s, P) ==
  /\ \A n, m \in 1..3 : n # m => Addresses(P[n], i) \cap Addresses(P[m], i) = {}
  /\ \A n \in 1..3 : Addresses(P[n], i) \cap AddressesOf(Elements(s[4])) = {}
  /\ (Addresses(P[1], i) \cup Addresses(P[2], i) \cup Addresses(P[3], i)) \cup AddressesOf(Elements(s[4]))
       = AddressesOf(Elements(s[1]))
  /\ \A n \in 1..3 : \A p, q \in P[n] : p[i].address = q[i].address => p = q
  /\ \A n \in 1..3 : IsFiniteSet(Addresses(P[n], i))

LEMMA SidesAreCut ==
  ASSUME NEW i, NEW s, NEW P, IsSide(i, s, P)
  PROVE  IsCut(i, s, P)
<1> DEFINE E(n) == Elements(s[n])
           F(n) == {p[i] : p \in P[n]}
<1>1. /\ \A n \in 1..3 : \A f : f \in F(n) <=> \E p \in P[n] : p[i] = f
      /\ \A n \in 1..3 : \A f : f \in F(n) => f \in E(n)
      /\ \A n \in 1..3 : \A f : f \in E(n + 1) <=> f \in E(n) /\ f \notin F(n)
      /\ \A f, g \in E(1) : f.address = g.address => f = g
      /\ IsFiniteSet(E(1))
  BY DEF IsSide
<1>2. \A n \in 1..3 : \A p, q \in P[n] : p[i] = q[i] => p = q
  BY DEF IsSide
<1>3. \A n \in 1..3 : \A p \in P[n] : p[i] \in F(n)
  OBVIOUS
<1>4. /\ \A n \in 1..3 : \A a : a \in Addresses(P[n], i) <=> \E f \in F(n) : a = f.address
      /\ \A a : a \in AddressesOf(E(4)) <=> \E f \in E(4) : a = f.address
      /\ \A a : a \in AddressesOf(E(1)) <=> \E f \in E(1) : a = f.address
  <2> SUFFICES \A n \in 1..3 : \A a : a \in Addresses(P[n], i) <=> \E f \in F(n) : a = f.address
    BY DEF AddressesOf
  <2> QED
    BY DEF Addresses
<1> HIDE DEF E, F
<1>5. /\ \A f : f \in F(1) => f \in E(1)
      /\ \A f : f \in E(2) <=> f \in E(1) /\ f \notin F(1)
      /\ \A f : f \in F(2) => f \in E(2)
      /\ \A f : f \in E(3) <=> f \in E(2) /\ f \notin F(2)
      /\ \A f : f \in F(3) => f \in E(3)
      /\ \A f : f \in E(4) <=> f \in E(3) /\ f \notin F(3)
  <2>1. 1 \in 1..3 /\ 2 \in 1..3 /\ 3 \in 1..3 /\ 1 + 1 = 2 /\ 2 + 1 = 3 /\ 3 + 1 = 4
    OBVIOUS
  <2> QED
    BY <1>1, <2>1
<1>6. \A n \in 1..3 : n = 1 \/ n = 2 \/ n = 3
  OBVIOUS
<1>7. \A n \in 1..3 : \A f \in F(n) : f \in E(1) /\ f \notin E(4)
  BY <1>5, <1>6
<1>8. \A n, m \in 1..3 : n # m => \A f \in F(n) : f \notin F(m)
  BY <1>5, <1>6
<1>9. \A f \in E(4) : f \in E(1)
  BY <1>5
<1>10. \A f \in E(1) : f \in F(1) \/ f \in F(2) \/ f \in F(3) \/ f \in E(4)
  BY <1>5
<1>11. \A n, m \in 1..3 : n # m => Addresses(P[n], i) \cap Addresses(P[m], i) = {}
  BY <1>1, <1>4, <1>7, <1>8
<1>12. \A n \in 1..3 : Addresses(P[n], i) \cap AddressesOf(E(4)) = {}
  BY <1>1, <1>4, <1>7, <1>9
<1>13. (Addresses(P[1], i) \cup Addresses(P[2], i) \cup Addresses(P[3], i)) \cup AddressesOf(E(4)) = AddressesOf(E(1))
  <2>1. ASSUME NEW a \in AddressesOf(E(1))
        PROVE  a \in Addresses(P[1], i) \/ a \in Addresses(P[2], i) \/ a \in Addresses(P[3], i) \/ a \in AddressesOf(E(4))
    <3>1. PICK f \in E(1) : a = f.address
      BY <1>4
    <3>2. CASE f \in F(1)
      BY <3>1, <3>2, <1>4
    <3>3. CASE f \in F(2)
      BY <3>1, <3>3, <1>4
    <3>4. CASE f \in F(3)
      BY <3>1, <3>4, <1>4
    <3>5. CASE f \in E(4)
      BY <3>1, <3>5, <1>4
    <3> QED
      BY <1>10, <3>2, <3>3, <3>4, <3>5
  <2>2. ASSUME NEW n \in 1..3, NEW a \in Addresses(P[n], i) PROVE a \in AddressesOf(E(1))
    BY <1>4, <1>7
  <2>3. ASSUME NEW a \in AddressesOf(E(4)) PROVE a \in AddressesOf(E(1))
    BY <1>4, <1>9
  <2>4. 1 \in 1..3 /\ 2 \in 1..3 /\ 3 \in 1..3
    OBVIOUS
  <2> QED
    BY <2>1, <2>2, <2>3, <2>4
<1>14. ASSUME NEW n \in 1..3, NEW p \in P[n], NEW q \in P[n], p[i].address = q[i].address PROVE p = q
  BY <1>1, <1>2, <1>3, <1>7, <1>14
<1>15. IsFiniteSet(AddressesOf(E(1)))
  <2> DEFINE h == [f \in E(1) |-> f.address]
  <2>1. h \in Surjection(E(1), AddressesOf(E(1)))
    BY DEF AddressesOf, Surjection
  <2> HIDE DEF h
  <2> QED
    BY <1>1, <2>1, FS_Surjection
<1>16. ASSUME NEW n \in 1..3 PROVE IsFiniteSet(Addresses(P[n], i))
  <2>1. Addresses(P[n], i) \in SUBSET AddressesOf(E(1))
    BY <1>4, <1>7
  <2> QED
    BY <1>15, <2>1, FS_Subset
<1> QED
  BY <1>11, <1>12, <1>13, <1>14, <1>16 DEF IsCut, E

LEMMA FunctionsAreFinite ==
  ASSUME NEW V, NEW s \in Seq(V)
  PROVE  IsFiniteSet(Elements(s))
<1>1. Len(s) \in Nat
  OBVIOUS
<1>2. IsFiniteSet(1..Len(s))
  BY <1>1, FS_Interval
<1>3. s \in Surjection(1..Len(s), Elements(s))
  <2>1. s = [n \in 1..Len(s) |-> s[n]]
    OBVIOUS
  <2> QED
    BY <2>1 DEF Elements, Surjection
<1> QED
  BY <1>2, <1>3, FS_Surjection

\* A class of the report names every pair once, by either address.
IsClass(Q, D) ==
  /\ {x.left : x \in D} = Addresses(Q, 1) /\ {x.right : x \in D} = Addresses(Q, 2)
  /\ Cardinality({x.left : x \in D}) = Cardinality(D)
  /\ Cardinality({x.right : x \in D}) = Cardinality(D)

LEMMA ClassIs ==
  ASSUME NEW Q, IsFiniteSet(Addresses(Q, 1)), IsFiniteSet(Addresses(Q, 2)),
         \A p, q \in Q : p[1].address = q[1].address => p = q,
         \A p, q \in Q : p[2].address = q[2].address => p = q
  PROVE  IsClass(Q, {Diff!Difference(p) : p \in Q})
<1> DEFINE D == {Diff!Difference(p) : p \in Q}
<1>1. \A x : x \in D <=> \E p \in Q : x = Diff!Difference(p)
  OBVIOUS
<1>2. \A p : Diff!Difference(p).left = p[1].address /\ Diff!Difference(p).right = p[2].address
  BY DEF Diff!Difference
<1>3. \A x \in D : \E p \in Q : x = Diff!Difference(p) /\ x.left = p[1].address /\ x.right = p[2].address
  BY <1>1, <1>2
<1>4. \A p \in Q : Diff!Difference(p) \in D
  BY <1>1
<1> HIDE DEF D
<1>5. {x.left : x \in D} = Addresses(Q, 1)
  BY <1>2, <1>3, <1>4 DEF Addresses
<1>6. {x.right : x \in D} = Addresses(Q, 2)
  BY <1>2, <1>3, <1>4 DEF Addresses
<1>7. Cardinality(Addresses(Q, 1)) = Cardinality(D)
  <2> DEFINE h == [x \in D |-> x.left]
  <2>1. \A x \in D : h[x] = x.left
    OBVIOUS
  <2>2. h \in [D -> Addresses(Q, 1)]
    BY <1>5
  <2> HIDE DEF h
  <2>3. \A x, y \in D : h[x] = h[y] => x = y
    BY <1>3, <2>1
  <2>4. \A t \in Addresses(Q, 1) : \E x \in D : h[x] = t
    BY <1>5, <2>1
  <2>5. IsOnto(h, D, Addresses(Q, 1))
    BY <2>2, <2>3, <2>4 DEF IsOnto, IsInto
  <2> QED
    BY <2>5, SameSize
<1>8. Cardinality(Addresses(Q, 2)) = Cardinality(D)
  <2> DEFINE h == [x \in D |-> x.right]
  <2>1. \A x \in D : h[x] = x.right
    OBVIOUS
  <2>2. h \in [D -> Addresses(Q, 2)]
    BY <1>6
  <2> HIDE DEF h
  <2>3. \A x, y \in D : h[x] = h[y] => x = y
    BY <1>3, <2>1
  <2>4. \A t \in Addresses(Q, 2) : \E x \in D : h[x] = t
    BY <1>6, <2>1
  <2>5. IsOnto(h, D, Addresses(Q, 2))
    BY <2>2, <2>3, <2>4 DEF IsOnto, IsInto
  <2> QED
    BY <2>5, SameSize
<1>9. IsClass(Q, D)
  BY <1>5, <1>6, <1>7, <1>8 DEF IsClass
<1> QED
  BY <1>9 DEF D

-----------------------------------------------------------------------------
(* Inventories, grown a function at a time.                                 *)

AnyFunction == {Function(n, text) : n \in Nat, text \in Texts}

\* The functions of an inventory: the nth is at 10 * n.
Placed(s) == s \in Seq(AnyFunction) /\ \A n \in 1..Len(s) : s[n].address = 10 * n

LEMMA PlacedIsAList ==
  ASSUME NEW s, Placed(s)
  PROVE  /\ IsList(s, AnyFunction) /\ IsFiniteSet(Elements(s)) /\ Len(s) \in Nat
         /\ \A f \in Elements(s) : /\ f.address \div 10 \in 1..Len(s) /\ s[f.address \div 10] = f
                                   /\ f.address = 10 * (f.address \div 10)
         /\ \A f, g \in Elements(s) : f.address = g.address => f = g
<1>1. Len(s) \in Nat /\ IsFiniteSet(Elements(s))
  BY FunctionsAreFinite DEF Placed
<1>2. \A n \in Nat : (10 * n) \div 10 = n
  OBVIOUS
<1>3. ASSUME NEW n \in 1..Len(s), NEW m \in 1..Len(s), s[n].address = s[m].address PROVE n = m
  <2>1. 10 * n = 10 * m
    BY <1>3 DEF Placed
  <2> QED
    BY <2>1
<1>4. ASSUME NEW f \in Elements(s)
      PROVE  /\ f.address \div 10 \in 1..Len(s) /\ s[f.address \div 10] = f
             /\ f.address = 10 * (f.address \div 10)
  <2>1. PICK n \in 1..Len(s) : f = s[n]
    BY DEF Elements
  <2>2. f.address = 10 * n /\ n \in Nat
    BY <2>1 DEF Placed
  <2>3. f.address \div 10 = n
    BY <1>2, <2>2
  <2> QED
    BY <2>1, <2>2, <2>3
<1>5. IsList(s, AnyFunction)
  BY <1>3 DEF IsList, Placed
<1>6. ASSUME NEW f \in Elements(s), NEW g \in Elements(s), f.address = g.address PROVE f = g
  <2>1. s[f.address \div 10] = f /\ s[g.address \div 10] = g
    BY <1>4
  <2> QED
    BY <1>6, <2>1
<1> QED
  BY <1>1, <1>4, <1>5, <1>6

\* As many functions are matched, of each signature, as there are on the side
\* that has fewer.
MatchedOf(l, D, t) == {x \in D : l[x.left \div 10].signature = t}
WithSignature(s, t) == {n \in 1..Len(s) : s[n].signature = t}

LEMMA MatchedAreCounted ==
  ASSUME NEW l, Placed(l), NEW r, Placed(r), NEW ll, NEW rr, NEW P, NEW V,
         IsPass(P, l, r, ll, rr, "signature", V), NEW t
  PROVE  Cardinality(MatchedOf(l, {Diff!Difference(p) : p \in P}, t))
           = IF Cardinality(WithSignature(l, t)) < Cardinality(WithSignature(r, t))
             THEN Cardinality(WithSignature(l, t)) ELSE Cardinality(WithSignature(r, t))
<1> DEFINE D == {Diff!Difference(p) : p \in P}
           M == MatchedOf(l, D, t)
           LX == WithSignature(l, t)
           RX == WithSignature(r, t)
<1>1. /\ \A p \in P : p[1] \in Elements(l) /\ p[2] \in Elements(r) /\ p[1].signature = p[2].signature
      /\ \A p, q \in P : p[1] = q[1] \/ p[2] = q[2] => p = q
      /\ \A f \in Elements(l) : f \in Elements(ll) \/ \E p \in P : p[1] = f
      /\ \A f \in Elements(r) : f \in Elements(rr) \/ \E p \in P : p[2] = f
      /\ \A f \in Elements(ll), g \in Elements(rr) : f.signature # g.signature
  BY DEF IsPass
<1>2. /\ Len(l) \in Nat /\ Len(r) \in Nat
      /\ \A f \in Elements(l) : f.address \div 10 \in 1..Len(l) /\ l[f.address \div 10] = f
      /\ \A f \in Elements(r) : f.address \div 10 \in 1..Len(r) /\ r[f.address \div 10] = f
      /\ \A n \in 1..Len(l) : l[n] \in Elements(l) /\ l[n].address \div 10 = n
      /\ \A n \in 1..Len(r) : r[n] \in Elements(r) /\ r[n].address \div 10 = n
  <2>1. \A n \in Nat : (10 * n) \div 10 = n
    OBVIOUS
  <2>2. /\ \A n \in 1..Len(l) : l[n] \in Elements(l) /\ l[n].address \div 10 = n
        /\ \A n \in 1..Len(r) : r[n] \in Elements(r) /\ r[n].address \div 10 = n
    BY <2>1 DEF Placed, Elements
  <2> QED
    BY <2>2, PlacedIsAList
<1>3. \A p : Diff!Difference(p).left = p[1].address /\ Diff!Difference(p).right = p[2].address
  BY DEF Diff!Difference
<1>4. /\ \A x \in M : \E p \in P : /\ x = Diff!Difference(p) /\ x.left = p[1].address /\ x.right = p[2].address
                                   /\ p[1].signature = t
      /\ \A p \in P : p[1].signature = t => Diff!Difference(p) \in M
  <2>1. \A x : x \in M <=> (\E p \in P : x = Diff!Difference(p)) /\ l[x.left \div 10].signature = t
    BY DEF MatchedOf
  <2>2. \A p \in P : l[Diff!Difference(p).left \div 10] = p[1]
    BY <1>1, <1>2, <1>3
  <2> HIDE DEF M, D
  <2> QED
    BY <1>3, <2>1, <2>2
<1> HIDE DEF M, D
<1>5. /\ \A n : n \in LX <=> n \in 1..Len(l) /\ l[n].signature = t
      /\ \A n : n \in RX <=> n \in 1..Len(r) /\ r[n].signature = t
  BY DEF WithSignature
<1>6. IsFiniteSet(LX) /\ IsFiniteSet(RX)
  <2>1. IsFiniteSet(1..Len(l)) /\ IsFiniteSet(1..Len(r))
    BY <1>2, FS_Interval
  <2>2. LX \in SUBSET (1..Len(l)) /\ RX \in SUBSET (1..Len(r))
    BY <1>5
  <2> QED
    BY <2>1, <2>2, FS_Subset
<1> HIDE DEF LX, RX
<1> DEFINE h == [x \in M |-> x.left \div 10]
           k == [x \in M |-> x.right \div 10]
<1>7. /\ \A p \in P : p[1].address \div 10 \in 1..Len(l) /\ l[p[1].address \div 10] = p[1]
      /\ \A p \in P : p[2].address \div 10 \in 1..Len(r) /\ r[p[2].address \div 10] = p[2]
  BY <1>1, <1>2
<1>8. IsInto(h, M, LX)
  <2>1. ASSUME NEW x \in M PROVE x.left \div 10 \in LX
    BY <1>4, <1>5, <1>7
  <2>2. ASSUME NEW x \in M, NEW y \in M, x.left \div 10 = y.left \div 10 PROVE x = y
    BY <1>1, <1>4, <1>7, <2>2
  <2>3. h \in [M -> LX]
    BY <2>1
  <2>4. \A x \in M : h[x] = x.left \div 10
    OBVIOUS
  <2> HIDE DEF h
  <2> QED
    BY <2>2, <2>3, <2>4 DEF IsInto
<1>9. IsInto(k, M, RX)
  <2>1. ASSUME NEW x \in M PROVE x.right \div 10 \in RX
    BY <1>1, <1>4, <1>5, <1>7
  <2>2. ASSUME NEW x \in M, NEW y \in M, x.right \div 10 = y.right \div 10 PROVE x = y
    BY <1>1, <1>4, <1>7, <2>2
  <2>3. k \in [M -> RX]
    BY <2>1
  <2>4. \A x \in M : k[x] = x.right \div 10
    OBVIOUS
  <2> HIDE DEF k
  <2> QED
    BY <2>2, <2>3, <2>4 DEF IsInto
<1>10. \A x \in M : h[x] = x.left \div 10 /\ k[x] = x.right \div 10
  OBVIOUS
<1> HIDE DEF h, k
<1>11. Cardinality(M) <= Cardinality(LX) /\ Cardinality(M) <= Cardinality(RX)
  BY <1>6, <1>8, <1>9, FitsInto
<1>12. Cardinality(M) = Cardinality(LX) \/ Cardinality(M) = Cardinality(RX)
  <2>1. CASE \E f \in Elements(ll) : f.signature = t
    <3>1. ASSUME NEW n \in RX PROVE \E x \in M : k[x] = n
      <4>1. r[n] \in Elements(r) /\ r[n].signature = t /\ r[n].address \div 10 = n
        BY <1>2, <1>5
      <4>2. PICK p \in P : p[2] = r[n]
        BY <1>1, <2>1, <4>1
      <4>3. Diff!Difference(p) \in M
        BY <1>1, <1>4, <4>1, <4>2
      <4>4. k[Diff!Difference(p)] = n
        BY <1>3, <1>10, <4>1, <4>2, <4>3
      <4> QED
        BY <4>3, <4>4
    <3>2. IsOnto(k, M, RX)
      BY <1>9, <3>1 DEF IsOnto
    <3> QED
      BY <1>6, <3>2, SameSize
  <2>2. CASE ~ \E f \in Elements(ll) : f.signature = t
    <3>1. ASSUME NEW n \in LX PROVE \E x \in M : h[x] = n
      <4>1. l[n] \in Elements(l) /\ l[n].signature = t /\ l[n].address \div 10 = n
        BY <1>2, <1>5
      <4>2. PICK p \in P : p[1] = l[n]
        BY <1>1, <2>2, <4>1
      <4>3. Diff!Difference(p) \in M
        BY <1>4, <4>1, <4>2
      <4>4. h[Diff!Difference(p)] = n
        BY <1>3, <1>10, <4>1, <4>2, <4>3
      <4> QED
        BY <4>3, <4>4
    <3>2. IsOnto(h, M, LX)
      BY <1>8, <3>1 DEF IsOnto
    <3> QED
      BY <1>6, <3>2, SameSize
  <2> QED
    BY <2>1, <2>2
<1>13. Cardinality(LX) \in Nat /\ Cardinality(RX) \in Nat
  BY <1>6, FS_CardinalityType
<1>14. Cardinality(M) = IF Cardinality(LX) < Cardinality(RX) THEN Cardinality(LX) ELSE Cardinality(RX)
  BY <1>11, <1>12, <1>13
<1> QED
  BY <1>14 DEF M, D, LX, RX

ReportRecord ==
  [schema : {"current", "old"}, layout : {"current"}, tool : [Diff!IdentityFields -> {"this", "other", ""}],
   functions : Seq(AnyFunction)]

DiffInv(d) ==
  /\ d \in [left : ReportRecord, right : ReportRecord]
  /\ d.left.schema = "current" /\ d.left.tool = Model
  /\ Placed(d.left.functions) /\ Placed(d.right.functions)

LEMMA EmptyIsPlaced == Placed(<<>>) /\ <<>> \in Seq(AnyFunction)
BY DEF Placed

LEMMA Eta ==
  ASSUME NEW S, NEW T, NEW f \in [S -> T]
  PROVE  f = [x \in S |-> f[x]]
OBVIOUS

LEMMA ModelsFit ==
  ASSUME NEW tool \in [Diff!IdentityFields -> {"this", "other", ""}]
  PROVE  Report(tool) \in ReportRecord /\ Report(tool).schema = "current" /\ Report(tool).tool = tool
         /\ Report(tool).functions = <<>> /\ [Report(tool) EXCEPT !.schema = "old"] \in ReportRecord
         /\ [Report(tool) EXCEPT !.schema = "old"].functions = <<>>
<1> DEFINE Tools == [Diff!IdentityFields -> {"this", "other", ""}]
           r == Report(tool)
<1>1. tool \in Tools
  OBVIOUS
<1> HIDE DEF Tools
<1>2. r \in [schema : {"current", "old"}, layout : {"current"}, tool : Tools, functions : Seq(AnyFunction)]
      /\ r.schema = "current" /\ r.tool = tool /\ r.functions = <<>>
  BY <1>1, EmptyIsPlaced DEF Report
<1> HIDE DEF r
<1>3. [r EXCEPT !.schema = "old"] \in [schema : {"current", "old"}, layout : {"current"}, tool : Tools, functions : Seq(AnyFunction)]
      /\ [r EXCEPT !.schema = "old"].functions = <<>>
  BY <1>2
<1> QED
  BY <1>2, <1>3, Zenon DEF ReportRecord, Tools, r

LEMMA DiffDocsFit ==
  ASSUME NEW d \in DiffDocs
  PROVE  DiffInv(d)
<1> DEFINE Tools == [Diff!IdentityFields -> {"this", "other", ""}]
<1>2. Model \in Tools
  BY ONLY DEF Model
<1>3. ASSUME NEW tool \in OtherModels PROVE Report(tool) \in ReportRecord /\ Report(tool).functions = <<>>
  <2> DEFINE With(field) == {[Model EXCEPT ![field] = v] : v \in {"other", ""}}
  <2>1. OtherModels = UNION {With(field) : field \in Diff!IdentityFields}
    BY Zenon DEF OtherModels
  <2>2. PICK field \in Diff!IdentityFields : tool \in With(field)
    <3> HIDE DEF With
    <3> QED
      BY <2>1
  <2>3. PICK v \in {"other", ""} : tool = [Model EXCEPT ![field] = v]
    BY <2>2
  <2>4. tool \in Tools
    BY <1>2, <2>3
  <2> QED
    BY <2>4, ModelsFit, Zenon
<1>4. PICK r \in RightReports : d = [left |-> Report(Model), right |-> r]
  BY DEF DiffDocs
<1>5. Report(Model) \in ReportRecord /\ Report(Model).schema = "current" /\ Report(Model).tool = Model
      /\ Report(Model).functions = <<>> /\ [Report(Model) EXCEPT !.schema = "old"] \in ReportRecord
      /\ [Report(Model) EXCEPT !.schema = "old"].functions = <<>>
  BY <1>2, ModelsFit, Zenon
<1>6. r \in ReportRecord /\ r.functions = <<>>
  <2>1. (\E tool \in OtherModels : r = Report(tool)) \/ r = Report(Model)
        \/ r = [Report(Model) EXCEPT !.schema = "old"]
    BY DEF RightReports
  <2> QED
    BY <1>3, <1>5, <2>1, Zenon
<1> DEFINE l == Report(Model)
<1> HIDE DEF l, Tools
<1>7. d.left = l /\ d.right = r /\ d = [left |-> d.left, right |-> d.right]
  BY <1>4 DEF l
<1> QED
  BY <1>5, <1>6, <1>7, EmptyIsPlaced DEF DiffInv, l

LEMMA OneMorePlaced ==
  ASSUME NEW s, Placed(s), NEW text \in Texts
  PROVE  Placed(Append(s, Function(1 + Len(s), text)))
<1> DEFINE f == Function(1 + Len(s), text)
           t == Append(s, f)
<1>1. s \in Seq(AnyFunction) /\ Len(s) \in Nat
  BY DEF Placed
<1>2. f.address = 10 * (1 + Len(s))
  BY DEF Function
<1>3. f \in AnyFunction
  BY <1>1 DEF AnyFunction
<1> HIDE DEF f
<1>4. t \in Seq(AnyFunction) /\ Len(t) = Len(s) + 1 /\ t[Len(s) + 1] = f /\ \A n \in 1..Len(s) : t[n] = s[n]
  BY <1>1, <1>3
<1> HIDE DEF t
<1>5. \A n \in 1..Len(t) : t[n].address = 10 * n
  <2> SUFFICES ASSUME NEW n \in 1..Len(t) PROVE t[n].address = 10 * n
    OBVIOUS
  <2>1. CASE n = Len(s) + 1
    BY <1>1, <1>2, <1>4, <2>1
  <2>2. CASE n # Len(s) + 1
    <3>1. n \in 1..Len(s)
      BY <1>1, <1>4, <2>2
    <3> QED
      BY <1>4, <3>1 DEF Placed
  <2> QED
    BY <2>1, <2>2
<1> QED
  BY <1>4, <1>5 DEF Placed, t, f

LEMMA DiffEdited ==
  ASSUME NEW d, DiffInv(d), NEW e \in DiffEdits(d)
  PROVE  DiffInv(e)
<1>1. PICK side \in {"left", "right"}, text \in Texts :
        e = [d EXCEPT ![side].functions = Append(@, Function(1 + Len(@), text))]
  BY DEF DiffEdits
<1>2. CASE side = "left"
  <2> DEFINE s == d.left.functions
             t == Append(s, Function(1 + Len(s), text))
  <2>1. e = [d EXCEPT !.left.functions = t]
    BY <1>1, <1>2
  <2>2. Placed(t)
    BY OneMorePlaced DEF DiffInv
  <2>3. t \in Seq(AnyFunction)
    BY <2>2 DEF Placed
  <2> HIDE DEF t
  <2>4. e.left = [d.left EXCEPT !.functions = t] /\ e.right = d.right /\ e = [left |-> e.left, right |-> e.right]
    BY <2>1 DEF DiffInv
  <2> QED
    BY <2>2, <2>3, <2>4 DEF DiffInv, ReportRecord
<1>3. CASE side = "right"
  <2> DEFINE s == d.right.functions
             t == Append(s, Function(1 + Len(s), text))
  <2>1. e = [d EXCEPT !.right.functions = t]
    BY <1>1, <1>3
  <2>2. Placed(t)
    BY OneMorePlaced DEF DiffInv
  <2>3. t \in Seq(AnyFunction)
    BY <2>2 DEF Placed
  <2> HIDE DEF t
  <2>4. e.right = [d.right EXCEPT !.functions = t] /\ e.left = d.left /\ e = [left |-> e.left, right |-> e.right]
    BY <2>1 DEF DiffInv
  <2> QED
    BY <2>2, <2>3, <2>4 DEF DiffInv, ReportRecord
<1> QED
  BY <1>1, <1>2, <1>3

\* A comparison is refused exactly when the right side is of an old schema or
\* of another decoder.
LEMMA RefusedOrNot ==
  ASSUME NEW d, DiffInv(d)
  PROVE  (Diff!ValidInventory(d.left) /\ Diff!ValidInventory(d.right) /\ Diff!SameDecoder(d.left, d.right))
           <=> d.right.schema = "current" /\ d.right.tool = Model
<1>1. /\ d.left.schema = "current" /\ d.left.layout = "current" /\ d.left.tool = Model
      /\ d.right.layout = "current" /\ d.right.tool \in [Diff!IdentityFields -> {"this", "other", ""}]
  BY DEF DiffInv, ReportRecord
<1>2. DOMAIN Model = Diff!IdentityFields /\ \A field \in Diff!IdentityFields : Model[field] = "this"
  BY DEF Model
<1>3. ASSUME d.right.schema = "current", d.right.tool = Model
      PROVE  Diff!ValidInventory(d.left) /\ Diff!ValidInventory(d.right) /\ Diff!SameDecoder(d.left, d.right)
  BY <1>1, <1>2, <1>3 DEF Diff!ValidInventory, Diff!SameDecoder, Diff!DecoderIdentity
<1>4. ASSUME Diff!ValidInventory(d.right), Diff!SameDecoder(d.left, d.right)
      PROVE  d.right.schema = "current" /\ d.right.tool = Model
  <2>1. d.right.schema = "current"
    BY <1>4 DEF Diff!ValidInventory
  <2>2. [field \in Diff!IdentityFields |-> Model[field]] = [field \in Diff!IdentityFields |-> d.right.tool[field]]
    BY <1>1, <1>4 DEF Diff!SameDecoder, Diff!DecoderIdentity
  <2>4. d.right.tool = Model
    <3>1. Model \in [Diff!IdentityFields -> {"this", "other", ""}]
      BY ONLY DEF Model
    <3>2. /\ Model = [field \in Diff!IdentityFields |-> Model[field]]
          /\ d.right.tool = [field \in Diff!IdentityFields |-> d.right.tool[field]]
      <4> HIDE DEF Model
      <4> QED
        BY <1>1, <3>1, Eta
    <3> QED
      BY <2>2, <3>2, Zenon
  <2> QED
    BY <2>1, <2>4
<1> QED
  BY <1>3, <1>4

\* The passes of a comparison of two such inventories, side by side.
LEMMA SidesOfPasses ==
  ASSUME NEW report, NEW l, NEW r, NEW P, IsComparison(report, l, r, P, AnyFunction), Placed(l[1]), Placed(r[1])
  PROVE  IsCut(1, l, P) /\ IsCut(2, r, P)
<1>1. \A n \in 1..3 : IsPass(P[n], l[n], r[n], l[n + 1], r[n + 1], Diff!Keys[n], AnyFunction)
  BY DEF IsComparison
<1>2. /\ \A f, g \in Elements(l[1]) : f.address = g.address => f = g
      /\ \A f, g \in Elements(r[1]) : f.address = g.address => f = g
      /\ IsFiniteSet(Elements(l[1])) /\ IsFiniteSet(Elements(r[1]))
  BY PlacedIsAList
<1>3. ASSUME NEW n \in 1..3
      PROVE  /\ \A p \in P[n] : p[1] \in Elements(l[n]) /\ p[2] \in Elements(r[n])
             /\ \A p, q \in P[n] : p[1] = q[1] \/ p[2] = q[2] => p = q
             /\ \A f : f \in Elements(l[n + 1]) <=> f \in Elements(l[n]) /\ \A p \in P[n] : p[1] # f
             /\ \A f : f \in Elements(r[n + 1]) <=> f \in Elements(r[n]) /\ \A p \in P[n] : p[2] # f
  BY <1>1 DEF IsPass
<1>4. IsSide(1, l, P)
  BY <1>2, <1>3, Zenon DEF IsSide
<1>5. IsSide(2, r, P)
  BY <1>2, <1>3, Zenon DEF IsSide
<1> QED
  BY <1>4, <1>5, SidesAreCut

\* What the passes pair is alike, and is not alike in a stronger way.
LEMMA PassesAreAlike ==
  ASSUME NEW report, NEW l, NEW r, NEW P, IsComparison(report, l, r, P, AnyFunction), Placed(l[1]), Placed(r[1])
  PROVE  /\ \A n \in 1..3 : \A p \in P[n] : p[1] \in Elements(l[1]) /\ p[2] \in Elements(r[1])
         /\ \A p \in P[1] : p[1].signature = p[2].signature
         /\ \A p \in P[2] : p[1].reference_signature = p[2].reference_signature /\ p[1].signature # p[2].signature
         /\ \A p \in P[3] : /\ p[1].shape_signature = p[2].shape_signature
                            /\ p[1].reference_signature # p[2].reference_signature
         /\ \A f \in Elements(l[4]), g \in Elements(r[4]) :
              f \in Elements(l[1]) /\ g \in Elements(r[1]) /\ f.shape_signature # g.shape_signature
<1>1. Diff!Keys[1] = "signature" /\ Diff!Keys[2] = "reference_signature" /\ Diff!Keys[3] = "shape_signature"
  BY DEF Diff!Keys
<1>2. \A n \in 1..3 : IsPass(P[n], l[n], r[n], l[n + 1], r[n + 1], Diff!Keys[n], AnyFunction)
  BY DEF IsComparison
<1>3. /\ IsPass(P[1], l[1], r[1], l[2], r[2], "signature", AnyFunction)
      /\ IsPass(P[2], l[2], r[2], l[3], r[3], "reference_signature", AnyFunction)
      /\ IsPass(P[3], l[3], r[3], l[4], r[4], "shape_signature", AnyFunction)
  <2>1. 1 \in 1..3 /\ 2 \in 1..3 /\ 3 \in 1..3 /\ 1 + 1 = 2 /\ 2 + 1 = 3 /\ 3 + 1 = 4
    OBVIOUS
  <2> QED
    BY <1>1, <1>2, <2>1
<1>4. /\ \A p \in P[1] : p[1] \in Elements(l[1]) /\ p[2] \in Elements(r[1]) /\ p[1].signature = p[2].signature
      /\ \A f \in Elements(l[2]) : f \in Elements(l[1])
      /\ \A f \in Elements(r[2]) : f \in Elements(r[1])
      /\ \A f \in Elements(l[2]), g \in Elements(r[2]) : f.signature # g.signature
  BY <1>3 DEF IsPass
<1>5. /\ \A p \in P[2] : /\ p[1] \in Elements(l[2]) /\ p[2] \in Elements(r[2])
                         /\ p[1].reference_signature = p[2].reference_signature
      /\ \A f \in Elements(l[3]) : f \in Elements(l[2])
      /\ \A f \in Elements(r[3]) : f \in Elements(r[2])
      /\ \A f \in Elements(l[3]), g \in Elements(r[3]) : f.reference_signature # g.reference_signature
  BY <1>3 DEF IsPass
<1>6. /\ \A p \in P[3] : p[1] \in Elements(l[3]) /\ p[2] \in Elements(r[3]) /\ p[1].shape_signature = p[2].shape_signature
      /\ \A f \in Elements(l[4]) : f \in Elements(l[3])
      /\ \A f \in Elements(r[4]) : f \in Elements(r[3])
      /\ \A f \in Elements(l[4]), g \in Elements(r[4]) : f.shape_signature # g.shape_signature
  BY <1>3 DEF IsPass
<1>7. \A n \in 1..3 : n = 1 \/ n = 2 \/ n = 3
  OBVIOUS
<1>8. \A n \in 1..3 : \A p \in P[n] : p[1] \in Elements(l[1]) /\ p[2] \in Elements(r[1])
  BY <1>4, <1>5, <1>6, <1>7, Zenon
<1> QED
  BY <1>4, <1>5, <1>6, <1>8, Zenon

\* Of the same inventory twice, nothing has moved.
LEMMA SameListsStay ==
  ASSUME NEW s, Placed(s), NEW p \in Diff!Pairs(s, s, "signature")
  PROVE  ~ Diff!Difference(p).moved
<1>1. IsList(s, AnyFunction)
  BY PlacedIsAList
<1> DEFINE A(x) == Diff!Group(s, "signature", x)
           Q == Diff!Pairs(s, s, "signature")
<1>0. \A q : q \in Q <=> \E x : \E n \in 1..Diff!Paired(A(x), A(x)) : q = <<A(x)[n], A(x)[n]>>
  BY <1>1, PairsAreZipped
<1>2. PICK x : \E n \in 1..Diff!Paired(A(x), A(x)) : p = <<A(x)[n], A(x)[n]>>
  BY <1>0, Zenon
<1>3. p[1] = p[2]
  BY <1>2
<1> QED
  BY <1>3 DEF Diff!Difference

\* What a comparison of two inventories of one model says is so.
LEMMA ComparedHonestly ==
  ASSUME NEW d, DiffInv(d), d.right.schema = "current", d.right.tool = Model,
         NEW report, NEW l, NEW r, NEW P, l[1] = d.left.functions, r[1] = d.right.functions,
         IsComparison(report, l, r, P, AnyFunction)
  PROVE  Honest(d, report)
<1> DEFINE At(side, address) == side.functions[address \div 10]
           classes == {"matched", "reference_only", "constant_only"}
           Firsts(class) == {p.left : p \in report[class]}
           Seconds(class) == {p.right : p \in report[class]}
           All(side) == {f.address : f \in {side.functions[n] : n \in 1..Len(side.functions)}}
           Partition(sets) == \A n, m \in DOMAIN sets : n # m => sets[n] \cap sets[m] = {}
           lefts == [class \in classes |-> Firsts(class)]
           rights == [class \in classes |-> Seconds(class)]
           Alike(p, signature) == At(d.left, p.left)[signature] = At(d.right, p.right)[signature]
           Occurs(side, text) == Cardinality({n \in 1..Len(side.functions) :
                                                side.functions[n].signature = <<text>>})
           Less(a, b) == IF a < b THEN a ELSE b
<1> DEFINE D(n) == {Diff!Difference(p) : p \in P[n]}
           Nr(class) == IF class = "matched" THEN 1 ELSE IF class = "reference_only" THEN 2 ELSE 3
<1>1. Placed(l[1]) /\ Placed(r[1])
  BY DEF DiffInv
<1>2. IsCut(1, l, P) /\ IsCut(2, r, P)
  BY <1>1, SidesOfPasses
<1>3. \A class \in classes : Nr(class) \in 1..3 /\ report[class] = D(Nr(class))
  <2>1. report["matched"] = D(1) /\ report["reference_only"] = D(2) /\ report["constant_only"] = D(3)
    BY DEF IsComparison
  <2>2. Nr("matched") = 1 /\ Nr("reference_only") = 2 /\ Nr("constant_only") = 3
    OBVIOUS
  <2>3. 1 \in 1..3 /\ 2 \in 1..3 /\ 3 \in 1..3
    OBVIOUS
  <2>4. \A class \in classes : class = "matched" \/ class = "reference_only" \/ class = "constant_only"
    OBVIOUS
  <2> HIDE DEF D, Nr
  <2> QED
    BY <2>1, <2>2, <2>3, <2>4
<1>4. /\ \A c, k \in classes : c # k => Nr(c) # Nr(k)
      /\ \A n \in 1..3 : \E c \in classes : Nr(c) = n
  OBVIOUS
<1>5. ASSUME NEW n \in 1..3 PROVE IsClass(P[n], D(n))
  <2> DEFINE Q == P[n]
  <2>1. /\ IsFiniteSet(Addresses(Q, 1)) /\ IsFiniteSet(Addresses(Q, 2))
        /\ \A p, q \in Q : p[1].address = q[1].address => p = q
        /\ \A p, q \in Q : p[2].address = q[2].address => p = q
    BY <1>2 DEF IsCut
  <2> HIDE DEF Q
  <2>2. IsClass(Q, {Diff!Difference(p) : p \in Q})
    BY <2>1, ClassIs
  <2> QED
    BY <2>2 DEF Q
<1> HIDE DEF D, Nr
<1>6. ASSUME NEW class \in classes
      PROVE  /\ Firsts(class) = Addresses(P[Nr(class)], 1) /\ Seconds(class) = Addresses(P[Nr(class)], 2)
             /\ Cardinality(Firsts(class)) = Cardinality(report[class])
             /\ Cardinality(Seconds(class)) = Cardinality(report[class])
  BY <1>3, <1>5 DEF IsClass
<1>7. /\ report.status = "compared"
      /\ report.only_in_left = AddressesOf(Elements(l[4]))
      /\ report.only_in_right = AddressesOf(Elements(r[4]))
      /\ report.matched = D(1) /\ report.reference_only = D(2) /\ report.constant_only = D(3)
  BY DEF IsComparison, AddressesOf, D
<1>8. ASSUME NEW class \in classes
      PROVE  Firsts(class) \cap report.only_in_left = {} /\ Seconds(class) \cap report.only_in_right = {}
  <2> HIDE DEF Firsts, Seconds
  <2> QED
    BY <1>2, <1>3, <1>6, <1>7 DEF IsCut
<1>9. Partition(lefts) /\ Partition(rights)
  <2>1. ASSUME NEW c \in classes, NEW k \in classes, c # k
        PROVE  Firsts(c) \cap Firsts(k) = {} /\ Seconds(c) \cap Seconds(k) = {}
    <3> HIDE DEF Firsts, Seconds
    <3> QED
      BY <1>2, <1>3, <1>4, <1>6, <2>1 DEF IsCut
  <2>2. /\ DOMAIN lefts = classes /\ \A c \in classes : lefts[c] = Firsts(c)
        /\ DOMAIN rights = classes /\ \A c \in classes : rights[c] = Seconds(c)
    <3> HIDE DEF Firsts, Seconds
    <3> QED
      OBVIOUS
  <2> HIDE DEF Firsts, Seconds, lefts, rights
  <2> QED
    BY <2>1, <2>2
<1>10. All(d.left) = AddressesOf(Elements(l[1])) /\ All(d.right) = AddressesOf(Elements(r[1]))
  BY Zenon DEF AddressesOf, Elements
<1>11. /\ (UNION {lefts[class] : class \in classes}) \cup report.only_in_left = All(d.left)
       /\ (UNION {rights[class] : class \in classes}) \cup report.only_in_right = All(d.right)
  <2>1. /\ \A c \in classes : lefts[c] = Addresses(P[Nr(c)], 1)
        /\ \A c \in classes : rights[c] = Addresses(P[Nr(c)], 2)
    <3>1. /\ \A c \in classes : lefts[c] = Firsts(c) /\ rights[c] = Seconds(c)
      <4> HIDE DEF Firsts, Seconds
      <4> QED
        OBVIOUS
    <3> HIDE DEF Firsts, Seconds, lefts, rights
    <3> QED
      BY <1>6, <3>1
  <2>2. /\ (Addresses(P[1], 1) \cup Addresses(P[2], 1) \cup Addresses(P[3], 1)) \cup AddressesOf(Elements(l[4]))
              = AddressesOf(Elements(l[1]))
        /\ (Addresses(P[1], 2) \cup Addresses(P[2], 2) \cup Addresses(P[3], 2)) \cup AddressesOf(Elements(r[4]))
              = AddressesOf(Elements(r[1]))
    BY <1>2 DEF IsCut
  <2> HIDE DEF lefts, rights, All, classes, Firsts, Seconds
  <2>3. UNION {lefts[class] : class \in classes} = Addresses(P[1], 1) \cup Addresses(P[2], 1) \cup Addresses(P[3], 1)
    <3>1. \A n \in 1..3 : n = 1 \/ n = 2 \/ n = 3
      OBVIOUS
    <3>2. 1 \in 1..3 /\ 2 \in 1..3 /\ 3 \in 1..3
      OBVIOUS
    <3>3. \A x : x \in UNION {lefts[class] : class \in classes} <=> \E c \in classes : x \in lefts[c]
      OBVIOUS
    <3>4. \A x : (\E c \in classes : x \in lefts[c]) <=> \E n \in 1..3 : x \in Addresses(P[n], 1)
      BY <1>3, <1>4, <2>1
    <3>5. \A x : (\E n \in 1..3 : x \in Addresses(P[n], 1)) <=>
                   x \in Addresses(P[1], 1) \/ x \in Addresses(P[2], 1) \/ x \in Addresses(P[3], 1)
      BY <3>1, <3>2
    <3> QED
      BY <3>3, <3>4, <3>5
  <2>4. UNION {rights[class] : class \in classes} = Addresses(P[1], 2) \cup Addresses(P[2], 2) \cup Addresses(P[3], 2)
    <3>1. \A n \in 1..3 : n = 1 \/ n = 2 \/ n = 3
      OBVIOUS
    <3>2. 1 \in 1..3 /\ 2 \in 1..3 /\ 3 \in 1..3
      OBVIOUS
    <3>3. \A x : x \in UNION {rights[class] : class \in classes} <=> \E c \in classes : x \in rights[c]
      OBVIOUS
    <3>4. \A x : (\E c \in classes : x \in rights[c]) <=> \E n \in 1..3 : x \in Addresses(P[n], 2)
      BY <1>3, <1>4, <2>1
    <3>5. \A x : (\E n \in 1..3 : x \in Addresses(P[n], 2)) <=>
                   x \in Addresses(P[1], 2) \/ x \in Addresses(P[2], 2) \/ x \in Addresses(P[3], 2)
      BY <3>1, <3>2
    <3> QED
      BY <3>3, <3>4, <3>5
  <2> QED
    BY <1>7, <1>10, <2>2, <2>3, <2>4
<1> HIDE DEF lefts, rights, Firsts, Seconds, All, Partition, Occurs, Less, classes
<1>12. /\ \A f \in Elements(l[1]) : At(d.left, f.address) = f
       /\ \A f \in Elements(r[1]) : At(d.right, f.address) = f
  BY <1>1, PlacedIsAList
<1> HIDE DEF At
<1>13. ASSUME NEW n \in 1..3, NEW x \in D(n)
       PROVE  \E p \in P[n] : At(d.left, x.left) = p[1] /\ At(d.right, x.right) = p[2]
  <2>1. PICK p \in P[n] : x = Diff!Difference(p)
    BY DEF D
  <2>2. x.left = p[1].address /\ x.right = p[2].address
    BY <2>1 DEF Diff!Difference
  <2>3. p[1] \in Elements(l[1]) /\ p[2] \in Elements(r[1])
    BY <1>1, PassesAreAlike
  <2> QED
    BY <1>12, <2>2, <2>3
<1>14. 1 \in 1..3 /\ 2 \in 1..3 /\ 3 \in 1..3
  OBVIOUS
<1>15. /\ \A p \in P[1] : p[1].signature = p[2].signature
       /\ \A p \in P[2] : p[1].reference_signature = p[2].reference_signature /\ p[1].signature # p[2].signature
       /\ \A p \in P[3] : /\ p[1].shape_signature = p[2].shape_signature
                          /\ p[1].reference_signature # p[2].reference_signature
       /\ \A f \in Elements(l[4]), g \in Elements(r[4]) :
            f \in Elements(l[1]) /\ g \in Elements(r[1]) /\ f.shape_signature # g.shape_signature
  BY <1>1, PassesAreAlike
<1>16. \A x \in report.matched : Alike(x, "signature")
  BY <1>7, <1>13, <1>14, <1>15
<1>17. \A x \in report.reference_only : Alike(x, "reference_signature") /\ ~ Alike(x, "signature")
  BY <1>7, <1>13, <1>14, <1>15
<1>18. \A x \in report.constant_only : Alike(x, "shape_signature") /\ ~ Alike(x, "reference_signature")
  BY <1>7, <1>13, <1>14, <1>15
<1>19. \A a \in report.only_in_left, b \in report.only_in_right :
         At(d.left, a).shape_signature # At(d.right, b).shape_signature
  <2>1. /\ \A a \in report.only_in_left : \E f \in Elements(l[4]) : a = f.address
        /\ \A b \in report.only_in_right : \E g \in Elements(r[4]) : b = g.address
    BY <1>7 DEF AddressesOf
  <2>2. \A f \in Elements(l[4]), g \in Elements(r[4]) :
          At(d.left, f.address).shape_signature # At(d.right, g.address).shape_signature
    BY <1>12, <1>15
  <2> QED
    BY <2>1, <2>2, Zenon
<1>20. ASSUME NEW text \in Texts
       PROVE  Cardinality({p \in report.matched : At(d.left, p.left).signature = <<text>>})
                = Less(Occurs(d.left, text), Occurs(d.right, text))
  <2>1. IsPass(P[1], l[1], r[1], l[2], r[2], "signature", AnyFunction)
    <3>1. 1 \in 1..3 /\ 1 + 1 = 2 /\ Diff!Keys[1] = "signature"
      BY DEF Diff!Keys
    <3> QED
      BY <3>1 DEF IsComparison
  <2> DEFINE t == <<text>>
             a == Cardinality(WithSignature(l[1], t))
             b == Cardinality(WithSignature(r[1], t))
  <2> HIDE DEF t
  <2>2. Cardinality(MatchedOf(l[1], {Diff!Difference(p) : p \in P[1]}, t)) = IF a < b THEN a ELSE b
    BY <1>1, <2>1, MatchedAreCounted
  <2>3. MatchedOf(l[1], {Diff!Difference(p) : p \in P[1]}, t)
          = {p \in report.matched : At(d.left, p.left).signature = t}
    BY <1>7, Zenon DEF MatchedOf, D, At
  <2>4. Occurs(d.left, text) = a /\ Occurs(d.right, text) = b
    BY Zenon DEF Occurs, WithSignature, t
  <2>5. Less(a, b) = IF a < b THEN a ELSE b
    BY Zenon DEF Less
  <2> HIDE DEF a, b
  <2> QED
    BY <2>2, <2>3, <2>4, <2>5, Zenon DEF t
<1>21. d.left.functions = d.right.functions => \A x \in report.matched : ~ x.moved
  <2> SUFFICES ASSUME d.left.functions = d.right.functions, NEW x \in report.matched PROVE ~ x.moved
    BY Zenon
  <2>1. PICK p \in P[1] : x = Diff!Difference(p)
    BY <1>7 DEF D
  <2>2. p \in Diff!Pairs(l[1], l[1], "signature")
    BY DEF IsComparison
  <2> QED
    BY <1>1, <2>1, <2>2, SameListsStay
<1>22. \A class \in classes :
         /\ Cardinality(Firsts(class)) = Cardinality(report[class])
         /\ Cardinality(Seconds(class)) = Cardinality(report[class])
         /\ Firsts(class) \cap report.only_in_left = {}
         /\ Seconds(class) \cap report.only_in_right = {}
  BY <1>6, <1>8, Zenon
<1>23. \A text \in Texts :
         Cardinality({p \in report.matched : At(d.left, p.left).signature = <<text>>})
           = Less(Occurs(d.left, text), Occurs(d.right, text))
  BY <1>20, Zenon
<1> QED
  BY <1>7, <1>9, <1>11, <1>16, <1>17, <1>18, <1>19, <1>21, <1>22, <1>23, Zenon
  DEF Honest, At, lefts, rights, Firsts, Seconds, All, Partition, Occurs, Less, classes

\* Of two inventories of any number of functions, the comparison is honest.
LEMMA ComparisonsAreHonest ==
  ASSUME NEW d, DiffInv(d)
  PROVE  DiffIsHonest(d)
<1>1. CASE d.right.schema = "current" /\ d.right.tool = Model
  <2>1. /\ Diff!ValidInventory(d.left) /\ Diff!ValidInventory(d.right) /\ Diff!SameDecoder(d.left, d.right)
        /\ IsList(d.left.functions, AnyFunction) /\ IsList(d.right.functions, AnyFunction)
    BY <1>1, RefusedOrNot, PlacedIsAList DEF DiffInv
  <2>2. PICK l, r, P : /\ l[1] = d.left.functions /\ r[1] = d.right.functions
                       /\ IsComparison(Diff!Compare(d.left, d.right), l, r, P, AnyFunction)
    BY <2>1, PassesAre
  <2> QED
    BY <1>1, <2>2, ComparedHonestly DEF DiffIsHonest
<1>2. CASE ~ (d.right.schema = "current" /\ d.right.tool = Model)
  <2>1. Diff!Compare(d.left, d.right) = [status |-> "refused"]
    BY <1>2, RefusedOrNot, Zenon DEF Diff!Compare
  <2>2. Diff!Compare(d.left, d.right).status = "refused"
    BY <2>1
  <2> QED
    BY <1>2, <2>2, Zenon DEF DiffIsHonest, Honest
<1> QED
  BY <1>1, <1>2

-----------------------------------------------------------------------------
(* Code inventories: increasing lists of addresses, and where they are cut. *)

Increasing(s) == s \in Seq(Int) /\ \A n, m \in 1..Len(s) : n < m => s[n] < s[m]

\* The first b of an increasing list are those up to x.
IsCutAt(b, s, x) == b \in 0..Len(s) /\ \A i \in 1..Len(s) : s[i] <= x <=> i <= b

LEMMA CutAt ==
  ASSUME NEW s, Increasing(s), NEW x \in Int
  PROVE  \E b : IsCutAt(b, s, x)
<1> DEFINE n0 == Len(s)
           T == {i \in 0..n0 : \A k \in 1..n0 : k > i => ~(s[k] <= x)}
<1>1. n0 \in Nat /\ (\A i \in 1..n0 : s[i] \in Int) /\ \A n, m \in 1..n0 : n < m => s[n] < s[m]
  BY DEF Increasing
<1> HIDE DEF n0
<1>2. n0 \in T
  BY <1>1
<1>3. T \in SUBSET Nat /\ T # {}
  BY <1>1, <1>2
<1>4. PICK b \in T : \A y \in T : b <= y
  BY <1>3, Least
<1>5. b \in 0..n0 /\ \A k \in 1..n0 : k > b => ~(s[k] <= x)
  BY <1>4
<1>6. ASSUME NEW i \in 1..n0, i <= b PROVE s[i] <= x
  <2>1. b - 1 \in 0..n0 /\ b - 1 < b /\ b \in 1..n0 /\ b \in Nat
    BY <1>1, <1>5, <1>6
  <2>2. b - 1 \notin T
    BY <1>4, <2>1
  <2>3. PICK k \in 1..n0 : k > b - 1 /\ s[k] <= x
    BY <2>1, <2>2
  <2>4. k = b
    BY <1>1, <1>5, <2>1, <2>3
  <2>5. i = b \/ s[i] < s[b]
    BY <1>1, <1>6, <2>1
  <2> QED
    BY <1>1, <2>1, <2>3, <2>4, <2>5
<1>7. ASSUME NEW i \in 1..n0, ~(i <= b) PROVE ~(s[i] <= x)
  BY <1>1, <1>5, <1>7
<1>8. IsCutAt(b, s, x)
  BY <1>5, <1>6, <1>7 DEF IsCutAt, n0
<1> QED
  BY <1>8

\* The bisection finds where the starts are cut.
LEMMA OwnerIs ==
  ASSUME NEW starts, Increasing(starts), NEW address \in Int, NEW b, IsCutAt(b, starts, address)
  PROVE  Inventory!Owner(starts, address) = b
<1> DEFINE n0 == Len(starts)
           State == [low : 1..(n0 + 1), high : 0..n0, best : 0..n0]
           Mid(s) == (s.low + s.high) \div 2
           Right(s) == [low |-> Mid(s) + 1, high |-> s.high, best |-> Mid(s)]
           Left(s) == [low |-> s.low, high |-> Mid(s) - 1, best |-> s.best]
           Search(h) == h = [s \in State |->
                          IF s.low > s.high THEN s.best
                          ELSE IF starts[Mid(s)] <= address THEN h[Right(s)] ELSE h[Left(s)]]
           G == CHOOSE h : Search(h)
           first == [low |-> 1, high |-> n0, best |-> 0]
<1>1. Inventory!Owner(starts, address) = G[first]
  BY Zenon DEF Inventory!Owner
<1>2. n0 \in Nat /\ b \in 0..n0 /\ \A i \in 1..n0 : starts[i] <= address <=> i <= b
  BY DEF Increasing, IsCutAt
<1> HIDE DEF n0
<1>3. ASSUME NEW s \in State, ~(s.low > s.high)
      PROVE  /\ Mid(s) \in 1..n0 /\ s.low <= Mid(s) /\ Mid(s) <= s.high
             /\ Right(s) \in State /\ Left(s) \in State
             /\ Right(s).low = Mid(s) + 1 /\ Right(s).high = s.high /\ Right(s).best = Mid(s)
             /\ Left(s).low = s.low /\ Left(s).high = Mid(s) - 1 /\ Left(s).best = s.best
  <2>1. s.low \in 1..(n0 + 1) /\ s.high \in 0..n0 /\ s.best \in 0..n0
    OBVIOUS
  <2> DEFINE lo == s.low
             hi == s.high
  <2>2. lo \in Nat /\ hi \in Nat /\ lo <= hi /\ lo >= 1 /\ hi <= n0
    BY <1>2, <1>3, <2>1
  <2> HIDE DEF lo, hi
  <2>3. (lo + hi) \div 2 \in Int /\ lo <= (lo + hi) \div 2 /\ (lo + hi) \div 2 <= hi
    BY <2>2
  <2>4. Mid(s) \in Int /\ s.low <= Mid(s) /\ Mid(s) <= s.high
    BY <2>3 DEF lo, hi
  <2>5. Mid(s) \in 1..n0 /\ Mid(s) + 1 \in 1..(n0 + 1) /\ Mid(s) - 1 \in 0..n0 /\ Mid(s) \in 0..n0
    <3> HIDE DEF Mid
    <3> QED
      BY <1>2, <2>1, <2>4
  <2> HIDE DEF Mid
  <2> QED
    BY <2>1, <2>4, <2>5
\* What the search finds from any state, since the list is cut at b.
<1> DEFINE f == [s \in State |-> IF s.low > s.high \/ b < s.low THEN s.best
                                 ELSE IF b < s.high THEN b ELSE s.high]
<1>4. \A s \in State : f[s] = IF s.low > s.high \/ b < s.low THEN s.best
                              ELSE IF b < s.high THEN b ELSE s.high
  <2> HIDE DEF State
  <2> QED
    OBVIOUS
<1>5. ASSUME NEW s \in State
      PROVE  f[s] = IF s.low > s.high THEN s.best
                    ELSE IF starts[Mid(s)] <= address THEN f[Right(s)] ELSE f[Left(s)]
  <2>1. s.low \in 1..(n0 + 1) /\ s.high \in 0..n0 /\ s.best \in 0..n0
    OBVIOUS
  <2>2. CASE s.low > s.high
    BY <1>4, <2>2
  <2>3. CASE ~(s.low > s.high)
    <3>1. /\ Mid(s) \in 1..n0 /\ s.low <= Mid(s) /\ Mid(s) <= s.high
          /\ Right(s) \in State /\ Left(s) \in State
          /\ Right(s).low = Mid(s) + 1 /\ Right(s).high = s.high /\ Right(s).best = Mid(s)
          /\ Left(s).low = s.low /\ Left(s).high = Mid(s) - 1 /\ Left(s).best = s.best
      BY <1>3, <2>3
    <3>2. starts[Mid(s)] <= address <=> Mid(s) <= b
      BY <1>2, <3>1
    <3> DEFINE rs == Right(s)
               ls == Left(s)
               mid == Mid(s)
    <3>3. /\ f[rs] = (IF rs.low > rs.high \/ b < rs.low THEN rs.best ELSE IF b < rs.high THEN b ELSE rs.high)
          /\ f[ls] = (IF ls.low > ls.high \/ b < ls.low THEN ls.best ELSE IF b < ls.high THEN b ELSE ls.high)
      <4> HIDE DEF State, Right, Left, f
      <4> QED
        BY <1>4, <3>1
    <3>4. /\ f[rs] = (IF mid + 1 > s.high \/ b < mid + 1 THEN mid ELSE IF b < s.high THEN b ELSE s.high)
          /\ f[ls] = (IF s.low > mid - 1 \/ b < s.low THEN s.best ELSE IF b < mid - 1 THEN b ELSE mid - 1)
      <4> HIDE DEF State, Right, Left, f, Mid
      <4> QED
        BY <3>1, <3>3
    <3>5. f[s] = IF b < s.low THEN s.best ELSE IF b < s.high THEN b ELSE s.high
      <4> HIDE DEF State, f
      <4> QED
        BY <1>4, <2>3
    <3> HIDE DEF f, rs, ls, mid, State
    <3>6. mid \in 1..n0 /\ s.low <= mid /\ mid <= s.high
      BY <3>1 DEF mid
    <3>7. CASE mid <= b
      <4>1. f[rs] = f[s]
        BY <1>2, <2>1, <2>3, <3>4, <3>5, <3>6, <3>7
      <4> QED
        BY <2>3, <3>2, <3>7, <4>1, Zenon DEF rs, mid
    <3>8. CASE ~(mid <= b)
      <4>1. f[ls] = f[s]
        BY <1>2, <2>1, <2>3, <3>4, <3>5, <3>6, <3>8
      <4> QED
        BY <2>3, <3>2, <3>8, <4>1, Zenon DEF ls, mid
    <3> QED
      BY <3>7, <3>8
  <2> QED
    BY <2>2, <2>3
<1>6. Search(f)
  <2> DEFINE Next(s) == IF s.low > s.high THEN s.best
                        ELSE IF starts[Mid(s)] <= address THEN f[Right(s)] ELSE f[Left(s)]
  <2>1. \A s \in State : f[s] = Next(s)
    BY <1>5, Zenon
  <2>2. f = [s \in State |-> f[s]]
    <3> HIDE DEF State
    <3> QED
      OBVIOUS
  <2> HIDE DEF State, f, Next
  <2>3. f = [s \in State |-> Next(s)]
    BY <2>1, <2>2
  <2> QED
    BY <2>3, Zenon DEF Next
<1>7. Search(G)
  <2> HIDE DEF f, Search
  <2> QED
    BY <1>6, Zenon
<1> DEFINE Follows(h) == \A s \in State : h[s] = IF s.low > s.high THEN s.best
                                          ELSE IF starts[Mid(s)] <= address THEN h[Right(s)] ELSE h[Left(s)]
<1>8. Follows(f) /\ Follows(G)
  <2>1. Follows(f)
    BY <1>5, Zenon
  <2>2. Follows(G)
    <3> DEFINE Next(s) == IF s.low > s.high THEN s.best
                          ELSE IF starts[Mid(s)] <= address THEN G[Right(s)] ELSE G[Left(s)]
    <3>1. G = [s \in State |-> Next(s)]
      BY <1>7, Zenon
    <3> HIDE DEF G, State, Next
    <3>2. \A s \in State : G[s] = Next(s)
      BY <3>1
    <3> QED
      BY <3>2, Zenon DEF Next
  <2> QED
    BY <2>1, <2>2
<1> HIDE DEF G
\* One search finds what the other does, by induction on the states between.
<1> DEFINE S == {k \in Nat : \A s \in State : s.high - s.low < k => G[s] = f[s]}
<1>9. ASSUME NEW s \in State, s.low > s.high PROVE G[s] = f[s]
  <2> HIDE DEF State, f
  <2> QED
    BY <1>8, <1>9, Zenon
<1>10. 0 \in S
  <2> SUFFICES ASSUME NEW s \in State, s.high - s.low < 0 PROVE G[s] = f[s]
    BY Zenon
  <2>1. s.low > s.high
    <3>1. s.low \in 1..(n0 + 1) /\ s.high \in 0..n0
      OBVIOUS
    <3> QED
      BY <3>1, <1>2
  <2> QED
    BY <1>9, <2>1
<1>11. ASSUME NEW k \in Nat, k \in S PROVE k + 1 \in S
  <2> SUFFICES ASSUME NEW s \in State, s.high - s.low < k + 1 PROVE G[s] = f[s]
    <3>1. k + 1 \in Nat
      OBVIOUS
    <3> QED
      BY <3>1, Zenon
  <2>1. CASE s.low > s.high
    BY <1>9, <2>1
  <2>2. CASE ~(s.low > s.high)
    <3>1. /\ Mid(s) \in 1..n0 /\ s.low <= Mid(s) /\ Mid(s) <= s.high
          /\ Right(s) \in State /\ Left(s) \in State
          /\ Right(s).low = Mid(s) + 1 /\ Right(s).high = s.high
          /\ Left(s).low = s.low /\ Left(s).high = Mid(s) - 1
      BY <1>3, <2>2
    <3>2. s.low \in Int /\ s.high \in Int /\ n0 \in Nat
      BY <1>2
    <3> DEFINE mid == Mid(s)
               rs == Right(s)
               ls == Left(s)
    <3>3. rs.high - rs.low < k /\ ls.high - ls.low < k
      <4> HIDE DEF State, rs, ls, mid, S
      <4>1. mid \in 1..n0 /\ s.low <= mid /\ mid <= s.high /\ rs.low = mid + 1 /\ rs.high = s.high
            /\ ls.low = s.low /\ ls.high = mid - 1
        BY <3>1 DEF mid, rs, ls
      <4> QED
        BY <3>2, <4>1
    <3>4. G[rs] = f[rs] /\ G[ls] = f[ls]
      <4>1. rs \in State /\ ls \in State
        BY <3>1, Zenon
      <4> HIDE DEF State, rs, ls, f
      <4> QED
        BY <1>11, <3>3, <4>1, Zenon
    <3> HIDE DEF State, f
    <3> QED
      BY <1>8, <2>2, <3>4, Zenon
  <2> QED
    BY <2>1, <2>2
<1> HIDE DEF S
<1>12. \A k \in Nat : k \in S
  BY <1>10, <1>11, Induction
<1>13. first \in State /\ first.high = n0 /\ first.low = 1 /\ first.best = 0
  BY <1>2
<1>14. G[first] = f[first]
  <2>1. n0 \in S
    BY <1>2, <1>12
  <2>2. first.high - first.low < n0
    BY <1>2, <1>13
  <2> HIDE DEF State, f, first
  <2> QED
    BY <1>13, <2>1, <2>2, Zenon DEF S
<1>15. f[first] = b
  <2> HIDE DEF State, f, first
  <2>1. f[first] = IF first.low > first.high \/ b < first.low THEN first.best
                   ELSE IF b < first.high THEN b ELSE first.high
    BY <1>4, <1>13
  <2> QED
    BY <1>2, <1>13, <2>1
<1> QED
  BY <1>1, <1>14, <1>15

\* A list of starts is in order, and holds the addresses in the range.
LEMMA SortedIs ==
  ASSUME NEW A, NEW low \in Int, NEW high \in Int, low <= high
  PROVE  /\ Increasing(Inventory!Sorted(A, low, high))
         /\ \A x : x \in Elements(Inventory!Sorted(A, low, high)) <=> x \in A /\ x \in low..(high - 1)
<1> DEFINE n0 == high - low
           s == [i \in 1..n0 |-> low + i - 1]
           S == {i \in 1..n0 : low + i - 1 \in A}
           c == Inventory!Sorted(A, low, high)
<1>1. c = Chosen(s, S)
  BY Zenon DEF Inventory!Sorted, Inventory!Chosen, Chosen
<1>2. n0 \in Nat
  OBVIOUS
<1> HIDE DEF n0
<1>3. s \in Seq(Int) /\ Len(s) = n0
  <2>1. s \in [1..n0 -> Int]
    BY <1>2
  <2> HIDE DEF s
  <2> QED
    BY <1>2, <2>1, IsSequence
<1>4. \A i \in 1..n0 : s[i] = low + i - 1
  OBVIOUS
<1>5. \A i : i \in S <=> i \in 1..n0 /\ low + i - 1 \in A
  OBVIOUS
<1> HIDE DEF s, S, c
<1>6. PICK at : Selects(at, c, s, S, Int)
  <2>1. S \in SUBSET (1..Len(s))
    BY <1>3, <1>5
  <2> QED
    BY <1>1, <1>3, <2>1, ChosenIs
<1>7. /\ c \in Seq(Int) /\ at \in [1..Len(c) -> S]
      /\ \A n, m \in 1..Len(c) : n < m => at[n] < at[m]
      /\ \A i \in S : \E n \in 1..Len(c) : at[n] = i
      /\ \A n \in 1..Len(c) : c[n] = s[at[n]]
  BY <1>6, Zenon DEF Selects
<1>8. \A n \in 1..Len(c) : at[n] \in 1..n0 /\ c[n] = low + at[n] - 1 /\ c[n] \in A
  <2> SUFFICES ASSUME NEW n \in 1..Len(c) PROVE at[n] \in 1..n0 /\ c[n] = low + at[n] - 1 /\ c[n] \in A
    OBVIOUS
  <2>1. at[n] \in S /\ c[n] = s[at[n]]
    BY <1>7
  <2>2. at[n] \in 1..n0 /\ low + at[n] - 1 \in A
    BY <1>5, <2>1
  <2> QED
    BY <1>4, <2>1, <2>2
<1>9. Increasing(c)
  <2>1. ASSUME NEW n \in 1..Len(c), NEW m \in 1..Len(c), n < m PROVE c[n] < c[m]
    <3>1. at[n] < at[m] /\ at[n] \in Int /\ at[m] \in Int
      BY <1>7, <1>8, <2>1
    <3> QED
      BY <1>8, <3>1
  <2> QED
    BY <1>7, <2>1 DEF Increasing
<1>10. ASSUME NEW x \in Elements(c) PROVE x \in A /\ x \in low..(high - 1)
  <2>1. PICK n \in 1..Len(c) : x = c[n]
    BY DEF Elements
  <2>2. at[n] \in 1..n0 /\ x = low + at[n] - 1 /\ x \in A
    BY <1>8, <2>1
  <2> QED
    BY <2>2 DEF n0
<1>11. ASSUME NEW x \in A, x \in low..(high - 1) PROVE x \in Elements(c)
  <2> DEFINE i == x - low + 1
  <2>1. i \in 1..n0 /\ low + i - 1 = x
    BY <1>11 DEF n0
  <2> HIDE DEF i
  <2>2. i \in S
    BY <1>5, <2>1
  <2>3. PICK n \in 1..Len(c) : at[n] = i
    BY <1>7, <2>2
  <2>4. c[n] = x
    BY <1>8, <2>1, <2>3
  <2> QED
    BY <2>4 DEF Elements
<1> QED
  BY <1>9, <1>10, <1>11 DEF c

LEMMA HowMany ==
  ASSUME NEW a \in Nat, NEW b \in Nat, a <= b
  PROVE  Cardinality((a + 1)..b) = b - a /\ Cardinality(1..b) = b
<1>1. a + 1 \in Int /\ b \in Int /\ 1 \in Int
  OBVIOUS
<1>2. Cardinality((a + 1)..b) = IF a + 1 > b THEN 0 ELSE b - (a + 1) + 1
  BY <1>1, FS_Interval
<1>3. Cardinality(1..b) = IF 1 > b THEN 0 ELSE b - 1 + 1
  BY <1>1, FS_Interval
<1> QED
  BY <1>2, <1>3

\* What is chosen is as many as the positions.
LEMMA ChosenCounts ==
  ASSUME NEW V, NEW s \in Seq(V), NEW S \in SUBSET (1..Len(s))
  PROVE  Len(Chosen(s, S)) = Cardinality(S) /\ Len(Chosen(s, S)) \in Nat
<1> DEFINE c == Chosen(s, S)
<1>1. PICK at : Selects(at, c, s, S, V)
  <2> HIDE DEF c
  <2> QED
    BY ChosenIs DEF c
<1> HIDE DEF c
<1>2. /\ c \in Seq(V) /\ at \in [1..Len(c) -> S]
      /\ \A n, m \in 1..Len(c) : n < m => at[n] < at[m]
      /\ \A i \in S : \E n \in 1..Len(c) : at[n] = i
  BY <1>1, Zenon DEF Selects
<1>3. Len(c) \in Nat /\ Len(s) \in Nat
  BY <1>2
<1>4. IsFiniteSet(1..Len(s)) /\ Cardinality(1..Len(c)) = Len(c)
  <2> DEFINE m == Len(c)
  <2> HIDE DEF m
  <2>1. m \in Nat
    BY <1>3 DEF m
  <2>2. Cardinality(1..m) = m
    BY <2>1, HowMany
  <2>3. IsFiniteSet(1..Len(s))
    BY <1>3, FS_Interval
  <2> QED
    BY <2>2, <2>3 DEF m
<1>5. IsFiniteSet(S)
  BY <1>4, FS_Subset
<1>6. IsInto(at, 1..Len(c), S)
  <2>1. ASSUME NEW n \in 1..Len(c), NEW m \in 1..Len(c), at[n] = at[m] PROVE n = m
    <3>1. at[n] \in 1..Len(s) /\ at[m] \in 1..Len(s)
      BY <1>2
    <3>2. at[n] \in Nat /\ at[m] \in Nat
      BY <1>3, <3>1
    <3>3. n < m \/ m < n \/ n = m
      BY <1>3
    <3> QED
      BY <1>2, <2>1, <3>2, <3>3
  <2> QED
    BY <1>2, <2>1 DEF IsInto
<1>7. IsOnto(at, 1..Len(c), S)
  BY <1>2, <1>6 DEF IsOnto
<1>8. Cardinality(1..Len(c)) = Cardinality(S)
  BY <1>5, <1>7, SameSize
<1> QED
  BY <1>3, <1>4, <1>8 DEF c

\* When the positions are an interval, so are the places.
LEMMA ChosenInterval ==
  ASSUME NEW V, NEW s \in Seq(V), NEW a \in Nat, NEW b \in Nat, a <= b, b <= Len(s)
  PROVE  /\ Len(Chosen(s, (a + 1)..b)) = b - a
         /\ \A k \in 1..(b - a) : Chosen(s, (a + 1)..b)[k] = s[a + k]
<1> DEFINE S == (a + 1)..b
           c == Chosen(s, S)
           m0 == Len(c)
<1>0. S \in SUBSET (1..Len(s)) /\ \A i : i \in S <=> i \in Int /\ a + 1 <= i /\ i <= b
  OBVIOUS
<1>1. m0 = b - a
  <2>1. m0 = Cardinality(S)
    <3> HIDE DEF S
    <3> QED
      BY <1>0, ChosenCounts
  <2>2. Cardinality(S) = b - a
    BY HowMany
  <2> HIDE DEF m0, S
  <2> QED
    BY <2>1, <2>2
<1> HIDE DEF S, c
<1>2. PICK at : Selects(at, c, s, S, V)
  BY <1>0, ChosenIs DEF c
<1>3. /\ at \in [1..m0 -> S]
      /\ \A n, m \in 1..m0 : n < m => at[n] < at[m]
      /\ \A i \in S : \E n \in 1..m0 : at[n] = i
      /\ \A n \in 1..m0 : c[n] = s[at[n]]
  BY <1>2, Zenon DEF Selects
<1>4. m0 \in Nat
  BY <1>1
<1> HIDE DEF m0
<1> DEFINE T == {k \in Nat : k \in 1..m0 => at[k] = a + k}
<1>5. 0 \in T
  OBVIOUS
<1>6. ASSUME NEW k \in Nat, k \in T PROVE k + 1 \in T
  <2> SUFFICES ASSUME k + 1 \in 1..m0 PROVE at[k + 1] = a + (k + 1)
    OBVIOUS
  <2>1. at[k + 1] \in S /\ at[k + 1] \in Int
    BY <1>0, <1>3
  <2>2. at[k + 1] >= a + k + 1
    <3>1. CASE k = 0
      BY <1>0, <2>1, <3>1
    <3>2. CASE k # 0
      <4>1. k \in 1..m0 /\ k < k + 1
        BY <1>4, <3>2
      <4>2. at[k] = a + k /\ at[k] < at[k + 1]
        BY <1>3, <1>6, <4>1
      <4> QED
        BY <2>1, <4>2
    <3> QED
      BY <3>1, <3>2
  <2>3. a + k + 1 \in S
    BY <1>0, <2>1, <2>2
  <2>4. PICK n \in 1..m0 : at[n] = a + k + 1
    BY <1>3, <2>3
  <2>5. n >= k + 1
    <3> SUFFICES ASSUME n < k + 1 PROVE FALSE
      BY <1>4
    <3>1. k \in 1..m0 /\ (n = k \/ n < k)
      BY <1>4
    <3>2. at[k] = a + k
      BY <1>6, <3>1
    <3>3. at[n] <= at[k]
      <4>1. n = k => at[n] = at[k]
        OBVIOUS
      <4>2. n < k => at[n] < at[k]
        BY <1>3, <3>1
      <4> QED
        BY <2>4, <3>1, <3>2, <4>1, <4>2
    <3> QED
      BY <2>4, <3>2, <3>3
  <2>6. n = k + 1 \/ at[k + 1] < at[n]
    BY <1>3, <1>4, <2>5
  <2> QED
    BY <2>1, <2>2, <2>4, <2>6
<1> HIDE DEF T
<1>7. \A k \in Nat : k \in T
  BY <1>5, <1>6, Induction
<1>8. \A k \in 1..m0 : at[k] = a + k
  BY <1>4, <1>7 DEF T
<1>9. \A k \in 1..m0 : c[k] = s[a + k]
  BY <1>3, <1>8
<1> QED
  BY <1>1, <1>9, Zenon DEF c, S, m0

\* A sum is reached number by number.
IsSum(sum, v) ==
  /\ sum[0] = 0 /\ sum[Len(v)] = Summed(v)
  /\ \A i \in 1..Len(v) : sum[i] = sum[i - 1] + v[i]
  /\ \A i \in 0..Len(v) : sum[i] \in Int

LEMMA SummedIs ==
  ASSUME NEW v \in Seq(Int)
  PROVE  \E sum : IsSum(sum, v)
<1> DEFINE n0 == Len(v)
           Flat(h) == h = [i \in 0..n0 |-> IF i = 0 THEN 0 ELSE h[i - 1] + v[i]]
           G == CHOOSE h : Flat(h)
<1>1. Summed(v) = G[n0]
  BY Zenon DEF Summed
<1>2. n0 \in Nat /\ \A i \in 1..n0 : v[i] \in Int
  OBVIOUS
<1> HIDE DEF n0
<1> DEFINE Turn == [p \in Nat \X Int |-> IF p[1] \in 1..n0 THEN p[2] + v[p[1]] ELSE p[2]]
<1>3. Turn \in [Nat \X Int -> Int]
  BY <1>2
<1>4. \A n \in Nat, w \in Int : Turn[<<n, w>>] = IF n \in 1..n0 THEN w + v[n] ELSE w
  OBVIOUS
<1> HIDE DEF Turn
<1>5. PICK f : IsTable(f, Int, 0, Turn, n0)
  <2>1. 0 \in Int
    OBVIOUS
  <2> QED
    BY <1>2, <1>3, <2>1, Iteration
<1>6. f \in [0..n0 -> Int] /\ f[0] = 0 /\ \A n \in 1..n0 : f[n] = Turn[<<n, f[n - 1]>>]
  BY <1>5 DEF IsTable
<1>7. \A n \in 1..n0 : f[n] = f[n - 1] + v[n]
  <2> SUFFICES ASSUME NEW n \in 1..n0 PROVE f[n] = f[n - 1] + v[n]
    OBVIOUS
  <2>1. n - 1 \in 0..n0 /\ n \in Nat
    BY <1>2
  <2>2. f[n - 1] \in Int
    BY <1>6, <2>1
  <2> QED
    BY <1>4, <1>6, <2>1, <2>2
<1>8. Flat(f)
  <2>1. \A i \in 0..n0 : f[i] = IF i = 0 THEN 0 ELSE f[i - 1] + v[i]
    BY <1>2, <1>6, <1>7
  <2> QED
    BY <1>6, <2>1
<1>9. Flat(G)
  <2> HIDE DEF Flat
  <2> QED
    BY <1>8, Zenon
<1> HIDE DEF G
<1>10. \A i \in 0..n0 : G[i] = IF i = 0 THEN 0 ELSE G[i - 1] + v[i]
  BY <1>9
<1>11. G[0] = 0 /\ \A i \in 1..n0 : G[i] = G[i - 1] + v[i]
  BY <1>2, <1>10
<1> HIDE DEF Flat
<1> DEFINE T == {k \in Nat : k \in 0..n0 => G[k] = f[k]}
<1>12. 0 \in T
  BY <1>6, <1>11
<1>13. ASSUME NEW k \in Nat, k \in T PROVE k + 1 \in T
  <2> SUFFICES ASSUME k + 1 \in 0..n0 PROVE G[k + 1] = f[k + 1]
    OBVIOUS
  <2>1. k \in 0..n0 /\ k + 1 \in 1..n0 /\ (k + 1) - 1 = k
    BY <1>2
  <2>2. G[k] = f[k]
    BY <1>13, <2>1
  <2> QED
    BY <1>7, <1>11, <2>1, <2>2
<1> HIDE DEF T
<1>14. \A k \in Nat : k \in T
  BY <1>12, <1>13, Induction
<1>15. \A k \in 0..n0 : G[k] = f[k]
  BY <1>2, <1>14 DEF T
<1>16. \A k \in 0..n0 : G[k] \in Int
  BY <1>6, <1>15
<1> QED
  BY <1>1, <1>11, <1>16 DEF IsSum, n0

-----------------------------------------------------------------------------
(* The inventory of the lines of one object.                                *)

CodeText == [op : {"call", "jmp", "mov"}, value : {Inventory!NoValue} \cup Nat]
Instruction == [address : Int, text : CodeText, length : Int]

\* The lines of the object [low, high), in the order of their addresses.
IsCode(lines, low, high) ==
  /\ lines \in Seq([address : low..(high - 1), text : CodeText])
  /\ \A n, m \in 1..Len(lines) : n < m => lines[n].address < lines[m].address

\* Where the ith line starts, and the line before it ends.
AddressAt(lines, high, i) == IF i <= Len(lines) THEN lines[i].address ELSE high

\* Instructions that cover the object from the first line on.
IsDisassembly(I, lines, high) ==
  /\ I \in Seq(Instruction) /\ Len(I) = Len(lines)
  /\ \A i \in 1..Len(lines) :
       /\ I[i].address = lines[i].address /\ I[i].text = lines[i].text
       /\ I[i].length = AddressAt(lines, high, i + 1) - AddressAt(lines, high, i)

LEMMA LengthsAre ==
  ASSUME NEW low \in Nat, NEW high \in Nat, NEW lines, IsCode(lines, low, high)
  PROVE  IsDisassembly(Inventory!WithLengths(lines, high), lines, high)
<1> DEFINE I == Inventory!WithLengths(lines, high)
           Gap(i) == (IF i < Len(lines) THEN lines[i + 1].address ELSE high) - lines[i].address
           n0 == Len(lines)
<1>1. I = [i \in 1..n0 |-> [address |-> lines[i].address, text |-> lines[i].text,
                            length |-> Inventory!Max({0, Gap(i)})]]
  BY Zenon DEF Inventory!WithLengths
<1>2. /\ n0 \in Nat /\ \A i \in 1..n0 : lines[i].address \in low..(high - 1) /\ lines[i].text \in CodeText
      /\ \A n, m \in 1..n0 : n < m => lines[n].address < lines[m].address
  <2> DEFINE R == [address : low..(high - 1), text : CodeText]
  <2>1. lines \in Seq(R)
    BY DEF IsCode
  <2>2. n0 \in Nat /\ \A i \in 1..n0 : lines[i] \in R
    <3> HIDE DEF R
    <3> QED
      BY <2>1
  <2>3. \A i \in 1..n0 : lines[i].address \in low..(high - 1) /\ lines[i].text \in CodeText
    <3> HIDE DEF n0
    <3> QED
      BY <2>2
  <2>4. \A n, m \in 1..n0 : n < m => lines[n].address < lines[m].address
    BY DEF IsCode
  <2> QED
    BY <2>2, <2>3, <2>4
<1> HIDE DEF n0
<1>3. ASSUME NEW i \in 1..n0
      PROVE  /\ Gap(i) \in Nat /\ Gap(i) = AddressAt(lines, high, i + 1) - AddressAt(lines, high, i)
             /\ lines[i].address \in Int
  <2>1. lines[i].address \in Int /\ lines[i].address < high
    BY <1>2
  <2>2. i + 1 <= n0 <=> i < n0
    BY <1>2
  <2>3. i < n0 => lines[i + 1].address \in Int /\ lines[i].address < lines[i + 1].address
    <3> SUFFICES ASSUME i < n0 PROVE lines[i + 1].address \in Int /\ lines[i].address < lines[i + 1].address
      OBVIOUS
    <3>1. i + 1 \in 1..n0 /\ i < i + 1
      BY <1>2
    <3> QED
      BY <1>2, <3>1
  <2>4. AddressAt(lines, high, i) = lines[i].address
    BY <1>2 DEF AddressAt, n0
  <2>5. AddressAt(lines, high, i + 1) = IF i < n0 THEN lines[i + 1].address ELSE high
    BY <2>2, Zenon DEF AddressAt, n0
  <2>6. Gap(i) = (IF i < n0 THEN lines[i + 1].address ELSE high) - lines[i].address
    BY Zenon DEF n0
  <2> HIDE DEF Gap
  <2> QED
    BY <2>1, <2>3, <2>4, <2>5, <2>6
<1>4. ASSUME NEW i \in 1..n0 PROVE Inventory!Max({0, Gap(i)}) = Gap(i)
  <2> DEFINE g == Gap(i)
             T == {0, g}
  <2>1. g \in Nat
    BY <1>3
  <2> HIDE DEF g
  <2>2. g \in T /\ \A y \in T : g >= y
    BY <2>1
  <2>3. \A x \in T : (\A y \in T : x >= y) => x = g
    BY <2>1
  <2> HIDE DEF T
  <2>4. (CHOOSE x \in T : \A y \in T : x >= y) = g
    BY <2>2, <2>3
  <2> QED
    BY <2>4, Zenon DEF Inventory!Max, T, g
<1> HIDE DEF Gap
<1>5. \A i \in 1..n0 : I[i] = [address |-> lines[i].address, text |-> lines[i].text, length |-> Gap(i)]
  <2> SUFFICES ASSUME NEW i \in 1..n0
               PROVE  I[i] = [address |-> lines[i].address, text |-> lines[i].text, length |-> Gap(i)]
    OBVIOUS
  <2>1. I[i] = [address |-> lines[i].address, text |-> lines[i].text, length |-> Inventory!Max({0, Gap(i)})]
    <3> HIDE DEF I
    <3> QED
      BY <1>1
  <2> QED
    BY <1>4, <2>1
<1>6. I \in [1..n0 -> Instruction]
  <2>1. \A i \in 1..n0 : I[i] \in Instruction
    <3> SUFFICES ASSUME NEW i \in 1..n0 PROVE I[i] \in Instruction
      OBVIOUS
    <3> DEFINE g == Gap(i)
    <3>1. lines[i].address \in Int /\ g \in Int /\ lines[i].text \in CodeText
      BY <1>2, <1>3
    <3>2. I[i] = [address |-> lines[i].address, text |-> lines[i].text, length |-> g]
      BY <1>5
    <3> HIDE DEF I, g
    <3> QED
      BY <3>1, <3>2 DEF Instruction
  <2>2. DOMAIN I = 1..n0 /\ I = [i \in 1..n0 |-> I[i]]
    <3> HIDE DEF I
    <3> QED
      BY <1>1
  <2> HIDE DEF I
  <2> QED
    BY <2>1, <2>2
<1> HIDE DEF I
<1>7. I \in Seq(Instruction) /\ Len(I) = n0
  BY <1>2, <1>6, IsSequence
<1>8. \A i \in 1..n0 :
        /\ I[i].address = lines[i].address /\ I[i].text = lines[i].text
        /\ I[i].length = AddressAt(lines, high, i + 1) - AddressAt(lines, high, i)
  <2> SUFFICES ASSUME NEW i \in 1..n0
               PROVE  /\ I[i].address = lines[i].address /\ I[i].text = lines[i].text
                      /\ I[i].length = AddressAt(lines, high, i + 1) - AddressAt(lines, high, i)
    OBVIOUS
  <2> DEFINE g == Gap(i)
  <2>1. I[i] = [address |-> lines[i].address, text |-> lines[i].text, length |-> g]
    BY <1>5
  <2>2. g = AddressAt(lines, high, i + 1) - AddressAt(lines, high, i)
    BY <1>3
  <2> HIDE DEF g
  <2>3. I[i].address = lines[i].address /\ I[i].text = lines[i].text /\ I[i].length = g
    BY <2>1
  <2> QED
    BY <2>2, <2>3
<1>9. IsDisassembly(I, lines, high)
  BY <1>7, <1>8, Zenon DEF IsDisassembly, n0
<1> QED
  BY <1>9, Zenon DEF I

\* The parts of an inventory.
Sites(I, low, high) ==
  {i \in 1..Len(I) : Inventory!Calls(I[i]) /\ low <= I[i].text.value /\ I[i].text.value < high}
Starts(I, seed, low, high) ==
  Inventory!Sorted({seed} \cup {I[i].text.value : i \in Sites(I, low, high)}, low, high)
OwnedBy(I, starts, n) == {i \in 1..Len(I) : Inventory!Owner(starts, I[i].address) = n}
LengthsOf(list) == [k \in 1..Len(list) |-> list[k].length]

\* What an inventory says, in those parts.
Says(inventory, I, seed, low, high) ==
  LET starts == Starts(I, seed, low, high)
      sites == Sites(I, low, high)
      functions == inventory.functions
  IN  /\ Len(functions) = Len(starts)
      /\ inventory.call_site_count = Cardinality(sites)
      /\ \A n \in 1..Len(starts) :
           /\ functions[n].address = starts[n]
           /\ functions[n].end = (IF n < Len(starts) THEN starts[n + 1] ELSE high)
           /\ functions[n].instruction_count = Len(Chosen(I, OwnedBy(I, starts, n)))
           /\ functions[n].byte_length = Summed(LengthsOf(Chosen(I, OwnedBy(I, starts, n))))
           /\ functions[n].callers = Cardinality({i \in sites : I[i].text.value = starts[n]})
           /\ Len(functions[n].signature) = Len(Chosen(I, OwnedBy(I, starts, n)))
      /\ inventory.call_edges =
           {[from |-> starts[p[1]], to |-> p[2],
             count |-> Cardinality({i \in sites : Inventory!Owner(starts, I[i].address) = p[1]
                                                  /\ I[i].text.value = p[2]})] :
              p \in {<<Inventory!Owner(starts, I[i].address), I[i].text.value>> :
                       i \in {k \in sites : Inventory!Owner(starts, I[k].address) # 0}}}

LEMMA InventorySays ==
  ASSUME NEW I \in Seq(Instruction), NEW seed, NEW low \in Nat, NEW high \in Nat, low <= high, NEW ranges
  PROVE  Says(Inventory!BuildInventory(I, seed, low, high, ranges), I, seed, low, high)
<1> DEFINE indices == 1..Len(I)
           sites == Sites(I, low, high)
           starts == Starts(I, seed, low, high)
           Target(i) == I[i].text.value
           InObject(i) == low <= I[i].text.value /\ I[i].text.value < high
           OwnerOf(i) == Inventory!Owner(starts, I[i].address)
           Owned(n) == Inventory!Chosen(I, {i \in indices : OwnerOf(i) = n})
           Body(n, Line(_)) == LET own == Owned(n) IN [k \in 1..Len(own) |-> Line(own[k].text)]
           Lengths(n) == LET own == Owned(n) IN [k \in 1..Len(own) |-> own[k].length]
           pairs == {<<OwnerOf(i), Target(i)>> : i \in {k \in sites : OwnerOf(k) # 0}}
           F(n) == [address |-> starts[n],
                    end |-> IF n < Len(starts) THEN starts[n + 1] ELSE high,
                    instruction_count |-> Len(Owned(n)),
                    byte_length |-> Inventory!Summed(Lengths(n)),
                    callers |-> Inventory!Cardinality({i \in sites : Target(i) = starts[n]}),
                    signature |-> Body(n, Inventory!Normalize),
                    reference_signature |-> Body(n, LAMBDA text : Inventory!NormalizeReferences(text, ranges)),
                    shape_signature |-> Body(n, Inventory!NormalizeShape)]
           report == [instruction_count |-> Len(I),
                      call_site_count |-> Inventory!Cardinality(sites),
                      branch_target_count |->
                        Inventory!Cardinality({Target(i) : i \in {k \in indices : Inventory!Branches(I[k]) /\ InObject(k)}}),
                      functions |-> [n \in 1..Len(starts) |-> F(n)],
                      call_edges |->
                        {[from |-> starts[p[1]], to |-> p[2],
                          count |-> Inventory!Cardinality({i \in sites : OwnerOf(i) = p[1] /\ Target(i) = p[2]})] :
                            p \in pairs}]
<1>1. Inventory!BuildInventory(I, seed, low, high, ranges) = report
  BY Zenon DEF Inventory!BuildInventory, Sites, Starts
<1>2. \A S : Inventory!Cardinality(S) = Cardinality(S)
  BY DEF Inventory!Cardinality, Cardinality
<1>3. \A n : Owned(n) = Chosen(I, OwnedBy(I, starts, n))
  BY Zenon DEF Inventory!Chosen, Chosen, OwnedBy
<1>4. \A v : Inventory!Summed(v) = Summed(v)
  BY Zenon DEF Inventory!Summed, Summed
<1>5. \A n : Lengths(n) = LengthsOf(Owned(n))
  BY Zenon DEF LengthsOf
<1>6. Len(starts) \in Nat
  BY SortedIs DEF Starts, Increasing
<1>7. \A n : Len(Body(n, Inventory!Normalize)) = Len(Owned(n))
  <2> SUFFICES ASSUME NEW n PROVE Len(Body(n, Inventory!Normalize)) = Len(Owned(n))
    OBVIOUS
  <2> DEFINE own == Owned(n)
  <2>1. Len(own) \in Nat
    <3>1. OwnedBy(I, starts, n) \in SUBSET (1..Len(I))
      BY DEF OwnedBy
    <3>2. Len(Chosen(I, OwnedBy(I, starts, n))) \in Nat
      BY <3>1, ChosenCounts
    <3> QED
      BY <1>3, <3>2
  <2> HIDE DEF own
  <2>2. Len([k \in 1..Len(own) |-> Inventory!Normalize(own[k].text)]) = Len(own)
    BY <2>1
  <2> QED
    BY <2>2, Zenon DEF own
<1> DEFINE fs == [n \in 1..Len(starts) |-> F(n)]
           edges == {[from |-> starts[p[1]], to |-> p[2],
                      count |-> Inventory!Cardinality({i \in sites : OwnerOf(i) = p[1] /\ Target(i) = p[2]})] :
                        p \in pairs}
           branches == Inventory!Cardinality({Target(i) : i \in {k \in indices : Inventory!Branches(I[k]) /\ InObject(k)}})
<1>8. /\ report.functions = fs /\ report.call_edges = edges
      /\ report.call_site_count = Inventory!Cardinality(sites)
  <2> HIDE DEF fs, edges, branches, sites
  <2>1. report = [instruction_count |-> Len(I), call_site_count |-> Inventory!Cardinality(sites),
                  branch_target_count |-> branches, functions |-> fs, call_edges |-> edges]
    BY Zenon DEF fs, edges, branches
  <2> HIDE DEF report
  <2> QED
    BY <2>1
<1>9. Len(fs) = Len(starts) /\ \A n \in 1..Len(starts) : fs[n] = F(n)
  <2> HIDE DEF F, starts
  <2> QED
    BY <1>6
<1>10. ASSUME NEW n \in 1..Len(starts)
       PROVE  /\ F(n).address = starts[n]
              /\ F(n).end = (IF n < Len(starts) THEN starts[n + 1] ELSE high)
              /\ F(n).instruction_count = Len(Owned(n))
              /\ F(n).byte_length = Inventory!Summed(Lengths(n))
              /\ F(n).callers = Inventory!Cardinality({i \in sites : Target(i) = starts[n]})
              /\ F(n).signature = Body(n, Inventory!Normalize)
  <2> DEFINE a == starts[n]
             e == IF n < Len(starts) THEN starts[n + 1] ELSE high
             c == Len(Owned(n))
             b == Inventory!Summed(Lengths(n))
             k == Inventory!Cardinality({i \in sites : Target(i) = starts[n]})
             s == Body(n, Inventory!Normalize)
             r == Body(n, LAMBDA text : Inventory!NormalizeReferences(text, ranges))
             t == Body(n, Inventory!NormalizeShape)
  <2> HIDE DEF a, e, c, b, k, s, r, t
  <2>1. F(n) = [address |-> a, end |-> e, instruction_count |-> c, byte_length |-> b, callers |-> k,
                signature |-> s, reference_signature |-> r, shape_signature |-> t]
    BY Zenon DEF a, e, c, b, k, s, r, t
  <2> HIDE DEF F
  <2>2. /\ F(n).address = a /\ F(n).end = e /\ F(n).instruction_count = c
        /\ F(n).byte_length = b /\ F(n).callers = k /\ F(n).signature = s
    BY <2>1
  <2> QED
    BY <2>2, Zenon DEF a, e, c, b, k, s
<1> HIDE DEF fs, F, Owned, Lengths, Body, report
<1>11. \A n \in 1..Len(starts) :
         /\ fs[n].address = starts[n]
         /\ fs[n].end = (IF n < Len(starts) THEN starts[n + 1] ELSE high)
         /\ fs[n].instruction_count = Len(Chosen(I, OwnedBy(I, starts, n)))
         /\ fs[n].byte_length = Summed(LengthsOf(Chosen(I, OwnedBy(I, starts, n))))
         /\ fs[n].callers = Cardinality({i \in sites : I[i].text.value = starts[n]})
         /\ Len(fs[n].signature) = Len(Chosen(I, OwnedBy(I, starts, n)))
  BY <1>2, <1>3, <1>4, <1>5, <1>7, <1>9, <1>10, Zenon
<1>12. edges = {[from |-> starts[p[1]], to |-> p[2],
                 count |-> Cardinality({i \in sites : Inventory!Owner(starts, I[i].address) = p[1]
                                                      /\ I[i].text.value = p[2]})] :
                  p \in {<<Inventory!Owner(starts, I[i].address), I[i].text.value>> :
                           i \in {k \in sites : Inventory!Owner(starts, I[k].address) # 0}}}
  <2>1. \A p : [from |-> starts[p[1]], to |-> p[2],
                count |-> Inventory!Cardinality({i \in sites : OwnerOf(i) = p[1] /\ Target(i) = p[2]})]
             = [from |-> starts[p[1]], to |-> p[2],
                count |-> Cardinality({i \in sites : OwnerOf(i) = p[1] /\ Target(i) = p[2]})]
    BY <1>2, Zenon
  <2> QED
    BY <2>1, Zenon
<1> HIDE DEF edges
<1>13. report.functions = fs /\ report.call_site_count = Cardinality(sites) /\ report.call_edges = edges
  BY <1>2, <1>8, Zenon
<1> QED
  BY <1>1, <1>9, <1>11, <1>12, <1>13, Zenon DEF Says

\* A sum of differences is the difference of the ends.
IsTelescope(t, v) ==
  /\ \A k \in 0..Len(v) : t[k] \in Int
  /\ \A k \in 1..Len(v) : v[k] = t[k] - t[k - 1]

LEMMA Telescopes ==
  ASSUME NEW v \in Seq(Int), NEW t, IsTelescope(t, v)
  PROVE  Summed(v) = t[Len(v)] - t[0]
<1> DEFINE n0 == Len(v)
<1>1. PICK sum : IsSum(sum, v)
  BY SummedIs
<1>2. n0 \in Nat
  OBVIOUS
<1>3. /\ sum[0] = 0 /\ sum[n0] = Summed(v)
      /\ \A i \in 1..n0 : sum[i] = sum[i - 1] + v[i]
      /\ \A k \in 0..n0 : t[k] \in Int
      /\ \A k \in 1..n0 : v[k] = t[k] - t[k - 1]
  BY <1>1 DEF IsSum, IsTelescope
<1> HIDE DEF n0
<1> DEFINE T == {k \in Nat : k \in 0..n0 => sum[k] = t[k] - t[0]}
<1>4. 0 \in T
  BY <1>2, <1>3
<1>5. ASSUME NEW k \in Nat, k \in T PROVE k + 1 \in T
  <2> SUFFICES ASSUME k + 1 \in 0..n0 PROVE sum[k + 1] = t[k + 1] - t[0]
    OBVIOUS
  <2>1. k \in 0..n0 /\ k + 1 \in 1..n0 /\ (k + 1) - 1 = k /\ 0 \in 0..n0
    BY <1>2
  <2>2. sum[k] = t[k] - t[0]
    BY <1>5, <2>1
  <2>3. sum[k + 1] = sum[k] + (t[k + 1] - t[k])
    BY <1>3, <2>1
  <2>4. t[k] \in Int /\ t[k + 1] \in Int /\ t[0] \in Int
    BY <1>3, <2>1
  <2> QED
    BY <2>2, <2>3, <2>4
<1> HIDE DEF T
<1>6. \A k \in Nat : k \in T
  BY <1>4, <1>5, Induction
<1> QED
  BY <1>2, <1>3, <1>6 DEF T, n0

\* The bytes of a run of instructions.
LEMMA SpanIs ==
  ASSUME NEW low \in Nat, NEW high \in Nat, NEW lines, IsCode(lines, low, high),
         NEW I, IsDisassembly(I, lines, high),
         NEW a \in Nat, NEW b \in Nat, a <= b, b <= Len(lines)
  PROVE  Summed(LengthsOf(Chosen(I, (a + 1)..b)))
           = AddressAt(lines, high, b + 1) - AddressAt(lines, high, a + 1)
<1> DEFINE c == Chosen(I, (a + 1)..b)
           v == LengthsOf(c)
           t == [k \in 0..(b - a) |-> AddressAt(lines, high, (a + k) + 1)]
<1>1. /\ I \in Seq(Instruction) /\ Len(I) = Len(lines)
      /\ \A i \in 1..Len(lines) : I[i].length = AddressAt(lines, high, i + 1) - AddressAt(lines, high, i)
  BY DEF IsDisassembly
<1>2. Len(c) = b - a /\ \A k \in 1..(b - a) : c[k] = I[a + k]
  BY <1>1, ChosenInterval
<1>3. \A i \in Nat \ {0} : AddressAt(lines, high, i) \in Int
  <2> SUFFICES ASSUME NEW i \in Nat \ {0} PROVE AddressAt(lines, high, i) \in Int
    OBVIOUS
  <2>1. i <= Len(lines) => lines[i].address \in Int
    <3> SUFFICES ASSUME i <= Len(lines) PROVE lines[i].address \in Int
      OBVIOUS
    <3>1. i \in 1..Len(I)
      BY <1>1
    <3>2. I[i] \in Instruction /\ I[i].address = lines[i].address
      BY <1>1, <3>1 DEF IsDisassembly
    <3> QED
      BY <3>2 DEF Instruction
  <2> QED
    BY <2>1 DEF AddressAt
<1> HIDE DEF c
<1> DEFINE m == b - a
<1>4. m \in Nat /\ Len(c) = m
  BY <1>2
<1>5. ASSUME NEW k \in 1..m
      PROVE  v[k] = AddressAt(lines, high, (a + k) + 1) - AddressAt(lines, high, a + k)
  <2>1. a + k \in 1..Len(lines)
    OBVIOUS
  <2>2. c[k] = I[a + k]
    BY <1>2
  <2>3. v[k] = c[k].length
    BY <1>4 DEF LengthsOf
  <2> HIDE DEF v
  <2> QED
    BY <1>1, <2>1, <2>2, <2>3
<1>6. Len(v) = m /\ v \in Seq(Int)
  <2>1. \A k \in 1..m : v[k] \in Int
    <3> SUFFICES ASSUME NEW k \in 1..m PROVE v[k] \in Int
      OBVIOUS
    <3>1. a + k \in Nat \ {0} /\ (a + k) + 1 \in Nat \ {0}
      OBVIOUS
    <3> HIDE DEF v
    <3> QED
      BY <1>3, <1>5, <3>1
  <2>2. v = [k \in 1..m |-> v[k]]
    BY <1>4 DEF LengthsOf
  <2> HIDE DEF v, m
  <2>3. v \in [1..m -> Int]
    BY <2>1, <2>2
  <2> QED
    BY <1>4, <2>3, IsSequence
<1> HIDE DEF v
<1>7. ASSUME NEW k \in 0..m PROVE t[k] = AddressAt(lines, high, (a + k) + 1) /\ t[k] \in Int
  <2>1. (a + k) + 1 \in Nat \ {0} /\ t[k] = AddressAt(lines, high, (a + k) + 1)
    OBVIOUS
  <2> HIDE DEF t
  <2> QED
    BY <1>3, <2>1
<1> HIDE DEF t
<1>8. ASSUME NEW k \in 1..m PROVE v[k] = t[k] - t[k - 1]
  <2>1. k \in 0..m /\ k - 1 \in 0..m /\ (a + (k - 1)) + 1 = a + k
    BY <1>4
  <2>2. t[k] = AddressAt(lines, high, (a + k) + 1)
    BY <1>7, <2>1
  <2>3. t[k - 1] = AddressAt(lines, high, (a + (k - 1)) + 1)
    BY <1>7, <2>1
  <2> QED
    BY <1>5, <2>1, <2>2, <2>3
<1>9. IsTelescope(t, v)
  BY <1>6, <1>7, <1>8 DEF IsTelescope
<1>10. Summed(v) = t[m] - t[0]
  BY <1>6, <1>9, Telescopes
<1>11. t[m] = AddressAt(lines, high, b + 1) /\ t[0] = AddressAt(lines, high, a + 1)
  <2>1. m \in 0..m /\ 0 \in 0..m /\ (a + m) + 1 = b + 1 /\ (a + 0) + 1 = a + 1
    BY <1>4
  <2> HIDE DEF m
  <2> QED
    BY <1>7, <2>1
<1> QED
  BY <1>10, <1>11 DEF v, c

-----------------------------------------------------------------------------
(* Which function owns a line.                                              *)

EndOf(starts, high, n) == IF n < Len(starts) THEN starts[n + 1] ELSE high

\* Starts in the object, in order.
AreStarts(starts, low, high) ==
  /\ Increasing(starts) /\ Len(starts) >= 1
  /\ \A n \in 1..Len(starts) : starts[n] \in low..(high - 1)

LEMMA StartsAre ==
  ASSUME NEW I \in Seq(Instruction), NEW low \in Nat, NEW high \in Nat, NEW seed \in low..(high - 1)
  PROVE  /\ AreStarts(Starts(I, seed, low, high), low, high)
         /\ \A i \in Sites(I, low, high) : \E n \in 1..Len(Starts(I, seed, low, high)) :
              I[i].text.value = Starts(I, seed, low, high)[n]
<1> DEFINE sites == Sites(I, low, high)
           A == {seed} \cup {I[i].text.value : i \in sites}
           starts == Starts(I, seed, low, high)
<1>1. low <= high
  OBVIOUS
<1>2. Increasing(starts) /\ \A x : x \in Elements(starts) <=> x \in A /\ x \in low..(high - 1)
  <2> HIDE DEF A
  <2>1. Increasing(Inventory!Sorted(A, low, high))
        /\ \A x : x \in Elements(Inventory!Sorted(A, low, high)) <=> x \in A /\ x \in low..(high - 1)
    BY <1>1, SortedIs
  <2>2. starts = Inventory!Sorted(A, low, high)
    BY Zenon DEF Starts, A
  <2> QED
    BY <2>1, <2>2
<1> HIDE DEF starts
<1>3. starts \in Seq(Int) /\ Len(starts) \in Nat
  BY <1>2 DEF Increasing
<1>4. \A n \in 1..Len(starts) : starts[n] \in low..(high - 1)
  BY <1>2 DEF Elements
<1>5. Len(starts) >= 1
  <2>1. seed \in Elements(starts)
    BY <1>2
  <2>2. PICK n \in 1..Len(starts) : seed = starts[n]
    BY <2>1 DEF Elements
  <2> QED
    BY <1>3, <2>2
<1>6. ASSUME NEW i \in sites PROVE \E n \in 1..Len(starts) : I[i].text.value = starts[n]
  <2> DEFINE x == I[i].text.value
  <2>1. i \in 1..Len(I) /\ low <= x /\ x < high
    BY DEF Sites
  <2>2. x \in Int
    <3>1. I[i] \in Instruction
      BY <2>1
    <3>2. I[i].text \in CodeText
      BY <3>1 DEF Instruction
    <3> QED
      BY <3>2 DEF CodeText, Inventory!NoValue
  <2>3. x \in A
    OBVIOUS
  <2> HIDE DEF x, A
  <2>4. x \in Elements(starts)
    BY <1>2, <2>1, <2>2, <2>3
  <2>5. PICK n \in 1..Len(starts) : x = starts[n]
    BY <2>4 DEF Elements
  <2> QED
    BY <2>5 DEF x
<1> QED
  BY <1>2, <1>4, <1>5, <1>6, Zenon DEF AreStarts, starts

LEMMA OwnersAre ==
  ASSUME NEW low \in Nat, NEW high \in Nat, NEW starts, AreStarts(starts, low, high),
         NEW address \in low..(high - 1)
  PROVE  /\ Inventory!Owner(starts, address) \in 0..Len(starts)
         /\ \A n \in 1..Len(starts) : Inventory!Owner(starts, address) = n <=>
              starts[n] <= address /\ address < EndOf(starts, high, n)
         /\ Inventory!Owner(starts, address) = 0 <=> address < starts[1]
<1> DEFINE n0 == Len(starts)
<1>1. /\ Increasing(starts) /\ n0 \in Nat /\ n0 >= 1 /\ (\A n \in 1..n0 : starts[n] \in Int)
      /\ \A n, m \in 1..n0 : n < m => starts[n] < starts[m]
  BY DEF AreStarts, Increasing
<1>2. address \in Int /\ address < high
  OBVIOUS
<1>3. PICK b : IsCutAt(b, starts, address)
  BY <1>1, <1>2, CutAt
<1>4. Inventory!Owner(starts, address) = b
  BY <1>1, <1>2, <1>3, OwnerIs
<1>5. b \in 0..n0 /\ \A i \in 1..n0 : starts[i] <= address <=> i <= b
  BY <1>3 DEF IsCutAt
<1> HIDE DEF n0
<1>6. ASSUME NEW n \in 1..n0 PROVE b = n <=> starts[n] <= address /\ address < EndOf(starts, high, n)
  <2>1. starts[n] <= address <=> n <= b
    BY <1>5
  <2>2. CASE n < n0
    <3>1. n + 1 \in 1..n0 /\ EndOf(starts, high, n) = starts[n + 1]
      BY <1>1, <2>2 DEF EndOf, n0
    <3>2. starts[n + 1] <= address <=> n + 1 <= b
      BY <1>5, <3>1
    <3>3. starts[n + 1] \in Int
      BY <1>1, <3>1
    <3>4. address < starts[n + 1] <=> ~(n + 1 <= b)
      BY <1>2, <3>2, <3>3
    <3>5. b = n <=> n <= b /\ ~(n + 1 <= b)
      BY <1>1, <1>5
    <3> QED
      BY <2>1, <3>1, <3>4, <3>5
  <2>3. CASE ~(n < n0)
    <3>1. n = n0 /\ EndOf(starts, high, n) = high
      BY <1>1, <2>3 DEF EndOf, n0
    <3>2. b = n <=> n <= b
      BY <1>1, <1>5, <3>1
    <3> QED
      BY <1>2, <2>1, <3>1, <3>2
  <2> QED
    BY <2>2, <2>3
<1>7. b = 0 <=> address < starts[1]
  <2>1. 1 \in 1..n0 /\ starts[1] \in Int
    BY <1>1
  <2>2. starts[1] <= address <=> 1 <= b
    BY <1>5, <2>1
  <2>3. address < starts[1] <=> ~(1 <= b)
    BY <1>2, <2>1, <2>2
  <2>4. b = 0 <=> ~(1 <= b)
    BY <1>1, <1>5
  <2> QED
    BY <2>3, <2>4
<1> QED
  BY <1>4, <1>5, <1>6, <1>7 DEF n0

\* The lines with an address in [x, y); the lines before x are the first ones.
LinesIn(lines, x, y) == {i \in 1..Len(lines) : x <= lines[i].address /\ lines[i].address < y}
IsBefore(a, lines, x) == a \in 0..Len(lines) /\ \A i \in 1..Len(lines) : lines[i].address < x <=> i <= a
Before(lines, x) == CHOOSE a : IsBefore(a, lines, x)

LEMMA AddressesAre ==
  ASSUME NEW low \in Nat, NEW high \in Nat, NEW lines, IsCode(lines, low, high)
  PROVE  /\ Len(lines) \in Nat
         /\ \A i \in 1..Len(lines) : lines[i].address \in low..(high - 1) /\ lines[i].text \in CodeText
<1> DEFINE R == [address : low..(high - 1), text : CodeText]
<1>1. \A r \in R : r.address \in low..(high - 1) /\ r.text \in CodeText
  OBVIOUS
<1>2. lines \in Seq(R)
  BY DEF IsCode
<1> HIDE DEF R
<1>3. Len(lines) \in Nat /\ \A i \in 1..Len(lines) : lines[i] \in R
  BY <1>2
<1> QED
  BY <1>1, <1>3

LEMMA BeforeIs ==
  ASSUME NEW low \in Nat, NEW high \in Nat, NEW lines, IsCode(lines, low, high), NEW x \in Int
  PROVE  IsBefore(Before(lines, x), lines, x)
<1> DEFINE n0 == Len(lines)
           s == [i \in 1..n0 |-> lines[i].address]
           y == x - 1
<1>1. n0 \in Nat /\ \A i \in 1..n0 : lines[i].address \in Int
  <2>1. n0 \in Nat /\ \A i \in 1..n0 : lines[i].address \in low..(high - 1)
    BY AddressesAre, Zenon
  <2> QED
    BY <2>1
<1>2. \A n, m \in 1..n0 : n < m => lines[n].address < lines[m].address
  BY DEF IsCode
<1>3. s \in [1..n0 -> Int]
  BY <1>1
<1>4. \A i \in 1..n0 : s[i] = lines[i].address
  OBVIOUS
<1> HIDE DEF s, n0
<1>5. s \in Seq(Int) /\ Len(s) = n0
  BY <1>1, <1>3, IsSequence
<1>6. Increasing(s)
  BY <1>2, <1>4, <1>5 DEF Increasing
<1>7. y \in Int
  OBVIOUS
<1>8. PICK b : IsCutAt(b, s, y)
  <2> HIDE DEF y
  <2> QED
    BY <1>6, <1>7, CutAt
<1>9. b \in 0..n0 /\ \A i \in 1..n0 : s[i] <= y <=> i <= b
  BY <1>5, <1>8 DEF IsCutAt
<1>10. ASSUME NEW i \in 1..n0 PROVE lines[i].address < x <=> i <= b
  <2>1. lines[i].address \in Int /\ s[i] = lines[i].address
    BY <1>1, <1>4
  <2>2. s[i] <= y <=> i <= b
    BY <1>9
  <2> QED
    BY <2>1, <2>2
<1>11. IsBefore(b, lines, x)
  BY <1>9, <1>10 DEF IsBefore, n0
<1> QED
  BY <1>11, Zenon DEF Before

\* The lines in [x, y) are a run.
LEMMA LinesInAre ==
  ASSUME NEW low \in Nat, NEW high \in Nat, NEW lines, IsCode(lines, low, high),
         NEW x \in Int, NEW y \in Int, x <= y
  PROVE  /\ Before(lines, x) \in Nat /\ Before(lines, y) \in Nat
         /\ Before(lines, x) <= Before(lines, y) /\ Before(lines, y) <= Len(lines)
         /\ LinesIn(lines, x, y) = (Before(lines, x) + 1)..Before(lines, y)
<1> DEFINE a == Before(lines, x)
           b == Before(lines, y)
           n0 == Len(lines)
<1>1. n0 \in Nat /\ \A i \in 1..n0 : lines[i].address \in Int
  <2>1. n0 \in Nat /\ \A i \in 1..n0 : lines[i].address \in low..(high - 1)
    BY AddressesAre, Zenon
  <2> QED
    BY <2>1
<1>2. a \in 0..n0 /\ \A i \in 1..n0 : lines[i].address < x <=> i <= a
  <2>1. IsBefore(a, lines, x)
    BY BeforeIs
  <2> QED
    BY <2>1, Zenon DEF IsBefore
<1>3. b \in 0..n0 /\ \A i \in 1..n0 : lines[i].address < y <=> i <= b
  <2>1. IsBefore(b, lines, y)
    BY BeforeIs
  <2> QED
    BY <2>1, Zenon DEF IsBefore
<1> HIDE DEF a, b, n0
<1>4. a <= b
  <2> SUFFICES ASSUME ~(a <= b) PROVE FALSE
    OBVIOUS
  <2>1. a \in 1..n0
    BY <1>1, <1>2, <1>3
  <2>2. lines[a].address \in Int /\ lines[a].address < x /\ ~(lines[a].address < y)
    BY <1>1, <1>2, <1>3, <2>1
  <2> QED
    BY <2>2
<1>5. ASSUME NEW i
      PROVE  i \in 1..n0 /\ x <= lines[i].address /\ lines[i].address < y <=> i \in (a + 1)..b
  <2>1. i \in (a + 1)..b => i \in 1..n0
    BY <1>1, <1>2, <1>3
  <2>2. ASSUME i \in 1..n0 PROVE x <= lines[i].address /\ lines[i].address < y <=> i \in (a + 1)..b
    <3>1. lines[i].address \in Int
      BY <1>1, <2>2
    <3>2. lines[i].address < x <=> i <= a
      BY <1>2, <2>2
    <3>3. lines[i].address < y <=> i <= b
      BY <1>3, <2>2
    <3>4. x <= lines[i].address <=> ~(i <= a)
      BY <3>1, <3>2
    <3>5. i \in (a + 1)..b <=> ~(i <= a) /\ i <= b
      BY <1>1, <1>2, <1>3, <2>2
    <3> QED
      BY <3>3, <3>4, <3>5
  <2> QED
    BY <2>1, <2>2
<1>6. LinesIn(lines, x, y) = (a + 1)..b
  BY <1>5, Zenon DEF LinesIn, n0
<1> QED
  BY <1>1, <1>2, <1>3, <1>4, <1>6 DEF a, b, n0

\* A function owns the lines from its start to its end.
LEMMA OwnedAre ==
  ASSUME NEW low \in Nat, NEW high \in Nat, NEW lines, IsCode(lines, low, high),
         NEW I, IsDisassembly(I, lines, high),
         NEW starts, AreStarts(starts, low, high), NEW n \in 1..Len(starts)
  PROVE  /\ starts[n] \in Int /\ EndOf(starts, high, n) \in Int /\ starts[n] < EndOf(starts, high, n)
         /\ OwnedBy(I, starts, n) = LinesIn(lines, starts[n], EndOf(starts, high, n))
<1> DEFINE e == EndOf(starts, high, n)
<1>1. /\ Len(I) = Len(lines)
      /\ \A i \in 1..Len(lines) : I[i].address = lines[i].address /\ lines[i].address \in low..(high - 1)
  BY AddressesAre DEF IsDisassembly
<1>2. /\ Len(starts) \in Nat /\ \A m \in 1..Len(starts) : starts[m] \in low..(high - 1)
      /\ \A k, m \in 1..Len(starts) : k < m => starts[k] < starts[m]
  BY DEF AreStarts, Increasing
<1>3. starts[n] \in Int /\ e \in Int /\ starts[n] < e
  <2>1. CASE n < Len(starts)
    <3>1. n + 1 \in 1..Len(starts) /\ n < n + 1
      BY <1>2, <2>1
    <3> QED
      BY <1>2, <2>1, <3>1 DEF EndOf
  <2>2. CASE ~(n < Len(starts))
    BY <1>2, <2>2 DEF EndOf
  <2> QED
    BY <2>1, <2>2
<1>4. ASSUME NEW i \in 1..Len(lines)
      PROVE  Inventory!Owner(starts, I[i].address) = n <=> starts[n] <= lines[i].address /\ lines[i].address < e
  BY <1>1, OwnersAre
<1>5. OwnedBy(I, starts, n) = LinesIn(lines, starts[n], e)
  BY <1>1, <1>4, Zenon DEF OwnedBy, LinesIn
<1> QED
  BY <1>3, <1>5

\* What a function counts.
LEMMA OwnCounts ==
  ASSUME NEW low \in Nat, NEW high \in Nat, NEW lines, IsCode(lines, low, high),
         NEW I, IsDisassembly(I, lines, high),
         NEW starts, AreStarts(starts, low, high), NEW n \in 1..Len(starts)
  PROVE  /\ Len(Chosen(I, OwnedBy(I, starts, n))) = Cardinality(LinesIn(lines, starts[n], EndOf(starts, high, n)))
         /\ Summed(LengthsOf(Chosen(I, OwnedBy(I, starts, n))))
              = AddressAt(lines, high, Before(lines, EndOf(starts, high, n)) + 1)
                  - AddressAt(lines, high, Before(lines, starts[n]) + 1)
<1> DEFINE e == EndOf(starts, high, n)
           x == starts[n]
           own == OwnedBy(I, starts, n)
<1>1. x \in Int /\ e \in Int /\ x <= e /\ own = LinesIn(lines, x, e)
  BY OwnedAre
<1>2. I \in Seq(Instruction) /\ own \in SUBSET (1..Len(I))
  BY DEF OwnedBy, IsDisassembly
<1> HIDE DEF e, x, own
<1>3. Len(Chosen(I, own)) = Cardinality(own)
  BY <1>2, ChosenCounts
<1>4. /\ Before(lines, x) \in Nat /\ Before(lines, e) \in Nat
      /\ Before(lines, x) <= Before(lines, e) /\ Before(lines, e) <= Len(lines)
      /\ LinesIn(lines, x, e) = (Before(lines, x) + 1)..Before(lines, e)
  BY <1>1, LinesInAre
<1>5. Summed(LengthsOf(Chosen(I, (Before(lines, x) + 1)..Before(lines, e))))
        = AddressAt(lines, high, Before(lines, e) + 1) - AddressAt(lines, high, Before(lines, x) + 1)
  BY <1>4, SpanIs
<1> QED
  BY <1>1, <1>3, <1>4, <1>5 DEF e, x, own

\* Together the functions own the lines from the first start on.
OwnedByAll(lines, starts, high) ==
  UNION {LinesIn(lines, starts[n], EndOf(starts, high, n)) : n \in 1..Len(starts)}

LEMMA OwnedTogether ==
  ASSUME NEW low \in Nat, NEW high \in Nat, NEW lines, IsCode(lines, low, high),
         NEW starts, AreStarts(starts, low, high)
  PROVE  OwnedByAll(lines, starts, high) = LinesIn(lines, starts[1], high)
<1> DEFINE owned == UNION {LinesIn(lines, starts[n], EndOf(starts, high, n)) : n \in 1..Len(starts)}
<1>1. \A i \in 1..Len(lines) : lines[i].address \in low..(high - 1)
  BY AddressesAre
<1>2. Len(starts) \in Nat /\ Len(starts) >= 1 /\ starts[1] \in Int
  BY DEF AreStarts, Increasing
<1>3. ASSUME NEW i \in 1..Len(lines)
      PROVE  (\E n \in 1..Len(starts) :
                starts[n] <= lines[i].address /\ lines[i].address < EndOf(starts, high, n))
               <=> starts[1] <= lines[i].address /\ lines[i].address < high
  <2> DEFINE k == Inventory!Owner(starts, lines[i].address)
  <2>1. lines[i].address \in low..(high - 1)
    BY <1>1
  <2>2. /\ k \in 0..Len(starts)
        /\ \A n \in 1..Len(starts) : k = n <=>
             starts[n] <= lines[i].address /\ lines[i].address < EndOf(starts, high, n)
        /\ k = 0 <=> lines[i].address < starts[1]
    BY <2>1, OwnersAre
  <2> HIDE DEF k
  <2>3. starts[1] <= lines[i].address /\ lines[i].address < high <=> k # 0
    BY <1>2, <2>1, <2>2
  <2>4. k # 0 <=> \E n \in 1..Len(starts) : k = n
    BY <1>2, <2>2
  <2> QED
    BY <2>2, <2>3, <2>4
<1>4. ASSUME NEW i PROVE i \in owned <=> i \in LinesIn(lines, starts[1], high)
  <2> DEFINE Fits(n) == starts[n] <= lines[i].address /\ lines[i].address < EndOf(starts, high, n)
  <2>1. i \in owned <=> i \in 1..Len(lines) /\ \E n \in 1..Len(starts) : Fits(n)
    <3>1. i \in owned <=> \E n \in 1..Len(starts) : i \in LinesIn(lines, starts[n], EndOf(starts, high, n))
      BY Zenon
    <3>2. \A n : i \in LinesIn(lines, starts[n], EndOf(starts, high, n)) <=> i \in 1..Len(lines) /\ Fits(n)
      BY Zenon DEF LinesIn
    <3> QED
      BY <3>1, <3>2, Zenon
  <2>2. i \in LinesIn(lines, starts[1], high)
          <=> i \in 1..Len(lines) /\ starts[1] <= lines[i].address /\ lines[i].address < high
    BY Zenon DEF LinesIn
  <2> QED
    BY <1>3, <2>1, <2>2, Zenon
<1> QED
  BY <1>4, Zenon DEF OwnedByAll

\* The bytes of all the functions are those from the first line of theirs on.
BytesOfAll(lines, owned, high) ==
  IF owned = {} THEN 0 ELSE high - lines[CHOOSE i \in owned : \A k \in owned : i <= k].address

LEMMA AllBytes ==
  ASSUME NEW low \in Nat, NEW high \in Nat, NEW lines, IsCode(lines, low, high),
         NEW starts, AreStarts(starts, low, high),
         NEW v, v \in Seq(Int), Len(v) = Len(starts),
         \A n \in 1..Len(starts) : v[n] = AddressAt(lines, high, Before(lines, EndOf(starts, high, n)) + 1)
                                            - AddressAt(lines, high, Before(lines, starts[n]) + 1)
  PROVE  Summed(v) = BytesOfAll(lines, LinesIn(lines, starts[1], high), high)
<1> DEFINE owned == LinesIn(lines, starts[1], high)
           last == Len(starts)
           From(x) == AddressAt(lines, high, Before(lines, x) + 1)
           t == [n \in 0..last |-> IF n = 0 THEN From(starts[1]) ELSE From(EndOf(starts, high, n))]
           z == Before(lines, starts[1])
           n0 == Len(lines)
<1>1. n0 \in Nat /\ \A i \in 1..n0 : lines[i].address \in low..(high - 1)
  BY AddressesAre
<1>2. /\ last \in Nat /\ last >= 1 /\ \A n \in 1..last : starts[n] \in low..(high - 1)
  BY DEF AreStarts, Increasing
<1>3. starts[1] \in Int /\ starts[1] <= high
  BY <1>2
<1>4. ASSUME NEW x \in Int PROVE From(x) \in Int
  <2>1. Before(lines, x) \in 0..n0
    <3>1. IsBefore(Before(lines, x), lines, x)
      BY BeforeIs
    <3> QED
      BY <3>1, Zenon DEF IsBefore
  <2> DEFINE b == Before(lines, x)
  <2>2. b + 1 <= n0 => b + 1 \in 1..n0
    BY <1>1, <2>1
  <2>3. From(x) = IF b + 1 <= n0 THEN lines[b + 1].address ELSE high
    BY Zenon DEF AddressAt
  <2> HIDE DEF b, n0, From
  <2>4. b + 1 <= n0 => lines[b + 1].address \in Int
    BY <1>1, <2>2
  <2> QED
    BY <2>3, <2>4
<1>5. \A n \in 1..last : EndOf(starts, high, n) \in Int
  <2> SUFFICES ASSUME NEW n \in 1..last PROVE EndOf(starts, high, n) \in Int
    OBVIOUS
  <2>1. n < last => n + 1 \in 1..last
    BY <1>2
  <2> QED
    BY <1>2, <2>1 DEF EndOf
<1>6. /\ z \in Nat /\ Before(lines, high) \in Nat /\ z <= Before(lines, high)
      /\ Before(lines, high) <= n0 /\ owned = (z + 1)..Before(lines, high)
  BY <1>3, LinesInAre
<1>7. Before(lines, high) = n0
  <2>1. IsBefore(Before(lines, high), lines, high)
    BY BeforeIs
  <2>2. Before(lines, high) \in 0..n0 /\ \A i \in 1..n0 : lines[i].address < high <=> i <= Before(lines, high)
    BY <2>1, Zenon DEF IsBefore
  <2> DEFINE b == Before(lines, high)
  <2> HIDE DEF b, n0
  <2>3. n0 >= 1 => n0 \in 1..n0
    BY <1>1
  <2>4. n0 >= 1 => lines[n0].address < high
    BY <1>1, <2>3
  <2>5. n0 >= 1 => n0 <= b
    BY <2>2, <2>3, <2>4 DEF b
  <2>6. b \in 0..n0
    BY <2>2 DEF b
  <2>7. b = n0
    BY <1>1, <2>5, <2>6
  <2> QED
    BY <2>7 DEF b
<1>8. /\ \A n \in 0..last : t[n] = IF n = 0 THEN From(starts[1]) ELSE From(EndOf(starts, high, n))
  OBVIOUS
<1> HIDE DEF t
<1>9. IsTelescope(t, v)
  <2>1. ASSUME NEW n \in 0..last PROVE t[n] \in Int
    <3>1. \A x \in Int : From(x) \in Int
      BY <1>4
    <3> HIDE DEF From
    <3>2. CASE n = 0
      <4>1. t[n] = From(starts[1])
        BY <1>8, <3>2
      <4> QED
        BY <1>3, <3>1, <4>1
    <3>3. CASE n # 0
      <4>1. n \in 1..last /\ t[n] = From(EndOf(starts, high, n))
        BY <1>2, <1>8, <3>3
      <4>2. EndOf(starts, high, n) \in Int
        BY <1>5, <4>1
      <4> QED
        BY <3>1, <4>1, <4>2
    <3> QED
      BY <3>2, <3>3
  <2>2. ASSUME NEW n \in 1..last PROVE v[n] = t[n] - t[n - 1]
    <3>1. v[n] = From(EndOf(starts, high, n)) - From(starts[n])
      OBVIOUS
    <3>2. n \in 0..last /\ n # 0 /\ n - 1 \in 0..last
      BY <1>2
    <3>3. t[n] = From(EndOf(starts, high, n))
      BY <1>8, <3>2
    <3>4. t[n - 1] = From(starts[n])
      <4>1. CASE n = 1
        <5>1. n - 1 = 0
          BY <4>1
        <5> QED
          BY <1>8, <3>2, <4>1, <5>1
      <4>2. CASE n # 1
        <5>1. n - 1 # 0 /\ n - 1 < last /\ (n - 1) + 1 = n
          BY <1>2, <4>2
        <5>2. EndOf(starts, high, n - 1) = starts[n]
          BY <5>1 DEF EndOf
        <5> HIDE DEF From
        <5> QED
          BY <1>8, <3>2, <5>1, <5>2
      <4> QED
        BY <4>1, <4>2
    <3> HIDE DEF From
    <3> QED
      BY <3>1, <3>3, <3>4
  <2> QED
    BY <2>1, <2>2 DEF IsTelescope
<1>10. Summed(v) = t[last] - t[0]
  <2>1. v \in Seq(Int) /\ Len(v) = last
    OBVIOUS
  <2> HIDE DEF last
  <2>2. Summed(v) = t[Len(v)] - t[0]
    BY <1>9, <2>1, Telescopes
  <2> QED
    BY <2>1, <2>2
<1>11. t[last] = high
  <2>1. EndOf(starts, high, last) = high /\ last \in 0..last /\ last # 0
    BY <1>2 DEF EndOf
  <2>2. From(high) = high
    BY <1>1, <1>7 DEF AddressAt
  <2> HIDE DEF From
  <2> QED
    BY <1>8, <2>1, <2>2
<1>12. t[0] = AddressAt(lines, high, z + 1)
  BY <1>2, <1>8
<1> HIDE DEF owned, z, n0, last
<1>13. CASE owned = {}
  <2>1. z = n0
    BY <1>6, <1>7, <1>13
  <2>2. t[0] = high
    BY <1>1, <1>12, <2>1 DEF AddressAt, n0
  <2>3. Summed(v) = 0
    BY <1>10, <1>11, <2>2
  <2> QED
    BY <1>13, <2>3, Zenon DEF BytesOfAll, owned
<1>14. CASE owned # {}
  <2>1. z + 1 \in owned /\ z + 1 <= n0 /\ \A k \in owned : z + 1 <= k
    BY <1>1, <1>6, <1>7, <1>14
  <2> DEFINE IsFirst(i) == i \in owned /\ \A k \in owned : i <= k
             f == CHOOSE i \in owned : \A k \in owned : i <= k
  <2>2. f \in owned /\ \A k \in owned : f <= k
    BY <2>1, Zenon
  <2> HIDE DEF f
  <2>3. f = z + 1
    BY <1>1, <1>6, <2>1, <2>2
  <2>4. t[0] = lines[f].address
    BY <1>12, <2>1, <2>3 DEF AddressAt, n0
  <2>5. Summed(v) = high - lines[f].address
    BY <1>10, <1>11, <2>4
  <2> QED
    BY <1>14, <2>5, Zenon DEF BytesOfAll, owned, f
<1> QED
  BY <1>13, <1>14

-----------------------------------------------------------------------------
(* Calls: their callers, and the edges they make.                           *)

DirectCalls(lines, low, high) ==
  {i \in 1..Len(lines) : lines[i].text.op = "call" /\ lines[i].text.value \in low..(high - 1)}

LEMMA SitesAre ==
  ASSUME NEW low \in Nat, NEW high \in Nat, NEW lines, IsCode(lines, low, high),
         NEW I, IsDisassembly(I, lines, high)
  PROVE  Sites(I, low, high) = DirectCalls(lines, low, high)
<1>1. /\ Len(I) = Len(lines)
      /\ \A i \in 1..Len(lines) : I[i].text = lines[i].text /\ lines[i].text \in CodeText
  BY AddressesAre DEF IsDisassembly
<1>2. ASSUME NEW text \in CodeText
      PROVE  /\ text.op = "call" /\ text.value # Inventory!NoValue
             /\ low <= text.value /\ text.value < high
             <=> text.op = "call" /\ text.value \in low..(high - 1)
  <2>1. text.value \in Int
    BY DEF CodeText, Inventory!NoValue
  <2>2. low <= text.value /\ text.value < high <=> text.value \in low..(high - 1)
    BY <2>1
  <2>3. text.value \in low..(high - 1) => text.value # Inventory!NoValue
    BY <2>1 DEF Inventory!NoValue
  <2> QED
    BY <2>2, <2>3
<1>3. ASSUME NEW i \in 1..Len(lines)
      PROVE  Inventory!Calls(I[i]) /\ low <= I[i].text.value /\ I[i].text.value < high
               <=> lines[i].text.op = "call" /\ lines[i].text.value \in low..(high - 1)
  <2>1. I[i].text = lines[i].text /\ lines[i].text \in CodeText
    BY <1>1
  <2> QED
    BY <1>2, <2>1, Zenon DEF Inventory!Calls
<1> QED
  BY <1>1, <1>3, Zenon DEF Sites, DirectCalls

\* Every call is a caller of one function.
AreCallers(v, value, S, starts) ==
  /\ \A i \in S : \E n \in 1..Len(starts) : value[i] = starts[n]
  /\ \A n \in 1..Len(starts) : v[n] = Cardinality({i \in S : value[i] = starts[n]})

LEMMA AllCallers ==
  ASSUME NEW S, IsFiniteSet(S), NEW value, NEW starts, Increasing(starts),
         NEW v, v \in Seq(Int), Len(v) = Len(starts), AreCallers(v, value, S, starts)
  PROVE  Summed(v) = Cardinality(S)
<1> DEFINE last == Len(starts)
           Upto(n) == {i \in S : \E m \in 1..n : value[i] = starts[m]}
           On(n) == {i \in S : value[i] = starts[n]}
           t == [n \in 0..last |-> Cardinality(Upto(n))]
<1>0. /\ \A i \in S : \E n \in 1..last : value[i] = starts[n]
      /\ \A n \in 1..last : v[n] = Cardinality({i \in S : value[i] = starts[n]})
  BY Zenon DEF AreCallers
<1>1. last \in Nat /\ \A n, m \in 1..last : n # m => starts[n] # starts[m]
  <2>1. starts \in Seq(Int) /\ \A n, m \in 1..last : n < m => starts[n] < starts[m]
    BY DEF Increasing
  <2>2. last \in Nat /\ \A n \in 1..last : starts[n] \in Int
    BY <2>1
  <2> SUFFICES ASSUME NEW n \in 1..last, NEW m \in 1..last, n # m PROVE starts[n] # starts[m]
    BY <2>2
  <2>3. n < m \/ m < n
    OBVIOUS
  <2>4. starts[n] \in Int /\ starts[m] \in Int /\ (starts[n] < starts[m] \/ starts[m] < starts[n])
    BY <2>1, <2>2, <2>3
  <2> QED
    BY <2>4
<1>2. \A n : IsFiniteSet(Upto(n)) /\ Cardinality(Upto(n)) \in Nat
             /\ IsFiniteSet(On(n)) /\ Cardinality(On(n)) \in Nat
  <2> SUFFICES ASSUME NEW n
               PROVE  IsFiniteSet(Upto(n)) /\ Cardinality(Upto(n)) \in Nat
                      /\ IsFiniteSet(On(n)) /\ Cardinality(On(n)) \in Nat
    OBVIOUS
  <2>1. Upto(n) \in SUBSET S /\ On(n) \in SUBSET S
    OBVIOUS
  <2> HIDE DEF Upto, On
  <2>2. IsFiniteSet(Upto(n)) /\ IsFiniteSet(On(n))
    BY <2>1, FS_Subset
  <2> QED
    BY <2>2, FS_CardinalityType
<1>3. \A n \in 0..last : t[n] = Cardinality(Upto(n))
  OBVIOUS
<1>4. Upto(0) = {}
  OBVIOUS
<1>5. Upto(last) = S
  BY <1>0, Zenon
<1>6. ASSUME NEW n \in 1..last PROVE Upto(n) = Upto(n - 1) \cup On(n) /\ Upto(n - 1) \cap On(n) = {}
  <2>1. \A m : m \in 1..n <=> m \in 1..(n - 1) \/ m = n
    BY <1>1
  <2>2. \A m \in 1..(n - 1) : m \in 1..last /\ m # n
    BY <1>1
  <2>3. \A i \in S : (\E m \in 1..n : value[i] = starts[m])
                       <=> (\E m \in 1..(n - 1) : value[i] = starts[m]) \/ value[i] = starts[n]
    BY <2>1, Zenon
  <2>4. \A i \in S : ~((\E m \in 1..(n - 1) : value[i] = starts[m]) /\ value[i] = starts[n])
    BY <1>1, <2>2, Zenon
  <2>5. Upto(n) = Upto(n - 1) \cup On(n)
    BY <2>3
  <2>6. Upto(n - 1) \cap On(n) = {}
    BY <2>4
  <2> QED
    BY <2>5, <2>6
<1>7. \A n \in 1..last : v[n] = Cardinality(On(n))
  BY <1>0, Zenon
<1> HIDE DEF t, Upto, On, last
<1>8. IsTelescope(t, v)
  <2>1. ASSUME NEW n \in 1..last PROVE v[n] = t[n] - t[n - 1]
    <3>1. n \in 0..last /\ n - 1 \in 0..last
      BY <1>1
    <3> DEFINE a == Cardinality(Upto(n - 1))
               b == Cardinality(On(n))
               c == Cardinality(Upto(n - 1) \cap On(n))
    <3>2. Cardinality(Upto(n - 1) \cup On(n)) = (a + b) - c
      <4>1. IsFiniteSet(Upto(n - 1)) /\ IsFiniteSet(On(n)) /\ a \in Nat /\ b \in Nat
        BY <1>2
      <4>2. Cardinality(Upto(n - 1) \cup On(n)) = a + b - c
        BY <4>1, FS_Union, Zenon
      <4>3. c = 0
        BY <1>6, FS_EmptySet
      <4> HIDE DEF a, b, c
      <4> QED
        BY <4>1, <4>2, <4>3
    <3>3. c = 0 /\ a \in Nat /\ b \in Nat
      BY <1>2, <1>6, FS_EmptySet
    <3>4. t[n] = (a + b) - c
      BY <1>3, <1>6, <3>1, <3>2, Zenon
    <3>5. t[n - 1] = a /\ v[n] = b
      BY <1>3, <1>7, <3>1, Zenon
    <3> HIDE DEF a, b, c
    <3> QED
      BY <3>3, <3>4, <3>5
  <2>2. \A n \in 0..last : t[n] \in Int
    BY <1>2, <1>3
  <2> QED
    BY <2>1, <2>2 DEF IsTelescope, last
<1>9. Summed(v) = t[last] - t[0]
  <2>1. Summed(v) = t[Len(v)] - t[0]
    BY <1>8, Telescopes
  <2> QED
    BY <2>1 DEF last
<1>10. t[last] = Cardinality(S) /\ t[0] = 0
  <2>1. last \in 0..last /\ 0 \in 0..last
    BY <1>1
  <2> QED
    BY <1>3, <1>4, <1>5, <2>1, FS_EmptySet
<1>11. Cardinality(S) \in Nat
  BY FS_CardinalityType
<1> QED
  BY <1>9, <1>10, <1>11

\* The calls a function makes of an address, and their edge in the graph.
CallsFrom(lines, starts, low, high, n, x) ==
  {i \in LinesIn(lines, starts[n], EndOf(starts, high, n)) :
     (lines[i].text.op = "call" /\ lines[i].text.value \in low..(high - 1)) /\ lines[i].text.value = x}
Edge(lines, starts, low, high, n, x) ==
  [from |-> starts[n], to |-> x, count |-> Cardinality(CallsFrom(lines, starts, low, high, n, x))]
Edges(lines, starts, low, high) ==
  {Edge(lines, starts, low, high, p[1], starts[p[2]]) :
     p \in {q \in (1..Len(starts)) \X (1..Len(starts)) :
              CallsFrom(lines, starts, low, high, q[1], starts[q[2]]) # {}}}
EdgesOfSites(I, starts, sites) ==
  {[from |-> starts[p[1]], to |-> p[2],
    count |-> Cardinality({i \in sites : Inventory!Owner(starts, I[i].address) = p[1]
                                         /\ I[i].text.value = p[2]})] :
     p \in {<<Inventory!Owner(starts, I[i].address), I[i].text.value>> :
              i \in {k \in sites : Inventory!Owner(starts, I[k].address) # 0}}}

LEMMA EdgesAre ==
  ASSUME NEW low \in Nat, NEW high \in Nat, NEW lines, IsCode(lines, low, high),
         NEW I, IsDisassembly(I, lines, high),
         NEW starts, AreStarts(starts, low, high),
         \A i \in Sites(I, low, high) : \E n \in 1..Len(starts) : I[i].text.value = starts[n]
  PROVE  EdgesOfSites(I, starts, Sites(I, low, high)) = Edges(lines, starts, low, high)
<1> DEFINE sites == Sites(I, low, high)
           last == Len(starts)
           k(i) == Inventory!Owner(starts, I[i].address)
           Value(i) == I[i].text.value
           From(n, x) == CallsFrom(lines, starts, low, high, n, x)
           At(n, x) == {i \in sites : k(i) = n /\ Value(i) = x}
<1>1. /\ Len(I) = Len(lines)
      /\ \A i \in 1..Len(lines) : I[i].address = lines[i].address /\ I[i].text = lines[i].text
  BY DEF IsDisassembly
<1>2. sites = DirectCalls(lines, low, high)
  BY SitesAre
<1>3. ASSUME NEW i \in sites PROVE i \in 1..Len(lines) /\ k(i) \in 0..last
  <2>1. i \in 1..Len(lines)
    BY <1>2 DEF DirectCalls
  <2>2. I[i].address \in low..(high - 1)
    BY <1>1, <2>1, AddressesAre
  <2> QED
    BY <2>1, <2>2, OwnersAre
<1>4. ASSUME NEW n \in 1..last, NEW x PROVE At(n, x) = From(n, x)
  <2>1. OwnedBy(I, starts, n) = LinesIn(lines, starts[n], EndOf(starts, high, n))
    BY OwnedAre
  <2>2. \A i : i \in LinesIn(lines, starts[n], EndOf(starts, high, n)) <=> i \in 1..Len(lines) /\ k(i) = n
    BY <1>1, <2>1, Zenon DEF OwnedBy
  <2>3. \A i \in 1..Len(lines) : Value(i) = lines[i].text.value
    BY <1>1, Zenon
  <2>4. ASSUME NEW i PROVE i \in At(n, x) <=> i \in From(n, x)
    <3>1. i \in sites <=> i \in 1..Len(lines) /\ (lines[i].text.op = "call" /\ lines[i].text.value \in low..(high - 1))
      BY <1>2, Zenon DEF DirectCalls
    <3>2. i \in From(n, x) <=> i \in LinesIn(lines, starts[n], EndOf(starts, high, n))
             /\ (lines[i].text.op = "call" /\ lines[i].text.value \in low..(high - 1)) /\ lines[i].text.value = x
      BY Zenon DEF CallsFrom
    <3>3. i \in At(n, x) <=> i \in sites /\ k(i) = n /\ Value(i) = x
      BY Zenon
    <3> HIDE DEF At, From, sites, k, Value
    <3> QED
      BY <2>2, <2>3, <3>1, <3>2, <3>3, Zenon
  <2> QED
    BY <2>4, Zenon
<1> DEFINE L(p) == [from |-> starts[p[1]], to |-> p[2],
                    count |-> Cardinality({i \in sites : k(i) = p[1] /\ Value(i) = p[2]})]
           pairs == {<<k(i), Value(i)>> : i \in {j \in sites : k(j) # 0}}
           R(p) == Edge(lines, starts, low, high, p[1], starts[p[2]])
           Q == {q \in (1..last) \X (1..last) : From(q[1], starts[q[2]]) # {}}
<1>5. ASSUME NEW p, NEW n \in 1..last, NEW m \in 1..last, p = <<n, starts[m]>>
      PROVE  L(p) = R(<<n, m>>)
  <2>1. p[1] = n /\ p[2] = starts[m] /\ <<n, m>>[1] = n /\ <<n, m>>[2] = m
    BY <1>5
  <2>2. At(n, starts[m]) = From(n, starts[m])
    BY <1>4
  <2>3. L(p) = [from |-> starts[n], to |-> starts[m], count |-> Cardinality(At(n, starts[m]))]
    BY <2>1, Zenon
  <2>4. R(<<n, m>>) = [from |-> starts[n], to |-> starts[m], count |-> Cardinality(From(n, starts[m]))]
    BY <2>1, Zenon DEF Edge
  <2> HIDE DEF L, R, At, From
  <2> QED
    BY <2>2, <2>3, <2>4, Zenon
<1>6. ASSUME NEW p \in pairs PROVE \E q \in Q : L(p) = R(q)
  <2>1. PICK i \in sites : k(i) # 0 /\ p = <<k(i), Value(i)>>
    BY Zenon
  <2>2. k(i) \in 1..last
    <3>1. k(i) \in 0..last
      BY <1>3
    <3> HIDE DEF k
    <3> QED
      BY <2>1, <3>1
  <2>3. PICK m \in 1..last : Value(i) = starts[m]
    BY Zenon
  <2> DEFINE n == k(i)
  <2>4. i \in At(n, starts[m])
    BY <2>3, Zenon
  <2> HIDE DEF n
  <2>5. n \in 1..last /\ p = <<n, starts[m]>>
    BY <2>1, <2>2, <2>3, Zenon DEF n
  <2>6. i \in From(n, starts[m])
    BY <1>4, <2>4, <2>5, Zenon
  <2>7. <<n, m>> \in Q
    <3>1. <<n, m>>[1] = n /\ <<n, m>>[2] = m /\ <<n, m>> \in (1..last) \X (1..last)
      BY <2>5
    <3> HIDE DEF From
    <3> QED
      BY <2>6, <3>1, Zenon
  <2>8. L(p) = R(<<n, m>>)
    BY <1>5, <2>5
  <2> HIDE DEF Q, L, R
  <2> QED
    BY <2>7, <2>8
<1>7. ASSUME NEW q \in Q PROVE \E p \in pairs : L(p) = R(q)
  <2>1. q \in (1..last) \X (1..last) /\ From(q[1], starts[q[2]]) # {}
    OBVIOUS
  <2>2. PICK n \in 1..last, m \in 1..last : q = <<n, m>>
    BY <2>1
  <2>3. q[1] = n /\ q[2] = m
    BY <2>2
  <2>4. PICK i : i \in From(n, starts[m])
    BY <2>1, <2>3, Zenon
  <2>5. i \in At(n, starts[m])
    BY <1>4, <2>4, Zenon
  <2>6. i \in sites /\ k(i) = n /\ Value(i) = starts[m]
    BY <2>5, Zenon
  <2>7. n # 0
    OBVIOUS
  <2>8. <<n, starts[m]>> \in pairs
    <3>1. <<k(i), Value(i)>> \in pairs
      BY <2>6, <2>7, Zenon
    <3> QED
      BY <2>6, <3>1, Zenon
  <2>9. L(<<n, starts[m]>>) = R(<<n, m>>)
    BY <1>5
  <2> HIDE DEF pairs, L, R
  <2> QED
    BY <2>2, <2>8, <2>9
<1>8. EdgesOfSites(I, starts, Sites(I, low, high)) = {L(p) : p \in pairs}
  BY Zenon DEF EdgesOfSites
<1>9. Edges(lines, starts, low, high) = {R(q) : q \in Q}
  BY Zenon DEF Edges
<1> HIDE DEF L, R, pairs, Q
<1>10. {L(p) : p \in pairs} = {R(q) : q \in Q}
  BY <1>6, <1>7, Zenon
<1> QED
  BY <1>8, <1>9, <1>10, Zenon

-----------------------------------------------------------------------------
(* What an inventory counts.                                                *)

LEMMA AddressFrom ==
  ASSUME NEW low \in Nat, NEW high \in Nat, NEW lines, IsCode(lines, low, high), NEW x \in Int
  PROVE  AddressAt(lines, high, Before(lines, x) + 1) \in Int
<1> DEFINE b == Before(lines, x)
           n0 == Len(lines)
<1>1. n0 \in Nat /\ \A i \in 1..n0 : lines[i].address \in low..(high - 1)
  BY AddressesAre, Zenon
<1>2. b \in 0..n0
  <2>1. IsBefore(b, lines, x)
    BY BeforeIs
  <2> QED
    BY <2>1, Zenon DEF IsBefore
<1>3. b + 1 <= n0 => b + 1 \in 1..n0
  BY <1>1, <1>2
<1>4. AddressAt(lines, high, b + 1) = IF b + 1 <= n0 THEN lines[b + 1].address ELSE high
  BY Zenon DEF AddressAt
<1> HIDE DEF b, n0
<1>5. b + 1 <= n0 => lines[b + 1].address \in Int
  BY <1>1, <1>3
<1>6. AddressAt(lines, high, b + 1) \in Int
  BY <1>4, <1>5
<1> QED
  BY <1>6 DEF b

LEMMA CountsAre ==
  ASSUME NEW d, IsCode(d.lines, 16, 24), NEW I, IsDisassembly(I, d.lines, 24),
         NEW seed \in 16..(24 - 1), NEW inventory, Says(inventory, I, seed, 16, 24)
  PROVE  Counts(d, inventory)
<1> DEFINE lines == d.lines
           starts == Starts(I, seed, 16, 24)
           sites == Sites(I, 16, 24)
           functions == inventory.functions
           last == Len(functions)
           e(n) == EndOf(starts, 24, n)
           Own(f) == {i \in 1..Len(d.lines) : f.address <= d.lines[i].address /\ d.lines[i].address < f.end}
           DirectCall(i) == d.lines[i].text.op = "call" /\ d.lines[i].text.value \in 16..23
           owned == UNION {Own(functions[n]) : n \in 1..last}
           Total(field) == Summed([n \in 1..last |-> functions[n][field]])
<1>0. 16 \in Nat /\ 24 \in Nat /\ 24 - 1 = 23
  OBVIOUS
<1>1. I \in Seq(Instruction) /\ Len(I) = Len(lines)
      /\ \A i \in 1..Len(lines) : I[i].address = lines[i].address /\ I[i].text = lines[i].text
  BY DEF IsDisassembly
<1>2. /\ AreStarts(starts, 16, 24)
      /\ \A i \in sites : \E n \in 1..Len(starts) : I[i].text.value = starts[n]
  <2> HIDE DEF starts, sites
  <2>1. /\ AreStarts(Starts(I, seed, 16, 24), 16, 24)
        /\ \A i \in Sites(I, 16, 24) : \E n \in 1..Len(Starts(I, seed, 16, 24)) :
             I[i].text.value = Starts(I, seed, 16, 24)[n]
    BY <1>0, <1>1, StartsAre
  <2> QED
    BY <2>1, Zenon DEF starts, sites
<1>3. sites = DirectCalls(lines, 16, 24)
  BY <1>0, SitesAre
<1>4. /\ last = Len(starts)
      /\ inventory.call_site_count = Cardinality(sites)
      /\ inventory.call_edges = EdgesOfSites(I, starts, sites)
      /\ \A n \in 1..Len(starts) :
           /\ functions[n].address = starts[n]
           /\ functions[n].end = e(n)
           /\ functions[n].instruction_count = Len(Chosen(I, OwnedBy(I, starts, n)))
           /\ functions[n].byte_length = Summed(LengthsOf(Chosen(I, OwnedBy(I, starts, n))))
           /\ functions[n].callers = Cardinality({i \in sites : I[i].text.value = starts[n]})
           /\ Len(functions[n].signature) = Len(Chosen(I, OwnedBy(I, starts, n)))
  BY Zenon DEF Says, EndOf, EdgesOfSites
<1>5. /\ last \in Nat /\ last >= 1 /\ Increasing(starts) /\ starts \in Seq(Int)
      /\ \A n \in 1..last : starts[n] \in 16..23
  BY <1>2, <1>4, <1>0 DEF AreStarts, Increasing
<1>6. ASSUME NEW n \in 1..last
      PROVE  /\ starts[n] \in Int /\ e(n) \in Int /\ starts[n] < e(n)
             /\ OwnedBy(I, starts, n) = LinesIn(lines, starts[n], e(n))
             /\ Len(Chosen(I, OwnedBy(I, starts, n))) = Cardinality(LinesIn(lines, starts[n], e(n)))
             /\ Summed(LengthsOf(Chosen(I, OwnedBy(I, starts, n))))
                  = AddressAt(lines, 24, Before(lines, e(n)) + 1) - AddressAt(lines, 24, Before(lines, starts[n]) + 1)
  <2>1. n \in 1..Len(starts)
    BY <1>4
  <2> HIDE DEF starts
  <2> QED
    BY <1>0, <1>2, <2>1, OwnedAre, OwnCounts
<1>7. \A n \in 1..last : Own(functions[n]) = LinesIn(lines, starts[n], e(n))
  BY <1>4, Zenon DEF LinesIn
<1>8. ASSUME NEW n \in 1..last, NEW x
      PROVE  {i \in Own(functions[n]) : DirectCall(i) /\ d.lines[i].text.value = x}
               = CallsFrom(lines, starts, 16, 24, n, x)
  BY <1>0, <1>7, Zenon DEF CallsFrom
<1>9. owned = LinesIn(lines, starts[1], 24)
  <2>1. owned = UNION {LinesIn(lines, starts[n], e(n)) : n \in 1..Len(starts)}
    <3> HIDE DEF functions, Own, starts, e
    <3> QED
      BY <1>4, <1>7, Zenon
  <2>2. UNION {LinesIn(lines, starts[n], e(n)) : n \in 1..Len(starts)} = LinesIn(lines, starts[1], 24)
    <3> HIDE DEF starts, e
    <3>1. OwnedByAll(lines, starts, 24) = LinesIn(lines, starts[1], 24)
      BY <1>0, <1>2, OwnedTogether
    <3> QED
      BY <3>1, Zenon DEF e, OwnedByAll
  <2> QED
    BY <2>1, <2>2, Zenon
<1> HIDE DEF starts, sites, e
<1>10. ASSUME NEW n \in 1..last
       PROVE  LET f == functions[n]
              IN  /\ f.address < f.end /\ f.end = (IF n < last THEN functions[n + 1].address ELSE 24)
                  /\ f.instruction_count = Cardinality(Own(f))
                  /\ Len(f.signature) = Cardinality(Own(f))
                  /\ f.callers = Cardinality({i \in 1..Len(d.lines) :
                                                DirectCall(i) /\ d.lines[i].text.value = f.address})
  <2> DEFINE f == functions[n]
  <2>1. n \in 1..Len(starts)
    BY <1>4
  <2>2. f.address = starts[n] /\ f.end = e(n) /\ starts[n] < e(n)
    BY <1>4, <1>6, <2>1, Zenon
  <2>3. e(n) = IF n < last THEN functions[n + 1].address ELSE 24
    <3>1. e(n) = IF n < Len(starts) THEN starts[n + 1] ELSE 24
      BY Zenon DEF e, EndOf
    <3>2. n < Len(starts) => n + 1 \in 1..Len(starts)
      BY <1>4, <1>5
    <3> QED
      BY <1>4, <3>1, <3>2, Zenon
  <2>4. Own(f) = LinesIn(lines, starts[n], e(n))
    BY <1>7
  <2>5. f.instruction_count = Cardinality(Own(f)) /\ Len(f.signature) = Cardinality(Own(f))
    BY <1>4, <1>6, <2>1, <2>4, Zenon
  <2>6. {i \in sites : I[i].text.value = starts[n]}
          = {i \in 1..Len(d.lines) : DirectCall(i) /\ d.lines[i].text.value = starts[n]}
    <3>1. \A i : i \in sites <=> i \in 1..Len(d.lines) /\ DirectCall(i)
      BY <1>0, <1>3, Zenon DEF DirectCalls
    <3>2. \A i \in 1..Len(d.lines) : I[i].text.value = d.lines[i].text.value
      BY <1>1, Zenon
    <3> HIDE DEF DirectCall
    <3>3. ASSUME NEW i
          PROVE  i \in sites /\ I[i].text.value = starts[n]
                   <=> i \in 1..Len(d.lines) /\ DirectCall(i) /\ d.lines[i].text.value = starts[n]
      BY <3>1, <3>2, Zenon
    <3> QED
      BY <3>3, Zenon
  <2>7. f.callers = Cardinality({i \in 1..Len(d.lines) : DirectCall(i) /\ d.lines[i].text.value = f.address})
    BY <1>4, <2>1, <2>2, <2>6, Zenon
  <2>8. f.address < f.end /\ f.end = (IF n < last THEN functions[n + 1].address ELSE 24)
    BY <2>2, <2>3, Zenon
  <2> HIDE DEF Own, DirectCall
  <2> QED
    BY <2>5, <2>7, <2>8, Zenon
<1>11. ASSUME NEW i \in 1..Len(d.lines), i \notin owned PROVE d.lines[i].address < functions[1].address
  <2>1. d.lines[i].address \in 16..23
    BY <1>0, AddressesAre
  <2>2. ~(starts[1] <= d.lines[i].address /\ d.lines[i].address < 24)
    BY <1>9, <1>11, Zenon DEF LinesIn
  <2>3. 1 \in 1..Len(starts) /\ starts[1] \in 16..23
    BY <1>4, <1>5
  <2>4. functions[1].address = starts[1]
    BY <1>4, <2>3, Zenon
  <2>5. d.lines[i].address < starts[1]
    BY <2>1, <2>2, <2>3
  <2> QED
    BY <2>4, <2>5, Zenon
<1>12. Total("byte_length") = BytesOfAll(lines, owned, 24)
  <2> DEFINE v == [n \in 1..last |-> functions[n]["byte_length"]]
             From(x) == AddressAt(lines, 24, Before(lines, x) + 1)
  <2>1. ASSUME NEW n \in 1..last PROVE v[n] = From(e(n)) - From(starts[n]) /\ v[n] \in Int
    <3>1. v[n] = functions[n].byte_length
      OBVIOUS
    <3>2. functions[n].byte_length = From(e(n)) - From(starts[n])
      <4>1. n \in 1..Len(starts)
        BY <1>4
      <4> QED
        BY <1>4, <1>6, <4>1, Zenon
    <3>3. From(e(n)) \in Int /\ From(starts[n]) \in Int
      <4>1. e(n) \in Int /\ starts[n] \in Int
        BY <1>6
      <4> QED
        BY <1>0, <4>1, AddressFrom
    <3> HIDE DEF From, v
    <3> QED
      BY <3>1, <3>2, <3>3
  <2>2. v = [n \in 1..last |-> v[n]]
    OBVIOUS
  <2> HIDE DEF v
  <2>3. v \in [1..last -> Int]
    BY <2>1, <2>2
  <2> HIDE DEF last
  <2>4. v \in Seq(Int) /\ Len(v) = last
    BY <1>5, <2>3, IsSequence
  <2>5. \A n \in 1..Len(starts) : v[n] = AddressAt(lines, 24, Before(lines, EndOf(starts, 24, n)) + 1)
                                           - AddressAt(lines, 24, Before(lines, starts[n]) + 1)
    BY <1>4, <2>1, Zenon DEF e
  <2>6. Summed(v) = BytesOfAll(lines, LinesIn(lines, starts[1], 24), 24)
    BY <1>0, <1>2, <1>4, <2>4, <2>5, AllBytes
  <2> QED
    BY <1>9, <2>6, Zenon DEF v
<1>13. Total("callers") = Cardinality(sites)
  <2> DEFINE v == [n \in 1..last |-> functions[n]["callers"]]
             value == [i \in sites |-> I[i].text.value]
  <2>1. IsFiniteSet(sites)
    <3>1. 1..Len(lines) = 1..Len(I) /\ Len(I) \in Nat
      BY <1>1
    <3>2. IsFiniteSet(1..Len(I))
      BY <3>1, FS_Interval
    <3>3. sites \in SUBSET (1..Len(I))
      BY Zenon DEF sites, Sites
    <3> QED
      BY <3>2, <3>3, FS_Subset
  <2>0. \A i \in sites : value[i] = I[i].text.value
    BY Zenon
  <2> HIDE DEF value
  <2>2. ASSUME NEW n \in 1..last
        PROVE  v[n] = Cardinality({i \in sites : value[i] = starts[n]}) /\ v[n] \in Int
    <3>1. v[n] = functions[n].callers
      OBVIOUS
    <3>2. n \in 1..Len(starts)
      BY <1>4
    <3>3. functions[n].callers = Cardinality({i \in sites : value[i] = starts[n]})
      <4>1. {i \in sites : value[i] = starts[n]} = {i \in sites : I[i].text.value = starts[n]}
        BY <2>0, Zenon
      <4> QED
        BY <1>4, <3>2, <4>1, Zenon
    <3>4. {i \in sites : value[i] = starts[n]} \in SUBSET sites
      OBVIOUS
    <3> DEFINE T == {i \in sites : value[i] = starts[n]}
    <3> HIDE DEF v, T
    <3>5. IsFiniteSet(T)
      BY <2>1, <3>4, FS_Subset DEF T
    <3>6. Cardinality(T) \in Nat
      BY <3>5, FS_CardinalityType
    <3>7. v[n] = Cardinality(T)
      BY <3>1, <3>3, Zenon DEF T
    <3>8. v[n] \in Int
      BY <3>6, <3>7
    <3> QED
      BY <3>7, <3>8, Zenon DEF T
  <2>3. v = [n \in 1..last |-> v[n]]
    OBVIOUS
  <2> HIDE DEF v
  <2>4. v \in [1..last -> Int]
    BY <2>2, <2>3
  <2> HIDE DEF last
  <2>5. v \in Seq(Int) /\ Len(v) = last
    BY <1>5, <2>4, IsSequence
  <2>6. \A i \in sites : \E n \in 1..Len(starts) : value[i] = starts[n]
    BY <1>2, <2>0, Zenon
  <2>7. \A n \in 1..Len(starts) : v[n] = Cardinality({i \in sites : value[i] = starts[n]})
    BY <1>4, <2>2, Zenon
  <2>8. AreCallers(v, value, sites, starts)
    BY <2>6, <2>7, Zenon DEF AreCallers
  <2>9. Summed(v) = Cardinality(sites)
    BY <1>4, <1>5, <2>1, <2>5, <2>8, AllCallers
  <2> QED
    BY <2>9, Zenon DEF v
<1>14. inventory.call_edges =
         {[from |-> functions[p[1]].address, to |-> functions[p[2]].address,
           count |-> Cardinality({i \in Own(functions[p[1]]) :
                        DirectCall(i) /\ d.lines[i].text.value = functions[p[2]].address})] :
            p \in {q \in (1..last) \X (1..last) :
               \E i \in Own(functions[q[1]]) :
                 DirectCall(i) /\ d.lines[i].text.value = functions[q[2]].address}}
  <2> DEFINE C(n, x) == {i \in Own(functions[n]) : DirectCall(i) /\ d.lines[i].text.value = x}
             R(p) == [from |-> functions[p[1]].address, to |-> functions[p[2]].address,
                      count |-> Cardinality(C(p[1], functions[p[2]].address))]
             S(p) == Edge(lines, starts, 16, 24, p[1], starts[p[2]])
             Calling(q) == \E i \in Own(functions[q[1]]) :
                             DirectCall(i) /\ d.lines[i].text.value = functions[q[2]].address
             P == {q \in (1..last) \X (1..last) : Calling(q)}
             Q == {q \in (1..last) \X (1..last) : CallsFrom(lines, starts, 16, 24, q[1], starts[q[2]]) # {}}
  <2>1. EdgesOfSites(I, starts, sites) = Edges(lines, starts, 16, 24)
    BY <1>0, <1>2, EdgesAre DEF sites
  <2>2. Edges(lines, starts, 16, 24) = {S(p) : p \in Q}
    <3>1. 1..Len(starts) = 1..last
      BY <1>4
    <3> HIDE DEF last
    <3> QED
      BY <3>1, Zenon DEF Edges
  <2>3. ASSUME NEW q \in (1..last) \X (1..last)
        PROVE  /\ Calling(q) <=> CallsFrom(lines, starts, 16, 24, q[1], starts[q[2]]) # {}
               /\ R(q) = S(q)
    <3>1. q[1] \in 1..last /\ q[2] \in 1..last
      OBVIOUS
    <3>2. q[1] \in 1..Len(starts) /\ q[2] \in 1..Len(starts)
      BY <1>4, <3>1
    <3>3. functions[q[1]].address = starts[q[1]] /\ functions[q[2]].address = starts[q[2]]
      BY <1>4, <3>2, Zenon
    <3>4. C(q[1], starts[q[2]]) = CallsFrom(lines, starts, 16, 24, q[1], starts[q[2]])
      BY <1>8, <3>1
    <3>5. Calling(q) <=> C(q[1], functions[q[2]].address) # {}
      BY Zenon
    <3>6. S(q) = [from |-> starts[q[1]], to |-> starts[q[2]],
                  count |-> Cardinality(CallsFrom(lines, starts, 16, 24, q[1], starts[q[2]]))]
      BY Zenon DEF Edge
    <3> HIDE DEF C, Calling, S, functions
    <3>7. Calling(q) <=> CallsFrom(lines, starts, 16, 24, q[1], starts[q[2]]) # {}
      BY <3>3, <3>4, <3>5, Zenon
    <3>8. R(q) = S(q)
      BY <3>3, <3>4, <3>6, Zenon
    <3> QED
      BY <3>7, <3>8, Zenon
  <2>4. inventory.call_edges = {S(p) : p \in Q}
    BY <1>4, <2>1, <2>2, Zenon
  <2>5. P = Q
    <3> HIDE DEF Calling, last
    <3> QED
      BY <2>3, Zenon
  <2>6. {S(p) : p \in Q} = {R(p) : p \in P}
    <3>1. \A p \in P : p \in (1..last) \X (1..last)
      BY Zenon
    <3> HIDE DEF R, S, P, Q
    <3>2. \A p \in P : R(p) = S(p)
      BY <2>3, <3>1, Zenon
    <3> QED
      BY <2>5, <3>2, Zenon
  <2> QED
    BY <2>4, <2>6, Zenon
<1>15. inventory.call_site_count = Cardinality(sites)
  BY <1>4, Zenon
<1>16. Total("callers") = inventory.call_site_count
  BY <1>13, <1>15, Zenon
<1>17. Total("byte_length")
         = (IF owned = {} THEN 0 ELSE 24 - d.lines[CHOOSE i \in owned : \A k \in owned : i <= k].address)
  BY <1>12, Zenon DEF BytesOfAll
<1> QED
  BY <1>10, <1>11, <1>14, <1>16, <1>17, Zenon DEF Counts

-----------------------------------------------------------------------------
(* The lines that are edited stay lines of the object [16, 24).             *)

Line == [address : 16..(24 - 1), text : CodeText]

CodeInv(d) == d \in [entry : Nat, lines : Seq(Line)] /\ IsCode(d.lines, 16, 24)

LEMMA LinesFit ==
  ASSUME NEW n \in Nat, NEW a \in [1..n -> 16..23],
         \A i, j \in 1..n : i < j => a[i] < a[j]
  PROVE  Lines(a) \in Seq(Line) /\ IsCode(Lines(a), 16, 24)
<1> DEFINE text == Text("mov", Inventory!NoValue)
           l == Lines(a)
<1>1. Len(a) = n /\ 24 - 1 = 23
  BY IsSequence
<1>2. text \in CodeText
  BY DEF CodeText, Text
<1> HIDE DEF text
<1>3. l = [i \in 1..n |-> [address |-> a[i], text |-> text]]
  BY <1>1, Zenon DEF Lines, text
<1>4. ASSUME NEW i \in 1..n PROVE l[i] \in Line /\ l[i].address = a[i]
  <2>1. l[i] = [address |-> a[i], text |-> text]
    BY <1>3
  <2>2. a[i] \in 16..(24 - 1)
    BY <1>1
  <2> HIDE DEF l
  <2> QED
    BY <1>2, <2>1, <2>2 DEF Line
<1>5. l = [i \in 1..n |-> l[i]]
  BY <1>3
<1> HIDE DEF l
<1>6. l \in [1..n -> Line]
  BY <1>4, <1>5
<1>7. l \in Seq(Line) /\ Len(l) = n
  BY <1>6, IsSequence
<1>8. IsCode(l, 16, 24)
  BY <1>4, <1>7 DEF IsCode, Line
<1> QED
  BY <1>7, <1>8 DEF l

LEMMA CodeDocsFit ==
  ASSUME NEW d \in CodeDocs
  PROVE  CodeInv(d)
<1> DEFINE a == <<16, 18, 19, 22>>
           b == <<17, 18, 21>>
<1>1. Lines(a) \in Seq(Line) /\ IsCode(Lines(a), 16, 24)
  <2>1. a \in [1..4 -> 16..23] /\ \A i, j \in 1..4 : i < j => a[i] < a[j]
    OBVIOUS
  <2> HIDE DEF a
  <2> QED
    BY <2>1, LinesFit
<1>2. Lines(b) \in Seq(Line) /\ IsCode(Lines(b), 16, 24)
  <2>1. b \in [1..3 -> 16..23] /\ \A i, j \in 1..3 : i < j => b[i] < b[j]
    OBVIOUS
  <2> HIDE DEF b
  <2> QED
    BY <2>1, LinesFit
<1>3. d = [entry |-> 16, lines |-> Lines(a)] \/ d = [entry |-> 34, lines |-> Lines(b)]
  BY Zenon DEF CodeDocs
<1> HIDE DEF a, b
<1> QED
  BY <1>1, <1>2, <1>3 DEF CodeInv

LEMMA CodeEdited ==
  ASSUME NEW d, CodeInv(d), NEW e \in CodeEdits(d)
  PROVE  CodeInv(e)
<1> DEFINE s == d.lines
           n0 == Len(s)
<1>1. /\ s \in Seq(Line) /\ n0 \in Nat /\ (\A i \in 1..n0 : s[i] \in Line)
      /\ d \in [entry : Nat, lines : Seq(Line)]
      /\ \A n, m \in 1..n0 : n < m => s[n].address < s[m].address
  BY DEF CodeInv, IsCode
<1>2. \/ e \in {[d EXCEPT !.lines[i].text = text] : i \in 1..Len(d.lines), text \in NewTexts}
      \/ e \in {[d EXCEPT !.entry = n] : n \in {16, 19, 23, 24, 34}}
  BY DEF CodeEdits
<1>3. CASE e \in {[d EXCEPT !.lines[i].text = text] : i \in 1..Len(d.lines), text \in NewTexts}
  <2>1. PICK i \in 1..n0, text \in NewTexts : e = [d EXCEPT !.lines[i].text = text]
    BY <1>3
  <2>2. text \in CodeText
    BY DEF NewTexts, CodeText, Text
  <2> DEFINE r == [s[i] EXCEPT !.text = text]
             t == [s EXCEPT ![i] = r]
  <2>3. e = [d EXCEPT !.lines = t]
    BY <1>1, <2>1
  <2>4. r \in Line /\ r.address = s[i].address
    BY <1>1, <2>2 DEF Line
  <2> HIDE DEF r
  <2>5. t \in Seq(Line) /\ Len(t) = n0 /\ \A k \in 1..n0 : t[k] = IF k = i THEN r ELSE s[k]
    BY <1>1, <2>4
  <2> HIDE DEF t
  <2>6. \A n, m \in 1..n0 : n < m => t[n].address < t[m].address
    BY <1>1, <2>4, <2>5
  <2>7. IsCode(t, 16, 24)
    BY <2>5, <2>6 DEF IsCode, Line
  <2>8. e \in [entry : Nat, lines : Seq(Line)] /\ e.lines = t
    BY <1>1, <2>3, <2>5
  <2> QED
    BY <2>7, <2>8 DEF CodeInv
<1>4. CASE e \in {[d EXCEPT !.entry = n] : n \in {16, 19, 23, 24, 34}}
  <2>1. e \in [entry : Nat, lines : Seq(Line)] /\ e.lines = d.lines
    BY <1>1, <1>4
  <2> QED
    BY <2>1 DEF CodeInv
<1> QED
  BY <1>2, <1>3, <1>4

LEMMA InventoriesCount ==
  ASSUME NEW d, CodeInv(d)
  PROVE  InventoryCounts(d)
<1> DEFINE o == [base |-> 16, size |-> 8]
           seed == Inventory!Seed(o, d.entry)
           ranges == {[low |-> x.base, high |-> x.base + x.size] : x \in Objects}
           I == Inventory!WithLengths(d.lines, 24)
<1>1. IsCode(d.lines, 16, 24) /\ d.entry \in Nat
  BY DEF CodeInv
<1>2. (CHOOSE x \in Objects : x.base = 16) = o
  <2>1. o \in Objects /\ o.base = 16 /\ \A x \in Objects : x.base = 16 => x = o
    BY DEF Objects
  <2> HIDE DEF o
  <2> QED
    BY <2>1, Zenon
<1>3. o.base = 16 /\ o.base + o.size = 24
  OBVIOUS
<1>4. Analysed(d) = Inventory!BuildInventory(I, seed, 16, 24, ranges)
  <2>1. Analysed(d) = Inventory!Analyse(Objects, o, d.entry, d.lines)
    BY <1>2, Zenon DEF Analysed
  <2> HIDE DEF o
  <2> QED
    BY <1>3, <2>1, Zenon DEF Inventory!Analyse
<1>5. seed \in 16..(24 - 1)
  BY <1>1 DEF Inventory!Seed
<1>6. IsDisassembly(I, d.lines, 24)
  BY <1>1, LengthsAre
<1> HIDE DEF I, seed, ranges
<1>7. I \in Seq(Instruction)
  BY <1>6 DEF IsDisassembly
<1>8. Says(Inventory!BuildInventory(I, seed, 16, 24, ranges), I, seed, 16, 24)
  BY <1>7, InventorySays
<1> DEFINE inventory == Inventory!BuildInventory(I, seed, 16, 24, ranges)
<1> HIDE DEF inventory
<1>9. Says(inventory, I, seed, 16, 24)
  BY <1>8, Zenon DEF inventory
<1>10. Counts(d, inventory)
  BY <1>1, <1>5, <1>6, <1>9, CountsAre
<1> QED
  BY <1>4, <1>10, Zenon DEF InventoryCounts, inventory
=============================================================================
