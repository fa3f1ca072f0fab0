-------------------------- MODULE RepoIndexProofs --------------------------
(***************************************************************************)
(* Theorems about RepoIndex, for any chunks, requests, segments, limits    *)
(* and number of overlapping calls, and at the end about the splitter of   *)
(* its oversized chunks (TextSplit), for any chunk.                        *)
(***************************************************************************)
EXTENDS RepoIndex, TextSplit, FiniteSetTheorems, NaturalsInduction, WellFoundedInduction, TLAPS

-----------------------------------------------------------------------------
(* Induction over numbers, by the smallest counterexample: the library's    *)
(* theorems for it take an operator, WFMin takes a set.                     *)

\* A set of numbers that is not empty has a smallest one.
LEMMA LeastNat ==
    ASSUME NEW T \in SUBSET Nat, T # {}
    PROVE  \E n \in T : \A m \in T : n <= m
<1>1. IsWellFoundedOn(OpToRel(<, Nat), Nat)
  BY NatLessThanWellFounded
<1>2. PICK x \in T : \A y \in T : ~ (<<y, x>> \in OpToRel(<, Nat))
  BY <1>1, WFMin
<1>3. \A y \in T : ~(y < x)
  BY <1>2 DEF OpToRel
<1>4. \A y \in T : y \in Nat /\ x \in Nat
  OBVIOUS
<1> QED
  BY <1>3, <1>4

\* A set that has 0 and with a number the next one, up to L, has them all.
LEMMA UpTo ==
    ASSUME NEW L \in Nat, NEW T, 0 \in T, \A n \in 1..L : n - 1 \in T => n \in T
    PROVE  L \in T
<1> SUFFICES ASSUME L \notin T PROVE FALSE
  OBVIOUS
<1> DEFINE U == {n \in 0..L : n \notin T}
<1>1. U \in SUBSET Nat /\ U # {}
  OBVIOUS
<1>2. PICK n \in U : \A m \in U : n <= m
  BY <1>1, LeastNat
<1>3. n \in 1..L /\ n - 1 \in 0..L
  BY <1>2
<1>4. n - 1 \in T
  BY <1>2, <1>3
<1> QED
  BY <1>2, <1>3, <1>4

-----------------------------------------------------------------------------
(* The recursive functions of the model exist.                             *)

LEMMA UpsertsDefined ==
    ASSUME NEW m, NEW chunks, NEW k, NEW L \in Nat
    PROVE  \E f : f = [n \in 0..L |-> IF n = 0 THEN m ELSE Upsert(f[n - 1], chunks[n], k)]
<1> DEFINE T == {l \in Nat : \E f :
                   f = [n \in 0..l |-> IF n = 0 THEN m ELSE Upsert(f[n - 1], chunks[n], k)]}
<1>1. 0 \in T
  <2> DEFINE f == [n \in 0..0 |-> m]
  <2>1. f = [n \in 0..0 |-> IF n = 0 THEN m ELSE Upsert(f[n - 1], chunks[n], k)]
    OBVIOUS
  <2> QED
    BY <2>1
<1>2. ASSUME NEW l \in 1..L, l - 1 \in T PROVE l \in T
  <2>1. PICK g : g = [n \in 0..(l - 1) |-> IF n = 0 THEN m ELSE Upsert(g[n - 1], chunks[n], k)]
    BY <1>2
  <2> DEFINE f == [n \in 0..l |-> IF n = l THEN Upsert(g[l - 1], chunks[l], k) ELSE g[n]]
  <2>2. f = [n \in 0..l |-> IF n = 0 THEN m ELSE Upsert(f[n - 1], chunks[n], k)]
    <3>1. ASSUME NEW n \in 0..l
          PROVE  f[n] = IF n = 0 THEN m ELSE Upsert(f[n - 1], chunks[n], k)
      <4>1. CASE n = l
        BY <4>1
      <4>2. CASE n # l
        <5>1. n \in 0..(l - 1) /\ f[n] = g[n]
          BY <4>2
        <5>2. n # 0 => f[n - 1] = g[n - 1]
          BY <5>1
        <5> QED
          BY <2>1, <5>1, <5>2
      <4> QED
        BY <4>1, <4>2
    <3> QED
      BY <3>1
  <2> HIDE DEF f
  <2>3. l \in Nat
    BY <1>2
  <2> QED
    BY <2>2, <2>3
<1> HIDE DEF T
<1>3. L \in T
  BY <1>1, <1>2, UpTo
<1> QED
  BY <1>3 DEF T

\* UpsertAll takes the chunks one by one.
LEMMA UpsertsOneByOne ==
    ASSUME NEW m, NEW chunks \in Seq(Chunks), NEW k
    PROVE  \E f : /\ f[0] = m
                  /\ \A n \in 1..Len(chunks) : f[n] = Upsert(f[n - 1], chunks[n], k)
                  /\ UpsertAll(m, chunks, k) = f[Len(chunks)]
<1> DEFINE L == Len(chunks)
           done == CHOOSE f : f = [n \in 0..L |-> IF n = 0 THEN m ELSE Upsert(f[n - 1], chunks[n], k)]
<1>1. L \in Nat
  OBVIOUS
<1>2. UpsertAll(m, chunks, k) = done[L]
  BY DEF UpsertAll
<1>3. done = [n \in 0..L |-> IF n = 0 THEN m ELSE Upsert(done[n - 1], chunks[n], k)]
  BY <1>1, UpsertsDefined, SMTT(30)
<1> HIDE DEF done, L
<1>4. done[0] = m /\ \A n \in 1..L : done[n] = Upsert(done[n - 1], chunks[n], k)
  <2>1. done[0] = m
    BY <1>1, <1>3
  <2>2. ASSUME NEW n \in 1..L PROVE done[n] = Upsert(done[n - 1], chunks[n], k)
    <3>1. n \in 0..L /\ n # 0
      BY <1>1
    <3> QED
      BY <1>3, <3>1
  <2> QED
    BY <2>1, <2>2
<1> QED
  BY <1>2, <1>4 DEF L

LEMMA FlatDefined ==
    ASSUME NEW chunks, NEW L \in Nat
    PROVE  \E f : f = [n \in 0..L |-> IF n = 0 THEN <<>> ELSE f[n - 1] \o Expanded(chunks[n])]
<1> DEFINE T == {l \in Nat : \E f :
                   f = [n \in 0..l |-> IF n = 0 THEN <<>> ELSE f[n - 1] \o Expanded(chunks[n])]}
<1>1. 0 \in T
  <2> DEFINE f == [n \in 0..0 |-> <<>>]
  <2>1. f = [n \in 0..0 |-> IF n = 0 THEN <<>> ELSE f[n - 1] \o Expanded(chunks[n])]
    OBVIOUS
  <2> QED
    BY <2>1
<1>2. ASSUME NEW l \in 1..L, l - 1 \in T PROVE l \in T
  <2>1. PICK g : g = [n \in 0..(l - 1) |-> IF n = 0 THEN <<>> ELSE g[n - 1] \o Expanded(chunks[n])]
    BY <1>2
  <2> DEFINE f == [n \in 0..l |-> IF n = l THEN g[l - 1] \o Expanded(chunks[l]) ELSE g[n]]
  <2>2. f = [n \in 0..l |-> IF n = 0 THEN <<>> ELSE f[n - 1] \o Expanded(chunks[n])]
    <3>1. ASSUME NEW n \in 0..l
          PROVE  f[n] = IF n = 0 THEN <<>> ELSE f[n - 1] \o Expanded(chunks[n])
      <4>1. CASE n = l
        <5>1. n # 0 /\ n - 1 \in 0..l /\ n - 1 # l /\ l - 1 = n - 1
          BY <1>2, <4>1
        <5>2. f[n] = g[n - 1] \o Expanded(chunks[n]) /\ f[n - 1] = g[n - 1]
          BY <4>1, <5>1
        <5> QED
          BY <5>1, <5>2
      <4>2. CASE n # l
        <5>1. n \in 0..(l - 1) /\ f[n] = g[n]
          BY <4>2
        <5>2. n # 0 => f[n - 1] = g[n - 1]
          BY <5>1
        <5> QED
          BY <2>1, <5>1, <5>2
      <4> QED
        BY <4>1, <4>2
    <3> QED
      BY <3>1
  <2> HIDE DEF f
  <2>3. l \in Nat
    BY <1>2
  <2> QED
    BY <2>2, <2>3
<1> HIDE DEF T
<1>3. L \in T
  BY <1>1, <1>2, UpTo
<1> QED
  BY <1>3 DEF T

\* expandOversizedChunks takes the chunks one by one.
LEMMA FlatOneByOne ==
    ASSUME NEW chunks \in Seq(Chunks)
    PROVE  \E f : /\ f[0] = <<>>
                  /\ \A n \in 1..Len(chunks) : f[n] = f[n - 1] \o Expanded(chunks[n])
                  /\ expandOversizedChunks(chunks) = f[Len(chunks)]
<1> DEFINE L == Len(chunks)
           flat == CHOOSE f : f = [n \in 0..L |-> IF n = 0 THEN <<>> ELSE f[n - 1] \o Expanded(chunks[n])]
<1>1. L \in Nat
  OBVIOUS
<1>2. expandOversizedChunks(chunks) = flat[L]
  BY DEF expandOversizedChunks
<1>3. flat = [n \in 0..L |-> IF n = 0 THEN <<>> ELSE flat[n - 1] \o Expanded(chunks[n])]
  BY <1>1, FlatDefined
<1> HIDE DEF flat, L
<1>4. flat[0] = <<>> /\ \A n \in 1..L : flat[n] = flat[n - 1] \o Expanded(chunks[n])
  <2>1. flat[0] = <<>>
    BY <1>1, <1>3
  <2>2. ASSUME NEW n \in 1..L PROVE flat[n] = flat[n - 1] \o Expanded(chunks[n])
    <3>1. n \in 0..L /\ n # 0
      BY <1>1
    <3> QED
      BY <1>3, <3>1
  <2> QED
    BY <2>1, <2>2
<1> QED
  BY <1>2, <1>4 DEF L

-----------------------------------------------------------------------------
(* Oversized chunks.                                                       *)

\* Every segment comes after its first one, with its text, and after the first
\* segment of an oversized chunk come the others.
Grouped(up) ==
    \A j \in 1..Len(up) :
        /\ up[j].id[2] < j
        /\ up[j - up[j].id[2]].id = <<up[j].id[1], 0>>
        /\ up[j - up[j].id[2]].text = up[j].text
        /\ up[j].id[2] = 0 /\ up[j].big =>
             \A i \in 1..(Segments - 1) :
                 /\ j + i \in 1..Len(up)
                 /\ up[j + i].id = <<up[j].id[1], i>>

LEMMA IdParts ==
    ASSUME NEW i \in Ids
    PROVE  i = <<i[1], i[2]>> /\ i[1] \in Names /\ i[2] \in 0..(Segments - 1)
BY DEF Ids

LEMMA SegmentType ==
    ASSUME NEW c \in Chunks, NEW i \in 0..(Segments - 1)
    PROVE  /\ Segment(c, i) \in Chunks
           /\ Segment(c, i).id = <<c.id[1], i>>
           /\ Segment(c, i).text = c.text
           /\ Segment(c, i).big = c.big
<1>1. c.id \in Ids /\ c.id[1] \in Names
  BY IdParts DEF Chunks
<1>2. <<c.id[1], i>> \in Ids
  BY <1>1 DEF Ids
<1>3. (IF i = 0 THEN c.imports ELSE {}) \in SUBSET Paths
  BY DEF Chunks
<1> QED
  BY <1>2, <1>3 DEF Segment, Chunks

LEMMA ExpandedGrouped ==
    ASSUME NEW c \in Chunks, c.id[2] = 0
    PROVE  Expanded(c) \in Seq(Chunks) /\ Grouped(Expanded(c))
<1>1. Segments \in Nat \ {0}
  BY RepoIndexAssumption
<1>2. c.id = <<c.id[1], 0>>
  <2>1. c.id \in Ids
    BY DEF Chunks
  <2> QED
    BY <2>1, IdParts
<1>3. CASE c.big
  <2> DEFINE e == [i \in 1..Segments |-> Segment(c, i - 1)]
  <2>1. Expanded(c) = e
    BY <1>3 DEF Expanded
  <2>2. \A i \in 1..Segments : e[i] \in Chunks /\ e[i].id = <<c.id[1], i - 1>> /\ e[i].text = c.text
    <3>1. ASSUME NEW i \in 1..Segments
          PROVE  e[i] \in Chunks /\ e[i].id = <<c.id[1], i - 1>> /\ e[i].text = c.text
      <4>1. i - 1 \in 0..(Segments - 1) /\ e[i] = Segment(c, i - 1)
        BY <1>1
      <4> QED
        BY <4>1, SegmentType
    <3> QED
      BY <3>1
  <2>3. e \in Seq(Chunks) /\ Len(e) = Segments
    BY <1>1, <2>2
  <2> HIDE DEF e
  <2>4. Grouped(e)
    <3> SUFFICES ASSUME NEW j \in 1..Len(e)
                 PROVE  /\ e[j].id[2] < j
                        /\ e[j - e[j].id[2]].id = <<e[j].id[1], 0>>
                        /\ e[j - e[j].id[2]].text = e[j].text
                        /\ e[j].id[2] = 0 /\ e[j].big =>
                             \A i \in 1..(Segments - 1) :
                                 j + i \in 1..Len(e) /\ e[j + i].id = <<e[j].id[1], i>>
      BY DEF Grouped
    <3>1. e[j].id = <<c.id[1], j - 1>> /\ j - (j - 1) = 1 /\ j \in Nat
      BY <2>2, <2>3
    <3>2. e[j].id[1] = c.id[1] /\ e[j].id[2] = j - 1
      BY <3>1
    <3>3. e[1].id = <<c.id[1], 0>> /\ e[1].text = c.text /\ e[j].text = c.text
      BY <1>1, <2>2, <2>3
    <3>4. j = 1 => \A i \in 1..(Segments - 1) : j + i \in 1..Len(e) /\ e[j + i].id = <<c.id[1], i>>
      <4>1. ASSUME j = 1, NEW i \in 1..(Segments - 1)
            PROVE  j + i \in 1..Len(e) /\ e[j + i].id = <<c.id[1], i>>
        <5>1. j + i \in 1..Segments /\ (j + i) - 1 = i
          BY <1>1, <4>1
        <5> QED
          BY <2>2, <2>3, <5>1
      <4> QED
        BY <4>1
    <3> QED
      BY <3>1, <3>2, <3>3, <3>4
  <2> QED
    BY <2>1, <2>3, <2>4
<1>4. CASE ~c.big
  <2> DEFINE e == <<c>>
  <2>1. Expanded(c) = e
    BY <1>4 DEF Expanded
  <2>2. e \in Seq(Chunks) /\ Len(e) = 1 /\ e[1] = c
    OBVIOUS
  <2> HIDE DEF e
  <2>3. Grouped(e)
    BY <1>2, <1>4, <2>2 DEF Grouped
  <2> QED
    BY <2>1, <2>2, <2>3
<1> QED
  BY <1>3, <1>4

LEMMA GroupedConcat ==
    ASSUME NEW a \in Seq(Chunks), NEW b \in Seq(Chunks), Grouped(a), Grouped(b)
    PROVE  a \o b \in Seq(Chunks) /\ Grouped(a \o b)
<1> DEFINE s == a \o b
           A == Len(a)
           B == Len(b)
<1>1. /\ s \in Seq(Chunks) /\ A \in Nat /\ B \in Nat /\ Len(s) = A + B
      /\ \A i \in 1..A : s[i] = a[i]
      /\ \A i \in 1..B : s[A + i] = b[i]
  OBVIOUS
<1>2. Segments \in Nat \ {0}
  BY RepoIndexAssumption
<1>3. \A i \in 1..A : a[i].id[2] \in Nat
  <2>1. ASSUME NEW i \in 1..A PROVE a[i].id[2] \in Nat
    <3>1. a[i] \in Chunks
      BY DEF A
    <3>2. a[i].id \in Ids
      BY <3>1 DEF Chunks
    <3> QED
      BY <1>2, <3>2, IdParts
  <2> QED
    BY <2>1
<1>4. \A i \in 1..B : b[i].id[2] \in Nat
  <2>1. ASSUME NEW i \in 1..B PROVE b[i].id[2] \in Nat
    <3>1. b[i] \in Chunks
      BY DEF B
    <3>2. b[i].id \in Ids
      BY <3>1 DEF Chunks
    <3> QED
      BY <1>2, <3>2, IdParts
  <2> QED
    BY <2>1
<1> HIDE DEF s, A, B
<1>5. ASSUME NEW j \in 1..Len(s)
      PROVE  /\ s[j].id[2] < j
             /\ s[j - s[j].id[2]].id = <<s[j].id[1], 0>>
             /\ s[j - s[j].id[2]].text = s[j].text
             /\ s[j].id[2] = 0 /\ s[j].big =>
                  \A i \in 1..(Segments - 1) :
                      j + i \in 1..Len(s) /\ s[j + i].id = <<s[j].id[1], i>>
  <2>1. CASE j <= A
    <3> DEFINE i == a[j].id[2]
    <3>1. j \in 1..A /\ s[j] = a[j]
      BY <1>1, <2>1
    <3>2. i \in Nat /\ i < j /\ a[j - i].id = <<a[j].id[1], 0>> /\ a[j - i].text = a[j].text
      BY <1>3, <3>1 DEF Grouped, A
    <3> HIDE DEF i
    <3>3. s[j - i] = a[j - i]
      BY <1>1, <3>1, <3>2
    <3>4. ASSUME i = 0, a[j].big, NEW l \in 1..(Segments - 1)
          PROVE  j + l \in 1..Len(s) /\ s[j + l].id = <<s[j].id[1], l>>
      <4>1. j + l \in 1..A /\ a[j + l].id = <<a[j].id[1], l>>
        BY <3>1, <3>4 DEF Grouped, A, i
      <4> QED
        BY <1>1, <3>1, <4>1
    <3> QED
      BY <3>1, <3>2, <3>3, <3>4 DEF i
  <2>2. CASE j > A
    <3>1. PICK k \in 1..B : j = A + k
      <4>1. j - A \in 1..B /\ j = A + (j - A)
        BY <1>1, <2>2
      <4> QED
        BY <4>1
    <3> DEFINE i == b[k].id[2]
    <3>2. s[j] = b[k]
      BY <1>1, <3>1
    <3>3. i \in Nat /\ i < k /\ b[k - i].id = <<b[k].id[1], 0>> /\ b[k - i].text = b[k].text
      BY <1>4, <3>1 DEF Grouped, B
    <3> HIDE DEF i
    <3>4. k - i \in 1..B /\ j - i = A + (k - i) /\ i < j
      BY <1>1, <3>1, <3>3
    <3>5. s[j - i] = b[k - i]
      BY <1>1, <3>4
    <3>6. ASSUME i = 0, b[k].big, NEW l \in 1..(Segments - 1)
          PROVE  j + l \in 1..Len(s) /\ s[j + l].id = <<s[j].id[1], l>>
      <4>1. k + l \in 1..B /\ b[k + l].id = <<b[k].id[1], l>>
        BY <3>1, <3>6 DEF Grouped, B, i
      <4>2. j + l = A + (k + l) /\ j + l \in 1..Len(s)
        BY <1>1, <1>2, <3>1, <4>1
      <4> QED
        BY <1>1, <3>2, <4>1, <4>2
    <3> QED
      BY <3>2, <3>3, <3>4, <3>5, <3>6 DEF i
  <2> QED
    BY <1>1, <2>1, <2>2
<1>6. Grouped(s)
  BY <1>5 DEF Grouped
<1> QED
  BY <1>1, <1>6 DEF s

\* What the server makes of the chunks of a request.
LEMMA FlatGrouped ==
    ASSUME NEW chunks \in Seq(Chunks), \A n \in 1..Len(chunks) : chunks[n].id[2] = 0
    PROVE  expandOversizedChunks(chunks) \in Seq(Chunks) /\ Grouped(expandOversizedChunks(chunks))
<1> DEFINE L == Len(chunks)
<1>1. PICK f : /\ f[0] = <<>>
               /\ \A n \in 1..L : f[n] = f[n - 1] \o Expanded(chunks[n])
               /\ expandOversizedChunks(chunks) = f[L]
  BY FlatOneByOne
<1> DEFINE T == {n \in 0..L : f[n] \in Seq(Chunks) /\ Grouped(f[n])}
<1>2. L \in Nat
  OBVIOUS
<1>3. \A n \in 1..L : chunks[n] \in Chunks /\ chunks[n].id[2] = 0
  OBVIOUS
<1> HIDE DEF L
<1>4. 0 \in T
  <2>1. Grouped(<<>>) /\ <<>> \in Seq(Chunks)
    BY DEF Grouped
  <2>2. f[0] \in Seq(Chunks) /\ Grouped(f[0])
    <3>1. f[0] = <<>>
      BY <1>1
    <3> QED
      BY <2>1, <3>1
  <2>3. 0 \in 0..L
    BY <1>2
  <2> QED
    BY <2>2, <2>3
<1>5. ASSUME NEW n \in 1..L, n - 1 \in T PROVE n \in T
  <2>1. f[n - 1] \in Seq(Chunks) /\ Grouped(f[n - 1])
    BY <1>5
  <2>2. Expanded(chunks[n]) \in Seq(Chunks) /\ Grouped(Expanded(chunks[n]))
    BY <1>3, ExpandedGrouped
  <2>3. f[n] \in Seq(Chunks) /\ Grouped(f[n])
    BY <1>1, <2>1, <2>2, GroupedConcat
  <2>4. n \in 0..L
    BY <1>2
  <2> QED
    BY <2>3, <2>4
<1> HIDE DEF T
<1>6. L \in T
  BY <1>2, <1>4, <1>5, UpTo
<1> QED
  BY <1>1, <1>6 DEF T

-----------------------------------------------------------------------------
(* What the steps of the critical section do to the memory.                *)

Fields == {"store", "imports", "importedBy", "symbols", "deleted", "rewritten", "moved",
           "removed", "crowded", "dropped", "stale"}

\* The chunks of a store that are of path p, and what they import.
Imported(f, p) == {x \in Paths : \E i \in DOMAIN f : f[i].chunk.path = p /\ x \in f[i].chunk.imports}

\* An entry of imports.
Listed(e) == IF e = None THEN {} ELSE e

StoreInv(f) ==
    /\ f = [i \in DOMAIN f |-> f[i]]
    /\ DOMAIN f \subseteq Ids
    /\ IsFiniteSet(DOMAIN f)
    /\ \A i \in DOMAIN f :
         /\ DOMAIN f[i] = {"chunk", "embed", "by"}
         /\ f[i].chunk \in Chunks
         /\ f[i].chunk.id = i
         /\ f[i].embed \in {None, f[i].chunk.text}

GraphType(m) ==
    /\ m.imports \in [Paths -> (SUBSET Paths) \cup {None}]
    /\ m.importedBy \in [Paths -> SUBSET Paths]
    /\ m.symbols \in [Symbols -> Ids \cup {None}]

\* What imports and importedBy say of p, q.
EdgesInv(m) ==
    /\ \A p \in Paths :
         /\ Listed(m.imports[p]) \subseteq Imported(m.store, p) \/ p \in m.moved
         /\ Listed(m.imports[p]) = Imported(m.store, p) \/ p \in m.removed \cup m.crowded \cup m.moved
    /\ \A p, q \in Paths :
         /\ p \in Imported(m.store, q) /\ q \notin m.importedBy[p] => q \in m.removed
         /\ q \in m.importedBy[p] /\ p \notin Imported(m.store, q) => q \in m.rewritten

SymbolsInv(m) ==
    \A s \in Symbols : m.symbols[s] # None /\ s \notin m.rewritten =>
        m.symbols[s] \in DOMAIN m.store /\ m.store[m.symbols[s]].chunk.symbol = s

MemoryInv(m) ==
    /\ Fields \subseteq DOMAIN m
    /\ StoreInv(m.store)
    /\ GraphType(m)
    /\ EdgesInv(m)
    /\ SymbolsInv(m)

\* The vector an upserted chunk begins with.
KeptVector(m, c) ==
    LET old == IF c.id \in DOMAIN m.store THEN {m.store[c.id]} ELSE {}
        same == {o \in old : o.chunk.text = c.text /\ o.chunk.big = c.big}
    IN  IF same = {} THEN None ELSE (CHOOSE o \in same : TRUE).embed

Replaced(m, c) == IF c.id \in DOMAIN m.store THEN {m.store[c.id]} ELSE {}

\* Upsert turns m into u.
Upserted(m, c, k, u) ==
    LET f == With(m.store, c.id, [chunk |-> c, embed |-> KeptVector(m, c), by |-> k])
    IN  /\ Fields \subseteq DOMAIN u
        /\ u.store = f
        /\ u.imports = [m.imports EXCEPT ![c.path] = c.imports]
        /\ u.importedBy = [p \in Paths |-> IF p \in c.imports THEN m.importedBy[p] \cup {c.path}
                                           ELSE m.importedBy[p]]
        /\ u.symbols = [s \in Symbols |-> IF s = c.symbol THEN c.id ELSE m.symbols[s]]
        /\ u.crowded = IF \E i \in DOMAIN f : i # c.id /\ f[i].chunk.path = c.path
                       THEN m.crowded \cup {c.path} ELSE m.crowded
        /\ u.rewritten = m.rewritten \cup UNION {{o.chunk.path, o.chunk.symbol} : o \in Replaced(m, c)}
        /\ u.moved = m.moved \cup {o.chunk.path : o \in {x \in Replaced(m, c) : x.chunk.path # c.path}}
        /\ u.stale = IF c.id[2] = 0 /\ Replaced(m, c) # {} THEN m.stale \cup {c.id[1]} ELSE m.stale
        /\ u.removed = m.removed /\ u.deleted = m.deleted /\ u.dropped = m.dropped

LEMMA UpsertFields ==
    ASSUME NEW m, NEW c \in Chunks, NEW k, Fields \subseteq DOMAIN m
    PROVE  Upserted(m, c, k, Upsert(m, c, k))
BY DEF Upserted, Upsert, updateGraphLocked, KeptVector, Replaced, Fields

\* The chunks of gone leave the store m of the memory, and u is left.
Leave(m, gone, u) ==
    /\ Fields \subseteq DOMAIN u
    /\ u.store = [i \in DOMAIN m.store \ gone |-> m.store[i]]
    /\ u.imports = [p \in Paths |-> IF \E i \in gone : m.store[i].chunk.path = p THEN None
                                    ELSE m.imports[p]]
    /\ u.importedBy = [p \in Paths |->
                         m.importedBy[p] \ {q \in Paths : \E i \in gone :
                             m.store[i].chunk.path = q /\ p \in m.store[i].chunk.imports}]
    /\ u.symbols = [s \in Symbols |->
                      IF \E i \in gone : s = m.store[i].chunk.symbol /\ m.symbols[s] = m.store[i].chunk.id
                      THEN None ELSE m.symbols[s]]
    /\ u.removed = m.removed \cup {m.store[i].chunk.path : i \in gone}
    /\ u.rewritten = m.rewritten /\ u.moved = m.moved /\ u.crowded = m.crowded

LEMMA RemoveFields ==
    ASSUME NEW m, Fields \subseteq DOMAIN m, NEW gone \in SUBSET (DOMAIN m.store),
           \A i \in gone : m.store[i].chunk \in Chunks
    PROVE  LET u == removeGraphLocked(m, ChunksOf(m, gone))
           IN  /\ Fields \subseteq DOMAIN u
               /\ u.imports = [p \in Paths |-> IF \E i \in gone : m.store[i].chunk.path = p THEN None
                                               ELSE m.imports[p]]
               /\ u.importedBy = [p \in Paths |->
                                    m.importedBy[p] \ {q \in Paths : \E i \in gone :
                                        m.store[i].chunk.path = q /\ p \in m.store[i].chunk.imports}]
               /\ u.symbols = [s \in Symbols |->
                                 IF \E i \in gone : s = m.store[i].chunk.symbol
                                                    /\ m.symbols[s] = m.store[i].chunk.id
                                 THEN None ELSE m.symbols[s]]
               /\ u.removed = m.removed \cup {m.store[i].chunk.path : i \in gone}
               /\ u.store = m.store /\ u.rewritten = m.rewritten /\ u.moved = m.moved
               /\ u.crowded = m.crowded /\ u.deleted = m.deleted /\ u.dropped = m.dropped
               /\ u.stale = m.stale
<1> DEFINE u == removeGraphLocked(m, ChunksOf(m, gone))
           C == ChunksOf(m, gone)
<1>1. /\ Fields \subseteq DOMAIN u
      /\ u.imports = [p \in Paths |-> IF \E c \in C : c.path = p THEN None ELSE m.imports[p]]
      /\ u.importedBy = [p \in Paths |-> m.importedBy[p] \ {c.path : c \in {d \in C : p \in d.imports}}]
      /\ u.symbols = [s \in Symbols |-> IF \E c \in C : s = c.symbol /\ m.symbols[s] = c.id
                                        THEN None ELSE m.symbols[s]]
      /\ u.removed = m.removed \cup {c.path : c \in C}
      /\ u.store = m.store /\ u.rewritten = m.rewritten /\ u.moved = m.moved
      /\ u.crowded = m.crowded /\ u.deleted = m.deleted /\ u.dropped = m.dropped
      /\ u.stale = m.stale
  <2> HIDE DEF C
  <2> QED
    BY DEF removeGraphLocked, Fields, C
<1>2. C = {m.store[i].chunk : i \in gone}
  BY DEF ChunksOf
<1> HIDE DEF u, C
<1>3. {c.path : c \in C} = {m.store[i].chunk.path : i \in gone}
  BY <1>2
<1>4. ASSUME NEW p \in Paths
      PROVE  /\ (\E c \in C : c.path = p) <=> (\E i \in gone : m.store[i].chunk.path = p)
             /\ {c.path : c \in {d \in C : p \in d.imports}} =
                  {q \in Paths : \E i \in gone : m.store[i].chunk.path = q /\ p \in m.store[i].chunk.imports}
  <2>1. (\E c \in C : c.path = p) <=> (\E i \in gone : m.store[i].chunk.path = p)
    BY <1>2
  <2>2. \A c \in C : c.path \in Paths
    BY <1>2 DEF Chunks
  <2>3. {c.path : c \in {d \in C : p \in d.imports}} =
          {q \in Paths : \E i \in gone : m.store[i].chunk.path = q /\ p \in m.store[i].chunk.imports}
    BY <1>2, <2>2
  <2> QED
    BY <2>1, <2>3
<1>5. ASSUME NEW s \in Symbols
      PROVE  (\E c \in C : s = c.symbol /\ m.symbols[s] = c.id) <=>
             (\E i \in gone : s = m.store[i].chunk.symbol /\ m.symbols[s] = m.store[i].chunk.id)
  BY <1>2
<1>6. u.imports = [p \in Paths |-> IF \E i \in gone : m.store[i].chunk.path = p THEN None
                                   ELSE m.imports[p]]
  BY <1>1, <1>4
<1>7. u.importedBy = [p \in Paths |->
                        m.importedBy[p] \ {q \in Paths : \E i \in gone :
                            m.store[i].chunk.path = q /\ p \in m.store[i].chunk.imports}]
  <2> DEFINE A(p) == {c.path : c \in {d \in C : p \in d.imports}}
             B(p) == {q \in Paths : \E i \in gone :
                        m.store[i].chunk.path = q /\ p \in m.store[i].chunk.imports}
  <2>1. \A p \in Paths : A(p) = B(p)
    BY <1>4
  <2>2. u.importedBy = [p \in Paths |-> m.importedBy[p] \ A(p)]
    BY <1>1
  <2> HIDE DEF A, B
  <2>3. u.importedBy = [p \in Paths |-> m.importedBy[p] \ B(p)]
    BY <2>1, <2>2
  <2> QED
    BY <2>3 DEF B
<1>8. u.symbols = [s \in Symbols |->
                     IF \E i \in gone : s = m.store[i].chunk.symbol /\ m.symbols[s] = m.store[i].chunk.id
                     THEN None ELSE m.symbols[s]]
  BY <1>1, <1>5
<1> QED
  BY <1>1, <1>3, <1>6, <1>7, <1>8 DEF u

\* DeleteAll and KeepOnly.
Deleted(m, ids, u) ==
    /\ Leave(m, ids \cap DOMAIN m.store, u)
    /\ u.deleted = m.deleted \cup ids
    /\ u.dropped = m.dropped
    /\ u.stale = m.stale \cup {id[1] : id \in ids \cap DOMAIN m.store}

Kept(m, keep, u) ==
    /\ Unkept(m, keep) \subseteq DOMAIN m.store
    /\ Leave(m, Unkept(m, keep), u)
    /\ u.deleted = m.deleted \cup Unkept(m, keep)
    /\ u.dropped = m.dropped \cup {id[1] : id \in Unkept(m, keep)}
    /\ u.stale = m.stale

LEMMA DeleteFields ==
    ASSUME NEW m, MemoryInv(m), NEW ids
    PROVE  Deleted(m, ids, DeleteAll(m, ids))
<1> DEFINE gone == ids \cap DOMAIN m.store
           r == removeGraphLocked(m, ChunksOf(m, gone))
           u == [r EXCEPT !.store = Without(@, ids), !.deleted = @ \cup ids,
                          !.stale = @ \cup {id[1] : id \in gone}]
<1>1. DeleteAll(m, ids) = u
  BY DEF DeleteAll
<1>2. Fields \subseteq DOMAIN m /\ gone \in SUBSET (DOMAIN m.store) /\ \A i \in gone : m.store[i].chunk \in Chunks
  BY DEF MemoryInv, StoreInv
<1>3. Without(m.store, ids) = [i \in DOMAIN m.store \ gone |-> m.store[i]]
  BY DEF Without
<1> HIDE DEF gone
<1>4. /\ Fields \subseteq DOMAIN r
      /\ r.imports = [p \in Paths |-> IF \E i \in gone : m.store[i].chunk.path = p THEN None
                                      ELSE m.imports[p]]
      /\ r.importedBy = [p \in Paths |->
                           m.importedBy[p] \ {q \in Paths : \E i \in gone :
                               m.store[i].chunk.path = q /\ p \in m.store[i].chunk.imports}]
      /\ r.symbols = [s \in Symbols |->
                        IF \E i \in gone : s = m.store[i].chunk.symbol /\ m.symbols[s] = m.store[i].chunk.id
                        THEN None ELSE m.symbols[s]]
      /\ r.removed = m.removed \cup {m.store[i].chunk.path : i \in gone}
      /\ r.store = m.store /\ r.rewritten = m.rewritten /\ r.moved = m.moved
      /\ r.crowded = m.crowded /\ r.deleted = m.deleted /\ r.dropped = m.dropped
      /\ r.stale = m.stale
  BY <1>2, RemoveFields
<1> HIDE DEF r
<1>5. /\ Fields \subseteq DOMAIN u
      /\ u.store = Without(r.store, ids)
      /\ u.deleted = r.deleted \cup ids
      /\ u.stale = r.stale \cup {id[1] : id \in gone}
      /\ u.imports = r.imports /\ u.importedBy = r.importedBy /\ u.symbols = r.symbols
      /\ u.removed = r.removed /\ u.rewritten = r.rewritten /\ u.moved = r.moved
      /\ u.crowded = r.crowded /\ u.dropped = r.dropped
  BY <1>4 DEF Fields
<1> HIDE DEF u
<1>6. Leave(m, gone, u)
  BY <1>3, <1>4, <1>5 DEF Leave
<1> QED
  BY <1>1, <1>4, <1>5, <1>6 DEF gone, Deleted

LEMMA KeepFields ==
    ASSUME NEW m, MemoryInv(m), NEW keep
    PROVE  Kept(m, keep, KeepOnly(m, keep))
<1> DEFINE gone == Unkept(m, keep)
           r == removeGraphLocked(m, ChunksOf(m, gone))
           u == [r EXCEPT !.store = Without(@, gone), !.deleted = @ \cup gone,
                          !.dropped = @ \cup {id[1] : id \in gone}]
<1>1. KeepOnly(m, keep) = u
  BY DEF KeepOnly
<1>2. Fields \subseteq DOMAIN m /\ gone \in SUBSET (DOMAIN m.store) /\ \A i \in gone : m.store[i].chunk \in Chunks
  BY DEF MemoryInv, StoreInv, Unkept
<1>3. Without(m.store, gone) = [i \in DOMAIN m.store \ gone |-> m.store[i]]
  BY DEF Without
<1> HIDE DEF gone
<1>4. /\ Fields \subseteq DOMAIN r
      /\ r.imports = [p \in Paths |-> IF \E i \in gone : m.store[i].chunk.path = p THEN None
                                      ELSE m.imports[p]]
      /\ r.importedBy = [p \in Paths |->
                           m.importedBy[p] \ {q \in Paths : \E i \in gone :
                               m.store[i].chunk.path = q /\ p \in m.store[i].chunk.imports}]
      /\ r.symbols = [s \in Symbols |->
                        IF \E i \in gone : s = m.store[i].chunk.symbol /\ m.symbols[s] = m.store[i].chunk.id
                        THEN None ELSE m.symbols[s]]
      /\ r.removed = m.removed \cup {m.store[i].chunk.path : i \in gone}
      /\ r.store = m.store /\ r.rewritten = m.rewritten /\ r.moved = m.moved
      /\ r.crowded = m.crowded /\ r.deleted = m.deleted /\ r.dropped = m.dropped
      /\ r.stale = m.stale
  BY <1>2, RemoveFields
<1> HIDE DEF r
<1>5. /\ Fields \subseteq DOMAIN u
      /\ u.store = Without(r.store, gone)
      /\ u.deleted = r.deleted \cup gone
      /\ u.dropped = r.dropped \cup {id[1] : id \in gone}
      /\ u.imports = r.imports /\ u.importedBy = r.importedBy /\ u.symbols = r.symbols
      /\ u.removed = r.removed /\ u.rewritten = r.rewritten /\ u.moved = r.moved
      /\ u.crowded = r.crowded /\ u.stale = r.stale
  BY <1>4 DEF Fields
<1> HIDE DEF u
<1>6. Leave(m, gone, u)
  BY <1>3, <1>4, <1>5 DEF Leave
<1> QED
  BY <1>1, <1>2, <1>4, <1>5, <1>6 DEF gone, Kept

LEMMA LeaveInv ==
    ASSUME NEW m, MemoryInv(m), NEW gone \in SUBSET (DOMAIN m.store), NEW u, Leave(m, gone, u)
    PROVE  MemoryInv(u)
<1> DEFINE f == m.store
           g == u.store
<1>1. g = [i \in DOMAIN f \ gone |-> f[i]]
  BY DEF Leave
<1>2. StoreInv(f) /\ GraphType(m) /\ EdgesInv(m) /\ SymbolsInv(m) /\ Fields \subseteq DOMAIN u
  BY DEF MemoryInv, Leave
<1> HIDE DEF f, g
<1>3. DOMAIN g = DOMAIN f \ gone /\ \A i \in DOMAIN g : g[i] = f[i] /\ i \in DOMAIN f
  BY <1>1
<1>4. StoreInv(g)
  <2>1. IsFiniteSet(DOMAIN g)
    <3>1. IsFiniteSet(DOMAIN f)
      BY <1>2 DEF StoreInv
    <3> QED
      BY <1>3, <3>1, FS_Difference
  <2>2. g = [i \in DOMAIN g |-> g[i]]
    BY <1>1, <1>3
  <2> QED
    BY <1>2, <1>3, <2>1, <2>2 DEF StoreInv
<1>5. GraphType(u)
  <2>1. u.imports \in [Paths -> (SUBSET Paths) \cup {None}]
    <3>1. m.imports \in [Paths -> (SUBSET Paths) \cup {None}]
      BY <1>2 DEF GraphType
    <3>2. ASSUME NEW p \in Paths
          PROVE  (IF \E i \in gone : m.store[i].chunk.path = p THEN None ELSE m.imports[p])
                     \in (SUBSET Paths) \cup {None}
      BY <3>1
    <3> QED
      BY <3>2 DEF Leave
  <2>2. u.importedBy \in [Paths -> SUBSET Paths]
    BY <1>2 DEF Leave, GraphType
  <2>3. u.symbols \in [Symbols -> Ids \cup {None}]
    BY <1>2 DEF Leave, GraphType
  <2> QED
    BY <2>1, <2>2, <2>3 DEF GraphType
<1>6. \A p \in Paths : Imported(g, p) \subseteq Imported(f, p)
  BY <1>3 DEF Imported
\* A path that loses no chunk is as before.
<1>7. ASSUME NEW p \in Paths, p \notin u.removed
      PROVE  /\ p \notin m.removed /\ Imported(g, p) = Imported(f, p)
             /\ \A i \in gone : f[i].chunk.path # p
             /\ u.imports[p] = m.imports[p]
  <2>1. p \notin m.removed /\ \A i \in gone : f[i].chunk.path # p
    BY <1>7 DEF Leave, f
  <2>2. Imported(f, p) \subseteq Imported(g, p)
    BY <1>3, <2>1 DEF Imported
  <2>3. u.imports[p] = m.imports[p]
    BY <2>1 DEF Leave, f
  <2> QED
    BY <1>6, <2>1, <2>2, <2>3
<1>8. EdgesInv(u)
  <2>1. ASSUME NEW p \in Paths
        PROVE  Listed(u.imports[p]) \subseteq Imported(g, p) \/ p \in u.moved
    <3>1. CASE \E i \in gone : f[i].chunk.path = p
      <4>1. u.imports[p] = None
        BY <3>1 DEF Leave, f
      <4> QED
        BY <4>1 DEF Listed
    <3>2. CASE \A i \in gone : f[i].chunk.path # p
      <4>1. u.imports[p] = m.imports[p]
        BY <3>2 DEF Leave, f
      <4>2. Imported(f, p) \subseteq Imported(g, p)
        BY <1>3, <3>2 DEF Imported
      <4>3. u.moved = m.moved
        BY DEF Leave
      <4> QED
        BY <1>2, <4>1, <4>2, <4>3 DEF EdgesInv, f
    <3> QED
      BY <3>1, <3>2
  <2>2. ASSUME NEW p \in Paths
        PROVE  Listed(u.imports[p]) = Imported(g, p) \/ p \in u.removed \cup u.crowded \cup u.moved
    <3>1. u.moved = m.moved /\ u.crowded = m.crowded
      BY DEF Leave
    <3> QED
      BY <1>2, <1>7, <3>1 DEF EdgesInv, f
  <2>3. ASSUME NEW p \in Paths, NEW q \in Paths, p \in Imported(g, q), q \notin u.importedBy[p]
        PROVE  q \in u.removed
    <3>1. SUFFICES ASSUME q \notin u.removed PROVE FALSE
      OBVIOUS
    <3>2. p \in Imported(f, q) /\ q \notin m.removed /\ \A i \in gone : f[i].chunk.path # q
      BY <1>7, <2>3, <3>1
    <3>3. q \in m.importedBy[p]
      BY <1>2, <3>2 DEF EdgesInv, f
    <3>4. q \in u.importedBy[p]
      BY <3>2, <3>3 DEF Leave, f
    <3> QED
      BY <2>3, <3>4
  <2>4. ASSUME NEW p \in Paths, NEW q \in Paths, q \in u.importedBy[p], p \notin Imported(g, q)
        PROVE  q \in u.rewritten
    <3>1. /\ q \in m.importedBy[p]
          /\ \A i \in gone : ~(f[i].chunk.path = q /\ p \in f[i].chunk.imports)
      BY <2>4 DEF Leave, f
    <3>2. p \notin Imported(f, q)
      BY <1>3, <2>4, <3>1 DEF Imported
    <3>3. q \in m.rewritten
      BY <1>2, <3>1, <3>2 DEF EdgesInv, f
    <3> QED
      BY <3>3 DEF Leave
  <2> QED
    BY <2>1, <2>2, <2>3, <2>4 DEF EdgesInv, g
<1>9. SymbolsInv(u)
  <2> SUFFICES ASSUME NEW s \in Symbols, u.symbols[s] # None, s \notin u.rewritten
               PROVE  u.symbols[s] \in DOMAIN u.store /\ u.store[u.symbols[s]].chunk.symbol = s
    BY DEF SymbolsInv
  <2>1. /\ u.symbols[s] = m.symbols[s]
        /\ \A i \in gone : ~(s = f[i].chunk.symbol /\ m.symbols[s] = f[i].chunk.id)
        /\ u.rewritten = m.rewritten
    BY DEF Leave, f
  <2>2. m.symbols[s] \in DOMAIN f /\ f[m.symbols[s]].chunk.symbol = s
    BY <1>2, <2>1 DEF SymbolsInv, f
  <2>3. f[m.symbols[s]].chunk.id = m.symbols[s]
    BY <1>2, <2>2 DEF StoreInv
  <2>4. m.symbols[s] \notin gone
    BY <2>1, <2>2, <2>3
  <2> QED
    BY <1>3, <2>1, <2>2, <2>4 DEF g
<1> QED
  BY <1>2, <1>4, <1>5, <1>8, <1>9 DEF MemoryInv, g

LEMMA UpsertInv ==
    ASSUME NEW m, MemoryInv(m), NEW c \in Chunks, NEW k
    PROVE  MemoryInv(Upsert(m, c, k))
<1> DEFINE f == m.store
           u == Upsert(m, c, k)
           e == [chunk |-> c, embed |-> KeptVector(m, c), by |-> k]
           g == With(f, c.id, e)
           old == Replaced(m, c)
<1>1. StoreInv(f) /\ GraphType(m) /\ EdgesInv(m) /\ SymbolsInv(m) /\ Fields \subseteq DOMAIN m
  BY DEF MemoryInv
<1>2. /\ Fields \subseteq DOMAIN u
      /\ u.store = g
      /\ u.imports = [m.imports EXCEPT ![c.path] = c.imports]
      /\ u.importedBy = [p \in Paths |-> IF p \in c.imports THEN m.importedBy[p] \cup {c.path}
                                         ELSE m.importedBy[p]]
      /\ u.symbols = [s \in Symbols |-> IF s = c.symbol THEN c.id ELSE m.symbols[s]]
      /\ u.crowded = IF \E i \in DOMAIN g : i # c.id /\ g[i].chunk.path = c.path
                     THEN m.crowded \cup {c.path} ELSE m.crowded
      /\ u.rewritten = m.rewritten \cup UNION {{o.chunk.path, o.chunk.symbol} : o \in old}
      /\ u.moved = m.moved \cup {o.chunk.path : o \in {x \in old : x.chunk.path # c.path}}
      /\ u.removed = m.removed
  <2>1. Upserted(m, c, k, u)
    BY <1>1, UpsertFields
  <2> QED
    BY <2>1 DEF Upserted
<1>3. c.id \in Ids /\ c.path \in Paths /\ c.imports \in SUBSET Paths
  BY DEF Chunks
<1>4. e.chunk = c /\ e.embed = KeptVector(m, c) /\ DOMAIN e = {"chunk", "embed", "by"}
  OBVIOUS
<1>5. old = IF c.id \in DOMAIN f THEN {f[c.id]} ELSE {}
  BY DEF Replaced
<1>6. KeptVector(m, c) \in {None, c.text}
  <2> DEFINE same == {o \in old : o.chunk.text = c.text /\ o.chunk.big = c.big}
  <2>1. KeptVector(m, c) = IF same = {} THEN None ELSE (CHOOSE o \in same : TRUE).embed
    BY DEF KeptVector, Replaced
  <2>2. \A o \in same : o.embed \in {None, c.text}
    BY <1>1, <1>5 DEF StoreInv
  <2> HIDE DEF same
  <2> QED
    BY <2>1, <2>2
<1>7. g = [i \in DOMAIN f \cup {c.id} |-> IF i = c.id THEN e ELSE f[i]]
  BY DEF With
<1> HIDE DEF e, g, f, u, old
<1>8. /\ DOMAIN g = DOMAIN f \cup {c.id}
      /\ g[c.id] = e
      /\ \A i \in DOMAIN f : i # c.id => g[i] = f[i]
  BY <1>7
<1>9. StoreInv(g)
  <2>1. IsFiniteSet(DOMAIN g)
    BY <1>1, <1>8, FS_AddElement DEF StoreInv
  <2>2. g = [i \in DOMAIN g |-> g[i]]
    BY <1>7, <1>8
  <2>3. DOMAIN g \subseteq Ids
    BY <1>1, <1>3, <1>8 DEF StoreInv
  <2>4. ASSUME NEW i \in DOMAIN g
        PROVE  /\ DOMAIN g[i] = {"chunk", "embed", "by"} /\ g[i].chunk \in Chunks
               /\ g[i].chunk.id = i /\ g[i].embed \in {None, g[i].chunk.text}
    <3>1. CASE i = c.id
      BY <1>4, <1>6, <1>8, <3>1
    <3>2. CASE i # c.id
      BY <1>1, <1>8, <3>2 DEF StoreInv
    <3> QED
      BY <3>1, <3>2
  <2> QED
    BY <2>1, <2>2, <2>3, <2>4 DEF StoreInv
<1>10. GraphType(u)
  <2>1. u.imports \in [Paths -> (SUBSET Paths) \cup {None}]
    BY <1>1, <1>2, <1>3 DEF GraphType
  <2>2. u.importedBy \in [Paths -> SUBSET Paths]
    BY <1>1, <1>2, <1>3 DEF GraphType
  <2>3. u.symbols \in [Symbols -> Ids \cup {None}]
    BY <1>1, <1>2, <1>3 DEF GraphType
  <2> QED
    BY <2>1, <2>2, <2>3 DEF GraphType
<1>11. ASSUME NEW p \in Paths
       PROVE  /\ p # c.path => Imported(g, p) \subseteq Imported(f, p)
              /\ Imported(g, p) \subseteq Imported(f, p) \cup c.imports
              /\ p = c.path => c.imports \subseteq Imported(g, p)
  BY <1>3, <1>4, <1>8 DEF Imported
\* A path loses an import only if its chunk is replaced.
<1>12. ASSUME NEW p \in Paths, NEW x \in Imported(f, p), x \notin Imported(g, p)
       PROVE  c.id \in DOMAIN f /\ f[c.id].chunk.path = p
  <2>1. PICK i \in DOMAIN f : f[i].chunk.path = p /\ x \in f[i].chunk.imports
    BY <1>12 DEF Imported
  <2>2. x \in Paths
    BY <1>12 DEF Imported
  <2>3. i = c.id
    <3>1. SUFFICES ASSUME i # c.id PROVE FALSE
      OBVIOUS
    <3>2. i \in DOMAIN g /\ g[i] = f[i]
      BY <1>8, <3>1
    <3>3. x \in Imported(g, p)
      BY <2>1, <2>2, <3>2 DEF Imported
    <3> QED
      BY <1>12, <3>3
  <2> QED
    BY <2>1, <2>3
<1>13. EdgesInv(u)
  <2>1. ASSUME NEW p \in Paths
        PROVE  Listed(u.imports[p]) \subseteq Imported(g, p) \/ p \in u.moved
    <3>1. CASE p = c.path
      <4>1. u.imports[p] = c.imports /\ c.imports # None
        BY <1>1, <1>2, <1>3, <3>1, RepoIndexAssumption DEF GraphType
      <4> QED
        BY <1>11, <3>1, <4>1 DEF Listed
    <3>2. CASE p # c.path
      <4>1. u.imports[p] = m.imports[p]
        BY <1>1, <1>2, <3>2 DEF GraphType
      <4>2. Listed(m.imports[p]) \subseteq Imported(f, p) \/ p \in m.moved
        BY <1>1 DEF EdgesInv, f
      <4>3. Imported(f, p) \subseteq Imported(g, p) \/ p \in u.moved
        <5>1. SUFFICES ASSUME NEW x \in Imported(f, p), x \notin Imported(g, p) PROVE p \in u.moved
          OBVIOUS
        <5>2. c.id \in DOMAIN f /\ f[c.id].chunk.path = p
          BY <1>12, <5>1
        <5> QED
          BY <1>2, <1>5, <3>2, <5>2
      <4> QED
        BY <1>2, <4>1, <4>2, <4>3
    <3> QED
      BY <3>1, <3>2
  <2>2. ASSUME NEW p \in Paths
        PROVE  Listed(u.imports[p]) = Imported(g, p) \/ p \in u.removed \cup u.crowded \cup u.moved
    <3>1. CASE p = c.path
      <4>1. u.imports[p] = c.imports /\ c.imports # None
        BY <1>1, <1>2, <1>3, <3>1, RepoIndexAssumption DEF GraphType
      <4>2. CASE \E i \in DOMAIN g : i # c.id /\ g[i].chunk.path = c.path
        BY <1>2, <3>1, <4>2
      <4>3. CASE \A i \in DOMAIN g : g[i].chunk.path = c.path => i = c.id
        <5>1. Imported(g, p) = c.imports
          BY <1>3, <1>4, <1>8, <3>1, <4>3 DEF Imported
        <5> QED
          BY <4>1, <5>1 DEF Listed
      <4> QED
        BY <4>2, <4>3
    <3>2. CASE p # c.path
      <4>1. u.imports[p] = m.imports[p]
        BY <1>1, <1>2, <3>2 DEF GraphType
      <4>2. Listed(m.imports[p]) = Imported(f, p) \/ p \in m.removed \cup m.crowded \cup m.moved
        BY <1>1 DEF EdgesInv, f
      <4>3. Imported(f, p) = Imported(g, p) \/ p \in u.moved
        <5>1. SUFFICES ASSUME NEW x \in Imported(f, p), x \notin Imported(g, p) PROVE p \in u.moved
          BY <1>11, <3>2
        <5>2. c.id \in DOMAIN f /\ f[c.id].chunk.path = p
          BY <1>12, <5>1
        <5> QED
          BY <1>2, <1>5, <3>2, <5>2
      <4>4. m.removed \cup m.crowded \cup m.moved \subseteq u.removed \cup u.crowded \cup u.moved
        BY <1>2
      <4> QED
        BY <4>1, <4>2, <4>3, <4>4
    <3> QED
      BY <3>1, <3>2
  <2>3. ASSUME NEW p \in Paths, NEW q \in Paths, p \in Imported(g, q), q \notin u.importedBy[p]
        PROVE  q \in u.removed
    <3>1. q \notin m.importedBy[p] /\ ~(p \in c.imports /\ q = c.path)
      BY <1>2, <2>3
    <3>2. p \in Imported(f, q)
      BY <1>11, <2>3, <3>1
    <3> QED
      BY <1>1, <1>2, <3>1, <3>2 DEF EdgesInv, f
  <2>4. ASSUME NEW p \in Paths, NEW q \in Paths, q \in u.importedBy[p], p \notin Imported(g, q)
        PROVE  q \in u.rewritten
    <3>1. q \in m.importedBy[p]
      <4>1. ~(q = c.path /\ p \in c.imports)
        BY <1>11, <2>4
      <4> QED
        BY <1>2, <2>4, <4>1
    <3>2. CASE p \in Imported(f, q)
      <4>1. c.id \in DOMAIN f /\ f[c.id].chunk.path = q
        BY <1>12, <2>4, <3>2
      <4> QED
        BY <1>2, <1>5, <4>1
    <3>3. CASE p \notin Imported(f, q)
      BY <1>1, <1>2, <3>1, <3>3 DEF EdgesInv, f
    <3> QED
      BY <3>2, <3>3
  <2> QED
    BY <1>2, <2>1, <2>2, <2>3, <2>4 DEF EdgesInv
<1>14. SymbolsInv(u)
  <2> SUFFICES ASSUME NEW s \in Symbols, u.symbols[s] # None, s \notin u.rewritten
               PROVE  u.symbols[s] \in DOMAIN g /\ g[u.symbols[s]].chunk.symbol = s
    BY <1>2 DEF SymbolsInv
  <2>1. CASE s = c.symbol
    BY <1>2, <1>4, <1>8, <2>1
  <2>2. CASE s # c.symbol
    <3>1. u.symbols[s] = m.symbols[s] /\ s \notin m.rewritten
      BY <1>2, <2>2
    <3>2. m.symbols[s] \in DOMAIN f /\ f[m.symbols[s]].chunk.symbol = s
      BY <1>1, <3>1 DEF SymbolsInv, f
    <3>3. m.symbols[s] # c.id
      BY <1>2, <1>5, <3>2
    <3> QED
      BY <1>8, <3>1, <3>2, <3>3
  <2> QED
    BY <2>1, <2>2
<1> QED
  BY <1>2, <1>9, <1>10, <1>13, <1>14 DEF MemoryInv, u

-----------------------------------------------------------------------------
(* UpsertAll.                                                              *)

IdsOf(up, n) == {up[j].id : j \in 1..n}

\* What the first n chunks of up have made of the memory m.
UpsertsTo(m, up, n, u) ==
    /\ MemoryInv(u)
    /\ u.deleted = m.deleted /\ u.dropped = m.dropped
    /\ m.stale \subseteq u.stale
    /\ DOMAIN u.store = DOMAIN m.store \cup IdsOf(up, n)
    /\ \A i \in DOMAIN m.store : i \notin IdsOf(up, n) => u.store[i] = m.store[i]
    /\ \A j \in 1..n : (\A l \in (j + 1)..n : up[l].id # up[j].id) => u.store[up[j].id].chunk = up[j]
    /\ \A j \in 1..n : up[j].id[2] = 0 /\ up[j].id \in DOMAIN m.store \cup IdsOf(up, j - 1)
                         => up[j].id[1] \in u.stale

LEMMA UpsertStep ==
    ASSUME NEW m, NEW up \in Seq(Chunks), NEW n \in 1..Len(up), NEW v, NEW k,
           UpsertsTo(m, up, n - 1, v)
    PROVE  UpsertsTo(m, up, n, Upsert(v, up[n], k))
<1> DEFINE c == up[n]
           u == Upsert(v, c, k)
           e == [chunk |-> c, embed |-> KeptVector(v, c), by |-> k]
<1>1. c \in Chunks /\ n \in Nat /\ n - 1 \in Nat
  OBVIOUS
<1>2. MemoryInv(v) /\ Fields \subseteq DOMAIN v
  BY DEF UpsertsTo, MemoryInv
<1>3. MemoryInv(u)
  BY <1>1, <1>2, UpsertInv
<1>4. /\ u.store = With(v.store, c.id, e)
      /\ u.stale = IF c.id[2] = 0 /\ Replaced(v, c) # {} THEN v.stale \cup {c.id[1]} ELSE v.stale
      /\ u.deleted = v.deleted /\ u.dropped = v.dropped
  <2>1. Upserted(v, c, k, u)
    BY <1>1, <1>2, UpsertFields
  <2> QED
    BY <2>1 DEF Upserted
<1>5. e.chunk = c
  OBVIOUS
<1> HIDE DEF u, e
<1>6. /\ DOMAIN u.store = DOMAIN v.store \cup {c.id}
      /\ u.store[c.id].chunk = c
      /\ \A i \in DOMAIN v.store : i # c.id => u.store[i] = v.store[i]
  BY <1>4, <1>5 DEF With
<1>7. IdsOf(up, n) = IdsOf(up, n - 1) \cup {c.id}
  BY <1>1 DEF IdsOf
<1>8. DOMAIN u.store = DOMAIN m.store \cup IdsOf(up, n)
  BY <1>6, <1>7 DEF UpsertsTo
<1>9. ASSUME NEW i \in DOMAIN m.store, i \notin IdsOf(up, n)
      PROVE  u.store[i] = m.store[i]
  BY <1>6, <1>7, <1>9 DEF UpsertsTo
<1>10. ASSUME NEW j \in 1..n, \A l \in (j + 1)..n : up[l].id # up[j].id
       PROVE  u.store[up[j].id].chunk = up[j]
  <2>1. CASE j = n
    BY <1>6, <2>1
  <2>2. CASE j # n
    <3>1. j \in 1..(n - 1) /\ n \in (j + 1)..n
      BY <1>1, <2>2
    <3>2. \A l \in (j + 1)..(n - 1) : up[l].id # up[j].id
      BY <1>1, <1>10
    <3>3. v.store[up[j].id].chunk = up[j]
      BY <3>1, <3>2 DEF UpsertsTo
    <3>4. up[j].id # c.id
      BY <1>10, <3>1
    <3>5. up[j].id \in DOMAIN v.store
      BY <3>1 DEF UpsertsTo, IdsOf
    <3> QED
      BY <1>6, <3>3, <3>4, <3>5
  <2> QED
    BY <2>1, <2>2
<1>11. v.stale \subseteq u.stale
  BY <1>4
<1>12. ASSUME NEW j \in 1..n, up[j].id[2] = 0, up[j].id \in DOMAIN m.store \cup IdsOf(up, j - 1)
       PROVE  up[j].id[1] \in u.stale
  <2>1. CASE j = n
    <3>1. c.id \in DOMAIN v.store
      BY <1>12, <2>1 DEF UpsertsTo
    <3>2. Replaced(v, c) # {}
      BY <3>1 DEF Replaced
    <3> QED
      BY <1>4, <1>12, <2>1, <3>2
  <2>2. CASE j # n
    <3>1. j \in 1..(n - 1)
      BY <1>1, <2>2
    <3> QED
      BY <1>11, <1>12, <3>1 DEF UpsertsTo
  <2> QED
    BY <2>1, <2>2
<1>13. u.deleted = m.deleted /\ u.dropped = m.dropped /\ m.stale \subseteq u.stale
  BY <1>4, <1>11 DEF UpsertsTo
<1>14. UpsertsTo(m, up, n, u)
  BY <1>3, <1>8, <1>9, <1>10, <1>12, <1>13 DEF UpsertsTo
<1> QED
  BY <1>14 DEF u

LEMMA UpsertAllResult ==
    ASSUME NEW m, MemoryInv(m), NEW up \in Seq(Chunks), NEW k
    PROVE  UpsertsTo(m, up, Len(up), UpsertAll(m, up, k))
<1> DEFINE L == Len(up)
<1>1. PICK f : /\ f[0] = m
               /\ \A n \in 1..Len(up) : f[n] = Upsert(f[n - 1], up[n], k)
               /\ UpsertAll(m, up, k) = f[Len(up)]
  BY UpsertsOneByOne
<1> DEFINE T == {n \in 0..L : UpsertsTo(m, up, n, f[n])}
<1>2. L \in Nat
  OBVIOUS
<1>3. 0 \in T
  <2>1. IdsOf(up, 0) = {}
    BY DEF IdsOf
  <2>2. f[0] = m
    BY <1>1
  <2>3. UpsertsTo(m, up, 0, f[0])
    BY <2>1, <2>2 DEF UpsertsTo
  <2> QED
    BY <1>2, <2>3
<1>4. ASSUME NEW n \in 1..L, n - 1 \in T PROVE n \in T
  <2>1. n \in 0..L
    BY <1>2
  <2>2. UpsertsTo(m, up, n - 1, f[n - 1])
    BY <1>4
  <2>3. UpsertsTo(m, up, n, Upsert(f[n - 1], up[n], k))
    BY <2>2, UpsertStep
  <2>4. f[n] = Upsert(f[n - 1], up[n], k)
    BY <1>1
  <2> QED
    BY <2>1, <2>3, <2>4
<1> HIDE DEF T
<1>5. L \in T
  BY <1>2, <1>3, <1>4, UpTo
<1> QED
  BY <1>1, <1>5 DEF T

\* The last of the chunks with an id.
LEMMA LastOf ==
    ASSUME NEW up \in Seq(Chunks), NEW i \in IdsOf(up, Len(up))
    PROVE  \E j \in 1..Len(up) : up[j].id = i /\ \A l \in (j + 1)..Len(up) : up[l].id # i
<1> DEFINE L == Len(up)
           T == {n \in 0..L : L - n \in 1..L /\ up[L - n].id = i}
<1>1. L \in Nat
  OBVIOUS
<1>2. PICK j \in 1..L : up[j].id = i
  BY DEF IdsOf
<1>3. L - j \in 0..L /\ L - (L - j) = j
  BY <1>1
<1>4. T \in SUBSET Nat /\ T # {}
  <2>1. L - (L - j) \in 1..L /\ up[L - (L - j)].id = i
    BY <1>2, <1>3
  <2>2. L - j \in T
    BY <1>3, <2>1
  <2>3. T \subseteq 0..L
    OBVIOUS
  <2> HIDE DEF T, L
  <2> QED
    BY <1>1, <2>2, <2>3
<1>5. PICK n \in T : \A x \in T : n <= x
  BY <1>4, LeastNat
<1>6. ASSUME NEW l \in (L - n + 1)..L PROVE up[l].id # i
  <2>1. n \in 0..L /\ L - l \in 0..L /\ L - (L - l) = l /\ l \in 1..L /\ ~(n <= L - l)
    BY <1>1, <1>5
  <2> QED
    BY <1>5, <2>1
<1> QED
  BY <1>5, <1>6

-----------------------------------------------------------------------------
(* Segments.                                                               *)

\* What SegmentsDrift says of a store f and the names that may differ.
SegmentsInv(f, loose) ==
    \A n \in Names, i \in 1..(Segments - 1) :
        /\ <<n, 0>> \in DOMAIN f /\ f[<<n, 0>>].chunk.big /\ <<n, i>> \notin DOMAIN f => n \in loose
        /\ <<n, i>> \in DOMAIN f /\ (<<n, 0>> \notin DOMAIN f
                                     \/ f[<<n, 0>>].chunk.text # f[<<n, i>>].chunk.text) => n \in loose

LEMMA LeaveSegments ==
    ASSUME NEW m, NEW gone, NEW u, Leave(m, gone, u), NEW X, NEW Y, X \subseteq Y,
           {id[1] : id \in gone} \subseteq Y, SegmentsInv(m.store, X)
    PROVE  SegmentsInv(u.store, Y)
<1> DEFINE f == m.store
           g == u.store
<1>1. g = [i \in DOMAIN f \ gone |-> f[i]]
  BY DEF Leave
<1> HIDE DEF f, g
<1>2. ASSUME NEW n \in Names, n \notin Y, NEW i \in 0..(Segments - 1)
      PROVE  /\ <<n, i>> \in DOMAIN g <=> <<n, i>> \in DOMAIN f
             /\ <<n, i>> \in DOMAIN g => g[<<n, i>>] = f[<<n, i>>]
  <2>1. <<n, i>> \notin gone
    <3>1. SUFFICES ASSUME <<n, i>> \in gone PROVE FALSE
      OBVIOUS
    <3>2. <<n, i>>[1] \in {id[1] : id \in gone}
      BY <3>1
    <3>3. <<n, i>>[1] = n
      OBVIOUS
    <3> QED
      BY <1>2, <3>2, <3>3
  <2> QED
    BY <1>1, <2>1
<1>3. ASSUME NEW n \in Names, NEW i \in 1..(Segments - 1), n \notin Y
      PROVE  /\ <<n, 0>> \in DOMAIN g /\ g[<<n, 0>>].chunk.big => <<n, i>> \in DOMAIN g
             /\ <<n, i>> \in DOMAIN g =>
                  <<n, 0>> \in DOMAIN g /\ g[<<n, 0>>].chunk.text = g[<<n, i>>].chunk.text
  <2>1. 0 \in 0..(Segments - 1) /\ i \in 0..(Segments - 1)
    BY RepoIndexAssumption
  <2>2. /\ <<n, 0>> \in DOMAIN f /\ f[<<n, 0>>].chunk.big => <<n, i>> \in DOMAIN f
        /\ <<n, i>> \in DOMAIN f =>
             <<n, 0>> \in DOMAIN f /\ f[<<n, 0>>].chunk.text = f[<<n, i>>].chunk.text
    BY <1>3 DEF SegmentsInv, f
  <2>3. /\ <<n, 0>> \in DOMAIN g <=> <<n, 0>> \in DOMAIN f
        /\ <<n, 0>> \in DOMAIN g => g[<<n, 0>>] = f[<<n, 0>>]
    BY <1>2, <1>3, <2>1
  <2>4. /\ <<n, i>> \in DOMAIN g <=> <<n, i>> \in DOMAIN f
        /\ <<n, i>> \in DOMAIN g => g[<<n, i>>] = f[<<n, i>>]
    BY <1>2, <1>3, <2>1
  <2> QED
    BY <2>2, <2>3, <2>4
<1>4. SegmentsInv(g, Y)
  BY <1>3 DEF SegmentsInv
<1> QED
  BY <1>4 DEF g

LEMMA UpsertSegments ==
    ASSUME NEW a, NEW up \in Seq(Chunks), Grouped(up), NEW b, UpsertsTo(a, up, Len(up), b),
           NEW X, NEW Y, X \subseteq Y, b.stale \subseteq Y, SegmentsInv(a.store, X)
    PROVE  SegmentsInv(b.store, Y)
<1> DEFINE f == a.store
           g == b.store
           L == Len(up)
           sent == IdsOf(up, L)
<1>1. L \in Nat
  OBVIOUS
<1>2. /\ DOMAIN g = DOMAIN f \cup sent
      /\ \A i \in DOMAIN f : i \notin sent => g[i] = f[i]
      /\ \A j \in 1..L : (\A l \in (j + 1)..L : up[l].id # up[j].id) => g[up[j].id].chunk = up[j]
      /\ \A j \in 1..L : up[j].id[2] = 0 /\ up[j].id \in DOMAIN f \cup IdsOf(up, j - 1)
                           => up[j].id[1] \in b.stale
  BY DEF UpsertsTo
<1>3. \A j \in 1..L : up[j].id \in sent
  BY DEF IdsOf
<1> HIDE DEF f, g, L, sent
\* The chunk with an id that was sent is the last one sent.
<1>4. ASSUME NEW i \in sent
      PROVE  \E j \in 1..L : /\ up[j].id = i /\ g[i].chunk = up[j]
                             /\ \A l \in (j + 1)..L : up[l].id # i
  <2>1. PICK j \in 1..L : up[j].id = i /\ \A l \in (j + 1)..L : up[l].id # i
    BY LastOf DEF sent, L
  <2> QED
    BY <1>2, <2>1
<1>5. SUFFICES ASSUME NEW n \in Names, NEW i \in 1..(Segments - 1), n \notin Y
               PROVE  /\ <<n, 0>> \in DOMAIN g /\ g[<<n, 0>>].chunk.big => <<n, i>> \in DOMAIN g
                      /\ <<n, i>> \in DOMAIN g =>
                           <<n, 0>> \in DOMAIN g /\ g[<<n, 0>>].chunk.text = g[<<n, i>>].chunk.text
  BY DEF SegmentsInv, g
<1> DEFINE z == <<n, 0>>
           y == <<n, i>>
<1>6. n \notin b.stale /\ n \notin X /\ i \in Nat
  BY <1>5, RepoIndexAssumption
<1>7. /\ z \in DOMAIN f /\ f[z].chunk.big => y \in DOMAIN f
      /\ y \in DOMAIN f => z \in DOMAIN f /\ f[z].chunk.text = f[y].chunk.text
  BY <1>6 DEF SegmentsInv, f
<1>8. z[1] = n /\ z[2] = 0 /\ y[1] = n /\ y[2] = i
  OBVIOUS
<1> HIDE DEF z, y
\* The name is not stale: its first segment was not there and is sent once.
<1>9. ASSUME z \in sent
      PROVE  z \notin DOMAIN f /\ \A j \in 1..L : up[j].id = z => z \notin IdsOf(up, j - 1)
  <2>1. PICK j \in 1..L : up[j].id = z
    BY <1>4, <1>9
  <2>2. z \notin DOMAIN f
    BY <1>2, <1>6, <1>8, <2>1
  <2>3. ASSUME NEW l \in 1..L, up[l].id = z PROVE z \notin IdsOf(up, l - 1)
    BY <1>2, <1>6, <1>8, <2>3
  <2> QED
    BY <2>2, <2>3
<1>10. ASSUME z \in DOMAIN g, g[z].chunk.big PROVE y \in DOMAIN g
  <2>1. CASE z \in sent
    <3>1. PICK j \in 1..L : up[j].id = z /\ g[z].chunk = up[j]
      BY <1>4, <2>1
    <3>2. up[j].id[2] = 0 /\ up[j].big /\ up[j].id[1] = n
      BY <1>8, <1>10, <3>1
    <3>3. j + i \in 1..L /\ up[j + i].id = <<n, i>>
      BY <1>5, <3>1, <3>2 DEF Grouped, L
    <3> QED
      BY <1>2, <1>3, <3>3 DEF y
  <2>2. CASE z \notin sent
    BY <1>2, <1>7, <1>10, <2>2
  <2> QED
    BY <2>1, <2>2
<1>11. ASSUME y \in DOMAIN g PROVE z \in DOMAIN g /\ g[z].chunk.text = g[y].chunk.text
  <2>1. CASE y \in sent
    <3>1. PICK j \in 1..L : up[j].id = y /\ g[y].chunk = up[j]
      BY <1>4, <2>1
    <3>2. i < j /\ up[j - i].id = z /\ up[j - i].text = up[j].text
      BY <1>8, <3>1 DEF Grouped, L, z
    <3>3. j - i \in 1..L
      BY <1>1, <1>6, <3>2
    <3>4. z \in sent
      BY <1>3, <3>2, <3>3
    <3>5. PICK l \in 1..L : up[l].id = z /\ g[z].chunk = up[l] /\ \A x \in (l + 1)..L : up[x].id # z
      BY <1>4, <3>4
    <3>6. l = j - i
      <4>1. ~(j - i > l)
        BY <1>1, <3>2, <3>3, <3>5
      <4>2. ~(j - i < l)
        <5>1. SUFFICES ASSUME j - i < l PROVE FALSE
          OBVIOUS
        <5>2. j - i \in 1..(l - 1)
          BY <1>1, <3>3, <5>1
        <5>3. z \in IdsOf(up, l - 1)
          BY <3>2, <5>2 DEF IdsOf
        <5> QED
          BY <1>9, <3>4, <3>5, <5>3
      <4> QED
        BY <1>1, <3>3, <4>1, <4>2
    <3> QED
      BY <1>2, <3>1, <3>2, <3>4, <3>5, <3>6
  <2>2. CASE y \notin sent
    <3>1. y \in DOMAIN f /\ g[y] = f[y]
      BY <1>2, <1>11, <2>2
    <3>2. z \in DOMAIN f /\ f[z].chunk.text = f[y].chunk.text
      BY <1>7, <3>1
    <3>3. z \notin sent
      BY <1>9, <3>2
    <3> QED
      BY <1>2, <3>1, <3>2, <3>3
  <2> QED
    BY <2>1, <2>2
<1> QED
  BY <1>10, <1>11 DEF y, z

-----------------------------------------------------------------------------
(* The inductive invariant.                                                *)

CallInv ==
    /\ call \in [Syncs -> [pc : {"idle", "delete", "upsert", "ok", "error"},
                           delete : SUBSET Ids, upsert : Seq(Chunks)]]
    /\ \A c \in Syncs :
         /\ call[c].pc \in {"idle", "ok", "error"} => Pending(call[c]) = {}
         /\ call[c].pc = "upsert" => call[c].delete = {}

\* The remote points of an id nobody has still to change, for the store f and the
\* orphans lost.
Settled(i, f, points, lost) ==
    /\ i \in DOMAIN f => i \in DOMAIN points /\ points[i] = f[i].chunk.text
    /\ i \in DOMAIN points => i \in DOMAIN f \cup lost

\* What a call has still to do to the remote points of i agrees with the store.
Agrees(up, i, f, lost) ==
    IF i \in IdsOf(up, Len(up))
    THEN IF i \in DOMAIN f
         THEN \A j \in 1..Len(up) :
                up[j].id = i /\ (\A l \in (j + 1)..Len(up) : up[l].id # i)
                  => up[j].text = f[i].chunk.text
         ELSE i \in lost
    ELSE i \notin DOMAIN f

RemoteAt(i, calls, f, points, lost) ==
    /\ (\A c \in Syncs : i \notin Pending(calls[c])) => Settled(i, f, points, lost)
    /\ \A c \in Syncs : i \in Pending(calls[c]) =>
         /\ \A d \in Syncs : i \in Pending(calls[d]) => d = c
         /\ Agrees(calls[c].upsert, i, f, lost)

RemoteInv == \A i \in Ids \ spoiled : RemoteAt(i, call, store, remote, orphans)

FindInv ==
    /\ DOMAIN find = {"pc", "chunks", "hits", "seen"}
    /\ IsFiniteSet(find.chunks) /\ IsFiniteSet(find.hits)
    /\ find.hits \subseteq find.seen
    /\ \A o \in find.chunks : o.chunk \in find.seen
    /\ Cardinality(find.hits) <= Limit
    /\ \A x, y \in find.hits : x.id = y.id => x = y
    /\ find.pc \notin {"idle", "done"} => \A i \in DOMAIN store : store[i].chunk \in find.seen

IndexInv ==
    /\ MemoryInv(Memory)
    /\ SegmentsInv(store, stale \cup dropped)
    /\ CallInv
    /\ RemoteInv
    /\ FindInv

-----------------------------------------------------------------------------
(* Sync.                                                                   *)

LEMMA SameMemory ==
    ASSUME NEW m, MemoryInv(m), NEW u, Fields \subseteq DOMAIN u,
           u.store = m.store, u.imports = m.imports, u.importedBy = m.importedBy,
           u.symbols = m.symbols, u.rewritten = m.rewritten, u.moved = m.moved,
           u.removed = m.removed, u.crowded = m.crowded
    PROVE  MemoryInv(u)
<1>1. StoreInv(u.store) /\ GraphType(u)
  BY DEF MemoryInv, GraphType
<1>2. EdgesInv(u)
  BY DEF MemoryInv, EdgesInv
<1>3. SymbolsInv(u)
  BY DEF MemoryInv, SymbolsInv
<1> QED
  BY <1>1, <1>2, <1>3 DEF MemoryInv

\* The critical section turns the memory m into u.
Synced(m, up, u) ==
    /\ MemoryInv(u)
    /\ SegmentsInv(u.store, u.stale \cup u.dropped)
    /\ u.deleted \in SUBSET Ids
    /\ DOMAIN u.store \subseteq DOMAIN m.store \cup IdsOf(up, Len(up))
    /\ \A i \in DOMAIN m.store : i \notin u.deleted \cup IdsOf(up, Len(up)) =>
         i \in DOMAIN u.store /\ u.store[i] = m.store[i]
    /\ \A i \in u.deleted \ IdsOf(up, Len(up)) : i \notin DOMAIN u.store
    /\ \A j \in 1..Len(up) :
         (\A l \in (j + 1)..Len(up) : up[l].id # up[j].id) /\ up[j].id \in DOMAIN u.store
           => u.store[up[j].id].chunk = up[j]

LEMMA SyncMemory ==
    ASSUME NEW m, MemoryInv(m), m.deleted = {}, SegmentsInv(m.store, m.stale \cup m.dropped),
           NEW ids \in SUBSET Ids, NEW up \in Seq(Chunks), Grouped(up), NEW k, NEW keep
    PROVE  Synced(m, up, KeepOnly(UpsertAll(DeleteAll(m, ids), up, k), keep))
<1> DEFINE a == DeleteAll(m, ids)
           b == UpsertAll(a, up, k)
           u == KeepOnly(b, keep)
           gone == ids \cap DOMAIN m.store
           out == Unkept(b, keep)
           L == Len(up)
           sent == IdsOf(up, L)
<1>1. /\ Leave(m, gone, a) /\ a.deleted = ids /\ a.dropped = m.dropped
      /\ a.stale = m.stale \cup {id[1] : id \in gone}
  <2>1. Deleted(m, ids, a)
    BY DeleteFields
  <2> QED
    BY <2>1 DEF Deleted
<1> HIDE DEF a
<1>2. MemoryInv(a)
  <2>1. gone \in SUBSET (DOMAIN m.store)
    OBVIOUS
  <2> QED
    BY <1>1, <2>1, LeaveInv
<1>3. UpsertsTo(a, up, L, b)
  BY <1>2, UpsertAllResult
<1> HIDE DEF b
<1>4. /\ MemoryInv(b) /\ b.deleted = ids /\ b.dropped = m.dropped /\ a.stale \subseteq b.stale
      /\ DOMAIN b.store = DOMAIN a.store \cup sent
      /\ \A i \in DOMAIN a.store : i \notin sent => b.store[i] = a.store[i]
      /\ \A j \in 1..L : (\A l \in (j + 1)..L : up[l].id # up[j].id) => b.store[up[j].id].chunk = up[j]
  BY <1>1, <1>3 DEF UpsertsTo
<1>5. /\ out \in SUBSET (DOMAIN b.store) /\ Leave(b, out, u) /\ u.deleted = ids \cup out
      /\ u.dropped = m.dropped \cup {id[1] : id \in out} /\ u.stale = b.stale
  <2>1. Kept(b, keep, u)
    BY <1>4, KeepFields
  <2> QED
    BY <1>4, <2>1 DEF Kept
<1> HIDE DEF u, gone, out, sent, L
<1>6. MemoryInv(u)
  BY <1>4, <1>5, LeaveInv
<1> DEFINE X == m.stale \cup m.dropped
           Xa == m.dropped \cup a.stale
           Xb == m.dropped \cup b.stale
           Xu == u.stale \cup u.dropped
<1>7. /\ X \subseteq Xa /\ {id[1] : id \in gone} \subseteq Xa
      /\ Xa \subseteq Xb /\ b.stale \subseteq Xb
      /\ Xb \subseteq Xu /\ {id[1] : id \in out} \subseteq Xu
  BY <1>1, <1>4, <1>5
<1>8. SegmentsInv(m.store, X)
  OBVIOUS
<1> HIDE DEF X, Xa, Xb, Xu
<1>9. SegmentsInv(u.store, Xu)
  <2>1. SegmentsInv(a.store, Xa)
    <3>1. Leave(m, gone, a)
      BY <1>1
    <3> QED
      BY <1>7, <1>8, <3>1, LeaveSegments
  <2>2. SegmentsInv(b.store, Xb)
    BY <1>3, <1>7, <2>1, UpsertSegments DEF L
  <2> QED
    BY <1>5, <1>7, <2>2, LeaveSegments
<1>10. /\ DOMAIN a.store = DOMAIN m.store \ gone
       /\ \A i \in DOMAIN a.store : a.store[i] = m.store[i]
       /\ DOMAIN u.store = DOMAIN b.store \ out
       /\ \A i \in DOMAIN u.store : u.store[i] = b.store[i]
  BY <1>1, <1>5 DEF Leave
<1>11. u.deleted \in SUBSET Ids
  <2>1. DOMAIN b.store \subseteq Ids
    BY <1>4 DEF MemoryInv, StoreInv
  <2> QED
    BY <1>5, <2>1
<1>12. DOMAIN u.store \subseteq DOMAIN m.store \cup sent
  BY <1>4, <1>10
<1>13. ASSUME NEW i \in DOMAIN m.store, i \notin u.deleted \cup sent
       PROVE  i \in DOMAIN u.store /\ u.store[i] = m.store[i]
  BY <1>4, <1>5, <1>10, <1>13 DEF gone
<1>14. ASSUME NEW i \in u.deleted, i \notin sent
       PROVE  i \notin DOMAIN u.store
  BY <1>4, <1>5, <1>10, <1>14 DEF gone
<1>15. ASSUME NEW j \in 1..L, \A l \in (j + 1)..L : up[l].id # up[j].id, up[j].id \in DOMAIN u.store
       PROVE  u.store[up[j].id].chunk = up[j]
  BY <1>4, <1>10, <1>15
<1> QED
  BY <1>6, <1>9, <1>11, <1>12, <1>13, <1>14, <1>15 DEF a, b, u, sent, L, Xu, Synced

LEMMA MemoryFields ==
    /\ Fields \subseteq DOMAIN Memory
    /\ Memory.store = store /\ Memory.imports = imports /\ Memory.importedBy = importedBy
    /\ Memory.symbols = symbols /\ Memory.deleted = {} /\ Memory.rewritten = rewritten
    /\ Memory.moved = moved /\ Memory.removed = removed /\ Memory.crowded = crowded
    /\ Memory.dropped = dropped /\ Memory.stale = stale
BY DEF Memory, Fields

LEMMA PendingIs ==
    ASSUME NEW k, k.upsert \in Seq(Chunks)
    PROVE  Pending(k) = k.delete \cup IdsOf(k.upsert, Len(k.upsert))
BY DEF Pending, IdsOf

\* A request is applied.
LEMMA SyncAppliesInv ==
    ASSUME IndexInv, NEW c \in Syncs, NEW r \in Requests, SyncApplies(c, r)
    PROVE  IndexInv'
<1> DEFINE up == expandOversizedChunks(r.upsert)
           m == KeepOnly(UpsertAll(DeleteAll(Memory, r.delete), up, c), r.keep)
           sent == IdsOf(up, Len(up))
           touched == m.deleted \cup sent
           over == MaxChunks > 0 /\ Cardinality(DOMAIN m.store) > MaxChunks
           busy == UNION {Pending(call[d]) : d \in Syncs}
           next == IF over THEN [Idle EXCEPT !.pc = "error"]
                   ELSE [pc |-> "delete", delete |-> m.deleted, upsert |-> up]
<1>1. /\ r.delete \in SUBSET Ids /\ r.upsert \in Seq(Chunks)
      /\ \A n \in 1..Len(r.upsert) : r.upsert[n].id[2] = 0
  BY RepoIndexAssumption
<1>2. up \in Seq(Chunks) /\ Grouped(up)
  BY <1>1, FlatGrouped
<1>3. {up[i].id : i \in DOMAIN up} = sent
  BY <1>2 DEF IdsOf
<1>4. /\ call[c].pc = "idle"
      /\ store' = m.store
      /\ imports' = m.imports /\ importedBy' = m.importedBy /\ symbols' = m.symbols
      /\ rewritten' = m.rewritten /\ moved' = m.moved /\ removed' = m.removed /\ crowded' = m.crowded
      /\ dropped' = m.dropped /\ stale' = m.stale
      /\ call' = [call EXCEPT ![c] = next]
      /\ spoiled' = spoiled \cup (IF over THEN touched ELSE touched \cap busy)
      /\ orphans' = orphans \cup (sent \ DOMAIN m.store)
      /\ find' = [find EXCEPT !.seen = IF find.pc \in {"idle", "done"} THEN @
                                       ELSE @ \cup {m.store[i].chunk : i \in DOMAIN m.store}]
      /\ remote' = remote
  BY <1>3 DEF SyncApplies
<1>5. Synced(Memory, up, m)
  <2>1. /\ MemoryInv(Memory) /\ Memory.deleted = {}
        /\ SegmentsInv(Memory.store, Memory.stale \cup Memory.dropped)
    BY MemoryFields DEF IndexInv
  <2> HIDE DEF up
  <2> QED
    BY <1>1, <1>2, <2>1, SyncMemory
<1> HIDE DEF up, m, over
<1>6. /\ MemoryInv(m) /\ SegmentsInv(m.store, m.stale \cup m.dropped) /\ m.deleted \in SUBSET Ids
      /\ DOMAIN m.store \subseteq DOMAIN store \cup sent
      /\ \A i \in DOMAIN store : i \notin touched => i \in DOMAIN m.store /\ m.store[i] = store[i]
      /\ \A i \in m.deleted \ sent : i \notin DOMAIN m.store
      /\ \A j \in 1..Len(up) :
           (\A l \in (j + 1)..Len(up) : up[l].id # up[j].id) /\ up[j].id \in DOMAIN m.store
             => m.store[up[j].id].chunk = up[j]
  BY <1>5, MemoryFields DEF Synced
<1>7. CallInv /\ RemoteInv /\ FindInv
  BY DEF IndexInv
<1>8. MemoryInv(Memory)'
  <2>1. MemoryInv(Memory')
    <3>1. /\ Fields \subseteq DOMAIN Memory'
          /\ Memory'.store = m.store /\ Memory'.imports = m.imports
          /\ Memory'.importedBy = m.importedBy /\ Memory'.symbols = m.symbols
          /\ Memory'.rewritten = m.rewritten /\ Memory'.moved = m.moved
          /\ Memory'.removed = m.removed /\ Memory'.crowded = m.crowded
      BY <1>4 DEF Memory, Fields
    <3> HIDE DEF Memory
    <3> QED
      BY <1>6, <3>1, SameMemory
  <2> QED
    BY <2>1
<1>9. SegmentsInv(store, stale \cup dropped)'
  BY <1>4, <1>6
<1>10. /\ next.pc \in {"error", "delete"} /\ next.delete \in SUBSET Ids /\ next.upsert \in Seq(Chunks)
       /\ next \in [pc : {"idle", "delete", "upsert", "ok", "error"},
                    delete : SUBSET Ids, upsert : Seq(Chunks)]
       /\ over => Pending(next) = {} /\ next.pc = "error"
       /\ ~over => Pending(next) = touched /\ next.upsert = up /\ next.pc = "delete"
  <2>1. CASE over
    <3>1. next = [pc |-> "error", delete |-> {}, upsert |-> <<>>]
      BY <2>1 DEF Idle
    <3>2. Pending(next) = {}
      BY <3>1 DEF Pending
    <3> HIDE DEF next
    <3>3. /\ next.pc = "error" /\ next.delete = {} /\ next.upsert = <<>>
          /\ next \in [pc : {"idle", "delete", "upsert", "ok", "error"},
                       delete : SUBSET Ids, upsert : Seq(Chunks)]
      BY <3>1
    <3> QED
      BY <2>1, <3>2, <3>3
  <2>2. CASE ~over
    <3>1. next = [pc |-> "delete", delete |-> m.deleted, upsert |-> up]
      BY <2>2
    <3>2. Pending(next) = touched
      BY <1>2, <3>1, PendingIs
    <3> QED
      BY <1>2, <1>6, <2>2, <3>1, <3>2
  <2> QED
    BY <2>1, <2>2
<1> HIDE DEF next
<1>11. call'[c] = next /\ \A d \in Syncs : d # c => call'[d] = call[d]
  BY <1>4, <1>7 DEF CallInv
<1>12. CallInv'
  <2>1. call' \in [Syncs -> [pc : {"idle", "delete", "upsert", "ok", "error"},
                             delete : SUBSET Ids, upsert : Seq(Chunks)]]
    BY <1>4, <1>7, <1>10 DEF CallInv
  <2>2. ASSUME NEW d \in Syncs
        PROVE  /\ call'[d].pc \in {"idle", "ok", "error"} => Pending(call'[d]) = {}
               /\ call'[d].pc = "upsert" => call'[d].delete = {}
    <3>1. CASE d = c
      BY <1>10, <1>11, <3>1
    <3>2. CASE d # c
      BY <1>7, <1>11, <3>2 DEF CallInv
    <3> QED
      BY <3>1, <3>2
  <2> QED
    BY <2>1, <2>2 DEF CallInv
<1>13. RemoteInv'
  <2> SUFFICES ASSUME NEW i \in Ids, i \notin spoiled'
               PROVE  RemoteAt(i, call', store', remote', orphans')
    BY DEF RemoteInv
  <2>1. RemoteAt(i, call, store, remote, orphans)
    BY <1>4, <1>7 DEF RemoteInv
  <2>2. Pending(call[c]) = {}
    BY <1>4, <1>7 DEF CallInv
  <2>3. CASE i \in touched
    <3>1. ~over /\ i \notin busy
      BY <1>4, <2>3
    <3>2. \A d \in Syncs : i \in Pending(call'[d]) <=> d = c
      BY <1>10, <1>11, <2>3, <3>1
    <3>3. Agrees(up, i, m.store, orphans')
      <4>1. CASE i \in sent
        <5>1. i \in DOMAIN m.store \/ i \in orphans'
          BY <1>4, <4>1
        <5>2. ASSUME i \in DOMAIN m.store, NEW j \in 1..Len(up), up[j].id = i,
                     \A l \in (j + 1)..Len(up) : up[l].id # i
              PROVE  up[j].text = m.store[i].chunk.text
          BY <1>6, <5>2
        <5> QED
          BY <4>1, <5>1, <5>2 DEF Agrees
      <4>2. CASE i \notin sent
        BY <1>6, <2>3, <4>2 DEF Agrees
      <4> QED
        BY <4>1, <4>2
    <3>4. call'[c].upsert = up
      BY <1>10, <1>11, <3>1
    <3> QED
      BY <1>4, <3>2, <3>3, <3>4 DEF RemoteAt
  <2>4. CASE i \notin touched
    <3>1. i \notin Pending(call'[c]) /\ i \notin Pending(call[c])
      BY <1>10, <1>11, <2>2, <2>4
    <3>2. \A d \in Syncs : /\ i \in Pending(call'[d]) <=> i \in Pending(call[d])
                           /\ i \in Pending(call'[d]) => call'[d] = call[d]
      BY <1>11, <3>1
    <3>3. /\ i \in DOMAIN store <=> i \in DOMAIN store'
          /\ i \in DOMAIN store => store'[i] = store[i]
      BY <1>4, <1>6, <2>4
    <3>4. orphans \subseteq orphans'
      BY <1>4
    <3>5. Settled(i, store, remote, orphans) => Settled(i, store', remote', orphans')
      BY <1>4, <3>3, <3>4 DEF Settled
    <3>6. \A s : Agrees(s, i, store, orphans) => Agrees(s, i, store', orphans')
      BY <3>3, <3>4 DEF Agrees
    <3> QED
      BY <2>1, <3>2, <3>5, <3>6 DEF RemoteAt
  <2> QED
    BY <2>3, <2>4
<1>14. FindInv'
  <2>1. /\ DOMAIN find' = DOMAIN find /\ find'.pc = find.pc /\ find'.chunks = find.chunks
        /\ find'.hits = find.hits /\ find.seen \subseteq find'.seen
        /\ find.pc \notin {"idle", "done"} => \A i \in DOMAIN store' : store'[i].chunk \in find'.seen
    BY <1>4, <1>7 DEF FindInv
  <2> QED
    BY <1>7, <2>1 DEF FindInv
<1> QED
  BY <1>8, <1>9, <1>12, <1>13, <1>14 DEF IndexInv

LEMMA MemoryKept ==
    ASSUME IndexInv, UNCHANGED <<store, graph, drift>>
    PROVE  MemoryInv(Memory)' /\ SegmentsInv(store, stale \cup dropped)'
<1>1. Memory' = Memory
  BY DEF Memory, graph, drift
<1>2. MemoryInv(Memory')
  BY <1>1 DEF IndexInv
<1>3. SegmentsInv(store, stale \cup dropped)'
  BY DEF IndexInv, drift
<1> QED
  BY <1>2, <1>3

\* A call goes on from its next remote step to another.
LEMMA CallGoesOn ==
    ASSUME CallInv, NEW c \in Syncs, NEW k, call' = [call EXCEPT ![c] = k],
           k \in [pc : {"idle", "delete", "upsert", "ok", "error"},
                  delete : SUBSET Ids, upsert : Seq(Chunks)],
           k.pc \in {"idle", "ok", "error"} => Pending(k) = {},
           k.pc = "upsert" => k.delete = {}
    PROVE  /\ CallInv'
           /\ call'[c] = k
           /\ \A d \in Syncs : d # c => call'[d] = call[d]
<1>1. call'[c] = k /\ \A d \in Syncs : d # c => call'[d] = call[d]
  BY DEF CallInv
<1>2. call' \in [Syncs -> [pc : {"idle", "delete", "upsert", "ok", "error"},
                           delete : SUBSET Ids, upsert : Seq(Chunks)]]
  BY DEF CallInv
<1>3. ASSUME NEW d \in Syncs
      PROVE  /\ call'[d].pc \in {"idle", "ok", "error"} => Pending(call'[d]) = {}
             /\ call'[d].pc = "upsert" => call'[d].delete = {}
  <2>1. CASE d = c
    BY <1>1, <2>1
  <2>2. CASE d # c
    BY <1>1, <2>2 DEF CallInv
  <2> QED
    BY <2>1, <2>2
<1> QED
  BY <1>1, <1>2, <1>3 DEF CallInv

LEMMA CallType ==
    ASSUME CallInv, NEW c \in Syncs
    PROVE  /\ call[c] \in [pc : {"idle", "delete", "upsert", "ok", "error"},
                           delete : SUBSET Ids, upsert : Seq(Chunks)]
           /\ call[c].delete \in SUBSET Ids /\ call[c].upsert \in Seq(Chunks)
           /\ Pending(call[c]) = call[c].delete \cup IdsOf(call[c].upsert, Len(call[c].upsert))
<1>1. call[c] \in [pc : {"idle", "delete", "upsert", "ok", "error"},
                   delete : SUBSET Ids, upsert : Seq(Chunks)]
  BY DEF CallInv
<1>2. call[c].delete \in SUBSET Ids /\ call[c].upsert \in Seq(Chunks)
  BY <1>1
<1> QED
  BY <1>1, <1>2, PendingIs

\* The remote points of an id the step does not touch.
LEMMA RemoteAtKept ==
    ASSUME NEW i, NEW calls, NEW calls2, NEW f, NEW points, NEW points2, NEW lost,
           RemoteAt(i, calls, f, points, lost),
           \A d \in Syncs : /\ i \in Pending(calls2[d]) <=> i \in Pending(calls[d])
                            /\ i \in Pending(calls2[d]) /\ Agrees(calls[d].upsert, i, f, lost)
                                 => Agrees(calls2[d].upsert, i, f, lost),
           i \in DOMAIN points2 <=> i \in DOMAIN points,
           i \in DOMAIN points => points2[i] = points[i]
    PROVE  RemoteAt(i, calls2, f, points2, lost)
<1>1. Settled(i, f, points, lost) => Settled(i, f, points2, lost)
  BY DEF Settled
<1> QED
  BY <1>1 DEF RemoteAt

\* The remote points are deleted, or are not.
LEMMA SyncDeletesInv ==
    ASSUME IndexInv, NEW c \in Syncs, SyncDeletes(c)
    PROVE  IndexInv'
<1> DEFINE D == call[c].delete
           s == call[c].upsert
           k == [pc |-> "upsert", delete |-> {}, upsert |-> s]
<1>1. CallInv /\ RemoteInv /\ FindInv
  BY DEF IndexInv
<1>2. /\ call[c].pc = "delete"
      /\ call' = [call EXCEPT ![c].pc = "upsert", ![c].delete = {}]
      /\ UNCHANGED <<store, graph, find, drift>>
      /\ \/ remote' = Without(remote, D) /\ spoiled' = spoiled
         \/ remote' = remote /\ spoiled' = spoiled \cup D
  <2>1. QdrantDelete(D)
    BY DEF SyncDeletes
  <2>2. \/ remote' = Without(remote, D) /\ spoiled' = spoiled
        \/ remote' = remote /\ spoiled' = spoiled \cup D
    <3>1. CASE D = {}
      <4>1. remote' = remote /\ spoiled' = spoiled \cup D
        BY <2>1, <3>1 DEF QdrantDelete
      <4> QED
        BY <4>1
    <3>2. CASE D # {}
      BY <2>1, <3>2 DEF QdrantDelete, Do
    <3> QED
      BY <3>1, <3>2
  <2> QED
    BY <2>2 DEF SyncDeletes
<1>3. /\ D \in SUBSET Ids /\ s \in Seq(Chunks)
      /\ Pending(call[c]) = D \cup IdsOf(s, Len(s))
      /\ call[c] \in [pc : {"idle", "delete", "upsert", "ok", "error"},
                      delete : SUBSET Ids, upsert : Seq(Chunks)]
  BY <1>1, CallType
<1>4. call' = [call EXCEPT ![c] = k]
  <2>1. PICK o : o = call[c]
    OBVIOUS
  <2>2. o \in [pc : {"idle", "delete", "upsert", "ok", "error"},
              delete : SUBSET Ids, upsert : Seq(Chunks)]
    BY <1>3, <2>1
  <2>3. PICK e : e = [o EXCEPT !.pc = "upsert", !.delete = {}]
    OBVIOUS
  <2>4. /\ e \in [pc : {"idle", "delete", "upsert", "ok", "error"},
                 delete : SUBSET Ids, upsert : Seq(Chunks)]
        /\ e.pc = "upsert" /\ e.delete = {} /\ e.upsert = o.upsert
    BY <2>2, <2>3
  <2>5. e = k
    BY <2>1, <2>4
  <2> QED
    BY <1>1, <1>2, <2>1, <2>3, <2>5 DEF CallInv
<1>5. /\ k \in [pc : {"idle", "delete", "upsert", "ok", "error"},
                delete : SUBSET Ids, upsert : Seq(Chunks)]
      /\ k.pc = "upsert" /\ k.delete = {} /\ k.upsert = s
      /\ Pending(k) = IdsOf(s, Len(s))
  <2>1. k.delete = {} /\ k.upsert = s
    OBVIOUS
  <2>2. Pending(k) = IdsOf(s, Len(s))
    BY <1>3, <2>1, PendingIs
  <2> QED
    BY <1>3, <2>1, <2>2
<1> HIDE DEF k, s, D
<1>6. CallInv' /\ call'[c] = k /\ \A d \in Syncs : d # c => call'[d] = call[d]
  BY <1>1, <1>4, <1>5, CallGoesOn
<1>7. MemoryInv(Memory)' /\ SegmentsInv(store, stale \cup dropped)'
  BY <1>2, MemoryKept
<1>8. FindInv'
  BY <1>1, <1>2 DEF FindInv
<1>9. store' = store /\ orphans' = orphans
  BY <1>2 DEF drift
<1>10. RemoteInv'
  <2> SUFFICES ASSUME NEW i \in Ids, i \notin spoiled'
               PROVE  RemoteAt(i, call', store, remote', orphans)
    BY <1>9 DEF RemoteInv
  <2>1. RemoteAt(i, call, store, remote, orphans)
    BY <1>1, <1>2 DEF RemoteInv
  <2>2. CASE i \in D
    <3>1. remote' = Without(remote, D)
      BY <1>2, <2>2
    <3>2. i \notin DOMAIN remote'
      BY <2>2, <3>1 DEF Without
    <3>3. /\ i \in Pending(call[c])
          /\ \A d \in Syncs : i \in Pending(call[d]) => d = c
          /\ Agrees(s, i, store, orphans)
      BY <1>3, <2>1, <2>2 DEF RemoteAt, s
    <3>4. CASE i \in IdsOf(s, Len(s))
      BY <1>5, <1>6, <3>3, <3>4 DEF RemoteAt
    <3>5. CASE i \notin IdsOf(s, Len(s))
      <4>1. Settled(i, store, remote', orphans)
        BY <3>2, <3>3, <3>5 DEF Agrees, Settled
      <4> QED
        BY <1>5, <1>6, <3>3, <3>5, <4>1 DEF RemoteAt
    <3> QED
      BY <3>4, <3>5
  <2>3. CASE i \notin D
    <3>1. \A d \in Syncs : /\ i \in Pending(call'[d]) <=> i \in Pending(call[d])
                           /\ call'[d].upsert = call[d].upsert
      BY <1>3, <1>5, <1>6, <2>3 DEF s
    <3>2. /\ i \in DOMAIN remote' <=> i \in DOMAIN remote
          /\ i \in DOMAIN remote => remote'[i] = remote[i]
      BY <1>2, <2>3 DEF Without
    <3> QED
      BY <2>1, <3>1, <3>2, RemoteAtKept
  <2> QED
    BY <2>2, <2>3
<1> QED
  BY <1>6, <1>7, <1>8, <1>10 DEF IndexInv

\* What Agrees says of the chunks after the first.
LEMMA AgreesTail ==
    ASSUME NEW s \in Seq(Chunks), s # <<>>, NEW i, NEW f, NEW lost
    PROVE  /\ Tail(s) \in Seq(Chunks) /\ Head(s) \in Chunks
           /\ IdsOf(s, Len(s)) = {Head(s).id} \cup IdsOf(Tail(s), Len(Tail(s)))
           /\ i \in IdsOf(Tail(s), Len(Tail(s))) /\ Agrees(s, i, f, lost) => Agrees(Tail(s), i, f, lost)
           /\ i \notin IdsOf(Tail(s), Len(Tail(s))) /\ i = Head(s).id /\ Agrees(s, i, f, lost) =>
                IF i \in DOMAIN f THEN f[i].chunk.text = Head(s).text ELSE i \in lost
<1> DEFINE t == Tail(s)
<1>1. /\ t \in Seq(Chunks) /\ Len(s) \in Nat \ {0} /\ Len(t) = Len(s) - 1
      /\ \A j \in 1..Len(t) : t[j] = s[j + 1]
      /\ Head(s) = s[1] /\ s[1] \in Chunks
  OBVIOUS
<1> HIDE DEF t
<1>2. IdsOf(s, Len(s)) = {s[1].id} \cup IdsOf(t, Len(t))
  <2>1. ASSUME NEW j \in 1..Len(s) PROVE s[j].id \in {s[1].id} \cup IdsOf(t, Len(t))
    <3>1. CASE j = 1
      BY <3>1
    <3>2. CASE j # 1
      <4>1. j - 1 \in 1..Len(t) /\ t[j - 1] = s[j]
        BY <1>1, <3>2
      <4> QED
        BY <4>1 DEF IdsOf
    <3> QED
      BY <3>1, <3>2
  <2>2. ASSUME NEW j \in 1..Len(t) PROVE t[j].id \in IdsOf(s, Len(s))
    <3>1. j + 1 \in 1..Len(s) /\ t[j] = s[j + 1]
      BY <1>1
    <3> QED
      BY <3>1 DEF IdsOf
  <2>3. s[1].id \in IdsOf(s, Len(s))
    BY <1>1 DEF IdsOf
  <2> QED
    BY <2>1, <2>2, <2>3 DEF IdsOf
<1>3. ASSUME i \in IdsOf(t, Len(t)), Agrees(s, i, f, lost) PROVE Agrees(t, i, f, lost)
  <2>1. i \in IdsOf(s, Len(s))
    BY <1>2, <1>3
  <2>2. i \in DOMAIN f \/ i \in lost
    BY <1>3, <2>1 DEF Agrees
  <2>3. ASSUME i \in DOMAIN f, NEW j \in 1..Len(t), t[j].id = i, \A l \in (j + 1)..Len(t) : t[l].id # i
        PROVE  t[j].text = f[i].chunk.text
    <3>1. j + 1 \in 1..Len(s) /\ t[j] = s[j + 1]
      BY <1>1
    <3>2. ASSUME NEW l \in (j + 2)..Len(s) PROVE s[l].id # i
      <4>1. l - 1 \in (j + 1)..Len(t) /\ t[l - 1] = s[l]
        BY <1>1, <3>2
      <4> QED
        BY <2>3, <4>1
    <3>3. (j + 1) + 1 = j + 2
      BY <3>1
    <3> QED
      BY <1>3, <2>1, <2>3, <3>1, <3>2, <3>3 DEF Agrees
  <2> QED
    BY <1>3, <2>2, <2>3 DEF Agrees
<1>4. ASSUME i \notin IdsOf(t, Len(t)), i = s[1].id, Agrees(s, i, f, lost)
      PROVE  IF i \in DOMAIN f THEN f[i].chunk.text = s[1].text ELSE i \in lost
  <2>1. i \in IdsOf(s, Len(s))
    BY <1>2, <1>4
  <2>2. ASSUME NEW l \in 2..Len(s) PROVE s[l].id # i
    <3>1. l - 1 \in 1..Len(t) /\ t[l - 1] = s[l]
      BY <1>1, <2>2
    <3> QED
      BY <1>4, <3>1 DEF IdsOf
  <2>3. 1 \in 1..Len(s) /\ 1 + 1 = 2
    BY <1>1
  <2> QED
    BY <1>4, <2>1, <2>2, <2>3 DEF Agrees
<1> QED
  BY <1>1, <1>2, <1>3, <1>4 DEF t

\* A remote point is written, or is not.
LEMMA SyncUpsertsInv ==
    ASSUME IndexInv, NEW c \in Syncs, SyncUpserts(c)
    PROVE  IndexInv'
<1> DEFINE s == call[c].upsert
           t == Tail(s)
           u == Head(s)
           k == [pc |-> "upsert", delete |-> {}, upsert |-> t]
<1>1. CallInv /\ RemoteInv /\ FindInv
  BY DEF IndexInv
<1>2. /\ call[c].pc = "upsert" /\ s # <<>>
      /\ call' = [call EXCEPT ![c].upsert = Tail(@)]
      /\ UNCHANGED <<store, graph, find, drift>>
      /\ \/ remote' = With(remote, u.id, u.text) /\ spoiled' = spoiled
         \/ remote' = remote /\ spoiled' = spoiled \cup {u.id}
  BY DEF SyncUpserts, QdrantUpsert, Do
<1>3. /\ call[c].delete = {} /\ s \in Seq(Chunks)
      /\ Pending(call[c]) = IdsOf(s, Len(s))
      /\ call[c] \in [pc : {"idle", "delete", "upsert", "ok", "error"},
                      delete : SUBSET Ids, upsert : Seq(Chunks)]
  BY <1>1, <1>2, CallType DEF CallInv
<1>4. /\ t \in Seq(Chunks)
      /\ IdsOf(s, Len(s)) = {u.id} \cup IdsOf(t, Len(t))
  <2> HIDE DEF s
  <2> QED
    BY <1>2, <1>3, AgreesTail
<1>5. call' = [call EXCEPT ![c] = k]
  <2>1. PICK o : o = call[c]
    OBVIOUS
  <2>2. o \in [pc : {"idle", "delete", "upsert", "ok", "error"},
              delete : SUBSET Ids, upsert : Seq(Chunks)]
    BY <1>3, <2>1
  <2>3. PICK e : e = [o EXCEPT !.upsert = Tail(@)]
    OBVIOUS
  <2>4. /\ e \in [pc : {"idle", "delete", "upsert", "ok", "error"},
                 delete : SUBSET Ids, upsert : Seq(Chunks)]
        /\ e.pc = "upsert" /\ e.delete = {} /\ e.upsert = t
    <3>1. e.upsert = t /\ e.pc = o.pc /\ e.delete = o.delete
      BY <2>1, <2>2, <2>3
    <3>2. e = [o EXCEPT !.upsert = t]
      BY <2>1, <2>3
    <3> HIDE DEF t
    <3> QED
      BY <1>2, <1>3, <1>4, <2>1, <2>2, <3>1, <3>2
  <2>5. e = k
    BY <2>4
  <2> QED
    BY <1>1, <1>2, <2>1, <2>3, <2>5 DEF CallInv
<1>6. /\ k \in [pc : {"idle", "delete", "upsert", "ok", "error"},
                delete : SUBSET Ids, upsert : Seq(Chunks)]
      /\ k.pc = "upsert" /\ k.delete = {} /\ k.upsert = t
      /\ Pending(k) = IdsOf(t, Len(t))
  <2> HIDE DEF t
  <2>1. k.delete = {} /\ k.upsert = t
    OBVIOUS
  <2>2. Pending(k) = IdsOf(t, Len(t))
    BY <1>4, <2>1, PendingIs
  <2> QED
    BY <1>4, <2>1, <2>2
<1> HIDE DEF k, s, t, u
<1>7. CallInv' /\ call'[c] = k /\ \A d \in Syncs : d # c => call'[d] = call[d]
  BY <1>1, <1>5, <1>6, CallGoesOn
<1>8. MemoryInv(Memory)' /\ SegmentsInv(store, stale \cup dropped)'
  BY <1>2, MemoryKept
<1>9. FindInv'
  BY <1>1, <1>2 DEF FindInv
<1>10. store' = store /\ orphans' = orphans
  BY <1>2 DEF drift
<1>11. RemoteInv'
  <2> SUFFICES ASSUME NEW i \in Ids, i \notin spoiled'
               PROVE  RemoteAt(i, call', store, remote', orphans)
    BY <1>10 DEF RemoteInv
  <2>1. RemoteAt(i, call, store, remote, orphans)
    BY <1>1, <1>2 DEF RemoteInv
  <2>2. i \in IdsOf(t, Len(t)) /\ Agrees(s, i, store, orphans) => Agrees(t, i, store, orphans)
    BY <1>2, <1>3, AgreesTail DEF t
  <2>3. CASE i = u.id
    <3>1. remote' = With(remote, u.id, u.text)
      BY <1>2, <2>3
    <3>2. i \in DOMAIN remote' /\ remote'[i] = u.text
      BY <2>3, <3>1 DEF With
    <3>3. /\ i \in Pending(call[c])
          /\ \A d \in Syncs : i \in Pending(call[d]) => d = c
          /\ Agrees(s, i, store, orphans)
      BY <1>3, <1>4, <2>1, <2>3 DEF RemoteAt, s
    <3>4. CASE i \in IdsOf(t, Len(t))
      BY <1>6, <1>7, <2>2, <3>3, <3>4 DEF RemoteAt
    <3>5. CASE i \notin IdsOf(t, Len(t))
      <4>1. IF i \in DOMAIN store THEN store[i].chunk.text = u.text ELSE i \in orphans
        BY <1>2, <1>3, <2>3, <3>3, <3>5, AgreesTail DEF t, u
      <4>2. Settled(i, store, remote', orphans)
        BY <3>2, <4>1 DEF Settled
      <4> QED
        BY <1>6, <1>7, <3>3, <3>5, <4>2 DEF RemoteAt
    <3> QED
      BY <3>4, <3>5
  <2>4. CASE i # u.id
    <3>1. \A d \in Syncs : /\ i \in Pending(call'[d]) <=> i \in Pending(call[d])
                           /\ i \in Pending(call'[d]) /\ Agrees(call[d].upsert, i, store, orphans)
                                => Agrees(call'[d].upsert, i, store, orphans)
      <4>1. ASSUME NEW d \in Syncs
            PROVE  /\ i \in Pending(call'[d]) <=> i \in Pending(call[d])
                   /\ i \in Pending(call'[d]) /\ Agrees(call[d].upsert, i, store, orphans)
                        => Agrees(call'[d].upsert, i, store, orphans)
        <5>1. CASE d = c
          BY <1>3, <1>4, <1>6, <1>7, <2>2, <2>4, <5>1 DEF s
        <5>2. CASE d # c
          BY <1>7, <5>2
        <5> QED
          BY <5>1, <5>2
      <4> QED
        BY <4>1
    <3>2. /\ i \in DOMAIN remote' <=> i \in DOMAIN remote
          /\ i \in DOMAIN remote => remote'[i] = remote[i]
      BY <1>2, <2>4 DEF With
    <3> QED
      BY <2>1, <3>1, <3>2, RemoteAtKept
  <2> QED
    BY <2>3, <2>4
<1> QED
  BY <1>7, <1>8, <1>9, <1>11 DEF IndexInv

LEMMA SyncReturnsInv ==
    ASSUME IndexInv, NEW c \in Syncs, SyncReturns(c)
    PROVE  IndexInv'
<1> DEFINE k == [pc |-> "ok", delete |-> {}, upsert |-> <<>>]
<1>1. CallInv /\ RemoteInv /\ FindInv
  BY DEF IndexInv
<1>2. /\ call[c].pc = "upsert" /\ call[c].upsert = <<>>
      /\ call' = [call EXCEPT ![c].pc = "ok"]
      /\ UNCHANGED <<store, graph, remote, find, spoiled, drift>>
  BY DEF SyncReturns
<1>3. /\ call[c].delete = {}
      /\ call[c] \in [pc : {"idle", "delete", "upsert", "ok", "error"},
                      delete : SUBSET Ids, upsert : Seq(Chunks)]
  BY <1>1, <1>2, CallType DEF CallInv
<1>4. Pending(call[c]) = {} /\ Pending(k) = {}
  BY <1>2, <1>3 DEF Pending
<1>5. call' = [call EXCEPT ![c] = k]
  <2>1. PICK o : o = call[c]
    OBVIOUS
  <2>2. PICK e : e = [o EXCEPT !.pc = "ok"]
    OBVIOUS
  <2>3. /\ e \in [pc : {"idle", "delete", "upsert", "ok", "error"},
                 delete : SUBSET Ids, upsert : Seq(Chunks)]
        /\ e.pc = "ok" /\ e.delete = {} /\ e.upsert = <<>>
    BY <1>2, <1>3, <2>1, <2>2
  <2>4. e = k
    BY <2>3
  <2> QED
    BY <1>1, <1>2, <2>1, <2>2, <2>4 DEF CallInv
<1>6. /\ k \in [pc : {"idle", "delete", "upsert", "ok", "error"},
                delete : SUBSET Ids, upsert : Seq(Chunks)]
      /\ k.pc = "ok"
  OBVIOUS
<1> HIDE DEF k
<1>7. CallInv' /\ call'[c] = k /\ \A d \in Syncs : d # c => call'[d] = call[d]
  BY <1>1, <1>4, <1>5, <1>6, CallGoesOn
<1>8. MemoryInv(Memory)' /\ SegmentsInv(store, stale \cup dropped)'
  BY <1>2, MemoryKept
<1>9. FindInv'
  BY <1>1, <1>2 DEF FindInv
<1>10. RemoteInv'
  <2> SUFFICES ASSUME NEW i \in Ids, i \notin spoiled
               PROVE  RemoteAt(i, call', store, remote, orphans)
    BY <1>2 DEF RemoteInv, drift
  <2>1. RemoteAt(i, call, store, remote, orphans)
    BY <1>1 DEF RemoteInv
  <2>2. \A d \in Syncs : /\ i \in Pending(call'[d]) <=> i \in Pending(call[d])
                         /\ i \in Pending(call'[d]) => call'[d] = call[d]
    BY <1>4, <1>7
  <2> QED
    BY <2>1, <2>2 DEF RemoteAt
<1> QED
  BY <1>7, <1>8, <1>9, <1>10 DEF IndexInv

-----------------------------------------------------------------------------
(* Search.                                                                 *)

LEMMA ChunksAreFinite ==
    ASSUME NEW S, IsFiniteSet(S)
    PROVE  IsFiniteSet({o.chunk : o \in S})
<1> DEFINE T == {o.chunk : o \in S}
           f == [o \in S |-> o.chunk]
<1>1. f \in Surjection(S, T)
  BY DEF Surjection
<1> HIDE DEF T, f
<1>2. IsFiniteSet(T)
  BY <1>1, FS_Surjection
<1> QED
  BY <1>2 DEF T

LEMMA IdsAreFinite ==
    ASSUME NEW S, IsFiniteSet(S)
    PROVE  IsFiniteSet({h.id : h \in S})
<1> DEFINE T == {h.id : h \in S}
           f == [h \in S |-> h.id]
<1>1. f \in Surjection(S, T)
  BY DEF Surjection
<1> HIDE DEF T, f
<1>2. IsFiniteSet(T)
  BY <1>1, FS_Surjection
<1> QED
  BY <1>2 DEF T

LEMMA ObjectsAre ==
    ASSUME StoreInv(store)
    PROVE  /\ IsFiniteSet(Objects)
           /\ \A o \in Objects : \E i \in DOMAIN store : o = store[i] /\ o.chunk.id = i
           /\ \A i \in DOMAIN store : store[i] \in Objects
<1> DEFINE f == [i \in DOMAIN store |-> store[i]]
<1>1. f \in Surjection(DOMAIN store, Objects)
  BY DEF Surjection, Objects
<1> HIDE DEF f
<1>2. IsFiniteSet(DOMAIN store)
  BY DEF StoreInv
<1>3. IsFiniteSet(Objects)
  BY <1>1, <1>2, FS_Surjection
<1> QED
  BY <1>3 DEF Objects, StoreInv

\* Any ranking of objects of the store with an id each.
LEMMA RankedAre ==
    ASSUME NEW S, IsFiniteSet(S), NEW hits \in Ranked(S)
    PROVE  /\ IsFiniteSet(hits) /\ Cardinality(hits) <= Limit
           /\ \A h \in hits : \E o \in S : h = o.chunk
<1>1. hits \in SUBSET {o.chunk : o \in S} /\ Cardinality(hits) <= Limit
  BY DEF Ranked, Hit
<1>2. IsFiniteSet({o.chunk : o \in S})
  BY ChunksAreFinite
<1>3. IsFiniteSet(hits)
  BY <1>1, <1>2, FS_Subset
<1> QED
  BY <1>1, <1>3

LEMMA MergedAre ==
    ASSUME NEW a, NEW b, IsFiniteSet(a), IsFiniteSet(b), NEW hits \in mergeHits(a, b)
    PROVE  /\ hits \subseteq a \cup b /\ IsFiniteSet(hits) /\ Cardinality(hits) <= Limit
           /\ \A x, y \in hits : x.id = y.id => x = y
<1> DEFINE n == Cardinality({h.id : h \in a \cup b})
<1>1. /\ hits \in SUBSET (a \cup b) /\ Cardinality(hits) = Min({Limit, n})
      /\ \A x, y \in hits : x.id = y.id => x = y
  BY DEF mergeHits
<1>2. IsFiniteSet(a \cup b)
  BY FS_Union
<1>3. IsFiniteSet(hits)
  BY <1>1, <1>2, FS_Subset
<1>4. n \in Nat
  <2>1. IsFiniteSet({h.id : h \in a \cup b})
    BY <1>2, IdsAreFinite
  <2> QED
    BY <2>1, FS_CardinalityType
<1> HIDE DEF n
<1>5. Min({Limit, n}) <= Limit
  <2>1. Limit \in Nat
    BY RepoIndexAssumption
  <2>2. \E x \in {Limit, n} : \A y \in {Limit, n} : x <= y
    BY <1>4, <2>1
  <2>3. Min({Limit, n}) \in {Limit, n} /\ \A y \in {Limit, n} : Min({Limit, n}) <= y
    BY <2>2 DEF Min
  <2> QED
    BY <2>3
<1> QED
  BY <1>1, <1>3, <1>5

\* A step of the search that leaves the store and the calls alone.
LEMMA FindStep ==
    ASSUME IndexInv, UNCHANGED <<store, graph, remote, call, spoiled, drift>>, FindInv'
    PROVE  IndexInv'
<1>1. MemoryInv(Memory)' /\ SegmentsInv(store, stale \cup dropped)'
  BY MemoryKept
<1>2. CallInv' /\ RemoteInv'
  BY DEF IndexInv, CallInv, RemoteInv, drift
<1> QED
  BY <1>1, <1>2 DEF IndexInv

LEMMA SearchBeginsInv ==
    ASSUME IndexInv, NEW mode \in Modes, SearchBegins(mode)
    PROVE  IndexInv'
<1>1. StoreInv(store) /\ FindInv
  BY MemoryFields DEF IndexInv, MemoryInv
<1>2. PICK hits \in searchKeyword(mode) :
          find' = [pc |-> CASE store = <<>> -> "done"
                            [] store # <<>> /\ mode = "keyword" -> "expand"
                            [] OTHER -> "remote",
                   chunks |-> IF mode = "keyword" THEN {} ELSE Objects, hits |-> hits,
                   seen |-> {Hit(o) : o \in Objects}]
  BY DEF SearchBegins
<1>3. IsFiniteSet(Objects)
  BY <1>1, ObjectsAre
<1>4. /\ IsFiniteSet(hits) /\ Cardinality(hits) <= Limit
      /\ \A h \in hits : \E o \in Objects : h = o.chunk
  <2>1. CASE hits = {}
    BY <2>1, FS_EmptySet, RepoIndexAssumption
  <2>2. CASE hits # {}
    <3>1. hits \in Ranked(Objects)
      BY <1>2, <2>2 DEF searchKeyword
    <3> QED
      BY <1>3, <3>1, RankedAre
  <2> QED
    BY <2>1, <2>2
<1>5. \A x, y \in hits : x.id = y.id => x = y
  BY <1>1, <1>4, ObjectsAre
<1>6. /\ DOMAIN find' = {"pc", "chunks", "hits", "seen"}
      /\ find'.chunks \in {{}, Objects} /\ find'.hits = hits
      /\ find'.seen = {o.chunk : o \in Objects}
  BY <1>2 DEF Hit
<1>7. IsFiniteSet(find'.chunks)
  BY <1>3, <1>6, FS_EmptySet
<1>8. /\ find'.hits \subseteq find'.seen
      /\ \A o \in find'.chunks : o.chunk \in find'.seen
  BY <1>4, <1>6
<1>9. store' = store /\ \A i \in DOMAIN store : store[i].chunk \in find'.seen
  BY <1>1, <1>6, ObjectsAre DEF SearchBegins
<1>10. FindInv'
  BY <1>4, <1>5, <1>6, <1>7, <1>8, <1>9 DEF FindInv
<1> QED
  BY <1>10, FindStep DEF SearchBegins

LEMMA SearchRemoteInv ==
    ASSUME IndexInv, SearchRemote
    PROVE  IndexInv'
<1>1. FindInv
  BY DEF IndexInv
<1>2. find.pc = "remote" /\ store' = store
  BY DEF SearchRemote
<1>3. CASE find' = [find EXCEPT !.pc = "local"]
  <2>1. /\ DOMAIN find' = DOMAIN find /\ find'.pc = "local" /\ find'.chunks = find.chunks
        /\ find'.hits = find.hits /\ find'.seen = find.seen
    BY <1>1, <1>3 DEF FindInv
  <2>2. FindInv'
    BY <1>1, <1>2, <2>1 DEF FindInv
  <2> QED
    BY <2>2, FindStep DEF SearchRemote
<1>4. ASSUME NEW ids \in SUBSET DOMAIN remote, NEW hits \in mergeHits(find.hits, searchQdrant(ids)),
             find' = Expanding(hits)
      PROVE  IndexInv'
  <2> DEFINE points == {x \in find.chunks : x.chunk.id \in ids}
  <2>1. searchQdrant(ids) = {o.chunk : o \in points}
    BY DEF searchQdrant, Hit
  <2>2. IsFiniteSet(points)
    BY <1>1, FS_Subset DEF FindInv
  <2>3. IsFiniteSet(searchQdrant(ids)) /\ searchQdrant(ids) \subseteq find.seen
    <3>1. IsFiniteSet(searchQdrant(ids))
      BY <2>1, <2>2, ChunksAreFinite
    <3> QED
      BY <1>1, <2>1, <3>1 DEF FindInv
  <2>4. /\ hits \subseteq find.hits \cup searchQdrant(ids)
        /\ IsFiniteSet(hits) /\ Cardinality(hits) <= Limit
        /\ \A x, y \in hits : x.id = y.id => x = y
    BY <1>1, <1>4, <2>3, MergedAre DEF FindInv
  <2>5. /\ DOMAIN find' = DOMAIN find /\ find'.pc = "expand" /\ find'.chunks = {}
        /\ find'.hits = hits /\ find'.seen = find.seen
    BY <1>1, <1>4 DEF FindInv, Expanding
  <2>6. FindInv'
    BY <1>1, <1>2, <2>3, <2>4, <2>5, FS_EmptySet DEF FindInv
  <2> QED
    BY <2>6, FindStep DEF SearchRemote
<1> QED
  BY <1>3, <1>4 DEF SearchRemote

LEMMA SearchExpandsInv ==
    ASSUME IndexInv, SearchExpands
    PROVE  IndexInv'
<1>1. StoreInv(store) /\ FindInv
  BY MemoryFields DEF IndexInv, MemoryInv
<1> DEFINE new == {Hit(o) : o \in {x \in Objects : \A h \in find.hits : h.id # x.chunk.id}}
<1>2. PICK more \in SUBSET new : \E hits \in mergeHits(find.hits, more) :
          find' = [find EXCEPT !.pc = "done", !.hits = hits]
  BY DEF SearchExpands
<1>3. PICK hits \in mergeHits(find.hits, more) : find' = [find EXCEPT !.pc = "done", !.hits = hits]
  BY <1>2
<1>4. find.pc = "expand" /\ store' = store
  BY DEF SearchExpands
<1>5. more \subseteq {o.chunk : o \in Objects}
  BY <1>2 DEF Hit
<1>6. IsFiniteSet(more)
  BY <1>1, <1>5, ObjectsAre, ChunksAreFinite, FS_Subset
<1>7. more \subseteq find.seen
  BY <1>1, <1>4, <1>5, ObjectsAre DEF FindInv
<1>8. /\ hits \subseteq find.hits \cup more
      /\ IsFiniteSet(hits) /\ Cardinality(hits) <= Limit
      /\ \A x, y \in hits : x.id = y.id => x = y
  BY <1>1, <1>3, <1>6, MergedAre DEF FindInv
<1>9. /\ DOMAIN find' = DOMAIN find /\ find'.pc = "done" /\ find'.chunks = find.chunks
      /\ find'.hits = hits /\ find'.seen = find.seen
  BY <1>1, <1>3 DEF FindInv
<1>10. FindInv'
  BY <1>1, <1>7, <1>8, <1>9 DEF FindInv
<1> QED
  BY <1>10, FindStep DEF SearchExpands

\* Vectors are written to chunks of the store.
LEMMA EmbeddingFields ==
    ASSUME NEW o, DOMAIN o = {"chunk", "embed", "by"}
    PROVE  /\ DOMAIN embedding(o) = {"chunk", "embed", "by"}
           /\ embedding(o).chunk = o.chunk
           /\ embedding(o).embed \in {o.embed, o.chunk.text}
           /\ o.embed \in {None, o.chunk.text} => embedding(o).embed = o.chunk.text
<1>1. PICK e : e = [o EXCEPT !.embed = IF @ = None THEN o.chunk.text ELSE @]
  OBVIOUS
<1>2. /\ DOMAIN e = {"chunk", "embed", "by"} /\ e.chunk = o.chunk
      /\ e.embed = IF o.embed = None THEN o.chunk.text ELSE o.embed
  BY <1>1
<1>3. embedding(o) = e
  BY <1>1 DEF embedding
<1> QED
  BY <1>2, <1>3

\* All that the invariant says of the chunks holds of a store with the same chunks.
LEMMA SameChunks ==
    ASSUME IndexInv, StoreInv(store'), DOMAIN store' = DOMAIN store,
           \A i \in DOMAIN store : store'[i].chunk = store[i].chunk,
           UNCHANGED <<graph, remote, call, spoiled, drift>>
    PROVE  /\ MemoryInv(Memory)' /\ SegmentsInv(store, stale \cup dropped)'
           /\ CallInv' /\ RemoteInv'
<1> DEFINE f == store
           g == store'
<1>1. \A p : Imported(g, p) = Imported(f, p)
  BY DEF Imported
<1>2. MemoryInv(Memory) /\ SegmentsInv(f, stale \cup dropped) /\ CallInv /\ RemoteInv
  BY DEF IndexInv
<1>3. /\ GraphType(Memory) /\ EdgesInv(Memory) /\ SymbolsInv(Memory)
      /\ Fields \subseteq DOMAIN Memory
  BY <1>2 DEF MemoryInv
<1>4. /\ Memory'.store = g /\ Memory'.imports = imports /\ Memory'.importedBy = importedBy
      /\ Memory'.symbols = symbols /\ Memory'.rewritten = rewritten /\ Memory'.moved = moved
      /\ Memory'.removed = removed /\ Memory'.crowded = crowded
      /\ Fields \subseteq DOMAIN Memory'
  BY DEF Memory, Fields, graph, drift
<1>5. GraphType(Memory')
  BY <1>3, <1>4, MemoryFields DEF GraphType
<1>6. EdgesInv(Memory')
  BY <1>1, <1>3, <1>4, MemoryFields DEF EdgesInv
<1>7. SymbolsInv(Memory')
  BY <1>3, <1>4, MemoryFields DEF SymbolsInv
<1>8. MemoryInv(Memory')
  BY <1>4, <1>5, <1>6, <1>7 DEF MemoryInv
<1>9. SegmentsInv(g, stale \cup dropped)
  <2>1. ASSUME NEW n \in Names, NEW i \in 1..(Segments - 1), n \notin stale \cup dropped
        PROVE  /\ <<n, 0>> \in DOMAIN g /\ g[<<n, 0>>].chunk.big => <<n, i>> \in DOMAIN g
               /\ <<n, i>> \in DOMAIN g =>
                    <<n, 0>> \in DOMAIN g /\ g[<<n, 0>>].chunk.text = g[<<n, i>>].chunk.text
    <3>1. /\ <<n, 0>> \in DOMAIN f /\ f[<<n, 0>>].chunk.big => <<n, i>> \in DOMAIN f
          /\ <<n, i>> \in DOMAIN f =>
               <<n, 0>> \in DOMAIN f /\ f[<<n, 0>>].chunk.text = f[<<n, i>>].chunk.text
      BY <1>2, <2>1 DEF SegmentsInv
    <3> QED
      BY <3>1
  <2> HIDE DEF f, g
  <2> QED
    BY <2>1 DEF SegmentsInv
<1>10. CallInv'
  BY <1>2 DEF CallInv
<1>11. ASSUME NEW i \in Ids, i \notin spoiled
       PROVE  RemoteAt(i, call, g, remote, orphans)
  <2>1. RemoteAt(i, call, f, remote, orphans)
    BY <1>2, <1>11 DEF RemoteInv
  <2>2. Settled(i, f, remote, orphans) => Settled(i, g, remote, orphans)
    BY DEF Settled
  <2>3. \A c \in Syncs : Agrees(call[c].upsert, i, f, orphans) => Agrees(call[c].upsert, i, g, orphans)
    BY DEF Agrees
  <2> QED
    BY <2>1, <2>2, <2>3 DEF RemoteAt
<1>12. RemoteInv'
  BY <1>11 DEF RemoteInv, drift
<1> QED
  BY <1>8, <1>9, <1>10, <1>12 DEF drift

LEMMA SearchLocalInv ==
    ASSUME IndexInv, SearchLocal
    PROVE  IndexInv'
<1>1. StoreInv(store) /\ FindInv
  BY MemoryFields DEF IndexInv, MemoryInv
<1>2. find.pc = "local" /\ UNCHANGED <<graph, remote, call, spoiled, drift>>
  BY DEF SearchLocal
<1>3. ASSUME NEW got \in SUBSET find.chunks,
             NEW near \in Ranked(got), NEW hits \in mergeHits(find.hits, near),
             store' = Embedded(got),
             find' = Expanding(hits)
      PROVE  IndexInv'
  <2>1. /\ DOMAIN store' = DOMAIN store
        /\ store' = [i \in DOMAIN store' |-> store'[i]]
        /\ \A i \in DOMAIN store : store'[i] \in {store[i], embedding(store[i])}
    BY <1>3 DEF Embedded
  <2>2. ASSUME NEW i \in DOMAIN store
        PROVE  /\ DOMAIN store'[i] = {"chunk", "embed", "by"}
               /\ store'[i].chunk = store[i].chunk
               /\ store'[i].embed \in {None, store[i].chunk.text}
    <3>1. /\ DOMAIN store[i] = {"chunk", "embed", "by"}
          /\ store[i].embed \in {None, store[i].chunk.text}
      BY <1>1 DEF StoreInv
    <3>2. CASE store'[i] = store[i]
      BY <3>1, <3>2
    <3>3. CASE store'[i] = embedding(store[i])
      BY <3>1, <3>3, EmbeddingFields
    <3> QED
      BY <2>1, <3>2, <3>3
  <2>3. StoreInv(store')
    BY <1>1, <2>1, <2>2 DEF StoreInv
  <2>4. IsFiniteSet(got)
    BY <1>1, FS_Subset DEF FindInv
  <2>5. IsFiniteSet(near) /\ near \subseteq find.seen
    BY <1>1, <2>4, RankedAre DEF FindInv
  <2>6. /\ hits \subseteq find.hits \cup near
        /\ IsFiniteSet(hits) /\ Cardinality(hits) <= Limit
        /\ \A x, y \in hits : x.id = y.id => x = y
    BY <1>1, <2>5, MergedAre DEF FindInv
  <2>7. /\ DOMAIN find' = DOMAIN find /\ find'.pc = "expand" /\ find'.chunks = {}
        /\ find'.hits = hits /\ find'.seen = find.seen
    BY <1>1, <1>3 DEF FindInv, Expanding
  <2>8. \A i \in DOMAIN store' : store'[i].chunk \in find'.seen
    BY <1>1, <1>2, <2>1, <2>2, <2>7 DEF FindInv
  <2>9. FindInv'
    BY <1>1, <2>5, <2>6, <2>7, <2>8, FS_EmptySet DEF FindInv
  <2>10. /\ MemoryInv(Memory)' /\ SegmentsInv(store, stale \cup dropped)'
         /\ CallInv' /\ RemoteInv'
    BY <1>2, <2>1, <2>2, <2>3, SameChunks
  <2> QED
    BY <2>9, <2>10 DEF IndexInv
<1> QED
  BY <1>3 DEF SearchLocal

-----------------------------------------------------------------------------
(* The invariant holds in every state.                                     *)

LEMMA IndexInit == Init => IndexInv
<1> SUFFICES ASSUME Init PROVE IndexInv
  OBVIOUS
<1>1. DOMAIN store = {} /\ store = [i \in DOMAIN store |-> store[i]]
  BY DEF Init
<1>2. StoreInv(store)
  BY <1>1, FS_EmptySet DEF StoreInv
<1>3. \A p : Imported(store, p) = {}
  BY <1>1 DEF Imported
<1>4. GraphType(Memory)
  BY MemoryFields DEF GraphType, Init
<1>5. EdgesInv(Memory)
  <2>1. \A p \in Paths : Listed(Memory.imports[p]) = {} /\ Memory.importedBy[p] = {}
    BY MemoryFields DEF Listed, Init
  <2> QED
    BY <1>3, <2>1, MemoryFields DEF EdgesInv
<1>6. SymbolsInv(Memory)
  BY MemoryFields DEF SymbolsInv, Init
<1>7. MemoryInv(Memory)
  BY <1>2, <1>4, <1>5, <1>6, MemoryFields DEF MemoryInv
<1>8. SegmentsInv(store, stale \cup dropped)
  BY <1>1 DEF SegmentsInv
<1>9. /\ Idle \in [pc : {"idle", "delete", "upsert", "ok", "error"},
                   delete : SUBSET Ids, upsert : Seq(Chunks)]
      /\ Idle.pc = "idle" /\ Pending(Idle) = {}
  BY DEF Idle, Pending
<1>10. CallInv /\ \A c \in Syncs : Pending(call[c]) = {}
  BY <1>9 DEF CallInv, Init
<1>11. RemoteInv
  BY <1>1, <1>10 DEF RemoteInv, RemoteAt, Settled, Init
<1>12. FindInv
  <2>1. /\ DOMAIN find = {"pc", "chunks", "hits", "seen"}
        /\ find.chunks = {} /\ find.hits = {} /\ find.seen = {} /\ find.pc = "idle"
    BY DEF Init, NoSearch
  <2> QED
    BY <2>1, FS_EmptySet, RepoIndexAssumption DEF FindInv
<1> QED
  BY <1>7, <1>8, <1>10, <1>11, <1>12 DEF IndexInv

LEMMA IndexNext == IndexInv /\ [Next]_vars => IndexInv'
<1> SUFFICES ASSUME IndexInv, [Next]_vars PROVE IndexInv'
  OBVIOUS
<1>1. ASSUME NEW c \in Syncs, NEW r \in Requests, SyncApplies(c, r) PROVE IndexInv'
  BY <1>1, SyncAppliesInv
<1>2. ASSUME NEW c \in Syncs, SyncDeletes(c) PROVE IndexInv'
  BY <1>2, SyncDeletesInv
<1>3. ASSUME NEW c \in Syncs, SyncUpserts(c) PROVE IndexInv'
  BY <1>3, SyncUpsertsInv
<1>4. ASSUME NEW c \in Syncs, SyncReturns(c) PROVE IndexInv'
  BY <1>4, SyncReturnsInv
<1>5. ASSUME NEW mode \in Modes, SearchBegins(mode) PROVE IndexInv'
  BY <1>5, SearchBeginsInv
<1>6. CASE SearchRemote
  BY <1>6, SearchRemoteInv
<1>7. CASE SearchLocal
  BY <1>7, SearchLocalInv
<1>8. CASE SearchExpands
  BY <1>8, SearchExpandsInv
<1>9. CASE UNCHANGED vars
  <2>1. FindInv'
    BY <1>9 DEF IndexInv, FindInv, vars
  <2> QED
    BY <1>9, <2>1, FindStep DEF vars, graph, drift
<1> QED
  BY <1>1, <1>2, <1>3, <1>4, <1>5, <1>6, <1>7, <1>8, <1>9 DEF Next, Rest

LEMMA IndexAlways == Spec => []IndexInv
BY IndexInit, IndexNext, PTL DEF Spec

-----------------------------------------------------------------------------
(* The theorems.                                                           *)

\* Once no Sync is under way (the remote loops of index.go after the unlock), the
\* remote points are the chunks of the store with the vectors of their texts,
\* except for ids whose remote call failed, was not made or overlapped another
\* call's, and for the orphans.  Each such id is shown to be in at most one call's
\* list while it is waiting, and the last chunk with it there to be the store's.
THEOREM RemoteIndexFollows == Spec => []RemoteFollows
<1>1. IndexInv => RemoteFollows
  <2> SUFFICES ASSUME IndexInv, \A c \in Syncs : call[c].pc \in {"idle", "ok", "error"},
                      NEW i \in Ids \ spoiled
               PROVE  /\ i \in DOMAIN store => i \in DOMAIN remote /\ remote[i] = store[i].chunk.text
                      /\ i \in DOMAIN remote => i \in DOMAIN store \cup orphans
    BY DEF RemoteFollows
  <2>1. \A c \in Syncs : i \notin Pending(call[c])
    BY DEF IndexInv, CallInv
  <2>2. RemoteAt(i, call, store, remote, orphans)
    BY DEF IndexInv, RemoteInv
  <2>3. Settled(i, store, remote, orphans)
    BY <2>1, <2>2 DEF RemoteAt
  <2> QED
    BY <2>3 DEF Settled
<1> QED
  BY <1>1, IndexAlways, PTL

\* The import graph of index.go, kept by updateGraphLocked and removeGraphLocked,
\* differs from the chunks of the store only for the causes GraphDrift names.
THEOREM GraphDriftIsExplained == Spec => []GraphDrift
<1>1. IndexInv => GraphDrift
  <2> SUFFICES ASSUME IndexInv PROVE GraphDrift
    OBVIOUS
  <2>1. StoreInv(store) /\ GraphType(Memory) /\ EdgesInv(Memory) /\ SymbolsInv(Memory)
    BY MemoryFields DEF IndexInv, MemoryInv
  <2>2. ASSUME NEW p \in Paths PROVE Imports(p) = Imported(store, p)
    <3>1. \A i \in DOMAIN store : store[i].chunk.imports \in SUBSET Paths
      BY <2>1 DEF StoreInv, Chunks
    <3> QED
      BY <3>1 DEF Imports, Imported, Objects
  <2>3. ASSUME NEW p \in Paths, NEW s \in Symbols
        PROVE  /\ Graph(p, s).imports = Listed(imports[p])
               /\ Graph(p, s).importedBy = importedBy[p]
               /\ Graph(p, s).chunk = symbols[s]
    BY DEF Graph, Related, Listed
  <2>4. \A p \in Paths :
          /\ ~(Listed(imports[p]) \subseteq Imports(p)) => p \in moved
          /\ Listed(imports[p]) # Imports(p) => p \in removed \cup crowded \cup moved
    BY <2>1, <2>2, MemoryFields DEF EdgesInv
  <2>5. \A p, q \in Paths :
          /\ p \in Imports(q) /\ q \notin importedBy[p] => q \in removed
          /\ q \in importedBy[p] /\ p \notin Imports(q) => q \in rewritten
    BY <2>1, <2>2, MemoryFields DEF EdgesInv
  <2>6. \A s \in Symbols : symbols[s] # None /\ s \notin rewritten =>
          symbols[s] \in DOMAIN store /\ store[symbols[s]].chunk.symbol = s
    BY <2>1, MemoryFields DEF SymbolsInv
  <2>7. ASSUME NEW p \in Paths, NEW s \in Symbols, NEW answer, answer = Graph(p, s)
        PROVE  /\ ~(answer.imports \subseteq Imports(p)) => p \in moved
               /\ answer.imports # Imports(p) => p \in removed \cup crowded \cup moved
               /\ \A q \in Paths :
                    /\ p \in Imports(q) /\ q \notin answer.importedBy => q \in removed
                    /\ q \in answer.importedBy /\ p \notin Imports(q) => q \in rewritten
               /\ answer.chunk # None /\ s \notin rewritten =>
                    answer.chunk \in DOMAIN store /\ store[answer.chunk].chunk.symbol = s
    BY <2>3, <2>4, <2>5, <2>6, <2>7
  <2> QED
    BY <2>7 DEF GraphDrift
<1> QED
  BY <1>1, IndexAlways, PTL

\* The segments expandOversizedChunks makes of one chunk stand together in the
\* store until the client deletes or replaces the chunk, or lists its id without
\* theirs in keep_ids.
THEOREM SegmentsStandTogether == Spec => []SegmentsDrift
<1>1. IndexInv => SegmentsDrift
  <2> SUFFICES ASSUME IndexInv PROVE SegmentsDrift
    OBVIOUS
  <2>1. ASSUME NEW n \in Names, NEW i \in 1..(Segments - 1), n \notin stale \cup dropped
        PROVE  /\ <<n, 0>> \in DOMAIN store /\ store[<<n, 0>>].chunk.big => <<n, i>> \in DOMAIN store
               /\ <<n, i>> \in DOMAIN store =>
                    /\ <<n, 0>> \in DOMAIN store
                    /\ store[<<n, 0>>].chunk.text = store[<<n, i>>].chunk.text
    BY <2>1 DEF IndexInv, SegmentsInv
  <2> SUFFICES ASSUME NEW n \in Names, NEW i \in 1..(Segments - 1), n \notin stale \cup dropped
               PROVE  /\ <<n, 0>> \in DOMAIN store /\ store[<<n, 0>>].chunk.big
                            => <<n, i>> \in DOMAIN store
                      /\ <<n, i>> \in DOMAIN store =>
                           /\ <<n, 0>> \in DOMAIN store
                           /\ store[<<n, 0>>].chunk.text = store[<<n, i>>].chunk.text
    BY Zenon DEF SegmentsDrift
  <2> QED
    BY <2>1
<1> QED
  BY <1>1, IndexAlways, PTL

\* Search, which ranks a copy of the chunks without the lock and expands its hits
\* by the graph of a later moment, answers chunks that were in the store during the
\* search, each once, within the limit; and embedding writes no vector to a chunk
\* of another text.
THEOREM FoundChunksAreIndexed == Spec => []FoundIsIndexed
<1>1. IndexInv => FoundIsIndexed
  <2> SUFFICES ASSUME IndexInv PROVE FoundIsIndexed
    OBVIOUS
  <2>1. StoreInv(store) /\ FindInv
    BY MemoryFields DEF IndexInv, MemoryInv
  <2> QED
    BY <2>1 DEF FoundIsIndexed, StoreInv, FindInv
<1> QED
  BY <1>1, IndexAlways, PTL

-----------------------------------------------------------------------------
(* The segments of an oversized chunk (TextSplit, index_split.go).         *)

\* A set of numbers up to L that is not empty has a greatest one.
LEMMA GreatestOf ==
    ASSUME NEW L \in Nat, NEW S \in SUBSET (0..L), S # {}
    PROVE  Max(S) \in S /\ \A y \in S : Max(S) >= y
<1> DEFINE T == {L - x : x \in S}
<1>1. T \in SUBSET Nat /\ T # {}
  <2>1. \A x \in S : L - x \in Nat
    OBVIOUS
  <2>2. PICK x \in S : TRUE
    OBVIOUS
  <2>3. L - x \in T
    BY <2>2
  <2> QED
    BY <2>1, <2>3
<1>2. PICK n \in T : \A m \in T : n <= m
  BY <1>1, LeastNat
<1>3. PICK x \in S : n = L - x
  BY <1>2
<1>4. \A y \in S : x >= y
  <2> SUFFICES ASSUME NEW y \in S PROVE x >= y
    OBVIOUS
  <2>1. n <= L - y
    BY <1>2
  <2>2. x \in Nat /\ y \in Nat /\ n = L - x
    BY <1>3
  <2> HIDE DEF T
  <2> QED
    BY <2>1, <2>2
<1> HIDE DEF T
<1>5. \E z \in S : \A y \in S : z >= y
  BY <1>4
<1> QED
  BY <1>5 DEF Max

LEMMA GreaterOfTwo ==
    ASSUME NEW a \in Int, NEW b \in Int
    PROVE  Max({a, b}) = IF a >= b THEN a ELSE b
<1>1. CASE a >= b
  <2>1. \A z \in {a, b} : (\A y \in {a, b} : z >= y) <=> z = a
    BY <1>1
  <2> QED
    BY <1>1, <2>1 DEF Max
<1>2. CASE ~(a >= b)
  <2>1. \A z \in {a, b} : (\A y \in {a, b} : z >= y) <=> z = b
    BY <1>2
  <2> QED
    BY <1>2, <2>1 DEF Max
<1> QED
  BY <1>1, <1>2

\* A window is empty or ends at a line of the chunk, not before its first one.
LEMMA WindowIs ==
    ASSUME NEW lines, NEW max, Len(lines) \in Nat, NEW start \in 1..Len(lines)
    PROVE  Window(lines, start, max) \in {0} \cup start..Len(lines)
<1> DEFINE S == {0} \cup {e \in start..Len(lines) : Bytes(lines, start, e) <= max}
<1>1. S \in SUBSET (0..Len(lines)) /\ S # {} /\ S \subseteq {0} \cup start..Len(lines)
  OBVIOUS
<1> HIDE DEF S
<1>2. Max(S) \in S
  BY <1>1, GreatestOf
<1> QED
  BY <1>1, <1>2 DEF Window, S

\* One segment: it is of lines of the chunk, and the next one begins at the line after
\* it, before that, or behind the chunk if it has the last line.
LEMMA OneSegment ==
    ASSUME NEW lines, NEW max, Len(lines) \in Nat, NEW start \in 1..Len(lines)
    PROVE  LET last == Max({start, Window(lines, start, max)})
               next == NextStart(lines, start, max)
           IN  /\ last \in start..Len(lines)
               /\ next \in 1..(last + 1)
               /\ next > Len(lines) => last = Len(lines)
<1> DEFINE e == Window(lines, start, max)
           last == Max({start, e})
           next == NextStart(lines, start, max)
<1>1. e = 0 \/ e \in start..Len(lines)
  BY WindowIs
<1>2. start \in Int /\ e \in Int /\ start >= 1
  BY <1>1
<1>3. next = IF e = 0 THEN start + 1
             ELSE IF e >= Len(lines) THEN Len(lines) + 1
             ELSE Max({1, e + 1 - ChunkOverlap})
  BY DEF NextStart
<1> HIDE DEF e
<1>4. last = IF start >= e THEN start ELSE e
  BY <1>2, GreaterOfTwo
<1>5. ChunkOverlap \in Nat
  BY TextSplitAssumption
<1>6. 1 \in Int /\ e + 1 - ChunkOverlap \in Int
  BY <1>2, <1>5
<1>7. Max({1, e + 1 - ChunkOverlap}) = IF 1 >= e + 1 - ChunkOverlap THEN 1 ELSE e + 1 - ChunkOverlap
  BY <1>6, GreaterOfTwo
<1> HIDE DEF last, next
<1>8. /\ last \in start..Len(lines)
      /\ next \in 1..(last + 1)
      /\ next > Len(lines) => last = Len(lines)
  BY <1>1, <1>2, <1>3, <1>4, <1>5, <1>7
<1> QED
  BY <1>8 DEF last, next, e

NoSegment == [start |-> 1, out |-> <<>>]

\* The segments and the place of the next one after one more step.
SegmentStep(lines, max, st) ==
    IF st.start > Len(lines) THEN st
    ELSE [start |-> NextStart(lines, st.start, max),
          out |-> Append(st.out, <<st.start, Max({st.start, Window(lines, st.start, max)})>>)]

LEMMA SegmentsDefined ==
    ASSUME NEW lines, NEW max, NEW L \in Nat
    PROVE  \E f : f = [n \in 0..L |-> IF n = 0 THEN NoSegment
                                      ELSE SegmentStep(lines, max, f[n - 1])]
<1> DEFINE T == {l \in Nat : \E f :
                   f = [n \in 0..l |-> IF n = 0 THEN NoSegment
                                       ELSE SegmentStep(lines, max, f[n - 1])]}
<1>1. 0 \in T
  <2> DEFINE f == [n \in 0..0 |-> NoSegment]
  <2>1. f = [n \in 0..0 |-> IF n = 0 THEN NoSegment
                            ELSE SegmentStep(lines, max, f[n - 1])]
    OBVIOUS
  <2> QED
    BY <2>1
<1>2. ASSUME NEW l \in 1..L, l - 1 \in T PROVE l \in T
  <2>1. PICK g : g = [n \in 0..(l - 1) |-> IF n = 0 THEN NoSegment
                                           ELSE SegmentStep(lines, max, g[n - 1])]
    BY <1>2
  <2> DEFINE f == [n \in 0..l |-> IF n = l THEN SegmentStep(lines, max, g[l - 1]) ELSE g[n]]
  <2>2. f = [n \in 0..l |-> IF n = 0 THEN NoSegment
                            ELSE SegmentStep(lines, max, f[n - 1])]
    <3>1. ASSUME NEW n \in 0..l
          PROVE  f[n] = IF n = 0 THEN NoSegment
                        ELSE SegmentStep(lines, max, f[n - 1])
      <4>1. CASE n = l
        BY <4>1
      <4>2. CASE n # l
        <5>1. n \in 0..(l - 1) /\ f[n] = g[n]
          BY <4>2
        <5>2. n # 0 => f[n - 1] = g[n - 1]
          BY <5>1
        <5> QED
          BY <2>1, <5>1, <5>2
      <4> QED
        BY <4>1, <4>2
    <3> QED
      BY <3>1
  <2> HIDE DEF f
  <2>3. l \in Nat
    BY <1>2
  <2> QED
    BY <2>2, <2>3
<1> HIDE DEF T
<1>3. L \in T
  BY <1>1, <1>2, UpTo
<1> QED
  BY <1>3 DEF T

\* splitChunkLines cuts one segment after the other.
LEMMA SegmentsOneByOne ==
    ASSUME NEW lines, NEW max
    PROVE  \E f : /\ f[0] = NoSegment
                  /\ \A n \in 1..MaxSegments : f[n] = SegmentStep(lines, max, f[n - 1])
                  /\ splitChunkLines(lines, max) = f[MaxSegments].out
<1> DEFINE L == MaxSegments
           go == CHOOSE f : f = [n \in 0..L |->
                                   IF n = 0 THEN NoSegment
                                   ELSE SegmentStep(lines, max, f[n - 1])]
<1>1. L \in Nat
  BY TextSplitAssumption
<1>2. splitChunkLines(lines, max) = go[L].out
  BY DEF splitChunkLines, SegmentStep, NoSegment
<1>3. go = [n \in 0..L |-> IF n = 0 THEN NoSegment
                           ELSE SegmentStep(lines, max, go[n - 1])]
  BY <1>1, SegmentsDefined
<1> HIDE DEF go, L
<1>4. go[0] = NoSegment
  BY <1>1, <1>3
<1>5. ASSUME NEW n \in 1..L PROVE go[n] = SegmentStep(lines, max, go[n - 1])
  <2>1. n \in 0..L /\ n # 0
    BY <1>1
  <2> QED
    BY <1>3, <2>1
<1> QED
  BY <1>2, <1>4, <1>5 DEF L

\* What holds of them after n steps: the segments are of lines of the chunk, they cover
\* the first lines up to one behind which the next segment does not begin, and as long
\* as no window stalls the segments begin further and further back.
SegmentsSoFar(lines, max, st, n) ==
    /\ st.start \in Nat \ {0}
    /\ st.out \in Seq(Nat \X Nat)
    /\ Len(st.out) <= n
    /\ st.start > Len(lines) \/ Len(st.out) = n
    /\ \A i \in 1..Len(st.out) : /\ st.out[i][1] \in 1..Len(lines)
                                 /\ st.out[i][2] \in st.out[i][1]..Len(lines)
    /\ \E k \in 0..Len(lines) :
          /\ st.start <= k + 1
          /\ \A x \in Nat : x \in 1..k <=> \E i \in 1..Len(st.out) : x \in st.out[i][1]..st.out[i][2]
    /\ (\A i \in 1..Len(st.out) : st.out[i][1] < NextStart(lines, st.out[i][1], max)) =>
          /\ \A i \in 1..Len(st.out) : st.out[i][1] < st.start
          /\ \A i, j \in 1..Len(st.out) : i < j => st.out[i][1] < st.out[j][1]

LEMMA AppendedIs ==
    ASSUME NEW S, NEW s \in Seq(S), NEW e \in S
    PROVE  /\ Append(s, e) \in Seq(S)
           /\ Len(Append(s, e)) = Len(s) + 1
           /\ Append(s, e)[Len(s) + 1] = e
           /\ \A i \in 1..Len(s) : Append(s, e)[i] = s[i]
  OBVIOUS

LEMMA SegmentsFirst ==
    ASSUME NEW lines, NEW max, Len(lines) \in Nat
    PROVE  SegmentsSoFar(lines, max, NoSegment, 0)
<1>t. PICK t : t = NoSegment
  OBVIOUS
<1>1. t.start = 1 /\ t.out = <<>> /\ Len(t.out) = 0 /\ t.out \in Seq(Nat \X Nat)
  BY <1>t DEF NoSegment
<1>2. \E k \in 0..Len(lines) :
          /\ t.start <= k + 1
          /\ \A x \in Nat : x \in 1..k <=> \E i \in 1..Len(t.out) : x \in t.out[i][1]..t.out[i][2]
  <2>1. 0 \in 0..Len(lines) /\ t.start <= 0 + 1
    BY <1>1
  <2>2. \A x \in Nat : ~(x \in 1..0) /\ ~\E i \in 1..Len(t.out) : x \in t.out[i][1]..t.out[i][2]
    BY <1>1
  <2> QED
    BY <2>1, <2>2
<1>3. \A i : i \notin 1..Len(t.out)
  BY <1>1
<1>4. SegmentsSoFar(lines, max, t, 0)
  BY <1>1, <1>2, <1>3 DEF SegmentsSoFar
<1> QED
  BY <1>4, <1>t

LEMMA SegmentsNext ==
    ASSUME NEW lines, NEW max, Len(lines) \in Nat, NEW n \in Nat, NEW st,
           SegmentsSoFar(lines, max, st, n)
    PROVE  SegmentsSoFar(lines, max, SegmentStep(lines, max, st), n + 1)
<1>1. CASE st.start > Len(lines)
  <2>1. SegmentStep(lines, max, st) = st
    BY <1>1 DEF SegmentStep
  <2>2. Len(st.out) \in Nat /\ Len(st.out) <= n
    BY DEF SegmentsSoFar
  <2>3. Len(st.out) <= n + 1
    BY <2>2
  <2>4. SegmentsSoFar(lines, max, st, n + 1)
    BY <1>1, <2>3 DEF SegmentsSoFar
  <2> QED
    BY <2>1, <2>4
<1>2. CASE ~(st.start > Len(lines))
  <2>s. PICK s : s = st.start
    OBVIOUS
  <2>o. PICK o : o = st.out
    OBVIOUS
  <2>1. s \in 1..Len(lines) /\ o \in Seq(Nat \X Nat) /\ Len(o) = n
    BY <1>2, <2>s, <2>o, SMTT(30) DEF SegmentsSoFar
  <2>l. PICK last : last = Max({s, Window(lines, s, max)})
    OBVIOUS
  <2>x. PICK next : next = NextStart(lines, s, max)
    OBVIOUS
  <2>2. last \in s..Len(lines) /\ next \in 1..(last + 1) /\ (next > Len(lines) => last = Len(lines))
    BY <2>1, <2>l, <2>x, OneSegment
  <2>i. s \in Nat /\ last \in Nat /\ next \in Nat /\ s >= 1
    BY <2>1, <2>2
  <2>q. PICK q \in Nat \X Nat : q = <<s, last>>
    BY <2>i
  <2>p. PICK p \in Seq(Nat \X Nat) : p = Append(o, q)
    BY <2>1, AppendedIs
  <2>t. PICK t : t = [start |-> next, out |-> p]
    OBVIOUS
  <2>3. SegmentStep(lines, max, st) = t
    BY <1>2, <2>s, <2>o, <2>l, <2>x, <2>q, <2>p, <2>t DEF SegmentStep
  <2>4. t.start = next /\ t.out = p
    BY <2>t
  <2>5. Len(p) = n + 1 /\ p[n + 1] = q /\ \A i \in 1..n : p[i] = o[i]
    BY <2>1, <2>p, AppendedIs
  <2>6. q[1] = s /\ q[2] = last
    BY <2>q
  <2>7. \A i \in 1..(n + 1) : i \in 1..n \/ i = n + 1
    OBVIOUS
  <2>8. t.start \in Nat \ {0} /\ t.out \in Seq(Nat \X Nat) /\ Len(t.out) = n + 1
    BY <2>2, <2>4, <2>5
  <2>9. \A i \in 1..Len(t.out) : t.out[i][1] \in 1..Len(lines) /\ t.out[i][2] \in t.out[i][1]..Len(lines)
    <3>1. \A i \in 1..n : o[i][1] \in 1..Len(lines) /\ o[i][2] \in o[i][1]..Len(lines)
      BY <2>1, <2>o DEF SegmentsSoFar
    <3>2. q[1] \in 1..Len(lines) /\ q[2] \in q[1]..Len(lines)
      BY <2>1, <2>2, <2>6
    <3> QED
      BY <3>1, <3>2, <2>4, <2>5, <2>7
  <2>10. \E k \in 0..Len(lines) :
          /\ t.start <= k + 1
          /\ \A x \in Nat : x \in 1..k <=> \E i \in 1..Len(t.out) : x \in t.out[i][1]..t.out[i][2]
    <3>1. PICK k \in 0..Len(lines) :
            /\ s <= k + 1
            /\ \A x \in Nat : x \in 1..k <=> \E i \in 1..n : x \in o[i][1]..o[i][2]
      BY <2>1, <2>s, <2>o DEF SegmentsSoFar
    <3>m. PICK m \in 0..Len(lines) : m = IF last > k THEN last ELSE k
      BY <2>1, <2>2
    <3>2. next <= m + 1
      BY <2>2, <3>m
    <3>3. ASSUME NEW x \in Nat
          PROVE  x \in 1..m <=> \E i \in 1..(n + 1) : x \in p[i][1]..p[i][2]
      <4>1. x \in 1..m <=> x \in 1..k \/ x \in s..last
        BY <2>2, <2>i, <3>1, <3>m
      <4>2. (\E i \in 1..(n + 1) : x \in p[i][1]..p[i][2])
              <=> (\E i \in 1..n : x \in o[i][1]..o[i][2]) \/ x \in s..last
        <5>1. ASSUME NEW i \in 1..(n + 1), x \in p[i][1]..p[i][2]
              PROVE  (\E j \in 1..n : x \in o[j][1]..o[j][2]) \/ x \in s..last
          BY <5>1, <2>5, <2>6, <2>7
        <5>2. ASSUME NEW i \in 1..n, x \in o[i][1]..o[i][2]
              PROVE  \E j \in 1..(n + 1) : x \in p[j][1]..p[j][2]
          <6>1. i \in 1..(n + 1)
            OBVIOUS
          <6> QED
            BY <5>2, <6>1, <2>5
        <5>3. ASSUME x \in s..last PROVE \E j \in 1..(n + 1) : x \in p[j][1]..p[j][2]
          <6>1. n + 1 \in 1..(n + 1)
            OBVIOUS
          <6> QED
            BY <5>3, <6>1, <2>5, <2>6
        <5> QED
          BY <5>1, <5>2, <5>3
      <4> QED
        BY <3>1, <4>1, <4>2
    <3> QED
      BY <2>4, <2>5, <3>2, <3>3
  <2>11. ASSUME \A i \in 1..Len(t.out) : t.out[i][1] < NextStart(lines, t.out[i][1], max)
         PROVE  /\ \A i \in 1..Len(t.out) : t.out[i][1] < t.start
                /\ \A i, j \in 1..Len(t.out) : i < j => t.out[i][1] < t.out[j][1]
    <3>1. \A i \in 1..(n + 1) : p[i][1] < NextStart(lines, p[i][1], max)
      BY <2>11, <2>4, <2>5
    <3>2. \A i \in 1..n : o[i][1] < NextStart(lines, o[i][1], max)
      <4> SUFFICES ASSUME NEW i \in 1..n PROVE o[i][1] < NextStart(lines, o[i][1], max)
        OBVIOUS
      <4>1. i \in 1..(n + 1)
        OBVIOUS
      <4> QED
        BY <3>1, <4>1, <2>5
    <3>3. s < next
      <4>1. n + 1 \in 1..(n + 1)
        OBVIOUS
      <4> QED
        BY <3>1, <4>1, <2>5, <2>6, <2>x
    <3>4. /\ \A i \in 1..n : o[i][1] < s
          /\ \A i, j \in 1..n : i < j => o[i][1] < o[j][1]
      BY <3>2, <2>1, <2>s, <2>o DEF SegmentsSoFar
    <3>5. \A i \in 1..n : o[i][1] \in Int
      BY <2>1
    <3>6. ASSUME NEW i \in 1..(n + 1) PROVE p[i][1] < next
      <4>1. CASE i \in 1..n
        <5>1. p[i][1] = o[i][1] /\ o[i][1] < s /\ o[i][1] \in Int
          BY <4>1, <2>5, <3>4, <3>5
        <5> QED
          BY <5>1, <2>i, <3>3
      <4>2. CASE i = n + 1
        BY <4>2, <2>5, <2>6, <3>3
      <4> QED
        BY <4>1, <4>2, <2>7
    <3>7. ASSUME NEW i \in 1..(n + 1), NEW j \in 1..(n + 1), i < j PROVE p[i][1] < p[j][1]
      <4>1. i \in 1..n
        BY <3>7
      <4>2. CASE j \in 1..n
        BY <3>7, <4>1, <4>2, <2>5, <3>4
      <4>3. CASE j = n + 1
        BY <4>1, <4>3, <2>5, <2>6, <3>4
      <4> QED
        BY <4>2, <4>3, <2>7
    <3> QED
      BY <2>4, <2>5, <3>6, <3>7
  <2>12. SegmentsSoFar(lines, max, t, n + 1)
    <3>1. Len(t.out) <= n + 1 /\ Len(t.out) = n + 1
      BY <2>8
    <3> QED
      BY <3>1, <2>8, <2>9, <2>10, <2>11 DEF SegmentsSoFar
  <2> QED
    BY <2>3, <2>12
<1> QED
  BY <1>1, <1>2

LEMMA SegmentsAll ==
    ASSUME NEW lines, NEW max, Len(lines) \in Nat
    PROVE  \E st : /\ splitChunkLines(lines, max) = st.out
                   /\ SegmentsSoFar(lines, max, st, MaxSegments)
<1>f. PICK f : /\ f[0] = NoSegment
               /\ \A n \in 1..MaxSegments : f[n] = SegmentStep(lines, max, f[n - 1])
               /\ splitChunkLines(lines, max) = f[MaxSegments].out
  BY SegmentsOneByOne
<1>m. MaxSegments \in Nat
  BY TextSplitAssumption
<1> DEFINE T == {n \in Nat : SegmentsSoFar(lines, max, f[n], n)}
<1>1. 0 \in T
  BY <1>f, SegmentsFirst
<1>2. ASSUME NEW n \in 1..MaxSegments, n - 1 \in T PROVE n \in T
  <2>1. n - 1 \in Nat /\ n \in Nat /\ (n - 1) + 1 = n
    BY <1>2
  <2>2. SegmentsSoFar(lines, max, f[n - 1], n - 1)
    BY <1>2
  <2>3. SegmentsSoFar(lines, max, SegmentStep(lines, max, f[n - 1]), (n - 1) + 1)
    BY <2>1, <2>2, SegmentsNext
  <2>4. f[n] = SegmentStep(lines, max, f[n - 1])
    BY <1>f
  <2> QED
    BY <2>1, <2>3, <2>4
<1> HIDE DEF T
<1>3. MaxSegments \in T
  BY <1>1, <1>2, <1>m, UpTo
<1> QED
  BY <1>3, <1>f DEF T

\* What the segments of a chunk are even if a window stalls: no more than MaxSegments,
\* each of lines of the chunk, and together its first lines with none left out.
SegmentsOfLines(lines, segs) ==
    /\ Len(segs) <= MaxSegments
    /\ \A s \in ToSet(segs) : 1 <= s[1] /\ s[1] <= s[2] /\ s[2] <= Len(lines)
    /\ \E k \in 0..Len(lines) : UNION {s[1]..s[2] : s \in ToSet(segs)} = 1..k

\* splitChunkLines for every chunk, limit, overlap and number of segments: every line is
\* in a segment and no segment comes twice, unless MaxSegments is reached or a window
\* holds so few lines that the overlap takes them all back; and even then the
\* segments have no gap.
THEOREM SegmentsCoverTheLines ==
    \A lines \in Seq(Nat), max \in Nat :
       /\ SegmentsCover(lines, max, splitChunkLines(lines, max))
       /\ SegmentsOfLines(lines, splitChunkLines(lines, max))
<1> SUFFICES ASSUME NEW lines \in Seq(Nat), NEW max \in Nat
             PROVE  /\ SegmentsCover(lines, max, splitChunkLines(lines, max))
                    /\ SegmentsOfLines(lines, splitChunkLines(lines, max))
  OBVIOUS
<1>0. Len(lines) \in Nat /\ DOMAIN lines = 1..Len(lines)
  OBVIOUS
<1>s. PICK st : splitChunkLines(lines, max) = st.out /\ SegmentsSoFar(lines, max, st, MaxSegments)
  BY <1>0, SegmentsAll
<1>o. PICK o \in Seq(Nat \X Nat) : o = st.out
  BY <1>s DEF SegmentsSoFar
<1>1. Len(o) \in Nat /\ DOMAIN o = 1..Len(o)
  OBVIOUS
<1>2. ToSet(o) = {o[i] : i \in 1..Len(o)}
  BY <1>1 DEF ToSet
<1>3. \A i \in 1..Len(o) : o[i] \in Nat \X Nat /\ o[i][1] \in Nat /\ o[i][2] \in Nat
  OBVIOUS
<1> DEFINE covered == UNION {s[1]..s[2] : s \in ToSet(o)}
<1>4. \A x : x \in covered <=> \E i \in 1..Len(o) : x \in o[i][1]..o[i][2]
  BY <1>2
<1>5. covered \in SUBSET Nat
  <2> SUFFICES ASSUME NEW x \in covered PROVE x \in Nat
    OBVIOUS
  <2>1. PICK i \in 1..Len(o) : x \in o[i][1]..o[i][2]
    BY <1>4
  <2> QED
    BY <1>3, <2>1
<1> HIDE DEF covered
<1>6. PICK k \in 0..Len(lines) :
        /\ st.start <= k + 1
        /\ \A x \in Nat : x \in 1..k <=> \E i \in 1..Len(o) : x \in o[i][1]..o[i][2]
  BY <1>s, <1>o DEF SegmentsSoFar
<1>7. covered = 1..k
  <2>1. \A x \in 1..k : x \in Nat
    BY <1>6
  <2>2. \A x \in Nat : x \in covered <=> x \in 1..k
    BY <1>4, <1>6
  <2> QED
    BY <1>5, <2>1, <2>2
<1>8. SegmentsOfLines(lines, o)
  <2>1. Len(o) <= MaxSegments
    BY <1>s, <1>o DEF SegmentsSoFar
  <2>2. \A i \in 1..Len(o) : o[i][1] \in 1..Len(lines) /\ o[i][2] \in o[i][1]..Len(lines)
    BY <1>s, <1>o DEF SegmentsSoFar
  <2>3. \A s \in ToSet(o) : 1 <= s[1] /\ s[1] <= s[2] /\ s[2] <= Len(lines)
    BY <1>0, <1>2, <2>2
  <2> QED
    BY <1>7, <2>1, <2>3 DEF SegmentsOfLines, covered
<1>9. SegmentsCover(lines, max, o)
  <2> SUFFICES ASSUME ~\E s \in ToSet(o) : NextStart(lines, s[1], max) <= s[1]
               PROVE  IsInjective(o) /\ (covered = DOMAIN lines \/ Len(o) = MaxSegments)
    BY DEF SegmentsCover, covered
  <2>1. \A i \in 1..Len(o) : o[i][1] < NextStart(lines, o[i][1], max)
    <3> SUFFICES ASSUME NEW i \in 1..Len(o) PROVE o[i][1] < NextStart(lines, o[i][1], max)
      OBVIOUS
    <3>1. ~(NextStart(lines, o[i][1], max) <= o[i][1])
      BY <1>2
    <3>2. o[i][1] \in 1..Len(lines)
      BY <1>s, <1>o DEF SegmentsSoFar
    <3>3. NextStart(lines, o[i][1], max) \in Int /\ o[i][1] \in Int
      <4>1. PICK a : a = Max({o[i][1], Window(lines, o[i][1], max)})
        OBVIOUS
      <4>2. a \in o[i][1]..Len(lines) /\ NextStart(lines, o[i][1], max) \in 1..(a + 1)
        BY <1>0, <3>2, <4>1, OneSegment
      <4> QED
        BY <3>2, <4>2
    <3> QED
      BY <3>1, <3>3
  <2>2. \A i, j \in 1..Len(o) : i < j => o[i][1] < o[j][1]
    BY <2>1, <1>s, <1>o DEF SegmentsSoFar
  <2>3. IsInjective(o)
    <3> SUFFICES ASSUME NEW i \in 1..Len(o), NEW j \in 1..Len(o), o[i] = o[j] PROVE i = j
      BY <1>1 DEF IsInjective
    <3>1. ~(i < j) /\ ~(j < i)
      BY <1>3, <2>2, SMTT(30)
    <3> QED
      BY <1>1, <3>1
  <2>4. covered = DOMAIN lines \/ Len(o) = MaxSegments
    <3>a. PICK a \in Nat : a = st.start
      BY <1>s DEF SegmentsSoFar
    <3>1. a > Len(lines) \/ Len(o) = MaxSegments
      BY <1>s, <1>o, <3>a DEF SegmentsSoFar
    <3>2. CASE a > Len(lines)
      <4>1. k = Len(lines)
        <5>l. PICK l \in Nat : l = Len(lines)
          BY <1>0
        <5>1. k \in 0..l /\ a <= k + 1 /\ a > l
          BY <1>6, <3>a, <3>2, <5>l
        <5>2. k = l
          BY <5>1
        <5> QED
          BY <5>2, <5>l
      <4> QED
        BY <1>0, <1>7, <4>1
    <3> QED
      BY <3>1, <3>2
  <2> QED
    BY <2>3, <2>4
<1> QED
  BY <1>8, <1>9, <1>s, <1>o

=============================================================================
