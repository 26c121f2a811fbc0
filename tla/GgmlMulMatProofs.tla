-------------------------- MODULE GgmlMulMatProofs --------------------------
(***************************************************************************)
(* What GgmlMulMat promises, for every number of threads and every graph:  *)
(* chunks partition an output (first part), threads meet in the same       *)
(* barrier and read what is of their node (second), every chunk of every   *)
(* product is computed by exactly one thread (third).                      *)
(***************************************************************************)
EXTENDS GgmlMulMat, FiniteSetTheorems, TLAPS

-----------------------------------------------------------------------------
(* Chunks.                                                                 *)

LEMMA DivMod ==
    ASSUME NEW a \in Nat, NEW b \in Nat \ {0}
    PROVE  /\ a \div b \in Nat
           /\ a % b \in 0 .. b - 1
           /\ a = b * (a \div b) + (a % b)
OBVIOUS

LEMMA Quotient ==
    ASSUME NEW b \in Nat \ {0}, NEW q \in Nat, NEW m \in 0 .. b - 1
    PROVE  /\ (b * q + m) \div b = q
           /\ (b * q + m) % b = m
OBVIOUS

LEMMA Multiples ==
    ASSUME NEW d \in Nat, NEW x \in Nat, NEW y \in Nat, x < y
    PROVE  d * x + d <= d * y
OBVIOUS

LEMMA CeilDivCovers ==
    ASSUME NEW a \in Nat \ {0}, NEW b \in Nat \ {0}
    PROVE  /\ CeilDiv(a, b) \in Nat \ {0}
           /\ a <= CeilDiv(a, b) * b
BY DivMod DEF CeilDiv

(* The grid of chunks, and the size of one. *)
D0(r, c) == CeilDiv(r, NChunk0(r, c))
D1(r, c) == CeilDiv(c, NChunk1(r, c))

LEMMA Grid ==
    ASSUME NEW r \in Nat \ {0}, NEW c \in Nat \ {0}
    PROVE  /\ NChunk0(r, c) \in Nat \ {0} /\ NChunk1(r, c) \in Nat \ {0}
           /\ NChunks(r, c) \in Nat \ {0}
           /\ D0(r, c) \in Nat \ {0} /\ r <= D0(r, c) * NChunk0(r, c)
           /\ D1(r, c) \in Nat \ {0} /\ c <= D1(r, c) * NChunk1(r, c)
<1>1. Size(r, c) \in Nat \ {0}
  BY SizesAssumption DEF Size
<1>2. NChunk0(r, c) \in Nat \ {0} /\ NChunk1(r, c) \in Nat \ {0}
  BY <1>1, CeilDivCovers, NThreadsAssumption DEF NChunk0, NChunk1
<1>3. \A x, y \in Nat \ {0} : x * y \in Nat \ {0}
  OBVIOUS
<1>4. NChunks(r, c) \in Nat \ {0}
  BY <1>2, <1>3 DEF NChunks
<1> QED
  BY <1>2, <1>4, CeilDivCovers DEF D0, D1

(* The place of a chunk in the grid. *)
LEMMA Place ==
    ASSUME NEW r \in Nat \ {0}, NEW c \in Nat \ {0}, NEW k \in Nat
    PROVE  /\ k % NChunk0(r, c) \in Nat /\ k \div NChunk0(r, c) \in Nat
           /\ k = NChunk0(r, c) * (k \div NChunk0(r, c)) + (k % NChunk0(r, c))
           /\ D0(r, c) * (k % NChunk0(r, c)) \in Nat
           /\ D1(r, c) * (k \div NChunk0(r, c)) \in Nat
<1> DEFINE n == NChunk0(r, c)
           d0 == D0(r, c)
           d1 == D1(r, c)
<1>1. n \in Nat \ {0} /\ d0 \in Nat /\ d1 \in Nat
  BY Grid
<1> HIDE DEF n, d0, d1
<1>2. k % n \in Nat /\ k \div n \in Nat /\ k = n * (k \div n) + (k % n)
  BY <1>1, DivMod
<1>3. \A a, b \in Nat : a * b \in Nat
  OBVIOUS
<1>4. d0 * (k % n) \in Nat /\ d1 * (k \div n) \in Nat
  BY <1>1, <1>2, <1>3
<1> QED
  BY <1>2, <1>4 DEF n, d0, d1

(* Which rows and columns a chunk has. *)
LEMMA Rows0 ==
    ASSUME NEW r \in Nat \ {0}, NEW c \in Nat \ {0}, NEW k \in Nat, NEW i \in Int
    PROVE  i \in Range0(r, c, k)[1] .. Range0(r, c, k)[2] - 1
             <=> /\ D0(r, c) * (k % NChunk0(r, c)) <= i
                 /\ i < D0(r, c) * (k % NChunk0(r, c)) + D0(r, c)
                 /\ i < r
<1> DEFINE first == D0(r, c) * (k % NChunk0(r, c))
<1>1. first \in Nat /\ D0(r, c) \in Nat
  BY Grid, Place
<1>2. Range0(r, c, k) = <<first, IF first + D0(r, c) < r THEN first + D0(r, c) ELSE r>>
  BY DEF Range0, D0
<1> HIDE DEF first
<1>3. /\ Range0(r, c, k)[1] = first
      /\ Range0(r, c, k)[2] = IF first + D0(r, c) < r THEN first + D0(r, c) ELSE r
  BY <1>2
<1> QED
  BY <1>1, <1>3 DEF first

LEMMA Columns1 ==
    ASSUME NEW r \in Nat \ {0}, NEW c \in Nat \ {0}, NEW k \in Nat, NEW j \in Int
    PROVE  j \in Range1(r, c, k)[1] .. Range1(r, c, k)[2] - 1
             <=> /\ D1(r, c) * (k \div NChunk0(r, c)) <= j
                 /\ j < D1(r, c) * (k \div NChunk0(r, c)) + D1(r, c)
                 /\ j < c
<1> DEFINE first == D1(r, c) * (k \div NChunk0(r, c))
<1>1. first \in Nat /\ D1(r, c) \in Nat
  BY Grid, Place
<1>2. Range1(r, c, k) = <<first, IF first + D1(r, c) < c THEN first + D1(r, c) ELSE c>>
  BY DEF Range1, D1
<1> HIDE DEF first
<1>3. /\ Range1(r, c, k)[1] = first
      /\ Range1(r, c, k)[2] = IF first + D1(r, c) < c THEN first + D1(r, c) ELSE c
  BY <1>2
<1> QED
  BY <1>1, <1>3 DEF first

ChunkCells(r, c, k) ==
    (Range0(r, c, k)[1] .. Range0(r, c, k)[2] - 1)
        \X (Range1(r, c, k)[1] .. Range1(r, c, k)[2] - 1)

(* Two places that are less than d apart from two multiples of d ... *)
LEMMA OneMultiple ==
    ASSUME NEW d \in Nat, NEW x \in Nat, NEW y \in Nat, NEW i \in Int,
           d * x <= i, i < d * x + d, d * y <= i, i < d * y + d
    PROVE  x = y
<1>1. ~(x < y)
  <2> SUFFICES ASSUME x < y PROVE FALSE
    OBVIOUS
  <2>1. d * x + d <= d * y /\ d * x \in Nat /\ d * y \in Nat
    BY Multiples
  <2> QED
    BY <2>1
<1>2. ~(y < x)
  <2> SUFFICES ASSUME y < x PROVE FALSE
    OBVIOUS
  <2>1. d * y + d <= d * x /\ d * x \in Nat /\ d * y \in Nat
    BY Multiples
  <2> QED
    BY <2>1
<1> QED
  BY <1>1, <1>2

(* Chunks do not overlap, whatever their numbers. *)
LEMMA ChunksApart ==
    ASSUME NEW r \in Nat \ {0}, NEW c \in Nat \ {0}, NEW k \in Nat, NEW l \in Nat, k # l
    PROVE  ChunkCells(r, c, k) \cap ChunkCells(r, c, l) = {}
<1> SUFFICES ASSUME NEW i, NEW j, <<i, j>> \in ChunkCells(r, c, k), <<i, j>> \in ChunkCells(r, c, l)
             PROVE  FALSE
  BY DEF ChunkCells
<1> DEFINE n == NChunk0(r, c)
<1>0. /\ i \in Range0(r, c, k)[1] .. Range0(r, c, k)[2] - 1
      /\ j \in Range1(r, c, k)[1] .. Range1(r, c, k)[2] - 1
      /\ i \in Range0(r, c, l)[1] .. Range0(r, c, l)[2] - 1
      /\ j \in Range1(r, c, l)[1] .. Range1(r, c, l)[2] - 1
  BY DEF ChunkCells
<1>i. i \in Int /\ j \in Int
  BY <1>0
<1>1. /\ n \in Nat \ {0} /\ D0(r, c) \in Nat /\ D1(r, c) \in Nat
      /\ k % n \in Nat /\ l % n \in Nat /\ k \div n \in Nat /\ l \div n \in Nat
      /\ k = n * (k \div n) + (k % n) /\ l = n * (l \div n) + (l % n)
  BY Grid, Place
<1>2. k % n = l % n
  <2>1. /\ D0(r, c) * (k % n) <= i /\ i < D0(r, c) * (k % n) + D0(r, c)
        /\ D0(r, c) * (l % n) <= i /\ i < D0(r, c) * (l % n) + D0(r, c)
    BY <1>0, <1>i, Rows0
  <2> HIDE DEF n
  <2> QED
    BY <1>1, <1>i, <2>1, OneMultiple
<1>3. k \div n = l \div n
  <2>1. /\ D1(r, c) * (k \div n) <= j /\ j < D1(r, c) * (k \div n) + D1(r, c)
        /\ D1(r, c) * (l \div n) <= j /\ j < D1(r, c) * (l \div n) + D1(r, c)
    BY <1>0, <1>i, Columns1
  <2> HIDE DEF n
  <2> QED
    BY <1>1, <1>i, <2>1, OneMultiple
<1> QED
  BY <1>1, <1>2, <1>3

(* And together they are the whole output, and nothing else. *)
LEMMA ChunksInside ==
    ASSUME NEW r \in Nat \ {0}, NEW c \in Nat \ {0}, NEW k \in Nat
    PROVE  ChunkCells(r, c, k) \subseteq (0 .. r - 1) \X (0 .. c - 1)
<1> SUFFICES ASSUME NEW i, NEW j, <<i, j>> \in ChunkCells(r, c, k)
             PROVE  i \in 0 .. r - 1 /\ j \in 0 .. c - 1
  BY DEF ChunkCells
<1>0. /\ i \in Range0(r, c, k)[1] .. Range0(r, c, k)[2] - 1
      /\ j \in Range1(r, c, k)[1] .. Range1(r, c, k)[2] - 1
      /\ i \in Int /\ j \in Int
  BY DEF ChunkCells
<1>1. /\ D0(r, c) * (k % NChunk0(r, c)) \in Nat
      /\ D1(r, c) * (k \div NChunk0(r, c)) \in Nat
  BY Place
<1> QED
  BY <1>0, <1>1, Rows0, Columns1

(* Where an element is, in multiples of d. *)
LEMMA Located ==
    ASSUME NEW d \in Nat \ {0}, NEW n \in Nat \ {0}, NEW i \in Nat, i < d * n
    PROVE  /\ i \div d \in Nat /\ i \div d < n
           /\ d * (i \div d) <= i /\ i < d * (i \div d) + d
<1>1. i \div d \in Nat /\ d * (i \div d) <= i /\ i < d * (i \div d) + d
  BY DivMod
<1>2. i \div d < n
  <2> SUFFICES ASSUME n <= i \div d PROVE FALSE
    BY <1>1
  <2>1. d * n <= d * (i \div d)
    BY <1>1, Multiples
  <2> QED
    BY <1>1, <2>1
<1> QED
  BY <1>1, <1>2

LEMMA ChunksCover ==
    ASSUME NEW r \in Nat \ {0}, NEW c \in Nat \ {0},
           NEW i \in 0 .. r - 1, NEW j \in 0 .. c - 1
    PROVE  \E k \in 0 .. NChunks(r, c) - 1 : <<i, j>> \in ChunkCells(r, c, k)
<1> DEFINE n == NChunk0(r, c)
           m == NChunk1(r, c)
           x == i \div D0(r, c)
           y == j \div D1(r, c)
           k == n * y + x
<1>1. /\ n \in Nat \ {0} /\ m \in Nat \ {0} /\ NChunks(r, c) = n * m
      /\ D0(r, c) \in Nat \ {0} /\ r <= D0(r, c) * n
      /\ D1(r, c) \in Nat \ {0} /\ c <= D1(r, c) * m
  BY Grid DEF NChunks
<1>2. /\ x \in Nat /\ x < n /\ D0(r, c) * x <= i /\ i < D0(r, c) * x + D0(r, c)
      /\ y \in Nat /\ y < m /\ D1(r, c) * y <= j /\ j < D1(r, c) * y + D1(r, c)
  <2> DEFINE d0 == D0(r, c)
             d1 == D1(r, c)
  <2>1. /\ d0 \in Nat \ {0} /\ d1 \in Nat \ {0} /\ n \in Nat \ {0} /\ m \in Nat \ {0}
        /\ i \in Nat /\ i < d0 * n /\ j \in Nat /\ j < d1 * m
    <3>1. d0 * n \in Nat /\ d1 * m \in Nat
      BY <1>1
    <3> QED
      BY <1>1, <3>1
  <2> HIDE DEF d0, d1, n, m
  <2> QED
    BY <2>1, Located DEF d0, d1
<1> HIDE DEF n, m, x, y
<1>3. k \in Nat /\ k % n = x /\ k \div n = y
  <2>1. n * y \in Nat /\ x \in 0 .. n - 1
    BY <1>1, <1>2
  <2>2. (n * y + x) \div n = y /\ (n * y + x) % n = x
    BY <1>1, <1>2, <2>1, Quotient, Zenon
  <2> QED
    BY <1>2, <2>1, <2>2
<1>4. k < n * m
  <2>1. n * y + n <= n * m
    BY <1>1, <1>2, Multiples
  <2>2. n * y \in Nat /\ n * m \in Nat
    BY <1>1, <1>2
  <2> QED
    BY <1>1, <1>2, <2>1, <2>2
<1>5. k \in 0 .. NChunks(r, c) - 1
  BY <1>1, <1>3, <1>4
<1> HIDE DEF k
<1>6. /\ i \in Range0(r, c, k)[1] .. Range0(r, c, k)[2] - 1
      /\ j \in Range1(r, c, k)[1] .. Range1(r, c, k)[2] - 1
  BY <1>2, <1>3, Rows0, Columns1 DEF n
<1> QED
  BY <1>5, <1>6 DEF ChunkCells

-----------------------------------------------------------------------------
(* Threads: types, the barrier, and what is prepared for a node.           *)

PCs == {"prepare", "ready", "product", "chunk", "take", "end", "finished"}

Typed ==
    /\ graph \in Graphs
    /\ node \in [Thread -> Nat \ {0}]
    /\ \A t \in Thread : pc[t] # "finished" => node[t] \in 1 .. Len(graph)
    /\ product \in [Thread -> Nat \ {0}]
    /\ \A t \in Thread : pc[t] \in {"chunk", "take"} =>
          product[t] \in 1 .. Len(Of(t).cols) /\ Cols(t) # 0
    /\ chunk \in [Thread -> Nat]
    /\ counter \in [0 .. NExperts -> Nat]
    /\ converted \in [0 .. NBlocks - 1 -> Nat]
    /\ pc \in [Thread -> PCs]

LEMMA NodeFacts ==
    ASSUME Typed, NEW t \in Thread, pc[t] # "finished"
    PROVE  /\ Of(t) \in Node
           /\ Of(t).rows \in Nat \ {0} /\ Of(t).ne1 \in Nat \ {0}
           /\ Of(t).experts \in BOOLEAN
           /\ Len(Of(t).cols) \in Nat
           /\ \A p \in 1 .. Len(Of(t).cols) : Of(t).cols[p] \in Nat
           /\ Of(t).experts => Len(Of(t).cols) = NExperts /\ ~Of(t).twoRows
           /\ ~Of(t).experts => /\ Len(Of(t).cols) = 1
                                /\ Of(t).cols[1] > 0 /\ Of(t).cols[1] % Of(t).ne1 = 0
<1>1. graph \in Seq(Node) /\ node[t] \in 1 .. Len(graph)
  BY GraphsAssumption DEF Typed
<1>2. graph[node[t]] \in Node
  BY <1>1
<1>3. /\ Of(t).experts => Len(Of(t).cols) = NExperts /\ ~Of(t).twoRows
      /\ ~Of(t).experts => /\ Len(Of(t).cols) = 1
                           /\ Of(t).cols[1] > 0 /\ Of(t).cols[1] % Of(t).ne1 = 0
  BY <1>1, GraphsAssumption DEF Of, Typed
<1> QED
  BY <1>2, <1>3 DEF Of, Node

LEMMA InitTyped == Init => Typed
<1> SUFFICES ASSUME Init PROVE Typed
  OBVIOUS
<1>1. graph \in Seq(Node) /\ graph # <<>>
  BY GraphsAssumption DEF Init
<1>2. Len(graph) \in Nat \ {0}
  BY <1>1
<1> QED
  BY <1>2, SizesAssumption DEF Init, Typed, PCs

LEMMA StepTyped == ASSUME Typed, NEW t \in Thread, Step(t) PROVE Typed'
<1>1. CASE Prepare(t)
  <2>1. pc[t] # "finished" /\ node[t] \in Nat
    BY <1>1 DEF Prepare, Typed
  <2>2. converted' \in [0 .. NBlocks - 1 -> Nat]
    BY <1>1, <2>1 DEF Prepare, Typed
  <2>3. counter' \in [0 .. NExperts -> Nat]
    BY <1>1, NThreadsAssumption DEF Prepare, Typed, FirstShared
  <2> QED
    BY <1>1, <2>1, <2>2, <2>3 DEF Prepare, Typed, PCs, GoTo, Of, Cols
<1>2. CASE Product(t)
  <2>1. pc[t] # "finished" /\ chunk' \in [Thread -> Nat]
    BY <1>2 DEF Product, Typed, Thread
  <2>2. /\ product' \in [Thread -> Nat \ {0}]
        /\ pc' \in [Thread -> PCs]
        /\ \A u \in Thread : u # t => product'[u] = product[u] /\ pc'[u] = pc[u]
        /\ pc'[t] \in {"chunk", "take"} => product'[t] \in 1 .. Len(Of(t).cols) /\ Cols(t)' # 0
        /\ pc'[t] # "finished"
    <3>1. CASE product[t] > Len(Of(t).cols)
      BY <1>2, <3>1 DEF Product, GoTo, Typed, PCs
    <3>2. CASE ~(product[t] > Len(Of(t).cols)) /\ Of(t).cols[product[t]] = 0
      <4>1. /\ product' = [product EXCEPT ![t] = @ + 1]
            /\ pc' = [pc EXCEPT ![t] = "product"]
        BY <1>2, <3>2, Zenon DEF Product, NextProduct, GoTo
      <4> QED
        BY <4>1 DEF Typed, PCs
    <3>3. CASE ~(product[t] > Len(Of(t).cols)) /\ Of(t).cols[product[t]] # 0
      <4>1. product[t] \in 1 .. Len(Of(t).cols)
        BY <2>1, <3>3, NodeFacts DEF Typed
      <4>2. Cols(t)' = Of(t).cols[product[t]]
        BY <1>2, <3>3 DEF Product, GoTo, Cols, Of
      <4> QED
        BY <1>2, <3>3, <4>1, <4>2 DEF Product, GoTo, Typed, PCs
    <3> QED
      BY <3>1, <3>2, <3>3
  <2> QED
    BY <1>2, <2>1, <2>2 DEF Product, Typed, Of, Cols
<1>3. CASE Compute(t)
  <2>1. /\ product' \in [Thread -> Nat \ {0}]
        /\ pc' \in [Thread -> PCs]
        /\ \A u \in Thread : u # t => product'[u] = product[u] /\ pc'[u] = pc[u]
        /\ pc'[t] \in {"chunk", "take"} => product'[t] = product[t]
        /\ pc'[t] # "finished" /\ pc[t] = "chunk"
    <3>1. CASE OnlyOwnChunks(t)
      <4>1. /\ pc[t] = "chunk" /\ product' = [product EXCEPT ![t] = @ + 1]
            /\ pc' = [pc EXCEPT ![t] = "product"]
        BY <1>3, <3>1 DEF Compute, NextProduct, GoTo
      <4>2. product \in [Thread -> Nat \ {0}] /\ pc \in [Thread -> PCs]
        BY DEF Typed
      <4> QED
        BY <4>1, <4>2 DEF PCs
    <3>2. CASE ~OnlyOwnChunks(t)
      <4>1. pc[t] = "chunk" /\ product' = product /\ pc' = [pc EXCEPT ![t] = "take"]
        BY <1>3, <3>2 DEF Compute, GoTo
      <4>2. product \in [Thread -> Nat \ {0}] /\ pc \in [Thread -> PCs]
        BY DEF Typed
      <4> QED
        BY <4>1, <4>2 DEF PCs
    <3> QED
      BY <3>1, <3>2
  <2> QED
    BY <1>3, <2>1 DEF Compute, Typed, Of, Cols
<1>4. CASE NoMoreChunks(t)
  BY <1>4 DEF NoMoreChunks, NextProduct, GoTo, Typed, PCs, Of, Cols
<1>5. CASE Take(t)
  <2>1. Counter(t) \in 0 .. NExperts
    <3>1. pc[t] = "take" /\ product[t] \in 1 .. Len(Of(t).cols)
      BY <1>5 DEF Take, Typed
    <3>2. Of(t).experts => Len(Of(t).cols) = NExperts
      BY <3>1, NodeFacts
    <3> QED
      BY <3>1, <3>2, SizesAssumption DEF Counter
  <2>2. /\ chunk' \in [Thread -> Nat]
        /\ counter' \in [0 .. NExperts -> Nat]
    BY <1>5, <2>1 DEF Take, Typed
  <2> QED
    BY <1>5, <2>2 DEF Take, Typed, PCs, GoTo, Of, Cols
<1> QED
  BY <1>1, <1>2, <1>3, <1>4, <1>5 DEF Step

LEMMA ReleaseTyped == Typed /\ Release => Typed'
<1> SUFFICES ASSUME Typed, Release PROVE Typed'
  OBVIOUS
<1>1. graph \in Seq(Node) /\ Len(graph) \in Nat
  BY GraphsAssumption DEF Typed
<1>2. \A t \in Thread : node[t] \in 1 .. Len(graph)
  BY DEF Typed, Release
<1> QED
  BY <1>1, <1>2 DEF Release, Typed, PCs

LEMMA NextTyped == Typed /\ [Next]_vars => Typed'
<1>1. Typed /\ UNCHANGED vars => Typed'
  BY DEF Typed, vars, Of, Cols
<1> QED
  BY <1>1, StepTyped, ReleaseTyped DEF Next, Work, Finished

(* All threads are at one node, and on the same side of its barrier. *)
Phase(t) ==
    IF pc[t] \in {"prepare", "ready"} THEN 1 ELSE IF pc[t] = "finished" THEN 3 ELSE 2

Sync == \A t, u \in Thread : node[t] = node[u] /\ Phase(t) = Phase(u)

LEMMA StepPhase ==
    ASSUME Typed, NEW t \in Thread, Step(t)
    PROVE  /\ UNCHANGED <<graph, node>>
           /\ \A u \in Thread : Phase(u)' = Phase(u)
           /\ Phase(t) \in {1, 2}
           /\ \A u \in Thread \ {t} : pc'[u] = pc[u] /\ product'[u] = product[u] /\ chunk'[u] = chunk[u]
BY DEF Step, Prepare, Product, Compute, NoMoreChunks, Take, NextProduct, GoTo, Typed, Phase

LEMMA SyncStep == Typed /\ Sync /\ [Next]_vars => Sync'
<1> SUFFICES ASSUME Typed, Sync, [Next]_vars PROVE Sync'
  OBVIOUS
<1>1. CASE UNCHANGED vars
  BY <1>1 DEF vars, Sync, Phase
<1>2. ASSUME NEW t \in Thread, Step(t) PROVE Sync'
  BY <1>2, StepPhase DEF Sync
<1>3. CASE Release
  BY <1>3 DEF Release, Sync, Phase, Typed
<1> QED
  BY <1>1, <1>2, <1>3 DEF Next, Work, Finished

(* What a thread has done for its node once it is past "prepare".          *)
PreparedBy(t) ==
    /\ Of(t).converts =>
          \A b \in 0 .. NBlocks - 1 : b \in Blocks(t) => converted[b] = node[t]
    /\ Of(t).experts /\ t = 0 => table = node[t]
    /\ \A p \in Resets(t, Of(t)) :
          IF pc[t] = "ready" THEN counter[p] = NThreads ELSE counter[p] >= NThreads

Prepared == \A t \in Thread : pc[t] \notin {"prepare", "finished"} => PreparedBy(t)

LEMMA ResetsTyped ==
    ASSUME NEW t, NEW n PROVE Resets(t, n) \subseteq 0 .. NExperts
BY SizesAssumption DEF Resets

LEMMA PreparedStep == Typed /\ Sync /\ Prepared /\ [Next]_vars => Prepared'
<1> SUFFICES ASSUME Typed, Sync, Prepared, [Next]_vars PROVE Prepared'
  OBVIOUS
<1>1. CASE UNCHANGED vars
  BY <1>1 DEF vars, Prepared, PreparedBy, Of
<1>2. ASSUME NEW t \in Thread, Prepare(t) PROVE Prepared'
  <2> SUFFICES ASSUME NEW u \in Thread, pc'[u] \notin {"prepare", "finished"}
               PROVE  PreparedBy(u)'
    BY DEF Prepared
  <2>0. /\ Of(u)' = Of(u) /\ node'[u] = node[u] /\ node[u] = node[t] /\ Of(u) = Of(t)
        /\ pc[t] = "prepare" /\ pc'[t] = "ready"
        /\ u # t => pc'[u] = pc[u]
    BY <1>2 DEF Prepare, GoTo, Of, Sync, Typed
  <2>1. u = t \/ PreparedBy(u)
    BY <2>0 DEF Prepared
  <2>2. Of(u).converts =>
            \A b \in 0 .. NBlocks - 1 : b \in Blocks(u) => converted'[b] = node[u]
    <3> SUFFICES ASSUME Of(u).converts, NEW b \in 0 .. NBlocks - 1, b \in Blocks(u)
                 PROVE  converted'[b] = node[u]
      OBVIOUS
    <3>1. converted' = [x \in 0 .. NBlocks - 1 |->
                           IF x \in Blocks(t) THEN node[t] ELSE converted[x]]
      BY <1>2, <2>0 DEF Prepare, Typed
    <3> QED
      BY <2>0, <2>1, <3>1 DEF PreparedBy
  <2>3. Of(u).experts /\ u = 0 => table' = node[u]
    BY <1>2, <2>0, <2>1 DEF Prepare, PreparedBy
  <2>4. \A p \in Resets(u, Of(u)) :
            IF pc'[u] = "ready" THEN counter'[p] = NThreads ELSE counter'[p] >= NThreads
    <3> SUFFICES ASSUME NEW p \in Resets(u, Of(u))
                 PROVE  IF pc'[u] = "ready" THEN counter'[p] = NThreads ELSE counter'[p] >= NThreads
      OBVIOUS
    <3>1. p \in 0 .. NExperts
      BY ResetsTyped
    <3>2. counter' = [x \in 0 .. NExperts |->
                        IF x \in Resets(t, Of(t)) THEN NThreads ELSE counter[x]]
      BY <1>2 DEF Prepare, Typed, FirstShared
    <3> QED
      BY <2>0, <2>1, <3>1, <3>2, NThreadsAssumption DEF PreparedBy
  <2> QED
    BY <2>0, <2>2, <2>3, <2>4 DEF PreparedBy
<1>3. ASSUME NEW t \in Thread, Step(t), ~Prepare(t) PROVE Prepared'
  <2> SUFFICES ASSUME NEW u \in Thread, pc'[u] \notin {"prepare", "finished"}
               PROVE  PreparedBy(u)'
    BY DEF Prepared
  <2>0. /\ UNCHANGED <<graph, node, converted, table>>
        /\ pc[t] \in {"product", "chunk", "take"}
        /\ pc'[t] \in {"product", "chunk", "take", "end"}
        /\ \A p \in 0 .. NExperts : counter'[p] = counter[p] \/ counter'[p] = counter[p] + 1
    BY <1>3 DEF Step, Product, Compute, NoMoreChunks, Take, NextProduct, GoTo, Typed
  <2>1. /\ u # t => pc'[u] = pc[u] 
        /\ Phase(u) = 2
    BY <1>3, <2>0, StepPhase DEF Phase, Sync
  <2>2. PreparedBy(u) /\ pc[u] # "ready" /\ pc'[u] # "ready" /\ Of(u)' = Of(u)
    BY <2>0, <2>1 DEF Prepared, Phase, Of
  <2>3. \A p \in Resets(u, Of(u)) : counter'[p] >= NThreads
    <3> SUFFICES ASSUME NEW p \in Resets(u, Of(u)) PROVE counter'[p] >= NThreads
      OBVIOUS
    <3>1. p \in 0 .. NExperts /\ counter[p] >= NThreads
      BY <2>2, ResetsTyped DEF PreparedBy
    <3>2. counter[p] \in Nat
      BY <3>1 DEF Typed
    <3> QED
      BY <2>0, <3>1, <3>2, NThreadsAssumption
  <2> QED
    BY <2>0, <2>2, <2>3 DEF PreparedBy
<1>4. CASE Release
  <2> SUFFICES ASSUME NEW u \in Thread, pc'[u] \notin {"prepare", "finished"}
               PROVE  PreparedBy(u)'
    BY DEF Prepared
  <2>1. pc[u] = "ready" /\ pc'[u] = "product" /\ node'[u] = node[u]
    BY <1>4 DEF Release, Typed
  <2>2. PreparedBy(u) /\ Of(u)' = Of(u)
    BY <1>4, <2>1 DEF Prepared, Release, Of
  <2>3. \A p \in Resets(u, Of(u)) : counter[p] = NThreads
    BY <2>1, <2>2 DEF PreparedBy
  <2> QED
    BY <1>4, <2>1, <2>2, <2>3, NThreadsAssumption DEF PreparedBy, Release
<1> QED
  BY <1>1, <1>2, <1>3, <1>4 DEF Next, Work, Finished

LEMMA InitPrepared == Init => Sync /\ Prepared
BY DEF Init, Sync, Phase, Prepared

(* Every block of the work buffer is some thread's.                        *)
LEMMA BlocksCover ==
    ASSUME NEW b \in 0 .. NBlocks - 1 PROVE \E t \in Thread : b \in Blocks(t)
<1> DEFINE e == (b + 1) * NThreads - 1
           t == e \div NBlocks
<1>0. NBlocks \in Nat \ {0} /\ NThreads \in Nat \ {0}
  BY SizesAssumption, NThreadsAssumption
<1>1. (b + 1) * NThreads \in Nat \ {0}
  BY <1>0
<1>2. (b + 1) * NThreads <= NBlocks * NThreads
  BY <1>0
<1>3. e \in Nat /\ e < NBlocks * NThreads
  BY <1>0, <1>1, <1>2
<1> HIDE DEF e
<1>4. t \in Nat /\ t < NThreads /\ NBlocks * t <= e /\ e < NBlocks * t + NBlocks
  BY <1>0, <1>3, Located
<1> HIDE DEF t
<1>5. (t * NBlocks) \div NThreads <= b
  <2>1. NBlocks * t \in Nat /\ t * NBlocks = NBlocks * t
    BY <1>0, <1>4
  <2>2. t * NBlocks < (b + 1) * NThreads
    BY <1>1, <1>4, <2>1 DEF e
  <2>3. t * NBlocks < NThreads * (b + 1)
    BY <1>0, <2>2
  <2>4. (t * NBlocks) \div NThreads < b + 1 /\ (t * NBlocks) \div NThreads \in Nat
    <3>1. t * NBlocks \in Nat /\ b + 1 \in Nat \ {0}
      BY <2>1
    <3> QED
      BY <1>0, <2>3, <3>1, Located, Zenon
  <2> QED
    BY <2>4
<1>6. b + 1 <= ((t + 1) * NBlocks) \div NThreads
  <2> DEFINE s == (t + 1) * NBlocks
             q == s \div NThreads
  <2>1. s \in Nat /\ s = NBlocks * t + NBlocks
    BY <1>0, <1>4
  <2>2. (b + 1) * NThreads <= s
    BY <1>1, <1>4, <2>1 DEF e
  <2> HIDE DEF s
  <2>3. q \in Nat /\ s < NThreads * q + NThreads
    <3>1. q \in Nat /\ s % NThreads \in 0 .. NThreads - 1 /\ s = NThreads * q + (s % NThreads)
      BY <1>0, <2>1, DivMod, Zenon
    <3>2. NThreads * q \in Nat
      BY <1>0, <3>1
    <3> HIDE DEF q
    <3> QED
      BY <1>0, <2>1, <3>1, <3>2
  <2> HIDE DEF q
  <2>4. ~(q < b + 1)
    <3> SUFFICES ASSUME q < b + 1 PROVE FALSE
      OBVIOUS
    <3>1. NThreads * q + NThreads <= NThreads * (b + 1)
      BY <1>0, <2>3, Multiples
    <3>2. NThreads * (b + 1) = (b + 1) * NThreads /\ NThreads * q \in Nat
      BY <1>0, <2>3
    <3> QED
      BY <1>0, <1>1, <2>1, <2>2, <2>3, <3>1, <3>2
  <2> QED
    BY <2>3, <2>4 DEF q, s
<1>7. ((t + 1) * NBlocks) \div NThreads \in Int /\ (t * NBlocks) \div NThreads \in Int
  BY <1>0, <1>4
<1>8. b \in Blocks(t)
  <2> DEFINE lo == (t * NBlocks) \div NThreads
             hi == ((t + 1) * NBlocks) \div NThreads
  <2>1. lo <= b /\ b + 1 <= hi /\ lo \in Int /\ hi \in Int /\ Blocks(t) = lo .. hi - 1
    BY <1>5, <1>6, <1>7 DEF Blocks
  <2> HIDE DEF lo, hi
  <2> QED
    BY <2>1
<1> QED
  BY <1>0, <1>4, <1>8 DEF Thread

(* Whoever computes reads the converted input and the row table of its own *)
(* node, for every number of threads, blocks and experts.                  *)
THEOREM MulMatReads == Spec => []ReadsThisNode
<1>1. Typed /\ Sync /\ Prepared => ReadsThisNode
  <2> SUFFICES ASSUME Typed, Sync, Prepared, NEW t \in Thread, pc[t] \in {"product", "chunk"}
               PROVE  /\ Of(t).experts => table = node[t]
                      /\ Of(t).converts => \A b \in DOMAIN converted : converted[b] = node[t]
    BY DEF ReadsThisNode
  <2>1. \A u \in Thread : PreparedBy(u) /\ node[u] = node[t] /\ Of(u) = Of(t)
    BY DEF Prepared, Sync, Phase, Of
  <2>2. 0 \in Thread
    BY NThreadsAssumption DEF Thread
  <2>3. DOMAIN converted = 0 .. NBlocks - 1
    BY DEF Typed
  <2> QED
    BY <2>1, <2>2, <2>3, BlocksCover DEF PreparedBy
<1> QED
  BY <1>1, InitTyped, InitPrepared, NextTyped, SyncStep, PreparedStep, PTL DEF Spec

-----------------------------------------------------------------------------
(* Pairs of rows and columns.                                              *)

LEMMA EvenProduct ==
    ASSUME NEW d \in Nat, NEW q \in Nat, d % 2 = 0 \/ q % 2 = 0
    PROVE  (d * q) % 2 = 0
<1>1. \A a, b \in Nat : (2 * a) * b = 2 * (a * b) /\ b * (2 * a) = 2 * (a * b)
  OBVIOUS
<1>2. \A a \in Nat : (2 * a) % 2 = 0
  OBVIOUS
<1>3. \A a, b \in Nat : a * b \in Nat
  OBVIOUS
<1>4. CASE d % 2 = 0
  <2>1. PICK h \in Nat : d = 2 * h
    <3>1. d \div 2 \in Nat /\ d = 2 * (d \div 2)
      BY <1>4
    <3> QED
      BY <3>1
  <2> QED
    BY <1>1, <1>2, <1>3, <2>1
<1>5. CASE q % 2 = 0
  <2>1. PICK h \in Nat : q = 2 * h
    <3>1. q \div 2 \in Nat /\ q = 2 * (q \div 2)
      BY <1>5
    <3> QED
      BY <3>1
  <2> QED
    BY <1>1, <1>2, <1>3, <2>1
<1> QED
  BY <1>4, <1>5

(* In a range that starts at a multiple of its full length, and is cut, if *)
(* at all, at an even end, an even length means an even start.             *)
LEMMA EvenStart ==
    ASSUME NEW d \in Nat, NEW q \in Nat, NEW c \in Nat, c % 2 = 0,
           NEW end \in Int, end = IF d * q + d < c THEN d * q + d ELSE c,
           (end - d * q) % 2 = 0
    PROVE  (d * q) % 2 = 0
<1>1. d * q \in Nat
  OBVIOUS
<1>2. CASE d * q + d < c
  <2>1. end - d * q = d
    BY <1>1, <1>2
  <2> QED
    BY <2>1, EvenProduct
<1>3. CASE ~(d * q + d < c)
  <2> DEFINE s == d * q
  <2>1. s \in Nat /\ (c - s) % 2 = 0
    BY <1>1, <1>3
  <2> HIDE DEF s
  <2>2. s % 2 = 0
    BY <2>1
  <2> QED
    BY <2>2 DEF s
<1> QED
  BY <1>2, <1>3

(* Two columns that follow an even one are of one matrix of even width.    *)
LEMMA EvenNeighbours ==
    ASSUME NEW w \in Nat \ {0}, w % 2 = 0, NEW j \in Nat, j % 2 = 0
    PROVE  j \div w = (j + 1) \div w
<1> DEFINE q == j \div w
           m == j % w
           s == w * q
<1>1. q \in Nat /\ m \in 0 .. w - 1 /\ j = s + m
  BY DivMod
<1>2. s \in Nat /\ s % 2 = 0
  BY <1>1, EvenProduct
<1>3. m + 1 \in 0 .. w - 1
  <2> HIDE DEF s, m, q
  <2> QED
    BY <1>1, <1>2
<1>4. j + 1 = w * q + (m + 1)
  <2> HIDE DEF m, q
  <2> QED
    BY <1>1, <1>2
<1>5. (w * q + (m + 1)) \div w = q
  <2> HIDE DEF m, q
  <2> QED
    BY <1>1, <1>3, Quotient, Zenon
<1> QED
  BY <1>4, <1>5

(* Two columns that are taken together are neighbours in one matrix and in *)
(* one chunk, for all shapes and all chunk sizes: a chunk of even width    *)
(* begins at an even column.                                               *)
THEOREM MulMatPairs == Spec => []PairsInside
<1>1. Typed => PairsInside
  <2> SUFFICES ASSUME Typed, NEW t \in Thread, pc[t] = "chunk", TwoByTwo(Of(t), chunk[t])
               PROVE  LET r == Range0(Rows(t), Cols(t), chunk[t])
                          c == Range1(Rows(t), Cols(t), chunk[t])
                      IN  /\ \A i \in r[1] .. r[2] - 1 : (i - r[1]) % 2 = 0 => i + 1 < r[2]
                          /\ \A j \in c[1] .. c[2] - 1 : (j - c[1]) % 2 = 0 =>
                                /\ j + 1 < c[2]
                                /\ j \div Of(t).ne1 = (j + 1) \div Of(t).ne1
    BY DEF PairsInside
  <2> DEFINE R == Rows(t)
             C == Cols(t)
             w == Of(t).ne1
             k == chunk[t]
             d0 == D0(R, C)
             d1 == D1(R, C)
             x == k % NChunk0(R, C)
             y == k \div NChunk0(R, C)
             end0 == IF d0 * x + d0 < R THEN d0 * x + d0 ELSE R
             end1 == IF d1 * y + d1 < C THEN d1 * y + d1 ELSE C
  <2>1. /\ ~Of(t).experts /\ product[t] = 1
        /\ C = Of(t).cols[1] /\ C % w = 0
        /\ R \in Nat \ {0} /\ C \in Nat \ {0} /\ w \in Nat \ {0} /\ k \in Nat
    <3>1. ~Of(t).experts /\ Len(Of(t).cols) = 1
      BY NodeFacts DEF TwoByTwo
    <3>2. product[t] = 1
      <4>1. product[t] \in 1 .. Len(Of(t).cols)
        BY DEF Typed
      <4> QED
        BY <3>1, <4>1
    <3> QED
      BY <3>1, <3>2, NodeFacts DEF Rows, Cols, Typed
  <2>2. R % 2 = 0 /\ w % 2 = 0
    BY DEF TwoByTwo, Rows
  <2>3. /\ Range0(R, C, k)[1] = d0 * x /\ Range0(R, C, k)[2] = end0
        /\ Range1(R, C, k)[1] = d1 * y /\ Range1(R, C, k)[2] = end1
    BY DEF Range0, Range1, D0, D1
  <2>4. (end0 - d0 * x) % 2 = 0 /\ (end1 - d1 * y) % 2 = 0
    BY <2>1, <2>3 DEF TwoByTwo, Odd, Rows
  <2>5. /\ d0 \in Nat /\ d1 \in Nat /\ x \in Nat /\ y \in Nat
        /\ d0 * x \in Nat /\ d1 * y \in Nat
    BY <2>1, Grid, Place
  <2> HIDE DEF R, C, w, k, d0, d1, x, y
  <2>6. end0 \in Nat /\ end1 \in Nat
    BY <2>1, <2>5
  <2>7. C % 2 = 0
    <3>1. C \div w \in Nat /\ C = w * (C \div w)
      <4>1. C \div w \in Nat /\ C = w * (C \div w) + (C % w)
        BY <2>1, DivMod
      <4>2. w * (C \div w) \in Nat
        BY <2>1, <4>1
      <4> QED
        BY <2>1, <4>1, <4>2
    <3> QED
      BY <2>1, <2>2, <3>1, EvenProduct
  <2>8. (d1 * y) % 2 = 0
    <3>1. end1 = IF d1 * y + d1 < C THEN d1 * y + d1 ELSE C
      OBVIOUS
    <3>2. C \in Nat /\ end1 \in Int
      BY <2>1, <2>6
    <3> HIDE DEF end1
    <3> QED
      BY <2>4, <2>5, <2>7, <3>1, <3>2, EvenStart, Zenon
  <2> HIDE DEF end0, end1
  <2>9. ASSUME NEW i \in d0 * x .. end0 - 1, (i - d0 * x) % 2 = 0
        PROVE  i + 1 < end0
    <3> DEFINE s == d0 * x
    <3>1. s \in Nat /\ (end0 - s) % 2 = 0 /\ i \in s .. end0 - 1 /\ (i - s) % 2 = 0
      BY <2>4, <2>5, <2>9
    <3> HIDE DEF s
    <3> QED
      BY <2>6, <3>1
  <2>10. ASSUME NEW j \in d1 * y .. end1 - 1, (j - d1 * y) % 2 = 0
         PROVE  j + 1 < end1 /\ j \div w = (j + 1) \div w
    <3> DEFINE s == d1 * y
    <3>1. s \in Nat /\ s % 2 = 0 /\ (end1 - s) % 2 = 0 /\ j \in s .. end1 - 1 /\ (j - s) % 2 = 0
      BY <2>4, <2>5, <2>8, <2>10
    <3> HIDE DEF s
    <3>2. j + 1 < end1 /\ j \in Nat /\ j % 2 = 0
      BY <2>6, <3>1
    <3> QED
      BY <2>1, <2>2, <3>2, EvenNeighbours
  <2> QED
    BY <2>3, <2>9, <2>10 DEF R, C, k, w
<1> QED
  BY <1>1, InitTyped, NextTyped, PTL DEF Spec

-----------------------------------------------------------------------------
(***************************************************************************)
(* Who computes which chunk.  A chunk of a product is open as long as it   *)
(* may still be computed: by the thread of its number, which has yet to    *)
(* come to the product, by the thread that has taken it, or by whoever     *)
(* takes it from the counter.  Open chunks are not computed, and a chunk   *)
(* that is no longer open is.                                              *)
(***************************************************************************)
N == Of(0)
Live(p) == p \in 1 .. Len(N.cols) /\ N.cols[p] # 0
Idx(p) == IF N.experts THEN p ELSE 0
Working(t) == pc[t] \in {"chunk", "take"}

Part(p, k) ==
    {p} \X (Range0(N.rows, N.cols[p], k)[1] .. Range0(N.rows, N.cols[p], k)[2] - 1)
        \X (Range1(N.rows, N.cols[p], k)[1] .. Range1(N.rows, N.cols[p], k)[2] - 1)

Open(p, k) ==
    \/ k \in Thread /\ (product[k] < p \/ (product[k] = p /\ pc[k] = "product"))
    \/ \E t \in Thread : pc[t] = "chunk" /\ product[t] = p /\ chunk[t] = k
    \/ k >= counter[Idx(p)]

Held ==
    \A t \in Thread : Working(t) =>
        chunk[t] = t \/ (NThreads <= chunk[t] /\ chunk[t] < counter[Idx(product[t])])

Apart ==
    \A t, u \in Thread :
        t # u /\ Working(t) /\ Working(u) /\ product[t] = product[u] => chunk[t] # chunk[u]

Untouched == \A p, k \in Nat : Live(p) /\ Open(p, k) => Part(p, k) \cap computed = {}

Covered ==
    \A p, k \in Nat :
        Live(p) /\ k < NChunks(N.rows, N.cols[p]) =>
            Open(p, k) \/ Part(p, k) \subseteq computed

Left ==
    \A t \in Thread, p \in Nat :
        Live(p) /\ product[t] > p => counter[Idx(p)] >= NChunks(N.rows, N.cols[p])

Ended == \A t \in Thread : pc[t] = "end" => product[t] > Len(N.cols)

During == Held /\ Apart /\ Untouched /\ Covered /\ Left /\ Ended /\ computed \subseteq CellsOf(N)

ChunkInv ==
    /\ Phase(0) = 1 => computed = {} /\ \A t \in Thread : product[t] = 1
    /\ Phase(0) = 2 => During
    /\ again = {}

LEMMA Zero == 0 \in Thread
BY NThreadsAssumption DEF Thread

(* What is known of the node that all threads are at. *)
LEMMA LiveFacts ==
    ASSUME Typed, Sync, Phase(0) # 3, NEW p, Live(p)
    PROVE  /\ p \in Nat \ {0} /\ N.cols[p] \in Nat \ {0} /\ N.rows \in Nat \ {0}
           /\ Idx(p) \in 0 .. NExperts /\ counter[Idx(p)] \in Nat
           /\ NChunks(N.rows, N.cols[p]) \in Nat \ {0}
<1>1. pc[0] # "finished"
  BY DEF Phase
<1>2. /\ p \in Nat \ {0} /\ N.cols[p] \in Nat \ {0} /\ N.rows \in Nat \ {0}
      /\ N.experts => Len(N.cols) = NExperts
      /\ p \in 1 .. Len(N.cols)
  BY <1>1, Zero, NodeFacts DEF Live, N
<1>3. Idx(p) \in 0 .. NExperts
  BY <1>2, SizesAssumption DEF Idx
<1> QED
  BY <1>2, <1>3, Grid DEF Typed

LEMMA AtN ==
    ASSUME Typed, Sync, NEW t \in Thread, Phase(0) = 2
    PROVE  /\ Of(t) = N /\ Phase(t) = 2
           /\ pc[t] \in {"chunk", "take"} => Live(product[t]) /\ Cols(t) = N.cols[product[t]]
           /\ Counter(t) = Idx(product[t])
           /\ Cells(t) = Part(product[t], chunk[t])
<1>1. Of(t) = N /\ Phase(t) = 2
  BY Zero DEF Sync, Of, N
<1> QED
  BY <1>1 DEF Typed, Live, Cols, Rows, Counter, Idx, Cells, Part

(* The counter of a product has been reset to the first shared chunk. *)
LEMMA CounterHigh ==
    ASSUME Typed, Sync, Prepared, NEW p, Live(p),
           \A t \in Thread : pc[t] \notin {"prepare", "finished"}
    PROVE  \E t \in Thread : Idx(p) \in Resets(t, N) /\ Of(t) = N /\ PreparedBy(t)
<1>1. \A t \in Thread : Of(t) = N /\ PreparedBy(t)
  BY Zero DEF Sync, Of, N, Prepared
<1>2. CASE ~N.experts
  BY <1>1, <1>2, Zero DEF Idx, Resets
<1>3. CASE N.experts
  <2>1. p \in 1 .. NExperts
    BY <1>3, Zero, NodeFacts DEF Live, N
  <2>2. (p - 1) % NThreads \in Thread
    BY <2>1, SizesAssumption, NThreadsAssumption, DivMod DEF Thread
  <2>3. p \in Resets((p - 1) % NThreads, N)
    BY <1>3, <2>1 DEF Resets
  <2> QED
    BY <1>1, <1>3, <2>2, <2>3 DEF Idx
<1> QED
  BY <1>2, <1>3

LEMMA InTriple ==
    ASSUME NEW p, NEW k, NEW x
    PROVE  x \in Part(p, k) <=>
             \E i, j : x = <<p, i, j>> /\ <<i, j>> \in ChunkCells(N.rows, N.cols[p], k)
<1> DEFINE A == Range0(N.rows, N.cols[p], k)[1] .. Range0(N.rows, N.cols[p], k)[2] - 1
           B == Range1(N.rows, N.cols[p], k)[1] .. Range1(N.rows, N.cols[p], k)[2] - 1
<1>1. Part(p, k) = {p} \X A \X B /\ ChunkCells(N.rows, N.cols[p], k) = A \X B
  BY DEF Part, ChunkCells
<1> HIDE DEF A, B
<1>2. ASSUME x \in {p} \X A \X B PROVE \E i, j : x = <<p, i, j>> /\ <<i, j>> \in A \X B
  BY <1>2
<1>3. ASSUME NEW i, NEW j, x = <<p, i, j>>, <<i, j>> \in A \X B PROVE x \in {p} \X A \X B
  BY <1>3
<1> QED
  BY <1>1, <1>2, <1>3

(* Parts do not overlap, are inside of the output and together all of it. *)
LEMMA PartsApart ==
    ASSUME Typed, Sync, Phase(0) # 3, NEW p, Live(p), NEW k \in Nat, NEW l \in Nat, k # l
    PROVE  Part(p, k) \cap Part(p, l) = {}
<1> SUFFICES ASSUME NEW x, x \in Part(p, k), x \in Part(p, l) PROVE FALSE
  OBVIOUS
<1>1. PICK i, j : x = <<p, i, j>> /\ <<i, j>> \in ChunkCells(N.rows, N.cols[p], k)
  BY InTriple
<1>2. PICK a, b : x = <<p, a, b>> /\ <<a, b>> \in ChunkCells(N.rows, N.cols[p], l)
  BY InTriple
<1>3. a = i /\ b = j
  BY <1>1, <1>2
<1> QED
  BY <1>1, <1>2, <1>3, LiveFacts, ChunksApart

LEMMA PartsDiffer ==
    ASSUME NEW p, NEW q, p # q, NEW k, NEW l
    PROVE  Part(p, k) \cap Part(q, l) = {}
<1> SUFFICES ASSUME NEW x, x \in Part(p, k), x \in Part(q, l) PROVE FALSE
  OBVIOUS
<1>1. PICK i, j : x = <<p, i, j>> /\ <<i, j>> \in ChunkCells(N.rows, N.cols[p], k)
  BY InTriple
<1>2. PICK a, b : x = <<q, a, b>> /\ <<a, b>> \in ChunkCells(N.rows, N.cols[q], l)
  BY InTriple
<1> QED
  BY <1>1, <1>2

LEMMA PartsInside ==
    ASSUME Typed, Sync, Phase(0) # 3, NEW p, Live(p), NEW k \in Nat
    PROVE  Part(p, k) \subseteq CellsOf(N)
<1> SUFFICES ASSUME NEW x, x \in Part(p, k) PROVE x \in CellsOf(N)
  OBVIOUS
<1>1. PICK i, j : x = <<p, i, j>> /\ <<i, j>> \in ChunkCells(N.rows, N.cols[p], k)
  BY InTriple
<1>2. <<i, j>> \in (0 .. N.rows - 1) \X (0 .. N.cols[p] - 1)
  BY <1>1, LiveFacts, ChunksInside
<1>3. x \in {p} \X (0 .. N.rows - 1) \X (0 .. N.cols[p] - 1)
  BY <1>1, <1>2
<1> QED
  BY <1>3 DEF CellsOf, Live

LEMMA PartsCover ==
    ASSUME Typed, Sync, Phase(0) # 3, NEW x \in CellsOf(N)
    PROVE  \E p, k \in Nat : /\ Live(p) /\ k < NChunks(N.rows, N.cols[p])
                            /\ x \in Part(p, k)
<1>1. PICK p \in 1 .. Len(N.cols) : x \in {p} \X (0 .. N.rows - 1) \X (0 .. N.cols[p] - 1)
  BY DEF CellsOf
<1>2. PICK i \in 0 .. N.rows - 1, j \in 0 .. N.cols[p] - 1 : x = <<p, i, j>>
  BY <1>1
<1>3. N.cols[p] \in Nat /\ Len(N.cols) \in Nat
  BY Zero, NodeFacts DEF N, Phase
<1>4. Live(p)
  BY <1>2, <1>3 DEF Live
<1>5. N.rows \in Nat \ {0} /\ N.cols[p] \in Nat \ {0} /\ NChunks(N.rows, N.cols[p]) \in Nat \ {0}
  BY <1>4, LiveFacts
<1>6. PICK k \in 0 .. NChunks(N.rows, N.cols[p]) - 1 : <<i, j>> \in ChunkCells(N.rows, N.cols[p], k)
  BY <1>2, <1>5, ChunksCover
<1>7. p \in Nat /\ k \in Nat /\ k < NChunks(N.rows, N.cols[p])
  BY <1>3, <1>5
<1> QED
  BY <1>2, <1>4, <1>6, <1>7, InTriple

-----------------------------------------------------------------------------
(* What a thread does between the barriers of a node.                      *)

Same == UNCHANGED <<counter, computed, again>>

Ends(t) ==
    /\ pc[t] = "product" /\ product[t] > Len(N.cols)
    /\ pc'[t] = "end" /\ product'[t] = product[t] /\ Same

Skips(t) ==
    /\ pc[t] = "product" /\ ~Live(product[t])
    /\ pc'[t] = "product" /\ product'[t] = product[t] + 1 /\ Same

Begins(t) ==
    /\ pc[t] = "product" /\ Live(product[t])
    /\ pc'[t] = "chunk" /\ product'[t] = product[t] /\ chunk'[t] = t /\ Same

Computes(t) ==
    /\ pc[t] = "chunk" /\ Live(product[t])
    /\ computed' = computed \union Part(product[t], chunk[t])
    /\ again' = again \union (computed \cap Part(product[t], chunk[t]))
    /\ chunk'[t] = chunk[t] /\ UNCHANGED counter
    /\ \/ /\ pc'[t] = "product" /\ product'[t] = product[t] + 1
          /\ NThreads >= NChunks(N.rows, N.cols[product[t]])
       \/ pc'[t] = "take" /\ product'[t] = product[t]

Leaves(t) ==
    /\ pc[t] = "chunk" /\ Live(product[t])
    /\ ~(chunk[t] < NChunks(N.rows, N.cols[product[t]]))
    /\ pc'[t] = "product" /\ product'[t] = product[t] + 1 /\ Same

Takes(t) ==
    /\ pc[t] = "take" /\ Live(product[t])
    /\ pc'[t] = "chunk" /\ product'[t] = product[t]
    /\ chunk'[t] = counter[Idx(product[t])]
    /\ counter' = [counter EXCEPT ![Idx(product[t])] = @ + 1]
    /\ UNCHANGED <<computed, again>>

LEMMA Moves ==
    ASSUME Typed, Sync, Phase(0) = 2, NEW t \in Thread, Step(t)
    PROVE  Ends(t) \/ Skips(t) \/ Begins(t) \/ Computes(t) \/ Leaves(t) \/ Takes(t)
<1>0. /\ Of(t) = N /\ Phase(t) = 2
      /\ pc[t] \in {"chunk", "take"} => Live(product[t]) /\ Cols(t) = N.cols[product[t]]
      /\ Counter(t) = Idx(product[t])
      /\ Cells(t) = Part(product[t], chunk[t])
  BY AtN
<1>t. product \in [Thread -> Nat \ {0}] /\ chunk \in [Thread -> Nat] /\ DOMAIN pc = Thread
  BY DEF Typed
<1>1. ~Prepare(t)
  BY <1>0 DEF Prepare, Phase
<1>2. CASE Product(t)
  <2>1. pc[t] = "product" /\ chunk'[t] = t /\ Same
    BY <1>2, <1>t DEF Product, Same
  <2>2. CASE product[t] > Len(N.cols)
    BY <1>0, <1>2, <1>t, <2>1, <2>2 DEF Product, Ends, GoTo
  <2>3. CASE ~(product[t] > Len(N.cols)) /\ N.cols[product[t]] = 0
    <3>1. /\ product' = [product EXCEPT ![t] = @ + 1]
          /\ pc' = [pc EXCEPT ![t] = "product"]
      BY <1>0, <1>2, <2>3, Zenon DEF Product, NextProduct, GoTo
    <3> QED
      BY <1>t, <2>1, <2>3, <3>1 DEF Skips, Live
  <2>4. CASE ~(product[t] > Len(N.cols)) /\ N.cols[product[t]] # 0
    <3>1. Len(N.cols) \in Nat
      BY <1>0, NodeFacts DEF Phase
    <3>2. Live(product[t])
      BY <1>t, <2>4, <3>1 DEF Live
    <3> QED
      BY <1>0, <1>2, <1>t, <2>1, <2>4, <3>2 DEF Product, Begins, GoTo
  <2> QED
    BY <2>2, <2>3, <2>4
<1>3. CASE Compute(t)
  <2>1. /\ pc[t] = "chunk" /\ Live(product[t])
        /\ computed' = computed \union Part(product[t], chunk[t])
        /\ again' = again \union (computed \cap Part(product[t], chunk[t]))
        /\ chunk'[t] = chunk[t] /\ UNCHANGED counter
    BY <1>0, <1>3, Zenon DEF Compute
  <2>2. CASE OnlyOwnChunks(t)
    <3>1. /\ product' = [product EXCEPT ![t] = @ + 1]
          /\ pc' = [pc EXCEPT ![t] = "product"]
      BY <1>3, <2>2, Zenon DEF Compute, NextProduct, GoTo
    <3>2. NThreads >= NChunks(N.rows, N.cols[product[t]])
      BY <1>0, <2>1, <2>2 DEF OnlyOwnChunks, Rows
    <3> QED
      BY <1>t, <2>1, <3>1, <3>2 DEF Computes
  <2>3. CASE ~OnlyOwnChunks(t)
    <3>1. product' = product /\ pc' = [pc EXCEPT ![t] = "take"]
      BY <1>3, <2>3, Zenon DEF Compute, GoTo
    <3> QED
      BY <1>t, <2>1, <3>1 DEF Computes
  <2> QED
    BY <2>2, <2>3
<1>4. CASE NoMoreChunks(t)
  BY <1>0, <1>4, <1>t DEF NoMoreChunks, HasChunk, Rows, NextProduct, GoTo, Leaves, Same
<1>5. CASE Take(t)
  BY <1>0, <1>5, <1>t DEF Take, GoTo, Takes
<1> QED
  BY <1>1, <1>2, <1>3, <1>4, <1>5 DEF Step

LEMMA High ==
    ASSUME Typed, Sync, Prepared, Phase(0) = 2, NEW p, Live(p)
    PROVE  counter[Idx(p)] >= NThreads
<1>1. \A t \in Thread : pc[t] \notin {"prepare", "ready", "finished"}
  BY Zero DEF Sync, Phase
<1>2. PICK t \in Thread : Idx(p) \in Resets(t, N) /\ Of(t) = N /\ PreparedBy(t)
  BY <1>1, CounterHigh
<1> QED
  BY <1>1, <1>2 DEF PreparedBy

LEMMA Frame ==
    ASSUME Typed, Sync, Phase(0) = 2, NEW t \in Thread, Step(t)
    PROVE  /\ N' = N
           /\ \A p : Live(p)' = Live(p) /\ Idx(p)' = Idx(p)
           /\ \A p, k : Part(p, k)' = Part(p, k)
           /\ \A u \in Thread \ {t} :
                 pc'[u] = pc[u] /\ product'[u] = product[u] /\ chunk'[u] = chunk[u]
<1>1. UNCHANGED <<graph, node>>
  BY StepPhase
<1>2. N' = N
  BY <1>1 DEF N, Of
<1> QED
  BY <1>2, StepPhase DEF Live, Idx, Part

(* Counters only grow, and two products have two of them. *)
LEMMA Grows ==
    ASSUME Typed, Sync, Phase(0) = 2, NEW t \in Thread, Step(t)
    PROVE  /\ \A p : Live(p) => counter'[Idx(p)] >= counter[Idx(p)]
           /\ ~Takes(t) => counter' = counter
           /\ Takes(t) => \A p : Live(p) =>
                 counter'[Idx(p)] = IF p = product[t] THEN counter[Idx(p)] + 1 ELSE counter[Idx(p)]
<1>1. \A p : Live(p) => Idx(p) \in 0 .. NExperts /\ counter[Idx(p)] \in Nat
  BY LiveFacts
<1>2. \A p, q : Live(p) /\ Live(q) /\ p # q => Idx(p) # Idx(q)
  <2>1. ~N.experts => Len(N.cols) = 1
    BY Zero, NodeFacts DEF N, Phase
  <2> QED
    BY <2>1 DEF Live, Idx
<1>3. ~Takes(t) => counter' = counter
  BY Moves DEF Ends, Skips, Begins, Computes, Leaves, Same
<1>4. Takes(t) => \A p : Live(p) =>
         counter'[Idx(p)] = IF p = product[t] THEN counter[Idx(p)] + 1 ELSE counter[Idx(p)]
  <2> SUFFICES ASSUME Takes(t), NEW p, Live(p)
               PROVE  counter'[Idx(p)] = IF p = product[t] THEN counter[Idx(p)] + 1 ELSE counter[Idx(p)]
    OBVIOUS
  <2>1. /\ counter' = [counter EXCEPT ![Idx(product[t])] = @ + 1] /\ Live(product[t])
        /\ counter \in [0 .. NExperts -> Nat]
    BY DEF Takes, Typed
  <2> QED
    BY <1>1, <1>2, <2>1
<1> QED
  BY <1>1, <1>3, <1>4

(* A chunk is never opened ... *)
LEMMA NotOpened ==
    ASSUME Typed, Sync, Prepared, Phase(0) = 2, NEW t \in Thread, Step(t),
           NEW p \in Nat, NEW k \in Nat, Live(p), Open(p, k)'
    PROVE  Open(p, k)
<1>f. /\ Idx(p)' = Idx(p)
      /\ \A u \in Thread \ {t} :
            pc'[u] = pc[u] /\ product'[u] = product[u] /\ chunk'[u] = chunk[u]
      /\ counter[Idx(p)] \in Nat /\ counter'[Idx(p)] >= counter[Idx(p)]
      /\ counter'[Idx(p)] \in Nat
      /\ product[t] \in Nat /\ Len(N.cols) \in Nat
  <2>1. Typed'
    BY StepTyped
  <2>2. Len(N.cols) \in Nat
    BY Zero, NodeFacts DEF N, Phase
  <2>3. Idx(p) \in 0 .. NExperts /\ Idx(p)' = Idx(p)
    BY LiveFacts, Frame
  <2> QED
    BY <2>1, <2>2, <2>3, LiveFacts, Frame, Grows DEF Typed
<1>m. Ends(t) \/ Skips(t) \/ Begins(t) \/ Computes(t) \/ Leaves(t) \/ Takes(t)
  BY Moves
<1>1. CASE k \in Thread /\ (product'[k] < p \/ (product'[k] = p /\ pc'[k] = "product"))
  <2>1. CASE k # t
    BY <1>f, <1>1, <2>1 DEF Open
  <2>2. CASE k = t
    BY <1>f, <1>m, <1>1, <2>2 DEF Open, Ends, Skips, Begins, Computes, Leaves, Takes
  <2> QED
    BY <2>1, <2>2
<1>2. CASE \E u \in Thread : pc'[u] = "chunk" /\ product'[u] = p /\ chunk'[u] = k
  <2>1. PICK u \in Thread : pc'[u] = "chunk" /\ product'[u] = p /\ chunk'[u] = k
    BY <1>2
  <2>2. CASE u # t
    BY <1>f, <2>1, <2>2 DEF Open
  <2>3. CASE u = t
    BY <1>f, <1>m, <2>1, <2>3 DEF Open, Ends, Skips, Begins, Computes, Leaves, Takes
  <2> QED
    BY <2>2, <2>3
<1>3. CASE k >= counter'[Idx(p)]
  BY <1>f, <1>3 DEF Open
<1> QED
  BY <1>f, <1>1, <1>2, <1>3 DEF Open

(* ... and closed only by who is at it. *)
LEMMA Closed ==
    ASSUME Typed, Sync, Prepared, Phase(0) = 2, NEW t \in Thread, Step(t),
           NEW p \in Nat, NEW k \in Nat, Live(p), Open(p, k), ~Open(p, k)'
    PROVE  (Computes(t) \/ Leaves(t)) /\ p = product[t] /\ k = chunk[t]
<1>f. /\ Idx(p)' = Idx(p)
      /\ \A u \in Thread \ {t} :
            pc'[u] = pc[u] /\ product'[u] = product[u] /\ chunk'[u] = chunk[u]
      /\ counter[Idx(p)] \in Nat
      /\ product[t] \in Nat /\ Len(N.cols) \in Nat
      /\ p <= Len(N.cols)
  <2>1. Len(N.cols) \in Nat
    BY Zero, NodeFacts DEF N, Phase
  <2>2. p <= Len(N.cols)
    BY <2>1 DEF Live
  <2>3. counter[Idx(p)] \in Nat /\ Idx(p)' = Idx(p)
    BY LiveFacts, Frame
  <2> QED
    BY <2>1, <2>2, <2>3, Frame DEF Typed
<1>m. Ends(t) \/ Skips(t) \/ Begins(t) \/ Computes(t) \/ Leaves(t) \/ Takes(t)
  BY Moves
<1>1. CASE k \in Thread /\ (product[k] < p \/ (product[k] = p /\ pc[k] = "product"))
  <2>1. CASE k # t
    BY <1>f, <1>1, <2>1 DEF Open
  <2>2. CASE k = t
    BY <1>f, <1>m, <1>1, <2>2 DEF Open, Ends, Skips, Begins, Computes, Leaves, Takes
  <2> QED
    BY <2>1, <2>2
<1>2. CASE \E u \in Thread : pc[u] = "chunk" /\ product[u] = p /\ chunk[u] = k
  <2>1. PICK u \in Thread : pc[u] = "chunk" /\ product[u] = p /\ chunk[u] = k
    BY <1>2
  <2>2. CASE u # t
    BY <1>f, <2>1, <2>2 DEF Open
  <2>3. CASE u = t
    BY <1>f, <1>m, <2>1, <2>3 DEF Open, Ends, Skips, Begins, Computes, Leaves, Takes
  <2> QED
    BY <2>2, <2>3
<1>3. CASE k >= counter[Idx(p)]
  <2>1. CASE ~Takes(t) \/ p # product[t]
    <3>1. counter'[Idx(p)] = counter[Idx(p)]
      BY <2>1, Grows
    <3> QED
      BY <1>f, <1>3, <3>1 DEF Open
  <2>2. CASE Takes(t) /\ p = product[t]
    <3>1. counter'[Idx(p)] = counter[Idx(p)] + 1
      BY <2>2, Grows
    <3>2. pc'[t] = "chunk" /\ product'[t] = p /\ chunk'[t] = counter[Idx(p)]
      BY <2>2 DEF Takes
    <3> QED
      BY <1>f, <1>3, <3>1, <3>2 DEF Open
  <2> QED
    BY <2>1, <2>2
<1> QED
  BY <1>1, <1>2, <1>3 DEF Open

LEMMA HeldStep ==
    ASSUME Typed, Sync, Prepared, Phase(0) = 2, NEW t \in Thread, Step(t), Held
    PROVE  Held'
<1> SUFFICES ASSUME NEW u \in Thread, Working(u)'
             PROVE  \/ chunk'[u] = u
                    \/ NThreads <= chunk'[u] /\ chunk'[u] < counter'[Idx(product[u])']
  BY DEF Held
<1>1. CASE u # t
  <2>1. Working(u) /\ Live(product[u])
    BY <1>1, Frame, AtN DEF Working
  <2>2. Idx(product[u])' = Idx(product[u])
    BY <1>1, Frame DEF Idx
  <2>3. counter'[Idx(product[u])] >= counter[Idx(product[u])] /\ counter'[Idx(product[u])] \in Nat
    <3>1. counter' \in [0 .. NExperts -> Nat]
      BY StepTyped DEF Typed
    <3> QED
      BY <2>1, <3>1, Grows, LiveFacts
  <2>4. counter[Idx(product[u])] \in Nat
    BY <2>1, LiveFacts
  <2>5. chunk[u] \in Nat /\ chunk'[u] = chunk[u]
    BY <1>1, Frame DEF Typed
  <2> QED
    BY <2>1, <2>2, <2>3, <2>4, <2>5, NThreadsAssumption DEF Held
<1>2. CASE u = t
  <2>1. Begins(t) \/ Computes(t) \/ Takes(t)
    BY <1>2, Moves DEF Ends, Skips, Leaves, Working
  <2>2. CASE Begins(t)
    BY <1>2, <2>2 DEF Begins
  <2>3. CASE Computes(t)
    <3>1. Idx(product[t])' = Idx(product[t]) /\ chunk'[t] = chunk[t] /\ counter' = counter
      BY <1>2, <2>3, Frame DEF Computes, Working, Idx
    <3> QED
      BY <1>2, <2>3, <3>1 DEF Computes, Held, Working
  <2>4. CASE Takes(t)
    <3>1. Idx(product[t])' = Idx(product[t])
      BY <2>4, Frame DEF Takes, Idx
    <3>2. Live(product[t]) /\ chunk'[t] = counter[Idx(product[t])]
      BY <2>4 DEF Takes
    <3>3. counter[Idx(product[t])] \in Nat /\ counter[Idx(product[t])] >= NThreads
      BY <3>2, LiveFacts, High
    <3>4. counter'[Idx(product[t])] = counter[Idx(product[t])] + 1
      BY <2>4, <3>2, Grows
    <3> QED
      BY <1>2, <3>1, <3>2, <3>3, <3>4
  <2> QED
    BY <2>1, <2>2, <2>3, <2>4
<1> QED
  BY <1>1, <1>2

(* The one step that gives thread t a chunk gives it an open one.          *)
LEMMA ApartStep ==
    ASSUME Typed, Sync, Prepared, Phase(0) = 2, NEW t \in Thread, Step(t), Held, Apart
    PROVE  Apart'
<1>1. ASSUME NEW u \in Thread \ {t}, Working(u), Working(t)', product[u] = product'[t]
      PROVE  chunk[u] # chunk'[t]
  <2>1. /\ Live(product[u]) /\ counter[Idx(product[u])] \in Nat
        /\ counter[Idx(product[u])] >= NThreads
        /\ chunk[u] = u \/ (NThreads <= chunk[u] /\ chunk[u] < counter[Idx(product[u])])
        /\ chunk[u] \in Nat /\ u \in Nat /\ u < NThreads /\ t < NThreads /\ t \in Nat
    <3>1. Live(product[u])
      BY <1>1, AtN DEF Working
    <3>2. chunk[u] = u \/ (NThreads <= chunk[u] /\ chunk[u] < counter[Idx(product[u])])
      BY <1>1 DEF Held
    <3>3. chunk[u] \in Nat /\ u \in Nat /\ u < NThreads /\ t < NThreads /\ t \in Nat
      BY NThreadsAssumption DEF Typed, Thread
    <3> QED
      BY <3>1, <3>2, <3>3, LiveFacts, High
  <2>2. Begins(t) \/ Computes(t) \/ Takes(t)
    BY <1>1, Moves DEF Ends, Skips, Leaves, Working
  <2>3. CASE Begins(t)
    BY <1>1, <2>1, <2>3, NThreadsAssumption DEF Begins
  <2>4. CASE Computes(t)
    BY <1>1, <2>4 DEF Computes, Apart, Working
  <2>5. CASE Takes(t)
    BY <1>1, <2>1, <2>5, NThreadsAssumption DEF Takes
  <2> QED
    BY <2>2, <2>3, <2>4, <2>5
<1>2. ASSUME NEW u \in Thread \ {t} PROVE (Working(u)' <=> Working(u)) /\ product'[u] = product[u] /\ chunk'[u] = chunk[u]
  BY <1>2, Frame DEF Working
<1> QED
  BY <1>1, <1>2 DEF Apart

LEMMA CellsStep ==
    ASSUME Typed, Sync, Prepared, Phase(0) = 2, NEW t \in Thread, Step(t), During
    PROVE  /\ Untouched' /\ Covered' /\ again' = again
           /\ computed' \subseteq CellsOf(N)'
<1>f. /\ N' = N
      /\ \A p : Live(p)' = Live(p)
      /\ \A p, k : Part(p, k)' = Part(p, k)
  BY Frame
<1>1. CASE ~Computes(t)
  <2>1. UNCHANGED <<computed, again>>
    BY <1>1, Moves DEF Ends, Skips, Begins, Leaves, Takes, Same
  <2>2. Untouched'
    <3> SUFFICES ASSUME NEW p \in Nat, NEW k \in Nat, Live(p)', Open(p, k)'
                 PROVE  Part(p, k)' \cap computed' = {}
      BY DEF Untouched
    <3>1. Open(p, k)
      BY <1>f, NotOpened
    <3> QED
      BY <1>f, <2>1, <3>1 DEF During, Untouched
  <2>3. Covered'
    <3> SUFFICES ASSUME NEW p \in Nat, NEW k \in Nat, Live(p)',
                        k < NChunks(N.rows, N.cols[p])', ~Open(p, k)'
                 PROVE  Part(p, k)' \subseteq computed'
      BY DEF Covered
    <3>1. Live(p) /\ k < NChunks(N.rows, N.cols[p])
      BY <1>f
    <3>2. ~Open(p, k)
      <4> SUFFICES ASSUME Open(p, k) PROVE FALSE
        OBVIOUS
      <4>1. Leaves(t) /\ p = product[t] /\ k = chunk[t]
        BY <1>1, <3>1, Closed
      <4> QED
        BY <3>1, <4>1 DEF Leaves
    <3> QED
      BY <1>f, <2>1, <3>1, <3>2 DEF During, Covered
  <2>4. computed' \subseteq CellsOf(N)'
    BY <1>f, <2>1 DEF During, CellsOf
  <2> QED
    BY <2>1, <2>2, <2>3, <2>4
<1>2. CASE Computes(t)
  <2>q. PICK q \in Nat, l \in Nat : q = product[t] /\ l = chunk[t]
    BY DEF Typed
  <2>0. /\ pc[t] = "chunk" /\ Live(q)
        /\ computed' = computed \union Part(q, l)
        /\ again' = again \union (computed \cap Part(q, l))
    BY <1>2, <2>q DEF Computes
  <2>1. Part(q, l) \cap computed = {}
    <3>1. Open(q, l)
      BY <2>0, <2>q DEF Open
    <3> QED
      BY <2>0, <3>1 DEF During, Untouched
  <2>2. ~Open(q, l)'
    <3>1. /\ Idx(q)' = Idx(q)
          /\ \A u \in Thread \ {t} :
                pc'[u] = pc[u] /\ product'[u] = product[u] /\ chunk'[u] = chunk[u]
          /\ counter[Idx(q)] \in Nat /\ counter[Idx(q)] >= NThreads /\ counter' = counter
          /\ l = t \/ (NThreads <= l /\ l < counter[Idx(q)])
          /\ \A u \in Thread \ {t} : pc[u] = "chunk" /\ product[u] = q => chunk[u] # l
      <4>1. Idx(q)' = Idx(q) /\ counter' = counter
        BY <1>2, Frame DEF Computes
      <4>2. l = t \/ (NThreads <= l /\ l < counter[Idx(q)])
        BY <2>0, <2>q DEF During, Held, Working
      <4>3. \A u \in Thread \ {t} : pc[u] = "chunk" /\ product[u] = q => chunk[u] # l
        BY <2>0, <2>q DEF During, Apart, Working
      <4> QED
        BY <2>0, <4>1, <4>2, <4>3, Frame, LiveFacts, High
    <3>2. /\ pc'[t] \in {"product", "take"}
          /\ pc'[t] = "product" => product'[t] = q + 1
          /\ pc'[t] = "take" => product'[t] = q
      BY <1>2, <2>q DEF Computes
    <3>3. t \in Nat /\ t < NThreads
      BY NThreadsAssumption DEF Thread
    <3>4. ~(l \in Thread /\ (product'[l] < q \/ (product'[l] = q /\ pc'[l] = "product")))
      <4>1. CASE l = t
        BY <2>0, <3>2, <4>1
      <4>2. CASE NThreads <= l
        BY <2>0, <4>2, NThreadsAssumption DEF Thread
      <4> QED
        BY <3>1, <4>1, <4>2
    <3>5. ~(\E u \in Thread : pc'[u] = "chunk" /\ product'[u] = q /\ chunk'[u] = l)
      BY <3>1, <3>2
    <3>6. ~(l >= counter'[Idx(q)])
      BY <2>0, <3>1, <3>3, NThreadsAssumption
    <3> QED
      BY <3>1, <3>4, <3>5, <3>6 DEF Open
  <2>3. again' = again
    BY <2>0, <2>1
  <2>4. Untouched'
    <3> SUFFICES ASSUME NEW p \in Nat, NEW k \in Nat, Live(p)', Open(p, k)'
                 PROVE  Part(p, k)' \cap computed' = {}
      BY DEF Untouched
    <3>1. Live(p) /\ Open(p, k)
      BY <1>f, NotOpened
    <3>2. Part(p, k) \cap computed = {}
      BY <3>1 DEF During, Untouched
    <3>3. p # q \/ k # l
      BY <2>2
    <3>4. Part(p, k) \cap Part(q, l) = {}
      BY <2>0, <3>1, <3>3, PartsApart, PartsDiffer
    <3> QED
      BY <1>f, <2>0, <3>2, <3>4
  <2>5. Covered'
    <3> SUFFICES ASSUME NEW p \in Nat, NEW k \in Nat, Live(p)',
                        k < NChunks(N.rows, N.cols[p])', ~Open(p, k)'
                 PROVE  Part(p, k)' \subseteq computed'
      BY DEF Covered
    <3>1. Live(p) /\ k < NChunks(N.rows, N.cols[p])
      BY <1>f
    <3>2. CASE Open(p, k)
      BY <1>f, <2>q, <2>0, <3>1, <3>2, Closed
    <3>3. CASE ~Open(p, k)
      BY <1>f, <2>0, <3>1, <3>3 DEF During, Covered
    <3> QED
      BY <3>2, <3>3
  <2>6. computed' \subseteq CellsOf(N)'
    <3>1. Part(q, l) \subseteq CellsOf(N) /\ CellsOf(N)' = CellsOf(N)
      BY <1>f, <2>0, PartsInside DEF CellsOf
    <3> QED
      BY <2>0, <3>1 DEF During
  <2> QED
    BY <2>3, <2>4, <2>5, <2>6
<1> QED
  BY <1>1, <1>2

(* No thread leaves a product that still has chunks to take. *)
LEMMA LeftStep ==
    ASSUME Typed, Sync, Prepared, Phase(0) = 2, NEW t \in Thread, Step(t), Held, Left
    PROVE  Left'
<1> SUFFICES ASSUME NEW u \in Thread, NEW p \in Nat, Live(p)', product'[u] > p
             PROVE  counter'[Idx(p)'] >= NChunks(N.rows, N.cols[p])'
  BY DEF Left
<1>1. /\ Live(p) /\ Idx(p)' = Idx(p)
      /\ NChunks(N.rows, N.cols[p])' = NChunks(N.rows, N.cols[p])
  BY Frame
<1>2. /\ counter'[Idx(p)] >= counter[Idx(p)] /\ counter[Idx(p)] \in Nat
      /\ counter[Idx(p)] >= NThreads
      /\ NChunks(N.rows, N.cols[p]) \in Nat
  BY <1>1, Grows, LiveFacts, High
<1>3. counter'[Idx(p)] \in Nat
  <2>1. counter' \in [0 .. NExperts -> Nat]
    BY StepTyped DEF Typed
  <2> QED
    BY <1>1, <2>1, LiveFacts
<1>4. counter[Idx(p)] >= NChunks(N.rows, N.cols[p])
  <2>1. CASE product[u] > p
    BY <1>1, <2>1 DEF Left
  <2>2. CASE ~(product[u] > p)
    <3>1. u = t
      BY <2>2, Frame
    <3>2. product[t] \in Nat /\ chunk[t] \in Nat /\ t < NThreads /\ t \in Nat
      BY NThreadsAssumption DEF Typed, Thread
    <3>3. product[t] = p /\ (Computes(t) \/ Leaves(t)) /\ pc'[t] = "product"
      BY <1>1, <2>2, <3>1, <3>2, Moves DEF Ends, Skips, Begins, Computes, Leaves, Takes
    <3>4. CASE Computes(t)
      BY <1>2, <3>3, <3>4, NThreadsAssumption DEF Computes
    <3>5. CASE Leaves(t)
      <4>1. chunk[t] = t \/ (NThreads <= chunk[t] /\ chunk[t] < counter[Idx(p)])
        BY <3>3, <3>5 DEF Leaves, Held, Working
      <4>2. chunk[t] >= NChunks(N.rows, N.cols[p])
        BY <1>2, <3>2, <3>3, <3>5 DEF Leaves
      <4> QED
        BY <1>2, <3>2, <4>1, <4>2, NThreadsAssumption
    <3> QED
      BY <3>3, <3>4, <3>5
  <2> QED
    BY <2>1, <2>2
<1> QED
  BY <1>1, <1>2, <1>3, <1>4

LEMMA EndedStep ==
    ASSUME Typed, Sync, Phase(0) = 2, NEW t \in Thread, Step(t), Ended
    PROVE  Ended'
<1> SUFFICES ASSUME NEW u \in Thread, pc'[u] = "end" PROVE product'[u] > Len(N.cols)'
  BY DEF Ended
<1>1. CASE u # t
  BY <1>1, Frame DEF Ended
<1>2. CASE u = t
  BY <1>2, Frame, Moves DEF Ends, Skips, Begins, Computes, Leaves, Takes
<1> QED
  BY <1>1, <1>2

LEMMA ReleaseChunks ==
    ASSUME Typed, Sync, Prepared, ChunkInv, Release
    PROVE  ChunkInv'
<1>1. Phase(0) \in {1, 2} /\ (\A t \in Thread : Phase(t) = Phase(0))
  BY Zero DEF Release, Phase, Sync
<1>t. product' = [t \in Thread |-> 1] /\ UNCHANGED <<graph, counter>> /\ DOMAIN pc' = Thread
  BY DEF Release
<1>2. CASE Phase(0) = 1
  <2>1. \A t \in Thread : pc[t] = "ready"
    BY <1>1, <1>2 DEF Release, Phase
  <2>2. \A t \in Thread : pc'[t] = "product" /\ node'[t] = node[t]
    BY <2>1 DEF Release
  <2>3. computed' = {} /\ again' = {}
    BY <1>2, <2>1, Zero DEF Release, ChunkInv
  <2>4. N' = N /\ Phase(0)' = 2
    BY <1>t, <2>2, Zero DEF N, Of, Phase
  <2>5. ASSUME NEW p, Live(p)' PROVE p \in Nat \ {0} /\ counter'[Idx(p)'] = NThreads
    <3>1. Live(p) /\ Idx(p)' = Idx(p)
      BY <2>4, <2>5 DEF Live, Idx
    <3>2. PICK t \in Thread : Idx(p) \in Resets(t, N) /\ Of(t) = N /\ PreparedBy(t)
      BY <2>1, <3>1, CounterHigh
    <3>3. counter[Idx(p)] = NThreads
      BY <2>1, <3>2 DEF PreparedBy
    <3> QED
      BY <1>t, <1>2, <3>1, <3>3, LiveFacts
  <2>6. Covered'
    <3> SUFFICES ASSUME NEW p \in Nat, NEW k \in Nat, Live(p)' PROVE Open(p, k)'
      BY DEF Covered
    <3>1. p \in Nat \ {0} /\ counter'[Idx(p)'] = NThreads
      BY <2>5
    <3>2. CASE k \in Thread
      BY <1>t, <2>2, <3>1, <3>2 DEF Open
    <3>3. CASE k \notin Thread
      <4>1. k >= NThreads
        BY <3>3, NThreadsAssumption DEF Thread
      <4> QED
        BY <3>1, <4>1 DEF Open
    <3> QED
      BY <3>2, <3>3
  <2>7. Held' /\ Apart' /\ Ended'
    BY <2>2 DEF Held, Apart, Ended, Working
  <2>8. Left'
    <3> SUFFICES ASSUME NEW u \in Thread, NEW p \in Nat, Live(p)', product'[u] > p PROVE FALSE
      BY DEF Left
    <3>1. p >= 1
      BY <2>5
    <3> QED
      BY <1>t, <3>1
  <2>9. Untouched' /\ computed' \subseteq CellsOf(N)'
    BY <2>3 DEF Untouched
  <2> QED
    BY <2>3, <2>4, <2>6, <2>7, <2>8, <2>9 DEF ChunkInv, During
<1>3. CASE Phase(0) = 2
  <2>1. \A t \in Thread : pc[t] = "end"
    BY <1>1, <1>3 DEF Release, Phase
  <2>2. computed' = {} /\ again' = {}
    BY <2>1 DEF Release
  <2>3. Phase(0)' # 2
    BY <2>1, Zero DEF Release, Phase
  <2> QED
    BY <1>t, <2>2, <2>3 DEF ChunkInv
<1> QED
  BY <1>1, <1>2, <1>3

LEMMA ChunkStep == Typed /\ Sync /\ Prepared /\ ChunkInv /\ [Next]_vars => ChunkInv'
<1> SUFFICES ASSUME Typed, Sync, Prepared, ChunkInv, [Next]_vars PROVE ChunkInv'
  OBVIOUS
<1>1. CASE UNCHANGED vars
  BY <1>1 DEF vars, ChunkInv, Phase, During, Held, Apart, Untouched, Covered, Left, Ended,
              Open, Working, Live, Idx, Part, N, Of, CellsOf
<1>2. ASSUME NEW t \in Thread, Step(t) PROVE ChunkInv'
  <2>0. Phase(0)' = Phase(0) /\ Phase(t) = Phase(0) /\ Phase(0) \in {1, 2}
    BY <1>2, Zero, StepPhase DEF Sync
  <2>1. CASE Phase(0) = 1
    <3>1. Prepare(t)
      BY <1>2, <2>0, <2>1 DEF Step, Product, Compute, NoMoreChunks, Take, Phase
    <3> QED
      BY <2>0, <2>1, <3>1 DEF Prepare, ChunkInv
  <2>2. CASE Phase(0) = 2
    <3>1. During /\ again = {}
      BY <2>2 DEF ChunkInv
    <3>2. /\ Untouched' /\ Covered' /\ again' = {}
          /\ computed' \subseteq CellsOf(N)'
      BY <1>2, <2>2, <3>1, CellsStep
    <3>3. Held' /\ Apart' /\ Left' /\ Ended'
      BY <1>2, <2>2, <3>1, HeldStep, ApartStep, LeftStep, EndedStep DEF During
    <3> QED
      BY <2>0, <2>2, <3>2, <3>3 DEF ChunkInv, During
  <2> QED
    BY <2>0, <2>1, <2>2
<1>3. CASE Release
  BY <1>3, ReleaseChunks
<1> QED
  BY <1>1, <1>2, <1>3 DEF Next, Work, Finished

LEMMA InitChunks == Init => ChunkInv
BY Zero DEF Init, ChunkInv, Phase

(* No cell of any output is computed twice: for every number of threads,   *)
(* every shape and every size of chunk, a chunk has one taker.             *)
THEOREM MulMatOnce == Spec => []ComputedOnce
<1>1. ChunkInv => ComputedOnce
  BY DEF ChunkInv, ComputedOnce
<1> QED
  BY <1>1, InitTyped, InitPrepared, InitChunks, NextTyped, SyncStep, PreparedStep, ChunkStep,
     PTL DEF Spec

(* When the threads leave a node its output is complete, and nothing else  *)
(* was written.                                                            *)
THEOREM MulMatComplete == Spec => []NodesComplete
<1>1. Typed /\ Sync /\ ChunkInv => NodesComplete
  <2> SUFFICES ASSUME Typed, Sync, ChunkInv, \A t \in Thread : pc[t] = "end"
               PROVE  computed = CellsOf(N)
    BY DEF NodesComplete, N
  <2>1. Phase(0) = 2 /\ During
    BY Zero DEF Phase, ChunkInv
  <2>2. ASSUME NEW x \in CellsOf(N) PROVE x \in computed
    <3>1. PICK p \in Nat, k \in Nat : /\ Live(p) /\ k < NChunks(N.rows, N.cols[p])
                                      /\ x \in Part(p, k)
      BY <2>1, PartsCover
    <3>2. Len(N.cols) \in Nat /\ p <= Len(N.cols)
      <4>1. Len(N.cols) \in Nat
        BY <2>1, Zero, NodeFacts DEF N, Phase
      <4> QED
        BY <3>1, <4>1 DEF Live
    <3>3. \A t \in Thread : product[t] > p
      BY <2>1, <3>2 DEF During, Ended, Typed
    <3>4. counter[Idx(p)] >= NChunks(N.rows, N.cols[p])
      BY <2>1, <3>1, <3>3, Zero DEF During, Left
    <3>5. counter[Idx(p)] \in Nat /\ NChunks(N.rows, N.cols[p]) \in Nat
      BY <2>1, <3>1, LiveFacts
    <3>6. ~Open(p, k)
      <4>1. \A t \in Thread : product[t] \in Nat
        BY DEF Typed
      <4> QED
        BY <3>1, <3>3, <3>4, <3>5, <4>1 DEF Open
    <3> QED
      BY <2>1, <3>1, <3>6 DEF During, Covered
  <2> QED
    BY <2>1, <2>2 DEF During
<1> QED
  BY <1>1, InitTyped, InitPrepared, InitChunks, NextTyped, SyncStep, PreparedStep, ChunkStep,
     PTL DEF Spec

-----------------------------------------------------------------------------
(* How far a counter runs: past the last chunk each thread asks once more  *)
(* at most, because then it goes on to the next product.                   *)

Over(p) ==
    {t \in Thread : \/ product[t] > p
                    \/ /\ product[t] = p /\ pc[t] = "chunk"
                       /\ chunk[t] >= NChunks(N.rows, N.cols[p])}

Most(p) == IF NThreads > NChunks(N.rows, N.cols[p]) THEN NThreads ELSE NChunks(N.rows, N.cols[p])

Counted == \A p \in Nat : Live(p) => counter[Idx(p)] <= Most(p) + Cardinality(Over(p))

(* Only a product with more chunks than threads is asked for one. *)
Shared == \A t \in Thread : pc[t] = "take" => NThreads < NChunks(N.rows, N.cols[product[t]])

CountInv == Phase(0) = 2 => Counted /\ Shared

LEMMA OverFinite ==
    ASSUME NEW p
    PROVE  IsFiniteSet(Over(p)) /\ Cardinality(Over(p)) \in Nat
<1>1. IsFiniteSet(Thread)
  BY FS_Interval, NThreadsAssumption DEF Thread
<1>2. Over(p) \subseteq Thread
  BY DEF Over
<1> QED
  BY <1>1, <1>2, FS_Subset, FS_CardinalityType

LEMMA ThreadsFinite == IsFiniteSet(Thread) /\ Cardinality(Thread) = NThreads
<1>1. 0 \in Int /\ NThreads - 1 \in Int /\ ~(0 > NThreads - 1) /\ NThreads - 1 - 0 + 1 = NThreads
  BY NThreadsAssumption
<1> QED
  BY <1>1, FS_Interval DEF Thread

(* Who is past the last chunk of a product stays so. *)
LEMMA OverGrows ==
    ASSUME Typed, Sync, Phase(0) = 2, NEW t \in Thread, Step(t), NEW p \in Nat, Live(p)
    PROVE  /\ Over(p) \subseteq Over(p)'
           /\ Takes(t) /\ product[t] = p /\ counter[Idx(p)] >= NChunks(N.rows, N.cols[p])
                 => t \in Over(p)' /\ t \notin Over(p)
<1>0. N' = N /\ \A u \in Thread \ {t} :
                 pc'[u] = pc[u] /\ product'[u] = product[u] /\ chunk'[u] = chunk[u]
  BY Frame
<1>1. \A u \in Thread : product[u] \in Nat /\ chunk[u] \in Nat
  BY DEF Typed
<1>2. NChunks(N.rows, N.cols[p])' = NChunks(N.rows, N.cols[p])
  BY <1>0
<1>3. ASSUME NEW u \in Over(p) PROVE u \in Over(p)'
  <2>1. CASE u # t
    BY <1>0, <1>2, <1>3, <2>1 DEF Over
  <2>2. CASE u = t /\ product[t] > p
    <3>1. product'[t] >= product[t]
      BY <1>1, Moves DEF Ends, Skips, Begins, Computes, Leaves, Takes
    <3> QED
      BY <1>0, <1>1, <2>2, <3>1, StepTyped DEF Over, Typed
  <2>3. CASE u = t /\ ~(product[t] > p)
    <3>1. /\ product[t] = p /\ pc[t] = "chunk"
          /\ chunk[t] >= NChunks(N.rows, N.cols[p])
      BY <1>3, <2>3 DEF Over
    <3>2. ~HasChunk(t)
      <4>1. Rows(t) = N.rows /\ Cols(t) = N.cols[p] /\ NChunks(N.rows, N.cols[p]) \in Nat
        BY <3>1, AtN, LiveFacts DEF Rows
      <4> QED
        BY <1>1, <3>1, <4>1 DEF HasChunk
    <3>3. NoMoreChunks(t)
      BY <3>1, <3>2 DEF Step, Prepare, Product, Compute, Take
    <3>4. product'[t] = p + 1
      BY <3>1, <3>3 DEF NoMoreChunks, NextProduct, Typed
    <3> QED
      BY <2>3, <3>4 DEF Over
  <2> QED
    BY <2>1, <2>2, <2>3
<1>4. ASSUME Takes(t), product[t] = p, counter[Idx(p)] >= NChunks(N.rows, N.cols[p])
      PROVE  t \in Over(p)' /\ t \notin Over(p)
  <2>1. pc[t] = "take" /\ pc'[t] = "chunk" /\ product'[t] = p /\ chunk'[t] = counter[Idx(p)]
    BY <1>4 DEF Takes
  <2>2. t \in Over(p)'
    BY <1>2, <1>4, <2>1 DEF Over
  <2>3. t \notin Over(p)
    BY <1>1, <1>4, <2>1 DEF Over
  <2> QED
    BY <2>2, <2>3
<1> QED
  BY <1>3, <1>4

LEMMA CountStep ==
    ASSUME Typed, Sync, Phase(0) = 2, NEW t \in Thread, Step(t), Counted, Shared
    PROVE  Counted' /\ Shared'
<1>0. N' = N /\ (\A p : Live(p)' = Live(p) /\ Idx(p)' = Idx(p))
      /\ \A u \in Thread \ {t} :
             pc'[u] = pc[u] /\ product'[u] = product[u] /\ chunk'[u] = chunk[u]
  BY Frame
<1>1. Counted'
  <2> SUFFICES ASSUME NEW p \in Nat, Live(p)
               PROVE  counter'[Idx(p)] <= Most(p) + Cardinality(Over(p)')
    BY <1>0 DEF Counted, Most
  <2> DEFINE c == Cardinality(Over(p))
             d == Cardinality(Over(p)')
             k == NChunks(N.rows, N.cols[p])
  <2>1. IsFiniteSet(Over(p)) /\ IsFiniteSet(Over(p)') /\ c \in Nat /\ d \in Nat
    <3>1. Over(p)' \subseteq Thread
      BY DEF Over
    <3> QED
      BY <3>1, OverFinite, ThreadsFinite, FS_Subset, FS_CardinalityType
  <2>2. c <= d
    BY <2>1, OverGrows, FS_Subset
  <2>3. counter[Idx(p)] \in Nat /\ k \in Nat /\ Most(p) \in Nat /\ k <= Most(p)
        /\ counter[Idx(p)] <= Most(p) + c
    BY LiveFacts, NThreadsAssumption DEF Most, Counted
  <2>4. CASE ~(Takes(t) /\ product[t] = p)
    <3>1. counter'[Idx(p)] = counter[Idx(p)]
      BY <2>4, Grows
    <3> QED
      BY <2>1, <2>2, <2>3, <3>1
  <2>5. CASE Takes(t) /\ product[t] = p
    <3>1. counter'[Idx(p)] = counter[Idx(p)] + 1
      BY <2>5, Grows
    <3>2. CASE counter[Idx(p)] < k
      BY <2>1, <2>3, <3>1, <3>2
    <3>3. CASE counter[Idx(p)] >= k
      <4>1. t \in Over(p)' /\ t \notin Over(p) /\ Over(p) \subseteq Over(p)'
        BY <2>5, <3>3, OverGrows
      <4>2. /\ Cardinality(Over(p) \union {t}) = c + 1
            /\ Over(p) \union {t} \subseteq Over(p)'
        BY <2>1, <4>1, FS_AddElement
      <4>3. c + 1 <= d
        BY <2>1, <4>2, FS_Subset
      <4> QED
        BY <2>1, <2>3, <3>1, <4>3
    <3> QED
      BY <2>3, <3>2, <3>3
  <2> QED
    BY <2>4, <2>5
<1>2. Shared'
  <2> SUFFICES ASSUME NEW u \in Thread, pc'[u] = "take"
               PROVE  NThreads < NChunks(N.rows, N.cols[product'[u]])
    BY <1>0 DEF Shared
  <2>1. CASE u # t
    BY <1>0, <2>1 DEF Shared
  <2>2. CASE u = t
    <3>1. Computes(t) /\ product'[t] = product[t]
      BY <2>2, Moves DEF Ends, Skips, Begins, Computes, Leaves, Takes
    <3>2. Compute(t)
      BY <3>1, <2>2 DEF Computes, Step, Prepare, Product, Compute, NoMoreChunks, NextProduct,
            Take, GoTo, Typed
    <3>3. ~OnlyOwnChunks(t)
      BY <2>2, <3>2 DEF Compute, NextProduct, GoTo, Typed
    <3>4. Rows(t) = N.rows /\ Cols(t) = N.cols[product[t]]
          /\ NChunks(N.rows, N.cols[product[t]]) \in Nat
      BY <3>1, AtN, LiveFacts DEF Computes, Rows
    <3> QED
      BY <2>2, <3>1, <3>3, <3>4, NThreadsAssumption DEF OnlyOwnChunks
  <2> QED
    BY <2>1, <2>2
<1> QED
  BY <1>1, <1>2

LEMMA ReleaseCounts ==
    ASSUME Typed, Sync, Prepared, Release
    PROVE  CountInv'
<1>1. Phase(0) \in {1, 2} /\ (\A t \in Thread : Phase(t) = Phase(0))
  BY Zero DEF Release, Phase, Sync
<1>2. CASE Phase(0) = 1
  <2>1. \A t \in Thread : pc[t] = "ready"
    BY <1>1, <1>2 DEF Release, Phase
  <2>2. \A t \in Thread : pc'[t] = "product" /\ node'[t] = node[t]
    BY <2>1 DEF Release
  <2>3. N' = N /\ UNCHANGED <<graph, counter>>
    BY <2>2, Zero DEF Release, N, Of
  <2>4. Counted'
    <3> SUFFICES ASSUME NEW p \in Nat, Live(p)
                 PROVE  counter[Idx(p)] <= Most(p) + Cardinality(Over(p)')
      BY <2>3 DEF Counted, Live, Idx, Most
    <3>1. PICK t \in Thread : Idx(p) \in Resets(t, N) /\ Of(t) = N /\ PreparedBy(t)
      BY <2>1, CounterHigh
    <3>2. counter[Idx(p)] = NThreads
      BY <2>1, <3>1 DEF PreparedBy
    <3>3. Over(p)' \subseteq Thread
      BY DEF Over
    <3>4. Cardinality(Over(p)') \in Nat
      BY <3>3, ThreadsFinite, FS_Subset, FS_CardinalityType
    <3>5. Most(p) \in Nat /\ NThreads <= Most(p)
      BY <1>2, LiveFacts, NThreadsAssumption DEF Most
    <3> QED
      BY <3>2, <3>4, <3>5, NThreadsAssumption
  <2> QED
    BY <2>2, <2>4 DEF CountInv, Shared
<1>3. CASE Phase(0) = 2
  <2>1. \A t \in Thread : pc[t] = "end"
    BY <1>1, <1>3 DEF Release, Phase
  <2>2. Phase(0)' # 2
    BY <2>1, Zero DEF Release, Phase
  <2> QED
    BY <2>2 DEF CountInv
<1> QED
  BY <1>1, <1>2, <1>3

LEMMA CountInvStep == Typed /\ Sync /\ Prepared /\ CountInv /\ [Next]_vars => CountInv'
<1> SUFFICES ASSUME Typed, Sync, Prepared, CountInv, [Next]_vars PROVE CountInv'
  OBVIOUS
<1>1. CASE UNCHANGED vars
  BY <1>1 DEF vars, CountInv, Phase, Counted, Shared, Most, Over, Live, Idx, N, Of
<1>2. ASSUME NEW t \in Thread, Step(t) PROVE CountInv'
  <2>1. Phase(0)' = Phase(0)
    BY <1>2, Zero, StepPhase
  <2> QED
    BY <1>2, <2>1, CountStep DEF CountInv
<1>3. CASE Release
  BY <1>3, ReleaseCounts
<1> QED
  BY <1>1, <1>2, <1>3 DEF Next, Work, Finished

LEMMA CounterIsBounded == Typed /\ Sync /\ CountInv => CounterBounded
<1> SUFFICES ASSUME Typed, Sync, CountInv, NEW t \in Thread, pc[t] = "take"
             PROVE  counter[Counter(t)] < NChunks(Rows(t), Cols(t)) + NThreads
  BY DEF CounterBounded
<1> DEFINE p == product[t]
           k == NChunks(N.rows, N.cols[p])
<1>1. Phase(0) = 2 /\ Counted /\ Shared
  BY Zero DEF Sync, Phase, CountInv
<1>2. /\ Of(t) = N /\ Live(p) /\ Cols(t) = N.cols[p] /\ Counter(t) = Idx(p)
  BY <1>1, AtN
<1>3. p \in Nat /\ counter[Idx(p)] \in Nat /\ k \in Nat
  BY <1>1, <1>2, LiveFacts
<1>4. Most(p) = k
  BY <1>1, <1>3, NThreadsAssumption DEF Most, Shared
<1>5. t \notin Over(p) /\ Over(p) \subseteq Thread
  BY <1>3 DEF Over
<1>6. Over(p) \subseteq Thread \ {t}
  BY <1>5
<1>7. IsFiniteSet(Thread \ {t}) /\ Cardinality(Thread \ {t}) = NThreads - 1
  BY ThreadsFinite, FS_RemoveElement
<1>8. Cardinality(Over(p)) <= NThreads - 1 /\ Cardinality(Over(p)) \in Nat
  BY <1>6, <1>7, FS_Subset, OverFinite
<1>9. counter[Idx(p)] <= k + Cardinality(Over(p))
  BY <1>1, <1>2, <1>3, <1>4 DEF Counted
<1> HIDE DEF p, k
<1>10. counter[Idx(p)] < k + NThreads
  BY <1>3, <1>8, <1>9, NThreadsAssumption
<1> QED
  BY <1>2, <1>10 DEF p, k, Rows

(* The ranges of the other variables. *)
Bounded ==
    /\ \A t \in Thread : node[t] <= Len(graph) + 1 /\ product[t] <= NProducts + 1
    /\ converted \in [0 .. NBlocks - 1 -> 0 .. Len(graph)]
    /\ table \in 0 .. Len(graph)
    /\ Phase(0) = 3 => computed = {}

LEMMA Lengths ==
    ASSUME Typed
    PROVE  /\ Len(graph) \in Nat /\ NProducts \in Nat \ {0}
           /\ \A t \in Thread : pc[t] # "finished" =>
                 /\ node[t] \in 1 .. Len(graph)
                 /\ Len(Of(t).cols) \in Nat /\ Len(Of(t).cols) <= NProducts
<1>1. Len(graph) \in Nat /\ \A t \in Thread : pc[t] # "finished" => node[t] \in 1 .. Len(graph)
  BY GraphsAssumption DEF Typed
<1>2. NProducts \in Nat \ {0} /\ 1 <= NProducts /\ NExperts <= NProducts
  BY SizesAssumption DEF NProducts
<1> QED
  BY <1>1, <1>2, NodeFacts

LEMMA InitBounded == Init => Bounded /\ CountInv
<1> SUFFICES ASSUME Init PROVE Bounded /\ CountInv
  OBVIOUS
<1>1. Typed /\ Len(graph) \in Nat /\ NProducts \in Nat
  BY InitTyped, Lengths
<1>2. \A t \in Thread : node[t] = 1 /\ product[t] = 1 /\ pc[t] = "prepare"
  BY DEF Init
<1>3. converted \in [0 .. NBlocks - 1 -> 0 .. Len(graph)] /\ table \in 0 .. Len(graph)
  BY <1>1 DEF Init
<1>4. Phase(0) = 1
  BY <1>2, Zero DEF Phase
<1> QED
  BY <1>1, <1>2, <1>3, <1>4 DEF Bounded, CountInv

LEMMA BoundedStep == Typed /\ Sync /\ Bounded /\ [Next]_vars => Bounded'
<1> SUFFICES ASSUME Typed, Sync, Bounded, [Next]_vars PROVE Bounded'
  OBVIOUS
<1>1. CASE UNCHANGED vars
  BY <1>1 DEF vars, Bounded, Phase
<1>2. ASSUME NEW t \in Thread, Step(t) PROVE Bounded'
  <2>0. /\ UNCHANGED <<graph, node>> /\ Phase(0)' = Phase(0) /\ Phase(0) # 3
        /\ \A u \in Thread \ {t} : product'[u] = product[u]
        /\ pc[t] # "finished"
    BY <1>2, Zero, StepPhase DEF Sync, Phase
  <2>1. /\ product[t] \in Nat /\ Len(Of(t).cols) \in Nat /\ Len(Of(t).cols) <= NProducts
        /\ NProducts \in Nat /\ Len(graph) \in Nat /\ node[t] \in 1 .. Len(graph)
    BY <2>0, Lengths DEF Typed
  <2>2. product'[t] <= NProducts + 1
    <3>1. product'[t] = product[t] \/ (product'[t] = product[t] + 1 /\ product[t] <= Len(Of(t).cols))
      <4>1. CASE Product(t)
        <5>1. CASE product[t] > Len(Of(t).cols)
          BY <4>1, <5>1 DEF Product
        <5>2. CASE ~(product[t] > Len(Of(t).cols))
          <6>1. UNCHANGED product \/ product' = [product EXCEPT ![t] = @ + 1]
            BY <4>1, <5>2, Zenon DEF Product, NextProduct
          <6> QED
            BY <2>1, <5>2, <6>1 DEF Typed
        <5> QED
          BY <5>1, <5>2
      <4>2. CASE Compute(t) \/ NoMoreChunks(t)
        <5>1. pc[t] = "chunk" /\ product[t] <= Len(Of(t).cols)
          BY <2>1, <4>2 DEF Compute, NoMoreChunks, Typed
        <5>2. UNCHANGED product \/ product' = [product EXCEPT ![t] = @ + 1]
          BY <4>2, Zenon DEF Compute, NoMoreChunks, NextProduct
        <5> QED
          BY <5>1, <5>2 DEF Typed
      <4>3. CASE Prepare(t) \/ Take(t)
        BY <4>3 DEF Prepare, Take
      <4> QED
        BY <1>2, <4>1, <4>2, <4>3 DEF Step
    <3> QED
      BY <2>1, <3>1 DEF Bounded
  <2>3. converted' \in [0 .. NBlocks - 1 -> 0 .. Len(graph)] /\ table' \in 0 .. Len(graph)
    <3>1. CASE Prepare(t)
      <4>1. table' = node[t] \/ table' = table
        BY <3>1 DEF Prepare
      <4>2. converted' = converted \/
            converted' = [b \in 0 .. NBlocks - 1 |->
                             IF b \in Blocks(t) THEN node[t] ELSE converted[b]]
        BY <3>1 DEF Prepare, Bounded
      <4> QED
        BY <2>1, <4>1, <4>2 DEF Bounded
    <3>2. CASE ~Prepare(t)
      BY <1>2, <3>2 DEF Step, Product, Compute, NoMoreChunks, Take, Bounded
    <3> QED
      BY <3>1, <3>2
  <2> QED
    BY <2>0, <2>2, <2>3 DEF Bounded
<1>3. CASE Release
  <2>1. \A t \in Thread : pc[t] \in {"ready", "end"} /\ node[t] \in 1 .. Len(graph)
    BY <1>3, Lengths DEF Release
  <2>2. /\ UNCHANGED <<graph, converted, table>>
        /\ \A t \in Thread : product'[t] = 1 /\ (node'[t] = node[t] \/ node'[t] = node[t] + 1)
    BY <1>3 DEF Release
  <2>3. Phase(0)' = 3 => computed' = {}
    <3> SUFFICES ASSUME Phase(0)' = 3 PROVE computed' = {}
      OBVIOUS
    <3>1. pc[0] = "end"
      BY <1>3, <2>1, Zero DEF Release, Phase
    <3>2. \A t \in Thread : pc[t] = "end"
      BY <2>1, <3>1, Zero DEF Sync, Phase
    <3> QED
      BY <1>3, <3>2 DEF Release
  <2> QED
    BY <2>1, <2>2, <2>3, Lengths DEF Bounded
<1> QED
  BY <1>1, <1>2, <1>3 DEF Next, Work, Finished

(* Types, for every number of threads, blocks and experts: no thread runs  *)
(* past the graph or the products, and a counter is never further ahead of *)
(* the chunks than there are threads, so that it stays in its word.        *)
THEOREM MulMatTypes == Spec => []TypeOK
<1>1. Typed /\ Sync /\ ChunkInv /\ CountInv /\ Bounded => TypeOK
  <2> SUFFICES ASSUME Typed, Sync, ChunkInv, CountInv, Bounded PROVE TypeOK
    OBVIOUS
  <2>1. node \in [Thread -> 1 .. Len(graph) + 1] /\ product \in [Thread -> 1 .. NProducts + 1]
    BY Lengths DEF Typed, Bounded
  <2>2. computed \subseteq (1 .. NProducts) \X Nat \X Nat
    <3>1. CASE Phase(0) = 2
      <4> SUFFICES ASSUME NEW x \in CellsOf(N) PROVE x \in (1 .. NProducts) \X Nat \X Nat
        BY <3>1 DEF ChunkInv, During
      <4>1. PICK p \in 1 .. Len(N.cols) : x \in {p} \X (0 .. N.rows - 1) \X (0 .. N.cols[p] - 1)
        BY DEF CellsOf
      <4>2. p \in 1 .. NProducts
        BY <3>1, <4>1, Zero, Lengths DEF N, Phase
      <4>3. \E i \in 0 .. N.rows - 1, j \in 0 .. N.cols[p] - 1 : x = <<p, i, j>>
        BY <4>1
      <4>4. N.rows \in Nat /\ N.cols[p] \in Nat
        BY <3>1, Zero, NodeFacts DEF N, Phase
      <4> QED
        BY <4>2, <4>3, <4>4
    <3>2. CASE Phase(0) # 2
      BY <3>2 DEF ChunkInv, Bounded, Phase
    <3> QED
      BY <3>1, <3>2
  <2> QED
    BY <2>1, <2>2, CounterIsBounded DEF Typed, PCs, ChunkInv, Bounded, TypeOK
<1> QED
  BY <1>1, InitTyped, InitPrepared, InitChunks, InitBounded, NextTyped, SyncStep, PreparedStep,
     ChunkStep, CountInvStep, BoundedStep, PTL DEF Spec

=============================================================================
