----------------------------- MODULE GgmlMulMat -----------------------------
(***************************************************************************)
(* Matrix products in the threads of a pool, ggml-cpu.c: a chain of nodes  *)
(* computed by ggml_compute_forward_mul_mat or, for experts, by            *)
(* ggml_compute_forward_mul_mat_id.  Every thread converts its blocks of   *)
(* the input, then takes chunks of the output, the first by its number,    *)
(* more of them from a shared counter.                                     *)
(*                                                                         *)
(* The work buffer, the counters and the experts' row table are reused by  *)
(* every node; what keeps the nodes apart is one barrier inside each and   *)
(* one after it.  Numbers are abstracted to the node they are of: a block  *)
(* of the work buffer to the node it was last converted for, an output to  *)
(* the set of its cells that have been computed.                           *)
(***************************************************************************)
EXTENDS Integers, Sequences

CONSTANTS
    NThreads,   \* threads of the graph
    NBlocks,    \* blocks of the work buffer (ne10 over the block size)
    NExperts,   \* experts of a mul_mat_id (n_as)
    Chunk,      \* rows and columns of a chunk: 16 in the code
    ChunkVec,   \* the same if the output has one row or column: 64
    Numa,       \* ggml_is_numa
    Graphs      \* the graphs to compute, as sequences of nodes

Thread == 0 .. NThreads - 1

(* A node has an output of so many rows and, for each of its products,     *)
(* columns: one product in mul_mat, one per expert in mul_mat_id.  The     *)
(* columns of a mul_mat are those of one or more matrices of ne1 columns.  *)
Node == [experts : BOOLEAN, converts : BOOLEAN, twoRows : BOOLEAN,
         rows : Nat \ {0}, ne1 : Nat \ {0}, cols : Seq(Nat)]

ASSUME NThreadsAssumption == NThreads \in Nat \ {0}
ASSUME SizesAssumption ==
    /\ {NBlocks, Chunk, ChunkVec} \subseteq Nat \ {0}
    /\ NExperts \in Nat
    /\ Numa \in BOOLEAN
ASSUME GraphsAssumption ==
    \A g \in Graphs : g \in Seq(Node) /\ g # <<>> /\ \A i \in 1 .. Len(g) :
        /\ g[i].experts => Len(g[i].cols) = NExperts /\ ~g[i].twoRows
        /\ ~g[i].experts => /\ Len(g[i].cols) = 1
                            /\ g[i].cols[1] > 0 /\ g[i].cols[1] % g[i].ne1 = 0

VARIABLES
    graph,      \* the nodes
    node,       \* per thread: the node it is at
    product,    \* per thread: the product of that node it is at
    chunk,      \* per thread: the chunk it is at
    counter,    \* the next chunk: of mul_mat (0), of each expert's product
    converted,  \* per block of the work buffer: the node it was converted for
    table,      \* the node that the experts' rows are grouped for
    computed,   \* cells of the node computed, as <<product, row, column>>
    again,      \* those computed more than once
    pc          \* per thread: where it is

vars == <<graph, node, product, chunk, counter, converted, table, computed, again, pc>>

Init ==
    /\ graph \in Graphs
    /\ node = [t \in Thread |-> 1]
    /\ product = [t \in Thread |-> 1]
    /\ chunk = [t \in Thread |-> 0]
    /\ counter = [p \in 0 .. NExperts |-> 0]
    /\ converted = [b \in 0 .. NBlocks - 1 |-> 0]
    /\ table = 0
    /\ computed = {}
    /\ again = {}
    /\ pc = [t \in Thread |-> "prepare"]

GoTo(t, p) == pc' = [pc EXCEPT ![t] = p]

Of(t) == graph[node[t]]

-----------------------------------------------------------------------------
(* The chunks of an output of r rows and c columns.                        *)

\* Mutant of CeilDiv: the remainder is dropped.
CeilDiv_Floor(a, b) == IF a < b THEN 1 ELSE a \div b

CeilDiv(a, b) == (a + b - 1) \div b

Size(r, c) == IF r = 1 \/ c = 1 THEN ChunkVec ELSE Chunk

(* Too few chunks for the threads: one for each thread instead. *)
ByThread(r, c) ==
    CeilDiv(r, Size(r, c)) * CeilDiv(c, Size(r, c)) < 4 * NThreads \/ Numa

NChunk0(r, c) ==
    IF ~ByThread(r, c) THEN CeilDiv(r, Size(r, c)) ELSE IF r > c THEN NThreads ELSE 1

NChunk1(r, c) ==
    IF ~ByThread(r, c) THEN CeilDiv(c, Size(r, c)) ELSE IF r > c THEN 1 ELSE NThreads

NChunks(r, c) == NChunk0(r, c) * NChunk1(r, c)

(* A chunk's rows and columns, as <<first, end>>; the last ones are cut,   *)
(* to nothing or less if there are more threads than rows.                 *)
Range0(r, c, k) ==
    LET d == CeilDiv(r, NChunk0(r, c))
        first == d * (k % NChunk0(r, c))
    IN  <<first, IF first + d < r THEN first + d ELSE r>>

Range1(r, c, k) ==
    LET d == CeilDiv(c, NChunk1(r, c))
        first == d * (k \div NChunk0(r, c))
    IN  <<first, IF first + d < c THEN first + d ELSE c>>

Odd(range) == (range[2] - range[1]) % 2 # 0

\* Mutant of TwoByTwo: the columns of one matrix may be odd in number.
TwoByTwo_AnyMatrix(n, k) ==
    /\ n.twoRows
    /\ n.rows % 2 = 0
    /\ ~Odd(Range0(n.rows, n.cols[1], k)) /\ ~Odd(Range1(n.rows, n.cols[1], k))

(* The dot product takes two rows and two columns at a time (mmla). *)
TwoByTwo(n, k) ==
    /\ n.twoRows
    /\ n.rows % 2 = 0 /\ n.ne1 % 2 = 0
    /\ ~Odd(Range0(n.rows, n.cols[1], k)) /\ ~Odd(Range1(n.rows, n.cols[1], k))

-----------------------------------------------------------------------------
(* This thread's blocks of every column of the input. *)
Blocks(t) == (t * NBlocks) \div NThreads .. ((t + 1) * NBlocks) \div NThreads - 1

\* Mutant of FirstShared: the threads' own chunks are handed out again.
FirstShared_One == 1

(* The first chunk that no thread starts with. *)
FirstShared == NThreads

(* The counters this thread resets: that of mul_mat is thread 0's.   *)
Resets(t, n) ==
    IF n.experts
    THEN {p \in 1 .. NExperts : (p - 1) % NThreads = t}
    ELSE {0} \cap {t}

\* Mutant of Prepare: no barrier before the products.
Prepare_NoBarrier(t) ==
    /\ pc[t] = "prepare"
    /\ converted' = IF Of(t).converts
                    THEN [b \in DOMAIN converted |->
                            IF b \in Blocks(t) THEN node[t] ELSE converted[b]]
                    ELSE converted
    /\ table' = IF Of(t).experts /\ t = 0 THEN node[t] ELSE table
    /\ counter' = [p \in DOMAIN counter |->
                     IF p \in Resets(t, Of(t)) THEN FirstShared ELSE counter[p]]
    /\ GoTo(t, "product")
    /\ UNCHANGED <<graph, node, product, chunk, computed, again>>

(* Before the barrier: convert, group the rows by expert, reset counters.  *)
Prepare(t) ==
    /\ pc[t] = "prepare"
    /\ converted' = IF Of(t).converts
                    THEN [b \in DOMAIN converted |->
                            IF b \in Blocks(t) THEN node[t] ELSE converted[b]]
                    ELSE converted
    /\ table' = IF Of(t).experts /\ t = 0 THEN node[t] ELSE table
    /\ counter' = [p \in DOMAIN counter |->
                     IF p \in Resets(t, Of(t)) THEN FirstShared ELSE counter[p]]
    /\ GoTo(t, "ready")
    /\ UNCHANGED <<graph, node, product, chunk, computed, again>>

(* The barrier: of the node ("ready"), or after it ("end"). *)
Release ==
    /\ \A t \in Thread : pc[t] \in {"ready", "end"}
    /\ node' = [t \in Thread |-> IF pc[t] = "end" THEN node[t] + 1 ELSE node[t]]
    /\ pc' = [t \in Thread |-> IF pc[t] = "ready" THEN "product"
                               ELSE IF node[t] < Len(graph) THEN "prepare" ELSE "finished"]
    /\ product' = [t \in Thread |-> 1]
    /\ IF \A t \in Thread : pc[t] = "end"
       THEN computed' = {} /\ again' = {}
       ELSE UNCHANGED <<computed, again>>
    /\ UNCHANGED <<graph, chunk, counter, converted, table>>

NextProduct(t) == product' = [product EXCEPT ![t] = @ + 1] /\ GoTo(t, "product")

(* Experts without rows are skipped; the first chunk goes by the number.   *)
Product(t) ==
    /\ pc[t] = "product"
    /\ IF product[t] > Len(Of(t).cols) THEN GoTo(t, "end") /\ UNCHANGED product
       ELSE IF Of(t).cols[product[t]] = 0 THEN NextProduct(t)
       ELSE GoTo(t, "chunk") /\ UNCHANGED product
    /\ chunk' = [chunk EXCEPT ![t] = t]
    /\ UNCHANGED <<graph, node, counter, converted, table, computed, again>>

Rows(t) == Of(t).rows
Cols(t) == Of(t).cols[product[t]]

(* The cells of the chunk that thread t is at. *)
Cells(t) ==
    LET r == Range0(Rows(t), Cols(t), chunk[t])
        c == Range1(Rows(t), Cols(t), chunk[t])
    IN  {product[t]} \X (r[1] .. r[2] - 1) \X (c[1] .. c[2] - 1)

HasChunk(t) == chunk[t] < NChunks(Rows(t), Cols(t))

(* As many threads as chunks: nothing is left to take. *)
OnlyOwnChunks(t) == NThreads >= NChunks(Rows(t), Cols(t))

Compute(t) ==
    /\ pc[t] = "chunk" /\ HasChunk(t)
    /\ computed' = computed \union Cells(t)
    /\ again' = again \union (computed \cap Cells(t))
    /\ IF OnlyOwnChunks(t) THEN NextProduct(t) ELSE GoTo(t, "take") /\ UNCHANGED product
    /\ UNCHANGED <<graph, node, chunk, counter, converted, table>>

NoMoreChunks(t) ==
    /\ pc[t] = "chunk" /\ ~HasChunk(t)
    /\ NextProduct(t)
    /\ UNCHANGED <<graph, node, chunk, counter, converted, table, computed, again>>

Counter(t) == IF Of(t).experts THEN product[t] ELSE 0

(* atomic_fetch_add *)
Take(t) ==
    /\ pc[t] = "take"
    /\ chunk' = [chunk EXCEPT ![t] = counter[Counter(t)]]
    /\ counter' = [counter EXCEPT ![Counter(t)] = @ + 1]
    /\ GoTo(t, "chunk")
    /\ UNCHANGED <<graph, node, product, converted, table, computed, again>>

Step(t) == Prepare(t) \/ Product(t) \/ Compute(t) \/ NoMoreChunks(t) \/ Take(t)

Finished ==
    /\ \A t \in Thread : pc[t] = "finished"
    /\ UNCHANGED vars

Work == Release \/ \E t \in Thread : Step(t)

Next == Work \/ Finished

(* As long as some thread can run, one of them does. *)
Spec == Init /\ [][Next]_vars /\ WF_vars(Work)

-----------------------------------------------------------------------------
NProducts == IF NExperts > 1 THEN NExperts ELSE 1

CellsOf(n) ==
    UNION {{p} \X (0 .. n.rows - 1) \X (0 .. n.cols[p] - 1) : p \in 1 .. Len(n.cols)}

(* No counter runs further ahead of the chunks than the threads that ask.  *)
CounterBounded ==
    \A t \in Thread : pc[t] = "take" =>
        counter[Counter(t)] < NChunks(Rows(t), Cols(t)) + NThreads

(* Types of the variables. *)
TypeOK ==
    /\ graph \in Graphs
    /\ node \in [Thread -> 1 .. Len(graph) + 1]
    /\ product \in [Thread -> 1 .. NProducts + 1]
    /\ chunk \in [Thread -> Nat]
    /\ counter \in [0 .. NExperts -> Nat]
    /\ CounterBounded
    /\ converted \in [0 .. NBlocks - 1 -> 0 .. Len(graph)]
    /\ table \in 0 .. Len(graph)
    /\ again \subseteq computed
    /\ computed \subseteq (1 .. NProducts) \X Nat \X Nat
    /\ pc \in [Thread -> {"prepare", "ready", "product", "chunk", "take", "end", "finished"}]

(* No two threads ever compute the same cell, or one thread twice: chunks  *)
(* do not overlap, and a chunk has one taker, in every product.            *)
ComputedOnce == again = {}

(* When all threads are done with a node, all of its output is computed,   *)
(* and nothing outside of it.                                              *)
NodesComplete ==
    (\A t \in Thread : pc[t] = "end") => computed = CellsOf(Of(0))

(* Who computes reads the input of its own node, converted to the last     *)
(* block, and its own node's table of rows: neither the last node's any    *)
(* more nor the next one's yet.                                            *)
ReadsThisNode ==
    \A t \in Thread :
        /\ pc[t] \in {"product", "chunk"} /\ Of(t).experts => table = node[t]
        /\ pc[t] = "chunk" /\ HasChunk(t) /\ Of(t).converts =>
                \A b \in DOMAIN converted : converted[b] = node[t]

(* Two columns taken at a time are neighbours in one matrix and in one     *)
(* chunk, and so are two rows ("these checks are needed to avoid crossing  *)
(* dim1 boundaries").                                                      *)
PairsInside ==
    \A t \in Thread : pc[t] = "chunk" /\ HasChunk(t) /\ TwoByTwo(Of(t), chunk[t]) =>
        LET r == Range0(Rows(t), Cols(t), chunk[t])
            c == Range1(Rows(t), Cols(t), chunk[t])
        IN  /\ \A i \in r[1] .. r[2] - 1 : (i - r[1]) % 2 = 0 => i + 1 < r[2]
            /\ \A j \in c[1] .. c[2] - 1 : (j - c[1]) % 2 = 0 =>
                  /\ j + 1 < c[2]
                  /\ j \div Of(t).ne1 = (j + 1) \div Of(t).ne1

(* Every graph gets done. *)
Finishes == <>(\A t \in Thread : pc[t] = "finished")

=============================================================================
