------------------------------ MODULE PQFusion ------------------------------
(***************************************************************************)
(* Same-input GEMV fusion: the threads of one CPU pool walk a graph        *)
(* (ggml_graph_compute_thread, ggml-cpu.c), and matrix-vector products on  *)
(* PQ tensors are not computed at their node but appended to a pending     *)
(* group, which one two-phase pass computes later (pq_s1_flush,            *)
(* pq-gemv.cpp).  The group is per thread and unsynchronised; all that     *)
(* keeps the threads' groups equal, and every reader behind the pass that  *)
(* writes what it reads, is where the code puts its barriers.              *)
(*                                                                         *)
(* A thread is in the barrier when its pc is one of BarrierSites; the      *)
(* barrier is the one of BarrierSpec and does not look at the call site.   *)
(* Phases that take time (phase 1 fills the thread's row of partial sums,  *)
(* phase 2 reads all rows and writes outputs) last from the step that      *)
(* enters the pc to the step that leaves it.                               *)
(***************************************************************************)
EXTENDS Integers, Sequences

CONSTANTS
    NThreads,       \* threads of the pool (nth)
    KMaxThreads,    \* kMaxThreads: slots of g_s1_group
    MaxGroup,       \* members an S1Group has room for
    LoadsDuringCompute, \* may a model be loaded while a graph is computed?
    Graphs          \* the graphs the program computes

ASSUME PoolAssumption ==
    /\ NThreads \in Nat \ {0}
    /\ KMaxThreads \in Nat \ {0}
    /\ MaxGroup \in Nat \ {0}
    /\ LoadsDuringCompute \in BOOLEAN

Thread == 0 .. NThreads - 1

(***************************************************************************)
(* A graph is the sequence of nodes the loop does not step over (those     *)
(* with an operation and the COMPUTE flag; an RMS_NORM fused with its MUL  *)
(* is one node), and a flag: does a node that is stepped over follow the   *)
(* last one?  A node has                                                   *)
(*   op   "dense"  left to the ordinary kernels                            *)
(*        "s1", "s2", "group"  decode-shaped MUL_MAT on a tensor           *)
(*                 registered in mode 0, 1, 2                              *)
(*        "off"    the same, but the hook returns GGML_PQ_MM_NONE (other   *)
(*                 dimensions, or switched off by GGML_PQ_DISABLE_...)     *)
(*   key  its src1, the fusion identity: the node that computes it or 0    *)
(*   srcs the nodes whose outputs it reads; of a MUL_MAT on a registered   *)
(*        tensor, which is an input, that is src1                          *)
(*   rows the length of its output                                         *)
(*   segs the pieces of the output that are S1 members (one, or the        *)
(*        segments of a fused tensor, whose offsets the loader sets to the *)
(*        running sum of their lengths), by offset and length              *)
(***************************************************************************)
Ops == {"dense", "s1", "s2", "group", "off"}

NodeType == [op : Ops, key : Nat, srcs : SUBSET Nat, rows : Nat \ {0},
             segs : Seq([off : Nat, len : Nat])]

End(seg) == seg.off + seg.len

IsGraph(g) ==
    /\ g \in [nops : BOOLEAN, nodes : Seq(NodeType)]
    /\ g.nodes # <<>>
    /\ \A i \in DOMAIN g.nodes :
        LET n == g.nodes[i] IN
        /\ n.srcs \subseteq 1 .. i - 1
        /\ n.key = 0 \/ n.key \in n.srcs
        /\ n.op # "dense" => n.srcs \subseteq {n.key}
        /\ Len(n.segs) \in 1 .. MaxGroup
        /\ n.op # "group" => Len(n.segs) = 1
        /\ End(n.segs[Len(n.segs)]) = n.rows
        /\ \A m \in DOMAIN n.segs : End(n.segs[m]) <= n.rows
        /\ \A r \in 0 .. n.rows - 1 : \E m \in DOMAIN n.segs :
              r \in n.segs[m].off .. End(n.segs[m]) - 1

ASSUME GraphsAssumption == Graphs # {} /\ \A g \in Graphs : IsGraph(g)

VARIABLES
    graph,      \* the graph being computed
    noFuse,     \* is GGML_PQ_NO_FUSE set?  (read once per process)
    enabled,    \* g_pq_enabled, with at least one tensor registered
    abort,      \* tp->abort: the node to stop at, 0 for none
    pc,         \* pc[t]: where thread t is
    node_n,     \* node_n[t]: its loop counter
    group,      \* group[t]: its slot of g_s1_group
    flushing,   \* flushing[t]: the members of the pass it is in
    sync,       \* sync[t]: the argument of that pq_s1_flush
    ret,        \* ret[t]: where the pass returns to
    partials,   \* partials[u]: the pass that filled row u of g_s1_partials
    out         \* the output elements written, as <<node, row>>

locals == <<node_n, group, flushing, sync, ret>>
vars == <<graph, noFuse, enabled, abort, pc, locals, partials, out>>

-----------------------------------------------------------------------------
(* Work is dealt out as contiguous ranges: thread t of nth gets            *)
(* D*t/nth .. D*(t+1)/nth - 1 of D elements, rounding down.                *)
Slice_DropRemainder(D, t) ==
    t * (D \div NThreads) .. (t + 1) * (D \div NThreads) - 1

Slice(D, t) == (D * t) \div NThreads .. (D * (t + 1)) \div NThreads - 1

Nodes == DOMAIN graph.nodes
Node(t) == graph.nodes[node_n[t]]
Cells(n) == {<<n, r>> : r \in 0 .. graph.nodes[n].rows - 1}
OwnCells(t) == {<<node_n[t], r>> : r \in Slice(Node(t).rows, t)}

(* S1Group: members by node and segment; start is where the member's rows  *)
(* begin in the concatenation of the group's outputs.                      *)
NoGroup == [key |-> 0, mem |-> <<>>]
Active(t) == group[t].mem # <<>>

Total(mem) == IF mem = <<>> THEN 0
              ELSE mem[Len(mem)].start + mem[Len(mem)].len

Add(mem, n, seg) ==
    Append(mem, [node |-> n, off |-> seg.off, len |-> seg.len, start |-> Total(mem)])

Members(n, segs) ==
    [m \in DOMAIN segs |->
        [node |-> n, off |-> segs[m].off, len |-> segs[m].len, start |-> segs[m].off]]

(* Phase 2: the range of the concatenated outputs that is t's, cut at the  *)
(* members' borders.                                                       *)
Phase2Cells(mem, t) ==
    UNION {{<<mem[m].node, mem[m].off + r>> :
               r \in {q \in 0 .. mem[m].len - 1 :
                        mem[m].start + q \in Slice(Total(mem), t)}} :
           m \in DOMAIN mem}

-----------------------------------------------------------------------------
(* pq_s1_flush, first half: the group is taken and phase 1 begins.         *)
StartFlush(t, mem, s, r) ==
    /\ pc' = [pc EXCEPT ![t] = "phase1"]
    /\ group' = [group EXCEPT ![t] = NoGroup]
    /\ flushing' = [flushing EXCEPT ![t] = mem]
    /\ sync' = [sync EXCEPT ![t] = s]
    /\ ret' = [ret EXCEPT ![t] = r]
    /\ UNCHANGED <<graph, noFuse, enabled, abort, node_n, partials, out>>

(* A thread beyond the slots has no group to take; its pass uses a group   *)
(* on the stack.                                                           *)
HasSlot(t) == t < KMaxThreads

\* Mutant of Phase1: no barrier between the phases.
Phase1_NoBarrier(t) ==
    /\ pc[t] = "phase1"
    /\ partials' = [partials EXCEPT ![t] = flushing[t]]
    /\ pc' = [pc EXCEPT ![t] = "phase2"]
    /\ UNCHANGED <<graph, noFuse, enabled, abort, locals, out>>

(* Phase 1 done: the thread's row of every member is filled.  It arrives   *)
(* at the barrier between the phases.                                      *)
Phase1(t) ==
    /\ pc[t] = "phase1"
    /\ partials' = [partials EXCEPT ![t] = flushing[t]]
    /\ pc' = [pc EXCEPT ![t] = "bPhase1"]
    /\ UNCHANGED <<graph, noFuse, enabled, abort, locals, out>>

\* Mutant of Phase2: a thread with an empty slice returns at once.
Phase2_EarlyReturn(t) ==
    /\ pc[t] = "phase2"
    /\ out' = out \union Phase2Cells(flushing[t], t)
    /\ pc' = [pc EXCEPT ![t] = IF sync[t] /\ Slice(Total(flushing[t]), t) # {}
                               THEN "bPhase2" ELSE ret[t]]
    /\ UNCHANGED <<graph, noFuse, enabled, abort, locals, partials>>

(* Phase 2 done: the thread's slice of the outputs is written.  A          *)
(* synchronous pass ends with a second barrier.                            *)
Phase2(t) ==
    /\ pc[t] = "phase2"
    /\ out' = out \union Phase2Cells(flushing[t], t)
    /\ pc' = [pc EXCEPT ![t] = IF sync[t] THEN "bPhase2" ELSE ret[t]]
    /\ UNCHANGED <<graph, noFuse, enabled, abort, locals, partials>>

-----------------------------------------------------------------------------
(* ggml_pq_node_boundary flushes, except before a decode-shaped MUL_MAT on *)
(* a registered tensor.                                                    *)
SelfManaged(op) == op # "dense"

BoundaryFlushes(t) ==
    /\ enabled
    /\ HasSlot(t)
    /\ Active(t)
    /\ ~SelfManaged(Node(t).op)

AtNode(t) ==
    /\ pc[t] = "loop"
    /\ node_n[t] <= Len(graph.nodes)
    /\ abort # node_n[t]

\* Mutant of BoundaryFlush: the flush before a consumer is not synchronous.
BoundaryFlush_NoSync(t) ==
    /\ AtNode(t)
    /\ BoundaryFlushes(t)
    /\ StartFlush(t, group[t].mem, FALSE, "compute")

(* The head of the node loop, with a group to flush before the node ...    *)
BoundaryFlush(t) ==
    /\ AtNode(t)
    /\ BoundaryFlushes(t)
    /\ StartFlush(t, group[t].mem, TRUE, "compute")

(* ... with none ... *)
EnterNode(t) ==
    /\ AtNode(t)
    /\ ~BoundaryFlushes(t)
    /\ pc' = [pc EXCEPT ![t] = "compute"]
    /\ UNCHANGED <<graph, noFuse, enabled, abort, locals, partials, out>>

(* ... and at the end of the nodes, or at the node to stop at.             *)
LeaveLoop(t) ==
    /\ pc[t] = "loop"
    /\ node_n[t] > Len(graph.nodes) \/ abort = node_n[t]
    /\ pc' = [pc EXCEPT ![t] = "tail"]
    /\ UNCHANGED <<graph, noFuse, enabled, abort, locals, partials, out>>

-----------------------------------------------------------------------------
(* ggml_compute_forward with ggml_pq_mul_mat_fused.                        *)

(* The hook takes the node. *)
Hooked(t) ==
    /\ enabled
    /\ Node(t).op \in {"s1", "s2", "group"}
    /\ Node(t).op = "group" => HasSlot(t)

\* Mutant of Joins: any input matches.
Joins_AnyKey(t) ==
    /\ Active(t)
    /\ Len(group[t].mem) < MaxGroup

(* An S1 product joins the pending group when it has the same input and    *)
(* there is room.                                                          *)
Joins(t) ==
    /\ Active(t)
    /\ group[t].key = Node(t).key
    /\ Len(group[t].mem) < MaxGroup

Defers(t) == Node(t).op = "s1" /\ ~noFuse /\ HasSlot(t)

FlushesFirst(t) ==
    /\ Hooked(t)
    /\ HasSlot(t)
    /\ Active(t)
    /\ ~(Defers(t) /\ Joins(t))

(* A pending group that the node does not join is flushed first,           *)
(* synchronously unless fusion is switched off.                            *)
HookFlush(t) ==
    /\ pc[t] = "compute"
    /\ FlushesFirst(t)
    /\ StartFlush(t, group[t].mem, Node(t).op = "s1" => ~noFuse, "compute")

(* GGML_PQ_MM_DEFERRED: the node's input is copied into the group, its     *)
(* output is left to the flush.                                            *)
Defer(t) ==
    /\ pc[t] = "compute"
    /\ Hooked(t)
    /\ Defers(t)
    /\ ~FlushesFirst(t)
    /\ group' = [group EXCEPT ![t] =
                    [key |-> Node(t).key,
                     mem |-> Add(group[t].mem, node_n[t], Node(t).segs[1])]]
    /\ pc' = [pc EXCEPT ![t] = "after"]
    /\ UNCHANGED <<graph, noFuse, enabled, abort, node_n, flushing, sync, ret, partials, out>>

(* GGML_PQ_MM_DONE by a pass of its own: a mode 2 tensor, an S1 product    *)
(* with fusion switched off, or an S1 product on a thread without a slot.  *)
RunNow(t) ==
    /\ pc[t] = "compute"
    /\ Hooked(t)
    /\ Node(t).op # "s2"
    /\ ~Defers(t)
    /\ ~FlushesFirst(t)
    /\ StartFlush(t, Members(node_n[t], Node(t).segs), FALSE, "after")

(* Anything else writes its share of the output at once: S2 products,      *)
(* ordinary operations, and products the hook declines.                    *)
ComputeNow(t) ==
    /\ pc[t] = "compute"
    /\ Hooked(t) => Node(t).op = "s2" /\ ~FlushesFirst(t)
    /\ out' = out \union OwnCells(t)
    /\ pc' = [pc EXCEPT ![t] = "after"]
    /\ UNCHANGED <<graph, noFuse, enabled, abort, locals, partials>>

\* Mutant of AbortChoices: the node to stop at is the current one.
AbortChoices_Here(t) == IF t = 0 THEN {abort, node_n[t]} ELSE {abort}

(* After the node, thread 0 asks the abort callback, which may say stop    *)
(* at the next node.                                                       *)
AbortChoices(t) == IF t = 0 THEN {abort, node_n[t] + 1} ELSE {abort}

(* Then a barrier, unless this was the last node of the graph.             *)
AfterNode(t) ==
    /\ pc[t] = "after"
    /\ abort' \in AbortChoices(t)
    /\ IF node_n[t] < Len(graph.nodes) \/ graph.nops
       THEN pc' = [pc EXCEPT ![t] = "bNode"] /\ UNCHANGED node_n
       ELSE pc' = [pc EXCEPT ![t] = "loop"] /\ node_n' = [node_n EXCEPT ![t] = @ + 1]
    /\ UNCHANGED <<graph, noFuse, enabled, group, flushing, sync, ret, partials, out>>

-----------------------------------------------------------------------------
\* Mutant of AfterLoop: an aborted graph goes straight to its end.
AfterLoop_NotAborted(t) ==
    /\ pc[t] = "tail"
    /\ pc' = [pc EXCEPT ![t] = IF enabled /\ abort = 0 THEN "bTail" ELSE "bFinal"]
    /\ UNCHANGED <<graph, noFuse, enabled, abort, locals, partials, out>>

(* After the loop: a barrier and ggml_pq_graph_end when PQ is on, then the *)
(* barrier that ends the graph.                                            *)
AfterLoop(t) ==
    /\ pc[t] = "tail"
    /\ pc' = [pc EXCEPT ![t] = IF enabled THEN "bTail" ELSE "bFinal"]
    /\ UNCHANGED <<graph, noFuse, enabled, abort, locals, partials, out>>

\* Mutant of GraphEndFlush: the group of the last node is forgotten.
GraphEndFlush_Missing(t) ==
    /\ pc[t] = "graphEnd"
    /\ enabled /\ HasSlot(t) /\ Active(t)
    /\ pc' = [pc EXCEPT ![t] = "bFinal"]
    /\ UNCHANGED <<graph, noFuse, enabled, abort, locals, partials, out>>

GraphEndFlush(t) ==
    /\ pc[t] = "graphEnd"
    /\ enabled /\ HasSlot(t) /\ Active(t)
    /\ StartFlush(t, group[t].mem, TRUE, "final")

GraphEndIdle(t) ==
    /\ pc[t] = "graphEnd"
    /\ ~(enabled /\ HasSlot(t) /\ Active(t))
    /\ pc' = [pc EXCEPT ![t] = "bFinal"]
    /\ UNCHANGED <<graph, noFuse, enabled, abort, locals, partials, out>>

Final(t) ==
    /\ pc[t] = "final"
    /\ pc' = [pc EXCEPT ![t] = "bFinal"]
    /\ UNCHANGED <<graph, noFuse, enabled, abort, locals, partials, out>>

(* The barrier: once every thread is at some call of it, all go on from    *)
(* where they are.                                                         *)
BarrierSites == {"bPhase1", "bPhase2", "bNode", "bTail", "bFinal"}

Waiting == {t \in Thread : pc[t] \in BarrierSites}

Resume(t) == CASE pc[t] = "bPhase1" -> "phase2"
               [] pc[t] = "bPhase2" -> ret[t]
               [] pc[t] = "bNode"   -> "loop"
               [] pc[t] = "bTail"   -> "graphEnd"
               [] pc[t] = "bFinal"  -> "done"

Release ==
    /\ Waiting = Thread
    /\ pc' = [t \in Thread |-> Resume(t)]
    /\ node_n' = [t \in Thread |-> IF pc[t] = "bNode" THEN node_n[t] + 1 ELSE node_n[t]]
    /\ UNCHANGED <<graph, noFuse, enabled, abort, group, flushing, sync, ret, partials, out>>

-----------------------------------------------------------------------------
(* The program around the pool: ggml_graph_compute starts a graph when the *)
(* previous one is finished; loading a model clears and refills the        *)
(* registry and sets the switch.                                           *)
AllDone == \A t \in Thread : pc[t] = "done"

StartGraph ==
    /\ AllDone
    /\ graph' \in Graphs
    /\ abort' = 0
    /\ pc' = [t \in Thread |-> "loop"]
    /\ node_n' = [t \in Thread |-> 1]
    /\ out' = {}
    /\ UNCHANGED <<noFuse, enabled, group, flushing, sync, ret, partials>>

SetEnabled ==
    /\ AllDone \/ LoadsDuringCompute
    /\ enabled' = ~enabled
    /\ UNCHANGED <<graph, noFuse, abort, pc, locals, partials, out>>

Init ==
    /\ graph \in Graphs
    /\ noFuse \in BOOLEAN
    /\ enabled \in BOOLEAN
    /\ abort = 0
    /\ pc = [t \in Thread |-> "loop"]
    /\ node_n = [t \in Thread |-> 1]
    /\ group = [t \in Thread |-> NoGroup]
    /\ flushing = [t \in Thread |-> <<>>]
    /\ sync = [t \in Thread |-> FALSE]
    /\ ret = [t \in Thread |-> "after"]
    /\ partials = [t \in Thread |-> <<>>]
    /\ out = {}

Step(t) ==
    \/ BoundaryFlush(t) \/ EnterNode(t) \/ LeaveLoop(t)
    \/ HookFlush(t) \/ Defer(t) \/ RunNow(t) \/ ComputeNow(t) \/ AfterNode(t)
    \/ Phase1(t) \/ Phase2(t)
    \/ AfterLoop(t) \/ GraphEndFlush(t) \/ GraphEndIdle(t) \/ Final(t)

Next ==
    \/ \E t \in Thread : Step(t)
    \/ Release
    \/ StartGraph
    \/ SetEnabled

(* Every thread is scheduled and the barrier keeps its promise; nobody     *)
(* promises another graph.                                                 *)
Spec == Init /\ [][Next]_vars /\ WF_vars(Release) /\ \A t \in Thread : WF_vars(Step(t))

-----------------------------------------------------------------------------
Member == [node : Nat, off : Nat, len : Nat, start : Nat]

PCs == {"loop", "compute", "after", "phase1", "phase2", "tail", "graphEnd", "final",
        "done"} \union BarrierSites

Flushes(t) == pc[t] \in {"phase1", "bPhase1", "phase2", "bPhase2"}

(* t is inside a node's iteration of the loop, past its head. *)
InNode(t) ==
    \/ pc[t] \in {"compute", "after", "bNode"}
    \/ Flushes(t) /\ ret[t] # "final"

(* Types of the variables; a group never has more members than its arrays  *)
(* t[4], dst[4], xh[4] hold.                                               *)
TypeOK ==
    /\ graph \in Graphs
    /\ noFuse \in BOOLEAN
    /\ enabled \in BOOLEAN
    /\ abort \in Nat
    /\ pc \in [Thread -> PCs]
    /\ node_n \in [Thread -> 1 .. Len(graph.nodes) + 1]
    /\ \A t \in Thread : InNode(t) => node_n[t] \in Nodes
    /\ group \in [Thread -> [key : Nat, mem : Seq(Member)]]
    /\ \A t \in Thread : Len(group[t].mem) <= MaxGroup
    /\ flushing \in [Thread -> Seq(Member)]
    /\ sync \in [Thread -> BOOLEAN]
    /\ ret \in [Thread -> {"compute", "after", "final"}]
    /\ partials \in [Thread -> Seq(Member)]
    /\ out \subseteq (Nat \X Nat)

(* All threads of the pool are in the same call of the barrier: "group     *)
(* state is per-thread and kept in lockstep by node barriers" (ggml-pq.h). *)
BarrierLockstep ==
    Waiting = Thread =>
        \A t, u \in Thread :
            /\ pc[t] = pc[u]
            /\ node_n[t] = node_n[u]
            /\ group[t] = group[u]
            /\ pc[t] = "bPhase1" => flushing[t] = flushing[u] /\ sync[t] = sync[u]

(* A node is computed, and its input copied, only when the nodes it reads  *)
(* have all their elements.                                                *)
ReadsReady ==
    \A t \in Thread :
        pc[t] = "compute" /\ ~FlushesFirst(t) =>
            \A s \in Node(t).srcs : Cells(s) \subseteq out

(* Whoever sums partial rows finds every thread's row filled by the same   *)
(* pass, and nobody is filling rows meanwhile (rows of different passes    *)
(* overlap in the pool).                                                   *)
PartialsComplete ==
    \A t \in Thread : pc[t] = "phase2" =>
        \A u \in Thread : partials[u] = flushing[t] /\ pc[u] # "phase1"

(* A graph that ends leaves nothing deferred, even when it was aborted     *)
(* with a group pending: a later graph would write through dangling dst.   *)
NothingPending == AllDone => \A t \in Thread : ~Active(t)

(* A graph that is not aborted ends with every element computed.           *)
AllComputed == AllDone /\ abort = 0 => \A n \in Nodes : Cells(n) \subseteq out

(* Every graph ends: no thread waits for one that does not come. *)
Terminates == []<>AllDone

(* What the pool computes is a dataflow evaluation of the graph. *)
Dataflow == INSTANCE PQDataflow WITH
        computed <- {n \in Nodes : Cells(n) \subseteq out}

EvaluatesGraph == Dataflow!Spec
=============================================================================
