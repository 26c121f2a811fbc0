--------------------------- MODULE PQTwoContexts ---------------------------
(***************************************************************************)
(* Two llama contexts in one process.  Each has a thread pool of its own   *)
(* that computes graphs of its own, but pq-gemv.cpp keeps the pending      *)
(* groups and the partial sums in globals: g_s1_group is indexed by the    *)
(* number of the thread in ITS pool, and g_s1_partials by nothing at all.  *)
(* Thread t of either pool uses slot t and row t.                          *)
(*                                                                         *)
(* A program may decode in one thread, taking its contexts in turn, or     *)
(* give each context a thread (tests/test-thread-safety.cpp).              *)
(***************************************************************************)
EXTENDS Integers, Sequences

CONSTANTS
    NThreadsA, NThreadsB,   \* threads of the two pools
    KMaxThreads, MaxGroup,  \* as in PQFusion
    GraphsA, GraphsB,       \* what the two contexts compute
    Parallel                \* are the contexts used at the same time?

ASSUME ParallelAssumption == Parallel \in BOOLEAN

VARIABLES
    noFuse, enabled,        \* process-wide switches
    group, partials,        \* g_s1_group and g_s1_partials, by slot
    graphA, abortA, pcA, node_nA, flushingA, syncA, retA, outA,
    graphB, abortB, pcB, node_nB, flushingB, syncB, retB, outB

varsA == <<graphA, abortA, pcA, node_nA, flushingA, syncA, retA, outA>>
varsB == <<graphB, abortB, pcB, node_nB, flushingB, syncB, retB, outB>>
vars == <<noFuse, enabled, group, partials, varsA, varsB>>

A == INSTANCE PQFusion WITH
        NThreads <- NThreadsA, Graphs <- GraphsA, LoadsDuringCompute <- FALSE,
        graph <- graphA, abort <- abortA, pc <- pcA, node_n <- node_nA,
        flushing <- flushingA, sync <- syncA, ret <- retA, out <- outA

B == INSTANCE PQFusion WITH
        NThreads <- NThreadsB, Graphs <- GraphsB, LoadsDuringCompute <- FALSE,
        graph <- graphB, abort <- abortB, pc <- pcB, node_n <- node_nB,
        flushing <- flushingB, sync <- syncB, ret <- retB, out <- outB

ASSUME ContextsAssumption ==
    /\ NThreadsA \in Nat \ {0} /\ NThreadsB \in Nat \ {0}
    /\ KMaxThreads \in Nat \ {0} /\ MaxGroup \in Nat \ {0}
    /\ GraphsA # {} /\ \A g \in GraphsA : A!IsGraph(g)
    /\ GraphsB # {} /\ \A g \in GraphsB : B!IsGraph(g)

Slot == A!Thread \union B!Thread

(* Both contexts have finished what they computed before. *)
Init ==
    /\ noFuse \in BOOLEAN
    /\ enabled \in BOOLEAN
    /\ group = [t \in Slot |-> A!NoGroup]
    /\ partials = [t \in Slot |-> <<>>]
    /\ graphA \in GraphsA /\ graphB \in GraphsB
    /\ abortA = 0 /\ abortB = 0
    /\ pcA = [t \in A!Thread |-> "done"] /\ pcB = [t \in B!Thread |-> "done"]
    /\ node_nA = [t \in A!Thread |-> Len(graphA.nodes) + 1]
    /\ node_nB = [t \in B!Thread |-> Len(graphB.nodes) + 1]
    /\ flushingA = [t \in A!Thread |-> <<>>] /\ flushingB = [t \in B!Thread |-> <<>>]
    /\ syncA = [t \in A!Thread |-> FALSE] /\ syncB = [t \in B!Thread |-> FALSE]
    /\ retA = [t \in A!Thread |-> "after"] /\ retB = [t \in B!Thread |-> "after"]
    /\ outA = UNION {A!Cells(n) : n \in A!Nodes}
    /\ outB = UNION {B!Cells(n) : n \in B!Nodes}

(* A call of llama_decode computes one graph of its context.               *)
DecodeA == (Parallel \/ B!AllDone) /\ A!StartGraph /\ UNCHANGED varsB

DecodeB == (Parallel \/ A!AllDone) /\ B!StartGraph /\ UNCHANGED varsA

ComputeA == ((\E t \in A!Thread : A!Step(t)) \/ A!Release) /\ UNCHANGED varsB

ComputeB == ((\E t \in B!Thread : B!Step(t)) \/ B!Release) /\ UNCHANGED varsA

Next == DecodeA \/ DecodeB \/ ComputeA \/ ComputeB

Spec == Init /\ [][Next]_vars

-----------------------------------------------------------------------------
(* The pools do not disturb each other: each of them is in lockstep and    *)
(* reads only what is written.  For a process that loads its models first  *)
(* and then decodes in parallel this is what the thread safety test of     *)
(* llama.cpp asks ("Runs inference in parallel on each context").          *)
PoolsApart ==
    /\ A!BarrierLockstep /\ B!BarrierLockstep
    /\ A!ReadsReady /\ B!ReadsReady

(* When the contexts take turns, each of them computes its whole graph,    *)
(* whatever the other one left in the slots they share, and also when the  *)
(* other one was aborted or has more threads.                              *)
TurnsComplete == A!AllComputed /\ B!AllComputed
=============================================================================
