---------------------------- MODULE GgmlBarrier ----------------------------
(***************************************************************************)
(* ggml_barrier (ggml-cpu.c), the spin barrier of the CPU thread pool, one *)
(* atomic access per step.  Every thread of the pool calls it over and     *)
(* over: after each graph node, inside a PQ flush, and at the end of a     *)
(* graph.                                                                  *)
(*                                                                         *)
(* n_barrier counts the threads that arrived; the last one resets it and   *)
(* bumps n_barrier_passed, on which the others spin.  n_barrier_passed is  *)
(* an atomic_int that is never reset: it wraps, here modulo Width (2^32 in *)
(* the build).  A stepwise interleaving of the accesses is what the code   *)
(* gets from the processor: the two read-modify-writes are seq_cst, so the *)
(* relaxed accesses before and after them keep their order.                *)
(***************************************************************************)
EXTENDS Integers, FiniteSets

CONSTANTS
    NThreads,       \* n_threads of the running graph
    Width           \* number of values of the counter n_barrier_passed

ASSUME NThreadsAssumption == NThreads \in Nat \ {0}
ASSUME WidthAssumption    == Width \in Nat /\ Width >= 2

Thread == 0 .. NThreads - 1

VARIABLES
    n_barrier,          \* threads arrived in this generation
    n_barrier_passed,   \* generations completed, modulo Width
    n_passed,           \* n_passed[t]: the local of that name in ggml_barrier
    pc                  \* pc[t]: the next access of thread t

vars == <<n_barrier, n_barrier_passed, n_passed, pc>>

Init ==
    /\ n_barrier = 0
    /\ n_barrier_passed = 0
    /\ n_passed = [t \in Thread |-> 0]
    /\ pc = [t \in Thread |-> "out"]

(* The call: a pool of one thread returns at once, any other reads         *)
(* n_barrier_passed first.                                                 *)
Enter(t) ==
    /\ pc[t] = "out"
    /\ NThreads # 1
    /\ n_passed' = [n_passed EXCEPT ![t] = n_barrier_passed]
    /\ pc' = [pc EXCEPT ![t] = "arrive"]
    /\ UNCHANGED <<n_barrier, n_barrier_passed>>

\* Mutant of Arrive: the last thread is recognised one arrival too early.
Arrive_OneShort(t) ==
    /\ pc[t] = "arrive"
    /\ n_barrier' = n_barrier + 1
    /\ pc' = [pc EXCEPT ![t] = IF n_barrier = NThreads - 2 THEN "reset" ELSE "spin"]
    /\ UNCHANGED <<n_barrier_passed, n_passed>>

(* atomic_fetch_add on n_barrier: the value it returns tells the last      *)
(* thread from the others.                                                 *)
Arrive(t) ==
    /\ pc[t] = "arrive"
    /\ n_barrier' = n_barrier + 1
    /\ pc' = [pc EXCEPT ![t] = IF n_barrier = NThreads - 1 THEN "reset" ELSE "spin"]
    /\ UNCHANGED <<n_barrier_passed, n_passed>>

\* Mutant of Reset: the count is not reset.
Reset_Forgotten(t) ==
    /\ pc[t] = "reset"
    /\ pc' = [pc EXCEPT ![t] = "release"]
    /\ UNCHANGED <<n_barrier, n_barrier_passed, n_passed>>

(* The last thread empties the count ... *)
Reset(t) ==
    /\ pc[t] = "reset"
    /\ n_barrier' = 0
    /\ pc' = [pc EXCEPT ![t] = "release"]
    /\ UNCHANGED <<n_barrier_passed, n_passed>>

(* ... and only then lets the others go. *)
Release(t) ==
    /\ pc[t] = "release"
    /\ n_barrier_passed' = (n_barrier_passed + 1) % Width
    /\ pc' = [pc EXCEPT ![t] = "out"]
    /\ UNCHANGED <<n_barrier, n_passed>>

(* The spin loop ends when n_barrier_passed differs from the value read on *)
(* entry.                                                                  *)
Leave(t) ==
    /\ pc[t] = "spin"
    /\ n_barrier_passed # n_passed[t]
    /\ pc' = [pc EXCEPT ![t] = "out"]
    /\ UNCHANGED <<n_barrier, n_barrier_passed, n_passed>>

Step(t) == Enter(t) \/ Arrive(t) \/ Reset(t) \/ Release(t) \/ Leave(t)

Next == \E t \in Thread : Step(t)

(* Every thread runs the same graph, so each of them keeps calling the     *)
(* barrier, and the scheduler runs each of them.                           *)
Spec == Init /\ [][Next]_vars /\ \A t \in Thread : WF_vars(Step(t))

-----------------------------------------------------------------------------
(* Types of the variables: the count never exceeds the pool. *)
TypeOK ==
    /\ n_barrier \in 0 .. NThreads
    /\ n_barrier_passed \in 0 .. Width - 1
    /\ n_passed \in [Thread -> 0 .. Width - 1]
    /\ pc \in [Thread -> {"out", "arrive", "reset", "release", "spin"}]

(* Thread t has arrived and nobody has released it yet. *)
Held(t) ==
    \/ pc[t] \in {"reset", "release"}
    \/ pc[t] = "spin" /\ n_passed[t] = n_barrier_passed

Waiting == {t \in Thread : Held(t)}

Last(t) == pc[t] \in {"reset", "release"}

(***************************************************************************)
(* The inductive invariant.  What a thread read on entry is still the      *)
(* current generation when it arrives; the counter counts exactly the held *)
(* threads until the last one resets it; there is a last thread only when  *)
(* the whole pool is held, and then only one.                              *)
(***************************************************************************)
EntryFresh == \A t \in Thread : pc[t] = "arrive" => n_passed[t] = n_barrier_passed

CountExact ==
    IF \E t \in Thread : pc[t] = "release"
    THEN n_barrier = 0
    ELSE n_barrier = Cardinality(Waiting)

LastMeansAll == (\E t \in Thread : Last(t)) => Waiting = Thread

AllMeansLast == Waiting = Thread => \E t \in Thread : Last(t)

OneLast == \A t, u \in Thread : Last(t) /\ Last(u) => t = u

BarrierInv ==
    /\ EntryFresh
    /\ CountExact
    /\ LastMeansAll
    /\ AllMeansLast
    /\ OneLast

(***************************************************************************)
(* The two counters implement the barrier that the rest of ggml-cpu relies *)
(* on, wrap-around and reuse by threads that race ahead included.          *)
(***************************************************************************)
B == INSTANCE BarrierSpec WITH waiting <- Waiting

ImplementsBarrier == B!Spec

(* The safety part of it, which is what is proved for every pool size. *)
ImplementsBarrierSafely == B!Init /\ [][B!Next]_Waiting

(* No thread is stuck in the barrier: one that entered comes out again.    *)
EveryEntryLeaves == \A t \in Thread : pc[t] = "arrive" ~> pc[t] = "out"

=============================================================================
