---------------------------- MODULE BarrierSpec ----------------------------
(***************************************************************************)
(* What a thread-pool barrier promises: threads arrive one by one, and     *)
(* nobody leaves before everybody has arrived.  Leaving is a single step   *)
(* of the whole pool, because a thread that has been released takes no     *)
(* further part in the barrier until it arrives again.                     *)
(*                                                                         *)
(* ggml_barrier has two builds: `#pragma omp barrier`, which is taken to   *)
(* keep this promise, and the spin barrier on two atomic counters, which   *)
(* GgmlBarrier models and shows to keep it.                                *)
(***************************************************************************)
CONSTANT Thread

VARIABLE waiting    \* the threads that have arrived and are not yet released

TypeOK == waiting \subseteq Thread

Init == waiting = {}

Arrive(t) ==
    /\ t \notin waiting
    /\ waiting' = waiting \union {t}

Release ==
    /\ waiting = Thread
    /\ waiting' = {}

Next == Release \/ \E t \in Thread : Arrive(t)

Spec == Init /\ [][Next]_waiting /\ WF_waiting(Release)

=============================================================================
