--------------------------- MODULE MCGgmlBarrier ---------------------------
(* The spin barrier for TLC: a pool of three threads, so that one thread   *)
(* can be a generation ahead of another while a third has not yet left,    *)
(* and a generation counter that wraps after two, the smallest width for   *)
(* which the barrier is claimed to work.                                   *)
EXTENDS GgmlBarrier
=============================================================================
