-------------------------- MODULE MCGgmlThreadpool --------------------------
(***************************************************************************)
(* TLC instance of GgmlThreadpool: three threads, so that a graph can have *)
(* the main thread alone, one worker or both, one round of polling, and    *)
(* three graphs, so that a worker can take part, be left out and take part *)
(* again.                                                                  *)
(***************************************************************************)
EXTENDS GgmlThreadpool

=============================================================================
