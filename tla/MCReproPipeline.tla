-------------------------- MODULE MCReproPipeline --------------------------
(* Three settings: one whose results are recorded, one whose preparation   *)
(* or measurement is interrupted, and one more.  The first two differ in   *)
(* the revision of EdgePQ (and so, as in the Makefile, of Q2_K), the last  *)
(* only in something else.                                                 *)
EXTENDS ReproPipeline

MCSettings == 1 .. 3
MCEdgePQ == <<1, 2, 2>>
MCFp16 == <<1, 1, 1>>
MCQ2 == <<1, 2, 2>>
MCCheckpoint == {"non_pq_state", "pq_states"}
MCTokenizer == {"tokenizer"}
MCDamaged == 9
=============================================================================
