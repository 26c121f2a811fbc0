----------------------------- MODULE MCKVCache -----------------------------
(***************************************************************************)
(* Two sequences, micro-batches of two tokens, and contexts so small that  *)
(* a batch takes up to three micro-batches, fills the cache or finds no    *)
(* place.                                                                  *)
(***************************************************************************)
EXTENDS KVCache

MCSeqs == {0, 1}
MCRanges == {<<0, 1>>, <<1, 9>>}
MCDeltas == {-1, 1}

Plain(calls) ==
    [unified |-> TRUE, size |-> 3, window |-> 0, chunked |-> FALSE, last |-> 2, lengths |-> {1, 3}, calls |-> calls]
Streamed(calls) ==
    [unified |-> FALSE, size |-> 2, window |-> 0, chunked |-> FALSE, last |-> 1, lengths |-> {1, 2}, calls |-> calls]

Windowed(chunked, last, calls) ==
    [unified |-> FALSE, size |-> 4, window |-> 2, chunked |-> chunked, last |-> last,
     lengths |-> {1, 3}, calls |-> calls]

(* One stream, with batches whose tokens are shared too, with removals,    *)
(* with moves, with copies that are moved and shifts that fail; a stream   *)
(* for each sequence; the same with a window or chunks of two, and cells   *)
(* for the window and a micro-batch.                                       *)
MCContexts ==
    {Plain({"rm", "cp", "share"}),
     Plain({"rm", "cp", "keep", "clear", "fail"}),
     Plain({"rm", "add", "div", "fail"}),
     [Plain({"cp", "add", "fail", "noshift"}) EXCEPT !.last = 1, !.lengths = {1, 2}],
     Streamed({"rm", "cp", "fail"}), Streamed({"cp", "add", "fail"})} \union
    {Windowed(chunked, 5, {"fail"}) : chunked \in BOOLEAN} \union
    {Windowed(chunked, 4, {"cp", "fail"}) : chunked \in BOOLEAN}

(* Position 0 is the one that division leaves as it is. *)
MCDivided == {<<0, 1>>}
MCAllDivided == {<<0, 9>>}
MCDividing == {Plain({"div"})}

(* Batches that share tokens, and fail. *)
MCShared == {Plain({"share", "fail"})}

(* Two sequences in one stream with a window, that are only decoded. *)
MCOneWindow == {[unified |-> TRUE, size |-> 6, window |-> 2, chunked |-> FALSE, last |-> 6, lengths |-> {1, 3}, calls |-> {}]}
=============================================================================
