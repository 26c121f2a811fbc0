-------------------------- MODULE MCPQTwoContexts --------------------------
(* Two small contexts for TLC: their first products have different inputs, *)
(* so that in the code, too, neither joins the other's group by its key.   *)
EXTENDS PQTwoContexts

Nd(op, key, srcs, rows) ==
    [op |-> op, key |-> key, srcs |-> srcs, rows |-> rows,
     segs |-> <<[off |-> 0, len |-> rows]>>]

(* Two products of one norm, their sum, and a product at the end.          *)
Attention == [nops |-> FALSE, nodes |-> <<
    Nd("dense", 0, {}, 1),
    Nd("s1", 1, {1}, 2), Nd("s1", 1, {1}, 1),
    Nd("dense", 2, {2, 3}, 2),
    Nd("s1", 4, {4}, 2)>>]

(* A product of the embedding, one of its result, and of that. *)
Output == [nops |-> TRUE, nodes |-> <<
    Nd("s1", 0, {}, 2),
    Nd("s2", 1, {1}, 1),
    Nd("s1", 2, {2}, 3)>>]

MCGraphsA == {Attention}
MCGraphsB == {Output}
=============================================================================
