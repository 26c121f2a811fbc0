----------------------------- MODULE MCPQFusion -----------------------------
(* Small graphs for TLC. *)
EXTENDS PQFusion

Nd(op, key, srcs, rows) ==
    [op |-> op, key |-> key, srcs |-> srcs, rows |-> rows,
     segs |-> <<[off |-> 0, len |-> rows]>>]

(* A transformer layer as llama builds it without graph-level fusion:      *)
(* norm, q/k/v on the norm, attention, output projection, residual add,    *)
(* gate/up, silu, down.  The graph ends on a deferred product.             *)
Layer == [nops |-> FALSE, nodes |-> <<
    Nd("dense", 0, {}, 2),
    Nd("s1", 1, {1}, 3), Nd("s1", 1, {1}, 1), Nd("s1", 1, {1}, 1),
    Nd("dense", 2, {2, 3, 4}, 2),
    Nd("s1", 5, {5}, 2),
    Nd("dense", 6, {1, 6}, 2),
    Nd("s1", 7, {7}, 2), Nd("s1", 7, {7}, 3),
    Nd("dense", 8, {8, 9}, 1),
    Nd("s1", 10, {10}, 2)>>]

(* Products that feed products: what only the hook itself can order.       *)
(* More members than a group holds (node 5 opens a second one), an S2      *)
(* product and a fused tensor on outputs that are pending, a fused tensor  *)
(* as last node, followed by nodes that are stepped over.                  *)
Chain == [nops |-> TRUE, nodes |-> <<
    Nd("s1", 0, {}, 1), Nd("s1", 0, {}, 2), Nd("s1", 0, {}, 1),
    Nd("s1", 3, {3}, 2),
    Nd("s2", 4, {4}, 3),
    Nd("s1", 5, {5}, 2),
    [op |-> "group", key |-> 6, srcs |-> {6}, rows |-> 3,
     segs |-> <<[off |-> 0, len |-> 1], [off |-> 1, len |-> 2]>>]>>]

MCGraphs == {Layer, Chain}

MCLayer == {Layer}

(* A product that is registered but that the hook declines (switched off   *)
(* by GGML_PQ_DISABLE_S2, say), on the output of one that is pending.      *)
Declined == [nops |-> FALSE, nodes |-> <<
    Nd("s1", 0, {}, 2),
    Nd("off", 1, {1}, 2),
    Nd("dense", 0, {1, 2}, 1)>>]

MCDeclined == {Declined}
=============================================================================
