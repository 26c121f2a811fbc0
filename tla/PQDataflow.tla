----------------------------- MODULE PQDataflow -----------------------------
(***************************************************************************)
(* What computing a graph means, however it is spread over threads and     *)
(* passes: nodes become computed, one or several at a time, each only when *)
(* all the nodes it reads already are.  Graph-level and same-input fusion  *)
(* change how many become computed at once, nothing else.                  *)
(***************************************************************************)
CONSTANT Graphs

VARIABLES
    graph,      \* the graph being computed
    computed    \* its nodes whose outputs are complete

Init == graph \in Graphs /\ computed = {}

Complete ==
    /\ \E S \in SUBSET (DOMAIN graph.nodes \ computed) :
        /\ \A n \in S : graph.nodes[n].srcs \subseteq computed
        /\ computed' = computed \union S
    /\ UNCHANGED graph

(* The next graph starts from nothing; the last one may have been aborted. *)
Start == graph' \in Graphs /\ computed' = {}

Next == Complete \/ Start

Spec == Init /\ [][Next]_<<graph, computed>>
=============================================================================
