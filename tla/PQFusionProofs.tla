--------------------------- MODULE PQFusionProofs ---------------------------
(***************************************************************************)
(* Proofs about the fusion of PQ products, for every number of threads and *)
(* every set of graphs: types; when every thread has a slot of g_s1_group  *)
(* and no model is loaded while a graph is computed, that the pool is in   *)
(* lockstep, that phase 2 finds all partial sums, and that no group        *)
(* survives its graph; and when moreover the hook declines no product on a *)
(* registered tensor, that what the pool computes is a dataflow evaluation *)
(* of the graph.                                                           *)
(***************************************************************************)
EXTENDS PQFusion, SequenceTheorems, TLAPS

(* What the assumption on the graphs says of a node. *)
LEMMA GraphFacts ==
    ASSUME NEW g \in Graphs
    PROVE  /\ g.nops \in BOOLEAN
           /\ Len(g.nodes) \in Nat \ {0}
           /\ DOMAIN g.nodes = 1 .. Len(g.nodes)
BY GraphsAssumption DEF IsGraph

LEMMA NodeFacts ==
    ASSUME NEW g \in Graphs, NEW i \in DOMAIN g.nodes
    PROVE  /\ g.nodes[i] \in NodeType
           /\ g.nodes[i].srcs \subseteq 1 .. i - 1
           /\ i \in Nat
           /\ Len(g.nodes[i].segs) \in 1 .. MaxGroup
BY GraphsAssumption DEF IsGraph

LEMMA SegFacts ==
    ASSUME NEW g \in Graphs, NEW i \in DOMAIN g.nodes
    PROVE  /\ g.nodes[i].segs \in Seq([off : Nat, len : Nat])
           /\ 1 \in DOMAIN g.nodes[i].segs
           /\ \A m \in DOMAIN g.nodes[i].segs :
                 g.nodes[i].segs[m].off \in Nat /\ g.nodes[i].segs[m].len \in Nat
<1>1. g.nodes[i].segs \in Seq([off : Nat, len : Nat])
  BY NodeFacts DEF NodeType
<1>2. Len(g.nodes[i].segs) \in Nat \ {0}
  BY NodeFacts, PoolAssumption
<1>3. DOMAIN g.nodes[i].segs = 1 .. Len(g.nodes[i].segs)
  BY <1>1
<1>4. \A m \in DOMAIN g.nodes[i].segs : g.nodes[i].segs[m] \in [off : Nat, len : Nat]
  BY <1>1, <1>3, ElementOfSeq
<1>5. QED
  BY <1>1, <1>2, <1>3, <1>4

(* Members of a group and of a pass of its own are well typed. *)
LEMMA TotalType ==
    ASSUME NEW mem \in Seq(Member)
    PROVE  Total(mem) \in Nat
<1>1. CASE mem = <<>>
  BY <1>1 DEF Total
<1>2. CASE mem # <<>>
  <2>1. Len(mem) \in DOMAIN mem
    BY <1>2
  <2>2. mem[Len(mem)] \in Member
    BY <2>1
  <2>3. QED
    BY <1>2, <2>2 DEF Total, Member
<1>3. QED
  BY <1>1, <1>2

LEMMA AddType ==
    ASSUME NEW mem \in Seq(Member), NEW n \in Nat, NEW seg,
           seg.off \in Nat, seg.len \in Nat
    PROVE  /\ Add(mem, n, seg) \in Seq(Member)
           /\ Len(Add(mem, n, seg)) = Len(mem) + 1
<1>1. [node |-> n, off |-> seg.off, len |-> seg.len, start |-> Total(mem)] \in Member
  BY TotalType DEF Member
<1>2. QED
  BY <1>1 DEF Add

LEMMA MembersType ==
    ASSUME NEW n \in Nat, NEW segs \in Seq([off : Nat, len : Nat])
    PROVE  Members(n, segs) \in Seq(Member)
<1>1. \A m \in 1 .. Len(segs) : segs[m] \in [off : Nat, len : Nat]
  BY ElementOfSeq
<1>2. Members(n, segs) \in [1 .. Len(segs) -> Member]
  BY <1>1 DEF Members, Member
<1>3. QED
  BY <1>2

LEMMA Phase2CellsType ==
    ASSUME NEW mem \in Seq(Member), NEW t \in Thread
    PROVE  Phase2Cells(mem, t) \subseteq Nat \X Nat
<1>0. \A m \in DOMAIN mem : mem[m] \in Member
  BY ElementOfSeq
<1>1. \A m \in DOMAIN mem : mem[m].node \in Nat /\ mem[m].off \in Nat /\ mem[m].len \in Nat
  BY <1>0 DEF Member
<1>2. QED
  BY <1>1 DEF Phase2Cells

LEMMA SliceType ==
    ASSUME NEW rows \in Nat, NEW t \in Thread
    PROVE  Slice(rows, t) \subseteq Nat
<1>1. NThreads \in Nat /\ NThreads > 0 /\ t \in Nat
  BY PoolAssumption DEF Thread
<1>2. rows * t \in Nat
  BY <1>1
<1>3. (rows * t) \div NThreads \in Nat
  BY <1>1, <1>2
<1>4. QED
  BY <1>3 DEF Slice

-----------------------------------------------------------------------------
LEMMA InitTypes == Init => TypeOK
<1> SUFFICES ASSUME Init PROVE TypeOK
  OBVIOUS
<1>1. graph \in Graphs /\ Len(graph.nodes) \in Nat
  BY GraphFacts DEF Init
<1>2. <<>> \in Seq(Member) /\ Len(<<>>) = 0
  OBVIOUS
<1>3. NoGroup \in [key : Nat, mem : Seq(Member)] /\ NoGroup.mem = <<>>
  BY <1>2 DEF NoGroup
<1>4. QED
  BY <1>1, <1>2, <1>3, PoolAssumption DEF Init, TypeOK, PCs, InNode, Flushes

LEMMA StartFlushTypes ==
    ASSUME TypeOK, NEW t \in Thread, NEW mem \in Seq(Member), NEW s \in BOOLEAN,
           NEW r \in {"compute", "after", "final"}, r # "final" => node_n[t] \in Nodes,
           StartFlush(t, mem, s, r)
    PROVE  TypeOK'
<1>1. NoGroup \in [key : Nat, mem : Seq(Member)] /\ Len(NoGroup.mem) = 0
  BY DEF NoGroup
<1>2. group' \in [Thread -> [key : Nat, mem : Seq(Member)]]
  BY <1>1 DEF TypeOK, StartFlush
<1>3. \A u \in Thread : Len(group'[u].mem) <= MaxGroup
  BY <1>1, PoolAssumption DEF TypeOK, StartFlush
<1>4. pc' \in [Thread -> PCs]
  BY DEF TypeOK, StartFlush, PCs
<1>5. \A u \in Thread : InNode(u)' => node_n'[u] \in Nodes'
  BY DEF TypeOK, StartFlush, Nodes, InNode, Flushes
<1>6. QED
  BY <1>2, <1>3, <1>4, <1>5 DEF TypeOK, StartFlush

(* Each step of a thread keeps the types. *)
LEMMA StepTypes ==
    ASSUME TypeOK, NEW t \in Thread, Step(t)
    PROVE  TypeOK'
<1>0. /\ Len(graph.nodes) \in Nat \ {0}
      /\ Nodes = 1 .. Len(graph.nodes)
      /\ group[t].mem \in Seq(Member)
      /\ node_n[t] \in 1 .. Len(graph.nodes) + 1
      /\ InNode(t) => node_n[t] \in Nodes
  BY GraphFacts DEF Nodes, TypeOK
<1>1. CASE BoundaryFlush(t)
  <2>1. node_n[t] \in Nodes
    BY <1>0, <1>1 DEF BoundaryFlush, AtNode
  <2>2. StartFlush(t, group[t].mem, TRUE, "compute")
    BY <1>1 DEF BoundaryFlush
  <2>3. QED
    BY <1>0, <2>1, <2>2, StartFlushTypes
<1>2. CASE EnterNode(t)
  <2>1. node_n[t] \in Nodes
    BY <1>0, <1>2 DEF EnterNode, AtNode
  <2>2. QED
    BY <1>2, <2>1 DEF TypeOK, EnterNode, PCs, locals, Nodes, InNode, Flushes
<1>3. CASE LeaveLoop(t)
  BY <1>3 DEF TypeOK, LeaveLoop, PCs, locals, Nodes, InNode, Flushes
<1>4. CASE HookFlush(t)
  <2>1. node_n[t] \in Nodes
    BY <1>0, <1>4 DEF HookFlush, InNode
  <2>2. StartFlush(t, group[t].mem, Node(t).op = "s1" => ~noFuse, "compute")
    BY <1>4 DEF HookFlush
  <2>3. (Node(t).op = "s1" => ~noFuse) \in BOOLEAN
    OBVIOUS
  <2>4. QED
    BY <1>0, <2>1, <2>2, <2>3, StartFlushTypes
<1>5. CASE Defer(t)
  <2>1. node_n[t] \in Nodes /\ node_n[t] \in Nat
    BY <1>0, <1>5 DEF Defer, InNode
  <2>2. Node(t).key \in Nat /\ Node(t).segs[1].off \in Nat /\ Node(t).segs[1].len \in Nat
    BY <2>1, NodeFacts, SegFacts DEF Node, Nodes, NodeType, TypeOK
  <2>3. Len(group[t].mem) < MaxGroup
    <3>1. CASE Active(t)
      BY <1>5, <3>1 DEF Defer, FlushesFirst, Joins, Defers
    <3>2. CASE ~Active(t)
      BY <3>2, PoolAssumption DEF Active
    <3>3. QED
      BY <3>1, <3>2
  <2> DEFINE a == Add(group[t].mem, node_n[t], Node(t).segs[1])
  <2>4. a \in Seq(Member) /\ Len(a) = Len(group[t].mem) + 1
    BY <1>0, <2>1, <2>2, AddType
  <2>5. Len(a) <= MaxGroup
    BY <1>0, <2>3, <2>4, PoolAssumption
  <2>6. group' = [group EXCEPT ![t] = [key |-> Node(t).key, mem |-> a]]
    BY <1>5 DEF Defer
  <2> HIDE DEF a
  <2>7. /\ group' \in [Thread -> [key : Nat, mem : Seq(Member)]]
        /\ \A u \in Thread : Len(group'[u].mem) <= MaxGroup
    BY <2>2, <2>4, <2>5, <2>6 DEF TypeOK
  <2>8. /\ pc' \in [Thread -> PCs]
        /\ \A u \in Thread : InNode(u)' => node_n'[u] \in Nodes'
    BY <1>5, <2>1 DEF TypeOK, Defer, PCs, Nodes, InNode, Flushes
  <2>9. QED
    BY <1>5, <2>7, <2>8 DEF TypeOK, Defer
<1>6. CASE RunNow(t)
  <2>1. node_n[t] \in Nodes /\ node_n[t] \in Nat
    BY <1>0, <1>6 DEF RunNow, InNode
  <2>2. Members(node_n[t], Node(t).segs) \in Seq(Member)
    BY <2>1, SegFacts, MembersType DEF Node, Nodes, TypeOK
  <2>3. StartFlush(t, Members(node_n[t], Node(t).segs), FALSE, "after")
    BY <1>6 DEF RunNow
  <2>4. QED
    BY <2>1, <2>2, <2>3, StartFlushTypes
<1>7. CASE ComputeNow(t)
  <2>1. node_n[t] \in Nodes /\ node_n[t] \in Nat
    BY <1>0, <1>7 DEF ComputeNow, InNode
  <2>2. Node(t).rows \in Nat
    BY <2>1, NodeFacts DEF Node, Nodes, NodeType, TypeOK
  <2>3. OwnCells(t) \subseteq Nat \X Nat
    BY <2>1, <2>2, SliceType DEF OwnCells
  <2>4. QED
    BY <1>7, <2>1, <2>3 DEF TypeOK, ComputeNow, PCs, locals, Nodes, InNode, Flushes
<1>8. CASE AfterNode(t)
  <2>1. node_n[t] \in Nodes /\ node_n[t] \in Nat
    BY <1>0, <1>8 DEF AfterNode, InNode
  <2>2. abort' \in Nat
    BY <1>8, <2>1 DEF TypeOK, AfterNode, AbortChoices
  <2>3. CASE node_n[t] < Len(graph.nodes) \/ graph.nops
    BY <1>8, <2>1, <2>2, <2>3
       DEF TypeOK, AfterNode, PCs, BarrierSites, Nodes, InNode, Flushes
  <2>4. CASE ~(node_n[t] < Len(graph.nodes) \/ graph.nops)
    <3>1. node_n' = [node_n EXCEPT ![t] = node_n[t] + 1]
      BY <1>8, <2>4 DEF AfterNode
    <3>2. node_n[t] + 1 \in 1 .. Len(graph.nodes) + 1
      BY <1>0, <2>1
    <3>3. node_n' \in [Thread -> 1 .. Len(graph.nodes) + 1]
      BY <3>1, <3>2 DEF TypeOK
    <3>4. QED
      BY <1>8, <2>2, <2>4, <3>1, <3>3
         DEF TypeOK, AfterNode, PCs, BarrierSites, Nodes, InNode, Flushes
  <2>5. QED
    BY <2>3, <2>4
<1>9. CASE Phase1(t)
  BY <1>9 DEF TypeOK, Phase1, PCs, BarrierSites, locals, Nodes, InNode, Flushes
<1>10. CASE Phase2(t)
  <2>1. Phase2Cells(flushing[t], t) \subseteq Nat \X Nat
    BY Phase2CellsType DEF TypeOK
  <2>2. /\ pc' \in [Thread -> PCs]
        /\ \A u \in Thread : InNode(u)' => node_n'[u] \in Nodes'
    BY <1>10 DEF TypeOK, Phase2, PCs, BarrierSites, locals, Nodes, InNode, Flushes
  <2>3. QED
    BY <1>10, <2>1, <2>2 DEF TypeOK, Phase2, locals
<1>11. CASE AfterLoop(t) \/ GraphEndIdle(t) \/ Final(t)
  BY <1>11 DEF TypeOK, AfterLoop, GraphEndIdle, Final, PCs, BarrierSites, locals, Nodes,
               InNode, Flushes
<1>12. CASE GraphEndFlush(t)
  <2>1. StartFlush(t, group[t].mem, TRUE, "final")
    BY <1>12 DEF GraphEndFlush
  <2>2. QED
    BY <1>0, <2>1, StartFlushTypes
<1>13. QED
  BY <1>1, <1>2, <1>3, <1>4, <1>5, <1>6, <1>7, <1>8, <1>9, <1>10, <1>11, <1>12 DEF Step

(* And so do the barrier and the program around the pool. *)
LEMMA ReleaseTypes == TypeOK /\ Release => TypeOK'
<1> SUFFICES ASSUME TypeOK, Release PROVE TypeOK'
  OBVIOUS
<1>0. /\ Len(graph.nodes) \in Nat
      /\ Nodes = 1 .. Len(graph.nodes)
  BY GraphFacts DEF Nodes, TypeOK
<1>1. \A t \in Thread : pc[t] \in BarrierSites
  BY DEF Release, Waiting
<1>2. \A t \in Thread :
        /\ Resume(t) \in {"phase2", "loop", "graphEnd", "done", "compute", "after", "final"}
        /\ Resume(t) \in {"compute", "after"} => pc[t] = "bPhase2" /\ ret[t] # "final"
        /\ Resume(t) = "phase2" => pc[t] = "bPhase1"
  BY <1>1 DEF Resume, BarrierSites, TypeOK
<1>3. pc' \in [Thread -> PCs]
  BY <1>2 DEF Release, PCs
<1>4. node_n' \in [Thread -> 1 .. Len(graph.nodes) + 1]
  <2>1. \A t \in Thread : pc[t] = "bNode" => node_n[t] \in 1 .. Len(graph.nodes)
    BY <1>0 DEF TypeOK, InNode
  <2>2. QED
    BY <1>0, <2>1 DEF Release, TypeOK
<1>5. \A t \in Thread : InNode(t)' => InNode(t) /\ node_n'[t] = node_n[t]
  BY <1>2 DEF Release, InNode, Flushes, TypeOK
<1>6. \A t \in Thread : InNode(t)' => node_n'[t] \in Nodes'
  BY <1>5 DEF TypeOK, Nodes, Release
<1>7. QED
  BY <1>3, <1>4, <1>6 DEF Release, TypeOK

LEMMA AroundTypes == TypeOK /\ (StartGraph \/ SetEnabled) => TypeOK'
<1>1. ASSUME TypeOK, StartGraph PROVE TypeOK'
  <2>1. Len(graph'.nodes) \in Nat
    BY <1>1, GraphFacts DEF StartGraph
  <2>2. QED
    BY <1>1, <2>1 DEF StartGraph, TypeOK, PCs, InNode, Flushes
<1>2. ASSUME TypeOK, SetEnabled PROVE TypeOK'
  BY <1>2 DEF SetEnabled, TypeOK, locals, InNode, Flushes, Nodes
<1>3. QED
  BY <1>1, <1>2

LEMMA NextTypes == TypeOK /\ [Next]_vars => TypeOK'
<1>1. TypeOK /\ UNCHANGED vars => TypeOK'
  BY DEF vars, locals, TypeOK, InNode, Flushes, Nodes
<1>2. QED
  BY <1>1, StepTypes, ReleaseTypes, AroundTypes DEF Next

(* The variables keep their types, whatever the pool and the graphs; in    *)
(* particular a group never overflows the four places of an S1Group.       *)
THEOREM FusionTypes == Spec => []TypeOK
<1>1. QED
  BY InitTypes, NextTypes, PTL DEF Spec
-----------------------------------------------------------------------------
(***************************************************************************)
(* Lockstep.  Between two barriers the threads are anywhere, so no         *)
(* property of their current state says that they agree.  But what a       *)
(* thread does until its next barrier is determined by its locals and by   *)
(* the graph: Arrival(t) is the state in which t will arrive there.  The   *)
(* invariant is that these are equal.                                      *)
(***************************************************************************)
AllSlots == NThreads <= KMaxThreads /\ ~LoadsDuringCompute

HookedAt(n) == enabled /\ graph.nodes[n].op \in {"s1", "s2", "group"}

DefersAt(n) == graph.nodes[n].op = "s1" /\ ~noFuse

JoinsAt(n, g) ==
    /\ g.mem # <<>>
    /\ g.key = graph.nodes[n].key
    /\ Len(g.mem) < MaxGroup

FlushesFirstAt(n, g) ==
    HookedAt(n) /\ g.mem # <<>> /\ ~(DefersAt(n) /\ JoinsAt(n, g))

Deferred(n, g) ==
    [key |-> graph.nodes[n].key, mem |-> Add(g.mem, n, graph.nodes[n].segs[1])]

TailArr(n, g, f, s, r) == <<IF enabled THEN "bTail" ELSE "bFinal", n, g, f, s, r>>

AfterArr(n, g, f, s, r) ==
    IF n < Len(graph.nodes) \/ graph.nops
    THEN <<"bNode", n, g, f, s, r>>
    ELSE TailArr(n + 1, g, f, s, r)

ComputeArr(n, g, f, s, r) ==
    IF FlushesFirstAt(n, g)
    THEN <<"bPhase1", n, NoGroup, g.mem, graph.nodes[n].op = "s1" => ~noFuse, "compute">>
    ELSE IF HookedAt(n) /\ DefersAt(n)
    THEN AfterArr(n, Deferred(n, g), f, s, r)
    ELSE IF HookedAt(n) /\ graph.nodes[n].op # "s2"
    THEN <<"bPhase1", n, NoGroup, Members(n, graph.nodes[n].segs), FALSE, "after">>
    ELSE AfterArr(n, g, f, s, r)

LoopArr(n, g, f, s, r) ==
    IF n > Len(graph.nodes) \/ abort = n
    THEN TailArr(n, g, f, s, r)
    ELSE IF enabled /\ g.mem # <<>> /\ ~SelfManaged(graph.nodes[n].op)
    THEN <<"bPhase1", n, NoGroup, g.mem, TRUE, "compute">>
    ELSE ComputeArr(n, g, f, s, r)

Phase2Arr(n, g, f, s, r) ==
    IF s THEN <<"bPhase2", n, g, f, s, r>>
    ELSE IF r = "after" THEN AfterArr(n, g, f, s, r)
    ELSE IF r = "compute" THEN ComputeArr(n, g, f, s, r)
    ELSE <<"bFinal", n, g, f, s, r>>

GraphEndArr(n, g, f, s, r) ==
    IF enabled /\ g.mem # <<>>
    THEN <<"bPhase1", n, NoGroup, g.mem, TRUE, "final">>
    ELSE <<"bFinal", n, g, f, s, r>>

ArrivalFrom(p, n, g, f, s, r) ==
    IF p = "loop" THEN LoopArr(n, g, f, s, r)
    ELSE IF p = "compute" THEN ComputeArr(n, g, f, s, r)
    ELSE IF p = "after" THEN AfterArr(n, g, f, s, r)
    ELSE IF p = "phase1" THEN <<"bPhase1", n, g, f, s, r>>
    ELSE IF p = "phase2" THEN Phase2Arr(n, g, f, s, r)
    ELSE IF p = "tail" THEN TailArr(n, g, f, s, r)
    ELSE IF p = "graphEnd" THEN GraphEndArr(n, g, f, s, r)
    ELSE IF p = "final" THEN <<"bFinal", n, g, f, s, r>>
    ELSE <<p, n, g, f, s, r>>

Arrival(t) == ArrivalFrom(pc[t], node_n[t], group[t], flushing[t], sync[t], ret[t])

Lockstep == \A t, u \in Thread : Arrival(t) = Arrival(u)

LEMMA EverySlot ==
    ASSUME AllSlots, NEW t \in Thread
    PROVE  HasSlot(t)
BY PoolAssumption DEF AllSlots, HasSlot, Thread

(* A step that leaves a thread and what it looks at alone does not change  *)
(* where it will arrive.                                                   *)
LEMMA SameArrival ==
    ASSUME NEW u \in Thread,
           UNCHANGED <<graph, noFuse, enabled>>,
           pc'[u] = pc[u], node_n'[u] = node_n[u], group'[u] = group[u],
           flushing'[u] = flushing[u], sync'[u] = sync[u], ret'[u] = ret[u],
           \/ abort' = abort
           \/ pc[u] # "loop"
           \/ node_n[u] > Len(graph.nodes)
           \/ abort # node_n[u] /\ abort' # node_n[u]
    PROVE  Arrival(u)' = Arrival(u)
<1>1. CASE pc[u] = "loop"
  <2>1. CASE abort' = abort
    BY <1>1, <2>1 DEF Arrival, ArrivalFrom, LoopArr, ComputeArr, AfterArr, TailArr,
       FlushesFirstAt, HookedAt, DefersAt, JoinsAt, Deferred
  <2>2. CASE node_n[u] > Len(graph.nodes)
    BY <1>1, <2>2 DEF Arrival, ArrivalFrom, LoopArr, TailArr
  <2>3. CASE abort # node_n[u] /\ abort' # node_n[u]
    BY <1>1, <2>3 DEF Arrival, ArrivalFrom, LoopArr, ComputeArr, AfterArr, TailArr,
       FlushesFirstAt, HookedAt, DefersAt, JoinsAt, Deferred
  <2>4. QED
    BY <1>1, <2>1, <2>2, <2>3
<1>2. CASE pc[u] # "loop"
  BY <1>2 DEF Arrival, ArrivalFrom, ComputeArr, AfterArr, TailArr, Phase2Arr, GraphEndArr,
     FlushesFirstAt, HookedAt, DefersAt, JoinsAt, Deferred
<1>3. QED
  BY <1>1, <1>2
LEMMA FlushArrival ==
    ASSUME TypeOK, NEW t \in Thread, NEW mem, NEW s, NEW r, StartFlush(t, mem, s, r)
    PROVE  Arrival(t)' = <<"bPhase1", node_n[t], NoGroup, mem, s, r>>
BY DEF StartFlush, TypeOK, Arrival, ArrivalFrom

(* The guards of the actions, in terms of the locals. *)
LEMMA GuardsAt ==
    ASSUME AllSlots, NEW t \in Thread
    PROVE  /\ Hooked(t) <=> HookedAt(node_n[t])
           /\ Defers(t) <=> DefersAt(node_n[t])
           /\ Joins(t) <=> JoinsAt(node_n[t], group[t])
           /\ FlushesFirst(t) <=> FlushesFirstAt(node_n[t], group[t])
<1>1. HasSlot(t)
  BY EverySlot
<1>2. QED
  BY <1>1 DEF Hooked, HookedAt, Defers, DefersAt, Joins, JoinsAt, FlushesFirst,
              FlushesFirstAt, Node, Active

(* A thread's own step, but for the end of a node, goes where it was       *)
(* expected.                                                               *)
LEMMA OwnArrival ==
    ASSUME TypeOK, AllSlots, NEW t \in Thread, Step(t)
    PROVE  Arrival(t)' = Arrival(t)
<1>0. HasSlot(t) /\ (Active(t) <=> group[t].mem # <<>>)
  BY EverySlot DEF Active
<1>0a. node_n[t] \in Nat /\ Len(graph.nodes) \in Nat
  BY GraphFacts DEF TypeOK
<1> DEFINE n == node_n[t]
           g == group[t]
           f == flushing[t]
           s == sync[t]
           r == ret[t]
<1>1. CASE BoundaryFlush(t)
  <2>1. Arrival(t) = LoopArr(n, g, f, s, r)
    BY <1>1 DEF BoundaryFlush, AtNode, Arrival, ArrivalFrom
  <2>1a. /\ ~(n > Len(graph.nodes) \/ abort = n)
         /\ enabled /\ g.mem # <<>> /\ ~SelfManaged(graph.nodes[n].op)
    BY <1>0, <1>0a, <1>1 DEF BoundaryFlush, AtNode, BoundaryFlushes, Node
  <2>2. Arrival(t) = <<"bPhase1", n, NoGroup, g.mem, TRUE, "compute">>
    <3> HIDE DEF n, g, f, s, r
    <3>1. QED
      BY <2>1, <2>1a DEF LoopArr
  <2>3. StartFlush(t, g.mem, TRUE, "compute")
    BY <1>1 DEF BoundaryFlush
  <2>4. QED
    BY <2>2, <2>3, FlushArrival
<1>2. CASE EnterNode(t)
  <2>1. Arrival(t) = ComputeArr(n, g, f, s, r)
    BY <1>0, <1>0a, <1>2
       DEF EnterNode, AtNode, BoundaryFlushes, Node, Arrival, ArrivalFrom, LoopArr
  <2>2. Arrival(t)' = ComputeArr(n, g, f, s, r)'
    BY <1>2 DEF EnterNode, TypeOK, locals, Arrival, ArrivalFrom
  <2>3. ComputeArr(n, g, f, s, r)' = ComputeArr(n, g, f, s, r)
    BY <1>2 DEF EnterNode, locals, ComputeArr, AfterArr, TailArr, FlushesFirstAt, HookedAt,
                DefersAt, JoinsAt, Deferred
  <2>4. QED
    BY <2>1, <2>2, <2>3
<1>3. CASE LeaveLoop(t)
  BY <1>0a, <1>3 DEF LeaveLoop, TypeOK, locals, Arrival, ArrivalFrom, LoopArr, TailArr
<1>4. CASE HookFlush(t)
  <2>1. Arrival(t) = ComputeArr(n, g, f, s, r)
    BY <1>4 DEF HookFlush, Arrival, ArrivalFrom
  <2>2. FlushesFirstAt(n, g)
    BY <1>4, GuardsAt DEF HookFlush
  <2>3. StartFlush(t, g.mem, graph.nodes[n].op = "s1" => ~noFuse, "compute")
    BY <1>4 DEF HookFlush, Node
  <2>4. QED
    BY <2>1, <2>2, <2>3, FlushArrival DEF ComputeArr
<1>5. CASE Defer(t)
  <2>1. Arrival(t) = ComputeArr(n, g, f, s, r)
    BY <1>5 DEF Defer, Arrival, ArrivalFrom
  <2>2. ~FlushesFirstAt(n, g) /\ HookedAt(n) /\ DefersAt(n)
    BY <1>5, GuardsAt DEF Defer
  <2>3. Arrival(t) = AfterArr(n, Deferred(n, g), f, s, r)
    BY <2>1, <2>2 DEF ComputeArr
  <2>4. group'[t] = Deferred(n, g)
    BY <1>5 DEF Defer, Deferred, Node, TypeOK
  <2>5. /\ pc'[t] = "after" /\ node_n'[t] = n /\ flushing'[t] = f /\ sync'[t] = s
        /\ ret'[t] = r /\ UNCHANGED <<graph, enabled>>
    BY <1>5 DEF Defer, TypeOK
  <2>6. Arrival(t)' = AfterArr(n, Deferred(n, g), f, s, r)
    <3> HIDE DEF n, g, f, s, r
    <3>1. QED
      BY <2>4, <2>5 DEF Arrival, ArrivalFrom, AfterArr, TailArr
  <2>7. QED
    BY <2>3, <2>6
<1>6. CASE RunNow(t)
  <2>1. Arrival(t) = ComputeArr(n, g, f, s, r)
    BY <1>6 DEF RunNow, Arrival, ArrivalFrom
  <2>2. ~FlushesFirstAt(n, g) /\ HookedAt(n) /\ ~DefersAt(n) /\ graph.nodes[n].op # "s2"
    BY <1>6, GuardsAt DEF RunNow, Node
  <2>3. StartFlush(t, Members(n, graph.nodes[n].segs), FALSE, "after")
    BY <1>6 DEF RunNow, Node
  <2>4. QED
    BY <2>1, <2>2, <2>3, FlushArrival DEF ComputeArr
<1>7. CASE ComputeNow(t)
  <2>1. Arrival(t) = ComputeArr(n, g, f, s, r)
    BY <1>7 DEF ComputeNow, Arrival, ArrivalFrom
  <2>2. HookedAt(n) => graph.nodes[n].op = "s2" /\ ~FlushesFirstAt(n, g)
    BY <1>7, GuardsAt DEF ComputeNow, Node
  <2>3. ~FlushesFirstAt(n, g) /\ ~(HookedAt(n) /\ DefersAt(n))
    BY <2>2 DEF FlushesFirstAt, DefersAt
  <2>4. Arrival(t) = AfterArr(n, g, f, s, r)
    BY <2>1, <2>2, <2>3 DEF ComputeArr
  <2>5. Arrival(t)' = AfterArr(n, g, f, s, r)
    BY <1>7 DEF ComputeNow, TypeOK, locals, Arrival, ArrivalFrom, AfterArr, TailArr
  <2>6. QED
    BY <2>4, <2>5
<1>8. CASE AfterNode(t)
  <2>1. Arrival(t) = AfterArr(n, g, f, s, r)
    BY <1>8 DEF AfterNode, Arrival, ArrivalFrom
  <2>2. CASE n < Len(graph.nodes) \/ graph.nops
    <3>1. pc'[t] = "bNode" /\ node_n'[t] = n
      BY <1>8, <2>2 DEF AfterNode, TypeOK
    <3>2. QED
      BY <1>8, <2>1, <2>2, <3>1 DEF AfterNode, Arrival, ArrivalFrom, AfterArr
  <2>3. CASE ~(n < Len(graph.nodes) \/ graph.nops)
    <3>1. pc'[t] = "loop" /\ node_n'[t] = n + 1
      BY <1>8, <2>3 DEF AfterNode, TypeOK
    <3>2. n + 1 > Len(graph.nodes)
      BY <1>0a, <2>3
    <3>3. QED
      BY <1>8, <2>1, <2>3, <3>1, <3>2
         DEF AfterNode, Arrival, ArrivalFrom, AfterArr, LoopArr, TailArr
  <2>4. QED
    BY <2>2, <2>3
<1>9. CASE Phase1(t)
  BY <1>9 DEF Phase1, TypeOK, locals, Arrival, ArrivalFrom
<1>10. CASE Phase2(t)
  <2>1. Arrival(t) = Phase2Arr(n, g, f, s, r)
    BY <1>10 DEF Phase2, Arrival, ArrivalFrom
  <2>2. r \in {"compute", "after", "final"} /\ UNCHANGED <<node_n, group, flushing, sync, ret>>
    BY <1>10 DEF Phase2, TypeOK, locals
  <2>3. CASE s
    BY <1>10, <2>1, <2>2, <2>3 DEF Phase2, TypeOK, Phase2Arr, Arrival, ArrivalFrom
  <2>4. CASE ~s /\ r # "compute"
    BY <1>10, <2>1, <2>2, <2>4
       DEF Phase2, TypeOK, Phase2Arr, Arrival, ArrivalFrom, AfterArr, TailArr
  <2>5. CASE ~s /\ r = "compute"
    <3>1. Arrival(t)' = ComputeArr(n, g, f, s, r)'
      BY <1>10, <2>2, <2>5 DEF Phase2, TypeOK, Arrival, ArrivalFrom
    <3>2. ComputeArr(n, g, f, s, r)' = ComputeArr(n, g, f, s, r)
      BY <1>10, <2>2 DEF Phase2, ComputeArr, AfterArr, TailArr, FlushesFirstAt, HookedAt,
                         DefersAt, JoinsAt, Deferred
    <3>3. QED
      BY <2>1, <2>5, <3>1, <3>2 DEF Phase2Arr
  <2>6. QED
    BY <2>3, <2>4, <2>5
<1>11. CASE AfterLoop(t)
  BY <1>11 DEF AfterLoop, TypeOK, locals, Arrival, ArrivalFrom, TailArr
<1>12. CASE GraphEndFlush(t)
  <2>1. Arrival(t) = <<"bPhase1", n, NoGroup, g.mem, TRUE, "final">>
    BY <1>0, <1>12 DEF GraphEndFlush, Arrival, ArrivalFrom, GraphEndArr
  <2>2. StartFlush(t, g.mem, TRUE, "final")
    BY <1>12 DEF GraphEndFlush
  <2>3. QED
    BY <2>1, <2>2, FlushArrival
<1>13. CASE GraphEndIdle(t)
  BY <1>0, <1>13 DEF GraphEndIdle, TypeOK, locals, Arrival, ArrivalFrom, GraphEndArr
<1>14. CASE Final(t)
  BY <1>14 DEF Final, TypeOK, locals, Arrival, ArrivalFrom
<1>15. QED
  BY <1>1, <1>2, <1>3, <1>4, <1>5, <1>6, <1>7, <1>8, <1>9, <1>10, <1>11, <1>12, <1>13,
     <1>14 DEF Step
LEMMA StepFrame ==
    ASSUME TypeOK, NEW t \in Thread, Step(t)
    PROVE  /\ UNCHANGED <<graph, noFuse, enabled>>
           /\ abort' = abort \/ (pc[t] = "after" /\ abort' = node_n[t] + 1)
           /\ \A u \in Thread \ {t} :
                /\ pc'[u] = pc[u]
                /\ node_n'[u] = node_n[u]
                /\ group'[u] = group[u]
                /\ flushing'[u] = flushing[u]
                /\ sync'[u] = sync[u]
                /\ ret'[u] = ret[u]
                /\ partials'[u] = partials[u]
<1>1. CASE BoundaryFlush(t) \/ HookFlush(t) \/ RunNow(t) \/ GraphEndFlush(t)
  <2>1. /\ UNCHANGED <<graph, noFuse, enabled, abort, node_n, partials>>
        /\ \E p : pc' = [pc EXCEPT ![t] = p]
        /\ \E g : group' = [group EXCEPT ![t] = g]
        /\ \E f : flushing' = [flushing EXCEPT ![t] = f]
        /\ \E s : sync' = [sync EXCEPT ![t] = s]
        /\ \E r : ret' = [ret EXCEPT ![t] = r]
    BY <1>1, Zenon DEF BoundaryFlush, HookFlush, RunNow, GraphEndFlush, StartFlush
  <2>2. QED
    BY <2>1 DEF TypeOK
<1>2. CASE EnterNode(t) \/ LeaveLoop(t) \/ ComputeNow(t) \/ Phase1(t) \/ Phase2(t)
           \/ AfterLoop(t) \/ GraphEndIdle(t) \/ Final(t)
  BY <1>2 DEF EnterNode, LeaveLoop, ComputeNow, Phase1, Phase2, AfterLoop, GraphEndIdle,
              Final, TypeOK, locals
<1>3. CASE Defer(t)
  BY <1>3 DEF Defer, TypeOK
<1>4. CASE AfterNode(t)
  BY <1>4 DEF AfterNode, AbortChoices, TypeOK
<1>5. QED
  BY <1>1, <1>2, <1>3, <1>4 DEF Step

(* A node ends at its barrier, or at the end of the graph, or in a pass.   *)
LEMMA AfterSite ==
    ASSUME NEW n, NEW g, NEW f, NEW s, NEW r
    PROVE  LET a == AfterArr(n, g, f, s, r) IN
           \/ a[1] = "bNode" /\ a[2] = n
           \/ a[1] \in {"bTail", "bFinal"} /\ a[2] = n + 1
BY DEF AfterArr, TailArr

LEMMA ComputeSite ==
    ASSUME NEW n, NEW g, NEW f, NEW s, NEW r
    PROVE  LET a == ComputeArr(n, g, f, s, r) IN
           \/ a[1] = "bPhase1"
           \/ a[1] = "bNode" /\ a[2] = n
           \/ a[1] \in {"bTail", "bFinal"} /\ a[2] = n + 1
BY AfterSite DEF ComputeArr

(* When thread 0 sets the node to stop at, no thread of the pool is about  *)
(* to look whether it is that node.                                        *)
LEMMA AbortUnseen ==
    ASSUME TypeOK, NEW t \in Thread, NEW u \in Thread,
           pc[t] = "after", pc[u] = "loop", Arrival(t) = Arrival(u)
    PROVE  \/ node_n[u] > Len(graph.nodes)
           \/ abort # node_n[u] /\ node_n[u] # node_n[t] + 1
<1>0. /\ Len(graph.nodes) \in Nat
      /\ node_n[t] \in 1 .. Len(graph.nodes)
      /\ node_n[u] \in Nat
  BY GraphFacts DEF TypeOK, InNode, Nodes
<1>1. Arrival(t) = AfterArr(node_n[t], group[t], flushing[t], sync[t], ret[t])
  BY DEF Arrival, ArrivalFrom
<1>2. Arrival(u) = LoopArr(node_n[u], group[u], flushing[u], sync[u], ret[u])
  BY DEF Arrival, ArrivalFrom
<1>3. SUFFICES ASSUME node_n[u] <= Len(graph.nodes)
               PROVE  abort # node_n[u] /\ node_n[u] # node_n[t] + 1
  BY <1>0
<1>4. CASE Arrival(t)[1] = "bNode" /\ Arrival(t)[2] = node_n[t]
  <2>1. abort # node_n[u]
    BY <1>2, <1>4 DEF LoopArr, TailArr
  <2>2. Arrival(u)[2] = node_n[u]
    BY <1>0, <1>2, <1>3, <1>4, <2>1, ComputeSite DEF LoopArr
  <2>3. QED
    BY <1>0, <1>4, <2>1, <2>2
<1>5. CASE Arrival(t)[1] \in {"bTail", "bFinal"} /\ Arrival(t)[2] = node_n[t] + 1
  <2>1. node_n[t] = Len(graph.nodes)
    BY <1>0, <1>1, <1>5 DEF AfterArr
  <2>2. abort # node_n[u]
    <3>1. ASSUME abort = node_n[u] PROVE FALSE
      <4>1. Arrival(u)[2] = node_n[u]
        BY <1>2, <3>1 DEF LoopArr, TailArr
      <4>2. QED
        BY <1>0, <1>3, <1>5, <2>1, <4>1
    <3>2. QED
      BY <3>1
  <2>3. QED
    BY <1>0, <1>3, <2>1, <2>2
<1>6. QED
  BY <1>1, <1>4, <1>5, AfterSite

LEMMA StepLockstep ==
    ASSUME TypeOK, AllSlots, Lockstep, NEW t \in Thread, Step(t)
    PROVE  Lockstep'
<1>1. Arrival(t)' = Arrival(t)
  BY OwnArrival
<1>2. ASSUME NEW u \in Thread \ {t} PROVE Arrival(u)' = Arrival(u)
  <2>1. \/ abort' = abort
        \/ pc[u] # "loop"
        \/ node_n[u] > Len(graph.nodes)
        \/ abort # node_n[u] /\ abort' # node_n[u]
    BY StepFrame, AbortUnseen DEF Lockstep
  <2>2. /\ UNCHANGED <<graph, noFuse, enabled>>
        /\ pc'[u] = pc[u] /\ node_n'[u] = node_n[u] /\ group'[u] = group[u]
        /\ flushing'[u] = flushing[u] /\ sync'[u] = sync[u] /\ ret'[u] = ret[u]
    BY StepFrame
  <2>3. QED
    BY <2>1, <2>2, SameArrival
<1>3. \A u \in Thread : Arrival(u)' = Arrival(u)
  BY <1>1, <1>2
<1>4. QED
  BY <1>3 DEF Lockstep

(* Threads that are all in the barrier, or all done, have equal locals.    *)
LEMMA EqualLocals ==
    ASSUME Lockstep, NEW t \in Thread, NEW u \in Thread,
           pc[t] \in BarrierSites \union {"done"}, pc[u] \in BarrierSites \union {"done"}
    PROVE  /\ pc[t] = pc[u]
           /\ node_n[t] = node_n[u]
           /\ group[t] = group[u]
           /\ flushing[t] = flushing[u]
           /\ sync[t] = sync[u]
           /\ ret[t] = ret[u]
<1>1. ASSUME NEW v \in {t, u}
      PROVE  Arrival(v) = <<pc[v], node_n[v], group[v], flushing[v], sync[v], ret[v]>>
  BY <1>1 DEF BarrierSites, Arrival, ArrivalFrom
<1>2. Arrival(t) = Arrival(u)
  BY DEF Lockstep
<1>3. QED
  BY <1>1, <1>2

LEMMA ReleaseLockstep ==
    ASSUME TypeOK, Lockstep, Release
    PROVE  Lockstep'
<1>1. \A t \in Thread : pc[t] \in BarrierSites
  BY DEF Release, Waiting
<1>2. ASSUME NEW t \in Thread, NEW u \in Thread
      PROVE  /\ pc'[t] = pc'[u] /\ node_n'[t] = node_n'[u] /\ group'[t] = group'[u]
             /\ flushing'[t] = flushing'[u] /\ sync'[t] = sync'[u] /\ ret'[t] = ret'[u]
  <2>1. /\ pc[t] = pc[u] /\ node_n[t] = node_n[u] /\ group[t] = group[u]
        /\ flushing[t] = flushing[u] /\ sync[t] = sync[u] /\ ret[t] = ret[u]
    BY <1>1, EqualLocals
  <2>2. Resume(t) = Resume(u)
    BY <2>1 DEF Resume
  <2>3. QED
    BY <2>1, <2>2 DEF Release
<1>3. QED
  BY <1>2 DEF Lockstep, Arrival

LEMMA AroundLockstep ==
    ASSUME TypeOK, AllSlots, Lockstep, StartGraph \/ SetEnabled
    PROVE  Lockstep'
<1>1. \A t \in Thread : pc[t] = "done"
  BY DEF StartGraph, SetEnabled, AllDone, AllSlots
<1>2. ASSUME NEW t \in Thread, NEW u \in Thread
      PROVE  /\ pc'[t] = pc'[u] /\ node_n'[t] = node_n'[u] /\ group'[t] = group'[u]
             /\ flushing'[t] = flushing'[u] /\ sync'[t] = sync'[u] /\ ret'[t] = ret'[u]
  <2>1. /\ pc[t] = pc[u] /\ node_n[t] = node_n[u] /\ group[t] = group[u]
        /\ flushing[t] = flushing[u] /\ sync[t] = sync[u] /\ ret[t] = ret[u]
    BY <1>1, EqualLocals
  <2>2. QED
    BY <2>1 DEF StartGraph, SetEnabled, locals
<1>3. QED
  BY <1>2 DEF Lockstep, Arrival

LEMMA InitLockstep == Init => Lockstep
BY DEF Init, Lockstep, Arrival

LEMMA NextLockstep ==
    ASSUME TypeOK, AllSlots, Lockstep, [Next]_vars
    PROVE  Lockstep'
<1>1. CASE UNCHANGED vars
  <2>1. ASSUME NEW u \in Thread PROVE Arrival(u)' = Arrival(u)
    BY <1>1, SameArrival DEF vars, locals
  <2>2. QED
    BY <2>1 DEF Lockstep
<1>2. QED
  BY <1>1, StepLockstep, ReleaseLockstep, AroundLockstep DEF Next

(* With a slot of g_s1_group for every thread, and no model loaded while a *)
(* graph is computed, the threads always meet in the same call of the      *)
(* barrier, with the same group and the same pass in hand.                 *)
THEOREM FusionLockstep == AllSlots /\ Spec => []BarrierLockstep
<1>1. TypeOK /\ Lockstep => BarrierLockstep
  BY EqualLocals DEF BarrierLockstep, Waiting
<1>2. AllSlots /\ TypeOK /\ Lockstep /\ [Next]_vars => Lockstep'
  BY NextLockstep
<1>3. CASE AllSlots
  <2>1. TypeOK /\ Lockstep /\ [Next]_vars => Lockstep'
    BY <1>2, <1>3
  <2>2. Spec => []BarrierLockstep
    BY <1>1, <2>1, InitLockstep, FusionTypes, PTL DEF Spec
  <2>3. QED
    BY <2>2
<1>4. CASE ~AllSlots
  BY <1>4
<1>5. QED
  BY <1>3, <1>4
-----------------------------------------------------------------------------
(***************************************************************************)
(* Pending groups.  A group is pending only while a graph is computed, up  *)
(* to the flush that ends it, and only on a thread with a slot, with PQ    *)
(* and fusion switched on.                                                 *)
(***************************************************************************)
PendingInside ==
    \A t \in Thread : Active(t) =>
        /\ enabled /\ ~noFuse /\ HasSlot(t)
        /\ pc[t] \in {"loop", "compute", "after", "bNode", "tail", "bTail", "graphEnd"}

LEMMA StepPending ==
    ASSUME TypeOK, PendingInside, NEW t \in Thread, Step(t)
    PROVE  PendingInside'
<1>1. ASSUME NEW u \in Thread \ {t}, Active(u)'
      PROVE  /\ enabled' /\ ~noFuse' /\ HasSlot(u)
             /\ pc'[u] \in {"loop", "compute", "after", "bNode", "tail", "bTail", "graphEnd"}
  BY <1>1, StepFrame DEF PendingInside, Active
<1>2. ASSUME Active(t)'
      PROVE  /\ enabled' /\ ~noFuse' /\ HasSlot(t)
             /\ pc'[t] \in {"loop", "compute", "after", "bNode", "tail", "bTail", "graphEnd"}
  <2>1. CASE BoundaryFlush(t) \/ HookFlush(t) \/ RunNow(t) \/ GraphEndFlush(t)
    <3>1. \E g : group' = [group EXCEPT ![t] = NoGroup]
      BY <2>1, Zenon DEF BoundaryFlush, HookFlush, RunNow, GraphEndFlush, StartFlush
    <3>2. QED
      BY <1>2, <3>1 DEF TypeOK, Active, NoGroup
  <2>2. CASE Defer(t)
    BY <2>2 DEF Defer, Hooked, Defers, TypeOK
  <2>3. CASE EnterNode(t) \/ LeaveLoop(t) \/ ComputeNow(t) \/ AfterLoop(t) \/ GraphEndIdle(t)
             \/ Final(t) \/ Phase1(t) \/ Phase2(t)
    <3>1. UNCHANGED <<group, enabled, noFuse>>
      BY <2>3 DEF EnterNode, LeaveLoop, ComputeNow, AfterLoop, GraphEndIdle, Final, Phase1,
                  Phase2, locals
    <3>2. Active(t) /\ enabled /\ ~noFuse /\ HasSlot(t)
      BY <1>2, <3>1 DEF PendingInside, Active
    <3>3. pc[t] \in {"loop", "compute", "after", "bNode", "tail", "bTail", "graphEnd"}
      BY <3>2 DEF PendingInside
    <3>4. QED
      BY <2>3, <3>1, <3>2, <3>3
         DEF EnterNode, LeaveLoop, ComputeNow, AfterLoop, GraphEndIdle, Final, Phase1, Phase2,
             TypeOK
  <2>4. CASE AfterNode(t)
    BY <1>2, <2>4 DEF AfterNode, PendingInside, Active, TypeOK
  <2>5. QED
    BY <2>1, <2>2, <2>3, <2>4 DEF Step
<1>3. \A u \in Thread : HasSlot(u)' <=> HasSlot(u)
  BY DEF HasSlot
<1>4. QED
  BY <1>1, <1>2, <1>3 DEF PendingInside

LEMMA NextPending ==
    ASSUME ~LoadsDuringCompute, TypeOK, PendingInside, [Next]_vars
    PROVE  PendingInside'
<1>1. CASE UNCHANGED vars
  BY <1>1 DEF vars, locals, PendingInside, Active, HasSlot
<1>2. CASE Release
  BY <1>2 DEF Release, Resume, Waiting, BarrierSites, PendingInside, Active, HasSlot
<1>3. CASE StartGraph \/ SetEnabled
  <2>1. \A t \in Thread : ~Active(t)
    BY <1>3 DEF StartGraph, SetEnabled, AllDone, PendingInside
  <2>2. group' = group
    BY <1>3 DEF StartGraph, SetEnabled, locals
  <2>3. QED
    BY <2>1, <2>2 DEF PendingInside, Active
<1>4. QED
  BY <1>1, <1>2, <1>3, StepPending DEF Next

LEMMA InitPending == Init => PendingInside
BY DEF Init, PendingInside, Active, NoGroup

(* No group outlives its graph, however many threads there are and whether *)
(* or not the graph is aborted.                                            *)
THEOREM FusionLeavesNothing == ~LoadsDuringCompute /\ Spec => []NothingPending
<1>1. PendingInside => NothingPending
  BY DEF PendingInside, NothingPending, AllDone
<1>2. CASE ~LoadsDuringCompute
  <2>1. TypeOK /\ PendingInside /\ [Next]_vars => PendingInside'
    BY <1>2, NextPending
  <2>2. Spec => []NothingPending
    BY <1>1, <2>1, InitPending, FusionTypes, PTL DEF Spec
  <2>3. QED
    BY <2>2
<1>3. CASE LoadsDuringCompute
  BY <1>3
<1>4. QED
  BY <1>2, <1>3

-----------------------------------------------------------------------------
(***************************************************************************)
(* Partial sums.  A pass whose caller goes on to compute a node ends with  *)
(* the second barrier; therefore no thread can be in phase 1 of the next   *)
(* pass while another one still sums up the rows of this one.              *)
(***************************************************************************)
PassSync == \A t \in Thread : Flushes(t) /\ ret[t] # "after" => sync[t]

RowFilled == \A t \in Thread : pc[t] = "bPhase1" => partials[t] = flushing[t]

RowsFilled == \A t, u \in Thread : pc[t] = "phase2" => partials[u] = flushing[t]

PassInv == PassSync /\ RowFilled /\ RowsFilled

(* Where the threads of two phases will arrive. *)
LEMMA PhasesApart ==
    ASSUME TypeOK, Lockstep, PassSync, NEW t \in Thread, NEW u \in Thread, pc[t] = "phase2"
    PROVE  pc[u] # "phase1"
<1>1. SUFFICES ASSUME pc[u] = "phase1" PROVE FALSE
  OBVIOUS
<1>2. Arrival(u)[1] = "bPhase1"
  BY <1>1 DEF Arrival, ArrivalFrom
<1>3. Arrival(t) = Phase2Arr(node_n[t], group[t], flushing[t], sync[t], ret[t])
  BY DEF Arrival, ArrivalFrom
<1>4. sync[t] \/ ret[t] = "after"
  BY DEF PassSync, Flushes
<1>5. Arrival(t)[1] # "bPhase1"
  BY <1>3, <1>4, AfterSite DEF Phase2Arr
<1>6. QED
  BY <1>2, <1>5 DEF Lockstep

LEMMA StartFlushPass ==
    ASSUME TypeOK, PassInv, NEW t \in Thread, NEW mem, NEW s, NEW r,
           r # "after" => s, StartFlush(t, mem, s, r)
    PROVE  PassInv'
<1>1. /\ pc'[t] = "phase1" /\ sync'[t] = s /\ ret'[t] = r
      /\ partials' = partials
      /\ \A u \in Thread \ {t} : /\ pc'[u] = pc[u] /\ sync'[u] = sync[u]
                                 /\ ret'[u] = ret[u] /\ flushing'[u] = flushing[u]
  BY DEF StartFlush, TypeOK
<1>2. PassSync'
  BY <1>1 DEF PassInv, PassSync, Flushes
<1>3. RowFilled'
  BY <1>1 DEF PassInv, RowFilled
<1>4. RowsFilled'
  BY <1>1 DEF PassInv, RowsFilled
<1>5. QED
  BY <1>2, <1>3, <1>4 DEF PassInv

LEMMA StepPass ==
    ASSUME TypeOK, PendingInside, Lockstep, PassInv, NEW t \in Thread, Step(t)
    PROVE  PassInv'
<1>1. CASE BoundaryFlush(t)
  BY <1>1, StartFlushPass DEF BoundaryFlush
<1>2. CASE HookFlush(t)
  <2>1. (Node(t).op = "s1" => ~noFuse) = TRUE
    BY <1>2 DEF HookFlush, FlushesFirst, PendingInside
  <2>2. StartFlush(t, group[t].mem, TRUE, "compute")
    BY <1>2, <2>1 DEF HookFlush
  <2>3. QED
    BY <2>2, StartFlushPass
<1>3. CASE RunNow(t)
  BY <1>3, StartFlushPass DEF RunNow
<1>4. CASE GraphEndFlush(t)
  BY <1>4, StartFlushPass DEF GraphEndFlush
<1>5. CASE Phase1(t)
  <2>1. /\ pc[t] = "phase1" /\ pc'[t] = "bPhase1"
        /\ partials'[t] = flushing[t]
        /\ \A u \in Thread \ {t} : pc'[u] = pc[u] /\ partials'[u] = partials[u]
        /\ UNCHANGED <<flushing, sync, ret>>
    BY <1>5 DEF Phase1, TypeOK, locals
  <2>2. \A u \in Thread : pc[u] # "phase2"
    BY <2>1, PhasesApart DEF PassInv
  <2>3. PassSync'
    BY <2>1 DEF PassInv, PassSync, Flushes
  <2>4. RowFilled'
    BY <2>1 DEF PassInv, RowFilled
  <2>5. RowsFilled'
    BY <2>1, <2>2 DEF PassInv, RowsFilled
  <2>6. QED
    BY <2>3, <2>4, <2>5 DEF PassInv
<1>6. CASE \/ EnterNode(t) \/ LeaveLoop(t) \/ Defer(t) \/ ComputeNow(t) \/ AfterNode(t)
           \/ Phase2(t) \/ AfterLoop(t) \/ GraphEndIdle(t) \/ Final(t)
  <2>1. UNCHANGED <<flushing, sync, ret, partials>>
    BY <1>6 DEF EnterNode, LeaveLoop, Defer, ComputeNow, AfterNode, Phase2, AfterLoop,
                GraphEndIdle, Final, locals
  <2>2. pc'[t] \in {"phase1", "bPhase1", "phase2"} => FALSE
    BY <1>6 DEF EnterNode, LeaveLoop, Defer, ComputeNow, AfterNode, Phase2, AfterLoop,
                GraphEndIdle, Final, TypeOK
  <2>3. pc'[t] = "bPhase2" => pc[t] = "phase2"
    BY <1>6 DEF EnterNode, LeaveLoop, Defer, ComputeNow, AfterNode, Phase2, AfterLoop,
                GraphEndIdle, Final, TypeOK
  <2>4. \A u \in Thread \ {t} : pc'[u] = pc[u]
    BY StepFrame
  <2>5. PassSync'
    BY <2>1, <2>2, <2>3, <2>4 DEF PassInv, PassSync, Flushes
  <2>6. RowFilled' /\ RowsFilled'
    BY <2>1, <2>2, <2>4 DEF PassInv, RowFilled, RowsFilled
  <2>7. QED
    BY <2>5, <2>6 DEF PassInv
<1>7. QED
  BY <1>1, <1>2, <1>3, <1>4, <1>5, <1>6 DEF Step

LEMMA ReleasePass ==
    ASSUME TypeOK, Lockstep, PassInv, Release
    PROVE  PassInv'
<1>1. /\ \A t \in Thread : pc[t] \in BarrierSites
      /\ \A t \in Thread : pc'[t] = Resume(t)
      /\ UNCHANGED <<flushing, sync, ret, partials>>
  BY DEF Release, Waiting
<1>2. \A t \in Thread : pc'[t] = "phase2" <=> pc[t] = "bPhase1"
  BY <1>1 DEF Resume, BarrierSites, TypeOK
<1>3. \A t \in Thread : pc'[t] \notin {"phase1", "bPhase1", "bPhase2"}
  BY <1>1 DEF Resume, BarrierSites, TypeOK
<1>4. PassSync'
  BY <1>1, <1>2, <1>3 DEF PassInv, PassSync, Flushes
<1>5. RowsFilled'
  <2>1. ASSUME NEW t \in Thread, NEW u \in Thread, pc[t] = "bPhase1"
        PROVE  partials[u] = flushing[t]
    <3>1. pc[u] = "bPhase1" /\ flushing[u] = flushing[t]
      BY <1>1, <2>1, EqualLocals
    <3>2. QED
      BY <3>1 DEF PassInv, RowFilled
  <2>2. QED
    BY <1>1, <1>2, <2>1 DEF RowsFilled
<1>6. QED
  BY <1>3, <1>4, <1>5 DEF PassInv, RowFilled

LEMMA AroundPass ==
    ASSUME TypeOK, PassInv, StartGraph \/ SetEnabled \/ UNCHANGED vars
    PROVE  PassInv'
<1>1. CASE StartGraph
  BY <1>1 DEF StartGraph, PassInv, PassSync, RowFilled, RowsFilled, Flushes
<1>2. CASE SetEnabled \/ UNCHANGED vars
  BY <1>2 DEF SetEnabled, vars, locals, PassInv, PassSync, RowFilled, RowsFilled, Flushes
<1>3. QED
  BY <1>1, <1>2

LEMMA InitPass == Init => PassInv
BY DEF Init, PassInv, PassSync, RowFilled, RowsFilled, Flushes

(* The sums of phase 2 are over complete rows of one and the same pass.    *)
THEOREM FusionPartials == AllSlots /\ Spec => []PartialsComplete
<1> DEFINE Inv == TypeOK /\ Lockstep /\ PendingInside /\ PassInv
<1>1. Init => Inv
  BY InitTypes, InitLockstep, InitPending, InitPass
<1>2. AllSlots /\ Inv /\ [Next]_vars => Inv'
  <2> SUFFICES ASSUME AllSlots, Inv, [Next]_vars PROVE Inv'
    OBVIOUS
  <2>1. TypeOK' /\ Lockstep' /\ PendingInside'
    BY NextTypes, NextLockstep, NextPending DEF AllSlots
  <2>2. PassInv'
    BY StepPass, ReleasePass, AroundPass DEF Next
  <2>3. QED
    BY <2>1, <2>2
<1>3. Inv => PartialsComplete
  BY PhasesApart DEF PartialsComplete, PassInv, RowsFilled
<1>4. CASE AllSlots
  <2>1. Inv /\ [Next]_vars => Inv'
    BY <1>2, <1>4
  <2>2. Spec => []PartialsComplete
    BY <1>1, <1>3, <2>1, PTL DEF Spec
  <2>3. QED
    BY <2>2
<1>5. CASE ~AllSlots
  BY <1>5
<1>6. QED
  BY <1>4, <1>5

-----------------------------------------------------------------------------
(* The dataflow evaluation. *)

(* With a declined product ReadsReady does not hold: before it the         *)
(* boundary hook does not flush, and neither does the other one.           *)
AllTaken == \A g \in Graphs : \A i \in DOMAIN g.nodes : g.nodes[i].op # "off"

-----------------------------------------------------------------------------
(* The slices of the threads cover a range.                                *)

LEMMA DivMod ==
    ASSUME NEW a \in Nat, NEW b \in Nat \ {0}
    PROVE  /\ a \div b \in Nat
           /\ b * (a \div b) <= a
           /\ a < b * (a \div b) + b
<1>1. a \div b \in Nat /\ a % b \in 0 .. b - 1 /\ a = b * (a \div b) + (a % b)
  OBVIOUS
<1>2. b * (a \div b) \in Nat
  BY <1>1
<1> QED
  BY <1>1, <1>2

LEMMA Steps ==
    ASSUME NEW d \in Nat, NEW x \in Nat, NEW y \in Nat, x < y
    PROVE  d * x + d <= d * y
OBVIOUS

(* a/b is below c when a is below b*c, and at least c otherwise. *)
LEMMA DivBelow ==
    ASSUME NEW a \in Nat, NEW b \in Nat \ {0}, NEW c \in Nat, a < b * c
    PROVE  a \div b \in Nat /\ a \div b < c
<1> DEFINE q == a \div b
<1>1. q \in Nat /\ b * q <= a
  BY DivMod
<1> HIDE DEF q
<1>2. q < c
  <2> SUFFICES ASSUME c <= q PROVE FALSE
    BY <1>1
  <2>1. b * c <= b * q
    <3>1. CASE c = q
      BY <1>1, <3>1
    <3>2. CASE c < q
      <4>1. b * c + b <= b * q /\ b * c \in Nat /\ b * q \in Nat
        BY <1>1, <3>2, Steps
      <4> QED
        BY <4>1
    <3> QED
      BY <1>1, <3>1, <3>2
  <2>2. b * c \in Nat /\ b * q \in Nat
    BY <1>1
  <2> QED
    BY <1>1, <2>1, <2>2
<1> QED
  BY <1>1, <1>2 DEF q

LEMMA DivAbove ==
    ASSUME NEW a \in Nat, NEW b \in Nat \ {0}, NEW c \in Nat, b * c <= a
    PROVE  a \div b \in Nat /\ c <= a \div b
<1> DEFINE q == a \div b
<1>1. q \in Nat /\ a < b * q + b
  BY DivMod
<1> HIDE DEF q
<1>2. c <= q
  <2> SUFFICES ASSUME q < c PROVE FALSE
    BY <1>1
  <2>1. b * q + b <= b * c /\ b * q \in Nat /\ b * c \in Nat
    BY <1>1, Steps
  <2> QED
    BY <1>1, <2>1
<1> QED
  BY <1>1, <1>2 DEF q

LEMMA SliceInside ==
    ASSUME NEW D \in Nat, NEW t \in Thread
    PROVE  Slice(D, t) \subseteq 0 .. D - 1
<1>0. NThreads \in Nat \ {0} /\ t \in Nat /\ t + 1 <= NThreads
  BY PoolAssumption DEF Thread
<1>1. D * t \in Nat /\ D * (t + 1) \in Nat
  BY <1>0
<1>2. (D * t) \div NThreads \in Nat
  BY <1>0, <1>1, DivMod
<1>3. D * (t + 1) < NThreads * (D + 1)
  <2>1. D * (t + 1) <= D * NThreads
    <3>1. CASE t + 1 = NThreads
      BY <1>0, <3>1
    <3>2. CASE t + 1 < NThreads
      <4>1. D * (t + 1) + D <= D * NThreads /\ D * NThreads \in Nat
        BY <1>0, <3>2, Steps
      <4> QED
        BY <1>1, <4>1
    <3> QED
      BY <1>0, <3>1, <3>2
  <2>2. NThreads * (D + 1) = D * NThreads + NThreads /\ D * NThreads \in Nat
    BY <1>0
  <2> QED
    BY <1>0, <1>1, <2>1, <2>2
<1>4. (D * (t + 1)) \div NThreads \in Nat /\ (D * (t + 1)) \div NThreads < D + 1
  BY <1>0, <1>1, <1>3, DivBelow
<1> QED
  <2> DEFINE lo == (D * t) \div NThreads
             hi == (D * (t + 1)) \div NThreads
  <2>1. lo \in Nat /\ hi \in Nat /\ hi < D + 1 /\ Slice(D, t) = lo .. hi - 1
    BY <1>2, <1>4 DEF Slice
  <2> HIDE DEF lo, hi
  <2> QED
    BY <2>1

LEMMA SlicesCover ==
    ASSUME NEW D \in Nat, NEW r \in 0 .. D - 1
    PROVE  \E t \in Thread : r \in Slice(D, t)
<1> DEFINE e == (r + 1) * NThreads - 1
           t == e \div D
<1>0. D \in Nat \ {0} /\ NThreads \in Nat \ {0} /\ r \in Nat /\ r + 1 <= D
  BY PoolAssumption
<1>1. (r + 1) * NThreads \in Nat \ {0}
  BY <1>0
<1>2. (r + 1) * NThreads <= D * NThreads
  <2>1. CASE r + 1 = D
    BY <1>0, <2>1
  <2>2. CASE r + 1 < D
    <3>1. /\ NThreads * (r + 1) + NThreads <= NThreads * D
          /\ NThreads * (r + 1) = (r + 1) * NThreads /\ NThreads * D = D * NThreads
          /\ NThreads * D \in Nat
      BY <1>0, <2>2, Steps
    <3> QED
      BY <1>0, <1>1, <3>1
  <2> QED
    BY <1>0, <2>1, <2>2
<1>3. e \in Nat /\ e < D * NThreads
  <2>1. D * NThreads \in Nat
    BY <1>0
  <2> QED
    BY <1>1, <1>2, <2>1
<1>3a. e + 1 = NThreads * (r + 1)
  BY <1>0, <1>1
<1> HIDE DEF e
<1>4. t \in Nat /\ t < NThreads /\ D * t <= e /\ e < D * t + D
  BY <1>0, <1>3, DivBelow, DivMod
<1> HIDE DEF t
<1>5. D * t \in Nat /\ D * (t + 1) \in Nat /\ D * (t + 1) = D * t + D
  BY <1>0, <1>4
<1>6. NThreads * (r + 1) \in Nat
  BY <1>0
<1>7. D * t < NThreads * (r + 1) /\ NThreads * (r + 1) <= D * (t + 1)
  BY <1>3, <1>3a, <1>4, <1>5, <1>6
<1> DEFINE lo == (D * t) \div NThreads
           hi == (D * (t + 1)) \div NThreads
<1>8. lo \in Nat /\ lo < r + 1
  BY <1>0, <1>5, <1>7, DivBelow
<1>9. hi \in Nat /\ r + 1 <= hi
  BY <1>0, <1>5, <1>7, DivAbove
<1>10. Slice(D, t) = lo .. hi - 1
  BY DEF Slice
<1> HIDE DEF lo, hi
<1>11. r \in Slice(D, t)
  BY <1>0, <1>8, <1>9, <1>10
<1> QED
  BY <1>0, <1>4, <1>11 DEF Thread

-----------------------------------------------------------------------------
(***************************************************************************)
(* What is written.  A node's elements come from its own pass or step, a   *)
(* slice from each thread, or from the pass that flushes its group.        *)
(***************************************************************************)
Own(n, t) == {<<n, r>> : r \in Slice(graph.nodes[n].rows, t)}
Complete(n) == Cells(n) \subseteq out
Fed(n) == \A s \in graph.nodes[n].srcs : Complete(s)

MemNodes(mem) == {mem[m].node : m \in DOMAIN mem}

(* The members of a group are whole nodes whose input is complete, and     *)
(* have their place in the concatenation.                                  *)
Sound(mem) ==
    \A m \in DOMAIN mem :
        /\ mem[m].node \in Nodes /\ Fed(mem[m].node)
        /\ mem[m].off = 0 /\ mem[m].len = graph.nodes[mem[m].node].rows
        /\ mem[m].start + mem[m].len <= Total(mem)

LEMMA RowFacts ==
    ASSUME TypeOK, NEW n \in Nodes
    PROVE  /\ graph.nodes[n].rows \in Nat \ {0}
           /\ n \in Nat /\ n > 0 /\ n <= Len(graph.nodes)
           /\ Len(graph.nodes) \in Nat
BY GraphFacts, NodeFacts DEF TypeOK, Nodes, NodeType

(* When all threads have written their slices of a node it is complete.    *)
LEMMA OwnCovers ==
    ASSUME TypeOK, NEW n \in Nodes, \A t \in Thread : Own(n, t) \subseteq out
    PROVE  Complete(n)
<1> SUFFICES ASSUME NEW r \in 0 .. graph.nodes[n].rows - 1 PROVE <<n, r>> \in out
  BY DEF Complete, Cells
<1>1. \E t \in Thread : r \in Slice(graph.nodes[n].rows, t)
  BY RowFacts, SlicesCover
<1> QED
  BY <1>1 DEF Own

LEMMA OwnInside ==
    ASSUME TypeOK, NEW n \in Nodes, NEW t \in Thread
    PROVE  Own(n, t) \subseteq Cells(n)
BY RowFacts, SliceInside DEF Own, Cells

(* The same of a pass and its members. *)
LEMMA PassCovers ==
    ASSUME TypeOK, NEW mem \in Seq(Member), Sound(mem), NEW n \in MemNodes(mem),
           \A t \in Thread : Phase2Cells(mem, t) \subseteq out
    PROVE  Complete(n)
<1>1. PICK m \in DOMAIN mem : mem[m].node = n
  BY DEF MemNodes
<1>2. mem[m] \in Member
  BY ElementOfSeq
<1>3. /\ mem[m].off = 0 /\ mem[m].len = graph.nodes[n].rows /\ n \in Nodes
      /\ mem[m].start \in Nat /\ mem[m].len \in Nat /\ mem[m].start + mem[m].len <= Total(mem)
  BY <1>1, <1>2 DEF Sound, Member
<1> SUFFICES ASSUME NEW r \in 0 .. graph.nodes[n].rows - 1 PROVE <<n, r>> \in out
  BY DEF Complete, Cells
<1>4. Total(mem) \in Nat
  BY TotalType
<1>5. mem[m].start + r \in 0 .. Total(mem) - 1
  BY <1>3, <1>4
<1>6. PICK t \in Thread : mem[m].start + r \in Slice(Total(mem), t)
  BY <1>4, <1>5, SlicesCover
<1>7. <<n, 0 + r>> \in Phase2Cells(mem, t)
  BY <1>1, <1>3, <1>6 DEF Phase2Cells
<1>8. 0 + r = r
  OBVIOUS
<1> QED
  BY <1>7, <1>8

(* A pass writes to its members only. *)
LEMMA PassInside ==
    ASSUME NEW mem, NEW t, NEW c \in Phase2Cells(mem, t)
    PROVE  \E n \in MemNodes(mem) : c[1] = n
BY DEF Phase2Cells, MemNodes

(* A pass of a node of its own writes the thread's slice of the node, and  *)
(* nothing else.                                                           *)
LEMMA OwnPassCells ==
    ASSUME TypeOK, NEW n \in Nodes, NEW t \in Thread
    PROVE  /\ Own(n, t) \subseteq Phase2Cells(Members(n, graph.nodes[n].segs), t)
           /\ MemNodes(Members(n, graph.nodes[n].segs)) \subseteq {n}
<1> DEFINE segs == graph.nodes[n].segs
           mem == Members(n, segs)
           rows == graph.nodes[n].rows
<1>1. /\ segs \in Seq([off : Nat, len : Nat])
      /\ Len(segs) \in Nat \ {0}
      /\ End(segs[Len(segs)]) = rows
      /\ \A r \in 0 .. rows - 1 : \E m \in DOMAIN segs : r \in segs[m].off .. End(segs[m]) - 1
  BY GraphsAssumption, NodeFacts, SegFacts DEF IsGraph, TypeOK, Nodes
<1>2. DOMAIN mem = DOMAIN segs /\ DOMAIN segs = 1 .. Len(segs)
  BY <1>1 DEF Members
<1>3. \A m \in DOMAIN segs :
        /\ mem[m].node = n /\ mem[m].off = segs[m].off
        /\ mem[m].len = segs[m].len /\ mem[m].start = segs[m].off
        /\ segs[m].off \in Nat /\ segs[m].len \in Nat
  <2>1. \A m \in DOMAIN segs : segs[m].off \in Nat /\ segs[m].len \in Nat
    BY SegFacts DEF TypeOK, Nodes
  <2> QED
    BY <2>1 DEF Members
<1>4. Total(mem) = rows
  <2>1. mem \in Seq(Member)
    BY <1>1, MembersType, RowFacts
  <2>2. Len(mem) = Len(segs) /\ mem # <<>>
    BY <1>1, <1>2, <2>1
  <2>3. Len(segs) \in DOMAIN segs
    BY <1>1, <1>2
  <2> HIDE DEF mem, segs
  <2>4. Total(mem) = segs[Len(segs)].off + segs[Len(segs)].len
    BY <1>3, <2>2, <2>3 DEF Total
  <2> QED
    BY <1>1, <2>4 DEF End
<1>5. Own(n, t) \subseteq Phase2Cells(mem, t)
  <2> SUFFICES ASSUME NEW r \in Slice(rows, t) PROVE <<n, r>> \in Phase2Cells(mem, t)
    BY DEF Own
  <2>1. r \in 0 .. rows - 1
    BY RowFacts, SliceInside
  <2>2. PICK m \in DOMAIN segs : r \in segs[m].off .. End(segs[m]) - 1
    BY <1>1, <2>1
  <2> HIDE DEF mem, segs, rows
  <2> DEFINE q == r - segs[m].off
  <2>3. q \in 0 .. segs[m].len - 1 /\ segs[m].off + q = r
    <3>1. segs[m].off \in Nat /\ segs[m].len \in Nat /\ r \in Int
      BY <1>3, <2>1
    <3>2. End(segs[m]) = segs[m].off + segs[m].len
      BY DEF End
    <3> QED
      BY <2>2, <3>1, <3>2
  <2>4. /\ mem[m].node = n /\ mem[m].off + q = r /\ q \in 0 .. mem[m].len - 1
        /\ mem[m].start + q \in Slice(Total(mem), t) /\ m \in DOMAIN mem
    BY <1>2, <1>3, <1>4, <2>2, <2>3
  <2> HIDE DEF q
  <2> QED
    BY <2>4 DEF Phase2Cells
<1>6. MemNodes(mem) \subseteq {n}
  BY <1>2, <1>3 DEF MemNodes
<1> QED
  BY <1>5, <1>6

(* A deferred product is the last member of a sound group. *)
LEMMA AddSound ==
    ASSUME TypeOK, NEW mem \in Seq(Member), Sound(mem), NEW n \in Nodes, Fed(n),
           graph.nodes[n].op # "group"
    PROVE  LET a == Add(mem, n, graph.nodes[n].segs[1])
           IN  Sound(a) /\ MemNodes(a) = MemNodes(mem) \union {n}
<1> DEFINE seg == graph.nodes[n].segs[1]
           rows == graph.nodes[n].rows
           x == [node |-> n, off |-> seg.off, len |-> seg.len, start |-> Total(mem)]
           a == Append(mem, x)
<1>1. /\ Len(graph.nodes[n].segs) = 1
      /\ End(seg) = rows
      /\ \A r \in 0 .. rows - 1 : \E m \in DOMAIN graph.nodes[n].segs :
            r \in graph.nodes[n].segs[m].off .. End(graph.nodes[n].segs[m]) - 1
  <2>1. graph \in Graphs /\ n \in DOMAIN graph.nodes
    BY DEF TypeOK, Nodes
  <2>2. IsGraph(graph)
    BY <2>1, GraphsAssumption
  <2>3. /\ Len(graph.nodes[n].segs) = 1
        /\ End(graph.nodes[n].segs[Len(graph.nodes[n].segs)]) = rows
    BY <2>1, <2>2 DEF IsGraph
  <2>4. \A r \in 0 .. rows - 1 : \E m \in DOMAIN graph.nodes[n].segs :
            r \in graph.nodes[n].segs[m].off .. End(graph.nodes[n].segs[m]) - 1
    BY <2>1, <2>2 DEF IsGraph
  <2> QED
    BY <2>3, <2>4
<1>2. DOMAIN graph.nodes[n].segs = {1} /\ seg.off \in Nat /\ seg.len \in Nat
  <2>1. graph.nodes[n].segs \in Seq([off : Nat, len : Nat])
    BY SegFacts DEF TypeOK, Nodes
  <2>2. DOMAIN graph.nodes[n].segs = 1 .. 1
    BY <1>1, <2>1
  <2> QED
    BY <2>2, SegFacts DEF TypeOK, Nodes
<1>3. seg.off = 0 /\ seg.len = rows
  <2>1. 0 \in 0 .. rows - 1
    BY RowFacts
  <2>2. 0 \in seg.off .. End(seg) - 1
    BY <1>1, <1>2, <2>1
  <2>3. seg.off = 0
    BY <1>2, <2>2 DEF End
  <2> QED
    BY <1>1, <1>2, <2>3 DEF End
<1>4. Total(mem) \in Nat /\ n \in Nat /\ rows \in Nat
  BY TotalType, RowFacts
<1>5. x \in Member
  BY <1>2, <1>4 DEF Member
<1>6. /\ a \in Seq(Member) /\ Len(a) = Len(mem) + 1 /\ a # <<>>
      /\ DOMAIN a = 1 .. Len(mem) + 1 /\ DOMAIN mem = 1 .. Len(mem) /\ Len(mem) \in Nat
      /\ \A m \in 1 .. Len(mem) : a[m] = mem[m]
      /\ a[Len(mem) + 1] = x
  <2> HIDE DEF x
  <2> QED
    BY <1>5
<1>7. \A m \in DOMAIN mem : mem[m].start \in Nat /\ mem[m].len \in Nat
  <2>1. \A m \in DOMAIN mem : mem[m] \in Member
    BY ElementOfSeq
  <2> QED
    BY <2>1 DEF Member
<1> HIDE DEF a
<1>8. Total(a) = Total(mem) + rows
  BY <1>3, <1>6 DEF Total
<1>9. Sound(a)
  <2> SUFFICES ASSUME NEW m \in DOMAIN a
               PROVE  /\ a[m].node \in Nodes /\ Fed(a[m].node)
                      /\ a[m].off = 0 /\ a[m].len = graph.nodes[a[m].node].rows
                      /\ a[m].start + a[m].len <= Total(a)
    BY DEF Sound
  <2>1. CASE m \in DOMAIN mem
    <3>1. a[m] = mem[m]
      BY <1>6, <2>1
    <3> QED
      <4>1. /\ mem[m].node \in Nodes /\ Fed(mem[m].node)
            /\ mem[m].off = 0 /\ mem[m].len = graph.nodes[mem[m].node].rows
            /\ mem[m].start + mem[m].len <= Total(mem)
        BY <2>1 DEF Sound
      <4>2. mem[m].start + mem[m].len <= Total(a)
        BY <1>4, <1>7, <1>8, <2>1, <4>1
      <4> QED
        BY <3>1, <4>1, <4>2
  <2>2. CASE m = Len(mem) + 1
    <3>1. a[m] = x
      BY <1>6, <2>2
    <3> QED
      BY <1>3, <1>4, <1>8, <3>1
  <2> QED
    BY <1>6, <2>1, <2>2
<1>10. MemNodes(a) = MemNodes(mem) \union {n}
  <2>1. \A m \in DOMAIN mem : m \in DOMAIN a /\ a[m].node = mem[m].node
    BY <1>6
  <2>2. Len(mem) + 1 \in DOMAIN a /\ a[Len(mem) + 1].node = n
    BY <1>6
  <2>3. \A m \in DOMAIN a : m \in DOMAIN mem \/ m = Len(mem) + 1
    BY <1>6
  <2> HIDE DEF x
  <2> QED
    BY <2>1, <2>2, <2>3 DEF MemNodes
<1> QED
  BY <1>9, <1>10 DEF Add, a

-----------------------------------------------------------------------------
(***************************************************************************)
(* What a thread can rely on, wherever it is.                              *)
(***************************************************************************)

(* A pass over a group, as opposed to one of a node of its own. *)
InPass(t) == Flushes(t) /\ ret[t] # "after"

(* The nodes that were deferred and are still to be written. *)
Pending(t) ==
    MemNodes(group[t].mem) \union (IF InPass(t) THEN MemNodes(flushing[t]) ELSE {})

(* The node it is at, or the last one. *)
Last(t) == IF node_n[t] > Len(graph.nodes) THEN Len(graph.nodes) ELSE node_n[t]

(* It is done with that node, but for the barrier. *)
Past(t) == pc[t] \in {"after", "bNode"} \/ node_n[t] > Len(graph.nodes)

Ending(t) ==
    \/ pc[t] \in {"tail", "bTail", "graphEnd", "bFinal", "final", "done"}
    \/ Flushes(t) /\ ret[t] = "final"

(* All nodes before are complete, unless they are pending; ... *)
Behind(t) == \A n \in 1 .. Last(t) - 1 : n \in Pending(t) \/ Complete(n)

(* ... of the node it is done with, its own slice is written. *)
Shared(t) == Past(t) => Last(t) \in Pending(t) \/ Own(Last(t), t) \subseteq out

(* A group has members that do not read each other. *)
GroupKept(t) == Sound(group[t].mem) /\ \A n \in MemNodes(group[t].mem) : group[t].key < n

PassKept(t) == InPass(t) => Sound(flushing[t])

OwnPass(t) ==
    Flushes(t) /\ ret[t] = "after" =>
        ~sync[t] /\ flushing[t] = Members(node_n[t], Node(t).segs) /\ Fed(node_n[t])

Summed(t) == pc[t] = "bPhase2" => sync[t] /\ Phase2Cells(flushing[t], t) \subseteq out

(* The boundary hook has flushed before an ordinary node. *)
Flushed(t) == pc[t] = "compute" /\ Active(t) => SelfManaged(Node(t).op)

(* Only an abort ends the loop early. *)
Ended(t) == Ending(t) => node_n[t] = Len(graph.nodes) + 1 \/ abort # 0

Reliable(t) ==
    /\ Behind(t) /\ Shared(t)
    /\ GroupKept(t) /\ PassKept(t) /\ OwnPass(t) /\ Summed(t)
    /\ Flushed(t) /\ Ended(t)

Evaluating == \A t \in Thread : Reliable(t)

(* What is proved of the pool so far. *)
Pool == TypeOK /\ Lockstep /\ PendingInside /\ PassInv

(* A thread that is about to compute a node finds what it reads. *)
LEMMA Ready ==
    ASSUME AllTaken, Pool, NEW t \in Thread, Reliable(t), pc[t] = "compute", ~FlushesFirst(t)
    PROVE  Fed(node_n[t])
<1> DEFINE n == node_n[t]
<1>1. n \in Nodes /\ n <= Len(graph.nodes) /\ n \in Nat /\ Len(graph.nodes) \in Nat
  BY RowFacts DEF Pool, TypeOK, InNode
<1>2. Last(t) = n
  BY <1>1 DEF Last
<1>3. Pending(t) = MemNodes(group[t].mem)
  BY DEF Pending, InPass, Flushes
<1> SUFFICES ASSUME NEW s \in graph.nodes[n].srcs PROVE Complete(s)
  BY DEF Fed
<1>4. s \in 1 .. n - 1
  BY <1>1, NodeFacts DEF Pool, TypeOK, Nodes
<1>5. s \in Pending(t) \/ Complete(s)
  BY <1>2, <1>4 DEF Reliable, Behind
<1> SUFFICES ASSUME s \in MemNodes(group[t].mem) PROVE FALSE
  BY <1>3, <1>5
<1>6. Active(t)
  BY DEF MemNodes, Active
<1>7. enabled /\ ~noFuse /\ HasSlot(t)
  BY <1>6 DEF Pool, PendingInside
<1>8. Node(t).op # "dense" /\ Node(t).op # "off" /\ Node(t).op \in Ops
  BY <1>1, <1>6, NodeFacts
     DEF Reliable, Flushed, SelfManaged, AllTaken, Node, Pool, TypeOK, Nodes, NodeType
<1>9. Hooked(t)
  BY <1>7, <1>8 DEF Hooked, Ops
<1>10. group[t].key = Node(t).key
  BY <1>6, <1>7, <1>9 DEF FlushesFirst, Joins
<1>11. s = Node(t).key
  BY <1>1, <1>8, GraphsAssumption DEF IsGraph, Node, Pool, TypeOK, Nodes
<1>12. group[t].key < s
  BY DEF Reliable, GroupKept
<1> QED
  BY <1>1, <1>4, <1>10, <1>11, <1>12

-----------------------------------------------------------------------------
(* Steps of other threads take nothing away. *)
LEMMA OutGrows ==
    ASSUME TypeOK, NEW t \in Thread, Step(t)
    PROVE  /\ graph' = graph
           /\ out \subseteq out'
           /\ abort # 0 => abort' # 0
<1>1. graph' = graph
  BY StepFrame
<1>2. abort # 0 => abort' # 0
  <2>1. node_n[t] \in Nat
    BY GraphFacts DEF TypeOK
  <2> QED
    BY <2>1, StepFrame
<1>3. CASE BoundaryFlush(t) \/ HookFlush(t) \/ RunNow(t) \/ GraphEndFlush(t)
  <2>1. UNCHANGED out
    BY <1>3, Zenon DEF BoundaryFlush, HookFlush, RunNow, GraphEndFlush, StartFlush
  <2> QED
    BY <1>1, <1>2, <2>1
<1>4. CASE EnterNode(t) \/ LeaveLoop(t) \/ ComputeNow(t) \/ Phase1(t) \/ Phase2(t)
           \/ AfterLoop(t) \/ GraphEndIdle(t) \/ Final(t) \/ Defer(t) \/ AfterNode(t)
  BY <1>1, <1>2, <1>4 DEF EnterNode, LeaveLoop, ComputeNow, Phase1, Phase2, AfterLoop,
        GraphEndIdle, Final, Defer, AfterNode
<1> QED
  BY <1>3, <1>4 DEF Step

(* A thread whose own variables stay as they are can rely on the same. *)
LEMMA StaysReliable ==
    ASSUME NEW u \in Thread, Reliable(u),
           graph' = graph, out \subseteq out', abort # 0 => abort' # 0,
           pc'[u] = pc[u], node_n'[u] = node_n[u], group'[u] = group[u],
           flushing'[u] = flushing[u], sync'[u] = sync[u], ret'[u] = ret[u]
    PROVE  Reliable(u)'
<1>1. Behind(u)'
  BY DEF Reliable, Behind, Last, Pending, InPass, Flushes, MemNodes, Complete, Cells
<1>2. Shared(u)'
  BY DEF Reliable, Shared, Past, Last, Pending, InPass, Flushes, MemNodes, Own
<1>3. GroupKept(u)'
  BY DEF Reliable, GroupKept, Sound, Fed, Complete, Cells, MemNodes, Nodes
<1>4. PassKept(u)'
  BY DEF Reliable, PassKept, InPass, Flushes, Sound, Fed, Complete, Cells, Nodes
<1>5. OwnPass(u)'
  BY DEF Reliable, OwnPass, Flushes, Fed, Complete, Cells, Node
<1>6. Summed(u)' /\ Flushed(u)' /\ Ended(u)'
  BY DEF Reliable, Summed, Flushed, Active, Node, Ended, Ending, Flushes
<1> QED
  BY <1>1, <1>2, <1>3, <1>4, <1>5, <1>6 DEF Reliable

(* Its own steps: it sets out to flush its group ...                       *)
LEMMA FlushKeeps ==
    ASSUME TypeOK, NEW t \in Thread, Reliable(t), NEW s, NEW r \in {"compute", "final"},
           pc[t] \in {"loop", "compute", "graphEnd"}, r = "final" => pc[t] = "graphEnd",
           StartFlush(t, group[t].mem, s, r)
    PROVE  Reliable(t)'
<1>1. /\ pc'[t] = "phase1" /\ node_n'[t] = node_n[t] /\ group'[t] = NoGroup
      /\ flushing'[t] = group[t].mem /\ sync'[t] = s /\ ret'[t] = r
      /\ graph' = graph /\ out' = out /\ abort' = abort
  BY DEF StartFlush, TypeOK
<1>2. NoGroup.mem = <<>> /\ DOMAIN <<>> = {}
  BY DEF NoGroup
<1>3. MemNodes(group[t].mem)' = {} /\ MemNodes(flushing[t])' = MemNodes(group[t].mem)
  BY <1>1, <1>2 DEF MemNodes
<1>4. Pending(t)' = Pending(t)
  <2>1. ~InPass(t) /\ InPass(t)'
    BY <1>1 DEF InPass, Flushes
  <2> QED
    BY <1>3, <2>1 DEF Pending
<1>5. Behind(t)'
  BY <1>1, <1>4 DEF Reliable, Behind, Last, Complete, Cells
<1>6. Shared(t)'
  BY <1>1, <1>4 DEF Reliable, Shared, Past, Last, Own
<1>7. GroupKept(t)'
  BY <1>1, <1>2 DEF GroupKept, Sound, MemNodes
<1>8. PassKept(t)'
  BY <1>1 DEF Reliable, GroupKept, PassKept, Sound, Fed, Complete, Cells, Nodes
<1>9. OwnPass(t)' /\ Summed(t)' /\ Flushed(t)'
  BY <1>1 DEF OwnPass, Summed, Flushed
<1>10. Ended(t)'
  BY <1>1 DEF Reliable, Ended, Ending, Flushes
<1> QED
  BY <1>5, <1>6, <1>7, <1>8, <1>9, <1>10 DEF Reliable

(* ... or to compute the node in a pass of its own; ...                    *)
LEMMA RunNowKeeps ==
    ASSUME AllSlots, AllTaken, Pool, NEW t \in Thread, Reliable(t), RunNow(t)
    PROVE  Reliable(t)'
<1>1. /\ pc'[t] = "phase1" /\ node_n'[t] = node_n[t] /\ group'[t] = NoGroup
      /\ flushing'[t] = Members(node_n[t], Node(t).segs) /\ sync'[t] = FALSE /\ ret'[t] = "after"
      /\ graph' = graph /\ out' = out /\ abort' = abort
      /\ pc[t] = "compute" /\ ~FlushesFirst(t)
  BY DEF RunNow, StartFlush, Pool, TypeOK
<1>2. NoGroup.mem = <<>> /\ DOMAIN <<>> = {}
  BY DEF NoGroup
<1>3. group[t].mem = <<>>
  BY EverySlot DEF RunNow, FlushesFirst, Active
<1>4. Pending(t)' = Pending(t)
  <2>1. ~InPass(t) /\ ~InPass(t)'
    BY <1>1 DEF InPass, Flushes
  <2>2. MemNodes(group[t].mem) = {} /\ MemNodes(group[t].mem)' = {}
    BY <1>1, <1>2, <1>3 DEF MemNodes
  <2> QED
    BY <2>1, <2>2 DEF Pending
<1>5. Behind(t)'
  BY <1>1, <1>4 DEF Reliable, Behind, Last, Complete, Cells
<1>6. Shared(t)'
  BY <1>1, <1>4 DEF Reliable, Shared, Past, Last, Own
<1>7. GroupKept(t)'
  BY <1>1, <1>2 DEF GroupKept, Sound, MemNodes
<1>8. PassKept(t)' /\ Summed(t)' /\ Flushed(t)' /\ Ended(t)'
  BY <1>1 DEF PassKept, InPass, Summed, Flushed, Ended, Ending
<1>9. Fed(node_n[t])
  BY <1>1, Ready
<1>10. OwnPass(t)'
  BY <1>1, <1>9 DEF OwnPass, Fed, Complete, Cells, Node
<1> QED
  BY <1>5, <1>6, <1>7, <1>8, <1>10 DEF Reliable

(* ... or it defers the node; ...                                          *)
LEMMA DeferKeeps ==
    ASSUME AllTaken, Pool, NEW t \in Thread, Reliable(t), Defer(t)
    PROVE  Reliable(t)'
<1> DEFINE n == node_n[t]
           mem == group[t].mem
           new == Add(mem, n, graph.nodes[n].segs[1])
<1>0. pc[t] = "compute" /\ ~FlushesFirst(t) /\ Hooked(t) /\ Defers(t)
  BY DEF Defer
<1>1. /\ pc'[t] = "after" /\ node_n'[t] = n
      /\ group'[t].key = Node(t).key /\ group'[t].mem = new
      /\ graph' = graph /\ out' = out /\ abort' = abort
  BY DEF Defer, Node, Pool, TypeOK
<1>2. n \in Nodes /\ n \in Nat /\ Len(graph.nodes) \in Nat /\ n <= Len(graph.nodes)
  BY <1>0, RowFacts DEF Pool, TypeOK, InNode
<1>3. Fed(n)
  BY <1>0, Ready
<1>4. Sound(new) /\ MemNodes(new) = MemNodes(mem) \union {n}
  <2>1. mem \in Seq(Member) /\ Sound(mem)
    BY DEF Pool, TypeOK, Reliable, GroupKept
  <2>2. graph.nodes[n].op # "group"
    BY <1>0 DEF Defers, Node
  <2> QED
    BY <1>2, <1>3, <2>1, <2>2, AddSound DEF Pool
<1> HIDE DEF new
<1>5. Pending(t)' = Pending(t) \union {n}
  <2>1. ~InPass(t) /\ ~InPass(t)'
    BY <1>0, <1>1 DEF InPass, Flushes
  <2>2. MemNodes(group[t].mem)' = MemNodes(new)
    BY <1>1 DEF MemNodes
  <2> QED
    BY <1>4, <2>1, <2>2 DEF Pending
<1>6. Behind(t)'
  BY <1>1, <1>5 DEF Reliable, Behind, Last, Complete, Cells
<1>7. Shared(t)'
  BY <1>1, <1>2, <1>5 DEF Shared, Last
<1>8. GroupKept(t)'
  <2>1. Sound(group[t].mem)'
    BY <1>1, <1>4 DEF Sound, Fed, Complete, Cells, Nodes
  <2>2. ASSUME NEW m \in MemNodes(mem) \union {n} PROVE Node(t).key < m
    <3>1. CASE m = n
      <4>1. Node(t).key = 0 \/ Node(t).key \in graph.nodes[n].srcs
        BY <1>2, GraphsAssumption DEF IsGraph, Node, Pool, TypeOK, Nodes
      <4>2. graph.nodes[n].srcs \subseteq 1 .. n - 1
        BY <1>2, NodeFacts DEF Pool, TypeOK, Nodes
      <4> QED
        BY <1>2, <3>1, <4>1, <4>2, RowFacts DEF Pool
    <3>2. CASE m \in MemNodes(mem)
      <4>1. Active(t)
        BY <3>2 DEF MemNodes, Active
      <4>2. group[t].key = Node(t).key
        BY <1>0, <4>1 DEF Pool, PendingInside, FlushesFirst, Joins
      <4> QED
        BY <3>2, <4>2 DEF Reliable, GroupKept
    <3> QED
      BY <2>2, <3>1, <3>2
  <2>3. MemNodes(group[t].mem)' = MemNodes(mem) \union {n}
    BY <1>1, <1>4 DEF MemNodes
  <2> QED
    BY <1>1, <2>1, <2>2, <2>3 DEF GroupKept
<1>9. PassKept(t)' /\ OwnPass(t)' /\ Summed(t)' /\ Flushed(t)' /\ Ended(t)'
  BY <1>1 DEF PassKept, InPass, OwnPass, Summed, Flushed, Ended, Ending, Flushes
<1> QED
  BY <1>6, <1>7, <1>8, <1>9 DEF Reliable

(* ... or it moves on, with its locals as they are.                        *)
Moves(t) ==
    /\ graph' = graph /\ out \subseteq out' /\ (abort # 0 => abort' # 0)
    /\ node_n'[t] = node_n[t] /\ group'[t] = group[t] /\ flushing'[t] = flushing[t]
    /\ sync'[t] = sync[t] /\ ret'[t] = ret[t]

LEMMA MovesKeeps ==
    ASSUME NEW t \in Thread, Reliable(t), Moves(t), InPass(t)' <=> InPass(t)
    PROVE  /\ Last(t)' = Last(t) /\ Pending(t)' = Pending(t)
           /\ Behind(t)' /\ GroupKept(t)' /\ PassKept(t)'
           /\ Own(Last(t), t) \subseteq out => (Own(Last(t), t) \subseteq out)'
           /\ Fed(node_n[t]) => Fed(node_n[t])'
<1>1. Last(t)' = Last(t)
  BY DEF Moves, Last
<1>2. Pending(t)' = Pending(t)
  BY DEF Moves, Pending, MemNodes
<1>3. Behind(t)'
  BY <1>1, <1>2 DEF Moves, Reliable, Behind, Complete, Cells
<1>4. GroupKept(t)'
  BY DEF Moves, Reliable, GroupKept, Sound, Fed, Complete, Cells, MemNodes, Nodes
<1>5. PassKept(t)'
  BY DEF Moves, Reliable, PassKept, Sound, Fed, Complete, Cells, Nodes
<1>6. Own(Last(t), t) \subseteq out => (Own(Last(t), t) \subseteq out)'
  BY <1>1 DEF Moves, Own
<1>7. Fed(node_n[t]) => Fed(node_n[t])'
  BY DEF Moves, Fed, Complete, Cells
<1> QED
  BY <1>1, <1>2, <1>3, <1>4, <1>5, <1>6, <1>7

LEMMA LoopKeeps ==
    ASSUME Pool, NEW t \in Thread, Reliable(t), EnterNode(t) \/ LeaveLoop(t)
    PROVE  Reliable(t)'
<1>0. node_n[t] \in 1 .. Len(graph.nodes) + 1 /\ Len(graph.nodes) \in Nat
  BY GraphFacts DEF Pool, TypeOK
<1>1. /\ pc[t] = "loop" /\ pc'[t] \in {"compute", "tail"} /\ UNCHANGED <<graph, out, abort>>
      /\ UNCHANGED <<node_n, group, flushing, sync, ret>>
  BY DEF EnterNode, LeaveLoop, AtNode, locals, Pool, TypeOK
<1>2. Moves(t)
  BY <1>1 DEF Moves
<1>3. ~InPass(t) /\ ~InPass(t)'
  BY <1>1 DEF InPass, Flushes
<1>4. Shared(t)'
  <2>1. Past(t)' => Past(t)
    BY <1>1 DEF Past
  <2> QED
    BY <1>2, <1>3, <2>1, MovesKeeps DEF Shared, Reliable
<1>5. OwnPass(t)' /\ Summed(t)'
  BY <1>1 DEF OwnPass, Summed, Flushes
<1>6. Flushed(t)'
  <2> SUFFICES ASSUME pc'[t] = "compute", Active(t)' PROVE SelfManaged(Node(t).op)'
    BY DEF Flushed
  <2>1. EnterNode(t) /\ Active(t)
    BY <1>1 DEF LeaveLoop, Active, Pool, TypeOK
  <2>2. SelfManaged(Node(t).op)
    BY <2>1 DEF EnterNode, BoundaryFlushes, Pool, PendingInside
  <2> QED
    BY <1>1, <2>2 DEF SelfManaged, Node
<1>7. Ended(t)'
  <2> SUFFICES ASSUME Ending(t)' PROVE (node_n[t] = Len(graph.nodes) + 1 \/ abort # 0)'
    BY DEF Ended
  <2>1. LeaveLoop(t)
    BY <1>1 DEF EnterNode, Ending, Flushes, Pool, TypeOK
  <2>2. node_n[t] > Len(graph.nodes) \/ abort = node_n[t]
    BY <2>1 DEF LeaveLoop
  <2>3. node_n[t] = Len(graph.nodes) + 1 \/ abort # 0
    BY <1>0, <2>2
  <2> QED
    BY <1>1, <2>3
<1> QED
  BY <1>2, <1>3, <1>4, <1>5, <1>6, <1>7, MovesKeeps DEF Reliable

LEMMA ComputeNowKeeps ==
    ASSUME Pool, NEW t \in Thread, Reliable(t), ComputeNow(t)
    PROVE  Reliable(t)'
<1>1. /\ pc[t] = "compute" /\ pc'[t] = "after" /\ UNCHANGED <<graph, abort>>
      /\ out' = out \union OwnCells(t)
      /\ UNCHANGED <<node_n, group, flushing, sync, ret>>
  BY DEF ComputeNow, locals, Pool, TypeOK
<1>2. Moves(t)
  BY <1>1 DEF Moves
<1>3. ~InPass(t) /\ ~InPass(t)'
  BY <1>1 DEF InPass, Flushes
<1>4. Last(t) = node_n[t]
  BY <1>1, RowFacts DEF Pool, TypeOK, InNode, Last
<1>5. Own(Last(t), t) = OwnCells(t)
  BY <1>4 DEF Own, OwnCells, Node
<1>6. (Own(Last(t), t) \subseteq out)'
  BY <1>1, <1>5 DEF Own, Last
<1>7. Shared(t)'
  BY <1>6 DEF Shared
<1>8. OwnPass(t)' /\ Summed(t)' /\ Flushed(t)' /\ Ended(t)'
  BY <1>1 DEF OwnPass, Summed, Flushed, Ended, Ending, Flushes
<1> QED
  BY <1>2, <1>3, <1>7, <1>8, MovesKeeps DEF Reliable

LEMMA AfterNodeKeeps ==
    ASSUME Pool, NEW t \in Thread, Reliable(t), AfterNode(t)
    PROVE  Reliable(t)'
<1>0. node_n[t] \in 1 .. Len(graph.nodes) /\ Len(graph.nodes) \in Nat
  BY GraphFacts DEF Pool, TypeOK, InNode, Nodes, AfterNode
<1>1. /\ pc[t] = "after" /\ UNCHANGED <<graph, out>>
      /\ UNCHANGED <<group, flushing, sync, ret>>
      /\ abort # 0 => abort' # 0
  BY <1>0 DEF AfterNode, AbortChoices
<1>2. ~InPass(t)
  BY <1>1 DEF InPass, Flushes
<1>3. CASE pc'[t] = "bNode" /\ node_n'[t] = node_n[t]
  <2>1. Moves(t)
    BY <1>1, <1>3 DEF Moves
  <2>2. ~InPass(t)'
    BY <1>3 DEF InPass, Flushes
  <2>3. Shared(t)'
    <3>1. Past(t)
      BY <1>1 DEF Past
    <3> QED
      BY <1>2, <2>1, <2>2, <3>1, MovesKeeps DEF Shared, Reliable
  <2>4. OwnPass(t)' /\ Summed(t)' /\ Flushed(t)' /\ Ended(t)'
    BY <1>3 DEF OwnPass, Summed, Flushed, Ended, Ending, Flushes
  <2> QED
    BY <1>2, <2>1, <2>2, <2>3, <2>4, MovesKeeps DEF Reliable
<1>4. CASE pc'[t] = "loop" /\ node_n'[t] = node_n[t] + 1 /\ node_n[t] = Len(graph.nodes)
  <2>1. Last(t)' = Last(t)
    BY <1>0, <1>1, <1>4 DEF Last
  <2>2. ~InPass(t)'
    BY <1>4 DEF InPass, Flushes
  <2>3. Pending(t)' = Pending(t)
    BY <1>1, <1>2, <2>2 DEF Pending, MemNodes
  <2>4. Behind(t)'
    BY <1>1, <2>1, <2>3 DEF Reliable, Behind, Complete, Cells
  <2>5. Shared(t)'
    <3>1. Past(t)
      BY <1>1 DEF Past
    <3> QED
      BY <1>1, <2>1, <2>3, <3>1 DEF Reliable, Shared, Own
  <2>6. GroupKept(t)'
    BY <1>1 DEF Reliable, GroupKept, Sound, Fed, Complete, Cells, MemNodes, Nodes
  <2>7. PassKept(t)' /\ OwnPass(t)' /\ Summed(t)' /\ Flushed(t)' /\ Ended(t)'
    BY <1>4 DEF PassKept, InPass, OwnPass, Summed, Flushed, Ended, Ending, Flushes
  <2> QED
    BY <2>4, <2>5, <2>6, <2>7 DEF Reliable
<1>5. \/ pc'[t] = "bNode" /\ node_n'[t] = node_n[t]
      \/ pc'[t] = "loop" /\ node_n'[t] = node_n[t] + 1 /\ node_n[t] = Len(graph.nodes)
  <2>1. DOMAIN pc = Thread /\ DOMAIN node_n = Thread
    BY DEF Pool, TypeOK
  <2>2. CASE node_n[t] < Len(graph.nodes) \/ graph.nops
    <3>1. pc' = [pc EXCEPT ![t] = "bNode"] /\ node_n' = node_n
      BY <2>2 DEF AfterNode
    <3> QED
      BY <2>1, <3>1
  <2>3. CASE ~(node_n[t] < Len(graph.nodes) \/ graph.nops)
    <3>1. pc' = [pc EXCEPT ![t] = "loop"] /\ node_n' = [node_n EXCEPT ![t] = @ + 1]
      BY <2>3 DEF AfterNode
    <3>2. node_n[t] = Len(graph.nodes)
      BY <1>0, <2>3
    <3> QED
      BY <2>1, <3>1, <3>2
  <2> QED
    BY <2>2, <2>3
<1> QED
  BY <1>3, <1>4, <1>5

LEMMA PhaseKeeps ==
    ASSUME Pool, NEW t \in Thread, Reliable(t), Phase1(t) \/ Phase2(t)
    PROVE  Reliable(t)'
<1>0. /\ node_n[t] \in 1 .. Len(graph.nodes) + 1 /\ Len(graph.nodes) \in Nat
      /\ ret[t] \in {"compute", "after", "final"}
  BY GraphFacts DEF Pool, TypeOK
<1>1. CASE Phase1(t)
  <2>1. /\ pc[t] = "phase1" /\ pc'[t] = "bPhase1" /\ UNCHANGED <<graph, abort, out>>
        /\ UNCHANGED <<node_n, group, flushing, sync, ret>>
    BY <1>1 DEF Phase1, locals, Pool, TypeOK
  <2>2. Moves(t) /\ (InPass(t)' <=> InPass(t)) /\ (Past(t)' <=> Past(t))
    BY <2>1 DEF Moves, InPass, Flushes, Past
  <2>3. Shared(t)'
    BY <2>2, MovesKeeps DEF Shared, Reliable
  <2>4. OwnPass(t)' /\ Summed(t)' /\ Flushed(t)' /\ Ended(t)'
    BY <2>1, <2>2, MovesKeeps
       DEF Reliable, OwnPass, Summed, Flushed, Ended, Ending, Flushes, Node
  <2> QED
    BY <2>2, <2>3, <2>4, MovesKeeps DEF Reliable
<1>2. CASE Phase2(t) /\ sync[t]
  <2>1. /\ pc[t] = "phase2" /\ pc'[t] = "bPhase2" /\ UNCHANGED <<graph, abort>>
        /\ out' = out \union Phase2Cells(flushing[t], t)
        /\ UNCHANGED <<node_n, group, flushing, sync, ret>>
    BY <1>2 DEF Phase2, locals, Pool, TypeOK
  <2>2. Moves(t) /\ (InPass(t)' <=> InPass(t)) /\ (Past(t)' <=> Past(t))
    BY <2>1 DEF Moves, InPass, Flushes, Past
  <2>3. Shared(t)'
    BY <2>2, MovesKeeps DEF Shared, Reliable
  <2>4. Summed(t)'
    BY <1>2, <2>1 DEF Summed, Phase2Cells
  <2>5. OwnPass(t)' /\ Flushed(t)' /\ Ended(t)'
    BY <2>1, <2>2, MovesKeeps
       DEF Reliable, OwnPass, Flushed, Ended, Ending, Flushes, Node
  <2> QED
    BY <2>2, <2>3, <2>4, <2>5, MovesKeeps DEF Reliable
<1>3. CASE Phase2(t) /\ ~sync[t]
  <2>0. ret[t] = "after"
    BY <1>3 DEF Phase2, Pool, PassInv, PassSync, Flushes
  <2>1. /\ pc[t] = "phase2" /\ pc'[t] = "after" /\ UNCHANGED <<graph, abort>>
        /\ out' = out \union Phase2Cells(flushing[t], t)
        /\ UNCHANGED <<node_n, group, flushing, sync, ret>>
    BY <1>3, <2>0 DEF Phase2, locals, Pool, TypeOK
  <2>2. Moves(t) /\ ~InPass(t) /\ ~InPass(t)'
    BY <2>0, <2>1 DEF Moves, InPass, Flushes
  <2>3. node_n[t] \in Nodes /\ Last(t) = node_n[t]
    BY <1>0, <2>0, <2>1, RowFacts DEF Pool, TypeOK, InNode, Flushes, Last
  <2>4. flushing[t] = Members(node_n[t], graph.nodes[node_n[t]].segs)
    BY <2>0, <2>1 DEF Reliable, OwnPass, Flushes, Node
  <2>5. Own(Last(t), t) \subseteq Phase2Cells(flushing[t], t)
    BY <2>3, <2>4, OwnPassCells DEF Pool
  <2>6. (Own(Last(t), t) \subseteq out)'
    BY <2>1, <2>5 DEF Own, Last
  <2>7. Shared(t)' /\ OwnPass(t)' /\ Summed(t)' /\ Flushed(t)' /\ Ended(t)'
    BY <2>1, <2>6 DEF Shared, OwnPass, Summed, Flushed, Ended, Ending, Flushes
  <2> QED
    BY <2>2, <2>7, MovesKeeps DEF Reliable
<1> QED
  BY <1>1, <1>2, <1>3

LEMMA EndKeeps ==
    ASSUME Pool, NEW t \in Thread, Reliable(t), AfterLoop(t) \/ GraphEndIdle(t) \/ Final(t)
    PROVE  Reliable(t)'
<1>1. /\ pc[t] \in {"tail", "graphEnd", "final"} /\ pc'[t] \in {"bTail", "bFinal"}
      /\ UNCHANGED <<graph, abort, out>>
      /\ UNCHANGED <<node_n, group, flushing, sync, ret>>
  BY DEF AfterLoop, GraphEndIdle, Final, locals, Pool, TypeOK
<1>2. Moves(t) /\ ~InPass(t) /\ ~InPass(t)' /\ (Past(t)' <=> Past(t))
  BY <1>1 DEF Moves, InPass, Flushes, Past
<1>3. Shared(t)'
  BY <1>2, MovesKeeps DEF Shared, Reliable
<1>4. OwnPass(t)' /\ Summed(t)' /\ Flushed(t)' /\ Ended(t)'
  BY <1>1 DEF Reliable, OwnPass, Summed, Flushed, Ended, Ending, Flushes
<1> QED
  BY <1>2, <1>3, <1>4, MovesKeeps DEF Reliable

LEMMA StepKeeps ==
    ASSUME AllSlots, AllTaken, Pool, NEW t \in Thread, Reliable(t), Step(t)
    PROVE  Reliable(t)'
<1>0. TypeOK
  BY DEF Pool
<1>1. CASE BoundaryFlush(t)
  BY <1>0, <1>1, FlushKeeps DEF BoundaryFlush, AtNode
<1>2. CASE HookFlush(t)
  <2>1. pc[t] = "compute"
    BY <1>2 DEF HookFlush
  <2>2. StartFlush(t, group[t].mem, Node(t).op = "s1" => ~noFuse, "compute")
    BY <1>2 DEF HookFlush
  <2> QED
    BY <1>0, <2>1, <2>2, FlushKeeps
<1>3. CASE GraphEndFlush(t)
  BY <1>0, <1>3, FlushKeeps DEF GraphEndFlush
<1>4. CASE RunNow(t) \/ Defer(t)
  BY <1>4, RunNowKeeps, DeferKeeps
<1>5. CASE EnterNode(t) \/ LeaveLoop(t) \/ ComputeNow(t) \/ AfterNode(t)
  BY <1>5, LoopKeeps, ComputeNowKeeps, AfterNodeKeeps
<1>6. CASE Phase1(t) \/ Phase2(t) \/ AfterLoop(t) \/ GraphEndIdle(t) \/ Final(t)
  BY <1>6, PhaseKeeps, EndKeeps
<1> QED
  BY <1>1, <1>2, <1>3, <1>4, <1>5, <1>6 DEF Step

LEMMA StepEvaluating ==
    ASSUME AllSlots, AllTaken, Pool, Evaluating, NEW t \in Thread, Step(t)
    PROVE  Evaluating'
<1> SUFFICES ASSUME NEW u \in Thread PROVE Reliable(u)'
  BY DEF Evaluating
<1>1. Reliable(t) /\ Reliable(u) /\ TypeOK
  BY DEF Evaluating, Pool
<1>2. CASE u = t
  BY <1>1, <1>2, StepKeeps
<1>3. CASE u # t
  <2>1. /\ pc'[u] = pc[u] /\ node_n'[u] = node_n[u] /\ group'[u] = group[u]
        /\ flushing'[u] = flushing[u] /\ sync'[u] = sync[u] /\ ret'[u] = ret[u]
    BY <1>1, <1>3, StepFrame
  <2>2. graph' = graph /\ out \subseteq out' /\ (abort # 0 => abort' # 0)
    BY <1>1, OutGrows
  <2> QED
    BY <1>1, <2>1, <2>2, StaysReliable
<1> QED
  BY <1>2, <1>3

(* The barrier lets the threads go on.  After a node, all of them have     *)
(* written their slices of it; after a pass, of all its members.           *)
LEMMA NodeEnds ==
    ASSUME Pool, Evaluating, Release, NEW t \in Thread, pc[t] = "bNode"
    PROVE  Reliable(t)'
<1> DEFINE n == node_n[t]
<1>0. Len(graph.nodes) \in Nat /\ n \in 1 .. Len(graph.nodes) /\ n \in Nodes
  BY GraphFacts DEF Pool, TypeOK, InNode, Nodes
<1>1. /\ pc'[t] = "loop" /\ node_n'[t] = n + 1
      /\ UNCHANGED <<graph, abort, out, group, flushing, sync, ret>>
  BY DEF Release, Resume
<1>2. Reliable(t) /\ TypeOK
  BY DEF Evaluating, Pool
<1>3. n \in Pending(t) \/ Complete(n)
  <2> SUFFICES ASSUME n \notin Pending(t), NEW u \in Thread PROVE Own(n, u) \subseteq out
    BY <1>0, <1>2, OwnCovers
  <2>1. pc[u] = "bNode" /\ node_n[u] = n /\ group[u] = group[t]
    BY EqualLocals DEF Release, Waiting, Pool
  <2>2. Pending(u) = Pending(t)
    BY <2>1 DEF Pending, InPass, Flushes
  <2>3. Past(u) /\ Last(u) = n
    BY <1>0, <2>1 DEF Past, Last
  <2> QED
    BY <2>2, <2>3 DEF Evaluating, Reliable, Shared
<1>4. ~InPass(t) /\ ~InPass(t)'
  BY <1>1 DEF InPass, Flushes
<1>5. Pending(t)' = Pending(t)
  BY <1>1, <1>4 DEF Pending, MemNodes
<1>6. Behind(t)'
  <2> SUFFICES ASSUME NEW m \in 1 .. Last(t)' - 1 PROVE m \in Pending(t) \/ Complete(m)
    BY <1>1, <1>5 DEF Behind, Complete, Cells
  <2>1. m = n \/ m \in 1 .. Last(t) - 1
    BY <1>0, <1>1 DEF Last
  <2> QED
    BY <1>2, <1>3, <2>1 DEF Reliable, Behind
<1>7. Shared(t)'
  <2> SUFFICES ASSUME Past(t)' PROVE (Last(t) \in Pending(t) \/ Own(Last(t), t) \subseteq out)'
    BY DEF Shared
  <2>1. Last(t)' = n /\ Last(t) = n
    BY <1>0, <1>1 DEF Past, Last
  <2>2. n \in Pending(t) \/ Own(n, t) \subseteq out
    BY <1>2, <2>1 DEF Reliable, Shared, Past
  <2> QED
    BY <1>1, <1>5, <2>1, <2>2 DEF Own
<1>8. GroupKept(t)'
  BY <1>1, <1>2 DEF Reliable, GroupKept, Sound, Fed, Complete, Cells, MemNodes, Nodes
<1>9. PassKept(t)' /\ OwnPass(t)' /\ Summed(t)' /\ Flushed(t)' /\ Ended(t)'
  BY <1>1 DEF PassKept, InPass, OwnPass, Summed, Flushed, Ended, Ending, Flushes
<1> QED
  BY <1>6, <1>7, <1>8, <1>9 DEF Reliable

LEMMA PassComplete ==
    ASSUME Pool, Evaluating, Release, NEW t \in Thread, pc[t] = "bPhase2",
           NEW n \in MemNodes(flushing[t])
    PROVE  ret[t] \in {"compute", "final"} /\ Complete(n)
<1>1. Reliable(t) /\ TypeOK /\ flushing[t] \in Seq(Member)
  BY DEF Evaluating, Pool, TypeOK
<1>2. InPass(t) /\ ret[t] \in {"compute", "final"}
  BY <1>1 DEF Reliable, Summed, OwnPass, InPass, Flushes, TypeOK
<1>3. Sound(flushing[t])
  BY <1>1, <1>2 DEF Reliable, PassKept
<1>4. ASSUME NEW u \in Thread PROVE Phase2Cells(flushing[t], u) \subseteq out
  <2>1. pc[u] = "bPhase2" /\ flushing[u] = flushing[t]
    BY EqualLocals DEF Release, Waiting, Pool
  <2> QED
    BY <2>1 DEF Evaluating, Reliable, Summed
<1> QED
  BY <1>1, <1>2, <1>3, <1>4, PassCovers

LEMMA PassEnds ==
    ASSUME Pool, Evaluating, Release, NEW t \in Thread, pc[t] = "bPhase2"
    PROVE  Reliable(t)'
<1>1. Reliable(t) /\ TypeOK
  BY DEF Evaluating, Pool
<1>2. InPass(t) /\ ret[t] \in {"compute", "final"}
  BY <1>1 DEF Reliable, Summed, OwnPass, InPass, Flushes, TypeOK
<1>3. /\ pc'[t] = ret[t] /\ node_n'[t] = node_n[t]
      /\ UNCHANGED <<graph, abort, out, group, flushing, sync, ret>>
  BY DEF Release, Resume
<1>4. group[t].mem = <<>>
  BY DEF Pool, PendingInside, Active
<1>5. Pending(t) = MemNodes(flushing[t]) /\ Pending(t)' = {}
  <2>1. MemNodes(group[t].mem) = {} /\ MemNodes(group[t].mem)' = {}
    BY <1>3, <1>4 DEF MemNodes
  <2>2. ~InPass(t)'
    BY <1>2, <1>3 DEF InPass, Flushes
  <2> QED
    BY <1>2, <2>1, <2>2 DEF Pending
<1>6. \A n \in Pending(t) : Complete(n)
  BY <1>5, PassComplete
<1>7. Last(t)' = Last(t)
  BY <1>3 DEF Last
<1>8. Behind(t)'
  BY <1>1, <1>3, <1>6, <1>7 DEF Reliable, Behind, Complete, Cells
<1>9. Shared(t)'
  <2> SUFFICES ASSUME Past(t)' PROVE Own(Last(t), t) \subseteq out
    BY <1>3, <1>7 DEF Shared, Own
  <2>1. Past(t)
    BY <1>2, <1>3 DEF Past
  <2>2. Last(t) \in Pending(t) \/ Own(Last(t), t) \subseteq out
    BY <1>1, <2>1 DEF Reliable, Shared
  <2>3. Last(t) \in Nodes
    BY <1>1, GraphFacts DEF Last, TypeOK, Nodes
  <2> QED
    BY <1>1, <1>6, <2>2, <2>3, OwnInside DEF Complete
<1>10. GroupKept(t)'
  BY <1>1, <1>3 DEF Reliable, GroupKept, Sound, Fed, Complete, Cells, MemNodes, Nodes
<1>11. PassKept(t)' /\ OwnPass(t)' /\ Summed(t)'
  BY <1>2, <1>3 DEF PassKept, InPass, OwnPass, Summed, Flushes
<1>12. Flushed(t)' /\ Ended(t)'
  BY <1>1, <1>2, <1>3, <1>4 DEF Reliable, InPass, Flushed, Active, Ended, Ending, Flushes
<1> QED
  BY <1>8, <1>9, <1>10, <1>11, <1>12 DEF Reliable

LEMMA ReleaseEvaluating ==
    ASSUME Pool, Evaluating, Release
    PROVE  Evaluating'
<1> SUFFICES ASSUME NEW t \in Thread PROVE Reliable(t)'
  BY DEF Evaluating
<1>1. Reliable(t) /\ pc[t] \in BarrierSites
  BY DEF Evaluating, Release, Waiting
<1>2. CASE pc[t] \in {"bPhase1", "bTail", "bFinal"}
  <2>1. /\ pc'[t] = Resume(t) /\ node_n'[t] = node_n[t]
        /\ UNCHANGED <<graph, abort, out, group, flushing, sync, ret>>
    BY <1>2 DEF Release
  <2>2. /\ pc[t] = "bPhase1" => pc'[t] = "phase2"
        /\ pc[t] = "bTail" => pc'[t] = "graphEnd"
        /\ pc[t] = "bFinal" => pc'[t] = "done"
    BY <2>1 DEF Resume
  <2>3. Moves(t) /\ (InPass(t)' <=> InPass(t)) /\ (Past(t)' <=> Past(t))
    BY <1>2, <2>1, <2>2 DEF Moves, InPass, Flushes, Past
  <2>4. Shared(t)'
    BY <1>1, <2>3, MovesKeeps DEF Shared, Reliable
  <2>5. OwnPass(t)'
    BY <1>1, <1>2, <2>1, <2>2, <2>3, MovesKeeps DEF Reliable, OwnPass, Flushes, Node
  <2>6. Summed(t)' /\ Flushed(t)' /\ Ended(t)'
    BY <1>1, <1>2, <2>1, <2>2 DEF Reliable, Summed, Flushed, Ended, Ending, Flushes
  <2> QED
    BY <1>1, <2>3, <2>4, <2>5, <2>6, MovesKeeps DEF Reliable
<1>3. CASE pc[t] = "bNode"
  BY <1>3, NodeEnds
<1>4. CASE pc[t] = "bPhase2"
  BY <1>4, PassEnds
<1> QED
  BY <1>1, <1>2, <1>3, <1>4 DEF BarrierSites

(* A graph begins with nothing computed and nothing pending.               *)
LEMMA Fresh ==
    ASSUME NEW t \in Thread, graph \in Graphs, pc[t] = "loop", node_n[t] = 1,
           group[t].mem = <<>>
    PROVE  Reliable(t)
<1>1. Len(graph.nodes) \in Nat \ {0}
  BY GraphFacts
<1>2. Last(t) = 1 /\ ~Past(t)
  BY <1>1 DEF Last, Past
<1>3. Behind(t) /\ Shared(t)
  BY <1>2 DEF Behind, Shared
<1>4. GroupKept(t)
  BY DEF GroupKept, Sound, MemNodes
<1>5. PassKept(t) /\ OwnPass(t) /\ Summed(t) /\ Flushed(t) /\ Ended(t)
  BY DEF PassKept, InPass, OwnPass, Summed, Flushed, Ended, Ending, Flushes
<1> QED
  BY <1>3, <1>4, <1>5 DEF Reliable

LEMMA InitEvaluating == Init => Evaluating
BY Fresh DEF Init, Evaluating, NoGroup

LEMMA AroundEvaluating ==
    ASSUME AllSlots, Pool, Evaluating, StartGraph \/ SetEnabled \/ UNCHANGED vars
    PROVE  Evaluating'
<1> SUFFICES ASSUME NEW t \in Thread PROVE Reliable(t)'
  BY DEF Evaluating
<1>1. CASE StartGraph
  <2>1. /\ graph' \in Graphs /\ pc'[t] = "loop" /\ node_n'[t] = 1 /\ group' = group
        /\ pc[t] = "done"
    BY <1>1 DEF StartGraph, AllDone
  <2>2. group'[t].mem = <<>>
    BY <2>1 DEF Pool, PendingInside, Active
  <2>3. Len(graph'.nodes) \in Nat \ {0}
    BY <2>1, GraphFacts
  <2>4. Last(t)' = 1 /\ ~Past(t)'
    BY <2>1, <2>3 DEF Last, Past
  <2>5. Behind(t)' /\ Shared(t)'
    BY <2>4 DEF Behind, Shared
  <2>6. GroupKept(t)'
    BY <2>2 DEF GroupKept, Sound, MemNodes
  <2>7. PassKept(t)' /\ OwnPass(t)' /\ Summed(t)' /\ Flushed(t)' /\ Ended(t)'
    BY <2>1 DEF PassKept, InPass, OwnPass, Summed, Flushed, Ended, Ending, Flushes
  <2> QED
    BY <2>5, <2>6, <2>7 DEF Reliable
<1>2. CASE SetEnabled \/ UNCHANGED vars
  BY <1>2, StaysReliable DEF SetEnabled, vars, locals, Evaluating
<1> QED
  BY <1>1, <1>2

-----------------------------------------------------------------------------
DataInv == Pool /\ Evaluating

LEMMA DataInvariant ==
    ASSUME AllSlots, AllTaken
    PROVE  (Init => DataInv) /\ (DataInv /\ [Next]_vars => DataInv')
<1>1. Init => DataInv
  BY InitTypes, InitLockstep, InitPending, InitPass, InitEvaluating DEF DataInv, Pool
<1>2. ASSUME DataInv, [Next]_vars PROVE DataInv'
  <2>1. TypeOK /\ Lockstep /\ PendingInside /\ PassInv /\ Pool /\ Evaluating
    BY <1>2 DEF DataInv, Pool
  <2>2. TypeOK' /\ Lockstep' /\ PendingInside'
    BY <1>2, <2>1, NextTypes, NextLockstep, NextPending DEF AllSlots
  <2>3. PassInv'
    BY <1>2, <2>1, StepPass, ReleasePass, AroundPass DEF Next
  <2>4. Evaluating'
    BY <1>2, <2>1, StepEvaluating, ReleaseEvaluating, AroundEvaluating DEF Next
  <2> QED
    BY <2>2, <2>3, <2>4 DEF DataInv, Pool
<1> QED
  BY <1>1, <1>2

(* With a slot for every thread, and no product declined by the hook,      *)
(* a thread about to compute a node or to copy its input finds complete    *)
(* what the node reads, whatever the graph and however its products fuse.  *)
THEOREM FusionReadsReady == AllSlots /\ AllTaken /\ Spec => []ReadsReady
<1>1. AllTaken /\ DataInv => ReadsReady
  BY Ready DEF DataInv, Evaluating, ReadsReady, Fed, Complete, Node
<1>2. CASE AllSlots /\ AllTaken
  <2>1. Init => DataInv
    BY <1>2, DataInvariant
  <2>2. DataInv /\ [Next]_vars => DataInv'
    BY <1>2, DataInvariant
  <2>3. DataInv => ReadsReady
    BY <1>1, <1>2
  <2>4. Spec => []ReadsReady
    BY <2>1, <2>2, <2>3, PTL DEF Spec
  <2> QED
    BY <2>4
<1>3. CASE ~(AllSlots /\ AllTaken)
  BY <1>3
<1> QED
  BY <1>2, <1>3

LEMMA DoneComplete == DataInv => AllComputed
<1> SUFFICES ASSUME DataInv, AllDone, abort = 0, NEW n \in Nodes PROVE Complete(n)
  BY DEF AllComputed, Complete
<1>1. TypeOK /\ n \in 1 .. Len(graph.nodes) /\ Len(graph.nodes) \in Nat
  BY GraphFacts DEF DataInv, Pool, TypeOK, Nodes
<1>2. ASSUME NEW t \in Thread
      PROVE  Reliable(t) /\ Last(t) = Len(graph.nodes) /\ Past(t) /\ Pending(t) = {}
  <2>1. pc[t] = "done" /\ Reliable(t)
    BY DEF AllDone, DataInv, Evaluating
  <2>2. node_n[t] = Len(graph.nodes) + 1
    BY <2>1 DEF Reliable, Ended, Ending
  <2>3. group[t].mem = <<>> /\ ~InPass(t)
    BY <2>1 DEF DataInv, Pool, PendingInside, Active, InPass, Flushes
  <2> QED
    BY <1>1, <2>1, <2>2, <2>3 DEF Last, Past, Pending, MemNodes
<1>3. CASE n < Len(graph.nodes)
  <2>1. PICK t \in Thread : TRUE
    BY PoolAssumption DEF Thread
  <2>2. Behind(t) /\ Pending(t) = {} /\ Last(t) = Len(graph.nodes)
    BY <1>2, <2>1 DEF Reliable
  <2>3. n \in 1 .. Last(t) - 1
    BY <1>1, <1>3, <2>2
  <2> QED
    BY <2>2, <2>3 DEF Behind
<1>4. CASE n = Len(graph.nodes)
  <2>1. \A t \in Thread : Own(n, t) \subseteq out
    BY <1>2, <1>4 DEF Reliable, Shared
  <2> QED
    BY <1>1, <2>1, OwnCovers
<1>5. n < Len(graph.nodes) \/ n = Len(graph.nodes)
  <2>1. graph.nodes \in Seq(NodeType)
    BY <1>1, GraphsAssumption DEF TypeOK, IsGraph
  <2> QED
    BY <1>1, <2>1
<1> QED
  BY <1>3, <1>4, <1>5

(* A graph that is not aborted ends with every element of every node       *)
(* computed: the threads' slices and passes leave none out.                *)
THEOREM FusionComputesAll == AllSlots /\ AllTaken /\ Spec => []AllComputed
<1>1. CASE AllSlots /\ AllTaken
  <2>1. Init => DataInv
    BY <1>1, DataInvariant
  <2>2. DataInv /\ [Next]_vars => DataInv'
    BY <1>1, DataInvariant
  <2>3. Spec => []AllComputed
    BY <2>1, <2>2, DoneComplete, PTL DEF Spec
  <2> QED
    BY <2>3
<1>2. CASE ~(AllSlots /\ AllTaken)
  BY <1>2
<1> QED
  BY <1>1, <1>2

(* A step completes only nodes whose inputs are complete before it.        *)
LEMMA StepEvaluates ==
    ASSUME AllTaken, Pool, Evaluating, NEW t \in Thread, Step(t),
           NEW n \in Nodes, ~Complete(n), Complete(n)'
    PROVE  Fed(n)
<1>0. TypeOK /\ Reliable(t)
  BY DEF Pool, Evaluating
<1>1. graph' = graph
  BY <1>0, OutGrows
<1>2. PICK c \in Cells(n) : c \notin out /\ c \in out'
  BY <1>1 DEF Complete, Cells
<1>3. c[1] = n
  BY <1>2 DEF Cells
<1>4. CASE ComputeNow(t)
  <2>1. c \in OwnCells(t)
    BY <1>2, <1>4 DEF ComputeNow
  <2>2. n = node_n[t]
    BY <1>3, <2>1 DEF OwnCells
  <2>3. pc[t] = "compute" /\ ~FlushesFirst(t)
    BY <1>4 DEF ComputeNow, FlushesFirst
  <2> QED
    BY <1>0, <2>2, <2>3, Ready
<1>5. CASE Phase2(t)
  <2>1. c \in Phase2Cells(flushing[t], t)
    BY <1>2, <1>5 DEF Phase2
  <2>2. n \in MemNodes(flushing[t])
    BY <1>3, <2>1, PassInside
  <2>3. CASE InPass(t)
    BY <1>0, <2>2, <2>3 DEF Reliable, PassKept, Sound, MemNodes
  <2>4. CASE ~InPass(t)
    <3>1. ret[t] = "after" /\ Flushes(t)
      BY <1>5, <2>4 DEF InPass, Flushes, Phase2
    <3>2. flushing[t] = Members(node_n[t], graph.nodes[node_n[t]].segs) /\ Fed(node_n[t])
      BY <1>0, <3>1 DEF Reliable, OwnPass, Node
    <3>3. node_n[t] \in Nodes
      BY <1>0, <3>1 DEF TypeOK, InNode
    <3>4. n = node_n[t]
      BY <1>0, <2>2, <3>2, <3>3, OwnPassCells
    <3> QED
      BY <3>2, <3>4
  <2> QED
    BY <2>3, <2>4
<1>6. CASE \/ BoundaryFlush(t) \/ HookFlush(t) \/ RunNow(t) \/ GraphEndFlush(t)
  <2>1. UNCHANGED out
    BY <1>6, Zenon DEF BoundaryFlush, HookFlush, RunNow, GraphEndFlush, StartFlush
  <2> QED
    BY <1>2, <2>1
<1>7. CASE \/ EnterNode(t) \/ LeaveLoop(t) \/ Phase1(t) \/ AfterLoop(t) \/ GraphEndIdle(t)
           \/ Final(t) \/ Defer(t) \/ AfterNode(t)
  BY <1>2, <1>7 DEF EnterNode, LeaveLoop, Phase1, AfterLoop, GraphEndIdle, Final, Defer,
     AfterNode
<1> QED
  BY <1>4, <1>5, <1>6, <1>7 DEF Step

computedNodes == {n \in Nodes : Cells(n) \subseteq out}

LEMMA InitEvaluates == Init => Dataflow!Init
<1> SUFFICES ASSUME Init, NEW n \in Nodes PROVE Cells(n) # {}
  BY DEF Init, Dataflow!Init
<1>1. graph.nodes[n].rows \in Nat \ {0}
  BY NodeFacts DEF Init, Nodes, NodeType
<1>2. 0 \in 0 .. graph.nodes[n].rows - 1
  BY <1>1
<1> QED
  BY <1>2 DEF Cells

LEMMA NextEvaluates ==
    ASSUME AllTaken, DataInv, [Next]_vars
    PROVE  [Dataflow!Next]_<<graph, computedNodes>>
<1>1. CASE StartGraph
  <2>1. graph' \in Graphs /\ out' = {}
    BY <1>1 DEF StartGraph
  <2>2. ASSUME NEW n \in DOMAIN graph'.nodes
        PROVE  {<<n, r>> : r \in 0 .. graph'.nodes[n].rows - 1} # {}
    <3>1. graph'.nodes[n].rows \in Nat \ {0}
      BY <2>1, NodeFacts DEF NodeType
    <3>2. 0 \in 0 .. graph'.nodes[n].rows - 1
      BY <3>1
    <3> QED
      BY <3>2
  <2>3. {n \in Nodes : Cells(n) \subseteq out}' = {}
    BY <2>1, <2>2 DEF Nodes, Cells
  <2> QED
    BY <2>1, <2>3 DEF Dataflow!Next, Dataflow!Start
<1>2. ASSUME NEW t \in Thread, Step(t) PROVE Dataflow!Next
  <2> DEFINE S == computedNodes' \ computedNodes
  <2>0. Pool /\ Evaluating /\ TypeOK
    BY DEF DataInv, Pool
  <2>1. graph' = graph /\ out \subseteq out'
    BY <1>2, <2>0, OutGrows
  <2>2. computedNodes' = {n \in Nodes : Cells(n) \subseteq out'}
    BY <2>1 DEF computedNodes, Nodes, Cells
  <2>3. computedNodes' = computedNodes \union S
    BY <2>1, <2>2 DEF computedNodes
  <2>4. S \subseteq DOMAIN graph.nodes \ computedNodes
    BY <2>2 DEF Nodes
  <2>5. ASSUME NEW n \in S PROVE graph.nodes[n].srcs \subseteq computedNodes
    <3>1. n \in Nodes /\ ~Complete(n) /\ Complete(n)'
      BY <2>1, <2>2, <2>5 DEF computedNodes, Complete, Cells
    <3>2. Fed(n)
      BY <1>2, <2>0, <3>1, StepEvaluates
    <3>3. graph.nodes[n].srcs \subseteq Nodes
      BY <2>0, <3>1, NodeFacts, GraphFacts DEF TypeOK, Nodes
    <3> QED
      BY <3>2, <3>3 DEF Fed, Complete, computedNodes
  <2> HIDE DEF S
  <2>6. Dataflow!Complete
    BY <2>1, <2>3, <2>4, <2>5 DEF Dataflow!Complete, computedNodes
  <2> QED
    BY <2>6 DEF Dataflow!Next
<1>3. CASE Release \/ SetEnabled \/ UNCHANGED vars
  <2>1. graph' = graph /\ out' = out
    BY <1>3 DEF Release, SetEnabled, vars
  <2> QED
    BY <2>1 DEF computedNodes, Nodes, Cells
<1> QED
  BY <1>1, <1>2, <1>3 DEF Next

(* What the pool computes is a dataflow evaluation of the graph: fusion    *)
(* changes how many nodes a step completes, never what they are computed   *)
(* from; in a graph that is aborted too.                                   *)
THEOREM FusionEvaluates == AllSlots /\ AllTaken /\ Spec => EvaluatesGraph
<1>1. CASE AllSlots /\ AllTaken
  <2>1. Init => DataInv
    BY <1>1, DataInvariant
  <2>2. DataInv /\ [Next]_vars => DataInv'
    BY <1>1, DataInvariant
  <2>3. DataInv /\ [Next]_vars => [Dataflow!Next]_<<graph, computedNodes>>
    BY <1>1, NextEvaluates
  <2>4. Spec => EvaluatesGraph
    BY <2>1, <2>2, <2>3, InitEvaluates, PTL
       DEF Spec, EvaluatesGraph, Dataflow!Spec, computedNodes
  <2> QED
    BY <2>4
<1>2. CASE ~(AllSlots /\ AllTaken)
  BY <1>2
<1> QED
  BY <1>1, <1>2

-----------------------------------------------------------------------------
(***************************************************************************)
(* A pool that rests, for a program that has others: what is proved of it  *)
(* holds when it has finished its graph, and stays when others fill rows   *)
(* of partial sums.                                                        *)
(***************************************************************************)
LEMMA Rests ==
    ASSUME graph \in Graphs, noFuse \in BOOLEAN, enabled \in BOOLEAN, abort = 0,
           pc = [t \in Thread |-> "done"],
           node_n = [t \in Thread |-> Len(graph.nodes) + 1],
           group = [t \in Thread |-> NoGroup],
           flushing = [t \in Thread |-> <<>>], sync = [t \in Thread |-> FALSE],
           ret = [t \in Thread |-> "after"], partials = [t \in Thread |-> <<>>],
           out = UNION {Cells(n) : n \in Nodes}
    PROVE  DataInv
<1>0. Len(graph.nodes) \in Nat \ {0} /\ Nodes = 1 .. Len(graph.nodes)
  BY GraphFacts DEF Nodes
<1>1. TypeOK
  <2>1. <<>> \in Seq(Member) /\ NoGroup \in [key : Nat, mem : Seq(Member)]
        /\ NoGroup.mem = <<>> /\ Len(<<>>) = 0
    BY DEF NoGroup
  <2>2. out \subseteq Nat \X Nat
    <3>1. \A n \in Nodes : graph.nodes[n].rows \in Nat /\ n \in Nat
      BY NodeFacts DEF Nodes, NodeType
    <3> QED
      BY <3>1 DEF Cells
  <2>3. \A t \in Thread : ~InNode(t)
    BY DEF InNode, Flushes
  <2>4. node_n \in [Thread -> 1 .. Len(graph.nodes) + 1]
    BY <1>0
  <2>5. \A t \in Thread : Len(group[t].mem) <= MaxGroup
    BY <2>1, PoolAssumption
  <2> QED
    BY <2>1, <2>2, <2>3, <2>4, <2>5 DEF TypeOK, PCs
<1>2. Lockstep
  BY DEF Lockstep, Arrival
<1>3. PendingInside /\ PassInv
  BY DEF PendingInside, Active, NoGroup, PassInv, PassSync, RowFilled, RowsFilled, Flushes
<1>4. ASSUME NEW t \in Thread PROVE Reliable(t)
  <2>1. Last(t) = Len(graph.nodes)
    BY <1>0 DEF Last
  <2>2. \A n \in Nodes : Complete(n)
    BY DEF Complete
  <2>3. Behind(t)
    BY <1>0, <2>1, <2>2 DEF Behind
  <2>4. Shared(t)
    BY <1>0, <1>1, <2>1, <2>2, OwnInside DEF Shared, Complete
  <2>5. GroupKept(t)
    BY DEF GroupKept, Sound, MemNodes, NoGroup
  <2>6. PassKept(t) /\ OwnPass(t) /\ Summed(t) /\ Flushed(t) /\ Ended(t)
    BY DEF PassKept, InPass, OwnPass, Summed, Flushed, Ended, Flushes
  <2> QED
    BY <2>3, <2>4, <2>5, <2>6 DEF Reliable
<1> QED
  BY <1>1, <1>2, <1>3, <1>4 DEF DataInv, Pool, Evaluating

LEMMA KeepsResting ==
    ASSUME DataInv, AllDone,
           UNCHANGED <<graph, noFuse, enabled, abort, pc, locals, out>>,
           partials' \in [Thread -> Seq(Member)]
    PROVE  DataInv'
<1>1. TypeOK /\ Lockstep /\ PendingInside /\ PassInv
  BY DEF DataInv, Pool
<1>2. TypeOK'
  BY <1>1 DEF TypeOK, locals, InNode, Flushes, Nodes
<1>3. ASSUME NEW u \in Thread PROVE Arrival(u)' = Arrival(u)
  BY SameArrival DEF locals
<1>4. Lockstep'
  BY <1>1, <1>3 DEF Lockstep
<1>5. PendingInside'
  BY <1>1 DEF PendingInside, Active, HasSlot, locals
<1>6. PassInv'
  BY <1>1 DEF PassInv, PassSync, RowFilled, RowsFilled, Flushes, AllDone, locals
<1>7. Evaluating'
  BY StaysReliable DEF DataInv, Evaluating, locals
<1> QED
  BY <1>2, <1>4, <1>5, <1>6, <1>7 DEF DataInv, Pool

(* What it says of a pool, when asked by name.                             *)
LEMMA DataInvMeans ==
    ASSUME AllTaken, DataInv
    PROVE  /\ BarrierLockstep /\ ReadsReady /\ AllComputed
           /\ \A t \in Thread : pc[t] = "done" => group[t].mem = <<>>
<1>1. BarrierLockstep
  BY EqualLocals DEF BarrierLockstep, Waiting, DataInv, Pool
<1>2. ReadsReady
  BY Ready DEF DataInv, Evaluating, ReadsReady, Fed, Complete, Node
<1>3. \A t \in Thread : pc[t] = "done" => group[t].mem = <<>>
  BY DEF DataInv, Pool, PendingInside, Active
<1> QED
  BY <1>1, <1>2, <1>3, DoneComplete
=============================================================================
