------------------------ MODULE PQTwoContextsProofs ------------------------
(***************************************************************************)
(* Contexts that take turns do not disturb each other, whatever their      *)
(* sizes and graphs.  Each pool is the pool of PQFusion as long as the     *)
(* other one rests; while the other computes, it sees no groups.           *)
(***************************************************************************)
EXTENDS PQTwoContexts, TLAPS

Seen(own, otherDone) == [t \in own |-> IF otherDone THEN group[t] ELSE A!NoGroup]

SeenA == Seen(A!Thread, B!AllDone)
SeenB == Seen(B!Thread, A!AllDone)

RowsA == [t \in A!Thread |-> partials[t]]
RowsB == [t \in B!Thread |-> partials[t]]

PA == INSTANCE PQFusionProofs WITH
        NThreads <- NThreadsA, Graphs <- GraphsA, LoadsDuringCompute <- FALSE,
        graph <- graphA, abort <- abortA, pc <- pcA, node_n <- node_nA,
        flushing <- flushingA, sync <- syncA, ret <- retA, out <- outA,
        group <- SeenA, partials <- RowsA

PB == INSTANCE PQFusionProofs WITH
        NThreads <- NThreadsB, Graphs <- GraphsB, LoadsDuringCompute <- FALSE,
        graph <- graphB, abort <- abortB, pc <- pcB, node_n <- node_nB,
        flushing <- flushingB, sync <- syncB, ret <- retB, out <- outB,
        group <- SeenB, partials <- RowsB

-----------------------------------------------------------------------------
(* The assumptions of the pools' own modules. *)
LEMMA Assumptions ==
    /\ PA!PoolAssumption /\ PA!GraphsAssumption
    /\ PB!PoolAssumption /\ PB!GraphsAssumption
<1>1. /\ NThreadsA \in Nat \ {0} /\ NThreadsB \in Nat \ {0}
      /\ KMaxThreads \in Nat \ {0} /\ MaxGroup \in Nat \ {0}
      /\ GraphsA # {} /\ \A g \in GraphsA : A!IsGraph(g)
      /\ GraphsB # {} /\ \A g \in GraphsB : B!IsGraph(g)
  BY ContextsAssumption
<1>2. \A g \in GraphsA : PA!IsGraph(g)
  BY <1>1 DEF A!IsGraph, PA!IsGraph, A!NodeType, PA!NodeType, A!Ops, PA!Ops, A!End, PA!End
<1>3. \A g \in GraphsB : PB!IsGraph(g)
  BY <1>1 DEF B!IsGraph, PB!IsGraph, B!NodeType, PB!NodeType, B!Ops, PB!Ops, B!End, PB!End
<1> QED
  BY <1>1, <1>2, <1>3 DEF PA!PoolAssumption, PA!GraphsAssumption, PB!PoolAssumption,
     PB!GraphsAssumption

-----------------------------------------------------------------------------
(* The group and the rows are those of the slots. *)
Shape ==
    /\ group \in [Slot -> [key : Nat, mem : Seq(A!Member)]]
    /\ partials \in [Slot -> Seq(A!Member)]

(* With the other context at rest, a pool's steps are those of PQFusion.   *)
LEMMA GuardsA ==
    ASSUME B!AllDone, NEW t \in A!Thread
    PROVE  /\ SeenA[t] = group[t]
           /\ PA!Node(t) = A!Node(t)
           /\ PA!AtNode(t) <=> A!AtNode(t)
           /\ PA!HasSlot(t) <=> A!HasSlot(t)
           /\ PA!Active(t) <=> A!Active(t)
           /\ PA!BoundaryFlushes(t) <=> A!BoundaryFlushes(t)
           /\ PA!Hooked(t) <=> A!Hooked(t)
           /\ PA!Defers(t) <=> A!Defers(t)
           /\ PA!FlushesFirst(t) <=> A!FlushesFirst(t)
<1>1. SeenA[t] = group[t]
  BY DEF SeenA, Seen
<1>2. PA!Node(t) = A!Node(t)
  BY DEF PA!Node, A!Node
<1>3. PA!AtNode(t) <=> A!AtNode(t)
  BY DEF PA!AtNode, A!AtNode
<1>4. PA!HasSlot(t) <=> A!HasSlot(t)
  BY DEF PA!HasSlot, A!HasSlot
<1>5. PA!Active(t) <=> A!Active(t)
  BY <1>1 DEF PA!Active, A!Active
<1>6. PA!BoundaryFlushes(t) <=> A!BoundaryFlushes(t)
  BY <1>2, <1>4, <1>5 DEF PA!BoundaryFlushes, A!BoundaryFlushes, PA!SelfManaged, A!SelfManaged
<1>7. PA!Hooked(t) <=> A!Hooked(t)
  BY <1>2, <1>4 DEF PA!Hooked, A!Hooked
<1>8. PA!Defers(t) <=> A!Defers(t)
  BY <1>2, <1>4 DEF PA!Defers, A!Defers
<1>9. PA!Joins(t) <=> A!Joins(t)
  BY <1>1, <1>2, <1>5 DEF PA!Joins, A!Joins
<1>10. PA!FlushesFirst(t) <=> A!FlushesFirst(t)
  BY <1>4, <1>5, <1>7, <1>8, <1>9 DEF PA!FlushesFirst, A!FlushesFirst
<1> QED
  BY <1>1, <1>2, <1>3, <1>4, <1>5, <1>6, <1>7, <1>8, <1>10

LEMMA FlushA ==
    ASSUME Shape, B!AllDone, B!AllDone', NEW t \in A!Thread, NEW mem, NEW s, NEW r,
           A!StartFlush(t, mem, s, r)
    PROVE  PA!StartFlush(t, mem, s, r)
<1>1. SeenA' = [SeenA EXCEPT ![t] = A!NoGroup]
  BY DEF SeenA, Seen, Shape, Slot, A!StartFlush
<1>2. RowsA' = RowsA
  BY DEF RowsA, A!StartFlush
<1> QED
  BY <1>1, <1>2 DEF A!StartFlush, PA!StartFlush, A!NoGroup, PA!NoGroup

LEMMA StepA ==
    ASSUME Shape, B!AllDone, B!AllDone', NEW t \in A!Thread, A!Step(t)
    PROVE  PA!Step(t)
<1>1. CASE A!BoundaryFlush(t)
  <2>1. A!StartFlush(t, group[t].mem, TRUE, "compute")
    BY <1>1 DEF A!BoundaryFlush
  <2> QED
    BY <1>1, <2>1, GuardsA, FlushA DEF A!BoundaryFlush, PA!BoundaryFlush, PA!Step
<1>2. CASE A!HookFlush(t)
  <2>1. A!StartFlush(t, group[t].mem, A!Node(t).op = "s1" => ~noFuse, "compute")
    BY <1>2 DEF A!HookFlush
  <2> QED
    BY <1>2, <2>1, GuardsA, FlushA DEF A!HookFlush, PA!HookFlush, PA!Step
<1>3. CASE A!GraphEndFlush(t)
  <2>1. A!StartFlush(t, group[t].mem, TRUE, "final")
    BY <1>3 DEF A!GraphEndFlush
  <2> QED
    BY <1>3, <2>1, GuardsA, FlushA DEF A!GraphEndFlush, PA!GraphEndFlush, PA!Step
<1>4. CASE A!RunNow(t)
  <2>1. A!StartFlush(t, A!Members(node_nA[t], A!Node(t).segs), FALSE, "after")
    BY <1>4 DEF A!RunNow
  <2>2. A!Members(node_nA[t], A!Node(t).segs) = PA!Members(node_nA[t], PA!Node(t).segs)
    BY GuardsA DEF A!Members, PA!Members
  <2>3. PA!StartFlush(t, PA!Members(node_nA[t], PA!Node(t).segs), FALSE, "after")
    BY <2>1, <2>2, FlushA
  <2>4. pcA[t] = "compute" /\ PA!Hooked(t) /\ PA!Node(t).op # "s2" /\ ~PA!Defers(t)
        /\ ~PA!FlushesFirst(t)
    BY <1>4, GuardsA DEF A!RunNow
  <2> QED
    BY <2>3, <2>4 DEF PA!RunNow, PA!Step
<1>5. CASE A!Defer(t)
  <2> DEFINE g == [key |-> A!Node(t).key,
                   mem |-> A!Add(group[t].mem, node_nA[t], A!Node(t).segs[1])]
  <2>1. group' = [group EXCEPT ![t] = g]
    BY <1>5 DEF A!Defer
  <2>2. g = [key |-> PA!Node(t).key,
             mem |-> PA!Add(SeenA[t].mem, node_nA[t], PA!Node(t).segs[1])]
    BY GuardsA DEF A!Add, PA!Add, A!Total, PA!Total
  <2> HIDE DEF g
  <2>3. SeenA' = [SeenA EXCEPT ![t] = g]
    BY <2>1 DEF SeenA, Seen, Shape, Slot
  <2>4. RowsA' = RowsA
    BY <1>5 DEF RowsA, A!Defer
  <2> QED
    BY <1>5, <2>2, <2>3, <2>4, GuardsA DEF A!Defer, PA!Defer, PA!Step
<1>6. CASE A!Phase1(t)
  <2>1. RowsA' = [RowsA EXCEPT ![t] = flushingA[t]] /\ SeenA' = SeenA
    BY <1>6 DEF A!Phase1, A!locals, RowsA, SeenA, Seen, Shape, Slot
  <2> QED
    BY <1>6, <2>1 DEF A!Phase1, PA!Phase1, A!locals, PA!locals, PA!Step
<1>7. CASE \/ A!EnterNode(t) \/ A!LeaveLoop(t) \/ A!ComputeNow(t) \/ A!AfterNode(t)
           \/ A!Phase2(t) \/ A!AfterLoop(t) \/ A!GraphEndIdle(t) \/ A!Final(t)
  <2>1. RowsA' = RowsA /\ SeenA' = SeenA
    BY <1>7 DEF A!EnterNode, A!LeaveLoop, A!ComputeNow, A!AfterNode, A!Phase2, A!AfterLoop,
       A!GraphEndIdle, A!Final, A!locals, RowsA, SeenA, Seen
  <2>2. CASE A!EnterNode(t) \/ A!LeaveLoop(t)
    BY <2>1, <2>2, GuardsA
       DEF A!EnterNode, A!LeaveLoop, PA!EnterNode, PA!LeaveLoop, A!locals, PA!locals, PA!Step
  <2>3. CASE A!ComputeNow(t)
    <3>1. PA!OwnCells(t) = A!OwnCells(t)
      BY GuardsA DEF PA!OwnCells, A!OwnCells, PA!Slice, A!Slice
    <3> QED
      BY <2>1, <2>3, <3>1, GuardsA
         DEF A!ComputeNow, PA!ComputeNow, A!locals, PA!locals, PA!Step
  <2>4. CASE A!AfterNode(t)
    BY <2>1, <2>4 DEF A!AfterNode, PA!AfterNode, A!AbortChoices, PA!AbortChoices, PA!Step
  <2>5. CASE A!Phase2(t)
    <3>1. PA!Phase2Cells(flushingA[t], t) = A!Phase2Cells(flushingA[t], t)
      BY DEF PA!Phase2Cells, A!Phase2Cells, PA!Slice, A!Slice, PA!Total, A!Total
    <3> QED
      BY <2>1, <2>5, <3>1 DEF A!Phase2, PA!Phase2, A!locals, PA!locals, PA!Step
  <2>6. CASE A!AfterLoop(t) \/ A!GraphEndIdle(t) \/ A!Final(t)
    BY <2>1, <2>6, GuardsA
       DEF A!AfterLoop, A!GraphEndIdle, A!Final, PA!AfterLoop, PA!GraphEndIdle, PA!Final,
           A!locals, PA!locals, PA!Step
  <2> QED
    BY <1>7, <2>2, <2>3, <2>4, <2>5, <2>6
<1> QED
  BY <1>1, <1>2, <1>3, <1>4, <1>5, <1>6, <1>7 DEF A!Step

LEMMA ReleaseA ==
    ASSUME Shape, B!AllDone, B!AllDone', A!Release
    PROVE  PA!Release
<1>1. RowsA' = RowsA /\ SeenA' = SeenA
  BY DEF A!Release, RowsA, SeenA, Seen
<1>2. A!Thread = PA!Thread /\ A!Waiting = PA!Waiting
  BY DEF A!Thread, PA!Thread, A!Waiting, PA!Waiting, A!BarrierSites, PA!BarrierSites
<1>3. \A t \in A!Thread : A!Resume(t) = PA!Resume(t)
  BY DEF A!Resume, PA!Resume
<1> QED
  BY <1>1, <1>2, <1>3 DEF A!Release, PA!Release

LEMMA StartA ==
    ASSUME B!AllDone, B!AllDone', A!StartGraph
    PROVE  PA!StartGraph
<1>1. RowsA' = RowsA /\ SeenA' = SeenA
  BY DEF A!StartGraph, RowsA, SeenA, Seen
<1> QED
  BY <1>1 DEF A!StartGraph, PA!StartGraph, A!AllDone, PA!AllDone, A!Thread, PA!Thread

(* The same of the other pool. *)
LEMMA GuardsB ==
    ASSUME A!AllDone, NEW t \in B!Thread
    PROVE  /\ SeenB[t] = group[t]
           /\ PB!Node(t) = B!Node(t)
           /\ PB!AtNode(t) <=> B!AtNode(t)
           /\ PB!HasSlot(t) <=> B!HasSlot(t)
           /\ PB!Active(t) <=> B!Active(t)
           /\ PB!BoundaryFlushes(t) <=> B!BoundaryFlushes(t)
           /\ PB!Hooked(t) <=> B!Hooked(t)
           /\ PB!Defers(t) <=> B!Defers(t)
           /\ PB!FlushesFirst(t) <=> B!FlushesFirst(t)
<1>1. SeenB[t] = group[t]
  BY DEF SeenB, Seen
<1>2. PB!Node(t) = B!Node(t)
  BY DEF PB!Node, B!Node
<1>3. PB!AtNode(t) <=> B!AtNode(t)
  BY DEF PB!AtNode, B!AtNode
<1>4. PB!HasSlot(t) <=> B!HasSlot(t)
  BY DEF PB!HasSlot, B!HasSlot
<1>5. PB!Active(t) <=> B!Active(t)
  BY <1>1 DEF PB!Active, B!Active
<1>6. PB!BoundaryFlushes(t) <=> B!BoundaryFlushes(t)
  BY <1>2, <1>4, <1>5 DEF PB!BoundaryFlushes, B!BoundaryFlushes, PB!SelfManaged, B!SelfManaged
<1>7. PB!Hooked(t) <=> B!Hooked(t)
  BY <1>2, <1>4 DEF PB!Hooked, B!Hooked
<1>8. PB!Defers(t) <=> B!Defers(t)
  BY <1>2, <1>4 DEF PB!Defers, B!Defers
<1>9. PB!Joins(t) <=> B!Joins(t)
  BY <1>1, <1>2, <1>5 DEF PB!Joins, B!Joins
<1>10. PB!FlushesFirst(t) <=> B!FlushesFirst(t)
  BY <1>4, <1>5, <1>7, <1>8, <1>9 DEF PB!FlushesFirst, B!FlushesFirst
<1> QED
  BY <1>1, <1>2, <1>3, <1>4, <1>5, <1>6, <1>7, <1>8, <1>10

LEMMA FlushB ==
    ASSUME Shape, A!AllDone, A!AllDone', NEW t \in B!Thread, NEW mem, NEW s, NEW r,
           B!StartFlush(t, mem, s, r)
    PROVE  PB!StartFlush(t, mem, s, r)
<1>1. SeenB' = [SeenB EXCEPT ![t] = B!NoGroup]
  BY DEF A!NoGroup, B!NoGroup, SeenB, Seen, Shape, Slot, B!StartFlush
<1>2. RowsB' = RowsB
  BY DEF RowsB, B!StartFlush
<1> QED
  BY <1>1, <1>2 DEF B!StartFlush, PB!StartFlush, B!NoGroup, PB!NoGroup

LEMMA StepB ==
    ASSUME Shape, A!AllDone, A!AllDone', NEW t \in B!Thread, B!Step(t)
    PROVE  PB!Step(t)
<1>1. CASE B!BoundaryFlush(t)
  <2>1. B!StartFlush(t, group[t].mem, TRUE, "compute")
    BY <1>1 DEF B!BoundaryFlush
  <2> QED
    BY <1>1, <2>1, GuardsB, FlushB DEF B!BoundaryFlush, PB!BoundaryFlush, PB!Step
<1>2. CASE B!HookFlush(t)
  <2>1. B!StartFlush(t, group[t].mem, B!Node(t).op = "s1" => ~noFuse, "compute")
    BY <1>2 DEF B!HookFlush
  <2> QED
    BY <1>2, <2>1, GuardsB, FlushB DEF B!HookFlush, PB!HookFlush, PB!Step
<1>3. CASE B!GraphEndFlush(t)
  <2>1. B!StartFlush(t, group[t].mem, TRUE, "final")
    BY <1>3 DEF B!GraphEndFlush
  <2> QED
    BY <1>3, <2>1, GuardsB, FlushB DEF B!GraphEndFlush, PB!GraphEndFlush, PB!Step
<1>4. CASE B!RunNow(t)
  <2>1. B!StartFlush(t, B!Members(node_nB[t], B!Node(t).segs), FALSE, "after")
    BY <1>4 DEF B!RunNow
  <2>2. B!Members(node_nB[t], B!Node(t).segs) = PB!Members(node_nB[t], PB!Node(t).segs)
    BY GuardsB DEF B!Members, PB!Members
  <2>3. PB!StartFlush(t, PB!Members(node_nB[t], PB!Node(t).segs), FALSE, "after")
    BY <2>1, <2>2, FlushB
  <2>4. pcB[t] = "compute" /\ PB!Hooked(t) /\ PB!Node(t).op # "s2" /\ ~PB!Defers(t)
        /\ ~PB!FlushesFirst(t)
    BY <1>4, GuardsB DEF B!RunNow
  <2> QED
    BY <2>3, <2>4 DEF PB!RunNow, PB!Step
<1>5. CASE B!Defer(t)
  <2> DEFINE g == [key |-> B!Node(t).key,
                   mem |-> B!Add(group[t].mem, node_nB[t], B!Node(t).segs[1])]
  <2>1. group' = [group EXCEPT ![t] = g]
    BY <1>5 DEF B!Defer
  <2>2. g = [key |-> PB!Node(t).key,
             mem |-> PB!Add(SeenB[t].mem, node_nB[t], PB!Node(t).segs[1])]
    BY GuardsB DEF B!Add, PB!Add, B!Total, PB!Total
  <2> HIDE DEF g
  <2>3. SeenB' = [SeenB EXCEPT ![t] = g]
    BY <2>1 DEF SeenB, Seen, Shape, Slot
  <2>4. RowsB' = RowsB
    BY <1>5 DEF RowsB, B!Defer
  <2> QED
    BY <1>5, <2>2, <2>3, <2>4, GuardsB DEF B!Defer, PB!Defer, PB!Step
<1>6. CASE B!Phase1(t)
  <2>1. RowsB' = [RowsB EXCEPT ![t] = flushingB[t]] /\ SeenB' = SeenB
    BY <1>6 DEF B!Phase1, B!locals, RowsB, SeenB, Seen, Shape, Slot
  <2> QED
    BY <1>6, <2>1 DEF B!Phase1, PB!Phase1, B!locals, PB!locals, PB!Step
<1>7. CASE \/ B!EnterNode(t) \/ B!LeaveLoop(t) \/ B!ComputeNow(t) \/ B!AfterNode(t)
           \/ B!Phase2(t) \/ B!AfterLoop(t) \/ B!GraphEndIdle(t) \/ B!Final(t)
  <2>1. RowsB' = RowsB /\ SeenB' = SeenB
    BY <1>7 DEF B!EnterNode, B!LeaveLoop, B!ComputeNow, B!AfterNode, B!Phase2, B!AfterLoop,
       B!GraphEndIdle, B!Final, B!locals, RowsB, SeenB, Seen
  <2>2. CASE B!EnterNode(t) \/ B!LeaveLoop(t)
    BY <2>1, <2>2, GuardsB
       DEF B!EnterNode, B!LeaveLoop, PB!EnterNode, PB!LeaveLoop, B!locals, PB!locals, PB!Step
  <2>3. CASE B!ComputeNow(t)
    <3>1. PB!OwnCells(t) = B!OwnCells(t)
      BY GuardsB DEF PB!OwnCells, B!OwnCells, PB!Slice, B!Slice
    <3> QED
      BY <2>1, <2>3, <3>1, GuardsB
         DEF B!ComputeNow, PB!ComputeNow, B!locals, PB!locals, PB!Step
  <2>4. CASE B!AfterNode(t)
    BY <2>1, <2>4 DEF B!AfterNode, PB!AfterNode, B!AbortChoices, PB!AbortChoices, PB!Step
  <2>5. CASE B!Phase2(t)
    <3>1. PB!Phase2Cells(flushingB[t], t) = B!Phase2Cells(flushingB[t], t)
      BY DEF PB!Phase2Cells, B!Phase2Cells, PB!Slice, B!Slice, PB!Total, B!Total
    <3> QED
      BY <2>1, <2>5, <3>1 DEF B!Phase2, PB!Phase2, B!locals, PB!locals, PB!Step
  <2>6. CASE B!AfterLoop(t) \/ B!GraphEndIdle(t) \/ B!Final(t)
    BY <2>1, <2>6, GuardsB
       DEF B!AfterLoop, B!GraphEndIdle, B!Final, PB!AfterLoop, PB!GraphEndIdle, PB!Final,
           B!locals, PB!locals, PB!Step
  <2> QED
    BY <1>7, <2>2, <2>3, <2>4, <2>5, <2>6
<1> QED
  BY <1>1, <1>2, <1>3, <1>4, <1>5, <1>6, <1>7 DEF B!Step

LEMMA ReleaseB ==
    ASSUME Shape, A!AllDone, A!AllDone', B!Release
    PROVE  PB!Release
<1>1. RowsB' = RowsB /\ SeenB' = SeenB
  BY DEF B!Release, RowsB, SeenB, Seen
<1>2. B!Thread = PB!Thread /\ B!Waiting = PB!Waiting
  BY DEF B!Thread, PB!Thread, B!Waiting, PB!Waiting, B!BarrierSites, PB!BarrierSites
<1>3. \A t \in B!Thread : B!Resume(t) = PB!Resume(t)
  BY DEF B!Resume, PB!Resume
<1> QED
  BY <1>1, <1>2, <1>3 DEF B!Release, PB!Release

LEMMA StartB ==
    ASSUME A!AllDone, A!AllDone', B!StartGraph
    PROVE  PB!StartGraph
<1>1. RowsB' = RowsB /\ SeenB' = SeenB
  BY DEF B!StartGraph, RowsB, SeenB, Seen
<1> QED
  BY <1>1 DEF B!StartGraph, PB!StartGraph, B!AllDone, PB!AllDone, B!Thread, PB!Thread

(* A step of a pool touches one slot, and leaves it without a group or     *)
(* with members in it; a pool that takes a step is not at rest.            *)
LEMMA SlotA ==
    ASSUME Shape, PA!TypeOK, NEW t \in A!Thread, A!Step(t)
    PROVE  /\ ~A!AllDone /\ ~A!AllDone'
           /\ UNCHANGED <<noFuse, enabled>>
           /\ \E g : /\ group' = [group EXCEPT ![t] = g]
                     /\ g = group[t] \/ g = A!NoGroup \/ g.mem # <<>>
           /\ \E p : partials' = [partials EXCEPT ![t] = p]
<1>0. retA[t] # "done" /\ pcA \in [A!Thread -> PA!PCs]
  BY DEF PA!TypeOK, A!Thread, PA!Thread
<1>1. CASE A!BoundaryFlush(t) \/ A!HookFlush(t) \/ A!RunNow(t) \/ A!GraphEndFlush(t)
  <2>1. /\ pcA[t] # "done" /\ pcA' = [pcA EXCEPT ![t] = "phase1"]
        /\ group' = [group EXCEPT ![t] = A!NoGroup] /\ UNCHANGED <<noFuse, enabled, partials>>
    BY <1>1 DEF A!BoundaryFlush, A!AtNode, A!HookFlush, A!RunNow, A!GraphEndFlush, A!StartFlush
  <2> QED
    BY <1>0, <2>1 DEF A!AllDone, Shape
<1>2. CASE A!Defer(t)
  <2>1. /\ pcA[t] # "done" /\ pcA' = [pcA EXCEPT ![t] = "after"]
        /\ UNCHANGED <<noFuse, enabled, partials>>
    BY <1>2 DEF A!Defer
  <2> DEFINE add == A!Add(group[t].mem, node_nA[t], A!Node(t).segs[1])
             g == [key |-> A!Node(t).key, mem |-> add]
  <2>2. group' = [group EXCEPT ![t] = g]
    BY <1>2 DEF A!Defer
  <2>3. add # <<>>
    <3>1. group[t].mem \in Seq(A!Member)
      BY DEF Shape, Slot
    <3>2. \A x : Append(group[t].mem, x) # <<>>
      BY <3>1
    <3> QED
      BY <3>2 DEF A!Add
  <2>4. g.mem # <<>>
    BY <2>3
  <2> HIDE DEF g
  <2> QED
    BY <1>0, <2>1, <2>2, <2>4 DEF A!AllDone, Shape
<1>3. CASE \/ A!EnterNode(t) \/ A!LeaveLoop(t) \/ A!ComputeNow(t) \/ A!AfterNode(t)
           \/ A!Phase1(t) \/ A!Phase2(t) \/ A!AfterLoop(t) \/ A!GraphEndIdle(t) \/ A!Final(t)
  <2>1. UNCHANGED <<noFuse, enabled, group>>
    BY <1>3 DEF A!EnterNode, A!LeaveLoop, A!ComputeNow, A!AfterNode, A!Phase1, A!Phase2,
       A!AfterLoop, A!GraphEndIdle, A!Final, A!locals
  <2>2. \E p : partials' = [partials EXCEPT ![t] = p]
    <3>1. CASE A!Phase1(t)
      BY <3>1 DEF A!Phase1
    <3>2. CASE ~A!Phase1(t)
      <4>1. partials' = [partials EXCEPT ![t] = partials[t]]
        BY <1>3, <3>2 DEF A!EnterNode, A!LeaveLoop, A!ComputeNow, A!AfterNode, A!Phase2,
           A!AfterLoop, A!GraphEndIdle, A!Final, A!locals, Shape
      <4> QED
        BY <4>1
    <3> QED
      BY <3>1, <3>2
  <2>3. pcA[t] # "done" /\ pcA'[t] # "done"
    BY <1>0, <1>3 DEF A!EnterNode, A!AtNode, A!LeaveLoop, A!ComputeNow, A!AfterNode, A!Phase1,
       A!Phase2, A!AfterLoop, A!GraphEndIdle, A!Final, PA!PCs
  <2>4. group' = [group EXCEPT ![t] = group[t]]
    BY <2>1 DEF Shape
  <2> QED
    BY <2>1, <2>2, <2>3, <2>4 DEF A!AllDone
<1> QED
  BY <1>1, <1>2, <1>3 DEF A!Step

(* The same of the other pool. *)
LEMMA SlotB ==
    ASSUME Shape, PB!TypeOK, NEW t \in B!Thread, B!Step(t)
    PROVE  /\ ~B!AllDone /\ ~B!AllDone'
           /\ UNCHANGED <<noFuse, enabled>>
           /\ \E g : /\ group' = [group EXCEPT ![t] = g]
                     /\ g = group[t] \/ g = A!NoGroup \/ g.mem # <<>>
           /\ \E p : partials' = [partials EXCEPT ![t] = p]
<1>0. retB[t] # "done" /\ pcB \in [B!Thread -> PB!PCs]
  BY DEF PB!TypeOK, B!Thread, PB!Thread
<1>1. CASE B!BoundaryFlush(t) \/ B!HookFlush(t) \/ B!RunNow(t) \/ B!GraphEndFlush(t)
  <2>1. /\ pcB[t] # "done" /\ pcB' = [pcB EXCEPT ![t] = "phase1"]
        /\ group' = [group EXCEPT ![t] = A!NoGroup] /\ UNCHANGED <<noFuse, enabled, partials>>
    BY <1>1 DEF A!NoGroup, B!NoGroup, B!BoundaryFlush, B!AtNode, B!HookFlush, B!RunNow,
       B!GraphEndFlush, B!StartFlush
  <2> QED
    BY <1>0, <2>1 DEF B!AllDone, Shape
<1>2. CASE B!Defer(t)
  <2>1. /\ pcB[t] # "done" /\ pcB' = [pcB EXCEPT ![t] = "after"]
        /\ UNCHANGED <<noFuse, enabled, partials>>
    BY <1>2 DEF B!Defer
  <2> DEFINE add == B!Add(group[t].mem, node_nB[t], B!Node(t).segs[1])
             g == [key |-> B!Node(t).key, mem |-> add]
  <2>2. group' = [group EXCEPT ![t] = g]
    BY <1>2 DEF B!Defer
  <2>3. add # <<>>
    <3>1. group[t].mem \in Seq(B!Member)
      BY DEF Shape, Slot, A!Member, B!Member
    <3>2. \A x : Append(group[t].mem, x) # <<>>
      BY <3>1
    <3> QED
      BY <3>2 DEF B!Add
  <2>4. g.mem # <<>>
    BY <2>3
  <2> HIDE DEF g
  <2> QED
    BY <1>0, <2>1, <2>2, <2>4 DEF B!AllDone, Shape
<1>3. CASE \/ B!EnterNode(t) \/ B!LeaveLoop(t) \/ B!ComputeNow(t) \/ B!AfterNode(t)
           \/ B!Phase1(t) \/ B!Phase2(t) \/ B!AfterLoop(t) \/ B!GraphEndIdle(t) \/ B!Final(t)
  <2>1. UNCHANGED <<noFuse, enabled, group>>
    BY <1>3 DEF B!EnterNode, B!LeaveLoop, B!ComputeNow, B!AfterNode, B!Phase1, B!Phase2,
       B!AfterLoop, B!GraphEndIdle, B!Final, B!locals
  <2>2. \E p : partials' = [partials EXCEPT ![t] = p]
    <3>1. CASE B!Phase1(t)
      BY <3>1 DEF B!Phase1
    <3>2. CASE ~B!Phase1(t)
      <4>1. partials' = [partials EXCEPT ![t] = partials[t]]
        BY <1>3, <3>2 DEF B!EnterNode, B!LeaveLoop, B!ComputeNow, B!AfterNode, B!Phase2,
           B!AfterLoop, B!GraphEndIdle, B!Final, B!locals, Shape
      <4> QED
        BY <4>1
    <3> QED
      BY <3>1, <3>2
  <2>3. pcB[t] # "done" /\ pcB'[t] # "done"
    BY <1>0, <1>3 DEF B!EnterNode, B!AtNode, B!LeaveLoop, B!ComputeNow, B!AfterNode, B!Phase1,
       B!Phase2, B!AfterLoop, B!GraphEndIdle, B!Final, PB!PCs
  <2>4. group' = [group EXCEPT ![t] = group[t]]
    BY <2>1 DEF Shape
  <2> QED
    BY <2>1, <2>2, <2>3, <2>4 DEF B!AllDone
<1> QED
  BY <1>1, <1>2, <1>3 DEF B!Step

-----------------------------------------------------------------------------
(***************************************************************************)
(* The invariant: the contexts take turns, a slot whose threads rest has   *)
(* no group, and each pool is as what is proved of PQFusion says.          *)
(***************************************************************************)
Turns == A!AllDone \/ B!AllDone

Tidy == \A s \in Slot : group[s].mem = <<>> => group[s] = A!NoGroup

AtRest(s) == (s \in A!Thread => A!AllDone) /\ (s \in B!Thread => B!AllDone)

LeftAlone == \A s \in Slot : AtRest(s) => group[s] = A!NoGroup

SharedInv == Shape /\ Turns /\ Tidy /\ LeftAlone /\ PA!DataInv /\ PB!DataInv

(* Every thread has a slot, the hook declines no product, and the contexts *)
(* are not used at the same time.                                          *)
InTurns ==
    /\ ~Parallel
    /\ NThreadsA <= KMaxThreads /\ NThreadsB <= KMaxThreads
    /\ \A g \in GraphsA \union GraphsB : \A i \in DOMAIN g.nodes : g.nodes[i].op # "off"

LEMMA SameSets ==
    /\ A!Thread = PA!Thread /\ B!Thread = PB!Thread
    /\ 0 \in A!Thread /\ 0 \in B!Thread
    /\ A!Member = PA!Member /\ B!Member = PB!Member /\ A!Member = B!Member
    /\ A!NoGroup = B!NoGroup /\ A!AllDone = PA!AllDone /\ B!AllDone = PB!AllDone
BY ContextsAssumption
   DEF A!Thread, PA!Thread, B!Thread, PB!Thread, A!Member, PA!Member, B!Member, PB!Member,
       A!NoGroup, B!NoGroup, A!AllDone, PA!AllDone, B!AllDone, PB!AllDone

(* The steps of one pool; the other one does not see them. *)
LEMMA OwnInvA ==
    ASSUME InTurns, PA!DataInv, PA!Next
    PROVE  PA!DataInv'
BY Assumptions, PA!DataInvariant
   DEF InTurns, PA!PoolAssumption, PA!GraphsAssumption, PA!AllSlots, PA!AllTaken

LEMMA OthersA ==
    ASSUME InTurns, PA!DataInv, A!AllDone, UNCHANGED <<noFuse, enabled, varsA>>,
           SeenA' = SeenA, partials' \in [Slot -> Seq(A!Member)]
    PROVE  PA!DataInv'
<1>1. RowsA' \in [PA!Thread -> Seq(PA!Member)]
  BY SameSets DEF RowsA, Slot
<1>2. UNCHANGED <<graphA, noFuse, enabled, abortA, pcA, PA!locals, outA>>
  BY DEF varsA, PA!locals
<1>3. PA!AllDone
  BY SameSets
<1> QED
  BY <1>1, <1>2, <1>3, Assumptions, PA!KeepsResting DEF PA!PoolAssumption, PA!GraphsAssumption

LEMMA OwnInvB ==
    ASSUME InTurns, PB!DataInv, PB!Next
    PROVE  PB!DataInv'
BY Assumptions, PB!DataInvariant
   DEF InTurns, PB!PoolAssumption, PB!GraphsAssumption, PB!AllSlots, PB!AllTaken

LEMMA OthersB ==
    ASSUME InTurns, PB!DataInv, B!AllDone, UNCHANGED <<noFuse, enabled, varsB>>,
           SeenB' = SeenB, partials' \in [Slot -> Seq(B!Member)]
    PROVE  PB!DataInv'
<1>1. RowsB' \in [PB!Thread -> Seq(PB!Member)]
  BY SameSets DEF RowsB, Slot
<1>2. UNCHANGED <<graphB, noFuse, enabled, abortB, pcB, PB!locals, outB>>
  BY DEF varsB, PB!locals
<1>3. PB!AllDone
  BY SameSets
<1> QED
  BY <1>1, <1>2, <1>3, Assumptions, PB!KeepsResting DEF PB!PoolAssumption, PB!GraphsAssumption

LEMMA StepInvA ==
    ASSUME InTurns, SharedInv, NEW t \in A!Thread, A!Step(t), UNCHANGED varsB
    PROVE  SharedInv'
<1>0. Shape /\ Turns /\ Tidy /\ LeftAlone /\ PA!DataInv /\ PB!DataInv /\ PA!TypeOK
  BY DEF SharedInv, PA!DataInv, PA!Pool
<1>1. ~A!AllDone /\ ~A!AllDone' /\ UNCHANGED <<noFuse, enabled>>
  BY <1>0, SlotA
<1>2. PICK g : /\ group' = [group EXCEPT ![t] = g]
               /\ g = group[t] \/ g = A!NoGroup \/ g.mem # <<>>
  BY <1>0, SlotA
<1>3. PICK p : partials' = [partials EXCEPT ![t] = p]
  BY <1>0, SlotA
<1>4. B!AllDone /\ B!AllDone'
  BY <1>0, <1>1 DEF Turns, B!AllDone, varsB
<1>5. PA!DataInv'
  <2>1. PA!Next
    BY <1>0, <1>4, StepA, SameSets DEF PA!Next
  <2> QED
    BY <1>0, <2>1, OwnInvA
<1>6. Shape'
  <2>1. PA!TypeOK'
    BY <1>5 DEF PA!DataInv, PA!Pool
  <2>2. SeenA' \in [A!Thread -> [key : Nat, mem : Seq(A!Member)]]
    BY <2>1, SameSets DEF PA!TypeOK
  <2>3. SeenA'[t] = g
    BY <1>0, <1>2, <1>4 DEF SeenA, Seen, Shape, Slot
  <2>4. RowsA' \in [A!Thread -> Seq(A!Member)]
    BY <2>1, SameSets DEF PA!TypeOK
  <2>5. RowsA'[t] = p
    BY <1>0, <1>3 DEF RowsA, Shape, Slot
  <2>6. g \in [key : Nat, mem : Seq(A!Member)] /\ p \in Seq(A!Member)
    BY <2>2, <2>3, <2>4, <2>5
  <2> QED
    BY <1>0, <1>2, <1>3, <2>6, SameSets DEF Shape, Slot, A!Thread, B!Thread, A!Member
<1>7. Tidy' /\ LeftAlone'
  <2>1. \A s \in Slot \ {t} : group'[s] = group[s]
    BY <1>0, <1>2 DEF Shape
  <2>2. group'[t] = g
    BY <1>0, <1>2 DEF Shape, Slot
  <2> QED
    BY <1>0, <1>1, <1>2, <1>4, <2>1, <2>2
       DEF Tidy, LeftAlone, AtRest, Slot, A!Thread, B!Thread, A!NoGroup
<1>8. PB!DataInv'
  <2>1. SeenB' = SeenB
    BY <1>1 DEF SeenB, Seen, B!Thread, A!NoGroup
  <2>2. partials' \in [Slot -> Seq(B!Member)]
    BY <1>6, SameSets DEF Shape, Slot, A!Thread, B!Thread, A!Member
  <2> QED
    BY <1>0, <1>1, <1>4, <2>1, <2>2, OthersB
<1> QED
  BY <1>4, <1>5, <1>6, <1>7, <1>8 DEF SharedInv, Turns

LEMMA ReleaseInvA ==
    ASSUME InTurns, SharedInv, A!Release, UNCHANGED varsB
    PROVE  SharedInv'
<1>0. Shape /\ Turns /\ Tidy /\ LeftAlone /\ PA!DataInv /\ PB!DataInv
  BY DEF SharedInv
<1>1. UNCHANGED <<noFuse, enabled, group, partials>>
  BY DEF A!Release
<1>2. ~A!AllDone
  <2>1. pcA[0] \in A!BarrierSites
    BY SameSets DEF A!Release, A!Waiting
  <2> QED
    BY <2>1, SameSets DEF A!AllDone, A!BarrierSites
<1>3. B!AllDone /\ B!AllDone'
  BY <1>0, <1>2 DEF Turns, B!AllDone, varsB
<1>4. PA!DataInv'
  <2>1. PA!Next
    BY <1>0, <1>3, ReleaseA DEF PA!Next
  <2> QED
    BY <1>0, <2>1, OwnInvA
<1>5. ASSUME A!AllDone', NEW s \in A!Thread PROVE group[s] = A!NoGroup
  <2>1. PA!PendingInside' /\ pcA'[s] = "done"
    BY <1>4, <1>5 DEF PA!DataInv, PA!Pool, A!AllDone
  <2>2. SeenA'[s].mem = <<>>
    BY <2>1, SameSets DEF PA!PendingInside, PA!Active
  <2>3. SeenA'[s] = group[s]
    BY <1>1, <1>3 DEF SeenA, Seen
  <2> QED
    BY <1>0, <2>2, <2>3 DEF Tidy, Slot
<1>6. Shape' /\ Tidy'
  BY <1>0, <1>1 DEF Shape, Tidy, Slot, A!Thread, B!Thread, A!Member, A!NoGroup
<1>7. LeftAlone'
  <2> SUFFICES ASSUME NEW s \in Slot, AtRest(s)' PROVE group[s] = A!NoGroup
    BY <1>1 DEF LeftAlone, Slot, A!Thread, B!Thread, A!NoGroup
  <2>1. CASE s \in A!Thread
    <3>1. A!AllDone'
      BY <2>1 DEF AtRest, A!Thread
    <3> QED
      BY <1>5, <2>1, <3>1
  <2>2. CASE s \notin A!Thread
    BY <1>0, <1>3, <2>2 DEF LeftAlone, AtRest
  <2> QED
    BY <2>1, <2>2
<1>8. PB!DataInv'
  <2>1. SeenB' = SeenB
    <3>1. CASE A!AllDone'
      <4>1. \A s \in B!Thread : group[s] = A!NoGroup
        BY <1>0, <1>3, <1>5, <3>1 DEF LeftAlone, AtRest, Slot
      <4> QED
        BY <1>1, <1>2, <3>1, <4>1 DEF SeenB, Seen, B!Thread, A!NoGroup
    <3>2. CASE ~A!AllDone'
      BY <1>2, <3>2 DEF SeenB, Seen, B!Thread, A!NoGroup
    <3> QED
      BY <3>1, <3>2
  <2>2. partials' \in [Slot -> Seq(B!Member)]
    BY <1>0, <1>1, SameSets DEF Shape
  <2> QED
    BY <1>0, <1>1, <1>3, <2>1, <2>2, OthersB
<1> QED
  BY <1>3, <1>4, <1>6, <1>7, <1>8 DEF SharedInv, Turns

LEMMA StartInvA ==
    ASSUME InTurns, SharedInv, DecodeA
    PROVE  SharedInv'
<1>0. Shape /\ Turns /\ Tidy /\ LeftAlone /\ PA!DataInv /\ PB!DataInv
  BY DEF SharedInv
<1>1. /\ A!StartGraph /\ A!AllDone /\ B!AllDone /\ UNCHANGED varsB
      /\ UNCHANGED <<noFuse, enabled, group, partials>>
  BY DEF DecodeA, A!StartGraph, InTurns
<1>2. ~A!AllDone' /\ B!AllDone'
  <2>1. pcA'[0] = "loop"
    BY <1>1, SameSets DEF A!StartGraph
  <2> QED
    BY <1>1, <2>1, SameSets DEF A!AllDone, B!AllDone, varsB, A!Thread
<1>3. PA!DataInv'
  <2>1. PA!Next
    BY <1>1, <1>2, StartA DEF PA!Next
  <2> QED
    BY <1>0, <2>1, OwnInvA
<1>4. \A s \in Slot : group[s] = A!NoGroup
  BY <1>0, <1>1 DEF LeftAlone, AtRest
<1>5. Shape' /\ Tidy' /\ LeftAlone'
  BY <1>0, <1>1, <1>4
     DEF Shape, Tidy, LeftAlone, Slot, A!Thread, B!Thread, A!Member, A!NoGroup
<1>6. PB!DataInv'
  <2>1. SeenB' = SeenB
    BY <1>1, <1>2, <1>4 DEF SeenB, Seen, Slot, B!Thread, A!NoGroup
  <2>2. partials' \in [Slot -> Seq(B!Member)]
    BY <1>0, <1>1, SameSets DEF Shape
  <2> QED
    BY <1>0, <1>1, <1>2, <2>1, <2>2, OthersB
<1> QED
  BY <1>2, <1>3, <1>5, <1>6 DEF SharedInv, Turns

LEMMA StepInvB ==
    ASSUME InTurns, SharedInv, NEW t \in B!Thread, B!Step(t), UNCHANGED varsA
    PROVE  SharedInv'
<1>0. Shape /\ Turns /\ Tidy /\ LeftAlone /\ PB!DataInv /\ PA!DataInv /\ PB!TypeOK
  BY DEF SharedInv, PB!DataInv, PB!Pool
<1>1. ~B!AllDone /\ ~B!AllDone' /\ UNCHANGED <<noFuse, enabled>>
  BY <1>0, SlotB
<1>2. PICK g : /\ group' = [group EXCEPT ![t] = g]
               /\ g = group[t] \/ g = A!NoGroup \/ g.mem # <<>>
  BY <1>0, SlotB
<1>3. PICK p : partials' = [partials EXCEPT ![t] = p]
  BY <1>0, SlotB
<1>4. A!AllDone /\ A!AllDone'
  BY <1>0, <1>1 DEF Turns, A!AllDone, varsA
<1>5. PB!DataInv'
  <2>1. PB!Next
    BY <1>0, <1>4, StepB, SameSets DEF PB!Next
  <2> QED
    BY <1>0, <2>1, OwnInvB
<1>6. Shape'
  <2>1. PB!TypeOK'
    BY <1>5 DEF PB!DataInv, PB!Pool
  <2>2. SeenB' \in [B!Thread -> [key : Nat, mem : Seq(B!Member)]]
    BY <2>1, SameSets DEF PB!TypeOK
  <2>3. SeenB'[t] = g
    BY <1>0, <1>2, <1>4 DEF SeenB, Seen, Shape, Slot
  <2>4. RowsB' \in [B!Thread -> Seq(B!Member)]
    BY <2>1, SameSets DEF PB!TypeOK
  <2>5. RowsB'[t] = p
    BY <1>0, <1>3 DEF RowsB, Shape, Slot
  <2>6. g \in [key : Nat, mem : Seq(B!Member)] /\ p \in Seq(B!Member)
    BY <2>2, <2>3, <2>4, <2>5
  <2> QED
    BY <1>0, <1>2, <1>3, <2>6, SameSets DEF Shape, Slot, B!Thread, A!Thread, B!Member
<1>7. Tidy' /\ LeftAlone'
  <2>1. \A s \in Slot \ {t} : group'[s] = group[s]
    BY <1>0, <1>2 DEF Shape
  <2>2. group'[t] = g
    BY <1>0, <1>2 DEF Shape, Slot
  <2> QED
    BY <1>0, <1>1, <1>2, <1>4, <2>1, <2>2
       DEF Tidy, LeftAlone, AtRest, Slot, B!Thread, A!Thread, A!NoGroup
<1>8. PA!DataInv'
  <2>1. SeenA' = SeenA
    BY <1>1 DEF SeenA, Seen, A!Thread, A!NoGroup
  <2>2. partials' \in [Slot -> Seq(A!Member)]
    BY <1>6, SameSets DEF Shape, Slot, B!Thread, A!Thread, B!Member
  <2> QED
    BY <1>0, <1>1, <1>4, <2>1, <2>2, OthersA
<1> QED
  BY <1>4, <1>5, <1>6, <1>7, <1>8 DEF SharedInv, Turns

LEMMA ReleaseInvB ==
    ASSUME InTurns, SharedInv, B!Release, UNCHANGED varsA
    PROVE  SharedInv'
<1>0. Shape /\ Turns /\ Tidy /\ LeftAlone /\ PB!DataInv /\ PA!DataInv
  BY DEF SharedInv
<1>1. UNCHANGED <<noFuse, enabled, group, partials>>
  BY DEF B!Release
<1>2. ~B!AllDone
  <2>1. pcB[0] \in B!BarrierSites
    BY SameSets DEF B!Release, B!Waiting
  <2> QED
    BY <2>1, SameSets DEF B!AllDone, B!BarrierSites
<1>3. A!AllDone /\ A!AllDone'
  BY <1>0, <1>2 DEF Turns, A!AllDone, varsA
<1>4. PB!DataInv'
  <2>1. PB!Next
    BY <1>0, <1>3, ReleaseB DEF PB!Next
  <2> QED
    BY <1>0, <2>1, OwnInvB
<1>5. ASSUME B!AllDone', NEW s \in B!Thread PROVE group[s] = A!NoGroup
  <2>1. PB!PendingInside' /\ pcB'[s] = "done"
    BY <1>4, <1>5 DEF PB!DataInv, PB!Pool, B!AllDone
  <2>2. SeenB'[s].mem = <<>>
    BY <2>1, SameSets DEF PB!PendingInside, PB!Active
  <2>3. SeenB'[s] = group[s]
    BY <1>1, <1>3 DEF SeenB, Seen
  <2> QED
    BY <1>0, <2>2, <2>3 DEF Tidy, Slot
<1>6. Shape' /\ Tidy'
  BY <1>0, <1>1 DEF Shape, Tidy, Slot, B!Thread, A!Thread, B!Member, A!NoGroup
<1>7. LeftAlone'
  <2> SUFFICES ASSUME NEW s \in Slot, AtRest(s)' PROVE group[s] = A!NoGroup
    BY <1>1 DEF LeftAlone, Slot, B!Thread, A!Thread, A!NoGroup
  <2>1. CASE s \in B!Thread
    <3>1. B!AllDone'
      BY <2>1 DEF AtRest, B!Thread
    <3> QED
      BY <1>5, <2>1, <3>1
  <2>2. CASE s \notin B!Thread
    BY <1>0, <1>3, <2>2 DEF LeftAlone, AtRest
  <2> QED
    BY <2>1, <2>2
<1>8. PA!DataInv'
  <2>1. SeenA' = SeenA
    <3>1. CASE B!AllDone'
      <4>1. \A s \in A!Thread : group[s] = A!NoGroup
        BY <1>0, <1>3, <1>5, <3>1 DEF LeftAlone, AtRest, Slot
      <4> QED
        BY <1>1, <1>2, <3>1, <4>1 DEF SeenA, Seen, A!Thread, A!NoGroup
    <3>2. CASE ~B!AllDone'
      BY <1>2, <3>2 DEF SeenA, Seen, A!Thread, A!NoGroup
    <3> QED
      BY <3>1, <3>2
  <2>2. partials' \in [Slot -> Seq(A!Member)]
    BY <1>0, <1>1, SameSets DEF Shape
  <2> QED
    BY <1>0, <1>1, <1>3, <2>1, <2>2, OthersA
<1> QED
  BY <1>3, <1>4, <1>6, <1>7, <1>8 DEF SharedInv, Turns

LEMMA StartInvB ==
    ASSUME InTurns, SharedInv, DecodeB
    PROVE  SharedInv'
<1>0. Shape /\ Turns /\ Tidy /\ LeftAlone /\ PB!DataInv /\ PA!DataInv
  BY DEF SharedInv
<1>1. /\ B!StartGraph /\ B!AllDone /\ A!AllDone /\ UNCHANGED varsA
      /\ UNCHANGED <<noFuse, enabled, group, partials>>
  BY DEF DecodeB, B!StartGraph, InTurns
<1>2. ~B!AllDone' /\ A!AllDone'
  <2>1. pcB'[0] = "loop"
    BY <1>1, SameSets DEF B!StartGraph
  <2> QED
    BY <1>1, <2>1, SameSets DEF B!AllDone, A!AllDone, varsA, B!Thread
<1>3. PB!DataInv'
  <2>1. PB!Next
    BY <1>1, <1>2, StartB DEF PB!Next
  <2> QED
    BY <1>0, <2>1, OwnInvB
<1>4. \A s \in Slot : group[s] = A!NoGroup
  BY <1>0, <1>1 DEF LeftAlone, AtRest
<1>5. Shape' /\ Tidy' /\ LeftAlone'
  BY <1>0, <1>1, <1>4
     DEF Shape, Tidy, LeftAlone, Slot, B!Thread, A!Thread, B!Member, A!NoGroup
<1>6. PA!DataInv'
  <2>1. SeenA' = SeenA
    BY <1>1, <1>2, <1>4 DEF SeenA, Seen, Slot, A!Thread, A!NoGroup
  <2>2. partials' \in [Slot -> Seq(A!Member)]
    BY <1>0, <1>1, SameSets DEF Shape
  <2> QED
    BY <1>0, <1>1, <1>2, <2>1, <2>2, OthersA
<1> QED
  BY <1>2, <1>3, <1>5, <1>6 DEF SharedInv, Turns

-----------------------------------------------------------------------------
LEMMA InitShared == Init => SharedInv
<1> SUFFICES ASSUME Init PROVE SharedInv
  OBVIOUS
<1>1. A!AllDone /\ B!AllDone
  BY DEF Init, A!AllDone, B!AllDone
<1>2. Shape /\ Tidy /\ LeftAlone
  <2>1. <<>> \in Seq(A!Member) /\ A!NoGroup \in [key : Nat, mem : Seq(A!Member)]
    BY DEF A!NoGroup
  <2> QED
    BY <2>1 DEF Init, Shape, Tidy, LeftAlone
<1>3. PA!DataInv
  <2>1. /\ SeenA = [t \in PA!Thread |-> PA!NoGroup]
        /\ RowsA = [t \in PA!Thread |-> <<>>]
    BY <1>1, SameSets DEF Init, SeenA, Seen, RowsA, Slot, A!NoGroup, PA!NoGroup
  <2>2. outA = UNION {PA!Cells(n) : n \in PA!Nodes}
    BY DEF Init, A!Cells, PA!Cells, A!Nodes, PA!Nodes
  <2> QED
    BY <2>1, <2>2, SameSets, Assumptions, PA!Rests
       DEF Init, PA!PoolAssumption, PA!GraphsAssumption
<1>4. PB!DataInv
  <2>1. /\ SeenB = [t \in PB!Thread |-> PB!NoGroup]
        /\ RowsB = [t \in PB!Thread |-> <<>>]
    BY <1>1, SameSets DEF Init, SeenB, Seen, RowsB, Slot, A!NoGroup, PB!NoGroup
  <2>2. outB = UNION {PB!Cells(n) : n \in PB!Nodes}
    BY DEF Init, B!Cells, PB!Cells, B!Nodes, PB!Nodes
  <2> QED
    BY <2>1, <2>2, SameSets, Assumptions, PB!Rests
       DEF Init, PB!PoolAssumption, PB!GraphsAssumption
<1> QED
  BY <1>1, <1>2, <1>3, <1>4 DEF SharedInv, Turns

LEMMA NextShared ==
    ASSUME InTurns, SharedInv, [Next]_vars
    PROVE  SharedInv'
<1>1. CASE DecodeA \/ DecodeB
  BY <1>1, StartInvA, StartInvB
<1>2. CASE ComputeA
  BY <1>2, StepInvA, ReleaseInvA DEF ComputeA
<1>3. CASE ComputeB
  BY <1>3, StepInvB, ReleaseInvB DEF ComputeB
<1>4. CASE UNCHANGED vars
  <2>1. Shape' /\ Turns' /\ Tidy' /\ LeftAlone'
    BY <1>4 DEF SharedInv, Shape, Turns, Tidy, LeftAlone, AtRest, Slot, A!Thread, B!Thread,
       A!Member, A!NoGroup, A!AllDone, B!AllDone, vars, varsA, varsB
  <2>2. UNCHANGED PA!vars /\ UNCHANGED PB!vars
    BY <1>4 DEF vars, varsA, varsB, PA!vars, PB!vars, PA!locals, PB!locals, SeenA, SeenB, Seen,
       RowsA, RowsB, A!Thread, B!Thread, A!NoGroup, A!AllDone, B!AllDone
  <2>3. PA!DataInv'
    BY <2>2, Assumptions, PA!DataInvariant
       DEF SharedInv, InTurns, PA!PoolAssumption, PA!GraphsAssumption, PA!AllSlots, PA!AllTaken
  <2>4. PB!DataInv'
    BY <2>2, Assumptions, PB!DataInvariant
       DEF SharedInv, InTurns, PB!PoolAssumption, PB!GraphsAssumption, PB!AllSlots, PB!AllTaken
  <2> QED
    BY <2>1, <2>3, <2>4 DEF SharedInv
<1> QED
  BY <1>1, <1>2, <1>3, <1>4 DEF Next

(* What the invariant says of a pool. *)
LEMMA MeansA ==
    ASSUME InTurns, SharedInv
    PROVE  A!BarrierLockstep /\ A!ReadsReady /\ A!AllComputed
<1>1. PA!BarrierLockstep /\ PA!ReadsReady /\ PA!AllComputed
  BY Assumptions, PA!DataInvMeans
     DEF SharedInv, InTurns, PA!PoolAssumption, PA!GraphsAssumption, PA!AllTaken
<1>2. ASSUME NEW t \in A!Thread, pcA[t] # "done" PROVE B!AllDone
  BY <1>2 DEF SharedInv, Turns, A!AllDone
<1>3. A!BarrierLockstep
  <2> SUFFICES ASSUME A!Waiting = A!Thread, NEW t \in A!Thread, NEW u \in A!Thread
               PROVE  /\ pcA[t] = pcA[u] /\ node_nA[t] = node_nA[u] /\ group[t] = group[u]
                      /\ pcA[t] = "bPhase1" =>
                            flushingA[t] = flushingA[u] /\ syncA[t] = syncA[u]
    BY DEF A!BarrierLockstep
  <2>1. pcA[t] # "done"
    BY DEF A!Waiting, A!BarrierSites
  <2>2. SeenA[t] = group[t] /\ SeenA[u] = group[u]
    BY <1>2, <2>1, GuardsA
  <2>3. PA!Waiting = PA!Thread
    BY SameSets DEF PA!Waiting, A!Waiting, PA!BarrierSites, A!BarrierSites
  <2> QED
    BY <1>1, <2>2, <2>3, SameSets DEF PA!BarrierLockstep
<1>4. A!ReadsReady
  <2> SUFFICES ASSUME NEW t \in A!Thread, pcA[t] = "compute", ~A!FlushesFirst(t)
               PROVE  \A s \in A!Node(t).srcs : A!Cells(s) \subseteq outA
    BY DEF A!ReadsReady
  <2>1. ~PA!FlushesFirst(t) /\ PA!Node(t) = A!Node(t)
    BY <1>2, GuardsA
  <2> QED
    BY <1>1, <2>1, SameSets DEF PA!ReadsReady, PA!Cells, A!Cells
<1>5. A!AllComputed
  BY <1>1, SameSets DEF PA!AllComputed, A!AllComputed, PA!Nodes, A!Nodes, PA!Cells, A!Cells
<1> QED
  BY <1>3, <1>4, <1>5

LEMMA MeansB ==
    ASSUME InTurns, SharedInv
    PROVE  B!BarrierLockstep /\ B!ReadsReady /\ B!AllComputed
<1>1. PB!BarrierLockstep /\ PB!ReadsReady /\ PB!AllComputed
  BY Assumptions, PB!DataInvMeans
     DEF SharedInv, InTurns, PB!PoolAssumption, PB!GraphsAssumption, PB!AllTaken
<1>2. ASSUME NEW t \in B!Thread, pcB[t] # "done" PROVE A!AllDone
  BY <1>2 DEF SharedInv, Turns, B!AllDone
<1>3. B!BarrierLockstep
  <2> SUFFICES ASSUME B!Waiting = B!Thread, NEW t \in B!Thread, NEW u \in B!Thread
               PROVE  /\ pcB[t] = pcB[u] /\ node_nB[t] = node_nB[u] /\ group[t] = group[u]
                      /\ pcB[t] = "bPhase1" =>
                            flushingB[t] = flushingB[u] /\ syncB[t] = syncB[u]
    BY DEF B!BarrierLockstep
  <2>1. pcB[t] # "done"
    BY DEF B!Waiting, B!BarrierSites
  <2>2. SeenB[t] = group[t] /\ SeenB[u] = group[u]
    BY <1>2, <2>1, GuardsB
  <2>3. PB!Waiting = PB!Thread
    BY SameSets DEF PB!Waiting, B!Waiting, PB!BarrierSites, B!BarrierSites
  <2> QED
    BY <1>1, <2>2, <2>3, SameSets DEF PB!BarrierLockstep
<1>4. B!ReadsReady
  <2> SUFFICES ASSUME NEW t \in B!Thread, pcB[t] = "compute", ~B!FlushesFirst(t)
               PROVE  \A s \in B!Node(t).srcs : B!Cells(s) \subseteq outB
    BY DEF B!ReadsReady
  <2>1. ~PB!FlushesFirst(t) /\ PB!Node(t) = B!Node(t)
    BY <1>2, GuardsB
  <2> QED
    BY <1>1, <2>1, SameSets DEF PB!ReadsReady, PB!Cells, B!Cells
<1>5. B!AllComputed
  BY <1>1, SameSets DEF PB!AllComputed, B!AllComputed, PB!Nodes, B!Nodes, PB!Cells, B!Cells
<1> QED
  BY <1>3, <1>4, <1>5

(* Contexts that take turns do not disturb each other through the groups   *)
(* and partial sums they share: each pool stays in lockstep and reads only *)
(* what is written.                                                        *)
THEOREM TurnsKeepApart == InTurns /\ Spec => []PoolsApart
<1>1. InTurns /\ SharedInv => PoolsApart
  BY MeansA, MeansB DEF PoolsApart
<1>2. InTurns /\ SharedInv /\ [Next]_vars => SharedInv'
  BY NextShared
<1>3. CASE InTurns
  <2>1. SharedInv /\ [Next]_vars => SharedInv'
    BY <1>2, <1>3
  <2>2. SharedInv => PoolsApart
    BY <1>1, <1>3
  <2>3. Spec => []PoolsApart
    BY <2>1, <2>2, InitShared, PTL DEF Spec
  <2> QED
    BY <2>3
<1>4. CASE ~InTurns
  BY <1>4
<1> QED
  BY <1>3, <1>4

(* And each computes its whole graph, whatever the other one left behind,  *)
(* also when it was aborted or has more threads.                           *)
THEOREM TurnsComputeAll == InTurns /\ Spec => []TurnsComplete
<1>1. InTurns /\ SharedInv => TurnsComplete
  BY MeansA, MeansB DEF TurnsComplete
<1>2. InTurns /\ SharedInv /\ [Next]_vars => SharedInv'
  BY NextShared
<1>3. CASE InTurns
  <2>1. SharedInv /\ [Next]_vars => SharedInv'
    BY <1>2, <1>3
  <2>2. SharedInv => TurnsComplete
    BY <1>1, <1>3
  <2>3. Spec => []TurnsComplete
    BY <2>1, <2>2, InitShared, PTL DEF Spec
  <2> QED
    BY <2>3
<1>4. CASE ~InTurns
  BY <1>4
<1> QED
  BY <1>3, <1>4
=============================================================================
