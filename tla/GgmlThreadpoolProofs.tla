------------------------ MODULE GgmlThreadpoolProofs ------------------------
(***************************************************************************)
(* The safety properties of the thread pool, for any number of threads,    *)
(* rounds of polling and graphs.                                           *)
(*                                                                         *)
(* The argument: between Kickoff and the end of the barrier (the graph is  *)
(* open) a thread is in the graph only if it takes part in it and has      *)
(* remembered it; the barrier opens when as many are in it as the graph    *)
(* has threads, and as only those may be, all of them are: so all have     *)
(* left together, each has computed the graph, and each worker that took   *)
(* part remembers its number and will not enter it again.                  *)
(*                                                                         *)
(* GgmlThreadpool takes the pool's barrier to keep BarrierSpec.  The last  *)
(* part is about the spin barrier that does, for every pool and every      *)
(* width of its counter of at least two: types, the inductive invariant,   *)
(* and that it implements BarrierSpec (its safety part).                   *)
(***************************************************************************)
EXTENDS GgmlThreadpool, FiniteSetTheorems, TLAPS

graph == n_graph.graph
threads == n_graph.threads

(* Is no graph open? *)
Closed == pc[0] \in {"idle", "kickoff", "unpause", "join", "freed"}

(* Numbers only grow: nothing is ahead of the graph that was announced,    *)
(* which is the one the parameters are set for, but for the one that is    *)
(* about to be announced.                                                  *)
Numbered ==
    /\ params = IF pc[0] = "kickoff" THEN graph + 1 ELSE graph
    /\ \A t \in Worker : last_graph[t].graph <= graph
    /\ \A t \in Thread : cgraph[t] <= graph

(* Only the threads of a graph are in it, ... *)
Inside ==
    /\ \A t \in Thread : InGraph(t) => t < threads
    /\ \A t \in Worker : InGraph(t) => last_graph[t] = n_graph
    /\ \A t \in Worker : pending[t] <=> pc[t] = "run"
    /\ \A t \in Thread : t \in arrived <=> pc[t] = "barrier"

(* ... and only they have computed it. *)
Computed ==
    /\ \A t \in Thread : pc[t] \in {"arrive", "barrier"} => cgraph[t] = graph
    /\ \A t \in Thread : graph > 0 /\ cgraph[t] = graph => t < threads

(* When it is closed nobody is in it, and all of its threads were. *)
Done ==
    /\ Closed =>
        /\ arrived = {}
        /\ \A t \in Worker : ~InGraph(t)
        /\ \A t \in Worker : t < threads => last_graph[t] = n_graph
        /\ graph > 0 => \A t \in Thread : t < threads => cgraph[t] = graph
    /\ ~Closed => graph > 0 /\ threads > 0

PoolInv == TypeOK /\ Numbered /\ Inside /\ Computed /\ Done

-----------------------------------------------------------------------------
(* Types.                                                                  *)

LEMMA Threads == /\ Thread \subseteq Nat /\ Worker \subseteq Thread /\ 0 \in Thread
                 /\ 0 \notin Worker /\ \A t \in Thread : t # 0 => t \in Worker
BY NThreadsAssumption DEF Thread, Worker

LEMMA InitOK == Init => PoolInv
<1> SUFFICES ASSUME Init PROVE PoolInv
  OBVIOUS
<1> USE NThreadsAssumption, BoundsAssumption DEF Init
<1>1. TypeOK
  <2>1. /\ pc \in [Thread -> {"idle", "top"}] /\ pc[0] = "idle"
    BY Threads
  <2>2. n_graph \in Words /\ last_graph \in [Worker -> Words]
    BY DEF Words
  <2>3. arrived \subseteq Thread /\ {stop, pause, mutex} \subseteq BOOLEAN
    OBVIOUS
  <2>4. params \in 0 .. MaxGraphs /\ pending \in [Worker -> BOOLEAN]
        /\ rounds \in [Worker -> 0 .. PollRounds] /\ cgraph \in [Thread -> 0 .. MaxGraphs]
    OBVIOUS
  <2> QED
    BY <2>1, <2>2, <2>3, <2>4 DEF TypeOK
<1>2. Numbered /\ Inside /\ Computed /\ Done
  BY Threads DEF Numbered, Inside, Computed, Done, Closed, InGraph, graph, threads
<1> QED
  BY <1>1, <1>2 DEF PoolInv

(* What TypeOK says of the variables one by one.                           *)
LEMMA Typed ==
    ASSUME TypeOK
    PROVE  /\ graph \in 0 .. MaxGraphs /\ threads \in 0 .. NThreads /\ params \in 0 .. MaxGraphs
           /\ graph \in Nat /\ threads \in Nat
           /\ \A t \in Worker : last_graph[t] \in Words /\ last_graph[t].graph \in Nat
           /\ \A t \in Thread : cgraph[t] \in Nat
BY BoundsAssumption, NThreadsAssumption DEF TypeOK, Words, graph, threads

-----------------------------------------------------------------------------
(* Steps that touch nothing but where threads outside the graph are.       *)

Same == UNCHANGED <<n_graph, params, pending, last_graph, cgraph, arrived>>

(* A worker outside the graph goes elsewhere outside of it. *)
LEMMA Walk ==
    ASSUME PoolInv, Same, NEW t \in Worker, NEW p,
           ~InGraph(t), p \notin {"run", "arrive", "barrier"}, GoTo(t, p)
    PROVE  Numbered' /\ Inside' /\ Computed' /\ Done'
<1> USE Threads DEF PoolInv, Same, GoTo
<1>1. pc' \in [Thread -> {pc[u] : u \in Thread} \union {p}] /\ pc'[t] = p
      /\ \A u \in Thread : u # t => pc'[u] = pc[u]
  BY DEF TypeOK
<1>2. \A u \in Thread : InGraph(u)' <=> InGraph(u)
  BY <1>1 DEF InGraph
<1>3. pc'[0] = pc[0]
  BY <1>1
<1>4. Numbered' /\ Done'
  BY <1>2, <1>3 DEF Numbered, Done, Closed, graph, threads
<1>5. Inside'
  BY <1>1, <1>2 DEF Inside, InGraph, threads
<1>6. Computed'
  BY <1>1 DEF Computed, graph, threads
<1> QED
  BY <1>4, <1>5, <1>6

(* The main thread goes on and wakes the workers. *)
LEMMA Wake ==
    ASSUME PoolInv, Same, NEW p, MainGoesAndWakes(p), ~InGraph(0), pc[0] # "kickoff",
           \/ Closed /\ p \in {"idle", "join"}
           \/ ~Closed /\ p = "run"
    PROVE  Numbered' /\ Inside' /\ Computed' /\ Done'
<1> USE Threads DEF PoolInv, Same, MainGoesAndWakes
<1>1. pc'[0] = p /\ \A u \in Worker : pc'[u] = Awake(pc[u])
  OBVIOUS
<1>2. \A u \in Worker : /\ InGraph(u)' <=> InGraph(u)
                        /\ pc'[u] = "run" <=> pc[u] = "run"
                        /\ pc'[u] = "barrier" <=> pc[u] = "barrier"
                        /\ pc'[u] \in {"arrive", "barrier"} <=> pc[u] \in {"arrive", "barrier"}
  BY <1>1 DEF InGraph, Awake
<1>3. Closed' <=> Closed
  BY <1>1 DEF Closed
<1>4. Numbered' /\ Done'
  BY <1>1, <1>2, <1>3 DEF Numbered, Done, graph, threads
<1>5. Inside'
  <2>1. \A u \in Thread : InGraph(u)' => u < threads
    BY <1>1, <1>2, Typed DEF Inside, InGraph, Done, Closed, threads
  <2> QED
    BY <1>1, <1>2, <2>1 DEF Inside, InGraph, threads
<1>6. Computed'
  BY <1>1, <1>2 DEF Computed, graph, threads
<1> QED
  BY <1>4, <1>5, <1>6

-----------------------------------------------------------------------------
(* Types, step by step.                                                    *)

LEMMA AwakePlaces == \A p : Awake(p) \in {p, "top", "lock"}
BY DEF Awake

LEMMA TypeStep == PoolInv /\ [Next]_vars => TypeOK'
<1> SUFFICES ASSUME PoolInv, [Next]_vars PROVE TypeOK'
  OBVIOUS
<1> USE NThreadsAssumption, BoundsAssumption, Threads DEF PoolInv
<1> DEFINE Places == {"idle", "kickoff", "signal", "unpause", "join", "freed",
                      "run", "arrive", "barrier", "top", "pauseLock", "pauseWait",
                      "stop", "poll", "pollGraph", "lock", "workWait", "exited"}
           MainPlaces == {"idle", "kickoff", "signal", "run", "arrive", "barrier",
                          "unpause", "join", "freed"}
<1>1. TypeOK
  OBVIOUS
<1>2. ASSUME NEW t \in Thread, NEW p \in Places, GoTo(t, p), t = 0 => p \in MainPlaces
      PROVE  pc' \in [Thread -> Places] /\ pc'[0] \in MainPlaces
  BY <1>1, <1>2 DEF TypeOK, GoTo
<1>3. ASSUME NEW p \in MainPlaces, MainGoesAndWakes(p)
      PROVE  pc' \in [Thread -> Places] /\ pc'[0] \in MainPlaces
  <2>1. \A u \in Thread : Awake(pc[u]) \in Places
    BY <1>1, AwakePlaces DEF TypeOK
  <2> QED
    BY <1>3, <2>1 DEF MainGoesAndWakes
<1>4. CASE StartGraph
  <2>1. pc' \in [Thread -> Places] /\ pc'[0] \in MainPlaces
    BY <1>4, <1>2 DEF StartGraph
  <2> QED
    BY <1>1, <1>4, <2>1 DEF TypeOK, StartGraph, locals
<1>5. CASE Kickoff
  <2>1. pc' \in [Thread -> Places] /\ pc'[0] \in MainPlaces
    BY <1>5, <1>2 DEF Kickoff
  <2>2. n_graph' \in Words
    BY <1>1, <1>5, Typed DEF Kickoff, Clamped, Words, Numbered, graph
  <2> QED
    BY <1>1, <1>5, <2>1, <2>2 DEF TypeOK, Kickoff, locals
<1>6. CASE Signal \/ Pause \/ Resume
  <2>1. pc' \in [Thread -> Places] /\ pc'[0] \in MainPlaces
    BY <1>6, <1>3 DEF Signal, Pause, Resume
  <2> QED
    BY <1>1, <1>6, <2>1 DEF TypeOK, Signal, Pause, Resume, locals
<1>7. CASE Stop
  <2>1. pc' \in [Thread -> Places] /\ pc'[0] \in MainPlaces
    BY <1>7, <1>2 DEF Stop
  <2> QED
    BY <1>1, <1>7, <2>1 DEF TypeOK, Stop, locals
<1>8. CASE Unpause \/ Join
  <2>1. pc' \in [Thread -> Places] /\ pc'[0] \in MainPlaces
    BY <1>8, <1>2, <1>3 DEF Unpause, Join
  <2> QED
    BY <1>1, <1>8, <2>1 DEF TypeOK, Unpause, Join, locals, switches
<1>9. CASE Freed \/ UNCHANGED vars
  BY <1>1, <1>9 DEF TypeOK, Freed, vars
<1>10. ASSUME NEW t \in Thread, Run(t) PROVE TypeOK'
  <2>1. pc' \in [Thread -> Places] /\ pc'[0] \in MainPlaces
    BY <1>10, <1>2 DEF Run
  <2>2. pending' \in [Worker -> BOOLEAN] /\ cgraph' \in [Thread -> 0 .. MaxGraphs]
    BY <1>1, <1>10 DEF TypeOK, Run, switches
  <2> QED
    BY <1>1, <1>10, <2>1, <2>2 DEF TypeOK, Run, switches
<1>11. ASSUME NEW t \in Thread, Arrive(t) PROVE TypeOK'
  <2>1. pc' \in [Thread -> Places] /\ pc'[0] \in MainPlaces
    <3>1. CASE GoTo(t, "barrier")
      BY <1>2, <3>1
    <3>2. CASE ~GoTo(t, "barrier")
      BY <1>1, <1>11, <3>2 DEF Arrive, Out, TypeOK
    <3> QED
      BY <3>1, <3>2
  <2>2. arrived' \subseteq Thread
    BY <1>1, <1>11 DEF TypeOK, Arrive
  <2> QED
    BY <1>1, <1>11, <2>1, <2>2 DEF TypeOK, Arrive, switches, locals
<1>12. ASSUME NEW t \in Worker, Top(t) \/ PauseLock(t) \/ CheckStop(t) \/ Poll(t) \/ SpuriousWakeup(t)
       PROVE  TypeOK'
  <2>1. pc' \in [Thread -> Places] /\ pc'[0] \in MainPlaces
    BY <1>2, <1>12, AwakePlaces DEF Top, PauseLock, CheckStop, Poll, SpuriousWakeup, Asleep
  <2>2. rounds' \in [Worker -> 0 .. PollRounds]
    BY <1>1, <1>12 DEF TypeOK, Top, PauseLock, CheckStop, Poll, SpuriousWakeup, locals
  <2> QED
    BY <1>1, <1>12, <2>1, <2>2
    DEF TypeOK, Top, PauseLock, CheckStop, Poll, SpuriousWakeup, switches, locals
<1>13. ASSUME NEW t \in Worker, PollGraph(t) \/ Lock(t) PROVE TypeOK'
  <2>1. pc' \in [Thread -> Places] /\ pc'[0] \in MainPlaces
    BY <1>2, <1>13 DEF PollGraph, Lock
  <2>2. rounds' \in [Worker -> 0 .. PollRounds]
    BY <1>1, <1>13 DEF TypeOK, PollGraph, Lock, locals
  <2>3. \/ UNCHANGED <<pending, last_graph>>
        \/ Look(t)
    BY <1>13 DEF PollGraph, Lock, locals
  <2>4. Look(t) => pending' \in [Worker -> BOOLEAN]
    BY <1>1 DEF TypeOK, Look, Participates
  <2>5. Look(t) => last_graph' \in [Worker -> Words]
    BY <1>1 DEF TypeOK, Look
  <2> QED
    BY <1>1, <1>13, <2>1, <2>2, <2>3, <2>4, <2>5 DEF TypeOK, PollGraph, Lock, switches
<1> QED
  BY <1>4, <1>5, <1>6, <1>7, <1>8, <1>9, <1>10, <1>11, <1>12, <1>13
  DEF Next, MainStep, MainChoice, Computing, WorkerStep

-----------------------------------------------------------------------------
(* The steps of the main thread.                                           *)

LEMMA MainWakes ==
    PoolInv /\ (Signal \/ Pause \/ Resume \/ Unpause)
        => Numbered' /\ Inside' /\ Computed' /\ Done'
<1> SUFFICES ASSUME PoolInv, Signal \/ Pause \/ Resume \/ Unpause
             PROVE  Numbered' /\ Inside' /\ Computed' /\ Done'
  OBVIOUS
<1>1. Same
  BY DEF Same, Signal, Pause, Resume, Unpause, locals
<1>2. CASE Signal
  BY <1>1, <1>2, Wake DEF Signal, Closed, InGraph
<1>3. CASE Pause \/ Resume
  BY <1>1, <1>3, Wake DEF Pause, Resume, Closed, InGraph
<1>4. CASE Unpause
  BY <1>1, <1>4, Wake DEF Unpause, Closed, InGraph
<1> QED
  BY <1>2, <1>3, <1>4

LEMMA MainAlone ==
    PoolInv /\ (StartGraph \/ Stop \/ Join \/ UNCHANGED vars)
        => Numbered' /\ Inside' /\ Computed' /\ Done'
<1> SUFFICES ASSUME PoolInv, StartGraph \/ Stop \/ Join \/ UNCHANGED vars
             PROVE  Numbered' /\ Inside' /\ Computed' /\ Done'
  OBVIOUS
<1> USE Threads DEF PoolInv
<1>1. /\ UNCHANGED <<n_graph, pending, last_graph, cgraph, arrived>>
      /\ \A u \in Worker : pc'[u] = pc[u]
  BY DEF StartGraph, Stop, Join, locals, switches, vars, GoTo, TypeOK
<1>2. /\ InGraph(0)' <=> InGraph(0)
      /\ pc'[0] \in {"arrive", "barrier"} <=> pc[0] \in {"arrive", "barrier"}
      /\ pc'[0] = "barrier" <=> pc[0] = "barrier"
      /\ Closed' <=> Closed
  BY DEF StartGraph, Stop, Join, vars, GoTo, TypeOK, InGraph, Closed
<1>3. params' = IF pc'[0] = "kickoff" THEN graph + 1 ELSE graph
  <2>1. CASE StartGraph
    BY <2>1 DEF StartGraph, GoTo, TypeOK, Numbered
  <2>2. CASE Stop \/ Join \/ UNCHANGED vars
    BY <2>2 DEF Stop, Join, vars, switches, GoTo, TypeOK, Numbered
  <2> QED
    BY <2>1, <2>2
<1>4. Numbered'
  BY <1>1, <1>3 DEF Numbered, graph
<1>5. \A u \in Thread : InGraph(u)' <=> InGraph(u)
  BY <1>1, <1>2 DEF InGraph
<1>6. Inside'
  <2>1. \A u \in Thread : pc'[u] = "barrier" <=> pc[u] = "barrier"
    BY <1>1, <1>2
  <2> QED
    BY <1>1, <1>5, <2>1 DEF Inside, threads
<1>7. Computed'
  <2>1. \A u \in Thread : pc'[u] \in {"arrive", "barrier"} <=> pc[u] \in {"arrive", "barrier"}
    BY <1>1, <1>2
  <2> QED
    BY <1>1, <2>1 DEF Computed, graph, threads
<1>8. Done'
  BY <1>1, <1>2, <1>5 DEF Done, graph, threads
<1> QED
  BY <1>4, <1>6, <1>7, <1>8

(* No thread has the number of the graph that is announced. *)
LEMMA KickoffStep ==
    PoolInv /\ Kickoff => Numbered' /\ Inside' /\ Computed' /\ Done'
<1> SUFFICES ASSUME PoolInv, Kickoff PROVE Numbered' /\ Inside' /\ Computed' /\ Done'
  OBVIOUS
<1> USE Threads, Typed DEF PoolInv
<1>1. /\ UNCHANGED <<params, pending, last_graph, cgraph, arrived>>
      /\ \A u \in Worker : pc'[u] = pc[u]
      /\ pc[0] = "kickoff" /\ pc'[0] = "signal"
  BY DEF Kickoff, locals, GoTo, TypeOK
<1>2. graph' = graph + 1 /\ threads' > 0
  BY NThreadsAssumption DEF Kickoff, Clamped, graph, threads
<1>3. Closed /\ ~Closed'
  BY <1>1 DEF Closed
<1>4. arrived = {} /\ \A u \in Thread : ~InGraph(u)
  BY <1>1, <1>3 DEF Done, InGraph
<1>5. \A u \in Thread : ~InGraph(u)'
  BY <1>1, <1>4 DEF InGraph
<1>6. Numbered'
  BY <1>1, <1>2 DEF Numbered
<1>7. Inside'
  BY <1>1, <1>4, <1>5 DEF Inside, InGraph
<1>8. Computed'
  <2>1. \A u \in Thread : cgraph'[u] # graph'
    BY <1>1, <1>2 DEF Numbered
  <2>2. \A u \in Thread : pc'[u] \notin {"arrive", "barrier"}
    BY <1>5 DEF InGraph
  <2> QED
    BY <2>1, <2>2 DEF Computed
<1>9. Done'
  BY <1>2, <1>3 DEF Done
<1> QED
  BY <1>6, <1>7, <1>8, <1>9

-----------------------------------------------------------------------------
(* Computing a graph.                                                      *)

LEMMA RunStep ==
    ASSUME PoolInv, NEW t \in Thread, Run(t)
    PROVE  Numbered' /\ Inside' /\ Computed' /\ Done'
<1> USE Threads, Typed DEF PoolInv
<1>1. /\ UNCHANGED <<n_graph, params, last_graph, arrived>>
      /\ pc[t] = "run" /\ pc'[t] = "arrive"
      /\ \A u \in Thread : u # t => pc'[u] = pc[u]
      /\ cgraph'[t] = params
      /\ \A u \in Thread : u # t => cgraph'[u] = cgraph[u]
  BY DEF Run, switches, GoTo, TypeOK
<1>2. \A u \in Thread : InGraph(u)' <=> InGraph(u)
  BY <1>1 DEF InGraph
<1>3. ~Closed /\ ~Closed'
  BY <1>1 DEF Closed, Done, InGraph
<1>4. pc[0] # "kickoff" /\ pc'[0] # "kickoff"
  BY <1>3 DEF Closed
<1>5. params = graph /\ t < threads
  BY <1>1, <1>4 DEF Numbered, Inside, InGraph
<1>6. Numbered'
  BY <1>1, <1>4, <1>5 DEF Numbered, graph
<1>7. Inside'
  <2>1. \A u \in Worker : pending'[u] <=> pc'[u] = "run"
    BY <1>1 DEF Run, Inside
  <2>2. \A u \in Thread : u \in arrived' <=> pc'[u] = "barrier"
    BY <1>1 DEF Inside
  <2> QED
    BY <1>1, <1>2, <2>1, <2>2 DEF Inside, threads
<1>8. Computed'
  BY <1>1, <1>5 DEF Computed, graph, threads
<1>9. Done'
  BY <1>1, <1>3 DEF Done, graph, threads
<1> QED
  BY <1>6, <1>7, <1>8, <1>9

LEMMA ArriveStep ==
    ASSUME PoolInv, NEW t \in Thread, Arrive(t),
           Cardinality(arrived \union {t}) # threads
    PROVE  Numbered' /\ Inside' /\ Computed' /\ Done'
<1> USE Threads, Typed DEF PoolInv
<1>1. /\ UNCHANGED <<n_graph, params, pending, last_graph, cgraph>>
      /\ arrived' = arrived \union {t}
      /\ pc[t] = "arrive" /\ pc'[t] = "barrier"
      /\ \A u \in Thread : u # t => pc'[u] = pc[u]
  BY DEF Arrive, switches, locals, GoTo, TypeOK, threads
<1>2. \A u \in Thread : InGraph(u)' <=> InGraph(u)
  BY <1>1 DEF InGraph
<1>3. ~Closed /\ ~Closed'
  BY <1>1 DEF Closed, Done, InGraph
<1>4. Numbered'
  BY <1>1, <1>3 DEF Numbered, Closed, graph
<1>5. Inside'
  <2>1. \A u \in Worker : pending'[u] <=> pc'[u] = "run"
    BY <1>1 DEF Inside
  <2>2. \A u \in Thread : u \in arrived' <=> pc'[u] = "barrier"
    BY <1>1 DEF Inside
  <2> QED
    BY <1>1, <1>2, <2>1, <2>2 DEF Inside, threads
<1>6. Computed'
  BY <1>1 DEF Computed, graph, threads
<1>7. Done'
  BY <1>1, <1>3 DEF Done, graph, threads
<1> QED
  BY <1>4, <1>5, <1>6, <1>7

(* As many threads as the graph has are its threads. *)
LEMMA AllArrived ==
    ASSUME PoolInv, NEW t \in Thread, pc[t] = "arrive",
           Cardinality(arrived \union {t}) = threads
    PROVE  arrived \union {t} = 0 .. threads - 1
<1> USE Threads, Typed DEF PoolInv
<1> DEFINE all == arrived \union {t}
<1>1. all \subseteq 0 .. threads - 1
  <2>1. arrived \subseteq Thread
    BY DEF TypeOK
  <2>2. \A u \in all : u \in Thread /\ u < threads
    BY <2>1 DEF Inside, InGraph
  <2> QED
    BY <2>2
<1>2. IsFiniteSet(0 .. threads - 1) /\ Cardinality(0 .. threads - 1) = threads
  <2>1. threads > 0
    BY DEF Inside, InGraph
  <2> QED
    <3>1. 0 \in Int /\ threads - 1 \in Int /\ threads = threads - 1 - 0 + 1 /\ 0 <= threads - 1
      BY <2>1
    <3>2. Cardinality(0 .. threads - 1) = threads - 1 - 0 + 1
      BY <3>1, FS_Interval
    <3> QED
      BY <3>1, <3>2, FS_Interval
<1> QED
  BY <1>1, <1>2, FS_Subset

LEMMA LastStep ==
    ASSUME PoolInv, NEW t \in Thread, Arrive(t),
           Cardinality(arrived \union {t}) = threads
    PROVE  Numbered' /\ Inside' /\ Computed' /\ Done'
<1> USE Threads, Typed DEF PoolInv
<1> DEFINE all == arrived \union {t}
<1>1. /\ UNCHANGED <<n_graph, params, pending, last_graph, cgraph>>
      /\ arrived' = {} /\ pc[t] = "arrive"
      /\ \A u \in Thread : pc'[u] = IF u \in all THEN Out(u) ELSE pc[u]
  BY DEF Arrive, switches, locals, threads
<1>2. all = 0 .. threads - 1
  BY <1>1, AllArrived
<1>3. t < threads
  BY <1>1 DEF Inside, InGraph
<1>4. \A u \in Thread : u \in all <=> u < threads
  BY <1>2 DEF Thread
<1>5. \A u \in Thread : u \in all => pc[u] \in {"arrive", "barrier"}
  BY <1>1 DEF Inside
<1>6. pc[0] \in {"arrive", "barrier"} /\ pc'[0] = "idle"
  BY <1>1, <1>3, <1>4, <1>5 DEF Out
<1>7. \A u \in Worker : ~InGraph(u)'
  BY <1>1, <1>4 DEF Inside, InGraph, Out
<1>8. Numbered'
  BY <1>1, <1>6 DEF Numbered, graph
<1>9. Inside'
  <2>1. \A u \in Worker : ~pending'[u]
    BY <1>1, <1>4, <1>5 DEF Inside, InGraph
  <2>2. \A u \in Thread : ~InGraph(u)'
    BY <1>6, <1>7 DEF InGraph
  <2> QED
    BY <1>1, <2>1, <2>2 DEF Inside, InGraph
<1>10. Computed'
  <2>1. \A u \in Thread : pc'[u] \notin {"arrive", "barrier"}
    BY <1>6, <1>7 DEF InGraph
  <2> QED
    BY <1>1, <2>1 DEF Computed, graph, threads
<1>11. Done'
  <2>1. \A u \in Thread : u < threads => cgraph[u] = graph
    BY <1>4, <1>5 DEF Computed
  <2>2. \A u \in Worker : u < threads => last_graph[u] = n_graph
    BY <1>4, <1>5 DEF Inside, InGraph
  <2>3. Closed'
    BY <1>6 DEF Closed
  <2> QED
    BY <1>1, <1>7, <2>1, <2>2, <2>3 DEF Done, graph, threads
<1> QED
  BY <1>8, <1>9, <1>10, <1>11

-----------------------------------------------------------------------------
(* A worker.                                                               *)

(* Looking at the graph that was announced, it enters it if it takes part; *)
(* then it had not been in it, so that the graph is open.                  *)
LEMMA LookStep ==
    ASSUME PoolInv, NEW t \in Worker, ~InGraph(t), n_graph # last_graph[t], Look(t),
           NEW p \in {"lock", "top"},
           IF Participates(t) THEN GoTo(t, "run") ELSE GoTo(t, p),
           UNCHANGED <<n_graph, params, cgraph, arrived>>
    PROVE  Numbered' /\ Inside' /\ Computed' /\ Done'
<1> USE Threads, Typed DEF PoolInv
<1>1. /\ pc'[t] = IF t < threads THEN "run" ELSE p
      /\ \A u \in Thread : u # t => pc'[u] = pc[u]
  BY DEF Participates, GoTo, TypeOK, threads
<1>2. /\ pending'[t] = (t < threads) /\ last_graph'[t] = n_graph
      /\ \A u \in Worker : u # t => pending'[u] = pending[u] /\ last_graph'[u] = last_graph[u]
  BY DEF Look, Participates, TypeOK, threads
<1>3. pc'[0] = pc[0] /\ (Closed' <=> Closed)
  BY <1>1 DEF Closed
<1>4. t < threads => ~Closed
  BY DEF Done
<1>5. Numbered'
  BY <1>2, <1>3 DEF Numbered, graph
<1>6. Inside'
  <2>1. \A u \in Thread : InGraph(u)' => u < threads
    BY <1>1 DEF Inside, InGraph
  <2>2. \A u \in Worker : InGraph(u)' => last_graph'[u] = n_graph
    BY <1>1, <1>2 DEF Inside, InGraph
  <2>3. \A u \in Worker : pending'[u] <=> pc'[u] = "run"
    <3>1. pending'[t] <=> pc'[t] = "run"
      BY <1>1, <1>2
    <3> QED
      BY <1>1, <1>2, <3>1 DEF Inside
  <2>4. \A u \in Thread : u \in arrived <=> pc'[u] = "barrier"
    <3>1. t \notin arrived /\ pc'[t] # "barrier"
      BY <1>1 DEF Inside, InGraph
    <3> QED
      BY <1>1, <3>1 DEF Inside
  <2> QED
    BY <2>1, <2>2, <2>3, <2>4 DEF Inside, threads
<1>7. Computed'
  <2>1. pc'[t] \notin {"arrive", "barrier"}
    BY <1>1
  <2> QED
    BY <1>1, <2>1 DEF Computed, graph, threads
<1>8. Done'
  <2>1. Closed => \A u \in Worker : ~InGraph(u)'
    BY <1>1, <1>4 DEF Done, InGraph
  <2>2. Closed => \A u \in Worker : u < threads => last_graph'[u] = n_graph
    BY <1>2 DEF Done
  <2> QED
    BY <1>3, <2>1, <2>2 DEF Done, graph, threads
<1> QED
  BY <1>5, <1>6, <1>7, <1>8

LEMMA WorkerWalks ==
    ASSUME PoolInv, NEW t \in Worker,
           Top(t) \/ PauseLock(t) \/ CheckStop(t) \/ Poll(t) \/ SpuriousWakeup(t)
    PROVE  Numbered' /\ Inside' /\ Computed' /\ Done'
<1>1. Same /\ ~InGraph(t)
  BY DEF Same, Top, PauseLock, CheckStop, Poll, SpuriousWakeup, switches, locals,
         InGraph, Asleep
<1>2. PICK p \in {"pauseLock", "pauseWait", "stop", "top", "exited", "poll", "lock",
                  "pollGraph"} : GoTo(t, p)
  BY DEF Top, PauseLock, CheckStop, Poll, SpuriousWakeup, Asleep, Awake
<1> QED
  BY <1>1, <1>2, Walk

LEMMA WorkerLooks ==
    ASSUME PoolInv, NEW t \in Worker, PollGraph(t) \/ Lock(t)
    PROVE  Numbered' /\ Inside' /\ Computed' /\ Done'
<1> USE Threads DEF PoolInv
<1>1. ~InGraph(t) /\ ~pending[t]
  BY DEF PollGraph, Lock, InGraph, Inside
<1>2. CASE n_graph # last_graph[t] /\ Look(t)
  <2>1. UNCHANGED <<n_graph, params, cgraph, arrived>>
    BY DEF PollGraph, Lock, switches
  <2>2. PICK p \in {"lock", "top"} : IF Participates(t) THEN GoTo(t, "run") ELSE GoTo(t, p)
    <3>1. last_graph' # last_graph
      BY <1>2 DEF Look, TypeOK
    <3>2. CASE PollGraph(t)
      BY <1>2, <3>1, <3>2 DEF PollGraph, locals
    <3>3. CASE Lock(t)
      BY <1>2, <3>1, <3>3 DEF Lock
    <3> QED
      BY <3>2, <3>3
  <2> QED
    BY <1>1, <1>2, <2>1, <2>2, LookStep
<1>3. CASE ~(n_graph # last_graph[t] /\ Look(t))
  <2>1. Same
    BY <1>3 DEF Same, PollGraph, Lock, switches, locals
  <2>2. PICK p \in {"poll", "lock", "top", "workWait"} : GoTo(t, p)
    BY <1>1, <1>3 DEF PollGraph, Lock
  <2> QED
    BY <1>1, <2>1, <2>2, Walk
<1> QED
  BY <1>2, <1>3

-----------------------------------------------------------------------------
(* The theorems.                                                           *)

LEMMA PoolStep == PoolInv /\ [Next]_vars => PoolInv'
<1> SUFFICES ASSUME PoolInv, [Next]_vars PROVE PoolInv'
  OBVIOUS
<1>1. TypeOK'
  BY TypeStep
<1>2. CASE StartGraph \/ Stop \/ Join \/ Freed \/ UNCHANGED vars
  BY <1>1, <1>2, MainAlone DEF PoolInv, Freed
<1>3. CASE Signal \/ Pause \/ Resume \/ Unpause
  BY <1>1, <1>3, MainWakes DEF PoolInv
<1>4. CASE Kickoff
  BY <1>1, <1>4, KickoffStep DEF PoolInv
<1>5. ASSUME NEW t \in Thread, Computing(t) PROVE PoolInv'
  BY <1>1, <1>5, RunStep, ArriveStep, LastStep DEF PoolInv, Computing
<1>6. ASSUME NEW t \in Worker, WorkerStep(t) \/ SpuriousWakeup(t) PROVE PoolInv'
  <2>1. CASE Computing(t)
    BY <1>5, <2>1, Threads
  <2>2. CASE ~Computing(t)
    BY <1>1, <1>6, <2>2, WorkerWalks, WorkerLooks DEF PoolInv, WorkerStep
  <2> QED
    BY <2>1, <2>2
<1> QED
  BY <1>2, <1>3, <1>4, <1>5, <1>6, Threads DEF Next, MainStep, MainChoice

LEMMA PoolAlways == Spec => []PoolInv
BY InitOK, PoolStep, PTL DEF Spec

(* The variables keep their types: whatever number of threads is asked     *)
(* for, the announced graph never has more than the pool does, and the     *)
(* number of the graph and its threads stay one word in every copy.        *)
THEOREM PoolTypes == Spec => []TypeOK
BY PoolAlways, PTL DEF PoolInv

(* While the main thread sets up the next graph or frees the pool, no      *)
(* worker is in the last graph or about to enter it: the comment of        *)
(* ggml_graph_compute ("no worker threads should be accessing the          *)
(* parameters below at this stage") is true.                               *)
THEOREM PoolQuiet == Spec => []ParametersQuiet
<1>1. PoolInv => ParametersQuiet
  BY DEF PoolInv, Done, Closed, Inside, InGraph, ParametersQuiet
<1> QED
  BY <1>1, PoolAlways, PTL

(* A graph is computed by exactly the threads it was announced for, be     *)
(* they polling, asleep or paused when it was.                             *)
THEOREM PoolRunsGraph == Spec => []RunByItsThreads
<1>1. PoolInv => RunByItsThreads
  BY DEF PoolInv, Done, Closed, Computed, RunByItsThreads, graph, threads
<1> QED
  BY <1>1, PoolAlways, PTL

-----------------------------------------------------------------------------
(* The spin barrier: the other words of the same struct ggml_threadpool,   *)
(* and where each thread is in ggml_barrier.                               *)
CONSTANT Width
VARIABLES n_barrier, n_barrier_passed, n_passed, spin_pc

Spin == INSTANCE GgmlBarrier WITH pc <- spin_pc

(* The count of generations tells one from the next. *)
Wide == Width \in Nat /\ Width >= 2

(* The instance has a counting operator of its own, which is the same. *)
LEMMA SameCardinality == \A S : Spin!Cardinality(S) = Cardinality(S)
BY DEF Cardinality, Spin!Cardinality

(* Counting facts: the pool is finite and has NThreads members, the held   *)
(* threads are a finite part of it, and they are all of it exactly when    *)
(* they are NThreads many.                                                 *)
LEMMA SpinThreadCount ==
    /\ IsFiniteSet(Spin!Thread)
    /\ Cardinality(Spin!Thread) = NThreads
  BY NThreadsAssumption, FS_Interval DEF Spin!Thread

LEMMA SpinWaitingCount ==
    /\ IsFiniteSet(Spin!Waiting)
    /\ Cardinality(Spin!Waiting) \in Nat
    /\ Cardinality(Spin!Waiting) <= NThreads
    /\ Cardinality(Spin!Waiting) = NThreads => Spin!Waiting = Spin!Thread
<1>1. Spin!Waiting \subseteq Spin!Thread
  BY DEF Spin!Waiting
<1>2. QED
  BY <1>1, SpinThreadCount, FS_Subset, FS_CardinalityType

(***************************************************************************)
(* How a step changes the set of held threads.  A step of t that leaves    *)
(* the generation alone changes only whether t itself is held.             *)
(***************************************************************************)
LEMMA SpinWaitingSame ==
    ASSUME Spin!TypeOK, NEW t \in Spin!Thread, Spin!Enter(t) \/ Spin!Reset(t) \/ Spin!Leave(t)
    PROVE  Spin!Waiting' = Spin!Waiting
<1>1. \A u \in Spin!Thread : Spin!Held(u)' <=> Spin!Held(u)
  BY DEF Spin!TypeOK, Spin!Enter, Spin!Reset, Spin!Leave, Spin!Held
<1>2. QED
  BY <1>1 DEF Spin!Waiting

LEMMA SpinWaitingGrows ==
    ASSUME Spin!TypeOK, Spin!EntryFresh, NEW t \in Spin!Thread, Spin!Arrive(t)
    PROVE  Spin!Waiting' = Spin!Waiting \union {t} /\ t \notin Spin!Waiting
<1>1. \A u \in Spin!Thread : u # t => (Spin!Held(u)' <=> Spin!Held(u))
  BY DEF Spin!TypeOK, Spin!Arrive, Spin!Held
<1>2. Spin!Held(t)' /\ ~Spin!Held(t)
  BY DEF Spin!TypeOK, Spin!EntryFresh, Spin!Arrive, Spin!Held
<1>3. QED
  BY <1>1, <1>2 DEF Spin!Waiting

LEMMA SpinWaitingEmpties ==
    ASSUME Wide, Spin!TypeOK, Spin!BarrierInv, NEW t \in Spin!Thread, Spin!Release(t)
    PROVE  Spin!Waiting = Spin!Thread /\ Spin!Waiting' = {}
<1>1. Spin!Waiting = Spin!Thread
  BY DEF Spin!BarrierInv, Spin!LastMeansAll, Spin!Last, Spin!Release
<1>2. n_barrier_passed' # n_barrier_passed
  BY DEF Wide, Spin!TypeOK, Spin!Release
<1>3. \A u \in Spin!Thread : ~Spin!Held(u)'
  <2>1. SUFFICES ASSUME NEW u \in Spin!Thread, u # t
                 PROVE  ~Spin!Held(u)'
    BY DEF Spin!TypeOK, Spin!Release, Spin!Held
  <2>2. spin_pc[u] = "spin" /\ n_passed[u] = n_barrier_passed
    BY <1>1, <2>1 DEF Spin!BarrierInv, Spin!OneLast, Spin!Last, Spin!Waiting, Spin!Held, Spin!Release
  <2>3. QED
    BY <1>2, <2>1, <2>2 DEF Spin!Release, Spin!Held, Spin!TypeOK
<1>4. QED
  BY <1>1, <1>3 DEF Spin!Waiting

-----------------------------------------------------------------------------
(* The invariant holds initially: nobody is held. *)
LEMMA SpinInitInv == Wide /\ Spin!Init => Spin!TypeOK /\ Spin!BarrierInv
<1> SUFFICES ASSUME Wide, Spin!Init PROVE Spin!TypeOK /\ Spin!BarrierInv
  OBVIOUS
<1>1. Spin!TypeOK
  BY NThreadsAssumption DEF Wide, Spin!Init, Spin!TypeOK
<1>2. Spin!Waiting = {}
  BY DEF Spin!Init, Spin!Waiting, Spin!Held
<1>3. Cardinality(Spin!Waiting) = 0
  BY <1>2, FS_EmptySet
<1>4. \A t \in Spin!Thread : ~Spin!Last(t) /\ spin_pc[t] = "out"
  BY DEF Spin!Init, Spin!Last
<1>5. Spin!Waiting # Spin!Thread
  BY <1>2, NThreadsAssumption DEF Spin!Thread
<1>6. QED
  BY SameCardinality, <1>1, <1>3, <1>4, <1>5
     DEF Spin!Init, Spin!BarrierInv, Spin!EntryFresh, Spin!CountExact, Spin!LastMeansAll, Spin!AllMeansLast, Spin!OneLast

(* A step keeps the types.  That the count stays within the pool is the    *)
(* only part that is not read off the step: it counts held threads.        *)
LEMMA SpinTypeStep == Wide /\ Spin!TypeOK /\ Spin!BarrierInv /\ [Spin!Next]_(Spin!vars) => Spin!TypeOK'
<1> SUFFICES ASSUME Wide, Spin!TypeOK, Spin!BarrierInv, [Spin!Next]_(Spin!vars) PROVE Spin!TypeOK'
  OBVIOUS
<1>1. CASE UNCHANGED Spin!vars
  BY <1>1 DEF Spin!TypeOK, Spin!vars
<1>2. ASSUME NEW t \in Spin!Thread, Spin!Step(t) PROVE Spin!TypeOK'
  <2>1. CASE Spin!Enter(t)
    BY <2>1 DEF Spin!TypeOK, Spin!Enter
  <2>2. CASE Spin!Arrive(t)
    <3>1. t \notin Spin!Waiting
      BY <2>2, SpinWaitingGrows DEF Spin!BarrierInv
    <3>2. \A u \in Spin!Thread : spin_pc[u] # "release"
      BY <3>1 DEF Spin!BarrierInv, Spin!LastMeansAll, Spin!Last
    <3>3. n_barrier = Cardinality(Spin!Waiting) /\ n_barrier < NThreads
      BY SameCardinality, <3>1, <3>2, SpinWaitingCount, NThreadsAssumption
         DEF Spin!BarrierInv, Spin!CountExact, Spin!TypeOK
    <3>4. QED
      BY <2>2, <3>3, NThreadsAssumption DEF Spin!TypeOK, Spin!Arrive
  <2>3. CASE Spin!Reset(t)
    BY <2>3, NThreadsAssumption DEF Spin!TypeOK, Spin!Reset
  <2>4. CASE Spin!Release(t)
    BY <2>4 DEF Wide, Spin!TypeOK, Spin!Release
  <2>5. CASE Spin!Leave(t)
    BY <2>5 DEF Spin!TypeOK, Spin!Leave
  <2>6. QED
    BY <1>2, <2>1, <2>2, <2>3, <2>4, <2>5 DEF Spin!Step
<1>3. QED
  BY <1>1, <1>2 DEF Spin!Next

(* Arrive is the step the invariant is about: the returned count tells     *)
(* whether everybody is now held.                                          *)
LEMMA SpinArriveInv ==
    ASSUME Spin!TypeOK, Spin!BarrierInv, NEW t \in Spin!Thread, Spin!Arrive(t)
    PROVE  Spin!BarrierInv'
<1>1. Spin!Waiting' = Spin!Waiting \union {t} /\ t \notin Spin!Waiting
  BY SpinWaitingGrows DEF Spin!BarrierInv
<1>2. \A u \in Spin!Thread : ~Spin!Last(u)
  BY <1>1 DEF Spin!BarrierInv, Spin!LastMeansAll
<1>3. n_barrier = Cardinality(Spin!Waiting)
  BY SameCardinality, <1>2 DEF Spin!BarrierInv, Spin!CountExact, Spin!Last
<1>4. Cardinality(Spin!Waiting') = n_barrier + 1
  BY <1>1, <1>3, SpinWaitingCount, FS_AddElement
<1>5. n_barrier = NThreads - 1 <=> Spin!Waiting' = Spin!Thread
  <2>1. Spin!Waiting' = Spin!Thread => n_barrier = NThreads - 1
    BY <1>4, <1>3, SpinWaitingCount, SpinThreadCount, NThreadsAssumption
  <2>2. Spin!Waiting' \subseteq Spin!Thread
    BY DEF Spin!Waiting
  <2>3. Cardinality(Spin!Waiting') = NThreads => Spin!Waiting' = Spin!Thread
    BY <2>2, SpinThreadCount, FS_Subset
  <2>4. QED
    BY <1>4, <2>1, <2>3, NThreadsAssumption DEF Spin!TypeOK
<1>6. \A u \in Spin!Thread : Spin!Last(u)' <=> (u = t /\ n_barrier = NThreads - 1)
  BY <1>2 DEF Spin!Arrive, Spin!Last, Spin!TypeOK
<1>7. Spin!EntryFresh'
  BY DEF Spin!BarrierInv, Spin!EntryFresh, Spin!Arrive, Spin!TypeOK
<1>8. Spin!CountExact'
  <2>1. \A u \in Spin!Thread : spin_pc'[u] # "release"
    BY <1>2 DEF Spin!Arrive, Spin!Last, Spin!TypeOK
  <2>2. QED
    BY SameCardinality, <2>1, <1>4 DEF Spin!CountExact, Spin!Arrive
<1>9. Spin!LastMeansAll' /\ Spin!AllMeansLast' /\ Spin!OneLast'
  BY <1>5, <1>6 DEF Spin!LastMeansAll, Spin!AllMeansLast, Spin!OneLast
<1>10. QED
  BY <1>7, <1>8, <1>9 DEF Spin!BarrierInv

LEMMA SpinReleaseInv ==
    ASSUME Wide, Spin!TypeOK, Spin!BarrierInv, NEW t \in Spin!Thread, Spin!Release(t)
    PROVE  Spin!BarrierInv'
<1>1. Spin!Waiting = Spin!Thread /\ Spin!Waiting' = {}
  BY SpinWaitingEmpties
<1>2. \A u \in Spin!Thread : ~Spin!Last(u)' /\ spin_pc'[u] # "arrive"
  BY <1>1 DEF Spin!BarrierInv, Spin!OneLast, Spin!Last, Spin!Release, Spin!TypeOK, Spin!Waiting, Spin!Held
<1>3. n_barrier' = 0
  BY DEF Spin!BarrierInv, Spin!CountExact, Spin!Release
<1>4. Spin!CountExact'
  BY SameCardinality, <1>1, <1>2, <1>3, FS_EmptySet DEF Spin!CountExact, Spin!Last
<1>5. Spin!Waiting' # Spin!Thread
  BY <1>1, NThreadsAssumption DEF Spin!Thread
<1>6. QED
  BY <1>2, <1>4, <1>5
     DEF Spin!BarrierInv, Spin!EntryFresh, Spin!LastMeansAll, Spin!AllMeansLast, Spin!OneLast

(* The other steps leave the set of held threads alone. *)
LEMMA SpinQuietInv ==
    ASSUME Spin!TypeOK, Spin!BarrierInv, NEW t \in Spin!Thread, Spin!Enter(t) \/ Spin!Reset(t) \/ Spin!Leave(t)
    PROVE  Spin!BarrierInv'
<1>1. Spin!Waiting' = Spin!Waiting
  BY SpinWaitingSame
<1>2. \A u \in Spin!Thread : Spin!Last(u)' <=> Spin!Last(u)
  BY DEF Spin!TypeOK, Spin!Enter, Spin!Reset, Spin!Leave, Spin!Last
<1>3. Spin!EntryFresh'
  BY DEF Spin!BarrierInv, Spin!EntryFresh, Spin!TypeOK, Spin!Enter, Spin!Reset, Spin!Leave
<1>4. Spin!CountExact'
  <2>1. CASE Spin!Reset(t)
    BY <2>1 DEF Spin!Reset, Spin!CountExact, Spin!TypeOK
  <2>2. CASE Spin!Enter(t) \/ Spin!Leave(t)
    <3>1. \A u \in Spin!Thread : spin_pc'[u] = "release" <=> spin_pc[u] = "release"
      BY <2>2 DEF Spin!TypeOK, Spin!Enter, Spin!Leave
    <3>2. n_barrier' = n_barrier
      BY <2>2 DEF Spin!Enter, Spin!Leave
    <3>3. QED
      BY <1>1, <3>1, <3>2 DEF Spin!BarrierInv, Spin!CountExact
  <2>3. QED
    BY <2>1, <2>2
<1>5. Spin!LastMeansAll' /\ Spin!AllMeansLast' /\ Spin!OneLast'
  BY <1>1, <1>2 DEF Spin!BarrierInv, Spin!LastMeansAll, Spin!AllMeansLast, Spin!OneLast
<1>6. QED
  BY <1>3, <1>4, <1>5 DEF Spin!BarrierInv

LEMMA SpinInvStep == Wide /\ Spin!TypeOK /\ Spin!BarrierInv /\ [Spin!Next]_(Spin!vars) => Spin!BarrierInv'
<1> SUFFICES ASSUME Wide, Spin!TypeOK, Spin!BarrierInv, [Spin!Next]_(Spin!vars) PROVE Spin!BarrierInv'
  OBVIOUS
<1>1. CASE UNCHANGED Spin!vars
  BY <1>1 DEF Spin!vars, Spin!BarrierInv, Spin!EntryFresh, Spin!CountExact, Spin!LastMeansAll,
              Spin!AllMeansLast, Spin!OneLast, Spin!Waiting, Spin!Held, Spin!Last
<1>2. ASSUME NEW t \in Spin!Thread, Spin!Step(t) PROVE Spin!BarrierInv'
  BY <1>2, SpinArriveInv, SpinReleaseInv, SpinQuietInv DEF Spin!Step
<1>3. QED
  BY <1>1, <1>2 DEF Spin!Next

-----------------------------------------------------------------------------
(* The variables of the spin barrier keep their types; in particular the   *)
(* arrival count never exceeds the pool.                                   *)
THEOREM BarrierTypes ==
    ASSUME Wide PROVE Spin!Spec => []Spin!TypeOK
<1>1. Spin!Init => Spin!TypeOK /\ Spin!BarrierInv
  BY SpinInitInv
<1>2. Spin!TypeOK /\ Spin!BarrierInv /\ [Spin!Next]_(Spin!vars) => (Spin!TypeOK /\ Spin!BarrierInv)'
  BY SpinTypeStep, SpinInvStep
<1>3. QED
  BY <1>1, <1>2, PTL DEF Spin!Spec

(* The inductive invariant of ggml_barrier: the count is exact, and a      *)
(* thread is the last one exactly when the whole pool is held.             *)
THEOREM BarrierInvariant ==
    ASSUME Wide PROVE Spin!Spec => []Spin!BarrierInv
<1>1. Spin!Init => Spin!TypeOK /\ Spin!BarrierInv
  BY SpinInitInv
<1>2. Spin!TypeOK /\ Spin!BarrierInv /\ [Spin!Next]_(Spin!vars) => (Spin!TypeOK /\ Spin!BarrierInv)'
  BY SpinTypeStep, SpinInvStep
<1>3. QED
  BY <1>1, <1>2, PTL DEF Spin!Spec

(* ggml_barrier implements the abstract barrier: a step of a thread is an  *)
(* arrival, the release of the whole pool, or invisible.                   *)
LEMMA SpinStepSimulation ==
    Wide /\ Spin!TypeOK /\ Spin!BarrierInv /\ [Spin!Next]_(Spin!vars) => [Spin!B!Next]_(Spin!Waiting)
<1> SUFFICES ASSUME Wide, Spin!TypeOK, Spin!BarrierInv, [Spin!Next]_(Spin!vars)
             PROVE  [Spin!B!Next]_(Spin!Waiting)
  OBVIOUS
<1>1. CASE UNCHANGED Spin!vars
  BY <1>1 DEF Spin!vars, Spin!Waiting, Spin!Held
<1>2. ASSUME NEW t \in Spin!Thread, Spin!Step(t) PROVE [Spin!B!Next]_(Spin!Waiting)
  <2>1. CASE Spin!Enter(t) \/ Spin!Reset(t) \/ Spin!Leave(t)
    BY <2>1, SpinWaitingSame
  <2>2. CASE Spin!Arrive(t)
    BY <2>2, SpinWaitingGrows DEF Spin!BarrierInv, Spin!B!Next, Spin!B!Arrive
  <2>3. CASE Spin!Release(t)
    BY <2>3, SpinWaitingEmpties DEF Spin!B!Next, Spin!B!Release
  <2>4. QED
    BY <1>2, <2>1, <2>2, <2>3 DEF Spin!Step
<1>3. QED
  BY <1>1, <1>2 DEF Spin!Next

(* Every step of the two counters is a step of the abstract barrier or a    *)
(* stutter: nobody leaves before everybody has arrived.                     *)
THEOREM BarrierRefinement ==
    ASSUME Wide PROVE Spin!Spec => Spin!ImplementsBarrierSafely
<1>1. Spin!Init => Spin!B!Init
  BY DEF Spin!Init, Spin!B!Init, Spin!Waiting, Spin!Held
<1>2. Spin!Init => Spin!TypeOK /\ Spin!BarrierInv
  BY SpinInitInv
<1>3. Spin!TypeOK /\ Spin!BarrierInv /\ [Spin!Next]_(Spin!vars) => (Spin!TypeOK /\ Spin!BarrierInv)'
  BY SpinTypeStep, SpinInvStep
<1>4. Spin!TypeOK /\ Spin!BarrierInv /\ [Spin!Next]_(Spin!vars) => [Spin!B!Next]_(Spin!Waiting)
  BY SpinStepSimulation
<1>5. QED
  BY <1>1, <1>2, <1>3, <1>4, PTL DEF Spin!Spec, Spin!ImplementsBarrierSafely
=============================================================================
