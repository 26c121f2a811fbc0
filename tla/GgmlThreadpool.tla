--------------------------- MODULE GgmlThreadpool ---------------------------
(***************************************************************************)
(* The CPU thread pool of the native (non-OpenMP) build, ggml-cpu.c: how   *)
(* workers find the graphs the main thread starts, between polling,        *)
(* sleeping on the condition variable and being paused, and how the pool   *)
(* is freed.                                                               *)
(*                                                                         *)
(* stop, pause and n_graph are only written with the mutex held, but       *)
(* workers also read them without it, so that the main thread's critical   *)
(* sections with two writes are two steps.  A worker's critical sections   *)
(* write nothing that others read and are one step each.                   *)
(*                                                                         *)
(* The nodes of a graph are PQFusion's business: here a thread computes a  *)
(* graph in one step and waits in the barrier at its end, which is         *)
(* ggml_barrier as BarrierSpec states it, for as many threads as n_graph   *)
(* says.                                                                   *)
(***************************************************************************)
EXTENDS Integers, FiniteSets

CONSTANTS
    NThreads,    \* threads of the pool, the main thread included
    PollRounds,  \* rounds of polling before a worker sleeps
    MaxGraphs    \* graphs the main thread computes (a bound of the model)

ASSUME NThreadsAssumption == NThreads \in Nat \ {0}
ASSUME BoundsAssumption == PollRounds \in Nat /\ MaxGraphs \in Nat

Thread == 0 .. NThreads - 1
Worker == 1 .. NThreads - 1

VARIABLES
    n_graph,     \* the number of the graph and its threads, one atomic word
    stop,        \* tp->stop
    pause,       \* tp->pause
    mutex,       \* the main thread holds tp->mutex between two steps
    params,      \* the graph that cgraph, cplan, abort and ec are set for
    pending,     \* per worker: state->pending
    last_graph,  \* per worker: state->last_graph
    rounds,      \* per worker: rounds of polling done
    cgraph,      \* per thread: the graph it computes, or computed last
    arrived,     \* threads in the barrier at the end of the graph
    pc           \* per thread: where it is

vars == <<n_graph, stop, pause, mutex, params, pending, last_graph, rounds,
          cgraph, arrived, pc>>

switches == <<n_graph, stop, pause, mutex, params>>
locals == <<pending, last_graph, rounds>>

Init ==
    /\ n_graph = [graph |-> 0, threads |-> 0]
    /\ stop = FALSE
    /\ pause \in BOOLEAN
    /\ mutex = FALSE
    /\ params = 0
    /\ pending = [t \in Worker |-> FALSE]
    /\ last_graph = [t \in Worker |-> [graph |-> 0, threads |-> 0]]
    /\ rounds = [t \in Worker |-> 0]
    /\ cgraph = [t \in Thread |-> 0]
    /\ arrived = {}
    /\ pc = [t \in Thread |-> IF t = 0 THEN "idle" ELSE "top"]

GoTo(t, p) == pc' = [pc EXCEPT ![t] = p]

(* Broadcasting: whoever sleeps wakes up and looks again. *)
Asleep(t) == pc[t] \in {"pauseWait", "workWait"}

Awake(p) == CASE p = "pauseWait" -> "top"
              [] p = "workWait"  -> "lock"
              [] OTHER           -> p

MainGoesAndWakes(p) == pc' = [t \in Thread |-> IF t = 0 THEN p ELSE Awake(pc[t])]

-----------------------------------------------------------------------------
(* The main thread.                                                        *)

(* ggml_graph_compute resets the parameters of the pool. *)
StartGraph ==
    /\ pc[0] = "idle" /\ ~stop
    /\ params < MaxGraphs
    /\ params' = params + 1
    /\ GoTo(0, "kickoff")
    /\ UNCHANGED <<n_graph, stop, pause, mutex, locals, cgraph, arrived>>

(* A plan for more threads than the pool has gets all there are. *)
Clamped(n) == IF n > NThreads THEN NThreads ELSE n

(* ggml_graph_compute_kickoff: the graph is announced, ... *)
Kickoff ==
    /\ pc[0] = "kickoff"
    /\ mutex' = TRUE
    /\ \E n \in 1 .. NThreads + 1 :
          n_graph' = [graph |-> n_graph.graph + 1, threads |-> Clamped(n)]
    /\ GoTo(0, "signal")
    /\ UNCHANGED <<stop, pause, params, locals, cgraph, arrived>>

\* Mutant of Signal: workers are woken only if the pool was paused.
Signal_OnlyPaused ==
    /\ pc[0] = "signal"
    /\ mutex' = FALSE
    /\ pause' = FALSE
    /\ IF pause THEN MainGoesAndWakes("run") ELSE GoTo(0, "run")
    /\ UNCHANGED <<n_graph, stop, params, locals, cgraph, arrived>>

(* ... and the workers are woken, out of a pause, too. *)
Signal ==
    /\ pc[0] = "signal"
    /\ mutex' = FALSE
    /\ pause' = FALSE
    /\ MainGoesAndWakes("run")
    /\ UNCHANGED <<n_graph, stop, params, locals, cgraph, arrived>>

(* ggml_threadpool_pause and ggml_threadpool_resume, between two graphs. *)
Pause ==
    /\ pc[0] = "idle" /\ ~stop /\ ~pause
    /\ pause' = TRUE
    /\ MainGoesAndWakes("idle")
    /\ UNCHANGED <<n_graph, stop, mutex, params, locals, cgraph, arrived>>

Resume ==
    /\ pc[0] = "idle" /\ ~stop /\ pause
    /\ pause' = FALSE
    /\ MainGoesAndWakes("idle")
    /\ UNCHANGED <<n_graph, stop, mutex, params, locals, cgraph, arrived>>

(* ggml_threadpool_free: stop, then end the pause, ... *)
Stop ==
    /\ pc[0] = "idle" /\ ~stop
    /\ mutex' = TRUE
    /\ stop' = TRUE
    /\ GoTo(0, "unpause")
    /\ UNCHANGED <<n_graph, pause, params, locals, cgraph, arrived>>

\* Mutant of Unpause: a paused pool stays paused.
Unpause_Not ==
    /\ pc[0] = "unpause"
    /\ mutex' = FALSE
    /\ MainGoesAndWakes("join")
    /\ UNCHANGED <<n_graph, stop, pause, params, locals, cgraph, arrived>>

Unpause ==
    /\ pc[0] = "unpause"
    /\ mutex' = FALSE
    /\ pause' = FALSE
    /\ MainGoesAndWakes("join")
    /\ UNCHANGED <<n_graph, stop, params, locals, cgraph, arrived>>

(* ... and join the workers before the memory goes. *)
Join ==
    /\ pc[0] = "join"
    /\ \A t \in Worker : pc[t] = "exited"
    /\ GoTo(0, "freed")
    /\ UNCHANGED <<switches, locals, cgraph, arrived>>

Freed ==
    /\ pc[0] = "freed"
    /\ UNCHANGED vars

-----------------------------------------------------------------------------
(* A graph, in every thread of it (ggml_graph_compute_thread).             *)

Run(t) ==
    /\ pc[t] = "run"
    /\ cgraph' = [cgraph EXCEPT ![t] = params]
    /\ GoTo(t, "arrive")
    /\ pending' = [u \in Worker |-> u # t /\ pending[u]]
    /\ UNCHANGED <<switches, last_graph, rounds, arrived>>

(* Out of the barrier, the main thread returns, a worker looks for more. *)
Out(t) == IF t = 0 THEN "idle" ELSE "top"

(* The last one of the graph's threads to arrive lets all go. *)
Arrive(t) ==
    LET all == arrived \union {t}
    IN  /\ pc[t] = "arrive"
        /\ IF Cardinality(all) = n_graph.threads
           THEN /\ arrived' = {}
                /\ pc' = [u \in Thread |-> IF u \in all THEN Out(u) ELSE pc[u]]
           ELSE /\ arrived' = all
                /\ GoTo(t, "barrier")
        /\ UNCHANGED <<switches, locals, cgraph>>

-----------------------------------------------------------------------------
(* A worker (ggml_graph_compute_secondary_thread).                         *)

(* while (pause), without the mutex *)
Top(t) ==
    /\ pc[t] = "top"
    /\ IF pause THEN GoTo(t, "pauseLock") ELSE GoTo(t, "stop")
    /\ UNCHANGED <<switches, locals, cgraph, arrived>>

(* The same question with the mutex held, and then to sleep. *)
PauseLock(t) ==
    /\ pc[t] = "pauseLock"
    /\ ~mutex
    /\ IF pause THEN GoTo(t, "pauseWait") ELSE GoTo(t, "top")
    /\ UNCHANGED <<switches, locals, cgraph, arrived>>

CheckStop(t) ==
    /\ pc[t] = "stop"
    /\ IF stop THEN GoTo(t, "exited") ELSE GoTo(t, "poll")
    /\ rounds' = [rounds EXCEPT ![t] = 0]
    /\ UNCHANGED <<switches, pending, last_graph, cgraph, arrived>>

(* ggml_graph_compute_thread_ready, first half: something other than a     *)
(* graph to attend to.                                                     *)
Distracted(t) == pending[t] \/ stop \/ pause

\* Mutant of Participates: one thread too many.
Participates_OneMore(t) == t <= n_graph.threads

Participates(t) == t < n_graph.threads

\* Mutant of Look: the graph is not remembered.
Look_Forgets(t) ==
    /\ pending' = [pending EXCEPT ![t] = Participates(t)]
    /\ UNCHANGED last_graph

(* Its second half: a new graph, with this thread or without it. *)
Look(t) ==
    /\ pending' = [pending EXCEPT ![t] = Participates(t)]
    /\ last_graph' = [last_graph EXCEPT ![t] = n_graph]

(* Polling, without the mutex: the two halves are two steps. *)
Poll(t) ==
    /\ pc[t] = "poll"
    /\ IF Distracted(t) THEN GoTo(t, "lock") ELSE GoTo(t, "pollGraph")
    /\ UNCHANGED <<switches, locals, cgraph, arrived>>

PollGraph(t) ==
    /\ pc[t] = "pollGraph"
    /\ \/ /\ n_graph # last_graph[t]
          /\ Look(t)
          /\ IF Participates(t) THEN GoTo(t, "run") ELSE GoTo(t, "lock")
          /\ UNCHANGED rounds
       \/ /\ n_graph = last_graph[t]
          /\ rounds[t] < PollRounds
          /\ rounds' = [rounds EXCEPT ![t] = @ + 1]
          /\ GoTo(t, "poll")
          /\ UNCHANGED <<pending, last_graph>>
       \/ /\ n_graph = last_graph[t]
          /\ rounds[t] = PollRounds
          /\ GoTo(t, "lock")
          /\ UNCHANGED locals
    /\ UNCHANGED <<switches, cgraph, arrived>>

(* The same with the mutex held, and then to sleep. *)
Lock(t) ==
    /\ pc[t] = "lock"
    /\ ~mutex
    /\ \/ /\ Distracted(t)
          /\ IF pending[t] THEN GoTo(t, "run") ELSE GoTo(t, "top")
          /\ UNCHANGED <<pending, last_graph>>
       \/ /\ ~Distracted(t)
          /\ n_graph # last_graph[t]
          /\ Look(t)
          /\ IF Participates(t) THEN GoTo(t, "run") ELSE GoTo(t, "top")
       \/ /\ ~Distracted(t)
          /\ n_graph = last_graph[t]
          /\ GoTo(t, "workWait")
          /\ UNCHANGED <<pending, last_graph>>
    /\ UNCHANGED <<switches, rounds, cgraph, arrived>>

(* pthread_cond_wait may return although nobody signalled. *)
SpuriousWakeup(t) ==
    /\ Asleep(t)
    /\ ~mutex
    /\ GoTo(t, Awake(pc[t]))
    /\ UNCHANGED <<switches, locals, cgraph, arrived>>

-----------------------------------------------------------------------------
Computing(t) == Run(t) \/ Arrive(t)

MainStep == Kickoff \/ Signal \/ Unpause \/ Join \/ Computing(0)

MainChoice == StartGraph \/ Pause \/ Resume \/ Stop

WorkerStep(t) ==
    \/ Top(t) \/ PauseLock(t) \/ CheckStop(t)
    \/ Poll(t) \/ PollGraph(t) \/ Lock(t)
    \/ Computing(t)

Next ==
    \/ MainStep \/ MainChoice \/ Freed
    \/ \E t \in Worker : WorkerStep(t) \/ SpuriousWakeup(t)

(* The scheduler runs every thread; what the main thread does between two  *)
(* graphs is up to the program.                                            *)
Spec ==
    /\ Init /\ [][Next]_vars
    /\ WF_vars(MainStep)
    /\ \A t \in Worker : WF_vars(WorkerStep(t))

-----------------------------------------------------------------------------
Words == [graph : 0 .. MaxGraphs, threads : 0 .. NThreads]

(* Types of the variables: a graph never has more threads than the pool. *)
TypeOK ==
    /\ n_graph \in Words
    /\ {stop, pause, mutex} \subseteq BOOLEAN
    /\ params \in 0 .. MaxGraphs
    /\ pending \in [Worker -> BOOLEAN]
    /\ last_graph \in [Worker -> Words]
    /\ rounds \in [Worker -> 0 .. PollRounds]
    /\ cgraph \in [Thread -> 0 .. MaxGraphs]
    /\ arrived \subseteq Thread
    /\ pc[0] \in {"idle", "kickoff", "signal", "run", "arrive", "barrier",
                  "unpause", "join", "freed"}
    /\ pc \in [Thread -> {"idle", "kickoff", "signal", "unpause", "join", "freed",
                          "run", "arrive", "barrier", "top", "pauseLock", "pauseWait",
                          "stop", "poll", "pollGraph", "lock", "workWait", "exited"}]

InGraph(t) == pc[t] \in {"run", "arrive", "barrier"}

(* "No worker threads should be accessing the parameters below at this     *)
(* stage" (ggml_graph_compute): when the main thread is about to set up    *)
(* the next graph, or to free the pool, no worker is in the last one or    *)
(* about to enter it.                                                      *)
ParametersQuiet ==
    pc[0] \in {"idle", "kickoff", "unpause", "join", "freed"} =>
        arrived = {} /\ \A t \in Worker : ~InGraph(t) /\ ~pending[t]

(* When a graph is done, exactly the threads it was started with have run  *)
(* it, whatever they were doing when it started.                           *)
RunByItsThreads ==
    pc[0] = "idle" /\ n_graph.graph > 0 =>
        \A t \in Thread : cgraph[t] = n_graph.graph <=> t < n_graph.threads

(* The main thread never waits for threads that sleep: every graph that is *)
(* started gets done.                                                      *)
GraphsFinish == pc[0] = "kickoff" ~> pc[0] = "idle"

(* Freeing the pool, also a paused one, ends every worker. *)
FreeFinishes == pc[0] = "unpause" ~> pc[0] = "freed"

(* A paused pool does not poll: each worker goes to sleep, unless the      *)
(* pause ends first.                                                       *)
PauseSleeps ==
    \A t \in Worker : pause ~> (~pause \/ pc[t] = "pauseWait")

=============================================================================
