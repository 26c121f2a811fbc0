# EdgePQ: TLA+ models, model checking and proofs

EdgePQ runs Llama models with product-quantized (PQ) weights on the CPU. It is a
fork of llama.cpp (`src/llama.cpp/`) whose decode step replaces matrix-vector
products by look-up-table GEMVs, with a reproduction harness around it
(`src/Makefile`, `src/llama_pq.cpp`, `src/ppl_gguf_compare.py`, `src/plot_results.py`). This directory specifies
the parts of it in which order, concurrency and state that outlives a call decide
whether the result is right, checks them with TLC, and proves with TLAPS what
matters most for every size.

Paths below are relative to the repository, `src/` included.
`pq-gemv.cpp` and `ggml-cpu.c` are in `src/llama.cpp/ggml/src/ggml-cpu/`;
`server-queue.cpp`, `server-queue.h` and `server-context.cpp` in
`src/llama.cpp/tools/server/`; `llama-*.cpp` and `llama-kv-cells.h` in
`src/llama.cpp/src/`.

1. [The system](#1-the-system)
2. [The modules](#2-the-modules)
3. [Runs](#3-runs)
4. [Fairness](#4-fairness)
5. [Proofs](#5-proofs)
6. [What was found](#6-what-was-found)
7. [Abstractions, and what is not modelled](#7-abstractions-and-what-is-not-modelled)
8. [Plan](#8-plan)

## 1. The system

### How the parts fit together

```
 Makefile, Python scripts ───────► CSV files, cache stamp          (reproduction)
   │ prepares inputs, runs
   ▼
 llama_pq, llama-bench, pq-chat, llama-server: queues, slots        (programs)
   │ llama_model_load_from_file         │ llama_decode: batch, KV cache
   ▼                                    ▼
 llama-model.cpp: loop over layers    llama-graph.cpp: build_qkv, build_ffn
   │ llama_pq_begin/register/finish     │ ggml_graph_compute
   ▼                                    ▼
 llama-pq.cpp: k-means, fused         ggml-cpu.c: thread pool, node loop,
   weights, side tensors                barrier, mul_mat
   │ ggml_pq_register[_group]           │ hooks, one per node and graph
   ▼                                    ▼
 pq-gemv.cpp: REGISTRY g_pq, switch g_pq_enabled  ──►  GROUPS g_s1_group,
                                                       PARTIAL SUMS g_s1_partials
```

Everything in `pq-gemv.cpp` is a process-wide global: the registry by tensor name,
the switch, one pending group per thread number, one vector of partial sums. The
registration side (loading) and the execution side (decode) share nothing else,
and neither takes a lock. What keeps them right is the order of calls, and the
barriers that `ggml_graph_compute_thread` and `pq_s1_flush` put between the
threads of a pool. That is what most of this project is about. Above it are the two
parts that decide what a decode works on: the server's queues, in which many HTTP
threads meet one main loop, and the KV cache, which says which cells a batch gets.
Below it all is the harness that decides which files the published numbers are of.

### Inventory

**Same-input GEMV fusion** (`pq-gemv.cpp` 590-1015, `ggml-pq.h`).
*State*: per thread number a group of up to four deferred products (members,
input, running height); per thread a row of partial sums.
*Operations*: `ggml_pq_mul_mat_fused` (compute, defer, or decline a product),
`ggml_pq_node_boundary` (flush before a node that is not such a product),
`ggml_pq_graph_end`, `pq_s1_flush` (phase 1 fills the thread's row for every
member; a barrier; phase 2 sums all rows for a slice of the outputs; for a
synchronous flush another barrier).
*Hard*: groups are private to a thread but only make sense if every thread has the
same one; a flush contains barriers, so a thread that flushes alone hangs the pool
or pairs its barrier with another; a deferred product's output does not exist yet
although its node is behind; a graph may be aborted with a group pending.
*Correct if*: all threads meet in the same call of the barrier with equal groups;
nobody reads an output before it is complete; nobody sums a row that is not of
this pass; nothing is pending when a graph ends; what comes out is a dataflow
evaluation of the graph.

**Graph computation** (`ggml-cpu.c` 3120-3245). *State*: the node counters, the
abort node, the barrier. *Operations*: the node loop, abort callback (thread 0
after a node), the barrier after all but the last node, the tail.
*Hard*: thread 0 sets the node to stop at while others are at the head of the loop.

**Spin barrier** (`ggml-cpu.c` 575-612). *State*: two atomic counters.
*Hard*: reuse by fast threads while slow ones still spin on the last generation,
and a generation counter that wraps.

**Life cycle of the pool** (`ggml-cpu.c` 2700-2800, 3255-3520). *State*: the word
with graph number and thread count, `stop`, `pause`, a mutex and a condition
variable, and per worker whether work is pending and which graph it saw last.
*Operations*: `ggml_graph_compute` (kickoff), pause, resume, free; a worker polls,
sleeps, looks, computes. *Hard*: `pause` and `stop` are read outside the lock;
lost wakeups; a worker left out of some graphs; freeing a paused pool.

**Matrix products** (`ggml-cpu.c` 1165-1465, 1480-1720). *State*: the work buffer,
the chunk counters, the experts' row table. *Operations*: convert, count, steal
chunks. *Hard*: all of it is reused by the next node, with one barrier in a node
and one after it; the chunk arithmetic at small sizes; two rows at a time.

**PQ registration and the registry** (`llama-model.cpp` 1642-1735, `llama-pq.cpp`,
`pq-gemv.cpp` 700-800, 1015-1060). *State*: registry, switch, size of the partial
sums, a static ggml context for fused tensors, and in each layer whether `wqkv` and
`ffn_up` are the fused tensors. *Operations*: begin; per layer build a fused QKV,
register its members and the group, the same for gate/up, then the single
tensors; finish; free; a load without PQ. *Hard*: names do not tell models apart;
a group fails half-way; side tensors, parameters and fallbacks decide in several
places; the partial sums must be large enough before the first flush.

**Result cache** (`src/Makefile` 136-215). *State*: two CSV files, a stamp with the
settings they were measured under. *Operations*: `all`, `demo`, `benchmark`,
`ppl`, `pq-ppl`, `record-results-cache`, `plot`, `distclean`, any of which may
fail or be interrupted. *Hard*: nothing ties the files to the stamp but the order
of the commands.

**Input preparation** (`src/Makefile` 197-297). *State*: model, checkpoint,
tokenizer, two baselines and the dataset as directories that outlive every run, a
stamp beside the model, a stamp for checkpoint and tokenizer. *Operations*:
`prepare-inputs` step by step, each of which may fail or be interrupted;
`check-inputs`; somebody copying a file. *Hard*: a stamp counts instead of the
digest while it is newer than the model; files are replaced one by one while their
stamp stays. *Correct if*: what is measured, reused and plotted is of the revisions
that the cache key pins.

**Server queues** (`server-queue.cpp`, `server-context.cpp`). *State*: the queue of
tasks, the deferred ones, the ids somebody waits for, the queue of results, the
slots, whether the server sleeps or was asked to stop sleeping, and one condition
variable. *Operations*: HTTP threads wait until the server is awake, register, post,
receive, stop and cancel; the main loop takes a task, launches, defers or answers it,
decodes slot by slot, releases, sleeps, wakes; a signal terminates it. *Hard*: one
condition variable with `notify_one` has waiters of two kinds; registration must
precede posting; a cancellation races with the loop; one deferred task is taken up
per released slot; a parent and its children share their fate.
*Correct if*: no task is lost or in two places, nothing is left of a finished
request, a sleeping server has nothing running, and who asked is served.

**KV cache** (`llama-kv-cache.cpp`, `llama-kv-cells.h`, `llama-batch.cpp`,
`llama_context::decode`). *State*: per stream the cells (position, pending shift,
sequences), a head and a mark for pending shifts; pending copies of streams; the K
buffer. *Operations*: remove, copy, keep, add, divide, clear; a decode splits its
batch, finds cells for all micro-batches, undoes the trial, and places and computes
one after the other, any of which may fail. *Hard*: positions change at once and the
buffer later; the trial of `prepare` overwrites what it must put back; what a failed
micro-batch takes back. *Correct if*: the buffer holds what the cells say once what
is pending is applied, and nothing in a sequence's reach is lost.

**Others**: k-means quantizers, GEMV kernels, `llama-pq-convert`, `pq-selftest`,
`pq-chat`, the `llama_pq` benchmark, `export_pq4c8b.py`, the perplexity comparison
and plots; and the rest of upstream llama.cpp. Section 7 says what is left out and
why.

`PROJECT.json` lists every component, and under `hazards` each place where one of
these behaviours bites, with the properties that watch it.

## 2. The modules

| module | models | stands on |
|---|---|---|
| `BarrierSpec` | what a barrier promises | |
| `GgmlBarrier` | the spin barrier, one atomic access per step | implements `BarrierSpec` |
| `PQDataflow` | what computing a graph means | |
| `PQFusion` | node loop, hooks and flushes in the threads of one pool | uses the abstract barrier; implements `PQDataflow` |
| `PQTwoContexts` | two pools over the same groups and partial sums | two instances of `PQFusion` |
| `GgmlThreadpool` | how workers find graphs, sleep, pause, end | uses the abstract barrier |
| `GgmlMulMat` | conversion, chunk stealing, experts | uses the abstract barrier |
| `PQLoad` | registration, freeing, and what decode finds | |
| `ReproInputs` | what is downloaded, verified and reused | |
| `ReproCache` | the result cache | |
| `ReproPipeline` | both: measuring what was prepared | EXTENDS `ReproCache`, an instance of `ReproInputs` |
| `ServerQueue` | HTTP threads, queues, slots, main loop | |
| `KVCache` | sequence operations and decoding of batches | |
| `MC…` | small instances for TLC | |
| `…Proofs` | theorems | |

### `GgmlBarrier`

Variables are the two atomics (`n_barrier`, `n_barrier_passed` modulo `Width`, 2^32
in the build), the local `n_passed` and a program counter; `Enter`, `Arrive`,
`Reset`, `Release`, `Leave` are the accesses in program order. The two
read-modify-writes are sequentially consistent, which orders the relaxed accesses
around them, so an interleaving of single accesses is what the processor shows.
`BarrierSpec` has one variable, the threads that have arrived and are not
released, and is obtained from the counters by
`Waiting == {t : pc[t] \in {"reset", "release"} \/ (pc[t] = "spin" /\ n_passed[t] = n_barrier_passed)}`.

### `PQFusion`

`pc[t]` follows `ggml_graph_compute_thread`: `loop` (head of the node loop),
`compute` (the node's kernel or the hook), `after` (abort callback), `tail`,
`graphEnd`, `final`, `done`; a flush is entered from any of them and returns by
`ret[t]` through `phase1`, a barrier, `phase2` and, if `sync[t]`, another barrier.
A thread in the barrier has one of the five `BarrierSites` as its pc; `Release`
lets all of them go **from wherever they are**, as the real barrier does. That all
are at the same site is a property, not an assumption.

A graph is a sequence of nodes with the kind of their weight (ordinary, S1, S2, a
fused group, or registered but declined), the input they read (`key`, what
`src1->data` is compared by), the nodes they read, and their height; a product with
registered weights reads that input alone. `out` is the
set of output elements written so far; `partials[t]` is the pass that last filled
row t. Elements are dealt out as in the code (`Slice`, `Phase2Cells`), so that
coverage at uneven sizes is checked and not assumed. A phase lasts from the step
that enters its pc to the one that leaves it, so a reader can overlap a writer.

`StartGraph` begins another graph with whatever the last one left in the groups;
`SetEnabled` loads or clears models between graphs (or, with
`LoadsDuringCompute`, at any time).

### `PQTwoContexts`

Two instances of `PQFusion` with pools of their own and one `group`, `partials`,
`enabled`, `noFuse`: thread t of either pool uses slot t. With `Parallel = FALSE`
one context starts a graph only when the other is done. A pool that rests is one that
has finished a graph: its threads are past the last node.

### `GgmlThreadpool`

The main thread's critical sections with two writes (kickoff, free) are two steps
with `mutex` held in between, because workers read `n_graph`, `stop` and `pause`
without it. A worker's critical sections write nothing others read and are one
step. Polling is two steps, as the two halves of `ggml_graph_compute_thread_ready`
read different words. Waiting on the condition variable releases the mutex
atomically; a broadcast wakes everybody; `SpuriousWakeup` is allowed.

### `GgmlMulMat`

`Prepare` is everything before the barrier of a node, `Product` the head of the
loop over experts, `Compute` one chunk, `Take` the atomic fetch-and-add. The work
buffer holds, per block, the node it was converted for; outputs are the set of
cells computed. The arithmetic of the chunks (`NChunk0`, `Range0`, …) is the code's,
rounding included, with the chunk size as a parameter.

### `PQLoad`

One step per registration call, in the order of `llama_model_base::load_tensors`.
A registry entry is reduced to what decides whether the decode uses it and whose
numbers it holds: mode, ds, shape, the file it came from, a group's offsets.
`Nodes` is the part of the graph builder that chooses between fused and separate
products, `Intercepted` the look-up of the hook.

### `ReproInputs`, `ReproCache`, `ReproPipeline`

One step per command of the Makefile recipes. In `ReproInputs` a file is the revision
its bytes are of, so that "has the pinned digest" is "is of the pinned revision";
`Damaged` stands for a download or a copy that is of none. `verified` and `newer` are
what the recipe can see of the stamp: its contents and the order of the two times.
`Stop` ends preparation between any two steps, `FetchAux` replaces one file.
In `ReproCache` a CSV row is the settings it was measured with. `Fail` ends a
measurement before its file is written, `Kill` interrupts make between any two
commands. `ReproPipeline` lets the measurements open what preparation left:
`measured` carries, as history, the revisions behind the rows. `all` and `demo` may
only begin when inputs are `ready`, and `ready` is given up as soon as they do.

### `ServerQueue`

A step is one critical section, or what a thread does between two. `at[c]` is where an
HTTP thread is, `main.pc` where the loop is, `main.todo` the slots this round of
`update_slots` has still to decode. `onTasks` are the threads inside
`condition_tasks.wait`: a thread leaves it when it is notified, by a timeout or
spuriously, and then looks at its own predicate; `NotifyOne` picks any one. The
second condition variable, of results, is folded into `Receive`: its waiters all
look again at every notification and every second. A request is `Tasks[c]` tasks;
of a parent only the first is posted, with the others inside. A slot keeps the task
it processes, how many results are still to come and whether it waits for its
parent. `answered` is history.

A client leaves in three steps, between which the loop may send: `Stop` unregisters
its ids, `Discard` removes the results that were sent before (one id after the other in
the code; nothing can be added for them any more), `Cancel` posts the cancellations, in
any order, because the code walks an unordered set. Launching a parent launches its
children first; `LaunchFails` is the failure of any of them or of the parent, and
`Drop` releases those that were launched, slot by slot, each release taking up a
deferred task.

### `KVCache`

A cell is its position, its pending shift, its sequences, and, as history, which
sequence its token was first decoded for; `kbuf` holds, for each cell, the value and
the position its vector is rotated for. `seq_pos` and the set `used` of the code are
functions of the cells and are not kept. An operation on sequences is one step. A
decode is one step for everything up to the first micro-batch (`DecodeSplits`: apply
copies and shifts, split, `prepare`) and one for each micro-batch, `Compute` or
`Fail`. `Prepared` is the whole of `prepare`: place all, remember what was there, put
it back in reverse order. `Splits` has the splits in the order the code tries them.
A batch may give its sequences' tokens in any turn (`Turns`): `split_simple` keeps to
it, and `split_equal` takes the sequences in the order in which their first tokens come,
or, with a stream for each, those that follow one another (`Together`). Where the calls
of a context include `noshift`, the graph that would rotate the keys may get no memory:
the decode then goes on with shifts that still wait (`Shifting`), as `decode` does not
look at what `memory_update` returns (`llama-context.cpp:1748`,
`llama-kv-cache.cpp:869-872`), and computes with keys that are not rotated yet.
A window is of positions, or of chunks (`Masked`). A copy within a stream is not made
onto cells that the destination has: `seq_add` asserts that (`llama-kv-cells.h:311`; a
build without assertions counts their positions twice).

## 3. Runs

A mutant of the code (defined in the module as `<operator>_<what is wrong>`, just
before the operator it stands in for) breaks each property of each passing run under
that run's own bounds.

| run | states | shows |
|---|---|---|
| `barrier` | 155 | three threads; the generation counter wraps after two |
| `fusion` | 84 376 | three threads, two graphs, fusion on/off, PQ on/off, aborts |
| `fusion_oversized` | violation | more threads than group slots |
| `contexts_in_turns` | 41 406 | pools of three and two threads share the globals |
| `threadpool` | 230 032 | three threads, three graphs, pauses, a free |
| `matrix_products` | 114 391 | four chains of products on three threads |
| `loading` | 4 962 | six files, two layers, until the arena is full |
| `result_cache` | 35 416 | three settings, two revisions, failures and interruptions |
| `server_queue` | 222 141 | three requests, two slots, sleep, cancel, errors |
| `server_deferred` | violation | a deferred task and idle slots |
| `kv_cache` | 100 701 | ten small contexts, two sequences |
| `kv_window` | violation | a window, three micro-batches in one batch |

Each module states a type invariant. Those of the barrier, fusion, pool, matrix
products, server and cache are theorems (section 5); `KVTypeOK` says more than types
and is checked too; `PipelineTypeOK` and the `TypeOK` of `PQLoad` hold under the same
cfgs when added there, as do `BarrierInv`, `PauseSleeps`, `Finishes`,
`TerminateEnds`, `SideTensorsWin` and `StampHonest`, which are stated in the modules
beside the listed ones (`BarrierInv` and `StampHonest` are proved).

**`barrier`.** `ImplementsBarrier` is the refinement of `BarrierSpec`: nobody leaves
before everybody has arrived. `EveryEntryLeaves`: nobody is stuck. *Bounds*: with
`Width = 2` a waiter that slept through one generation sees the same value again
after the next; the counter would have to miss it if a thread could be two
generations behind. That it cannot (the pool needs it to arrive) is what makes two
values enough, and the proof holds from two on.

**`fusion`.** `BarrierLockstep`: whenever all threads are in the barrier, they are in
the same call of it, at the same node, with equal groups and, in a flush, with equal
members (`ggml-pq.h:38-39`). `ReadsReady`: a thread that computes a node, or copies
its input into the group, finds every element of what it reads. `PartialsComplete`:
a thread that sums rows finds all of them filled by this pass, and nobody filling.
`NothingPending`: no group outlives its graph, aborted or not. `AllComputed`: a
graph that is not aborted has every element computed. `EvaluatesGraph`: what becomes
complete, becomes complete in an order of a dataflow evaluation (`PQDataflow`).
`Terminates`: no barrier waits for ever. *Bounds*: three threads are the fewest of
which two can be ahead of, or behind, a third. `MaxGroup = 2` (4 in the code) makes
the third product on one input overflow a group. The graph `Layer` is a transformer
layer: products that join, consumers that flush, a deferred last node; `Chain` is
what only the hook can order: an S2 product, a fused tensor and further S1 products
on pending outputs, and a last node followed by ones that are skipped. Heights of
one to three make slices of three threads empty, uneven and exact.

**`contexts_in_turns`.** `PoolsApart` is `BarrierLockstep` and `ReadsReady` of both
pools, `TurnsComplete` that both compute their whole graphs, whatever the other left
in the slots. Pools of different sizes, so that one context's group of thread 2 is
never flushed by the other's pool.

**`threadpool`.** `ParametersQuiet` is the comment of `ggml_graph_compute`: "No
worker threads should be accessing the parameters below at this stage".
`RunByItsThreads`: when a graph is done, exactly the threads it was started with
have run it. `GraphsFinish`, `FreeFinishes`: no lost wakeup, in the places where one
would hurt. *Bounds*: three graphs, so that a worker can take
part, be left out and take part again; one round of polling (131 072 in the
code, per polling level), as a worker may find any state in any round; a plan may
ask for one thread more than there are.

**`matrix_products`.** `ComputedOnce`, `NodesComplete`: chunks, stolen or by
thread, cover every cell of every product exactly once. `ReadsThisNode`: nobody
computes with a work buffer or row table of another node. `PairsInside`: with two
rows and columns at a time, a pair lies in one matrix and one chunk. *Bounds*:
chunks of 2 and 3 (16 and 64) let shapes up to 34 have more chunks than 4 × 3
threads, which are stolen, and fewer, which go by thread; odd and even sizes; fewer
rows than threads; experts with many rows, one, none.

**`loading`.** `GroupsSound`: what a group's entry says of its members is so, also
between the steps of a load and after a member was registered again.
`PoolSuffices`: any four registered S1 tensors fit the partial sums, so no flush
moves them under the other threads. `UsesOwnWeights`: a decode uses quantized
weights of its own model or none. `RegisteredAreUsed`: what was quantized is used.
*Bounds*: the six files are a converted model, an all-S2 one, one without side
tensors, one with a damaged side tensor and k/v too small to quantize, one with a
native fused QKV, and a converted one of mixed types: together they take every
branch of registration. Two layers, so that an error of one layer could reach the
other's names. Nine fused tensors (128) are used up in the third load.

**`result_cache`.** `ReuseMatches` is the promise of `README.md:100-102`: what `demo`
reuses was measured, completely, with the settings in force; `PlotMatches` says the
same of what it plots. `EdgePQPrepared`: inputs that passed `check-inputs` are of the
revision in force. `MeasuredAsPinned` composes the two: the EdgePQ files behind the
rows that are reused or plotted are of that revision. *Bounds*: one setting is
recorded, one interrupted, one more is asked for; the last two share their revision of
EdgePQ, so that a cache can be stale while the inputs are not; two checkpoint files,
so that an interruption can leave one of each revision. The run excludes what
section 6 shows to go wrong: failing measurements of `demo`, and the constants
`Standalone` and `Again`.

**`server_queue`.** `OnePlace`: a task is in one place at most, and one whose last
result was sent is nowhere. `NoneLost`: a client that waits for results has each of
its tasks answered with a result that it has or will find, or still somewhere.
`NothingLeftBehind`: no result outlives its request. `SleepsEmpty`: a server whose
model is unloaded has no busy slot and handles nothing. `Served`: whoever asked is
done in the end, unless the server is ended or a deferred task is `Stranded`, which is
what `server_deferred` shows; `DoneAreGone`: a finished request leaves nothing in
queues and slots. *Bounds*: two slots and a request of a parent with a child that
needs both, so that it is deferred by either of the others, that may fail at its
launch before or after its child got a slot, and whose connection may be closed; one
that streams two results and may fail in any decode, so that a client leaves with one
result received and one under way; one that names a slot and needs none, which is what
strands another. Any of them may find the server asleep, and the server may be ended
while it waits for tasks or sleeps (`EndsIn`: elsewhere the loop is not in a wait and
sees the flag when it next looks; the theorems hold for every `EndsIn`).

**`kv_cache`.** `KFollowsCells` relates the two halves of every operation: the vector
in the buffer is that of the very token the cell claims, at the position the cell had
before its pending shift, once pending copies are made. `ShiftsKnown`: no shift waits
in a stream that does not say so, nor, unless a shift can fail, while micro-batches
are computed. `SlotsStillUsable`: what `prepare` found for a micro-batch is still
usable after the ones before it were placed for good. `PrepareRestores`: the trial
leaves the cells as they were, when a place was found for the whole batch, and without
a window also when none was. `WindowKept`: no position that the next token can look at
is lost by overwriting, purging or a failure. `UbatchFits`. *Bounds*: micro-batches of
two tokens and batches of up to three, so that a batch takes two or three of them; two
to four cells, so that caches fill, wrap and run out; ten contexts, because what needs
each other must be in one (copies and moves; failures and windows; moves and shifts
that fail) and what does not would only multiply the states. Windows, and chunks, of
two positions are in contexts with a stream for each sequence: with one stream
`kv_window` is the counterexample. They have room for two batches of three tokens, or,
where streams are copied, for one token less.

## 4. Fairness

*Barrier, pool, fusion*: weak fairness of each thread's step, which is what an
operating system's scheduler gives to runnable threads, and of the barrier's release
where the barrier is abstract, which is what `GgmlBarrier` shows of the spin
barrier. In `GgmlThreadpool` only the main thread's obligations (`MainStep`: what it
has begun it goes on with) are fair; whether it starts another graph, pauses or frees
the pool is up to the program. In `GgmlMulMat` it is enough that *some* thread that
can run does (`WF_vars(Work)`), so its `Finishes` says that no order of stealing
starves the node.

*Server*: weak fairness of the main loop's step and of each HTTP thread's, until the
loop has returned. Not fair: falling asleep, termination, closed connections and
spurious wakeups. A `MainTimeout` is among the loop's steps because the code waits one
second at a time; a sleeping loop has no timeout, and `Served` rests on notifications
alone there.

The reproduction modules, `PQLoad`, `PQTwoContexts` and `KVCache` state no liveness
and assume no fairness.

## 5. Proofs

All theorems are checked by TLAPS for every value of the constants that satisfies the
modules' named assumptions. The assumptions only give constants their types
(positive pool sizes, well-formed graphs and files); TLC evaluates them in the runs.

One thing to know when extending them: for an obligation in which `Len` or `<<>>`
occurs, TLAPS 1.4.5 tells Z3 that `DOMAIN s = 1 .. Len(s)` for every `s`, functions on
other sets included. That is contradictory as soon as the obligation also knows of a
function with 0 in its domain, such as one over `Thread`, and a wrong leaf can then
pass. The leaves here that contain such an obligation were proved a second time with
that axiom restricted to sequences, and split where they needed it.

**`PQFusionProofs`.**
- `FusionTypes`: `TypeOK`, for every pool, number of slots and graphs. That a group
  never has more members than its arrays hold is part of it.
- `FusionLockstep`: if every thread has a slot and no model is loaded during a
  graph (`AllSlots`), then `BarrierLockstep`, for every pool and all graphs, aborts
  included. The induction is over `Lockstep`: there is one state `Arrival`
  in which every thread meets in the next barrier, computed from where it is now
  (its pc, node, group and the switches), and it is the same for all threads. A
  thread's steps do not change its own arrival; the release changes all alike. The
  abort is the delicate step: thread 0 may only set a node that no thread has
  passed, which the same invariant gives.
- `FusionLeavesNothing`: if no model is loaded during a graph, `NothingPending`,
  from `PendingInside`, for every pool and number of slots, also without lockstep:
  a group is only ever active in a thread that has a slot, PQ on, and its graph's
  last flush still before it.
- `FusionPartials`: `PartialsComplete` from `PassInv`, whose parts say that all
  threads in a pass are in the same one (`PassSync`), and that a thread past phase 1
  has filled its row (`RowFilled`), all of them once the barrier is passed
  (`RowsFilled`). It rests on `FusionLockstep`.

Its second part is about the data. Under `AllSlots`, and `AllTaken` (the hook declines
no product on a registered tensor; `MCDeclined`, section 6, shows that without it
`ReadsReady` does not hold): `FusionReadsReady` (`ReadsReady`), `FusionComputesAll`
(`AllComputed`) and `FusionEvaluates` (`EvaluatesGraph`).
- As numbers: the threads' slices of a range cover it, rounding down or not
  (`SlicesCover`, `SliceInside`), so a node or a pass of which every thread has written
  its slice is complete (`OwnCovers`, `PassCovers`).
- As threads: what the properties speak of is true only at barriers, so the invariant
  `Reliable(t)` says what a thread can rely on wherever it is. All nodes behind it are
  complete or `Pending`, that is, in its group or in the pass that took it (`Behind`);
  of the node it is done with, its own slice is written or pending (`Shared`); a
  group's members have complete inputs (`Sound`), are whole nodes and come after their
  common input (`GroupKept`).
- Both halves meet at the release: by `Lockstep` all threads are at one call, each has
  its `Shared` or `Summed` share, hence the node or the pass is complete (`NodeEnds`,
  `PassEnds`).
- `Ready` is where the hooks are needed. A thread that is about to compute may only
  have pending what its node does not read: an ordinary node comes behind a flush
  (`Flushed`), and a registered product reads its input alone, which the members of the
  group it joins do not write.

**`PQTwoContextsProofs`.** `TurnsKeepApart` (`PoolsApart`) and `TurnsComputeAll`
(`TurnsComplete`) under `InTurns`: one context at a time, a slot for every thread of
either pool, no product declined. Nothing of `PQFusion` is proved a second time. Each
pool is given a view of the globals: the groups as long as the other one rests, no
groups while the other computes (`SeenA`, `SeenB`), and its own rows of the partial
sums (`RowsA`, `RowsB`). Seen that way, a step of the pool is a step of `PQFusion`, a
step of the other one changes nothing but rows, which a resting pool does not read
(`KeepsResting`), and the other's last step only lets the view show what has been
there: no groups. That needs what `SharedInv` adds to the invariants of the two pools:
one of them rests (`Turns`), and a slot nobody computing owns has no group
(`LeftAlone`), which is why a pool may leave the slot of a thread the other does not
have without anybody flushing it.

**`PQLoadProofs`.**
- `LoadPool` (`PoolSuffices`): for all files and all orders of loads. `PoolInv`
  bounds `4 * KMaxThreads` times every registered S1 height by the pool; the
  theorem is then arithmetic on four heights.
- `LoadGroups` (`GroupsSound`): `GroupInv` adds, for the layer being loaded, which
  members are registered so far, and that no step registers a name whose group
  stands (single tensors skip them because `wqkv`, `ffnUp` are set exactly when the
  group is registered).
- `LoadOwnWeights` (`UsesOwnWeights`), if models are loaded one at a time and none
  without PQ decode once it is on (`OneAtATime`). Both conditions are needed:
  section 6 has a counterexample for each.
- `LoadUsed` (`RegisteredAreUsed`), without any such condition: `UsedInv` adds to
  `GroupInv` that wherever the layer being loaded takes its fused tensor, the group's
  entry is there with the dimensions the hook compares (`StandsFor`, `Kept`), although
  entries of other models are replaced and dropped meanwhile; and that no layer of a
  model not yet loaded is fused (`Fresh`), so that what `Kept` speaks of was registered
  by this load.

**`ReproCacheProofs`.** All under `Undisturbed` (no failing step in `demo`, no
stand-alone target, nothing used again after something else), for any set of
settings, revisions and files.
- `CacheReuse`, `CachePlot`: `CacheInv` says that a stamp of the settings in force
  stands for files measured with them, and how far a running target has got. Each of
  the three conditions is needed; section 6 gives the counterexamples.
- `PipelineStamp` (`StampHonest`), `PipelinePrepared` (`EdgePQPrepared`): `FilesInv` says
  what is already of the pinned revision at each place of preparation, and that the
  stamp of checkpoint and tokenizer names a revision that was asked for: a new one it
  cannot vouch for. The model's stamp was written after the model it names, and is
  removed before another one is downloaded.
- `PipelineMeasured` (`MeasuredAsPinned`): `MeasuredInv` follows the revisions behind
  the rows through the running target; `CacheInv` then gives that what is reused was
  measured with the settings in force.

**`GgmlThreadpoolProofs`.** For every number of threads, polling rounds and graphs:
`PoolTypes`, `PoolQuiet` (`ParametersQuiet`), `PoolRunsGraph` (`RunByItsThreads`).
`PoolInv` says that the numbers of graphs only grow, and nothing is ahead of the one
announced (`Numbered`); that whoever is in a graph belongs to it and saw its word
(`Inside`) and only these have computed it (`Computed`); and that once a graph is
closed nobody is in it and each of its threads was (`Done`). The last part is what
both properties need, and it holds because the main thread goes on only after a
barrier with all of the graph's threads.

The last part of that module is about the spin barrier, an instance (`Spin`) of
`GgmlBarrier` for the same pool and any width of at least two (`Wide`):
`BarrierTypes`, `BarrierInvariant`, `BarrierRefinement` (`ImplementsBarrierSafely`).
`BarrierInv` is inductive together with `TypeOK`. The
part that matters is `EntryFresh`: a thread that has read the generation and not yet
arrived has read the current one. Without it, the value may be an old one and the
thread would fall through. It is preserved because only the last thread changes the
generation, it does so only when all are held (`LastMeansAll`), and a thread about
to arrive is not held. `CountExact` ties the count to the number of held threads and
needs the lemmas on cardinalities at its head. Each step then maps to
an arrival, the release, or a stutter.

**`GgmlMulMatProofs`.** For every number of threads, blocks and experts, all shapes
and chunk sizes:
- `MulMatReads` (`ReadsThisNode`): all threads are at one node and on one side of its
  barrier (`Sync`); a thread past `Prepare` has left its blocks, its counters and the
  row table behind (`Prepared`); the threads' blocks cover the work buffer
  (`BlocksCover`).
- `MulMatPairs` (`PairsInside`): a chunk that is even in length starts at an even
  column, because it starts at a multiple of the full length and a matrix of even
  width ends at an even column (`EvenStart`, `EvenNeighbours`).
- `MulMatOnce` (`ComputedOnce`) and `MulMatComplete` (`NodesComplete`): as a matter of
  numbers, chunks do not overlap, stay inside and cover the output (`ChunksApart`,
  `ChunksInside`, `ChunksCover`). As a matter of threads, a chunk is `Open` as long as
  somebody may still compute it: the thread of its number before it gets to that
  product, the thread that has it, or the next to ask the counter. No step opens a
  chunk (`NotOpened`); only who is at it closes it (`Closed`), because two threads at
  one product never have the same chunk (`Apart`): a chunk is its thread's number, or
  was taken from a counter that started past all numbers (`Held`). Open chunks
  are untouched, closed ones are computed (`Untouched`, `Covered`). A thread leaves a
  product only when its counter is past the last chunk (`Left`), so at the barrier
  none is open.
- `MulMatTypes` (`TypeOK`): what is hard in it is the bound on the counter, which the
  code lets run past the last chunk. `Counted` counts those who asked in vain: the
  counter is at most the larger of threads and chunks, plus one for each thread that
  has left the product, and a thread leaves it once (`CounterIsBounded`).

**`ServerQueueProofs`.** For every set of clients, slots and tasks: `ServerTypes`,
`ServerOnePlace` (`OnePlace`), `ServerNothingLeft` (`NothingLeftBehind`),
`ServerNoneLost` (`NoneLost`), `ServerSleepsEmpty` (`SleepsEmpty`). None of the four
properties is inductive; `ServerInv` has three parts.
- `PlacesInv`, where tasks are. A task is once in each place (`NoDuplicates`) and in
  one place (`Exclusive`); one that was answered is at most in the slot released next
  (`AnsweredIsOver`). This survives a launch, also one that fails half-way, only
  because children are never by themselves in a queue (`ChildrenTravel`) and are in no
  slot while their parent is still on its way (`ParentFirst`; `TakenUpPlaces` says it
  once for every way to take up a task); and a post only because nothing of a request is
  anywhere before it is posted (`NotPosted`).
- `ResultsInv`, what was sent. Ids are registered from before the post until nobody
  receives any more (`Registered`), which is the order of registering and posting that
  `server-queue.cpp:370` insists on; results are only of registered ids, or of a
  client about to remove them (`Expected`), and a task's last one comes once, behind
  its partial ones (`LastOnce`, `LastComesLast`). `Counted` says it in numbers: last results sent are received or in
  the queue. Receiving moves one from the queue to the client, and that it is one is
  `LastOnce`. At `stop` it is an inequality: an error was sent, and not counted as
  received.
- `SleepInv`. `NextQueued`: while a slot is busy and the loop is about to wait, another
  round is in the queue, so the queue is not empty and the server does not fall asleep.

The queues are read through `In` and `Once`. What appending, removing one and thinning
do to them is stated once (`AppendIn`, `TailKept`, `RemoveAtKept`, `ThinnedKept`, for any sequence)
in terms of a map from new places to old ones. That thinning keeps the order and loses
nothing is an induction over the places kept: it is done with the least place that
would fail (`Least`, from well-foundedness), since induction rules are out of reach.
The only assumptions are the types of the constants and that `NoTask` is no task.

**`KVCacheProofs`.** For every set of sequences, every `n_ubatch`, all contexts, calls
and batches in any turn: `KVTypes` (`KVTypeOK`), `KVShifts` (`ShiftsKnown`), and
- `KVFollows` (`KFollowsCells`) in every `Regular` context, whatever the other contexts
  are: where it divides, divisions leave positions as they are (`DivisionKeeps`), and
  batches that share tokens do not fail. Every context of the `kv_cache` run is one;
  section 6 has a counterexample without each of the two.
- `KVFits` (`UbatchFits`), if `n_ubatch` is no less than the number of sequences;
  section 6 has a counterexample without.
- `KVSlots` (`SlotsStillUsable`), `KVKeepsText` (`WindowKept`) and `KVRestores`
  (`PrepareRestores`) where there is no sliding window: the first two in every context
  with `window = 0`, the last, a property of steps, if all contexts are such
  (`NoWindow`). With a window they do not hold for every context: `kv_window` refutes
  `WindowKept`, and `SlotsStillUsable` fails under the same constants. For small
  contexts with a window and a stream for each sequence `kv_cache` checks them.

The invariant of the first two is `Held`. `Typed` says what `KVTypeOK` says, what the
buffers hold, that every waiting micro-batch has as many different cells as tokens, and
that copies of streams are done before micro-batches wait. `Waits` says of these
micro-batches what the splits promise: a sequence's tokens come in their order, a token
has one sequence where batches are not shared, none is too large. `ShiftsKnown` and
`KFollowsCells` are inductive on top of it: an operation that keeps or empties cells
(`Kept`) keeps both (`KeptOperation`), so what is left are moves, copies of streams, the
next decode, which applies to the buffer what it takes from the cells (`ShiftedIs`), and
computing, which writes cell and buffer at one place (`StoredIs`). Why `Regular`
excludes failures of shared batches: of a failed micro-batch only what its tokens' first
sequences hold is taken back (`DroppedFresh`), which is all of a token that has one.

For contexts without a window the invariant (`KVInv`) also has `Settled`: the user's
text is in the cells, the tokens that wait come after it (`Beyond`), and their cells are
empty, those of different micro-batches apart (`FreeFor`). A failure takes back no more
than is `Beyond`. That `prepare` leaves this behind is the longest argument. `Chain`
describes a trial as the cells before each micro-batch and after it; undoing the last
one gives the cells before it (`UndoneFree`), so undoing all gives those at the start
(`UndoneExactly`); with a window it gives less (`UndoneLess`), and types only need that.

What the model computes place by place (copies, splits, trials, undoing) are recursive
functions over intervals. Each has a lemma for one step (`CopiedOneMore`, `TakenEqual`,
`TryIs`, `UndoneCell`), a set or predicate that the step stays in, and `Recursion`, which
says that iterating a step that stays in a set stays in it; it is proved with the least
number that fails (`Least`), since induction rules are out of reach. No step of a split
needs to know which tokens it gets, only that they are of the batch and in order
(`From`, `Ascending`), and of the sequences it takes only that they differ (`Lists`,
`Selected`), which is why theorems hold for every batch in any turn (`TurnsAre`).

Model-checked only: everything temporal but safety (`EveryEntryLeaves`, `Terminates`,
`GraphsFinish`, `FreeFinishes`, `Served`, `DoneAreGone`), which is out of the prover's
reach, and of `KVCache` what the hypotheses above leave out: sliding windows, batches
that share tokens and fail, and the moves of a division.

## 6. What was found

Three runs end in a violation, each of something the repository says of itself
(`PROJECT.json`, `findings`).

1. **More threads than group slots** (`fusion_oversized`, `pq-gemv.cpp:953`). A pool
   may have 512 threads, `g_s1_group` has 256 slots. The threads beyond compute at
   once what the others defer, with another number of barriers; the pool pairs
   barriers of different calls and sums rows that nobody filled.
2. **Deferred tasks are stranded** (`server_deferred`, `server-queue.cpp:77`).
   `server-queue.h:41` says of `defer`: "Add a new task, but defer until one slot is
   available". A release takes up one deferred task; if that one needs no slot (a slot
   save), was cancelled, fails to launch or needs two slots, the next stays deferred
   though slots are idle, until some later request releases one.
3. **A window loses a token** (`kv_window`, `llama-kv-cache.cpp:801`). The comment at
   `:793` says "iterate backwards and restore the cells to their original state", but
   only the cells of the slots are put back. `apply_ubatch` also purges other cells of
   a sequence when a slot overwrites a masked one; a later micro-batch of the same batch
   purges what the first one still attends to, and nothing brings that back.

The modules show more than the listed runs. Each of the following needs only other
values of the constants, or a property that no cfg lists:

- `PQFusion` with `Graphs <- MCDeclined` violates `ReadsReady`: before a
  decode-shaped product on a registered tensor the boundary hook does not flush,
  because the fused hook will (`pq-gemv.cpp:994`); but that one returns without
  flushing when it declines the product (`GGML_PQ_DISABLE_S1`/`_S2`, other
  dimensions), which is then computed from an input that is still pending.
- `PQFusion` with `LoadsDuringCompute = TRUE` violates `BarrierLockstep`: the switch
  is read by each thread at each hook, so loading a model while another context
  computes splits its pool.
- `PQLoad` with `Together = TRUE` violates `UsesOwnWeights`: a second model loaded
  with PQ decode takes the registry away from the first (a draft and a target
  model, say).
- `PQLoad`, property `SurvivesLoading`, with a small arena: the fused tensors of every
  load stay in one static context of 128 (`llama-pq.cpp:364-371`), which a
  32-layer model fills with its second load; the third aborts. `llama-pq.h:63-64`
  says the storage is "freed at the next model load". With a file of a native
  fused QKV it fails at the first load: registration asks for the names of q, k and
  v, which are null (`llama-model.cpp:1662`).
- `PQLoad`, property `ParametersCount`: members of fused groups without side tensors
  are always S1 with ds 2 (`llama-pq.cpp:409`, `llama-model.cpp:1689-1691`), while
  `docs/pq.md:142` says that `--pq-ds` overrides ds.
- `ReproCache` with `Standalone = TRUE` or `Again = TRUE` violates `ReuseMatches`:
  `make benchmark`, `make ppl` and `make pq-ppl` rewrite the files and leave the stamp,
  and so does a `make all` that is interrupted while results are recorded. With
  `DemoStepsFail = TRUE` it violates it, too: the commands of `demo` are joined by
  semicolons without `set -e` (`Makefile:180`), so the key is recorded after a failed
  measurement.
- `ReproPipeline` violates `BaselinesAsPinned`: a baseline that exists is reused
  whatever revision it is of (`Makefile:284`), while the cache key names
  `Q2_REVISION` (`Makefile:24`) and `README.md:98` speaks of stale inputs. With
  `Again = TRUE` it violates `EdgePQPrepared`: checkpoint files of another revision
  replace the old ones one by one while the stamp stays; interrupted, and asked for
  the old revision again, the stamp vouches for a mixture. A dataset of which only a
  part was saved is never repaired: its directory exists, and the measurements fail.
- `PQTwoContexts` with `Parallel = TRUE` violates `PoolsApart` (`pq-gemv.cpp:605`):
  thread i of one pool joins, flushes or takes the group of thread i of the other.
  `tests/test-thread-safety.cpp` runs contexts in parallel (without PQ).
- `PQLoad` with `Plain = TRUE` violates `UsesOwnWeights` (`llama-model.cpp:1642`):
  registry and switch outlive their model, and a model loaded without PQ decode has
  tensors of the same names and shapes. `llama-bench -pd 1,0` does this.
- `PQLoad` with `Files <- OtherModels` violates `FusionKeepsTheGraph`
  (`llama-model.cpp:1658`, `:1684`, `llama-graph.cpp:1604`): biases of q, k and v are
  dropped, and an FFN that is not SwiGLU takes the fused gate/up tensor for its up
  projection.
- `ServerQueue` with `SleepsLate = TRUE` violates `Served`: a server that falls asleep
  between a client's check and its post has a task in its queue that the sleeping loop
  does not look for (`tools/server/README.md:1993` lets the idle time be short). A task
  that the loop has in its hand when it is cancelled, and that it then defers, stays
  deferred: the cancellation only looked at the queues.
- `ServerQueue` with `pair` in `MCFaulty` violates `DoneAreGone`: such a task, a parent
  this time, is launched later with nobody left who could cancel it. When its prompt
  fails (`server-context.cpp:2674`) its slot is released, but its child waits for it in
  its own (`:3042`) for ever; the slot is lost, and the loop asks for rounds without end.
- `KVCache` with `Contexts <- MCDividing`, `Divided <- MCAllDivided` violates
  `KFollowsCells`: `pos_div` adds the old position less the new one to the shift
  (`llama-kv-cells.h:451`), `pos_add` the new less the old (`:420`).
- `KVCache` with `Ubatch = 1` violates `UbatchFits`: `split_equal` takes one token of
  each of `n_ubatch + 1` sequences (`llama-batch.cpp:547`).
- `KVCache` with `Contexts <- MCShared` violates `KFollowsCells`: a failed micro-batch
  takes back the tokens of `seq_id[i][0]` only (`llama-context.cpp:1833`, where the
  comment at `:1825` says "remove all positions of that ubatch"). The other sequences of
  a shared token keep its cell, with a K vector that was never computed. This was met
  when `KFollowsCells` turned out not to be inductive over `Fail`.
- `KVCache` with the constants of `kv_window` violates `SlotsStillUsable` too: once a
  position is lost, its sequence ends earlier, and a cell that was out of its window
  when it was found is in it when it is overwritten.
- In `KVCache` as it is translated: `prepare` restores heads by the number of the
  group, not of the stream (`llama-kv-cache.cpp:802`); with a window, a batch for which
  no cells are found has lost what its trial purged, while `llama.h:968` says that the
  state is restored (this is why `PrepareRestores` speaks of cells only, and of batches
  that find no place only without a window); moving the positions of one sequence moves shared cells of all.

Seen while reading, without a model: `docs/pq.md:177` explains an error, "wrong number
of tensors", that `done_getting_tensors` no longer raises for such files
(`llama-model-loader.cpp:1324-1333`); `pq-selftest.cpp:106` negates the error before
comparing it; `pq-gemv.cpp:878` subtracts a correction over the whole input where its
comment speaks of whole blocks; `llama-model.cpp:1724` uses `params.pq_ds` where the
checked copy is another one; the graph number of the pool shares a word with the
thread count and wraps after some 2^15 graphs (`ggml-cpu.c:3360`); `pq-chat` sends a
whole conversation as one batch (`pq-chat.cpp:249`); a parent with an empty prompt is
answered and released (`server-context.cpp:3081-3088`) before its children are activated
(`:3655`), so that they wait until they are cancelled.

## 7. Abstractions, and what is not modelled

**Numbers.** The GEMVs, k-means and conversions to int8 and fp16 are abstracted to
which elements are read and written, by whom and when, and to the origin of a
quantized tensor. Whether the arithmetic is right is for numerical tests.

**Barrier.** In an OpenMP build `ggml_barrier` is `#pragma omp barrier`, which is taken
to keep `BarrierSpec`. All modules but `GgmlBarrier` use the abstract barrier: threads
arrive one by one, the pool leaves in one step. A thread that is still on its way out
only reads `n_barrier_passed`, so nothing else tells the two apart.

**Memory order.** Interleavings of single accesses. The program's own data is
published by the barriers (sequentially consistent read-modify-writes); the relaxed
reads of `stop`, `pause`, `n_graph` and `abort` are of single words whose order is
covered by mutex or barrier.

**`PQFusion`.** An `RMS_NORM` and `MUL` computed by `ggml_cpu_try_fuse_ops` are one
node. The comparison `g.key == key` is of addresses; in the model of nodes: an
allocator that gives a new tensor the address of the pending group's input, while
that group is pending, is not considered (the group holds a copy of the input, but
would compute the wrong one; the tensors a pending group writes keep their buffers).
NUMA striping changes where the weights are, not who computes what.

**`GgmlThreadpool`.** The word `n_graph` does not wrap; priorities and affinities are
left out. **`GgmlMulMat`.** The llamafile and FWHT paths return before any of what is
modelled; the disable-chunking switch is `Numa`.

**`PQLoad`.** Loads are not
concurrent with each other (`llama_pq_begin` takes no lock), side tensors have the
shape of the tensor they belong to.

**Reproduction.** A failing measurement leaves its file as it was, which is what the
programs do: they write it at the end. `hf download` puts a file there whole or not at
all; revisions have different digests; preparation and measurement are not run twice
at the same time.

**`ServerQueue`.** What a slot computes is its number of results; a prompt is processed
in one decode. A decode that fails for all slots at once, metrics, LoRA, and slot
restore and erase (which answer as slot save does) are left out, as are a second
request of the same client and waits that only poll. The time that must pass before
the server sleeps is `MaySleep`: long enough for who has just looked, unless
`SleepsLate`. When the loop has returned the process ends.

**`KVCache`.** Attention is who may look at what (`WindowKept`), not numbers. A cache
with a window is one of a pair, whose other one is taken to be large enough. Symmetric
windows (`llama-hparams.h:392`) are left out: the models that have them have no KV cache
(`llama-model.cpp:2137-2153`). A K-shift graph may fail to get its memory, but not while
it computes, when it may have rotated some of the keys. Also left
out: saving and restoring of sequences (also with shifts pending), M-RoPE positions,
embeddings, caches that share another's cells, recurrent and hybrid memories, output
buffers, and defragmentation, which this version does not have.

**Not modelled**: kernels and k-means (above); `llama-pq-convert` and
`export_pq4c8b.py` (one pass from file to file); `pq-selftest`, the `llama_pq`
benchmark and `plot_results.py` (sequential programs whose interesting order is in
`PQLoad`, `GgmlThreadpool` or `ReproCache`); `pq-chat` (one sequential loop, planned);
of upstream llama.cpp: the code of other backends (two thirds of all lines: kernels
for other devices, which PQ decode switches off), allocator and scheduler, model
architectures, samplers and grammars, the server's HTTP layer, routing and UI, tools,
and conversion scripts, which PQ decode does not change. That is why the modelled
lines are a small part of the repository: they are the state machines of the program
this repository is about, and of the upstream code it runs through.

**Bounds** are named constants: `MaxGraphs` and `PollRounds` (`GgmlThreadpool`),
`Width` (`GgmlBarrier`), `ArenaSize` (`PQLoad`; 128 in the code), `MaxGroup`,
`KMaxThreads` (`PQFusion`; 4 and 256), `Tokens` (`ServerQueue`: results of a task),
and, in `KVCache`, `MaxCopies` (copies of streams between two decodes) and each
context's `last` (positions). Theorems hold for all values of the constants of their
modules.

## 8. Plan

What is left, in order of what it would tell:

1. *Saved sequences.* `state_write` and `state_read` of the KV cache beside its
   operations: what a restored sequence finds when shifts or copies were pending.
2. *`PQConvert`.* Conversion, loading and decoding as one chain: what
   `llama-pq-convert` writes is what `PQLoad` takes side tensors to be, and what is
   skipped by one is quantized by the other.
3. *`PQChat`.* History, context limit and batch limit over several turns
   (`pq-chat.cpp:225-300`), on top of `KVCache`.
4. *Allocation.* A deferred product writes when the allocator may already have given
   its neighbours away: buffer lifetimes of `ggml_gallocr` against the flush.
