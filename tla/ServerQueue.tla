---------------------------- MODULE ServerQueue ----------------------------
(***************************************************************************)
(* The request path of llama-server (tools/server/server-queue.cpp, and    *)
(* what server-context.cpp does with tasks): HTTP threads put tasks into   *)
(* one queue and wait for results in another, the main loop takes tasks,   *)
(* gives them slots or defers them, decodes, sends results, and sleeps     *)
(* when idle.                                                              *)
(*                                                                         *)
(* A step is one critical section, or what a thread does between two.  The *)
(* condition variable of the tasks has waiters of two kinds, the main loop *)
(* and HTTP threads that want the server awake: a thread is in onTasks     *)
(* until it is notified, wakes up by itself or times out, and then looks   *)
(* at its predicate.                                                       *)
(***************************************************************************)
EXTENDS Naturals, Sequences, FiniteSets, SequencesExt

CONSTANTS
    Clients,        \* HTTP threads, each with one request
    Tasks,          \* how many tasks the request has
    Kind,           \* "tasks", "parent" (the other tasks are its children) or "action" on a slot
    Rejected,       \* clients whose tasks may fail when they are launched
    Faulty,         \* clients whose tasks may fail in a decode
    WantSlot,       \* the slot the request names, or AnySlot
    Impatient,      \* clients whose connection may be closed
    Slots,
    AnySlot, NoTask, Main,
    Tokens,         \* results of each task of a client: all but the last are partial
    Sleeps,         \* does the server sleep when idle?
    SleepsLate,     \* may it fall asleep between a client's check and its task?
    EndsIn          \* where the main loop may be when the server is ended

ASSUME ServerAssumption ==
    /\ IsFiniteSet(Clients)
    /\ Tasks \in [Clients -> Nat \ {0}]
    /\ Kind \in [Clients -> {"tasks", "parent", "action"}]
    /\ Slots \subseteq Nat /\ IsFiniteSet(Slots) /\ Slots # {}
    /\ WantSlot \in [Clients -> Slots \union {AnySlot}]
    /\ AnySlot \notin Slots
    /\ Impatient \union Rejected \union Faulty \subseteq Clients
    /\ Main \notin Clients
    /\ Tokens \in [Clients -> Nat \ {0}]
    /\ {Sleeps, SleepsLate} \subseteq BOOLEAN

Ids(c) == {<<c, i>> : i \in 1 .. Tasks[c]}
TaskIds == UNION {Ids(c) : c \in Clients}

ASSUME NoTaskAssumption == NoTask \notin TaskIds

Client(id) == id[1]
IsParent(id) == Kind[Client(id)] = "parent" /\ id[2] = 1
Children(id) == IF IsParent(id) THEN Ids(Client(id)) \ {id} ELSE {}

VARIABLES
    running, sleeping, reqStop,
    queue,      \* queue_tasks
    deferred,   \* queue_tasks_deferred
    onTasks,    \* the threads waiting on condition_tasks
    waiting,    \* waiting_task_ids
    results,    \* queue_results
    slots,      \* what each slot processes
    main,       \* where the main loop is, the task it handles, the slots to decode
    at,         \* where each client is
    received,   \* received_count
    answered    \* the tasks whose last result was sent (history)

mainVars == <<slots, main, answered>>
clientVars == <<at, received>>
taskVars == <<running, sleeping, reqStop, queue, deferred, onTasks>>
resultVars == <<waiting, results>>
vars == <<taskVars, resultVars, mainVars, clientVars>>

Idle == [id |-> NoTask, left |-> 0, waits |-> FALSE]
Busy == {s \in Slots : slots[s].id # NoTask}

Init ==
    /\ running = TRUE /\ sleeping = FALSE /\ reqStop = FALSE
    /\ queue = <<>> /\ deferred = <<>> /\ onTasks = {}
    /\ waiting = {} /\ results = <<>>
    /\ slots = [s \in Slots |-> Idle]
    /\ main = [pc |-> "tasks", task |-> NoTask, todo |-> {}]
    /\ at = [c \in Clients |-> "new"]
    /\ received = [c \in Clients |-> 0]
    /\ answered = {}

-----------------------------------------------------------------------------
(* The two queues. *)

(* The sets of waiters that notify_one can leave. *)
NotifyOne(threads) == IF threads = {} THEN {{}} ELSE {threads \ {t} : t \in threads}

(* What is left of a queue when only the elements at the places in keep    *)
(* stay: the k-th is the one with k - 1 kept ones before it.               *)
Thinned(seq, keep) ==
    [k \in 1 .. Cardinality(keep) |->
        seq[CHOOSE i \in keep : Cardinality({j \in keep : j < i}) = k - 1]]

Without(seq, ids) == Thinned(seq, {i \in DOMAIN seq : seq[i] \notin ids})

(* server_response::send: only for ids that somebody waits for. *)
Send(id, kind) ==
    IF id \in waiting
    THEN results' = Append(results, [id |-> id, kind |-> kind])
    ELSE UNCHANGED results

Task(id) == [type |-> "task", id |-> id]

\* Mutant of PopDeferred: the task is copied, not moved.
PopDeferred_Copies(s) ==
    /\ onTasks' \in NotifyOne(onTasks)
    /\ UNCHANGED deferred
    /\ queue' = IF deferred = <<>> THEN queue ELSE <<Task(Head(deferred))>> \o queue

(* pop_deferred_task: one for this slot if there is one, else the first, to *)
(* the front of the queue.                                                  *)
PopDeferred(s) ==
    /\ onTasks' \in NotifyOne(onTasks)
    /\ IF deferred = <<>> THEN UNCHANGED <<queue, deferred>>
       ELSE LET mine == {i \in DOMAIN deferred : WantSlot[Client(deferred[i])] = s /\ Kind[Client(deferred[i])] # "action"}
                i == IF mine = {} THEN 1 ELSE CHOOSE j \in mine : \A k \in mine : j <= k
            IN  /\ queue' = <<Task(deferred[i])>> \o queue
                /\ deferred' = RemoveAt(deferred, i)

-----------------------------------------------------------------------------
(* HTTP threads. *)

ClientAt(c, pc) == at' = [at EXCEPT ![c] = pc]

(* create_response: wait_until_no_sleep.  The notification is sent before  *)
(* this thread waits itself.                                               *)
Arrive(c) ==
    /\ at[c] = "new"
    /\ IF ~sleeping
       THEN ClientAt(c, "awake") /\ UNCHANGED <<reqStop, onTasks>>
       ELSE /\ ClientAt(c, "waits awake")
            /\ reqStop' = TRUE
            /\ \E rest \in (IF reqStop THEN {onTasks} ELSE NotifyOne(onTasks)) :
                   onTasks' = rest \union {c}
    /\ UNCHANGED <<running, sleeping, queue, deferred, resultVars, mainVars, received>>

Awake(c) ==
    /\ at[c] = "waits awake"
    /\ c \notin onTasks
    /\ IF ~sleeping THEN ClientAt(c, "awake") /\ UNCHANGED onTasks
       ELSE onTasks' = onTasks \union {c} /\ UNCHANGED at
    /\ UNCHANGED <<running, sleeping, reqStop, queue, deferred, resultVars, mainVars, received>>

\* Mutant of Register: the ids are added only after posting.
Register_Late(c) ==
    \/ /\ at[c] = "awake"
       /\ ClientAt(c, "post")
       /\ UNCHANGED <<taskVars, resultVars, mainVars, received>>
    \/ /\ at[c] = "receive"
       /\ ~(Ids(c) \subseteq waiting)
       /\ waiting' = waiting \union Ids(c)
       /\ UNCHANGED <<taskVars, results, mainVars, clientVars>>

(* post_tasks, first half: the ids wait for results before the tasks are   *)
(* posted.                                                                 *)
Register(c) ==
    /\ at[c] = "awake"
    /\ waiting' = waiting \union Ids(c)
    /\ ClientAt(c, "post")
    /\ UNCHANGED <<taskVars, results, mainVars, received>>

(* ... second half: children travel inside their parent. *)
Posted(c) ==
    IF Kind[c] = "parent" THEN <<Task(<<c, 1>>)>>
    ELSE [i \in 1 .. Tasks[c] |-> Task(<<c, i>>)]

Post(c) ==
    /\ at[c] = "post"
    /\ queue' = queue \o Posted(c)
    /\ onTasks' \in NotifyOne(onTasks)
    /\ ClientAt(c, "receive")
    /\ UNCHANGED <<running, sleeping, reqStop, deferred, resultVars, mainVars, received>>

(* recv_with_timeout and next: the first result of one of its tasks.  A    *)
(* thread that waits for one is notified, or looks again after a second:   *)
(* it misses none.  An error stops the rest.                               *)
Receive(c) ==
    /\ at[c] = "receive"
    /\ \E i \in DOMAIN results :
        /\ Client(results[i].id) = c
        /\ \A j \in 1 .. i - 1 : Client(results[j].id) # c
        /\ results' = RemoveAt(results, i)
        /\ received' = IF results[i].kind = "final" THEN [received EXCEPT ![c] = @ + 1] ELSE received
        /\ IF results[i].kind = "error" \/ received'[c] = Tasks[c]
           THEN ClientAt(c, "stop") ELSE UNCHANGED at
    /\ UNCHANGED <<taskVars, waiting, mainVars>>

(* The connection is found closed when the wait times out or between two   *)
(* results.                                                                *)
Disconnect(c) ==
    /\ at[c] = "receive"
    /\ c \in Impatient
    /\ ClientAt(c, "stop")
    /\ UNCHANGED <<taskVars, resultVars, mainVars, received>>

(* stop: nobody waits for the ids any more: results that are sent from now *)
(* on are dropped ...                                                      *)
Stop(c) ==
    /\ at[c] = "stop"
    /\ waiting' = waiting \ Ids(c)
    /\ ClientAt(c, IF received[c] < Tasks[c] THEN "remove" ELSE "done")
    /\ UNCHANGED <<taskVars, results, mainVars, received>>

\* Mutant of Discard: results that are already there are left.
Discard_Leaves(c) ==
    /\ at[c] = "remove"
    /\ ClientAt(c, "cancel")
    /\ UNCHANGED <<taskVars, resultVars, mainVars, received>>

(* ... those that were sent before are removed, if not all is finished ... *)
Discard(c) ==
    /\ at[c] = "remove"
    /\ results' = Thinned(results, {i \in DOMAIN results : Client(results[i].id) # c})
    /\ ClientAt(c, "cancel")
    /\ UNCHANGED <<taskVars, waiting, mainVars, received>>

\* Mutant of Cancels: only the first task is cancelled.
Cancels_First(c) == {<<[type |-> "cancel", id |-> <<c, 1>>]>>}

(* ... and the tasks are cancelled, in whatever order the set of ids has:  *)
(* what waits in a queue is removed, and what runs is told to stop, before *)
(* all other tasks.                                                        *)
Cancels(c) ==
    {[i \in 1 .. Tasks[c] |-> [type |-> "cancel", id |-> order[i]]] :
        order \in {f \in [1 .. Tasks[c] -> Ids(c)] : IsInjective(f)}}

Cancel(c) ==
    /\ at[c] = "cancel"
    /\ \E cancels \in Cancels(c) :
           queue' = cancels \o Without(queue, {Task(id) : id \in Ids(c)})
    /\ deferred' = Without(deferred, Ids(c))
    /\ onTasks' \in NotifyOne(onTasks)
    /\ ClientAt(c, "done")
    /\ UNCHANGED <<running, sleeping, reqStop, resultVars, mainVars, received>>

ClientStep(c) ==
    \/ Arrive(c) \/ Awake(c) \/ Register(c) \/ Post(c)
    \/ Receive(c)
    \/ Stop(c) \/ Discard(c) \/ Cancel(c)

-----------------------------------------------------------------------------
(* The main loop. *)

MainAt(pc) == main' = [main EXCEPT !.pc = pc]

Take ==
    /\ main.pc = "tasks"
    /\ IF ~running THEN MainAt("returned") /\ UNCHANGED queue
       ELSE IF queue = <<>> THEN MainAt("update") /\ UNCHANGED queue
       ELSE /\ main' = [main EXCEPT !.pc = "handle", !.task = Head(queue)]
            /\ queue' = Tail(queue)
    /\ UNCHANGED <<running, sleeping, reqStop, deferred, onTasks, resultVars, slots, answered, clientVars>>

Handled(pc) == main' = [main EXCEPT !.pc = pc, !.task = NoTask]

First == CHOOSE s \in main.todo : \A t \in main.todo : s <= t

Fits(id, s) == s \notin Busy /\ WantSlot[Client(id)] \in {AnySlot, s}

(* The sets of slots that a task, with its children, can be launched in.   *)
Room(id) == {ss \in SUBSET (Slots \ Busy) :
                /\ Cardinality(ss) = 1 + Cardinality(Children(id))
                /\ \E s \in ss : Fits(id, s)}

HandleNext ==
    /\ main.pc = "handle" /\ main.task.type = "next"
    /\ Handled("tasks")
    /\ UNCHANGED <<taskVars, resultVars, slots, answered, clientVars>>

(* No slot, or not enough: the task waits until one is released. *)
Defer ==
    /\ main.pc = "handle" /\ main.task.type = "task"
    /\ Room(main.task.id) = {}
    /\ deferred' = Append(deferred, main.task.id)
    /\ onTasks' \in NotifyOne(onTasks)
    /\ Handled("tasks")
    /\ UNCHANGED <<running, sleeping, reqStop, queue, resultVars, slots, answered, clientVars>>

Launch ==
    /\ main.pc = "handle" /\ main.task.type = "task"
    /\ LET id == main.task.id
       IN  /\ Kind[Client(id)] # "action"
           /\ \E ss \in Room(id), s \in Slots :
               /\ s \in ss /\ Fits(id, s)
               /\ \E child \in [ss \ {s} -> Children(id)] :
                   /\ IsInjective(child)
                   /\ slots' = [t \in Slots |->
                        IF t = s THEN [id |-> id, left |-> Tokens[Client(id)], waits |-> FALSE]
                        ELSE IF t \in ss THEN [id |-> child[t], left |-> Tokens[Client(id)], waits |-> TRUE]
                        ELSE slots[t]]
    /\ Handled("tasks")
    /\ UNCHANGED <<taskVars, resultVars, answered, clientVars>>

(* An action on an idle slot is over with its result: no slot is taken.    *)
AnswerAtOnce ==
    /\ main.pc = "handle" /\ main.task.type = "task"
    /\ LET id == main.task.id
       IN  /\ Room(id) # {} /\ Kind[Client(id)] = "action"
           /\ Send(id, "final")
           /\ answered' = answered \union {id}
    /\ Handled("tasks")
    /\ UNCHANGED <<taskVars, waiting, slots, clientVars>>

(* The n children that are launched first, and the task that comes next.   *)
Foremost(id, n) == {<<Client(id), i>> : i \in 2 .. n + 1}
NextOf(id, n) == IF n = Cardinality(Children(id)) THEN id ELSE <<Client(id), n + 2>>

(* Children are launched one after the other before their parent.  When    *)
(* one fails, or the parent, that is over with an error, and those before  *)
(* are released again.                                                     *)
LaunchFails ==
    /\ main.pc = "handle" /\ main.task.type = "task"
    /\ LET id == main.task.id
       IN  /\ Kind[Client(id)] # "action" /\ Client(id) \in Rejected
           /\ \E n \in 0 .. Cardinality(Children(id)), ss \in Room(id), s \in Slots, to \in SUBSET Slots :
               /\ s \in ss /\ Fits(id, s)
               /\ to \subseteq ss \ {s} /\ Cardinality(to) = n
               /\ \E child \in [to -> Foremost(id, n)] :
                   /\ IsInjective(child)
                   /\ slots' = [t \in Slots |->
                        IF t \in to THEN [id |-> child[t], left |-> Tokens[Client(id)], waits |-> TRUE]
                        ELSE slots[t]]
               /\ Send(NextOf(id, n), "error")
               /\ answered' = answered \union {NextOf(id, n)}
               /\ main' = [pc |-> IF n = 0 THEN "tasks" ELSE "drop", task |-> NoTask, todo |-> to]
    /\ UNCHANGED <<taskVars, waiting, clientVars>>

Drop ==
    /\ main.pc = "drop"
    /\ slots' = [slots EXCEPT ![First] = Idle]
    /\ PopDeferred(First)
    /\ main' = [main EXCEPT !.pc = IF main.todo = {First} THEN "tasks" ELSE "drop", !.todo = @ \ {First}]
    /\ UNCHANGED <<running, sleeping, reqStop, resultVars, answered, clientVars>>

(* The slot that runs the cancelled task is released. *)
HandleCancel ==
    /\ main.pc = "handle" /\ main.task.type = "cancel"
    /\ Handled("tasks")
    /\ IF \E s \in Slots : slots[s].id = main.task.id
       THEN \E s \in Slots :
               /\ slots[s].id = main.task.id
               /\ slots' = [slots EXCEPT ![s] = Idle]
               /\ PopDeferred(s)
       ELSE UNCHANGED <<slots, queue, deferred, onTasks>>
    /\ UNCHANGED <<running, sleeping, reqStop, resultVars, answered, clientVars>>

(* update_slots: nothing to do, or another round is asked for first. *)
Update ==
    /\ main.pc = "update"
    /\ IF Busy = {} THEN MainAt("idle") /\ UNCHANGED <<queue, onTasks>>
       ELSE /\ main' = [main EXCEPT !.pc = "decode", !.todo = Busy]
            /\ queue' = Append(queue, [type |-> "next", id |-> NoTask])
            /\ onTasks' \in NotifyOne(onTasks)
    /\ UNCHANGED <<running, sleeping, reqStop, deferred, resultVars, slots, answered, clientVars>>

Decoded == main' = [main EXCEPT !.todo = @ \ {First}]

(* A child waits until its parent's prompt is processed. *)
ChildWaits ==
    /\ main.pc = "decode" /\ main.todo # {}
    /\ slots[First].waits
    /\ Decoded
    /\ UNCHANGED <<taskVars, resultVars, slots, answered, clientVars>>

(* The first decode of a task processes its prompt; its children may start. *)
Started(id) == [s \in Slots |->
    IF slots[s].id \in Children(id) THEN [slots[s] EXCEPT !.waits = FALSE] ELSE slots[s]]

Partial ==
    /\ main.pc = "decode" /\ main.todo # {}
    /\ LET slot == slots[First]
       IN  /\ ~slot.waits /\ slot.left > 1
           /\ Send(slot.id, "partial")
           /\ slots' = [Started(slot.id) EXCEPT ![First].left = @ - 1]
    /\ Decoded
    /\ UNCHANGED <<taskVars, waiting, answered, clientVars>>

(* The last result, or an error, is sent ... *)
Finish ==
    /\ main.pc = "decode" /\ main.todo # {}
    /\ LET slot == slots[First]
       IN  /\ ~slot.waits
           /\ \/ slot.left = 1 /\ Send(slot.id, "final") /\ slots' = Started(slot.id)
              \/ Client(slot.id) \in Faulty /\ Send(slot.id, "error") /\ UNCHANGED slots
           /\ answered' = answered \union {slot.id}
    /\ MainAt("release")
    /\ UNCHANGED <<taskVars, waiting, clientVars>>

(* ... before the slot is released. *)
Release ==
    /\ main.pc = "release"
    /\ slots' = [slots EXCEPT ![First] = Idle]
    /\ PopDeferred(First)
    /\ main' = [main EXCEPT !.pc = "decode", !.todo = @ \ {First}]
    /\ UNCHANGED <<running, sleeping, reqStop, resultVars, answered, clientVars>>

Updated ==
    /\ main.pc = "decode" /\ main.todo = {}
    /\ MainAt("idle")
    /\ UNCHANGED <<taskVars, resultVars, slots, answered, clientVars>>

(* No task, and nothing was posted, woken up for or decoded for a while.   *)
(* With SleepsLate, a client may have looked just before.                  *)
MaySleep ==
    /\ Sleeps
    /\ SleepsLate \/ \A c \in Clients : at[c] \notin {"awake", "post", "waits awake"}

\* Mutant of FallAsleep: the queue is not looked at.
FallAsleep_Busy ==
    /\ main.pc = "idle"
    /\ running
    /\ MaySleep
    /\ sleeping' = TRUE /\ reqStop' = FALSE
    /\ onTasks' = onTasks \union {Main}
    /\ MainAt("asleep")
    /\ UNCHANGED <<running, queue, deferred, resultVars, slots, answered, clientVars>>

(* The model is unloaded with the lock held. *)
FallAsleep ==
    /\ main.pc = "idle"
    /\ running /\ queue = <<>>
    /\ MaySleep
    /\ sleeping' = TRUE /\ reqStop' = FALSE
    /\ onTasks' = onTasks \union {Main}
    /\ MainAt("asleep")
    /\ UNCHANGED <<running, queue, deferred, resultVars, slots, answered, clientVars>>

WaitTask ==
    /\ main.pc = "idle"
    /\ IF ~running \/ queue # <<>> THEN MainAt("tasks") /\ UNCHANGED onTasks
       ELSE MainAt("waits task") /\ onTasks' = onTasks \union {Main}
    /\ UNCHANGED <<running, sleeping, reqStop, queue, deferred, resultVars, slots, answered, clientVars>>

TaskArrived ==
    /\ main.pc = "waits task"
    /\ Main \notin onTasks
    /\ IF ~running \/ queue # <<>> THEN MainAt("tasks") /\ UNCHANGED onTasks
       ELSE onTasks' = onTasks \union {Main} /\ UNCHANGED main
    /\ UNCHANGED <<running, sleeping, reqStop, queue, deferred, resultVars, slots, answered, clientVars>>

(* Once a second it looks whether to sleep. *)
MainTimeout ==
    /\ main.pc = "waits task"
    /\ onTasks' = onTasks \ {Main}
    /\ MainAt(IF ~running \/ queue # <<>> THEN "tasks" ELSE "idle")
    /\ UNCHANGED <<running, sleeping, reqStop, queue, deferred, resultVars, slots, answered, clientVars>>

\* Mutant of WakeUp: those who wait for it are not notified.
WakeUp_Silent ==
    /\ main.pc = "asleep"
    /\ Main \notin onTasks
    /\ running /\ reqStop
    /\ sleeping' = FALSE /\ reqStop' = FALSE
    /\ MainAt("tasks")
    /\ UNCHANGED <<running, onTasks, queue, deferred, resultVars, slots, answered, clientVars>>

(* Asked to stop sleeping: the model is loaded, and everybody told. *)
WakeUp ==
    /\ main.pc = "asleep"
    /\ Main \notin onTasks
    /\ running /\ reqStop
    /\ sleeping' = FALSE /\ reqStop' = FALSE
    /\ onTasks' = {}
    /\ MainAt("tasks")
    /\ UNCHANGED <<running, queue, deferred, resultVars, slots, answered, clientVars>>

SleepOn ==
    /\ main.pc = "asleep"
    /\ Main \notin onTasks
    /\ ~(running /\ reqStop)
    /\ IF running THEN onTasks' = onTasks \union {Main} /\ UNCHANGED main
       ELSE MainAt("tasks") /\ UNCHANGED onTasks
    /\ UNCHANGED <<running, sleeping, reqStop, queue, deferred, resultVars, slots, answered, clientVars>>

MainStep ==
    \/ Take \/ HandleNext \/ Defer \/ Launch \/ AnswerAtOnce \/ LaunchFails \/ Drop
    \/ HandleCancel
    \/ Update \/ ChildWaits \/ Partial \/ Finish \/ Release \/ Updated
    \/ WaitTask \/ TaskArrived \/ MainTimeout \/ WakeUp \/ SleepOn

-----------------------------------------------------------------------------
(* The signal handler ends the main loop. *)
Terminate ==
    /\ main.pc \in EndsIn /\ running
    /\ running' = FALSE
    /\ onTasks' = {}
    /\ UNCHANGED <<sleeping, reqStop, queue, deferred, resultVars, mainVars, clientVars>>

(* A condition variable may wake a thread without a notification. *)
SpuriousWakeup ==
    /\ \E t \in onTasks : onTasks' = onTasks \ {t}
    /\ UNCHANGED <<running, sleeping, reqStop, queue, deferred, resultVars, mainVars, clientVars>>

(* All requests are over, or the loop has returned: the process ends, and  *)
(* what the clients see of that is left out.                               *)
Over ==
    /\ main.pc = "returned" \/ \A c \in Clients : at[c] = "done"
    /\ UNCHANGED vars

Next ==
    \/ main.pc # "returned" /\ \E c \in Clients : ClientStep(c) \/ Disconnect(c)
    \/ MainStep \/ FallAsleep
    \/ Terminate \/ SpuriousWakeup \/ Over

(* Threads that can take a step are scheduled.  Nothing else is certain:  *)
(* not that the server falls asleep or is ended, nor that a connection is  *)
(* closed.                                                                 *)
Fairness ==
    /\ WF_vars(MainStep)
    /\ \A c \in Clients : WF_vars(main.pc # "returned" /\ ClientStep(c))

Spec == Init /\ [][Next]_vars /\ Fairness

-----------------------------------------------------------------------------
(* The tasks of the queue that are one. *)
Queued == {i \in DOMAIN queue : queue[i].type = "task"}
InSlot(id) == {s \in Slots : slots[s].id = id}
InHand(id) == main.pc = "handle" /\ main.task = Task(id)
InQueue(id) == {i \in Queued : queue[i].id = id}
InDeferred(id) == {i \in DOMAIN deferred : deferred[i] = id}

Pcs == {"new", "waits awake", "awake", "post", "receive", "stop", "remove", "cancel", "done"}
MainPcs == {"tasks", "handle", "drop", "update", "decode", "release", "idle", "waits task", "asleep", "returned"}

Requests == [type : {"task", "cancel"}, id : TaskIds] \union {[type |-> "next", id |-> NoTask]}
Processing == [id : TaskIds, left : Nat, waits : BOOLEAN] \union {Idle}
Results == [id : TaskIds, kind : {"partial", "final", "error"}]

(* Types.  The loop has a task in its hand exactly while it handles one,   *)
(* and decodes slots that were busy when it started.                       *)
ServerTypeOK ==
    /\ {running, sleeping, reqStop} \subseteq BOOLEAN
    /\ queue \in Seq(Requests) /\ deferred \in Seq(TaskIds)
    /\ onTasks \subseteq Clients \union {Main}
    /\ waiting \subseteq TaskIds /\ answered \subseteq TaskIds
    /\ results \in Seq(Results)
    /\ slots \in [Slots -> Processing]
    /\ main \in [pc : MainPcs, task : Requests \union {NoTask}, todo : SUBSET Slots]
    /\ main.task \in IF main.pc = "handle" THEN Requests ELSE {NoTask}
    /\ at \in [Clients -> Pcs]
    /\ received \in [Clients -> Nat]

(* A task is in one place at most: in a queue, deferred, in the hand of    *)
(* the main loop or in a slot.  One whose last result was sent is nowhere, *)
(* but for the slot that is about to be released.                          *)
(* server-queue.cpp:77 (pop_deferred_task), server-context.cpp:1755        *)
OnePlace ==
    \A id \in TaskIds :
        LET places == Cardinality(InQueue(id)) + Cardinality(InDeferred(id))
                        + Cardinality(InSlot(id)) + (IF InHand(id) THEN 1 ELSE 0)
        IN  /\ places <= 1
            /\ id \in answered => places = (IF main.pc = "release" /\ slots[First].id = id THEN 1 ELSE 0)

(* No result is left behind: when a client is done, no result of its tasks *)
(* is in the queue of results nor will be put there; whoever left early    *)
(* has removed what was sent before.  server-queue.cpp:441 (stop)          *)
NothingLeftBehind ==
    \A c \in Clients : at[c] = "done" =>
        /\ Ids(c) \intersect waiting = {}
        /\ \A i \in DOMAIN results : Client(results[i].id) # c

(* A client that waits for results has all of its tasks accounted for:     *)
(* each was answered with a result that is received or in the queue, or is *)
(* somewhere.  A task that fails takes the others of its parent with it.   *)
(* server-queue.cpp:370 (register before posting), :319 (send)             *)
NoneLost ==
    \A c \in Clients : at[c] = "receive" =>
        LET errors == {i \in DOMAIN results : results[i].kind = "error" /\ Client(results[i].id) = c}
            finals == {i \in DOMAIN results : results[i].kind = "final" /\ Client(results[i].id) = c}
        IN  \/ errors # {}
            \/ Cardinality(answered \intersect Ids(c)) = received[c] + Cardinality(finals)

(* While the server sleeps its model is unloaded: no slot is busy then,    *)
(* and the loop neither handles a task nor decodes.                        *)
(* server-context.cpp:958 (handle_sleeping_state)                          *)
SleepsEmpty ==
    sleeping => /\ Busy = {}
                /\ main.pc = "asleep" \/ (~running /\ main.pc \in {"tasks", "returned"})

(* Tasks are deferred and nothing is left that would take them up: every   *)
(* slot is idle, and the loop sleeps, or waits with no task in the queue.  *)
Stranded ==
    /\ deferred # <<>>
    /\ Busy = {}
    /\ main.pc = "asleep" \/ (main.pc \in {"idle", "waits task"} /\ queue = <<>>)

Gone(c) == \A id \in Ids(c) : ~InHand(id) /\ InQueue(id) = {} /\ InDeferred(id) = {} /\ InSlot(id) = {}

(* A client that waits for the server to wake up, or has posted its tasks, *)
(* is done in the end, unless the server is ended or a deferred task is    *)
(* stranded.  server-queue.cpp:102, :184, :389                             *)
Served == \A c \in Clients : at[c] # "new" ~> (at[c] = "done" \/ Stranded \/ ~running)

(* The same without the exception: a deferred task waits only until a slot *)
(* is available.  server-queue.h:41                                        *)
DeferredAreServed == \A c \in Clients : at[c] # "new" ~> (at[c] = "done" \/ ~running)

(* When all requests are over, answered or cancelled, their tasks end up   *)
(* nowhere: no slot and no queue keeps one.  server-queue.cpp:441, :211    *)
DoneAreGone ==
    (\A c \in Clients : at[c] = "done") ~> ((\A c \in Clients : Gone(c)) \/ Stranded \/ ~running)

(* Once terminated the loop returns, whatever it waits for.                *)
(* server-queue.cpp:119 (terminate)                                        *)
TerminateEnds == ~running ~> main.pc = "returned"
=============================================================================
