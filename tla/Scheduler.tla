------------------------------ MODULE Scheduler ------------------------------
(***************************************************************************)
(* The parallel executor: Executor::execute (the spawn loop, the join and  *)
(* the result), workerLoop and pushReady.  Every access to a variable      *)
(* shared by the threads is a step of its own, at the granularity of the   *)
(* atomics of ExecuteContext; the interleavings are sequentially           *)
(* consistent.                                                             *)
(*                                                                         *)
(* Source nodes have no step: they count as completed from the start, so   *)
(* only their number matters.  processStep is abstracted to an interval    *)
(* that ends with result 0 (up to date, or the command succeeded) or not.  *)
(* The lock-free queue is a FIFO whose enqueue has the two visible steps   *)
(* of the ring buffer, claiming a cell and publishing it: while the head   *)
(* is claimed but unpublished a dequeue reports an empty queue.            *)
(***************************************************************************)
EXTENDS Integers, Sequences, FiniteSets

CONSTANTS
    Steps,       \* graph nodes that have a producing step
    Edges,       \* identities of edges between steps: an input listed twice is two edges
    From, To,    \* producer and consumer of an edge
    NumSources,  \* number of nodes without a step
    Threads,     \* thread_count worker threads
    KeepGoing,   \* config.keep_going
    Faulty,      \* steps whose command may fail
    CounterMod,  \* 2^w of the atomic counters; small, so that the wrap is reached
    NoStep       \* Task{}: a worker that holds no task

ASSUME StepsAssumption == IsFiniteSet(Steps) /\ Faulty \subseteq Steps /\ NoStep \notin Steps
ASSUME EdgesAssumption == /\ IsFiniteSet(Edges)
                          /\ From \in [Edges -> Steps]
                          /\ To \in [Edges -> Steps]
\* execute() rejects a graph with a cycle before it schedules anything: every set of steps
\* has one that consumes nothing that the set produces.
ASSUME AcyclicAssumption ==
    \A S \in SUBSET Steps :
        S # {} => \E s \in S : \A e \in Edges : To[e] = s => From[e] \notin S
ASSUME ThreadsAssumption == IsFiniteSet(Threads) /\ Threads # {}
ASSUME CountsAssumption == NumSources \in Nat /\ KeepGoing \in BOOLEAN
\* size_t holds twice the number of nodes and threads with room to spare.
ASSUME ModAssumption == /\ CounterMod \in Nat
                        /\ CounterMod > 2 * (Cardinality(Steps) + NumSources + Cardinality(Threads)) + 2

VARIABLES
    ready,            \* ctx.ready_queue: claimed cells in FIFO order
    tasks_available,  \* ctx.tasks_available, the word the workers sleep on
    sleeping_threads, \* ctx.sleeping_threads
    completed_count,  \* ctx.completed_count
    in_degrees,       \* ctx.in_degrees
    error_occurred,   \* ctx.error_occurred
    pc,               \* where each worker is in workerLoop / pushReady
    task,             \* the step each worker holds
    todo,             \* the out-edges its loop over node.out_edges has still to visit
    last,             \* prev_completed + 1 == total_nodes, as the worker saw it
    next,             \* the neighbour being pushed by pushReady
    main,             \* the thread in execute(): "spawn", "join", then the result
    status            \* what became of each step's command

sync == <<ready, tasks_available, sleeping_threads, completed_count, in_degrees, error_occurred>>
local == <<task, todo, last, next>>
vars == <<sync, pc, local, main, status>>

TotalNodes == Cardinality(Steps) + NumSources
ThreadCount == Cardinality(Threads)
MaxCount == CounterMod - 1              \* std::numeric_limits<size_t>::max()
InEdges(s) == {e \in Edges : To[e] = s}
OutEdges(s) == {e \in Edges : From[e] = s}
Roots == {s \in Steps : InEdges(s) = {}}
Results == {"succeeded", "failed", "stalled"}

(* The initial tasks are sorted by an estimate that is 0 for all of them   *)
(* (work estimates are off by default): any order.                         *)
InitialOrders ==
    {q \in [1..Cardinality(Roots) -> Roots] : \A s \in Roots : \E i \in DOMAIN q : q[i] = s}

Init ==
    /\ ready \in InitialOrders
    /\ tasks_available = Cardinality(Roots)
    /\ sleeping_threads = 0
    /\ completed_count = NumSources
    /\ in_degrees = [s \in Steps |-> Cardinality(InEdges(s))]
    /\ error_occurred = FALSE
    /\ pc = [t \in Threads |-> "unborn"]
    /\ task = [t \in Threads |-> NoStep]
    /\ todo = [t \in Threads |-> {}]
    /\ last = [t \in Threads |-> FALSE]
    /\ next = [t \in Threads |-> NoStep]
    /\ main = "spawn"
    /\ status = [s \in Steps |-> "pending"]

Goto(t, label) == pc' = [pc EXCEPT ![t] = label]

(* The cells of the ready queue: it is built with one for every node.      *)
QueueCapacityOfRoots == Cardinality(Roots)                      \* mutant: only the initial tasks fit
QueueCapacity == TotalNodes

(* fetch_add and fetch_sub on tasks_available wrap like size_t.            *)
Incremented(n) == (n + 1) % CounterMod
SignedDecrement(n) == n - 1                                     \* mutant: goes below 0
ForgottenDecrement(n) == n                                      \* mutant: the fetch_sub is missing
Decremented(n) == (n + MaxCount) % CounterMod

(* in_degrees[neighbor].fetch_sub(1) == 1: this edge was the last one.     *)
ReleasedTooEarly(d) == d <= 2                                   \* mutant: one edge too early
Released(d) == d = 1

(***************************************************************************)
(* The thread in execute().                                                *)
(***************************************************************************)
Spawn(t) ==
    /\ main = "spawn"
    /\ completed_count # TotalNodes
    /\ pc[t] = "unborn"
    /\ Goto(t, "dequeue")
    /\ UNCHANGED <<sync, local, main, status>>

StopSpawning ==
    /\ main = "spawn"
    /\ completed_count = TotalNodes \/ \A t \in Threads : pc[t] # "unborn"
    /\ main' = "join"
    /\ UNCHANGED <<sync, pc, local, status>>

JoinIgnoringError ==                                            \* mutant: error_occurred is not looked at
    /\ main = "join"
    /\ \A t \in Threads : pc[t] \in {"unborn", "exited"}
    /\ main' = IF completed_count = TotalNodes THEN "succeeded" ELSE "stalled"
    /\ UNCHANGED <<sync, pc, local, status>>

Join ==
    /\ main = "join"
    /\ \A t \in Threads : pc[t] \in {"unborn", "exited"}
    /\ main' = CASE error_occurred -> "failed"
                 [] ~error_occurred /\ completed_count # TotalNodes -> "stalled"
                 [] OTHER -> "succeeded"
    /\ UNCHANGED <<sync, pc, local, status>>

(***************************************************************************)
(* workerLoop: taking a task, or going to sleep.                           *)
(***************************************************************************)
HeadClaimed == ready # <<>>                                     \* mutant: a claimed cell is enough
HeadPublished == /\ ready # <<>>
                 /\ \A t \in Threads : ~(pc[t] = "publish" /\ next[t] = Head(ready))

Dequeue(t) ==
    /\ pc[t] = "dequeue"
    /\ HeadPublished
    /\ task' = [task EXCEPT ![t] = Head(ready)]
    /\ ready' = Tail(ready)
    /\ Goto(t, "claimed")
    /\ UNCHANGED <<tasks_available, sleeping_threads, completed_count, in_degrees, error_occurred,
                   todo, last, next, main, status>>

DequeueEmpty(t) ==
    /\ pc[t] = "dequeue"
    /\ ~HeadPublished
    /\ Goto(t, "check")
    /\ UNCHANGED <<sync, local, main, status>>

CountDown(t) ==
    /\ pc[t] = "claimed"
    /\ tasks_available' = Decremented(tasks_available)
    /\ Goto(t, "process")
    /\ UNCHANGED <<ready, sleeping_threads, completed_count, in_degrees, error_occurred,
                   local, main, status>>

(* Both loads of the exit test in one step: error_occurred only ever goes  *)
(* from false to true, so "neither held" was true at the first load.       *)
MustExitOneShort == completed_count >= TotalNodes - 1 \/ error_occurred  \* mutant: off by one
MustExit == completed_count = TotalNodes \/ error_occurred

Check(t) ==
    /\ pc[t] = "check"
    /\ Goto(t, IF MustExit THEN "exited" ELSE "load")
    /\ UNCHANGED <<sync, local, main, status>>

Load(t) ==
    /\ pc[t] = "load"
    /\ Goto(t, IF tasks_available = 0 THEN "recheck" ELSE "dequeue")
    /\ UNCHANGED <<sync, local, main, status>>

Recheck(t) ==
    /\ pc[t] = "recheck"
    /\ Goto(t, IF MustExit THEN "exited" ELSE "sleep")
    /\ UNCHANGED <<sync, local, main, status>>

(* The fetch_add and the stall test.  The branch that declares a stall     *)
(* ends the build: a debug build asserts there.  SomeoneAwake shows that   *)
(* it is never taken.                                                      *)
Sleep(t) ==
    /\ pc[t] = "sleep"
    /\ sleeping_threads' = sleeping_threads + 1
    /\ Goto(t, IF sleeping_threads + 1 = ThreadCount /\ tasks_available = 0
               THEN "stalled" ELSE "wait")
    /\ UNCHANGED <<ready, tasks_available, completed_count, in_degrees, error_occurred,
                   local, main, status>>

(* tasks_available.wait(0): returns when the word is not 0, otherwise the  *)
(* thread blocks until a notify makes it look at the word again.           *)
Wait(t) ==
    /\ pc[t] = "wait"
    /\ Goto(t, IF tasks_available = 0 THEN "blocked" ELSE "wake")
    /\ UNCHANGED <<sync, local, main, status>>

WakeStillCounted(t) ==                                          \* mutant: the fetch_sub is missing
    /\ pc[t] = "wake"
    /\ Goto(t, "dequeue")
    /\ UNCHANGED <<sync, local, main, status>>

Wake(t) ==
    /\ pc[t] = "wake"
    /\ sleeping_threads' = sleeping_threads - 1
    /\ Goto(t, "dequeue")
    /\ UNCHANGED <<ready, tasks_available, completed_count, in_degrees, error_occurred,
                   local, main, status>>

Blocked == {t \in Threads : pc[t] = "blocked"}

(* The worker t goes on to label; the threads in W look at the word again. *)
NotifyThreads(t, label, W) ==
    pc' = [u \in Threads |-> CASE u = t -> label
                               [] u \in W -> "wait"
                               [] OTHER -> pc[u]]

(***************************************************************************)
(* workerLoop: running the task.                                           *)
(***************************************************************************)
Process(t) ==
    /\ pc[t] = "process"
    /\ status' = [status EXCEPT ![task[t]] = "running"]
    /\ Goto(t, "running")
    /\ UNCHANGED <<sync, local, main>>

(* processStep returned 0; completed_count.fetch_add(1).                   *)
Succeed(t) ==
    /\ pc[t] = "running"
    /\ status' = [status EXCEPT ![task[t]] = "done"]
    /\ completed_count' = completed_count + 1
    /\ last' = [last EXCEPT ![t] = (completed_count + 1 = TotalNodes)]
    /\ todo' = [todo EXCEPT ![t] = OutEdges(task[t])]
    /\ Goto(t, "edges")
    /\ UNCHANGED <<ready, tasks_available, sleeping_threads, in_degrees, error_occurred,
                   task, next, main>>

(* processStep returned an error; error_occurred.store(true).              *)
FailReleasing(t) ==                                             \* mutant: consumers of a failed step run
    /\ pc[t] = "running"
    /\ task[t] \in Faulty
    /\ status' = [status EXCEPT ![task[t]] = "failed"]
    /\ error_occurred' = TRUE
    /\ todo' = [todo EXCEPT ![t] = OutEdges(task[t])]
    /\ Goto(t, "edges")
    /\ UNCHANGED <<ready, tasks_available, sleeping_threads, completed_count, in_degrees,
                   task, last, next, main>>

Fail(t) ==
    /\ pc[t] = "running"
    /\ task[t] \in Faulty
    /\ status' = [status EXCEPT ![task[t]] = "failed"]
    /\ error_occurred' = TRUE
    /\ Goto(t, "failed")
    /\ UNCHANGED <<ready, tasks_available, sleeping_threads, completed_count, in_degrees,
                   local, main>>

(* The loop over out_edges: decrement, and push the neighbour that reaches *)
(* 0.  The order of the edges is the order of the manifest: any.           *)
ReleaseEdge(t) ==
    /\ pc[t] = "edges"
    /\ \E e \in todo[t] :
        /\ todo' = [todo EXCEPT ![t] = @ \ {e}]
        /\ in_degrees' = [in_degrees EXCEPT ![To[e]] = @ - 1]
        /\ IF Released(in_degrees[To[e]])
             THEN next' = [next EXCEPT ![t] = To[e]] /\ Goto(t, "enqueue")
             ELSE UNCHANGED <<next, pc>>
    /\ UNCHANGED <<ready, tasks_available, sleeping_threads, completed_count, error_occurred,
                   task, last, main, status>>

(* The worker loop starts over with an empty Task.                         *)
DropTask(t) ==
    /\ task' = [task EXCEPT ![t] = NoStep]
    /\ last' = [last EXCEPT ![t] = FALSE]
    /\ UNCHANGED <<todo, next>>

EdgesDoneSilently(t) ==                                         \* mutant: nobody wakes the others
    /\ pc[t] = "edges"
    /\ todo[t] = {}
    /\ Goto(t, "dequeue")
    /\ DropTask(t)
    /\ UNCHANGED <<sync, main, status>>

EdgesDoneThenCheck(t) ==                                        \* mutant: exit test before the queue
    /\ pc[t] = "edges"
    /\ todo[t] = {}
    /\ Goto(t, IF last[t] THEN "release" ELSE "check")
    /\ DropTask(t)
    /\ UNCHANGED <<sync, main, status>>

EdgesDone(t) ==
    /\ pc[t] = "edges"
    /\ todo[t] = {}
    /\ Goto(t, IF last[t] THEN "release" ELSE "dequeue")
    /\ DropTask(t)
    /\ UNCHANGED <<sync, main, status>>

(* The error branch without keep_going: completed_count.store(total).      *)
AbandonBuild(t) ==
    /\ pc[t] = "failed"
    /\ ~KeepGoing
    /\ completed_count' = TotalNodes
    /\ Goto(t, "release")
    /\ DropTask(t)
    /\ UNCHANGED <<ready, tasks_available, sleeping_threads, in_degrees, error_occurred,
                   main, status>>

(* The error branch with keep_going: only the last node wakes the others.  *)
CountFailed(t) ==
    /\ pc[t] = "failed"
    /\ KeepGoing
    /\ completed_count' = completed_count + 1
    /\ Goto(t, IF completed_count + 1 = TotalNodes THEN "release" ELSE "dequeue")
    /\ DropTask(t)
    /\ UNCHANGED <<ready, tasks_available, sleeping_threads, in_degrees, error_occurred,
                   main, status>>

(* tasks_available.store(max); notify_all().                               *)
Release(t) ==
    /\ pc[t] = "release"
    /\ tasks_available' = MaxCount
    /\ Goto(t, "notifyall")
    /\ UNCHANGED <<ready, sleeping_threads, completed_count, in_degrees, error_occurred,
                   local, main, status>>

NotifyAll(t) ==
    /\ pc[t] = "notifyall"
    /\ NotifyThreads(t, "dequeue", Blocked)
    /\ UNCHANGED <<sync, local, main, status>>

(***************************************************************************)
(* pushReady: enqueue, fetch_add(1), notify_one().                         *)
(***************************************************************************)
(* The queue is built with capacity for TotalNodes; when it is full the    *)
(* release build ignores that enqueue failed, and counts the task.         *)
Enqueue(t) ==
    /\ pc[t] = "enqueue"
    /\ IF Len(ready) < QueueCapacity
         THEN ready' = Append(ready, next[t]) /\ Goto(t, "publish")
         ELSE UNCHANGED ready /\ Goto(t, "count")
    /\ UNCHANGED <<tasks_available, sleeping_threads, completed_count, in_degrees, error_occurred,
                   local, main, status>>

Publish(t) ==
    /\ pc[t] = "publish"
    /\ Goto(t, "count")
    /\ next' = [next EXCEPT ![t] = NoStep]
    /\ UNCHANGED <<sync, task, todo, last, main, status>>

CountUp(t) ==
    /\ pc[t] = "count"
    /\ tasks_available' = Incremented(tasks_available)
    /\ Goto(t, "notifyone")
    /\ UNCHANGED <<ready, sleeping_threads, completed_count, in_degrees, error_occurred,
                   local, main, status>>

(* notify_one unblocks at least one of the waiting threads.                *)
NotifyOne(t) ==
    /\ pc[t] = "notifyone"
    /\ \E W \in SUBSET Blocked :
        /\ Blocked # {} => W # {}
        /\ NotifyThreads(t, "edges", W)
    /\ UNCHANGED <<sync, local, main, status>>

-----------------------------------------------------------------------------

Worker(t) ==
    \/ Dequeue(t) \/ DequeueEmpty(t) \/ CountDown(t)
    \/ Check(t) \/ Load(t) \/ Recheck(t) \/ Sleep(t) \/ Wait(t) \/ Wake(t)
    \/ Process(t) \/ Succeed(t) \/ Fail(t)
    \/ ReleaseEdge(t) \/ EdgesDone(t)
    \/ AbandonBuild(t) \/ CountFailed(t) \/ Release(t) \/ NotifyAll(t)
    \/ Enqueue(t) \/ Publish(t) \/ CountUp(t) \/ NotifyOne(t)

Execute == StopSpawning \/ Join \/ \E t \in Threads : Spawn(t)

(* execute() has returned.                                                 *)
Returned == main \in Results /\ UNCHANGED vars

Next == Execute \/ (\E t \in Threads : Worker(t)) \/ Returned

Safety == Init /\ [][Next]_vars

(* The operating system runs every thread that is not blocked, and every   *)
(* command exits.                                                          *)
Fairness == WF_vars(Execute) /\ \A t \in Threads : WF_vars(Worker(t))

Spec == Safety /\ Fairness

-----------------------------------------------------------------------------
(***************************************************************************)
(* Properties.                                                             *)
(***************************************************************************)
Labels == {"unborn", "dequeue", "claimed", "check", "load", "recheck", "sleep", "wait", "blocked",
           "wake", "process", "running", "edges", "failed", "release", "notifyall",
           "enqueue", "publish", "count", "notifyone", "exited", "stalled"}

(* The types of the fields of ExecuteContext and of the workers' locals.   *)
TypeOK ==
    /\ ready \in Seq(Steps)
    /\ tasks_available \in 0..MaxCount
    /\ sleeping_threads \in Int
    /\ completed_count \in Nat
    /\ in_degrees \in [Steps -> Int]
    /\ error_occurred \in BOOLEAN
    /\ pc \in [Threads -> Labels]
    /\ task \in [Threads -> Steps \cup {NoStep}]
    /\ todo \in [Threads -> SUBSET Edges]
    /\ last \in [Threads -> BOOLEAN]
    /\ next \in [Threads -> Steps \cup {NoStep}]
    /\ main \in {"spawn", "join"} \cup Results
    /\ status \in [Steps -> {"pending", "running", "done", "failed"}]

(* A command runs only when every step that produces one of its inputs has *)
(* succeeded: in_degrees reaches 0 exactly then, whatever worker releases  *)
(* the last edge, and a failed step never releases its consumers.          *)
DependencyOrder ==
    \A e \in Edges : status[To[e]] # "pending" => status[From[e]] = "done"

(* pushReady never finds the ready queue full (the assertion of the debug  *)
(* build): a step is pushed once, so TotalNodes cells are enough.          *)
ReadyNeverFull ==
    \A t \in Threads : pc[t] = "enqueue" => Len(ready) < QueueCapacity

(* The number of workers in the sleeping section never reaches the number  *)
(* of threads, so the stall branch of workerLoop and its assertion "missed-*)
(* notify" are dead code, with failing steps as well as without.           *)
SomeoneAwake ==
    /\ sleeping_threads < ThreadCount
    /\ \A t \in Threads : pc[t] # "stalled"

(* The counter the workers sleep on agrees with the queue up to the        *)
(* operations in flight (a dequeue not yet counted down, an enqueue not    *)
(* yet counted up) as long as the build is not complete.  It may wrap      *)
(* below 0 when the dequeue is counted first.                              *)
TaskCountAccurate ==
    completed_count < TotalNodes =>
        tasks_available =
            (Len(ready) + Cardinality({t \in Threads : pc[t] = "claimed"})
                + CounterMod - Cardinality({t \in Threads : pc[t] \in {"publish", "count"}}))
            % CounterMod

(* No task is left in the queue with nobody to take it: while the queue is *)
(* not empty some worker neither sleeps nor has exited.                    *)
QueueHasWorker ==
    main = "join" /\ ready # <<>> =>
        \E t \in Threads : pc[t] \notin {"unborn", "blocked", "exited", "stalled"}

(* A worker leaves the loop only when every step has succeeded or a step   *)
(* has failed: completed_count reaches TotalNodes no earlier.              *)
NoEarlyExit ==
    (\E t \in Threads : pc[t] = "exited") =>
        \/ \A s \in Steps : status[s] = "done"
        \/ \E s \in Steps : status[s] = "failed"

(* What execute() returns is true of the steps: success only if every step *)
(* succeeded, "Build Failed" only if one failed, and never "Build stalled".*)
ResultTruthful ==
    /\ main = "succeeded" => \A s \in Steps : status[s] = "done"
    /\ main = "failed" => \E s \in Steps : status[s] = "failed"
    /\ main # "stalled"

(* execute() returns: whatever the interleaving, every worker that sleeps  *)
(* on tasks_available is woken when the build is over.                     *)
Termination == <>(main \in Results)

Contract == INSTANCE BuildContract

(* The scheduler implements the abstract build: every step runs at most    *)
(* once and only after its producers, and every step whose producers       *)
(* succeed runs to its end, whatever else fails and whichever workers have *)
(* gone to sleep or exited.                                                *)
ContractSpec == Contract!Spec

Ring == INSTANCE ClaimQueue
    WITH Items <- Steps, Clients <- Threads, Capacity <- QueueCapacity, None <- NoStep,
         queue <- ready,
         unpublished <- {next[t] : t \in {u \in Threads : pc[u] = "publish"}},
         received <- task

(* The workers use the ready queue as the ring buffer of module MPMCQueue  *)
(* behaves: a claimed step that is not yet published hides those behind    *)
(* it, nobody takes it early, and no step is in the queue twice.           *)
RingSpec == Ring!Spec

=============================================================================
