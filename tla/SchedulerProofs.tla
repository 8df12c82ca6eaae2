--------------------------- MODULE SchedulerProofs ---------------------------
(***************************************************************************)
(* Proofs about the parallel executor, for every build graph, every number *)
(* of workers and every set of failing steps.                              *)
(***************************************************************************)
EXTENDS Scheduler, FiniteSetTheorems, SequenceTheorems, RingArithmetic, TLAPS

-----------------------------------------------------------------------------
(* Facts about the constants and about sequences.                          *)

(* The sizes that execute() computes are natural numbers, and the atomic   *)
(* counters have room for them.                                            *)
LEMMA Sizes ==
    /\ IsFiniteSet(Steps) /\ IsFiniteSet(Threads)
    /\ Cardinality(Steps) \in Nat
    /\ ThreadCount \in Nat /\ ThreadCount > 0
    /\ TotalNodes \in Nat /\ Cardinality(Steps) <= TotalNodes
    /\ MaxCount \in Nat /\ TotalNodes < MaxCount
    /\ \A s \in Steps : IsFiniteSet(InEdges(s)) /\ Cardinality(InEdges(s)) \in Nat
    /\ IsFiniteSet(Roots) /\ Cardinality(Roots) \in Nat /\ Cardinality(Roots) <= TotalNodes
<1>1. IsFiniteSet(Steps) /\ IsFiniteSet(Threads) /\ IsFiniteSet(Edges)
  BY StepsAssumption, ThreadsAssumption, EdgesAssumption
<1>2. Cardinality(Steps) \in Nat /\ ThreadCount \in Nat
  BY <1>1, FS_CardinalityType DEF ThreadCount
<1>3. ThreadCount # 0
  BY <1>1, FS_EmptySet, ThreadsAssumption DEF ThreadCount
<1>4. TotalNodes \in Nat /\ Cardinality(Steps) <= TotalNodes
  BY <1>2, CountsAssumption DEF TotalNodes
<1>5. MaxCount \in Nat /\ TotalNodes < MaxCount
  BY <1>2, CountsAssumption, ModAssumption DEF MaxCount, TotalNodes, ThreadCount
<1>6. \A s \in Steps : IsFiniteSet(InEdges(s)) /\ Cardinality(InEdges(s)) \in Nat
  <2> SUFFICES ASSUME NEW s \in Steps
               PROVE  IsFiniteSet(InEdges(s)) /\ Cardinality(InEdges(s)) \in Nat
    OBVIOUS
  <2>1. InEdges(s) \in SUBSET Edges
    BY DEF InEdges
  <2> QED
    BY <2>1, <1>1, FS_Subset, FS_CardinalityType
<1>7. /\ IsFiniteSet(Roots) /\ Cardinality(Roots) \in Nat
      /\ Cardinality(Roots) <= Cardinality(Steps)
  <2>1. Roots \in SUBSET Steps
    BY DEF Roots
  <2> QED
    BY <2>1, <1>1, FS_Subset, FS_CardinalityType
<1> QED
  BY <1>1, <1>2, <1>3, <1>4, <1>5, <1>6, <1>7

(* Any order of the initial tasks is a sequence of steps without an        *)
(* incoming edge, and no step occurs twice in it.                          *)
LEMMA InitialOrderIsSeq ==
    ASSUME NEW q \in InitialOrders
    PROVE  /\ q \in Seq(Steps)
           /\ Len(q) = Cardinality(Roots)
           /\ \A i \in 1..Len(q) : q[i] \in Roots
           /\ \A s \in Roots : \E i \in 1..Len(q) : q[i] = s
           /\ \A i, j \in 1..Len(q) : q[i] = q[j] => i = j
<1> DEFINE n == Cardinality(Roots)
<1>1. n \in Nat /\ IsFiniteSet(Roots)
  BY Sizes
<1>2. q \in [1..n -> Roots] /\ \A s \in Roots : \E i \in 1..n : q[i] = s
  BY DEF InitialOrders
<1>3. Roots \subseteq Steps
  BY DEF Roots
<1>4. q \in Seq(Steps) /\ Len(q) = n
  BY <1>1, <1>2, <1>3
<1>5. q \in Surjection(1..n, Roots)
  BY <1>2 DEF Surjection
<1>6. IsFiniteSet(1..n) /\ Cardinality(1..n) = Cardinality(Roots)
  BY <1>1, FS_Interval
<1>7. q \in Injection(1..n, Roots)
  BY <1>1, <1>5, <1>6, FS_SurjSameCardinalityImpliesInj
<1>8. \A i, j \in 1..n : q[i] = q[j] => i = j
  BY <1>7 DEF Injection, IsInjective
<1> QED
  BY <1>2, <1>4, <1>8

(* The steps in a queue, and that none is in it twice.                     *)
StepsIn(q) == {q[i] : i \in 1..Len(q)}
NoRepeats(q) == \A i, j \in 1..Len(q) : q[i] = q[j] => i = j

(* Dequeuing takes the head, and only the head, out of the queue.          *)
LEMMA QueueTail ==
    ASSUME NEW q \in Seq(Steps), q # <<>>, NoRepeats(q)
    PROVE  /\ Tail(q) \in Seq(Steps)
           /\ Head(q) \in StepsIn(q)
           /\ StepsIn(Tail(q)) = StepsIn(q) \ {Head(q)}
           /\ NoRepeats(Tail(q))
<1>1. Len(q) \in Nat /\ Len(q) > 0 /\ Head(q) = q[1]
  BY EmptySeq
<1>2. /\ Tail(q) \in Seq(Steps) /\ Len(Tail(q)) = Len(q) - 1
      /\ \A i \in 1..Len(Tail(q)) : Tail(q)[i] = q[i + 1]
  BY HeadTailProperties
<1>3. Head(q) \in StepsIn(q)
  BY <1>1 DEF StepsIn
<1>4. NoRepeats(Tail(q))
  BY <1>1, <1>2 DEF NoRepeats
<1>5. StepsIn(Tail(q)) \subseteq StepsIn(q) \ {Head(q)}
  BY <1>1, <1>2 DEF StepsIn, NoRepeats
<1>6. ASSUME NEW s \in StepsIn(q), s # Head(q) PROVE s \in StepsIn(Tail(q))
  <2>1. PICK i \in 1..Len(q) : s = q[i]
    BY DEF StepsIn
  <2>2. i - 1 \in 1..Len(Tail(q)) /\ Tail(q)[i - 1] = s
    BY <1>1, <1>2, <1>6, <2>1
  <2> QED
    BY <2>2 DEF StepsIn
<1> QED
  BY <1>2, <1>3, <1>4, <1>5, <1>6

(* Enqueuing a step that is not in the queue adds it once.                 *)
LEMMA QueueAppend ==
    ASSUME NEW q \in Seq(Steps), NEW s \in Steps
    PROVE  /\ Append(q, s) \in Seq(Steps)
           /\ StepsIn(Append(q, s)) = StepsIn(q) \cup {s}
           /\ NoRepeats(q) /\ s \notin StepsIn(q) => NoRepeats(Append(q, s))
<1>1. /\ Append(q, s) \in Seq(Steps) /\ Len(Append(q, s)) = Len(q) + 1
      /\ \A i \in 1..Len(q) : Append(q, s)[i] = q[i]
      /\ Append(q, s)[Len(q) + 1] = s
  BY AppendProperties
<1>2. Len(q) \in Nat
  BY LenProperties
<1>3. StepsIn(Append(q, s)) = StepsIn(q) \cup {s}
  <2>1. ASSUME NEW i \in 1..Len(Append(q, s)) PROVE Append(q, s)[i] \in StepsIn(q) \cup {s}
    BY <1>1, <1>2 DEF StepsIn
  <2>2. ASSUME NEW i \in 1..Len(q) PROVE q[i] \in StepsIn(Append(q, s))
    BY <1>1, <1>2 DEF StepsIn
  <2>3. s \in StepsIn(Append(q, s))
    BY <1>1, <1>2 DEF StepsIn
  <2> QED
    BY <2>1, <2>2, <2>3 DEF StepsIn
<1>4. ASSUME NoRepeats(q), s \notin StepsIn(q),
             NEW i \in 1..Len(q) + 1, NEW j \in 1..Len(q) + 1,
             Append(q, s)[i] = Append(q, s)[j]
      PROVE  i = j
  <2>1. \A k \in 1..Len(q) : q[k] # s
    BY <1>4 DEF StepsIn
  <2>2. CASE i \in 1..Len(q) /\ j \in 1..Len(q)
    BY <1>1, <1>4, <2>2 DEF NoRepeats
  <2>3. CASE i = Len(q) + 1 \/ j = Len(q) + 1
    BY <1>1, <1>2, <1>4, <2>1, <2>3
  <2> QED
    BY <1>2, <2>2, <2>3
<1> QED
  BY <1>1, <1>3, <1>4 DEF NoRepeats

(* A queue without repetitions that lacks a step has room for it.          *)
LEMMA QueueFits ==
    ASSUME NEW q \in Seq(Steps), NoRepeats(q), NEW s \in Steps, s \notin StepsIn(q)
    PROVE  Len(q) < QueueCapacity
<1>1. q \in [1..Len(q) -> Steps] /\ Len(q) \in Nat
  BY LenProperties
<1>2. q \in [1..Len(q) -> Steps \ {s}]
  BY <1>1 DEF StepsIn
<1>3. q \in Injection(1..Len(q), Steps \ {s})
  BY <1>2 DEF Injection, IsInjective, NoRepeats
<1>4. IsFiniteSet(Steps \ {s}) /\ Cardinality(Steps \ {s}) = Cardinality(Steps) - 1
  BY Sizes, FS_RemoveElement
<1>5. Cardinality(1..Len(q)) <= Cardinality(Steps \ {s})
  BY <1>3, <1>4, FS_Injection
<1>6. Cardinality(1..Len(q)) = Len(q)
  <2>1. ASSUME NEW n \in Nat PROVE Cardinality(1..n) = n
    BY FS_Interval
  <2> QED
    BY <1>1, <2>1
<1> QED
  BY <1>1, <1>4, <1>5, <1>6, Sizes DEF QueueCapacity

(* The wrap of the counter stays in the range of size_t.                   *)
LEMMA CounterWraps ==
    ASSUME NEW n \in 0..MaxCount
    PROVE  Incremented(n) \in 0..MaxCount /\ Decremented(n) \in 0..MaxCount
BY ModAssumption, Sizes DEF Incremented, Decremented, MaxCount

-----------------------------------------------------------------------------
(* Type correctness.                                                       *)

(* Every place a worker can be at has a label.                             *)
LEMMA LabelNames ==
    /\ {"unborn", "exited", "stalled"} \subseteq Labels
    /\ {"dequeue", "claimed", "check", "load", "recheck"} \subseteq Labels
    /\ {"sleep", "wait", "blocked", "wake"} \subseteq Labels
    /\ {"process", "running", "edges", "failed", "release", "notifyall"} \subseteq Labels
    /\ {"enqueue", "publish", "count", "notifyone"} \subseteq Labels
BY DEF Labels

(* TypeOK is inductive together with the fact that pushReady is called     *)
(* with a step.                                                            *)
PushesStep == \A t \in Threads : pc[t] = "enqueue" => next[t] \in Steps
Typing == TypeOK /\ PushesStep

(* The types hold at first.                                                *)
LEMMA TypingInit == Init => Typing
<1> SUFFICES ASSUME Init PROVE Typing
  OBVIOUS
<1>1. ready \in Seq(Steps)
  BY InitialOrderIsSeq DEF Init
<1>2. tasks_available \in 0..MaxCount
  BY Sizes DEF Init
<1>3. in_degrees \in [Steps -> Int]
  BY Sizes DEF Init
<1>4. pc \in [Threads -> Labels]
  BY LabelNames DEF Init
<1>5. sleeping_threads \in Int /\ completed_count \in Nat
  BY CountsAssumption DEF Init
<1>6. error_occurred \in BOOLEAN
  BY DEF Init
<1>7. /\ task \in [Threads -> Steps \cup {NoStep}] /\ next \in [Threads -> Steps \cup {NoStep}]
      /\ todo \in [Threads -> SUBSET Edges] /\ last \in [Threads -> BOOLEAN]
      /\ status \in [Steps -> {"pending", "running", "done", "failed"}]
      /\ main \in {"spawn", "join"} \cup Results
  BY DEF Init
<1>8. PushesStep
  BY DEF Init, PushesStep
<1> QED
  BY <1>1, <1>2, <1>3, <1>4, <1>5, <1>6, <1>7, <1>8 DEF TypeOK, Typing

(* Every action keeps the types.                                           *)
LEMMA TypingNext == Typing /\ [Next]_vars => Typing'
<1> SUFFICES ASSUME TypeOK, PushesStep, [Next]_vars PROVE TypeOK' /\ PushesStep'
  BY DEF Typing
<1> USE LabelNames DEF TypeOK, PushesStep, sync, local, Goto
<1>1. CASE UNCHANGED vars
  BY <1>1 DEF vars
<1>2. CASE Execute
  BY <1>2, SMTT(30) DEF Execute, Spawn, StopSpawning, Join, Results
<1>3. ASSUME NEW t \in Threads, Worker(t) PROVE TypeOK' /\ PushesStep'
  <2>1. CASE Dequeue(t)
    BY <2>1 DEF Dequeue, HeadPublished
  <2>2. CASE DequeueEmpty(t)
    BY <2>2 DEF DequeueEmpty
  <2>3. CASE CountDown(t)
    BY <2>3, CounterWraps DEF CountDown
  <2>4. CASE Check(t) \/ Load(t) \/ Recheck(t) \/ Wait(t)
    <3>1. PICK label \in Labels \ {"enqueue"} : Goto(t, label)
      BY <2>4 DEF Check, Load, Recheck, Wait, Labels
    <3>2. pc' \in [Threads -> Labels] /\ PushesStep'
      BY <2>4, <3>1 DEF Check, Load, Recheck, Wait
    <3> QED
      BY <2>4, <3>2 DEF Check, Load, Recheck, Wait
  <2>5. CASE Sleep(t)
    <3>1. PICK label \in Labels \ {"enqueue"} : Goto(t, label)
      BY <2>5 DEF Sleep, Labels
    <3>2. pc' \in [Threads -> Labels] /\ PushesStep' /\ sleeping_threads' \in Int
      BY <2>5, <3>1 DEF Sleep
    <3> QED
      BY <2>5, <3>2 DEF Sleep
  <2>6. CASE Wake(t)
    BY <2>6 DEF Wake
  <2>7. CASE Process(t)
    BY <2>7 DEF Process
  <2>8. CASE Succeed(t)
    <3>1. todo' \in [Threads -> SUBSET Edges] /\ last' \in [Threads -> BOOLEAN]
      BY <2>8 DEF Succeed, OutEdges
    <3>2. status' \in [Steps -> {"pending", "running", "done", "failed"}]
      BY <2>8 DEF Succeed
    <3>3. pc' \in [Threads -> Labels] /\ PushesStep' /\ completed_count' \in Nat
      BY <2>8 DEF Succeed
    <3> QED
      BY <2>8, <3>1, <3>2, <3>3 DEF Succeed
  <2>9. CASE Fail(t)
    BY <2>9 DEF Fail
  <2>10. CASE ReleaseEdge(t)
    <3>1. PICK e \in todo[t] :
             /\ todo' = [todo EXCEPT ![t] = @ \ {e}]
             /\ in_degrees' = [in_degrees EXCEPT ![To[e]] = @ - 1]
             /\ \/ next' = [next EXCEPT ![t] = To[e]] /\ Goto(t, "enqueue")
                \/ UNCHANGED <<next, pc>>
      BY <2>10 DEF ReleaseEdge
    <3>2. e \in Edges /\ To[e] \in Steps
      BY EdgesAssumption
    <3>3. todo' \in [Threads -> SUBSET Edges] /\ in_degrees' \in [Steps -> Int]
      BY <3>1, <3>2
    <3>4. next' \in [Threads -> Steps \cup {NoStep}] /\ pc' \in [Threads -> Labels] /\ PushesStep'
      BY <3>1, <3>2, ZenonT(30)
    <3> QED
      BY <2>10, <3>3, <3>4 DEF ReleaseEdge
  <2>11. CASE EdgesDone(t)
    <3>1. PICK label \in Labels \ {"enqueue"} : Goto(t, label)
      BY <2>11 DEF EdgesDone, Labels
    <3>2. pc' \in [Threads -> Labels] /\ PushesStep'
      BY <2>11, <3>1 DEF EdgesDone, DropTask
    <3> QED
      BY <2>11, <3>2 DEF EdgesDone, DropTask
  <2>12. CASE AbandonBuild(t)
    BY <2>12, Sizes DEF AbandonBuild, DropTask
  <2>13. CASE CountFailed(t)
    <3>1. PICK label \in Labels \ {"enqueue"} : Goto(t, label)
      BY <2>13 DEF CountFailed, Labels
    <3>2. pc' \in [Threads -> Labels] /\ PushesStep' /\ completed_count' \in Nat
      BY <2>13, <3>1 DEF CountFailed, DropTask
    <3> QED
      BY <2>13, <3>2 DEF CountFailed, DropTask
  <2>14. CASE Release(t)
    BY <2>14, Sizes DEF Release
  <2>15. CASE NotifyAll(t) \/ NotifyOne(t)
    <3>1. PICK label \in {"dequeue", "edges"}, W \in SUBSET Threads : NotifyThreads(t, label, W)
      BY <2>15 DEF NotifyAll, NotifyOne, Blocked
    <3>2. pc' \in [Threads -> Labels] /\ \A u \in Threads : pc'[u] = "enqueue" => pc[u] = "enqueue"
      BY <3>1 DEF NotifyThreads
    <3> QED
      BY <2>15, <3>2 DEF NotifyAll, NotifyOne
  <2>16. CASE Enqueue(t)
    <3>1. PICK label \in Labels \ {"enqueue"} : Goto(t, label)
      BY <2>16 DEF Enqueue, Labels
    <3>2. pc' \in [Threads -> Labels] /\ PushesStep'
      BY <2>16, <3>1 DEF Enqueue
    <3>3. ready \in Seq(Steps) /\ next[t] \in Steps
      BY <2>16 DEF Enqueue
    <3>4. ready' = ready \/ ready' = Append(ready, next[t])
      BY <2>16 DEF Enqueue
    <3>5. ready' \in Seq(Steps)
      BY <3>3, <3>4, QueueAppend, ZenonT(30)
    <3> QED
      BY <2>16, <3>2, <3>5 DEF Enqueue
  <2>17. CASE Publish(t)
    BY <2>17 DEF Publish
  <2>18. CASE CountUp(t)
    BY <2>18, CounterWraps DEF CountUp
  <2> QED
    BY <1>3, <2>1, <2>2, <2>3, <2>4, <2>5, <2>6, <2>7, <2>8, <2>9, <2>10, <2>11, <2>12,
       <2>13, <2>14, <2>15, <2>16, <2>17, <2>18 DEF Worker
<1> QED
  BY <1>1, <1>2, <1>3 DEF Next, Returned

(* Every value that the threads of the executor share or hold is of its    *)
(* type in every reachable state: in particular tasks_available wraps but  *)
(* stays in the range of size_t.                                           *)
THEOREM TypeCorrect == Safety => []TypeOK
<1>1. Safety => []Typing
  BY TypingInit, TypingNext, PTL DEF Safety
<1>2. Typing => TypeOK
  BY DEF Typing
<1> QED
  BY <1>1, <1>2, PTL

-----------------------------------------------------------------------------
(***************************************************************************)
(* The dependency order.  The inductive invariant follows a step through   *)
(* the executor: it waits with a positive in-degree, is pushed by the      *)
(* worker that releases its last edge, queued, and held by one worker      *)
(* until its own edges are released; in_degrees[s] counts the edges into s *)
(* that nobody has released yet.                                           *)
(***************************************************************************)
Taken == {"claimed", "process"}
Releasing == {"edges", "enqueue", "publish", "count", "notifyone"}
Busy == Taken \cup Releasing \cup {"running", "failed"}

Queued == StepsIn(ready)
Pushed(s) == \E t \in Threads : pc[t] = "enqueue" /\ next[t] = s
Held(s) == \E t \in Threads : task[t] = s
Unreleased(s) ==
    {e \in InEdges(s) : status[From[e]] # "done" \/ \E t \in Threads : e \in todo[t]}

(* What a worker holds agrees with where it is in workerLoop.              *)
WorkerInv ==
    \A t \in Threads :
        /\ pc[t] \in Busy <=> task[t] \in Steps
        /\ pc[t] \in Taken => status[task[t]] = "pending"
        /\ pc[t] = "running" => status[task[t]] = "running"
        /\ pc[t] = "failed" => status[task[t]] = "failed"
        /\ pc[t] \in Releasing => status[task[t]] = "done"
        /\ \A e \in todo[t] : pc[t] \in Releasing /\ From[e] = task[t]

(* A step is in one place at a time, and only once in the queue.           *)
PlaceInv ==
    /\ NoRepeats(ready)
    /\ \A t, u \in Threads : task[t] \in Steps /\ task[t] = task[u] => t = u
    /\ \A t, u \in Threads : pc[t] = "enqueue" /\ pc[u] = "enqueue" /\ next[t] = next[u] => t = u
    /\ \A s \in Queued : status[s] = "pending" /\ ~Held(s) /\ ~Pushed(s)
    /\ \A s \in Steps : Pushed(s) => status[s] = "pending" /\ ~Held(s)

(* Only a step all of whose edges are released has left the waiting state. *)
ZeroInv ==
    \A s \in Steps :
        status[s] # "pending" \/ s \in Queued \/ Pushed(s) \/ Held(s) => in_degrees[s] = 0

DegreeInv == \A s \in Steps : in_degrees[s] = Cardinality(Unreleased(s))

DependencyInv == Typing /\ WorkerInv /\ PlaceInv /\ ZeroInv /\ DegreeInv

(* The edges into a step are finitely many.                                *)
LEMMA UnreleasedFinite ==
    ASSUME NEW s \in Steps
    PROVE  IsFiniteSet(Unreleased(s)) /\ Cardinality(Unreleased(s)) \in Nat
<1>1. Unreleased(s) \in SUBSET InEdges(s)
  BY DEF Unreleased
<1> QED
  BY <1>1, Sizes, FS_Subset, FS_CardinalityType

(* A step whose in-degree is 0 has all its producers done.                 *)
LEMMA ZeroMeansReady ==
    ASSUME DegreeInv, NEW s \in Steps, in_degrees[s] = 0
    PROVE  \A e \in Edges : To[e] = s => status[From[e]] = "done"
<1>1. Cardinality(Unreleased(s)) = 0
  BY DEF DegreeInv
<1>2. Unreleased(s) = {}
  BY <1>1, UnreleasedFinite, FS_EmptySet
<1> QED
  BY <1>2 DEF Unreleased, InEdges

(* At first each in-edge is counted and nothing has begun.                 *)
LEMMA DependencyInit == Init => DependencyInv
<1> SUFFICES ASSUME Init PROVE DependencyInv
  OBVIOUS
<1>1. Typing
  BY TypingInit
<1>2. WorkerInv
  BY StepsAssumption DEF Init, WorkerInv, Taken, Releasing, Busy
<1>3. ready \in InitialOrders
  BY DEF Init
<1>4. NoRepeats(ready) /\ \A s \in Queued : s \in Roots
  BY <1>3, InitialOrderIsSeq DEF NoRepeats, Queued, StepsIn
<1>5. \A s \in Steps : ~Held(s) /\ ~Pushed(s) /\ status[s] = "pending"
  BY StepsAssumption DEF Init, Held, Pushed
<1>6. PlaceInv
  BY <1>4, <1>5, StepsAssumption DEF PlaceInv, Roots, Init
<1>7. \A s \in Steps : in_degrees[s] = Cardinality(InEdges(s))
  BY DEF Init
<1>8. \A s \in Roots : s \in Steps /\ in_degrees[s] = 0
  BY <1>7, FS_EmptySet DEF Roots
<1>9. ZeroInv
  BY <1>4, <1>5, <1>8 DEF ZeroInv
<1>10. DegreeInv
  <2>1. \A s \in Steps : Unreleased(s) = InEdges(s)
    BY EdgesAssumption DEF Init, Unreleased, InEdges
  <2> QED
    BY <2>1, <1>7 DEF DegreeInv
<1> QED
  BY <1>1, <1>2, <1>6, <1>9, <1>10 DEF DependencyInv

(* The steps of a worker that touch neither the graph nor its task.        *)
Quiet ==
    /\ UNCHANGED <<ready, in_degrees, task, todo, status>>
    /\ \A t \in Threads :
        /\ pc'[t] \in Busy <=> pc[t] \in Busy
        /\ pc'[t] \in Taken <=> pc[t] \in Taken
        /\ pc'[t] \in Releasing <=> pc[t] \in Releasing
        /\ pc'[t] = "running" <=> pc[t] = "running"
        /\ pc'[t] = "failed" <=> pc[t] = "failed"
        /\ pc'[t] = "enqueue" <=> pc[t] = "enqueue"
        /\ pc[t] = "enqueue" => next'[t] = next[t]

(* A step that moves no task and no edge keeps the invariant.              *)
LEMMA QuietPreserves ==
    ASSUME WorkerInv, PlaceInv, ZeroInv, DegreeInv, Quiet
    PROVE  WorkerInv' /\ PlaceInv' /\ ZeroInv' /\ DegreeInv'
<1>1. Queued' = Queued /\ \A s : (Held(s)' <=> Held(s)) /\ (Pushed(s)' <=> Pushed(s))
  BY DEF Quiet, Queued, Held, Pushed, StepsIn
<1>2. \A s \in Steps : Unreleased(s)' = Unreleased(s)
  BY DEF Quiet, Unreleased, InEdges
<1>3. WorkerInv'
  BY DEF WorkerInv, Quiet
<1>4. PlaceInv'
  BY <1>1 DEF PlaceInv, Quiet, NoRepeats
<1>5. ZeroInv'
  BY <1>1 DEF ZeroInv, Quiet
<1>6. DegreeInv'
  BY <1>2 DEF DegreeInv, Quiet
<1> QED
  BY <1>3, <1>4, <1>5, <1>6

(* Which actions are quiet in this sense.                                  *)
LEMMA QuietSteps ==
    ASSUME Typing, [Next]_vars,
           UNCHANGED vars \/ Execute \/ \E t \in Threads :
              \/ DequeueEmpty(t) \/ CountDown(t) \/ Check(t) \/ Load(t) \/ Recheck(t)
              \/ Sleep(t) \/ Wait(t) \/ Wake(t) \/ Release(t) \/ NotifyAll(t)
              \/ Publish(t) \/ CountUp(t) \/ NotifyOne(t)
    PROVE  Quiet
<1> USE DEF sync, local, Taken, Releasing, Busy
<1>0. pc \in [Threads -> Labels] /\ next \in [Threads -> Steps \cup {NoStep}]
  BY DEF Typing, TypeOK
<1>1. CASE UNCHANGED vars
  BY <1>1 DEF vars, Quiet
<1>2. CASE Execute
  BY <1>0, <1>2 DEF Execute, Spawn, StopSpawning, Join, Quiet, Goto
<1>3. ASSUME NEW t \in Threads,
             DequeueEmpty(t) \/ Check(t) \/ Load(t) \/ Recheck(t) \/ Sleep(t) \/ Wait(t)
                \/ Wake(t) \/ Release(t)
      PROVE  Quiet
  <2>1. /\ UNCHANGED <<ready, in_degrees, task, todo, status, next>>
        /\ pc[t] \notin Busy
        /\ \E label \in {"check", "exited", "load", "recheck", "dequeue", "sleep", "stalled",
                         "wait", "blocked", "wake", "notifyall"} : Goto(t, label)
    BY <1>3 DEF DequeueEmpty, Check, Load, Recheck, Sleep, Wait, Wake, Release
  <2> QED
    BY <2>1, <1>0 DEF Quiet, Goto
<1>4. ASSUME NEW t \in Threads, CountDown(t) PROVE Quiet
  BY <1>4, <1>0 DEF CountDown, Quiet, Goto
<1>5. ASSUME NEW t \in Threads, Publish(t) \/ CountUp(t) PROVE Quiet
  BY <1>5, <1>0 DEF Publish, CountUp, Quiet, Goto
<1>6. ASSUME NEW t \in Threads, NotifyAll(t) \/ NotifyOne(t) PROVE Quiet
  <2>1. /\ UNCHANGED <<ready, in_degrees, task, todo, status, next>>
        /\ \E label \in Labels, W \in SUBSET Blocked :
              /\ NotifyThreads(t, label, W)
              /\ \/ pc[t] = "notifyone" /\ label = "edges"
                 \/ pc[t] = "notifyall" /\ label = "dequeue"
    BY <1>6, LabelNames DEF NotifyAll, NotifyOne
  <2> QED
    BY <2>1, <1>0 DEF Quiet, NotifyThreads, Blocked
<1> QED
  BY <1>1, <1>2, <1>3, <1>4, <1>5, <1>6

(* The dequeued step moves from the queue to the worker.                   *)
LEMMA DequeuePreserves ==
    ASSUME DependencyInv, NEW t \in Threads, Dequeue(t)
    PROVE  WorkerInv' /\ PlaceInv' /\ ZeroInv' /\ DegreeInv'
<1> DEFINE s == Head(ready)
<1>0. /\ ready \in Seq(Steps) /\ ready # <<>> /\ pc[t] = "dequeue"
      /\ pc \in [Threads -> Labels] /\ task \in [Threads -> Steps \cup {NoStep}]
      /\ NoRepeats(ready)
  BY DEF DependencyInv, Typing, TypeOK, Dequeue, HeadPublished, PlaceInv
<1>1. /\ s \in Queued /\ s \in Steps
      /\ Queued' = Queued \ {s} /\ NoRepeats(ready')
  BY <1>0, QueueTail, HeadTailProperties DEF Dequeue, Queued
<1>2. /\ task' = [task EXCEPT ![t] = s] /\ pc' = [pc EXCEPT ![t] = "claimed"]
      /\ UNCHANGED <<in_degrees, todo, next, status>>
  BY DEF Dequeue, Goto
<1>3. status[s] = "pending" /\ ~Held(s) /\ ~Pushed(s) /\ in_degrees[s] = 0
  BY <1>1 DEF DependencyInv, PlaceInv, ZeroInv
<1>4. WorkerInv'
  BY <1>0, <1>1, <1>2, <1>3 DEF DependencyInv, WorkerInv, Taken, Releasing, Busy
<1>5. task[t] = NoStep
  BY <1>0 DEF DependencyInv, WorkerInv, Taken, Releasing, Busy
<1>6. \A r \in Steps : /\ Pushed(r)' <=> Pushed(r)
                       /\ Held(r)' <=> Held(r) \/ r = s
  BY <1>0, <1>1, <1>2, <1>5, StepsAssumption DEF Pushed, Held
<1>7. PlaceInv'
  <2>1. \A u, v \in Threads : task'[u] \in Steps /\ task'[u] = task'[v] => u = v
    BY <1>0, <1>2, <1>3 DEF DependencyInv, PlaceInv, Held
  <2>2. \A u, v \in Threads :
           pc'[u] = "enqueue" /\ pc'[v] = "enqueue" /\ next'[u] = next'[v] => u = v
    BY <1>0, <1>2 DEF DependencyInv, PlaceInv
  <2>3. \A r \in Queued' : r \in Steps /\ status'[r] = "pending" /\ ~Held(r)' /\ ~Pushed(r)'
    <3>1. Queued \subseteq Steps
      BY <1>0, ElementOfSeq DEF Queued, StepsIn
    <3> QED
      BY <1>1, <1>2, <1>6, <3>1 DEF DependencyInv, PlaceInv
  <2>4. \A r \in Steps : Pushed(r)' => status'[r] = "pending" /\ ~Held(r)'
    BY <1>2, <1>3, <1>6 DEF DependencyInv, PlaceInv
  <2> QED
    BY <1>1, <2>1, <2>2, <2>3, <2>4 DEF PlaceInv
<1>8. ZeroInv'
  BY <1>1, <1>2, <1>3, <1>6 DEF DependencyInv, ZeroInv
<1>9. DegreeInv'
  BY <1>2 DEF DependencyInv, DegreeInv, Unreleased, InEdges
<1> QED
  BY <1>4, <1>7, <1>8, <1>9

(* The command of the step starts, or fails: no edge is released.          *)
LEMMA ProcessAndFailPreserve ==
    ASSUME DependencyInv, NEW t \in Threads, Process(t) \/ Fail(t)
    PROVE  WorkerInv' /\ PlaceInv' /\ ZeroInv' /\ DegreeInv'
<1> DEFINE s == task[t]
<1>0. /\ pc[t] \in {"process", "running"}
      /\ pc \in [Threads -> Labels] /\ task \in [Threads -> Steps \cup {NoStep}]
      /\ status \in [Steps -> {"pending", "running", "done", "failed"}]
  BY DEF DependencyInv, Typing, TypeOK, Process, Fail
<1>1. s \in Steps /\ status[s] \in {"pending", "running"}
  BY <1>0 DEF DependencyInv, WorkerInv, Taken, Busy
<1>2. PICK new \in {"running", "failed"} :
         /\ status' = [status EXCEPT ![s] = new] /\ pc' = [pc EXCEPT ![t] = new]
         /\ UNCHANGED <<ready, in_degrees, task, todo, next>>
  BY DEF Process, Fail, Goto, sync, local
<1>3. Held(s)
  BY DEF Held
<1>4. in_degrees[s] = 0 /\ s \notin Queued /\ ~Pushed(s)
  BY <1>1, <1>3 DEF DependencyInv, ZeroInv, PlaceInv
<1>5. \A u \in Threads : u # t /\ task[u] \in Steps => task[u] # s
  BY <1>1 DEF DependencyInv, PlaceInv
<1>6. WorkerInv'
  BY <1>0, <1>1, <1>2, <1>5 DEF DependencyInv, WorkerInv, Taken, Releasing, Busy
<1>7. Queued' = Queued /\ \A r \in Steps : (Held(r)' <=> Held(r)) /\ (Pushed(r)' <=> Pushed(r))
  BY <1>0, <1>2 DEF Queued, Held, Pushed, StepsIn
<1>8. Queued \subseteq Steps
  BY ElementOfSeq DEF Queued, StepsIn, DependencyInv, Typing, TypeOK
<1>9. PlaceInv'
  <2>1. NoRepeats(ready')
    BY <1>2 DEF DependencyInv, PlaceInv
  <2>2. \A u, v \in Threads : task'[u] \in Steps /\ task'[u] = task'[v] => u = v
    BY <1>2 DEF DependencyInv, PlaceInv
  <2>3. \A u, v \in Threads :
           pc'[u] = "enqueue" /\ pc'[v] = "enqueue" /\ next'[u] = next'[v] => u = v
    BY <1>0, <1>2 DEF DependencyInv, PlaceInv
  <2>4. \A r \in Queued' : status'[r] = "pending" /\ ~Held(r)' /\ ~Pushed(r)'
    BY <1>0, <1>2, <1>4, <1>7, <1>8 DEF DependencyInv, PlaceInv
  <2>5. \A r \in Steps : Pushed(r)' => status'[r] = "pending" /\ ~Held(r)'
    BY <1>0, <1>2, <1>4, <1>7 DEF DependencyInv, PlaceInv
  <2> QED
    BY <2>1, <2>2, <2>3, <2>4, <2>5 DEF PlaceInv
<1>10. ZeroInv'
  BY <1>0, <1>2, <1>4, <1>7 DEF DependencyInv, ZeroInv
<1>11. DegreeInv'
  <2>1. \A r \in Steps : Unreleased(r)' = Unreleased(r)
    BY <1>0, <1>1, <1>2, EdgesAssumption DEF Unreleased, InEdges
  <2> QED
    BY <1>2, <2>1 DEF DependencyInv, DegreeInv
<1> QED
  BY <1>6, <1>9, <1>10, <1>11

(* A successful step passes its edges to the list its worker releases.     *)
LEMMA SucceedPreserves ==
    ASSUME DependencyInv, NEW t \in Threads, Succeed(t)
    PROVE  WorkerInv' /\ PlaceInv' /\ ZeroInv' /\ DegreeInv'
<1> DEFINE s == task[t]
<1>0. /\ pc[t] = "running"
      /\ pc \in [Threads -> Labels] /\ task \in [Threads -> Steps \cup {NoStep}]
      /\ todo \in [Threads -> SUBSET Edges]
      /\ status \in [Steps -> {"pending", "running", "done", "failed"}]
  BY DEF DependencyInv, Typing, TypeOK, Succeed
<1>1. s \in Steps /\ status[s] = "running" /\ todo[t] = {}
  BY <1>0 DEF DependencyInv, WorkerInv, Taken, Releasing, Busy
<1>2. /\ status' = [status EXCEPT ![s] = "done"] /\ pc' = [pc EXCEPT ![t] = "edges"]
      /\ todo' = [todo EXCEPT ![t] = OutEdges(s)]
      /\ UNCHANGED <<ready, in_degrees, task, next>>
  BY DEF Succeed, Goto
<1>3. Held(s)
  BY DEF Held
<1>4. in_degrees[s] = 0 /\ s \notin Queued /\ ~Pushed(s)
  BY <1>1, <1>3 DEF DependencyInv, ZeroInv, PlaceInv
<1>5. \A u \in Threads : u # t /\ task[u] \in Steps => task[u] # s
  BY <1>1 DEF DependencyInv, PlaceInv
<1>6. WorkerInv'
  BY <1>0, <1>1, <1>2, <1>5 DEF DependencyInv, WorkerInv, Taken, Releasing, Busy, OutEdges
<1>7. Queued' = Queued /\ \A r \in Steps : (Held(r)' <=> Held(r)) /\ (Pushed(r)' <=> Pushed(r))
  BY <1>0, <1>2 DEF Queued, Held, Pushed, StepsIn
<1>8. Queued \subseteq Steps
  BY ElementOfSeq DEF Queued, StepsIn, DependencyInv, Typing, TypeOK
<1>9. PlaceInv'
  <2>1. NoRepeats(ready')
    BY <1>2 DEF DependencyInv, PlaceInv
  <2>2. \A u, v \in Threads : task'[u] \in Steps /\ task'[u] = task'[v] => u = v
    BY <1>2 DEF DependencyInv, PlaceInv
  <2>3. \A u, v \in Threads :
           pc'[u] = "enqueue" /\ pc'[v] = "enqueue" /\ next'[u] = next'[v] => u = v
    BY <1>0, <1>2 DEF DependencyInv, PlaceInv
  <2>4. \A r \in Queued' : status'[r] = "pending" /\ ~Held(r)' /\ ~Pushed(r)'
    BY <1>0, <1>2, <1>4, <1>7, <1>8 DEF DependencyInv, PlaceInv
  <2>5. \A r \in Steps : Pushed(r)' => status'[r] = "pending" /\ ~Held(r)'
    BY <1>0, <1>2, <1>4, <1>7 DEF DependencyInv, PlaceInv
  <2> QED
    BY <2>1, <2>2, <2>3, <2>4, <2>5 DEF PlaceInv
<1>10. ZeroInv'
  BY <1>0, <1>2, <1>4, <1>7 DEF DependencyInv, ZeroInv
<1>11. DegreeInv'
  <2>1. ASSUME NEW r \in Steps, NEW e \in InEdges(r)
        PROVE  (e \in Unreleased(r))' <=> e \in Unreleased(r)
    <3>1. e \in Edges /\ From[e] \in Steps
      BY EdgesAssumption DEF InEdges
    <3>2. CASE From[e] = s
      <4>1. e \in todo'[t]
        BY <1>0, <1>2, <3>1, <3>2 DEF OutEdges
      <4> QED
        BY <1>1, <3>2, <4>1 DEF Unreleased, InEdges
    <3>3. CASE From[e] # s
      <4>1. status'[From[e]] = status[From[e]]
        BY <1>0, <1>2, <3>1, <3>3
      <4>2. \A u \in Threads : e \in todo'[u] <=> e \in todo[u]
        BY <1>0, <1>1, <1>2, <3>3 DEF OutEdges
      <4> QED
        BY <4>1, <4>2 DEF Unreleased, InEdges
    <3> QED
      BY <3>2, <3>3
  <2>2. \A r \in Steps : Unreleased(r)' = Unreleased(r)
    BY <2>1 DEF Unreleased, InEdges
  <2> QED
    BY <1>2, <2>2 DEF DependencyInv, DegreeInv
<1> QED
  BY <1>6, <1>9, <1>10, <1>11

(* Releasing an edge takes it out of the unreleased edges of its consumer; *)
(* the worker that takes the last one is the one that pushes the consumer. *)
LEMMA ReleaseEdgePreserves ==
    ASSUME DependencyInv, NEW t \in Threads, ReleaseEdge(t)
    PROVE  WorkerInv' /\ PlaceInv' /\ ZeroInv' /\ DegreeInv'
<1>0. /\ pc[t] = "edges"
      /\ pc \in [Threads -> Labels] /\ task \in [Threads -> Steps \cup {NoStep}]
      /\ todo \in [Threads -> SUBSET Edges] /\ next \in [Threads -> Steps \cup {NoStep}]
      /\ in_degrees \in [Steps -> Int]
  BY DEF DependencyInv, Typing, TypeOK, ReleaseEdge
<1>1. PICK e \in todo[t] :
         /\ todo' = [todo EXCEPT ![t] = @ \ {e}]
         /\ in_degrees' = [in_degrees EXCEPT ![To[e]] = @ - 1]
         /\ IF in_degrees[To[e]] = 1
              THEN next' = [next EXCEPT ![t] = To[e]] /\ pc' = [pc EXCEPT ![t] = "enqueue"]
              ELSE UNCHANGED <<next, pc>>
  BY DEF ReleaseEdge, Goto, Released
<1> DEFINE s == To[e]
<1>2. e \in Edges /\ s \in Steps /\ From[e] = task[t] /\ From[e] \in Steps
  BY <1>0, EdgesAssumption DEF DependencyInv, WorkerInv
<1>3. UNCHANGED <<ready, task, status>>
  BY DEF ReleaseEdge
<1>4. e \in Unreleased(s)
  BY <1>2 DEF Unreleased, InEdges
<1>5. in_degrees[s] # 0
  BY <1>2, <1>4, UnreleasedFinite, FS_EmptySet DEF DependencyInv, DegreeInv
<1>6. status[s] = "pending" /\ s \notin Queued /\ ~Pushed(s) /\ ~Held(s)
  BY <1>2, <1>5 DEF DependencyInv, ZeroInv
<1>7. WorkerInv'
  BY <1>0, <1>1, <1>3 DEF DependencyInv, WorkerInv, Taken, Releasing, Busy
<1>8. Queued' = Queued /\ \A r : Held(r)' <=> Held(r)
  BY <1>3 DEF Queued, Held, StepsIn
<1>9. \A r \in Steps : Pushed(r)' => Pushed(r) \/ (r = s /\ in_degrees[s] = 1)
  BY <1>0, <1>1 DEF Pushed
<1>10. Queued \subseteq Steps
  BY ElementOfSeq DEF Queued, StepsIn, DependencyInv, Typing, TypeOK
<1>11. PlaceInv'
  <2>1. NoRepeats(ready')
    BY <1>3 DEF DependencyInv, PlaceInv
  <2>2. \A u, v \in Threads : task'[u] \in Steps /\ task'[u] = task'[v] => u = v
    BY <1>3 DEF DependencyInv, PlaceInv
  <2>3. \A u, v \in Threads :
           pc'[u] = "enqueue" /\ pc'[v] = "enqueue" /\ next'[u] = next'[v] => u = v
    <3>1. \A u \in Threads : pc[u] = "enqueue" => next[u] # s
      BY <1>6 DEF Pushed
    <3> QED
      BY <1>0, <1>1, <3>1 DEF DependencyInv, PlaceInv
  <2>4. \A r \in Queued' : status'[r] = "pending" /\ ~Held(r)' /\ ~Pushed(r)'
    BY <1>3, <1>6, <1>8, <1>9, <1>10 DEF DependencyInv, PlaceInv
  <2>5. \A r \in Steps : Pushed(r)' => status'[r] = "pending" /\ ~Held(r)'
    BY <1>3, <1>6, <1>8, <1>9 DEF DependencyInv, PlaceInv
  <2> QED
    BY <2>1, <2>2, <2>3, <2>4, <2>5 DEF PlaceInv
<1>12. ZeroInv'
  <2> SUFFICES ASSUME NEW r \in Steps,
                      status'[r] # "pending" \/ r \in Queued' \/ Pushed(r)' \/ Held(r)'
               PROVE  in_degrees'[r] = 0
    BY DEF ZeroInv
  <2>1. CASE r = s
    BY <1>0, <1>1, <1>2, <1>3, <1>6, <1>8, <1>9, <2>1
  <2>2. CASE r # s
    BY <1>0, <1>1, <1>2, <1>3, <1>8, <1>9, <2>2 DEF DependencyInv, ZeroInv
  <2> QED
    BY <2>1, <2>2
<1>13. DegreeInv'
  <2>1. status[From[e]] = "done"
    BY <1>0, <1>2 DEF DependencyInv, WorkerInv, Releasing
  <2>2. \A u \in Threads : u # t => e \notin todo[u]
    BY <1>2 DEF DependencyInv, WorkerInv, PlaceInv
  <2>3. Unreleased(s)' = Unreleased(s) \ {e}
    BY <1>0, <1>1, <1>3, <2>1, <2>2 DEF Unreleased, InEdges
  <2>4. Cardinality(Unreleased(s)') = Cardinality(Unreleased(s)) - 1
    <3>1. IsFiniteSet(Unreleased(s))
      BY <1>2, UnreleasedFinite
    <3>2. Cardinality(Unreleased(s) \ {e}) = Cardinality(Unreleased(s)) - 1
      BY <1>4, <3>1, FS_RemoveElement
    <3> QED
      BY <2>3, <3>2
  <2>5. \A r \in Steps : r # s => Unreleased(r)' = Unreleased(r)
    BY <1>0, <1>1, <1>3 DEF Unreleased, InEdges
  <2> QED
    BY <1>0, <1>1, <1>2, <2>4, <2>5 DEF DependencyInv, DegreeInv
<1> QED
  BY <1>7, <1>11, <1>12, <1>13

(* A worker lets go of a step when its edges are released or it failed.    *)
LEMMA DropTaskPreserves ==
    ASSUME DependencyInv, NEW t \in Threads, EdgesDone(t) \/ AbandonBuild(t) \/ CountFailed(t)
    PROVE  WorkerInv' /\ PlaceInv' /\ ZeroInv' /\ DegreeInv'
<1> DEFINE s == task[t]
<1>0. /\ pc[t] \in {"edges", "failed"}
      /\ pc \in [Threads -> Labels] /\ task \in [Threads -> Steps \cup {NoStep}]
  BY DEF DependencyInv, Typing, TypeOK, EdgesDone, AbandonBuild, CountFailed
<1>1. s \in Steps /\ status[s] # "pending" /\ todo[t] = {}
  <2>1. pc[t] = "edges" => todo[t] = {}
    BY DEF EdgesDone, AbandonBuild, CountFailed
  <2>2. pc[t] = "failed" => todo[t] = {}
    BY DEF DependencyInv, WorkerInv, Releasing
  <2> QED
    BY <1>0, <2>1, <2>2 DEF DependencyInv, WorkerInv, Releasing, Busy
<1>2. /\ task' = [task EXCEPT ![t] = NoStep]
      /\ \E label \in {"release", "dequeue"} : pc' = [pc EXCEPT ![t] = label]
      /\ UNCHANGED <<ready, in_degrees, todo, next, status>>
  BY DEF EdgesDone, AbandonBuild, CountFailed, DropTask, Goto, sync
<1>3. WorkerInv'
  BY <1>0, <1>1, <1>2, StepsAssumption DEF DependencyInv, WorkerInv, Taken, Releasing, Busy
<1>4. /\ Queued' = Queued
      /\ \A r \in Steps : (Held(r)' => Held(r)) /\ (Pushed(r)' <=> Pushed(r))
  BY <1>0, <1>2, StepsAssumption DEF Queued, Held, Pushed, StepsIn
<1>5. Queued \subseteq Steps
  BY ElementOfSeq DEF Queued, StepsIn, DependencyInv, Typing, TypeOK
<1>6. PlaceInv'
  <2>1. NoRepeats(ready')
    BY <1>2 DEF DependencyInv, PlaceInv
  <2>2. \A u, v \in Threads : task'[u] \in Steps /\ task'[u] = task'[v] => u = v
    BY <1>0, <1>2, StepsAssumption DEF DependencyInv, PlaceInv
  <2>3. \A u, v \in Threads :
           pc'[u] = "enqueue" /\ pc'[v] = "enqueue" /\ next'[u] = next'[v] => u = v
    BY <1>0, <1>2 DEF DependencyInv, PlaceInv
  <2>4. \A r \in Queued' : status'[r] = "pending" /\ ~Held(r)' /\ ~Pushed(r)'
    BY <1>2, <1>4, <1>5 DEF DependencyInv, PlaceInv
  <2>5. \A r \in Steps : Pushed(r)' => status'[r] = "pending" /\ ~Held(r)'
    BY <1>2, <1>4 DEF DependencyInv, PlaceInv
  <2> QED
    BY <2>1, <2>2, <2>3, <2>4, <2>5 DEF PlaceInv
<1>7. ZeroInv'
  BY <1>2, <1>4 DEF DependencyInv, ZeroInv
<1>8. DegreeInv'
  <2>1. \A r \in Steps : Unreleased(r)' = Unreleased(r)
    BY <1>2 DEF Unreleased, InEdges
  <2> QED
    BY <1>2, <2>1 DEF DependencyInv, DegreeInv
<1> QED
  BY <1>3, <1>6, <1>7, <1>8

(* The queue has room for a pushed step, which moves into it.              *)
LEMMA EnqueuePreserves ==
    ASSUME DependencyInv, NEW t \in Threads, Enqueue(t)
    PROVE  /\ WorkerInv' /\ PlaceInv' /\ ZeroInv' /\ DegreeInv'
           /\ Len(ready) < QueueCapacity
<1> DEFINE s == next[t]
<1>0. /\ pc[t] = "enqueue" /\ s \in Steps
      /\ pc \in [Threads -> Labels] /\ ready \in Seq(Steps) /\ NoRepeats(ready)
  BY DEF DependencyInv, Typing, TypeOK, PushesStep, PlaceInv, Enqueue
<1>1. Pushed(s)
  BY <1>0 DEF Pushed
<1>2. s \notin Queued /\ status[s] = "pending" /\ ~Held(s) /\ in_degrees[s] = 0
  BY <1>0, <1>1 DEF DependencyInv, PlaceInv, ZeroInv
<1>3. Len(ready) < QueueCapacity
  BY <1>0, <1>2, QueueFits DEF Queued
<1>4. /\ ready' = Append(ready, s) /\ pc' = [pc EXCEPT ![t] = "publish"]
      /\ UNCHANGED <<in_degrees, task, todo, next, status>>
  BY <1>3 DEF Enqueue, Goto, local
<1>5. Queued' = Queued \cup {s} /\ NoRepeats(ready')
  BY <1>0, <1>2, <1>4, QueueAppend DEF Queued
<1>6. /\ \A r \in Steps : Held(r)' <=> Held(r)
      /\ \A r \in Steps : Pushed(r)' => Pushed(r) /\ r # s
  BY <1>0, <1>4 DEF Held, Pushed, DependencyInv, PlaceInv
<1>7. WorkerInv'
  BY <1>0, <1>4 DEF DependencyInv, WorkerInv, Taken, Releasing, Busy
<1>8. Queued \subseteq Steps
  BY <1>0, ElementOfSeq DEF Queued, StepsIn
<1>9. PlaceInv'
  <2>1. \A u, v \in Threads : task'[u] \in Steps /\ task'[u] = task'[v] => u = v
    BY <1>4 DEF DependencyInv, PlaceInv
  <2>2. \A u, v \in Threads :
           pc'[u] = "enqueue" /\ pc'[v] = "enqueue" /\ next'[u] = next'[v] => u = v
    BY <1>0, <1>4 DEF DependencyInv, PlaceInv
  <2>3. \A r \in Queued' : status'[r] = "pending" /\ ~Held(r)' /\ ~Pushed(r)'
    BY <1>0, <1>2, <1>4, <1>5, <1>6, <1>8 DEF DependencyInv, PlaceInv
  <2>4. \A r \in Steps : Pushed(r)' => status'[r] = "pending" /\ ~Held(r)'
    BY <1>4, <1>6 DEF DependencyInv, PlaceInv
  <2> QED
    BY <1>5, <2>1, <2>2, <2>3, <2>4 DEF PlaceInv
<1>10. ZeroInv'
  BY <1>2, <1>4, <1>5, <1>6 DEF DependencyInv, ZeroInv
<1>11. DegreeInv'
  <2>1. \A r \in Steps : Unreleased(r)' = Unreleased(r)
    BY <1>4 DEF Unreleased, InEdges
  <2> QED
    BY <1>4, <2>1 DEF DependencyInv, DegreeInv
<1> QED
  BY <1>3, <1>7, <1>9, <1>10, <1>11

(* Every action keeps the invariant.                                       *)
LEMMA DependencyNext == DependencyInv /\ [Next]_vars => DependencyInv'
<1> SUFFICES ASSUME DependencyInv, [Next]_vars
             PROVE  WorkerInv' /\ PlaceInv' /\ ZeroInv' /\ DegreeInv'
  BY TypingNext DEF DependencyInv
<1>1. ASSUME Quiet PROVE WorkerInv' /\ PlaceInv' /\ ZeroInv' /\ DegreeInv'
  BY <1>1, QuietPreserves DEF DependencyInv
<1>2. CASE UNCHANGED vars \/ Execute \/ Returned
  BY <1>1, <1>2, QuietSteps DEF Returned, DependencyInv
<1>3. ASSUME NEW t \in Threads, Worker(t)
      PROVE  WorkerInv' /\ PlaceInv' /\ ZeroInv' /\ DegreeInv'
  <2>1. CASE \/ DequeueEmpty(t) \/ CountDown(t) \/ Check(t) \/ Load(t) \/ Recheck(t)
             \/ Sleep(t) \/ Wait(t) \/ Wake(t) \/ Release(t) \/ NotifyAll(t)
             \/ Publish(t) \/ CountUp(t) \/ NotifyOne(t)
    <3>1. Quiet
      BY <2>1, QuietSteps DEF DependencyInv
    <3> QED
      BY <1>1, <3>1
  <2>2. CASE \/ Dequeue(t) \/ Process(t) \/ Succeed(t) \/ Fail(t) \/ ReleaseEdge(t)
             \/ EdgesDone(t) \/ AbandonBuild(t) \/ CountFailed(t) \/ Enqueue(t)
    BY <2>2, DequeuePreserves, ProcessAndFailPreserve, SucceedPreserves, ReleaseEdgePreserves,
       DropTaskPreserves, EnqueuePreserves
  <2> QED
    BY <1>3, <2>1, <2>2 DEF Worker
<1> QED
  BY <1>2, <1>3 DEF Next

(* The invariant of the tasks and the edges.                               *)
LEMMA DependencyInvariant == Safety => []DependencyInv
BY DependencyInit, DependencyNext, PTL DEF Safety

(* Whatever the interleaving of the workers, a step's command has started  *)
(* only if the commands that produce its inputs have all succeeded.        *)
THEOREM DependenciesFirst == Safety => []DependencyOrder
<1>1. DependencyInv => DependencyOrder
  <2> SUFFICES ASSUME DependencyInv, NEW e \in Edges, status[To[e]] # "pending"
               PROVE  status[From[e]] = "done"
    BY DEF DependencyOrder
  <2>1. To[e] \in Steps
    BY EdgesAssumption
  <2>2. in_degrees[To[e]] = 0
    BY <2>1 DEF DependencyInv, ZeroInv
  <2> QED
    BY <2>1, <2>2, ZeroMeansReady DEF DependencyInv
<1> QED
  BY <1>1, DependencyInvariant, PTL

(* pushReady never loses a step because the ready queue is full, although  *)
(* the release build does not look at what enqueue returns.                *)
THEOREM QueueNeverFull == Safety => []ReadyNeverFull
<1>1. DependencyInv => ReadyNeverFull
  <2> SUFFICES ASSUME DependencyInv, NEW t \in Threads, pc[t] = "enqueue"
               PROVE  Len(ready) < QueueCapacity
    BY DEF ReadyNeverFull
  <2>1. ready \in Seq(Steps) /\ NoRepeats(ready) /\ next[t] \in Steps /\ Pushed(next[t])
    BY DEF DependencyInv, Typing, TypeOK, PushesStep, PlaceInv, Pushed
  <2>2. next[t] \notin Queued
    BY <2>1 DEF DependencyInv, PlaceInv
  <2> QED
    BY <2>1, <2>2, QueueFits DEF Queued
<1> QED
  BY <1>1, DependencyInvariant, PTL

(* Every step of the executor is a step of the abstract build or changes   *)
(* nothing that it shows: commands start after their producers, start at   *)
(* most once, and end at most once.                                        *)
THEOREM ImplementsContract == Safety => Contract!Safety
<1>1. Init => Contract!Init
  BY DEF Init, Contract!Init
<1>2. DependencyInv /\ [Next]_vars => [Contract!Next]_status
  <2> SUFFICES ASSUME DependencyInv, [Next]_vars PROVE Contract!Next \/ UNCHANGED status
    OBVIOUS
  <2>1. CASE UNCHANGED vars \/ Execute \/ Returned
    BY <2>1 DEF vars, Execute, Spawn, StopSpawning, Join, Returned
  <2>2. ASSUME NEW t \in Threads, Process(t) PROVE Contract!Next
    <3>1. pc[t] = "process" /\ status' = [status EXCEPT ![task[t]] = "running"]
      BY <2>2 DEF Process
    <3>2. task[t] \in Steps /\ status[task[t]] = "pending" /\ Held(task[t])
      BY <3>1 DEF DependencyInv, WorkerInv, Taken, Busy, Held
    <3>3. in_degrees[task[t]] = 0
      BY <3>2 DEF DependencyInv, ZeroInv
    <3>4. Contract!InputsReady(task[t])
      BY <3>2, <3>3, ZeroMeansReady DEF DependencyInv, Contract!InputsReady
    <3> QED
      BY <3>1, <3>2, <3>4 DEF Contract!Next, Contract!Start
  <2>3. ASSUME NEW t \in Threads, Succeed(t) \/ Fail(t) PROVE Contract!Next
    <3>1. pc[t] = "running"
      BY <2>3 DEF Succeed, Fail
    <3>2. task[t] \in Steps /\ status[task[t]] = "running"
      BY <3>1 DEF DependencyInv, WorkerInv, Busy
    <3> QED
      BY <2>3, <3>2 DEF Succeed, Fail, Contract!Next, Contract!Succeed, Contract!Fail
  <2>4. ASSUME NEW t \in Threads, Worker(t), ~Process(t), ~Succeed(t), ~Fail(t)
        PROVE  UNCHANGED status
    BY <2>4 DEF Worker, Dequeue, DequeueEmpty, CountDown, Check, Load, Recheck, Sleep, Wait,
                Wake, ReleaseEdge, EdgesDone, AbandonBuild, CountFailed, Release, NotifyAll,
                Enqueue, Publish, CountUp, NotifyOne
  <2> QED
    BY <2>1, <2>2, <2>3, <2>4 DEF Next
<1> QED
  BY <1>1, <1>2, DependencyInvariant, PTL DEF Safety, Contract!Safety

-----------------------------------------------------------------------------
(***************************************************************************)
(* The ready queue.  The items claimed and not yet published are the steps *)
(* that workers between the claim and the publication push.  That each of  *)
(* them is in the queue, and pushed by one worker, makes a publication the *)
(* end of exactly one claim.                                               *)
(***************************************************************************)
PublishInv ==
    /\ \A t \in Threads : pc[t] = "publish" => next[t] \in Queued
    /\ \A t, u \in Threads : pc[t] = "publish" /\ pc[u] = "publish" /\ next[t] = next[u] => t = u

Unpublished == {next[t] : t \in {u \in Threads : pc[u] = "publish"}}

(* A worker that pushes nothing leaves the publishers as they are.         *)
LEMMA PublishersKept ==
    ASSUME \A t \in Threads : /\ pc'[t] = "publish" <=> pc[t] = "publish"
                              /\ pc[t] = "publish" => next'[t] = next[t]
    PROVE  /\ Unpublished' = Unpublished
           /\ PublishInv /\ UNCHANGED ready => PublishInv'
<1>1. Unpublished' = Unpublished
  BY DEF Unpublished
<1>2. ASSUME PublishInv, UNCHANGED ready PROVE PublishInv'
  BY <1>2 DEF PublishInv, Queued, StepsIn
<1> QED
  BY <1>1, <1>2

(* Which actions push nothing.                                             *)
LEMMA OthersPublishNothing ==
    ASSUME Typing, [Next]_vars,
           \A t \in Threads : ~Enqueue(t) /\ ~Publish(t)
    PROVE  \A t \in Threads : /\ pc'[t] = "publish" <=> pc[t] = "publish"
                              /\ pc[t] = "publish" => next'[t] = next[t]
<1> USE DEF sync, local
<1>0. pc \in [Threads -> Labels] /\ next \in [Threads -> Steps \cup {NoStep}]
  BY DEF Typing, TypeOK
<1>1. CASE UNCHANGED vars \/ Execute \/ Returned
  BY <1>0, <1>1 DEF vars, Execute, Spawn, StopSpawning, Join, Returned, Goto
<1>2. ASSUME NEW t \in Threads,
             \/ Dequeue(t) \/ DequeueEmpty(t) \/ CountDown(t) \/ Check(t) \/ Load(t)
             \/ Recheck(t) \/ Sleep(t) \/ Wait(t) \/ Wake(t) \/ Process(t)
      PROVE  \A u \in Threads : /\ pc'[u] = "publish" <=> pc[u] = "publish"
                                /\ pc[u] = "publish" => next'[u] = next[u]
  BY <1>0, <1>2 DEF Dequeue, DequeueEmpty, CountDown, Check, Load, Recheck, Sleep, Wait, Wake,
                    Process, Goto
<1>3. ASSUME NEW t \in Threads,
             \/ Succeed(t) \/ Fail(t) \/ ReleaseEdge(t) \/ EdgesDone(t) \/ AbandonBuild(t)
             \/ CountFailed(t) \/ Release(t) \/ CountUp(t)
      PROVE  \A u \in Threads : /\ pc'[u] = "publish" <=> pc[u] = "publish"
                                /\ pc[u] = "publish" => next'[u] = next[u]
  BY <1>0, <1>3 DEF Succeed, Fail, ReleaseEdge, EdgesDone, AbandonBuild, CountFailed, Release,
                    CountUp, Goto, DropTask
<1>4. ASSUME NEW t \in Threads, NotifyAll(t) \/ NotifyOne(t)
      PROVE  \A u \in Threads : /\ pc'[u] = "publish" <=> pc[u] = "publish"
                                /\ pc[u] = "publish" => next'[u] = next[u]
  BY <1>0, <1>4 DEF NotifyAll, NotifyOne, NotifyThreads, Blocked
<1> QED
  BY <1>1, <1>2, <1>3, <1>4 DEF Next, Worker

(* A pushed step is not in the queue, and an unpublished head stays there. *)
LEMMA PublishNext == DependencyInv /\ PublishInv /\ [Next]_vars => PublishInv'
<1> SUFFICES ASSUME DependencyInv, PublishInv, [Next]_vars PROVE PublishInv'
  OBVIOUS
<1>0. pc \in [Threads -> Labels] /\ next \in [Threads -> Steps \cup {NoStep}] /\ ready \in Seq(Steps)
  BY DEF DependencyInv, Typing, TypeOK
<1>1. ASSUME NEW t \in Threads, Enqueue(t) PROVE PublishInv'
  <2>1. pc[t] = "enqueue" /\ next[t] \in Steps /\ Len(ready) < QueueCapacity
    BY <1>1, EnqueuePreserves DEF Enqueue, DependencyInv, Typing, PushesStep
  <2>2. next[t] \notin Queued
    BY <2>1 DEF Pushed, DependencyInv, PlaceInv
  <2>3. ready' = Append(ready, next[t]) /\ pc' = [pc EXCEPT ![t] = "publish"] /\ next' = next
    BY <1>1, <2>1 DEF Enqueue, Goto, local
  <2>4. Queued' = Queued \cup {next[t]}
    BY <1>0, <2>1, <2>3, QueueAppend DEF Queued
  <2> QED
    BY <1>0, <2>2, <2>3, <2>4 DEF PublishInv
<1>2. ASSUME NEW t \in Threads, Publish(t) PROVE PublishInv'
  BY <1>0, <1>2 DEF Publish, Goto, sync, PublishInv, Queued, StepsIn
<1>3. ASSUME \A t \in Threads : ~Enqueue(t) /\ ~Publish(t) PROVE PublishInv'
  <2>1. \A t \in Threads : /\ pc'[t] = "publish" <=> pc[t] = "publish"
                           /\ pc[t] = "publish" => next'[t] = next[t]
    BY <1>3, OthersPublishNothing DEF DependencyInv
  <2>2. ASSUME NEW t \in Threads, Dequeue(t) PROVE PublishInv'
    <3>1. ready # <<>> /\ ready' = Tail(ready)
          /\ \A u \in Threads : pc[u] = "publish" => next[u] # Head(ready)
      BY <2>2 DEF Dequeue, HeadPublished
    <3>2. Queued' = Queued \ {Head(ready)}
      BY <1>0, <3>1, QueueTail DEF Queued, DependencyInv, PlaceInv
    <3> QED
      BY <2>1, <3>1, <3>2 DEF PublishInv
  <2>3. ASSUME \A t \in Threads : ~Dequeue(t) PROVE UNCHANGED ready
    BY <1>3, <2>3 DEF Next, Worker, vars, sync, Execute, Spawn, StopSpawning, Join, Returned,
       DequeueEmpty, CountDown, Check, Load, Recheck, Sleep, Wait, Wake, Process, Succeed, Fail,
       ReleaseEdge, EdgesDone, AbandonBuild, CountFailed, Release, NotifyAll, CountUp, NotifyOne
  <2> QED
    BY <2>1, <2>2, <2>3, PublishersKept
<1> QED
  BY <1>1, <1>2, <1>3

(* What the workers do to the ready queue, the ring allows.                *)
LEMMA RingStep ==
    ASSUME DependencyInv, PublishInv, [Next]_vars
    PROVE  [Ring!Next]_(Ring!vars)
<1>0. /\ pc \in [Threads -> Labels] /\ next \in [Threads -> Steps \cup {NoStep}]
      /\ task \in [Threads -> Steps \cup {NoStep}] /\ ready \in Seq(Steps)
      /\ \A t \in Threads : task[t] \in Steps <=> pc[t] \in Busy
  BY DEF DependencyInv, Typing, TypeOK, WorkerInv
<1>1. ASSUME NEW t \in Threads, Enqueue(t) PROVE Ring!Next
  <2>1. pc[t] = "enqueue" /\ next[t] \in Steps /\ Len(ready) < QueueCapacity
    BY <1>1, EnqueuePreserves DEF Enqueue, DependencyInv, Typing, PushesStep
  <2>2. next[t] \notin Queued
    BY <2>1 DEF Pushed, DependencyInv, PlaceInv
  <2>3. /\ ready' = Append(ready, next[t]) /\ pc' = [pc EXCEPT ![t] = "publish"]
        /\ next' = next /\ task' = task
    BY <1>1, <2>1 DEF Enqueue, Goto, local
  <2>4. Unpublished' = Unpublished \cup {next[t]}
    BY <1>0, <2>1, <2>3 DEF Unpublished
  <2>5. next[t] \notin Ring!Contents
    BY <1>0, <2>2 DEF Ring!Contents, Queued, StepsIn
  <2>6. Ring!Claim(next[t])
    BY <2>1, <2>3, <2>4, <2>5 DEF Ring!Claim, Unpublished
  <2> QED
    BY <2>1, <2>6 DEF Ring!Next, Ring!Claim
<1>2. ASSUME NEW t \in Threads, Publish(t) PROVE Ring!Next
  <2>1. /\ pc[t] = "publish" /\ pc' = [pc EXCEPT ![t] = "count"]
        /\ next' = [next EXCEPT ![t] = NoStep] /\ ready' = ready /\ task' = task
    BY <1>2 DEF Publish, Goto, sync
  <2>2. next[t] \in Steps
    BY <1>0, <2>1, ElementOfSeq DEF PublishInv, Queued, StepsIn
  <2>3. Unpublished' = Unpublished \ {next[t]} /\ next[t] \in Unpublished
    BY <1>0, <2>1 DEF Unpublished, PublishInv
  <2>4. Ring!Publish(next[t])
    BY <2>1, <2>3 DEF Ring!Publish, Unpublished
  <2> QED
    BY <2>2, <2>4 DEF Ring!Next, Ring!Publish
<1>3. ASSUME \A t \in Threads : ~Enqueue(t) /\ ~Publish(t)
      PROVE  Ring!Next \/ UNCHANGED Ring!vars
  <2>1. Unpublished' = Unpublished
    BY <1>3, OthersPublishNothing, PublishersKept DEF DependencyInv
  <2>2. ASSUME NEW t \in Threads, Dequeue(t) PROVE Ring!Next
    <3>1. /\ ready # <<>> /\ ready' = Tail(ready) /\ pc[t] = "dequeue"
          /\ task' = [task EXCEPT ![t] = Head(ready)]
          /\ \A u \in Threads : pc[u] = "publish" => next[u] # Head(ready)
      BY <2>2 DEF Dequeue, HeadPublished
    <3>2. task[t] = NoStep
      BY <1>0, <3>1 DEF Busy, Taken, Releasing
    <3>3. Head(ready) \notin Unpublished
      BY <3>1 DEF Unpublished
    <3>4. Ring!Take(t)
      BY <2>1, <3>1, <3>2, <3>3 DEF Ring!Take, Unpublished
    <3> QED
      BY <3>4 DEF Ring!Next
  <2>3. ASSUME NEW t \in Threads, EdgesDone(t) \/ AbandonBuild(t) \/ CountFailed(t)
        PROVE  Ring!Next
    <3>1. pc[t] \in Busy /\ task' = [task EXCEPT ![t] = NoStep] /\ ready' = ready
      BY <2>3 DEF EdgesDone, AbandonBuild, CountFailed, DropTask, sync, Busy, Releasing
    <3>2. task[t] # NoStep
      BY <1>0, <3>1, StepsAssumption
    <3>3. Ring!HandOn(t)
      BY <2>1, <3>1, <3>2 DEF Ring!HandOn, Unpublished
    <3> QED
      BY <3>3 DEF Ring!Next
  <2>4. ASSUME \A t \in Threads : /\ ~Dequeue(t)
                                  /\ ~EdgesDone(t) /\ ~AbandonBuild(t) /\ ~CountFailed(t)
        PROVE  UNCHANGED <<ready, task>>
    BY <1>3, <2>4 DEF Next, Worker, vars, sync, local, Execute, Spawn, StopSpawning, Join,
       Returned, DequeueEmpty, CountDown, Check, Load, Recheck, Sleep, Wait, Wake, Process,
       Succeed, Fail, ReleaseEdge, Release, NotifyAll, CountUp, NotifyOne
  <2> QED
    BY <2>1, <2>2, <2>3, <2>4 DEF Ring!vars, Unpublished
<1> QED
  BY <1>1, <1>2, <1>3

(* The workers use the ready queue as ClaimQueue, and so MPMCQueue, lets   *)
(* them: nobody takes a step that is not published, none is in the queue   *)
(* twice, and it never holds more than it has cells.                       *)
THEOREM ReadyQueueIsAClaimQueue == Safety => RingSpec
<1>1. Init => Ring!Init /\ PublishInv
  <2> SUFFICES ASSUME Init PROVE Ring!Init /\ PublishInv
    OBVIOUS
  <2>1. ready \in [1..Cardinality(Roots) -> Steps]
    BY DEF Init, InitialOrders, Roots
  <2>2. Cardinality(Roots) \in 0..QueueCapacity
    BY Sizes DEF QueueCapacity
  <2>3. ready \in UNION {[1..n -> Steps] : n \in 0..QueueCapacity}
    BY <2>1, <2>2
  <2>4. \A t \in Threads : pc[t] = "unborn"
    BY DEF Init
  <2>5. Unpublished = {}
    BY <2>4 DEF Unpublished
  <2>6. task = [t \in Threads |-> NoStep]
    BY DEF Init
  <2> QED
    BY <2>3, <2>4, <2>5, <2>6 DEF Ring!Init, Unpublished, PublishInv
<1>2. DependencyInv /\ PublishInv /\ [Next]_vars => [Ring!Next]_(Ring!vars)
  BY RingStep
<1> QED
  BY <1>1, <1>2, PublishNext, DependencyInvariant, PTL DEF Safety, RingSpec, Ring!Spec

-----------------------------------------------------------------------------
(***************************************************************************)
(* How a build ends: the stall branch of workerLoop is dead code, a worker *)
(* exits only when the build is over, and what execute() returns is true.  *)
(***************************************************************************)
Done == {s \in Steps : status[s] = "done"}

(* The flag and the counter say what became of the steps.                  *)
CountInv ==
    /\ error_occurred <=> \E s \in Steps : status[s] = "failed"
    /\ ~error_occurred => completed_count = NumSources + Cardinality(Done)

(* No step gets lost: one whose edges are all released is queued, pushed   *)
(* or held until it starts, and a running one has a worker.                *)
PlacedInv ==
    /\ \A s \in Steps : status[s] = "pending" /\ in_degrees[s] = 0 =>
                            s \in Queued \/ Pushed(s) \/ Held(s)
    /\ \A s \in Steps : status[s] = "running" =>
                            \E t \in Threads : pc[t] = "running" /\ task[t] = s

(* Nothing is counted before a worker runs.                                *)
LEMMA CountInit == Init => CountInv
<1> SUFFICES ASSUME Init PROVE CountInv
  OBVIOUS
<1>1. Done = {} /\ \A s \in Steps : status[s] # "failed"
  BY DEF Init, Done
<1> QED
  BY <1>1, CountsAssumption, FS_EmptySet DEF Init, CountInv

(* The flag and the count follow the steps.                                *)
LEMMA CountNext == DependencyInv /\ CountInv /\ [Next]_vars => CountInv'
<1> SUFFICES ASSUME DependencyInv, CountInv, [Next]_vars PROVE CountInv'
  OBVIOUS
<1> USE DEF sync, local
<1>0. /\ status \in [Steps -> {"pending", "running", "done", "failed"}]
      /\ error_occurred \in BOOLEAN /\ completed_count \in Nat
      /\ IsFiniteSet(Done) /\ Cardinality(Done) \in Nat
  <2>1. Done \in SUBSET Steps
    BY DEF Done
  <2> QED
    BY <2>1, Sizes, FS_Subset, FS_CardinalityType DEF DependencyInv, Typing, TypeOK
<1>1. ASSUME UNCHANGED <<completed_count, error_occurred, status>> PROVE CountInv'
  BY <1>1 DEF CountInv, Done
<1>2. CASE UNCHANGED vars \/ Execute \/ Returned
  BY <1>1, <1>2 DEF vars, Execute, Spawn, StopSpawning, Join, Returned
<1>3. ASSUME NEW t \in Threads, Succeed(t) PROVE CountInv'
  <2>1. task[t] \in Steps /\ status[task[t]] = "running"
    BY <1>3 DEF Succeed, DependencyInv, WorkerInv, Busy
  <2>2. /\ status' = [status EXCEPT ![task[t]] = "done"]
        /\ completed_count' = completed_count + 1 /\ error_occurred' = error_occurred
    BY <1>3 DEF Succeed
  <2>3. Done' = Done \cup {task[t]} /\ task[t] \notin Done
    BY <1>0, <2>1, <2>2 DEF Done
  <2>4. Cardinality(Done') = Cardinality(Done) + 1
    BY <1>0, <2>3, FS_AddElement
  <2>5. \A s \in Steps : status'[s] = "failed" <=> status[s] = "failed"
    BY <1>0, <2>1, <2>2
  <2>6. error_occurred' <=> \E s \in Steps : status'[s] = "failed"
    BY <2>2, <2>5 DEF CountInv
  <2>7. ~error_occurred => completed_count' = NumSources + Cardinality(Done')
    BY <1>0, <2>2, <2>4, CountsAssumption DEF CountInv
  <2> QED
    BY <2>2, <2>6, <2>7 DEF CountInv
<1>4. ASSUME NEW t \in Threads, Fail(t) PROVE CountInv'
  <2>1. task[t] \in Steps
    BY <1>4, StepsAssumption DEF Fail
  <2>2. status' = [status EXCEPT ![task[t]] = "failed"] /\ error_occurred' = TRUE
    BY <1>4 DEF Fail
  <2> QED
    BY <1>0, <2>1, <2>2 DEF CountInv
<1>5. ASSUME NEW t \in Threads, AbandonBuild(t) \/ CountFailed(t) PROVE CountInv'
  <2>1. status[task[t]] = "failed" /\ task[t] \in Steps
    BY <1>5 DEF AbandonBuild, CountFailed, DependencyInv, WorkerInv, Busy
  <2>2. error_occurred' = error_occurred /\ status' = status
    BY <1>5 DEF AbandonBuild, CountFailed
  <2> QED
    BY <2>1, <2>2 DEF CountInv
<1>6. ASSUME NEW t \in Threads, Worker(t), ~Succeed(t), ~Fail(t), ~AbandonBuild(t), ~CountFailed(t)
      PROVE  UNCHANGED <<completed_count, error_occurred, status>> \/ Process(t)
  BY <1>6 DEF Worker, Dequeue, DequeueEmpty, CountDown, Check, Load, Recheck, Sleep, Wait, Wake,
              ReleaseEdge, EdgesDone, Release, NotifyAll, Enqueue, Publish, CountUp, NotifyOne
<1>7. ASSUME NEW t \in Threads, Process(t) PROVE CountInv'
  <2>1. task[t] \in Steps /\ status[task[t]] = "pending"
    BY <1>7 DEF Process, DependencyInv, WorkerInv, Busy, Taken
  <2>2. /\ status' = [status EXCEPT ![task[t]] = "running"]
        /\ completed_count' = completed_count /\ error_occurred' = error_occurred
    BY <1>7 DEF Process
  <2>3. /\ Done' = Done
        /\ \A s \in Steps : status'[s] = "failed" <=> status[s] = "failed"
    BY <1>0, <2>1, <2>2 DEF Done
  <2> QED
    BY <2>2, <2>3 DEF CountInv
<1> QED
  BY <1>1, <1>2, <1>3, <1>4, <1>5, <1>6, <1>7 DEF Next

(* The steps without in-edges are all queued by execute.                   *)
LEMMA PlacedInit == Init => PlacedInv
<1> SUFFICES ASSUME Init PROVE PlacedInv
  OBVIOUS
<1>1. \A s \in Steps : status[s] = "pending" /\ in_degrees[s] = Cardinality(InEdges(s))
  BY DEF Init
<1>2. \A s \in Steps : in_degrees[s] = 0 => s \in Roots
  BY <1>1, Sizes, FS_EmptySet DEF Roots
<1>3. \A s \in Roots : s \in Queued
  BY InitialOrderIsSeq DEF Init, Queued, StepsIn
<1> QED
  BY <1>1, <1>2, <1>3 DEF PlacedInv

(* No action loses a step.                                                 *)
LEMMA PlacedNext == DependencyInv /\ PlacedInv /\ [Next]_vars => PlacedInv'
<1> SUFFICES ASSUME DependencyInv, PlacedInv, [Next]_vars PROVE PlacedInv'
  OBVIOUS
<1>0. /\ pc \in [Threads -> Labels] /\ task \in [Threads -> Steps \cup {NoStep}]
      /\ next \in [Threads -> Steps \cup {NoStep}] /\ ready \in Seq(Steps)
      /\ status \in [Steps -> {"pending", "running", "done", "failed"}]
      /\ in_degrees \in [Steps -> Int]
  BY DEF DependencyInv, Typing, TypeOK
<1>1. ASSUME Quiet PROVE PlacedInv'
  <2>1. Queued' = Queued /\ \A s : (Held(s)' <=> Held(s)) /\ (Pushed(s)' <=> Pushed(s))
    BY <1>1 DEF Quiet, Queued, Held, Pushed, StepsIn
  <2> QED
    BY <1>1, <2>1 DEF PlacedInv, Quiet
<1>2. CASE UNCHANGED vars \/ Execute \/ Returned
  BY <1>1, <1>2, QuietSteps DEF Returned, DependencyInv
<1>3. ASSUME NEW t \in Threads, Dequeue(t) PROVE PlacedInv'
  <2>1. /\ task' = [task EXCEPT ![t] = Head(ready)] /\ pc' = [pc EXCEPT ![t] = "claimed"]
        /\ pc[t] = "dequeue" /\ ready' = Tail(ready) /\ ready # <<>>
        /\ UNCHANGED <<in_degrees, next, status>>
    BY <1>3 DEF Dequeue, Goto, HeadPublished
  <2>2. Queued' = Queued \ {Head(ready)}
    BY <1>0, <2>1, QueueTail DEF Queued, DependencyInv, PlaceInv
  <2>3. task[t] \notin Steps
    BY <2>1 DEF DependencyInv, WorkerInv, Busy, Taken, Releasing
  <2>4. \A s \in Steps : Pushed(s) => Pushed(s)'
    BY <1>0, <2>1 DEF Pushed
  <2>5. \A s \in Steps : (Held(s) \/ s = Head(ready)) => Held(s)'
    BY <1>0, <2>1, <2>3 DEF Held
  <2> QED
    BY <1>0, <2>1, <2>2, <2>3, <2>4, <2>5 DEF PlacedInv
<1>4. ASSUME NEW t \in Threads, Process(t) PROVE PlacedInv'
  <2>1. /\ task[t] \in Steps
        /\ status' = [status EXCEPT ![task[t]] = "running"] /\ pc' = [pc EXCEPT ![t] = "running"]
        /\ pc[t] = "process" /\ UNCHANGED <<ready, in_degrees, task, next>>
    BY <1>4 DEF Process, Goto, sync, local, DependencyInv, WorkerInv, Busy, Taken
  <2>2. Queued' = Queued /\ \A s : (Held(s)' <=> Held(s)) /\ (Pushed(s) => Pushed(s)')
    BY <1>0, <2>1 DEF Queued, Held, Pushed, StepsIn
  <2> QED
    BY <1>0, <2>1, <2>2 DEF PlacedInv
<1>5. ASSUME NEW t \in Threads, Succeed(t) \/ Fail(t) PROVE PlacedInv'
  <2>1. /\ task[t] \in Steps /\ pc[t] = "running"
        /\ \E new \in {"done", "failed"} : status' = [status EXCEPT ![task[t]] = new]
        /\ \E label \in {"edges", "failed"} : pc' = [pc EXCEPT ![t] = label]
        /\ UNCHANGED <<ready, in_degrees, task, next>>
    BY <1>5 DEF Succeed, Fail, Goto, local, DependencyInv, WorkerInv, Busy
  <2>2. Queued' = Queued /\ \A s : (Held(s)' <=> Held(s)) /\ (Pushed(s) => Pushed(s)')
    BY <1>0, <2>1 DEF Queued, Held, Pushed, StepsIn
  <2> QED
    BY <1>0, <2>1, <2>2 DEF PlacedInv
<1>6. ASSUME NEW t \in Threads, ReleaseEdge(t) PROVE PlacedInv'
  <2>1. PICK e \in todo[t] :
           /\ in_degrees' = [in_degrees EXCEPT ![To[e]] = @ - 1]
           /\ IF in_degrees[To[e]] = 1
                THEN next' = [next EXCEPT ![t] = To[e]] /\ pc' = [pc EXCEPT ![t] = "enqueue"]
                ELSE UNCHANGED <<next, pc>>
    BY <1>6 DEF ReleaseEdge, Goto, Released
  <2>2. pc[t] = "edges" /\ UNCHANGED <<ready, task, status>>
    BY <1>6 DEF ReleaseEdge
  <2>3. e \in Edges /\ To[e] \in Steps
    BY EdgesAssumption DEF DependencyInv, Typing, TypeOK
  <2>4. Queued' = Queued /\ \A s : (Held(s)' <=> Held(s)) /\ (Pushed(s) => Pushed(s)')
    BY <1>0, <2>1, <2>2 DEF Queued, Held, Pushed, StepsIn
  <2>5. in_degrees[To[e]] = 1 => Pushed(To[e])'
    BY <1>0, <2>1 DEF Pushed
  <2>6. \A s \in Steps : in_degrees'[s] = 0 =>
                            in_degrees[s] = 0 \/ (s = To[e] /\ in_degrees[To[e]] = 1)
    BY <1>0, <2>1, <2>3
  <2> QED
    BY <1>0, <2>1, <2>2, <2>4, <2>5, <2>6 DEF PlacedInv
<1>7. ASSUME NEW t \in Threads, EdgesDone(t) \/ AbandonBuild(t) \/ CountFailed(t) PROVE PlacedInv'
  <2>1. /\ pc[t] \in {"edges", "failed"} /\ task[t] \in Steps /\ status[task[t]] # "pending"
        /\ task' = [task EXCEPT ![t] = NoStep]
        /\ \E label \in {"release", "dequeue"} : pc' = [pc EXCEPT ![t] = label]
        /\ UNCHANGED <<ready, in_degrees, next, status>>
    BY <1>7 DEF EdgesDone, AbandonBuild, CountFailed, DropTask, Goto, sync,
                DependencyInv, WorkerInv, Busy, Releasing
  <2>2. Queued' = Queued /\ \A s : (Held(s) /\ s # task[t] => Held(s)') /\ (Pushed(s) => Pushed(s)')
    BY <1>0, <2>1 DEF Queued, Held, Pushed, StepsIn
  <2> QED
    BY <1>0, <2>1, <2>2 DEF PlacedInv
<1>8. ASSUME NEW t \in Threads, Enqueue(t) PROVE PlacedInv'
  <2>1. /\ next[t] \in Steps /\ pc[t] = "enqueue"
        /\ ready' = Append(ready, next[t]) /\ pc' = [pc EXCEPT ![t] = "publish"]
        /\ UNCHANGED <<in_degrees, task, next, status>>
    BY <1>8, EnqueuePreserves DEF Enqueue, Goto, local, DependencyInv, Typing, PushesStep
  <2>2. Queued' = Queued \cup {next[t]}
    BY <1>0, <2>1, QueueAppend DEF Queued
  <2>3. \A s : (Held(s)' <=> Held(s)) /\ (Pushed(s) /\ s # next[t] => Pushed(s)')
    BY <1>0, <2>1 DEF Held, Pushed
  <2> QED
    BY <1>0, <2>1, <2>2, <2>3 DEF PlacedInv
<1>9. ASSUME NEW t \in Threads,
             \/ DequeueEmpty(t) \/ CountDown(t) \/ Check(t) \/ Load(t) \/ Recheck(t)
             \/ Sleep(t) \/ Wait(t) \/ Wake(t) \/ Release(t) \/ NotifyAll(t)
             \/ Publish(t) \/ CountUp(t) \/ NotifyOne(t)
      PROVE  PlacedInv'
  BY <1>1, <1>9, QuietSteps DEF DependencyInv
<1> QED
  BY <1>2, <1>3, <1>4, <1>5, <1>6, <1>7, <1>8, <1>9 DEF Next, Worker

-----------------------------------------------------------------------------
(* MustExit, once true, stays true: the counter can pass TotalNodes only   *)
(* after an error.                                                         *)
LEMMA MustExitStable ==
    ASSUME DependencyInv, CountInv, [Next]_vars, MustExit
    PROVE  MustExit'
<1> USE DEF sync, local
<1>0. completed_count \in Nat /\ error_occurred \in BOOLEAN /\ IsFiniteSet(Steps)
  BY Sizes DEF DependencyInv, Typing, TypeOK
<1>1. CASE UNCHANGED vars \/ Execute \/ Returned
  BY <1>1 DEF vars, Execute, Spawn, StopSpawning, Join, Returned, MustExit, TotalNodes
<1>2. ASSUME NEW t \in Threads, Succeed(t), ~error_occurred PROVE FALSE
  <2>1. task[t] \in Steps /\ status[task[t]] = "running"
    BY <1>2 DEF Succeed, DependencyInv, WorkerInv, Busy
  <2>2. Done \in SUBSET Steps /\ task[t] \notin Done
    BY <2>1 DEF Done
  <2>3. Cardinality(Done) \in Nat /\ Cardinality(Done) # Cardinality(Steps)
    BY <1>0, <2>1, <2>2, FS_Subset, FS_CardinalityType
  <2>4. completed_count = NumSources + Cardinality(Done)
    BY <1>2 DEF CountInv
  <2> QED
    BY <1>2, <2>3, <2>4, Sizes, CountsAssumption DEF MustExit, TotalNodes
<1>3. ASSUME NEW t \in Threads, AbandonBuild(t) \/ CountFailed(t), ~error_occurred PROVE FALSE
  <2>1. status[task[t]] = "failed" /\ task[t] \in Steps
    BY <1>3 DEF AbandonBuild, CountFailed, DependencyInv, WorkerInv, Busy
  <2> QED
    BY <1>3, <2>1 DEF CountInv
<1>4. ASSUME NEW t \in Threads, Worker(t) PROVE MustExit'
  <2>1. CASE error_occurred
    <3>1. error_occurred'
      BY <1>4, <2>1 DEF Worker, Dequeue, DequeueEmpty, CountDown, Check, Load, Recheck, Sleep,
            Wait, Wake, Process, Succeed, Fail, ReleaseEdge, EdgesDone, AbandonBuild,
            CountFailed, Release, NotifyAll, Enqueue, Publish, CountUp, NotifyOne
    <3> QED
      BY <3>1 DEF MustExit
  <2>2. CASE ~error_occurred
    <3>1. ~Succeed(t) /\ ~AbandonBuild(t) /\ ~CountFailed(t)
      BY <2>2, <1>2, <1>3
    <3>2. completed_count' = completed_count
      BY <1>4, <3>1 DEF Worker, Dequeue, DequeueEmpty, CountDown, Check, Load, Recheck, Sleep,
            Wait, Wake, Process, Fail, ReleaseEdge, EdgesDone, Release, NotifyAll, Enqueue,
            Publish, CountUp, NotifyOne
    <3> QED
      BY <2>2, <3>2 DEF MustExit, TotalNodes
  <2> QED
    BY <1>0, <2>1, <2>2
<1> QED
  BY <1>1, <1>4 DEF Next

(* When nobody holds a step and the queue is empty the build is over: the  *)
(* steps that still wait would need a producer that is neither waiting nor *)
(* running nor failed, and the graph has no cycle.                         *)
LEMMA IdleMeansOver ==
    ASSUME DependencyInv, CountInv, PlacedInv, ready = <<>>, \A t \in Threads : pc[t] \notin Busy
    PROVE  MustExit
<1> SUFFICES ASSUME ~error_occurred PROVE completed_count = TotalNodes
  BY DEF MustExit
<1> DEFINE P == {s \in Steps : status[s] = "pending"}
<1>0. status \in [Steps -> {"pending", "running", "done", "failed"}]
  BY DEF DependencyInv, Typing, TypeOK
<1>1. \A s \in Steps : s \notin Queued /\ ~Pushed(s) /\ ~Held(s)
  <2>1. Queued = {}
    BY EmptySeq DEF Queued, StepsIn
  <2> QED
    BY <2>1 DEF Pushed, Held, DependencyInv, WorkerInv, Busy, Releasing
<1>2. \A s \in Steps : status[s] # "failed" /\ status[s] # "running"
  BY DEF CountInv, PlacedInv, Busy
<1>3. ASSUME NEW s \in P PROVE \E e \in Edges : To[e] = s /\ From[e] \in P
  <2>1. in_degrees[s] # 0
    BY <1>1 DEF PlacedInv
  <2>2. Unreleased(s) # {}
    BY <2>1, FS_EmptySet DEF DependencyInv, DegreeInv
  <2>3. PICK e \in InEdges(s) : status[From[e]] # "done" \/ \E t \in Threads : e \in todo[t]
    BY <2>2 DEF Unreleased
  <2>4. status[From[e]] # "done"
    BY <2>3 DEF DependencyInv, WorkerInv, Busy
  <2> QED
    BY <1>0, <1>2, <2>3, <2>4, EdgesAssumption DEF InEdges
<1>4. P = {}
  BY <1>3, AcyclicAssumption
<1>5. Done = Steps
  BY <1>0, <1>2, <1>4 DEF Done
<1> QED
  BY <1>5, Sizes, CountsAssumption DEF CountInv, TotalNodes

-----------------------------------------------------------------------------
(***************************************************************************)
(* Sleeping.  A worker that has found the queue empty observes; it observes*)
(* until it exits or looks at the queue again.  If all workers observe at  *)
(* once the build is over, and the one that came last has not yet passed   *)
(* its first exit test, where it will leave: nobody can sleep last.        *)
(***************************************************************************)
Asleep == {"wait", "blocked", "wake"}
Observing == {"check", "load", "recheck", "sleep"} \cup Asleep
Sleepers == {t \in Threads : pc[t] \in Asleep}

SleepInv ==
    /\ sleeping_threads = Cardinality(Sleepers)
    /\ \A t \in Threads : pc[t] # "stalled"

LastObserverLeaves ==
    (\A t \in Threads : pc[t] \in Observing) =>
        MustExit /\ \E t \in Threads : pc[t] = "check"

ExitInv == (\E t \in Threads : pc[t] = "exited") => MustExit

MainInv ==
    /\ main # "spawn" => MustExit \/ \A t \in Threads : pc[t] # "unborn"
    /\ main \in Results => \A t \in Threads : pc[t] \in {"unborn", "exited"}
    /\ main = "succeeded" => ~error_occurred /\ completed_count = TotalNodes
    /\ main = "failed" => error_occurred
    /\ main # "stalled"

(* The sleepers can be counted.                                            *)
LEMMA SleepersFinite ==
    /\ IsFiniteSet(Sleepers) /\ Cardinality(Sleepers) \in Nat
    /\ Cardinality(Sleepers) <= ThreadCount
    /\ Cardinality(Sleepers) = ThreadCount => Sleepers = Threads
<1>1. Sleepers \in SUBSET Threads
  BY DEF Sleepers
<1> QED
  BY <1>1, Sizes, FS_Subset, FS_CardinalityType DEF ThreadCount

(* The workers are never all asleep.                                       *)
LEMMA NotAllAsleep ==
    ASSUME SleepInv, LastObserverLeaves
    PROVE  sleeping_threads < ThreadCount
<1>1. Sleepers # Threads
  <2> SUFFICES ASSUME Sleepers = Threads PROVE FALSE
    OBVIOUS
  <2>1. \A t \in Threads : pc[t] \in Asleep
    BY DEF Sleepers
  <2> QED
    BY <2>1 DEF LastObserverLeaves, Observing, Asleep
<1> QED
  BY <1>1, SleepersFinite, Sizes DEF SleepInv

ExitsInv == DependencyInv /\ CountInv /\ PlacedInv /\ SleepInv /\ LastObserverLeaves
               /\ ExitInv /\ MainInv

(* Before the workers start nobody sleeps or leaves.                       *)
LEMMA ExitsInit == Init => ExitsInv
<1> SUFFICES ASSUME Init PROVE ExitsInv
  OBVIOUS
<1>1. DependencyInv /\ CountInv /\ PlacedInv
  BY DependencyInit, CountInit, PlacedInit
<1>2. pc = [t \in Threads |-> "unborn"] /\ main = "spawn" /\ sleeping_threads = 0
  BY DEF Init
<1>3. Sleepers = {}
  BY <1>2 DEF Sleepers, Asleep
<1>4. SleepInv
  BY <1>2, <1>3, FS_EmptySet DEF SleepInv
<1>5. LastObserverLeaves /\ ExitInv
  BY <1>2, ThreadsAssumption DEF LastObserverLeaves, Observing, Asleep, ExitInv
<1>6. MainInv
  BY <1>2 DEF MainInv, Results
<1> QED
  BY <1>1, <1>4, <1>5, <1>6 DEF ExitsInv

(* The count of sleepers is exact.                                         *)
LEMMA SleepNext == ExitsInv /\ [Next]_vars => SleepInv'
<1> SUFFICES ASSUME ExitsInv, [Next]_vars PROVE SleepInv'
  OBVIOUS
<1> USE DEF sync, local
<1>0. /\ pc \in [Threads -> Labels] /\ sleeping_threads \in Int
      /\ SleepInv /\ LastObserverLeaves
  BY DEF ExitsInv, DependencyInv, Typing, TypeOK
<1>1. ASSUME sleeping_threads' = sleeping_threads,
             \A u \in Threads : /\ pc'[u] \in Asleep <=> pc[u] \in Asleep
                                /\ pc'[u] = "stalled" => pc[u] = "stalled"
      PROVE  SleepInv'
  <2>1. Sleepers' = Sleepers
    BY <1>1 DEF Sleepers
  <2> QED
    BY <1>0, <1>1, <2>1 DEF SleepInv
<1>2. CASE UNCHANGED vars \/ Execute \/ Returned
  BY <1>0, <1>1, <1>2 DEF vars, Execute, Spawn, StopSpawning, Join, Returned, Goto, Asleep
<1>3. ASSUME NEW t \in Threads, Sleep(t) PROVE SleepInv'
  <2>1. pc[t] = "sleep" /\ t \notin Sleepers
    BY <1>3 DEF Sleep, Sleepers, Asleep
  <2>2. Sleepers \cup {t} # Threads
    <3> SUFFICES ASSUME Sleepers \cup {t} = Threads PROVE FALSE
      OBVIOUS
    <3>1. \A u \in Threads : pc[u] \in Asleep \cup {"sleep"}
      BY <2>1 DEF Sleepers
    <3> QED
      BY <1>0, <3>1 DEF LastObserverLeaves, Observing, Asleep
  <2>3. Sleepers \cup {t} \in SUBSET Threads
    BY DEF Sleepers
  <2>4. /\ Cardinality(Sleepers \cup {t}) = Cardinality(Sleepers) + 1
        /\ Cardinality(Sleepers \cup {t}) # ThreadCount
    BY <2>1, <2>2, <2>3, SleepersFinite, Sizes, FS_AddElement, FS_Subset DEF ThreadCount
  <2>5. sleeping_threads' = sleeping_threads + 1 /\ pc' = [pc EXCEPT ![t] = "wait"]
    BY <1>0, <1>3, <2>4 DEF Sleep, Goto, SleepInv
  <2>6. Sleepers' = Sleepers \cup {t}
    BY <1>0, <2>5 DEF Sleepers, Asleep
  <2> QED
    BY <1>0, <2>4, <2>5, <2>6 DEF SleepInv
<1>4. ASSUME NEW t \in Threads, Wake(t) PROVE SleepInv'
  <2>1. pc[t] = "wake" /\ sleeping_threads' = sleeping_threads - 1
        /\ pc' = [pc EXCEPT ![t] = "dequeue"]
    BY <1>4 DEF Wake, Goto
  <2>2. Sleepers' = Sleepers \ {t} /\ t \in Sleepers
    BY <1>0, <2>1 DEF Sleepers, Asleep
  <2>3. Cardinality(Sleepers') = Cardinality(Sleepers) - 1
    <3>1. Cardinality(Sleepers \ {t}) = Cardinality(Sleepers) - 1
      BY <2>2, SleepersFinite, FS_RemoveElement
    <3> QED
      BY <2>2, <3>1
  <2> QED
    BY <1>0, <2>1, <2>3 DEF SleepInv
<1>5. ASSUME NEW t \in Threads, NotifyAll(t) \/ NotifyOne(t) PROVE SleepInv'
  <2>1. /\ sleeping_threads' = sleeping_threads /\ pc[t] \notin Asleep
        /\ \E label \in {"dequeue", "edges"}, W \in SUBSET Blocked : NotifyThreads(t, label, W)
    BY <1>5 DEF NotifyAll, NotifyOne, Asleep
  <2> QED
    BY <1>0, <1>1, <2>1 DEF NotifyThreads, Blocked, Asleep
<1>6. ASSUME NEW t \in Threads, Wait(t) PROVE SleepInv'
  BY <1>0, <1>1, <1>6 DEF Wait, Goto, Asleep
<1>7. ASSUME NEW t \in Threads,
             \/ Dequeue(t) \/ DequeueEmpty(t) \/ CountDown(t) \/ Process(t) \/ Succeed(t) \/ Fail(t)
             \/ AbandonBuild(t) \/ Release(t) \/ Publish(t) \/ CountUp(t)
      PROVE  SleepInv'
  <2>1. /\ sleeping_threads' = sleeping_threads /\ pc[t] \notin Asleep
        /\ \E label \in {"claimed", "check", "process", "running", "edges", "failed", "release",
                         "notifyall", "count", "notifyone"} : pc' = [pc EXCEPT ![t] = label]
    BY <1>7 DEF Dequeue, DequeueEmpty, CountDown, Process, Succeed, Fail, AbandonBuild, Release,
                Publish, CountUp, Goto, Asleep
  <2> QED
    BY <1>0, <1>1, <2>1 DEF Asleep
<1>8. ASSUME NEW t \in Threads,
             \/ Check(t) \/ Load(t) \/ Recheck(t) \/ EdgesDone(t) \/ CountFailed(t) \/ Enqueue(t)
      PROVE  SleepInv'
  <2>1. /\ sleeping_threads' = sleeping_threads /\ pc[t] \notin Asleep
        /\ \E label \in {"exited", "load", "recheck", "dequeue", "sleep", "release",
                         "publish", "count"} : pc' = [pc EXCEPT ![t] = label]
    BY <1>8 DEF Check, Load, Recheck, EdgesDone, CountFailed, Enqueue, Goto, Asleep
  <2> QED
    BY <1>0, <1>1, <2>1 DEF Asleep
<1>9. ASSUME NEW t \in Threads, ReleaseEdge(t) PROVE SleepInv'
  <2>1. /\ sleeping_threads' = sleeping_threads /\ pc[t] = "edges"
        /\ pc' = pc \/ pc' = [pc EXCEPT ![t] = "enqueue"]
    BY <1>9 DEF ReleaseEdge, Goto
  <2> QED
    BY <1>0, <1>1, <2>1 DEF Asleep
<1> QED
  BY <1>2, <1>3, <1>4, <1>5, <1>6, <1>7, <1>8, <1>9 DEF Next, Worker

(* Workers that are neither observing nor about to be.                     *)
LEMMA StepsThatDoNotObserve ==
    ASSUME pc \in [Threads -> Labels], NEW t \in Threads, Worker(t),
           ~DequeueEmpty(t), ~Check(t), ~Load(t), ~Recheck(t), ~Sleep(t), ~Wait(t)
    PROVE  pc'[t] \notin Observing /\ pc'[t] # "exited"
<1> USE DEF Goto, Observing, Asleep
<1>1. CASE Dequeue(t) \/ CountDown(t) \/ Wake(t) \/ Process(t) \/ Succeed(t) \/ Fail(t)
              \/ AbandonBuild(t) \/ Release(t) \/ Publish(t) \/ CountUp(t)
  <2>1. \E label \in {"claimed", "process", "dequeue", "running", "edges", "failed", "release",
                      "notifyall", "count", "notifyone"} : pc' = [pc EXCEPT ![t] = label]
    BY <1>1 DEF Dequeue, CountDown, Wake, Process, Succeed, Fail, AbandonBuild, Release, Publish,
                CountUp
  <2> QED
    BY <2>1
<1>2. CASE EdgesDone(t) \/ CountFailed(t) \/ Enqueue(t)
  <2>1. \E label \in {"release", "dequeue", "publish", "count"} : pc' = [pc EXCEPT ![t] = label]
    BY <1>2 DEF EdgesDone, CountFailed, Enqueue
  <2> QED
    BY <2>1
<1>3. CASE ReleaseEdge(t)
  <2>1. pc[t] = "edges" /\ (pc' = pc \/ pc' = [pc EXCEPT ![t] = "enqueue"])
    BY <1>3 DEF ReleaseEdge
  <2> QED
    BY <2>1
<1>4. CASE NotifyAll(t) \/ NotifyOne(t)
  <2>1. PICK label \in {"dequeue", "edges"}, W \in SUBSET Blocked : NotifyThreads(t, label, W)
    BY <1>4 DEF NotifyAll, NotifyOne
  <2>2. t \notin W
    BY <1>4 DEF NotifyAll, NotifyOne, Blocked
  <2>3. pc'[t] = label
    BY <2>1, <2>2 DEF NotifyThreads
  <2> QED
    BY <2>3
<1> QED
  BY <1>1, <1>2, <1>3, <1>4 DEF Worker

(* Whoever joins the others last has just seen the queue empty.            *)
LEMMA ObserverNext == ExitsInv /\ [Next]_vars => LastObserverLeaves' /\ ExitInv'
<1> SUFFICES ASSUME ExitsInv, [Next]_vars PROVE LastObserverLeaves' /\ ExitInv'
  OBVIOUS
<1> USE DEF sync, local
<1>0. /\ pc \in [Threads -> Labels] /\ LastObserverLeaves /\ ExitInv
      /\ DependencyInv /\ CountInv /\ PlacedInv
  BY DEF ExitsInv, DependencyInv, Typing, TypeOK
<1>1. MustExit => MustExit'
  BY <1>0, MustExitStable
<1>2. CASE UNCHANGED vars \/ Execute \/ Returned
  <2>1. CASE \E t \in Threads : Spawn(t)
    <3>1. PICK t \in Threads : pc' = [pc EXCEPT ![t] = "dequeue"]
      BY <2>1 DEF Spawn, Goto
    <3>2. pc'[t] = "dequeue" /\ \A u \in Threads : pc'[u] = "exited" => pc[u] = "exited"
      BY <1>0, <3>1
    <3> QED
      BY <1>0, <1>1, <3>2 DEF LastObserverLeaves, ExitInv, Observing, Asleep
  <2>2. CASE pc' = pc
    BY <1>0, <1>1, <2>2 DEF LastObserverLeaves, ExitInv
  <2> QED
    BY <1>2, <2>1, <2>2 DEF vars, Execute, StopSpawning, Join, Returned
<1>3. ASSUME NEW t \in Threads, DequeueEmpty(t) PROVE LastObserverLeaves' /\ ExitInv'
  <2>1. pc' = [pc EXCEPT ![t] = "check"] /\ pc[t] = "dequeue" /\ ~HeadPublished
    BY <1>3 DEF DequeueEmpty, Goto
  <2>2. \A u \in Threads : pc'[u] = "exited" => pc[u] = "exited"
    BY <1>0, <2>1
  <2>3. ASSUME \A u \in Threads : pc'[u] \in Observing PROVE MustExit
    <3>1. \A u \in Threads : pc[u] \in Observing \/ pc[u] = "dequeue"
      BY <1>0, <2>1, <2>3
    <3>2. \A u \in Threads : pc[u] \notin Busy
      BY <3>1 DEF Observing, Asleep, Busy, Taken, Releasing
    <3>3. ready = <<>>
      BY <2>1, <3>1 DEF HeadPublished, Observing, Asleep
    <3> QED
      BY <1>0, <3>2, <3>3, IdleMeansOver
  <2>4. pc'[t] = "check"
    BY <1>0, <2>1
  <2> QED
    BY <1>0, <1>1, <2>2, <2>3, <2>4 DEF LastObserverLeaves, ExitInv
<1>4. ASSUME NEW t \in Threads, Check(t) PROVE LastObserverLeaves' /\ ExitInv'
  <2>1. CASE MustExit
    <3>1. pc' = [pc EXCEPT ![t] = "exited"]
      BY <1>4, <2>1 DEF Check, Goto
    <3> QED
      BY <1>0, <1>1, <2>1, <3>1 DEF LastObserverLeaves, ExitInv, Observing, Asleep
  <2>2. CASE ~MustExit
    <3>1. pc' = [pc EXCEPT ![t] = "load"] /\ pc[t] = "check"
      BY <1>4, <2>2 DEF Check, Goto
    <3>2. \A u \in Threads : /\ pc'[u] \in Observing => pc[u] \in Observing
                             /\ pc'[u] = "exited" => pc[u] = "exited"
      BY <1>0, <3>1 DEF Observing
    <3> QED
      BY <1>0, <2>2, <3>2 DEF LastObserverLeaves, ExitInv
  <2> QED
    BY <2>1, <2>2
<1>5. ASSUME NEW t \in Threads, Load(t) \/ Recheck(t) \/ Sleep(t) \/ Wait(t)
      PROVE  LastObserverLeaves' /\ ExitInv'
  <2>1. /\ pc[t] \in {"load", "recheck", "sleep", "wait"}
        /\ \E label \in Labels : pc' = [pc EXCEPT ![t] = label] /\ (label = "exited" => MustExit)
    BY <1>5, LabelNames DEF Load, Recheck, Sleep, Wait, Goto
  <2>2. ASSUME \A u \in Threads : pc'[u] \in Observing
        PROVE  MustExit /\ \E u \in Threads : pc'[u] = "check"
    <3>1. \A u \in Threads : pc[u] \in Observing
      BY <1>0, <2>1, <2>2 DEF Observing, Asleep
    <3>2. PICK u \in Threads : pc[u] = "check"
      BY <1>0, <3>1 DEF LastObserverLeaves
    <3>3. pc'[u] = "check"
      BY <1>0, <2>1, <3>2
    <3> QED
      BY <1>0, <3>1, <3>3 DEF LastObserverLeaves
  <2>3. (\E u \in Threads : pc'[u] = "exited") => MustExit
    BY <1>0, <2>1 DEF ExitInv
  <2> QED
    BY <1>1, <2>2, <2>3 DEF LastObserverLeaves, ExitInv
<1>6. ASSUME NEW t \in Threads, Worker(t),
             ~DequeueEmpty(t), ~Check(t), ~Load(t), ~Recheck(t), ~Sleep(t), ~Wait(t)
      PROVE  LastObserverLeaves' /\ ExitInv'
  <2>1. pc'[t] \notin Observing /\ pc'[t] # "exited"
    BY <1>0, <1>6, StepsThatDoNotObserve
  <2>2. \A u \in Threads : u # t /\ pc'[u] = "exited" => pc[u] = "exited"
    BY <1>0, <1>6 DEF Worker, Dequeue, CountDown, Wake, Process, Succeed, Fail, ReleaseEdge,
          EdgesDone, AbandonBuild, CountFailed, Release, NotifyAll, Enqueue, Publish, CountUp,
          NotifyOne, NotifyThreads, Goto
  <2> QED
    BY <1>0, <1>1, <2>1, <2>2 DEF LastObserverLeaves, ExitInv
<1> QED
  BY <1>2, <1>3, <1>4, <1>5, <1>6 DEF Next

(* The thread in execute goes on when all have left.                       *)
LEMMA MainNext == ExitsInv /\ [Next]_vars => MainInv'
<1> SUFFICES ASSUME ExitsInv, [Next]_vars PROVE MainInv'
  OBVIOUS
<1> USE DEF sync, local
<1>0. /\ pc \in [Threads -> Labels] /\ error_occurred \in BOOLEAN
      /\ ExitInv /\ MainInv /\ DependencyInv /\ CountInv
  BY DEF ExitsInv, DependencyInv, Typing, TypeOK
<1>1. MustExit => MustExit'
  BY <1>0, MustExitStable
<1>2. CASE UNCHANGED vars \/ Returned
  BY <1>0, <1>2 DEF vars, Returned, MainInv, MustExit, TotalNodes
<1>3. CASE StopSpawning
  BY <1>0, <1>3 DEF StopSpawning, MainInv, MustExit, TotalNodes, Results
<1>4. CASE Join
  <2>1. /\ main = "join" /\ \A t \in Threads : pc[t] \in {"unborn", "exited"}
        /\ UNCHANGED <<pc, completed_count, error_occurred>>
    BY <1>4 DEF Join
  <2>2. MustExit
    BY <1>0, <2>1, ThreadsAssumption DEF MainInv, ExitInv
  <2>3. CASE error_occurred
    <3>1. main' = "failed"
      BY <1>4, <2>3 DEF Join
    <3> QED
      BY <1>1, <2>1, <2>2, <2>3, <3>1 DEF MainInv, MustExit
  <2>4. CASE ~error_occurred
    <3>1. completed_count = TotalNodes
      BY <2>2, <2>4 DEF MustExit
    <3>2. main' = "succeeded"
      BY <1>4, <2>4, <3>1 DEF Join
    <3> QED
      BY <1>1, <2>1, <2>2, <2>4, <3>1, <3>2 DEF MainInv, TotalNodes
  <2> QED
    BY <2>3, <2>4
<1>5. ASSUME NEW t \in Threads, Spawn(t) PROVE MainInv'
  BY <1>5 DEF Spawn, MainInv, Results
<1>6. ASSUME NEW t \in Threads, Worker(t) PROVE MainInv'
  <2>1. pc[t] \notin {"unborn", "exited"}
    BY <1>6 DEF Worker, Dequeue, DequeueEmpty, CountDown, Check, Load, Recheck, Sleep, Wait,
                Wake, Process, Succeed, Fail, ReleaseEdge, EdgesDone, AbandonBuild, CountFailed,
                Release, NotifyAll, Enqueue, Publish, CountUp, NotifyOne
  <2>2. main' = main
    BY <1>6 DEF Worker, Dequeue, DequeueEmpty, CountDown, Check, Load, Recheck, Sleep, Wait,
                Wake, Process, Succeed, Fail, ReleaseEdge, EdgesDone, AbandonBuild, CountFailed,
                Release, NotifyAll, Enqueue, Publish, CountUp, NotifyOne
  <2>3. main \notin Results
    BY <1>0, <2>1 DEF MainInv
  <2>4. \A u \in Threads : pc'[u] = "unborn" => pc[u] = "unborn"
    BY <1>0, <1>6, <2>1 DEF Worker, Dequeue, DequeueEmpty, CountDown, Check, Load, Recheck, Sleep,
          Wait, Wake, Process, Succeed, Fail, ReleaseEdge, EdgesDone, AbandonBuild, CountFailed,
          Release, NotifyAll, Enqueue, Publish, CountUp, NotifyOne, NotifyThreads, Goto
  <2> QED
    BY <1>0, <1>1, <2>2, <2>3, <2>4 DEF MainInv, Results
<1> QED
  BY <1>2, <1>3, <1>4, <1>5, <1>6 DEF Next, Execute

(* The invariant of the sleeping and the leaving.                          *)
LEMMA ExitsInvariant == Safety => []ExitsInv
<1>1. ExitsInv /\ [Next]_vars => ExitsInv'
  BY DependencyNext, CountNext, PlacedNext, SleepNext, ObserverNext, MainNext DEF ExitsInv
<1> QED
  BY <1>1, ExitsInit, PTL DEF Safety

(* Without an error, the counter reaches TotalNodes with the last step.    *)
LEMMA AllCountedMeansAllDone ==
    ASSUME CountInv, ~error_occurred, completed_count = TotalNodes
    PROVE  \A s \in Steps : status[s] = "done"
<1>1. Done \in SUBSET Steps
  BY DEF Done
<1>2. Cardinality(Done) \in Nat
  BY <1>1, Sizes, FS_Subset, FS_CardinalityType
<1>3. Cardinality(Done) = Cardinality(Steps)
  BY <1>2, Sizes, CountsAssumption DEF CountInv, TotalNodes
<1>4. Done = Steps
  BY <1>1, <1>3, Sizes, FS_Subset
<1> QED
  BY <1>4 DEF Done

(* The stall branch of workerLoop is dead code: there is no interleaving   *)
(* in which the last awake worker goes to sleep, with failing steps, with  *)
(* and without --keep-going, and for any number of workers.                *)
THEOREM NeverAllAsleep == Safety => []SomeoneAwake
<1>1. ExitsInv => SomeoneAwake
  BY NotAllAsleep DEF ExitsInv, SleepInv, SomeoneAwake
<1> QED
  BY <1>1, ExitsInvariant, PTL

(* A worker leaves the loop only when every step has succeeded or one has  *)
(* failed.                                                                 *)
THEOREM ExitsOnlyAtTheEnd == Safety => []NoEarlyExit
<1>1. ExitsInv => NoEarlyExit
  BY AllCountedMeansAllDone DEF ExitsInv, ExitInv, MustExit, CountInv, NoEarlyExit
<1> QED
  BY <1>1, ExitsInvariant, PTL

(* execute() reports success only if every step has succeeded, "Build      *)
(* Failed" only if one has failed, and never "Build stalled".              *)
THEOREM ResultIsTrue == Safety => []ResultTruthful
<1>1. ExitsInv => ResultTruthful
  BY AllCountedMeansAllDone DEF ExitsInv, MainInv, CountInv, ResultTruthful
<1> QED
  BY <1>1, ExitsInvariant, PTL

-----------------------------------------------------------------------------
(***************************************************************************)
(* The queue and its watchers.  A worker stops looking at the queue only   *)
(* when it finds nothing to take, and then the queue is empty or the       *)
(* worker that publishes its head has still to look.                       *)
(***************************************************************************)
Active == {"dequeue", "claimed", "process", "running", "edges", "failed", "release", "notifyall",
           "enqueue", "publish", "count", "notifyone"}

WatchInv ==
    ready # <<>> =>
        \/ \E t \in Threads : pc[t] \in Active
        \/ /\ main = "spawn"
           /\ completed_count = NumSources
           /\ \A t \in Threads : pc[t] = "unborn"

(* At first the queue is filled and no worker is born.                     *)
LEMMA WatchInit == Init => WatchInv
BY DEF Init, WatchInv

(* Every action keeps somebody at the queue.                               *)
LEMMA WatchNext == Typing /\ WatchInv /\ [Next]_vars => WatchInv'
<1> SUFFICES ASSUME Typing, WatchInv, [Next]_vars PROVE WatchInv'
  OBVIOUS
<1> USE DEF sync, local
<1>0. pc \in [Threads -> Labels] /\ ready \in Seq(Steps)
  BY DEF Typing, TypeOK
<1>1. CASE UNCHANGED vars \/ Returned
  BY <1>1 DEF vars, Returned, WatchInv
<1>2. ASSUME NEW t \in Threads, Spawn(t) PROVE WatchInv'
  BY <1>0, <1>2 DEF Spawn, Goto, WatchInv, Active
<1>3. CASE StopSpawning
  <2>1. ASSUME ready # <<>>, completed_count = NumSources, \A t \in Threads : pc[t] = "unborn"
        PROVE  FALSE
    <3>1. Steps # {}
      BY <1>0, <2>1, EmptySeq
    <3>2. Cardinality(Steps) # 0
      BY <3>1, Sizes, FS_EmptySet
    <3>3. completed_count # TotalNodes
      BY <2>1, <3>2, Sizes, CountsAssumption DEF TotalNodes
    <3> QED
      BY <1>3, <2>1, <3>3, ThreadsAssumption DEF StopSpawning
  <2> QED
    BY <1>3, <2>1 DEF StopSpawning, WatchInv
<1>4. CASE Join
  BY <1>4 DEF Join, WatchInv
<1>5. ASSUME NEW t \in Threads,
             \/ Dequeue(t) \/ CountDown(t) \/ Process(t) \/ Succeed(t) \/ Fail(t)
             \/ ReleaseEdge(t) \/ EdgesDone(t) \/ AbandonBuild(t) \/ CountFailed(t)
             \/ Release(t) \/ Enqueue(t) \/ Publish(t) \/ CountUp(t) \/ Wake(t)
      PROVE  WatchInv'
  <2>1. pc'[t] \in Active
    BY <1>0, <1>5 DEF Dequeue, CountDown, Process, Succeed, Fail, ReleaseEdge, EdgesDone,
       AbandonBuild, CountFailed, Release, Enqueue, Publish, CountUp, Wake, Goto, Active
  <2> QED
    BY <2>1 DEF WatchInv
<1>6. ASSUME NEW t \in Threads, NotifyAll(t) \/ NotifyOne(t) PROVE WatchInv'
  <2>1. pc'[t] \in Active
    BY <1>6 DEF NotifyAll, NotifyOne, NotifyThreads, Blocked, Active
  <2> QED
    BY <2>1 DEF WatchInv
<1>7. ASSUME NEW t \in Threads, Check(t) \/ Load(t) \/ Recheck(t) \/ Sleep(t) \/ Wait(t)
      PROVE  WatchInv'
  <2>1. ready' = ready /\ pc[t] \notin Active \cup {"unborn"}
        /\ \A u \in Threads : u # t => pc'[u] = pc[u]
    BY <1>0, <1>7 DEF Check, Load, Recheck, Sleep, Wait, Goto, Active
  <2> QED
    BY <2>1 DEF WatchInv
<1>8. ASSUME NEW t \in Threads, DequeueEmpty(t) PROVE WatchInv'
  <2>1. CASE ready = <<>>
    BY <1>8, <2>1 DEF DequeueEmpty, WatchInv
  <2>2. CASE ready # <<>>
    <3>1. PICK u \in Threads : pc[u] = "publish"
      BY <1>8, <2>2 DEF DequeueEmpty, HeadPublished
    <3>2. pc'[u] = "publish"
      BY <1>0, <1>8, <3>1 DEF DequeueEmpty, Goto
    <3> QED
      BY <3>2 DEF WatchInv, Active
  <2> QED
    BY <2>1, <2>2
<1> QED
  BY <1>1, <1>2, <1>3, <1>4, <1>5, <1>6, <1>7, <1>8 DEF Next, Execute, Worker

(* No task is ever left in the queue while all workers sleep or have left, *)
(* with and without --keep-going: a wakeup that is missed in pushReady     *)
(* does not strand the task that it announces.                             *)
THEOREM NoTaskLeftAlone == Safety => []QueueHasWorker
<1>1. WatchInv => QueueHasWorker
  BY DEF WatchInv, QueueHasWorker, Active
<1>2. Safety => []Typing
  BY TypingInit, TypingNext, PTL DEF Safety
<1> QED
  BY <1>1, <1>2, WatchInit, WatchNext, PTL DEF Safety

-----------------------------------------------------------------------------
(***************************************************************************)
(* The word the workers sleep on.  It counts the queue up to the workers   *)
(* that have taken a task and not yet counted it down, and those that have *)
(* claimed a place and not yet counted it up; the latter may be more, when *)
(* the word is below 0 and wraps.  Only the release at the end of a build  *)
(* stores something else, which is why EndInv belongs to it.               *)
(***************************************************************************)
Claimers == {t \in Threads : pc[t] = "claimed"}
Pushers == {t \in Threads : pc[t] \in {"publish", "count"}}
Balance == Len(ready) + Cardinality(Claimers) + CounterMod - Cardinality(Pushers)

EndInv == \A t \in Threads : last[t] \/ pc[t] = "release" => completed_count >= TotalNodes

AccountInv ==
    /\ Len(ready) <= TotalNodes
    /\ completed_count < TotalNodes => tasks_available = Balance % CounterMod

(* The two adjustments of the counter, where it is at most one lap away.   *)
LEMMA CounterSteps ==
    ASSUME NEW n \in Int, 0 < n, n + 1 < 2 * CounterMod
    PROVE  /\ Incremented(n % CounterMod) = (n + 1) % CounterMod
           /\ Decremented(n % CounterMod) = (n - 1) % CounterMod
<1>1. CounterMod \in Nat /\ CounterMod > 1
  BY ModAssumption, Sizes, ThreadsAssumption, CountsAssumption DEF ThreadCount
<1>2. \A x \in 0..CounterMod - 1 : x % CounterMod = x
  BY <1>1, Laps
<1>3. \A x \in CounterMod..2 * CounterMod - 1 : x % CounterMod = x - CounterMod
  <2> SUFFICES ASSUME NEW x \in CounterMod..2 * CounterMod - 1
               PROVE  x % CounterMod = x - CounterMod
    OBVIOUS
  <2>1. x - CounterMod \in 0..CounterMod - 1 /\ x - CounterMod \in Nat
    BY <1>1
  <2>2. ((x - CounterMod) + CounterMod) % CounterMod = (x - CounterMod) % CounterMod
    BY <1>1, <2>1, Laps
  <2>3. (x - CounterMod) + CounterMod = x
    BY <1>1
  <2> QED
    BY <1>2, <2>1, <2>2, <2>3
<1>4. CASE n < CounterMod
  <2>1. n % CounterMod = n /\ (n - 1) % CounterMod = n - 1
    BY <1>1, <1>2, <1>4
  <2>2. (n + MaxCount) % CounterMod = n - 1
    BY <1>1, <1>3, <1>4 DEF MaxCount
  <2> QED
    BY <2>1, <2>2 DEF Incremented, Decremented
<1>5. CASE n >= CounterMod
  <2>1. n % CounterMod = n - CounterMod
    BY <1>1, <1>3, <1>5
  <2> DEFINE m == n - CounterMod
  <2>2. m \in 0..CounterMod - 2 /\ n = m + CounterMod
    BY <1>1, <1>5
  <2>3. (m + 1) % CounterMod = m + 1 /\ (n + 1) % CounterMod = m + 1
    BY <1>1, <1>2, <1>3, <2>2
  <2>4. CASE m = 0
    <3>1. (m + MaxCount) % CounterMod = CounterMod - 1 /\ (n - 1) % CounterMod = CounterMod - 1
      BY <1>1, <1>2, <2>2, <2>4 DEF MaxCount
    <3> QED
      BY <2>1, <2>3, <3>1 DEF Incremented, Decremented
  <2>5. CASE m > 0
    <3>1. (m + MaxCount) % CounterMod = m - 1 /\ (n - 1) % CounterMod = m - 1
      BY <1>1, <1>3, <2>2, <2>5 DEF MaxCount
    <3> QED
      BY <2>1, <2>3, <3>1 DEF Incremented, Decremented
  <2> QED
    BY <2>2, <2>4, <2>5
<1> QED
  BY <1>1, <1>4, <1>5

(* The balance is at most one lap away.                                    *)
LEMMA BalanceInRange ==
    ASSUME Typing, AccountInv
    PROVE  /\ Balance \in Int /\ 0 < Balance /\ Balance + 1 < 2 * CounterMod
           /\ IsFiniteSet(Claimers) /\ Cardinality(Claimers) \in Nat
           /\ IsFiniteSet(Pushers) /\ Cardinality(Pushers) \in Nat
           /\ Len(ready) \in Nat
<1>1. Claimers \in SUBSET Threads /\ Pushers \in SUBSET Threads
  BY DEF Claimers, Pushers
<1>2. /\ IsFiniteSet(Claimers) /\ Cardinality(Claimers) \in Nat
      /\ IsFiniteSet(Pushers) /\ Cardinality(Pushers) \in Nat
      /\ Cardinality(Claimers) <= ThreadCount /\ Cardinality(Pushers) <= ThreadCount
  BY <1>1, Sizes, FS_Subset, FS_CardinalityType DEF ThreadCount
<1>3. Len(ready) \in Nat /\ Len(ready) <= TotalNodes
  BY LenProperties DEF Typing, TypeOK, AccountInv
<1>4. /\ TotalNodes \in Nat /\ ThreadCount \in Nat /\ CounterMod \in Nat
      /\ CounterMod > 2 * (TotalNodes + ThreadCount) + 2
  BY Sizes, CountsAssumption, ModAssumption DEF TotalNodes, ThreadCount
<1> DEFINE c == Cardinality(Claimers)
           p == Cardinality(Pushers)
           l == Len(ready)
<1>5. /\ c \in Nat /\ p \in Nat /\ l \in Nat /\ c <= ThreadCount /\ p <= ThreadCount
      /\ l <= TotalNodes /\ Balance = l + c + CounterMod - p
  BY <1>2, <1>3 DEF Balance
<1> HIDE DEF c, p, l
<1>6. Balance \in Int /\ 0 < Balance /\ Balance + 1 < 2 * CounterMod
  BY ONLY <1>4, <1>5
<1> QED
  BY <1>2, <1>3, <1>6

(* The release comes after the last node has been counted.                 *)
LEMMA EndNext == Typing /\ EndInv /\ [Next]_vars => EndInv'
<1> SUFFICES ASSUME Typing, EndInv, [Next]_vars PROVE EndInv'
  OBVIOUS
<1> USE DEF sync, local
<1>0. /\ pc \in [Threads -> Labels] /\ last \in [Threads -> BOOLEAN] /\ completed_count \in Nat
      /\ TotalNodes \in Nat
  BY Sizes DEF Typing, TypeOK
<1>1. CASE UNCHANGED vars \/ Execute \/ Returned
  BY <1>0, <1>1 DEF vars, Execute, Spawn, StopSpawning, Join, Returned, Goto, EndInv
<1>2. ASSUME NEW t \in Threads,
             \/ Dequeue(t) \/ DequeueEmpty(t) \/ CountDown(t) \/ Check(t) \/ Load(t)
             \/ Recheck(t) \/ Sleep(t) \/ Wait(t) \/ Wake(t) \/ Process(t) \/ Fail(t)
             \/ ReleaseEdge(t) \/ Release(t) \/ Enqueue(t) \/ Publish(t) \/ CountUp(t)
      PROVE  EndInv'
  <2>1. /\ last' = last /\ completed_count' = completed_count
        /\ \A u \in Threads : pc'[u] = "release" => pc[u] = "release"
    BY <1>0, <1>2 DEF Dequeue, DequeueEmpty, CountDown, Check, Load, Recheck, Sleep, Wait, Wake,
       Process, Fail, ReleaseEdge, Release, Enqueue, Publish, CountUp, Goto
  <2> QED
    BY <2>1 DEF EndInv
<1>3. ASSUME NEW t \in Threads, NotifyAll(t) \/ NotifyOne(t) PROVE EndInv'
  <2>1. /\ last' = last /\ completed_count' = completed_count
        /\ \A u \in Threads : pc'[u] = "release" => pc[u] = "release"
    BY <1>0, <1>3 DEF NotifyAll, NotifyOne, NotifyThreads, Blocked
  <2> QED
    BY <2>1 DEF EndInv
<1>4. ASSUME NEW t \in Threads, Succeed(t) PROVE EndInv'
  BY <1>0, <1>4 DEF Succeed, Goto, EndInv
<1>5. ASSUME NEW t \in Threads, EdgesDone(t) \/ AbandonBuild(t) \/ CountFailed(t) PROVE EndInv'
  BY <1>0, <1>5 DEF EdgesDone, AbandonBuild, CountFailed, DropTask, Goto, EndInv
<1> QED
  BY <1>1, <1>2, <1>3, <1>4, <1>5 DEF Next, Worker

(* The steps that are not part of taking or pushing a task.                *)
LEMMA AccountKept ==
    ASSUME AccountInv, completed_count \in Nat, completed_count' \in Nat, TotalNodes \in Nat,
           Len(ready') = Len(ready), Claimers' = Claimers, Pushers' = Pushers,
           completed_count' >= TotalNodes \/
               (tasks_available' = tasks_available /\ completed_count' >= completed_count)
    PROVE  AccountInv'
BY DEF AccountInv, Balance

(* What a step adds to the queue and to those under way shifts the balance.*)
LEMMA BalanceMoves ==
    ASSUME Len(ready) \in Int, Cardinality(Claimers) \in Int, Cardinality(Pushers) \in Int,
           Len(ready') \in Int, Cardinality(Claimers') \in Int, Cardinality(Pushers') \in Int,
           CounterMod \in Int
    PROVE  Balance' = Balance + (Len(ready') - Len(ready))
                              + (Cardinality(Claimers') - Cardinality(Claimers))
                              - (Cardinality(Pushers') - Cardinality(Pushers))
<1> DEFINE l == Len(ready)
           c == Cardinality(Claimers)
           p == Cardinality(Pushers)
           k == Len(ready')
           d == Cardinality(Claimers')
           q == Cardinality(Pushers')
<1>1. Balance = l + c + CounterMod - p /\ Balance' = k + d + CounterMod - q
  BY DEF Balance
<1>2. l \in Int /\ c \in Int /\ p \in Int /\ k \in Int /\ d \in Int /\ q \in Int
  OBVIOUS
<1> HIDE DEF l, c, p, k, d, q
<1>3. Balance' = Balance + (k - l) + (d - c) - (q - p)
  BY ONLY <1>1, <1>2, CounterMod \in Int
<1> QED
  BY <1>3 DEF l, c, p, k, d, q

(* Every action keeps the account.                                         *)
LEMMA AccountNext == DependencyInv /\ EndInv /\ AccountInv /\ [Next]_vars => AccountInv'
<1> SUFFICES ASSUME DependencyInv, EndInv, AccountInv, [Next]_vars PROVE AccountInv'
  OBVIOUS
<1> USE DEF sync, local
<1>0. /\ pc \in [Threads -> Labels] /\ ready \in Seq(Steps)
      /\ completed_count \in Nat /\ completed_count' \in Nat /\ TotalNodes \in Nat
  BY TypingNext, Sizes DEF DependencyInv, Typing, TypeOK
<1>r. /\ Balance \in Int /\ 0 < Balance /\ Balance + 1 < 2 * CounterMod
      /\ IsFiniteSet(Claimers) /\ Cardinality(Claimers) \in Nat
      /\ IsFiniteSet(Pushers) /\ Cardinality(Pushers) \in Nat
      /\ Len(ready) \in Nat /\ CounterMod \in Nat
  BY BalanceInRange, ModAssumption DEF DependencyInv
<1>1. CASE UNCHANGED vars \/ Execute \/ Returned
  <2>1. Claimers' = Claimers /\ Pushers' = Pushers
    BY <1>0, <1>1 DEF vars, Execute, Spawn, StopSpawning, Join, Returned, Goto, Claimers, Pushers
  <2>2. UNCHANGED <<ready, tasks_available, completed_count>>
    BY <1>1 DEF vars, Execute, Spawn, StopSpawning, Join, Returned
  <2> QED
    BY <1>0, <2>1, <2>2, AccountKept
<1>2. ASSUME NEW t \in Threads,
             \/ DequeueEmpty(t) \/ Check(t) \/ Load(t) \/ Recheck(t) \/ Sleep(t) \/ Wait(t)
             \/ Wake(t) \/ Process(t) \/ Fail(t) \/ ReleaseEdge(t) \/ EdgesDone(t) \/ Publish(t)
      PROVE  AccountInv'
  <2>1. Claimers' = Claimers /\ Pushers' = Pushers
    BY <1>0, <1>2 DEF DequeueEmpty, Check, Load, Recheck, Sleep, Wait, Wake, Process, Fail,
       ReleaseEdge, EdgesDone, Publish, Goto, Claimers, Pushers
  <2>2. UNCHANGED <<ready, tasks_available, completed_count>>
    BY <1>2 DEF DequeueEmpty, Check, Load, Recheck, Sleep, Wait, Wake, Process, Fail,
       ReleaseEdge, EdgesDone, Publish
  <2> QED
    BY <1>0, <2>1, <2>2, AccountKept
<1>3. ASSUME NEW t \in Threads, NotifyAll(t) \/ NotifyOne(t) PROVE AccountInv'
  <2>1. Claimers' = Claimers /\ Pushers' = Pushers
    BY <1>0, <1>3 DEF NotifyAll, NotifyOne, NotifyThreads, Blocked, Claimers, Pushers
  <2>2. UNCHANGED <<ready, tasks_available, completed_count>>
    BY <1>3 DEF NotifyAll, NotifyOne
  <2> QED
    BY <1>0, <2>1, <2>2, AccountKept
<1>4. ASSUME NEW t \in Threads, Succeed(t) \/ AbandonBuild(t) \/ CountFailed(t) \/ Release(t)
      PROVE  AccountInv'
  <2>1. Claimers' = Claimers /\ Pushers' = Pushers
    BY <1>0, <1>4 DEF Succeed, AbandonBuild, CountFailed, Release, Goto, Claimers, Pushers
  <2>2. /\ ready' = ready
        /\ \/ completed_count' >= TotalNodes
           \/ tasks_available' = tasks_available /\ completed_count' >= completed_count
    BY <1>0, <1>4 DEF Succeed, AbandonBuild, CountFailed, Release, EndInv
  <2> QED
    BY <1>0, <2>1, <2>2, AccountKept
<1>5. ASSUME NEW t \in Threads, Dequeue(t) PROVE AccountInv'
  <2>1. ready # <<>> /\ ready' = Tail(ready) /\ pc[t] = "dequeue" /\ pc' = [pc EXCEPT ![t] = "claimed"]
        /\ UNCHANGED <<tasks_available, completed_count>>
    BY <1>5 DEF Dequeue, HeadPublished, Goto
  <2>2. Len(ready') = Len(ready) - 1
    BY <1>0, <2>1, HeadTailProperties
  <2>3. Claimers' = Claimers \cup {t} /\ t \notin Claimers /\ Pushers' = Pushers
    BY <1>0, <2>1 DEF Claimers, Pushers
  <2>4. Cardinality(Claimers') = Cardinality(Claimers) + 1
    BY <1>r, <2>3, FS_AddElement
  <2>5. Balance' = Balance
    BY <1>r, <2>2, <2>3, <2>4, BalanceMoves, SMTT(30)
  <2> QED
    BY <1>0, <1>r, <2>1, <2>2, <2>5 DEF AccountInv
<1>6. ASSUME NEW t \in Threads, Enqueue(t) PROVE AccountInv'
  <2>1. Len(ready) < QueueCapacity /\ next[t] \in Steps /\ pc[t] = "enqueue"
    BY <1>6, EnqueuePreserves DEF Enqueue, DependencyInv, Typing, PushesStep
  <2>2. ready' = Append(ready, next[t]) /\ pc' = [pc EXCEPT ![t] = "publish"]
        /\ UNCHANGED <<tasks_available, completed_count>>
    BY <1>6, <2>1 DEF Enqueue, Goto
  <2>3. Len(ready') = Len(ready) + 1
    BY <1>0, <2>1, <2>2, AppendProperties
  <2>4. Pushers' = Pushers \cup {t} /\ t \notin Pushers /\ Claimers' = Claimers
    BY <1>0, <2>1, <2>2 DEF Claimers, Pushers
  <2>5. Cardinality(Pushers') = Cardinality(Pushers) + 1
    BY <1>r, <2>4, FS_AddElement
  <2>6. Balance' = Balance
    <3>1. Len(ready') = Len(ready) + 1 /\ Cardinality(Pushers') = Cardinality(Pushers) + 1
          /\ Cardinality(Claimers') = Cardinality(Claimers)
      BY <2>3, <2>4, <2>5
    <3> QED
      BY <1>r, <3>1, BalanceMoves, SMTT(30)
  <2> QED
    BY <1>0, <1>r, <2>1, <2>2, <2>3, <2>6 DEF AccountInv, QueueCapacity
<1>7. ASSUME NEW t \in Threads, CountDown(t) PROVE AccountInv'
  <2>1. pc[t] = "claimed" /\ pc' = [pc EXCEPT ![t] = "process"]
        /\ tasks_available' = Decremented(tasks_available) /\ UNCHANGED <<ready, completed_count>>
    BY <1>7 DEF CountDown, Goto
  <2>2. Claimers' = Claimers \ {t} /\ t \in Claimers /\ Pushers' = Pushers
    BY <1>0, <2>1 DEF Claimers, Pushers
  <2>3. Cardinality(Claimers') = Cardinality(Claimers) - 1
    BY <1>r, <2>2, FS_RemoveElement
  <2>4. Balance' = Balance - 1
    <3>1. Len(ready') = Len(ready) /\ Cardinality(Pushers') = Cardinality(Pushers)
          /\ Cardinality(Claimers') = Cardinality(Claimers) - 1
      BY <2>1, <2>2, <2>3
    <3> QED
      BY <1>r, <3>1, BalanceMoves, SMTT(30)
  <2>5. Decremented(Balance % CounterMod) = (Balance - 1) % CounterMod
    BY <1>r, CounterSteps
  <2> QED
    BY <1>r, <2>1, <2>4, <2>5 DEF AccountInv
<1>8. ASSUME NEW t \in Threads, CountUp(t) PROVE AccountInv'
  <2>1. pc[t] = "count" /\ pc' = [pc EXCEPT ![t] = "notifyone"]
        /\ tasks_available' = Incremented(tasks_available) /\ UNCHANGED <<ready, completed_count>>
    BY <1>8 DEF CountUp, Goto
  <2>2. Pushers' = Pushers \ {t} /\ t \in Pushers /\ Claimers' = Claimers
    BY <1>0, <2>1 DEF Claimers, Pushers
  <2>3. Cardinality(Pushers') = Cardinality(Pushers) - 1
    BY <1>r, <2>2, FS_RemoveElement
  <2>4. Balance' = Balance + 1
    <3>1. Len(ready') = Len(ready) /\ Cardinality(Claimers') = Cardinality(Claimers)
          /\ Cardinality(Pushers') = Cardinality(Pushers) - 1
      BY <2>1, <2>2, <2>3
    <3> QED
      BY <1>r, <3>1, BalanceMoves, SMTT(30)
  <2>5. Incremented(Balance % CounterMod) = (Balance + 1) % CounterMod
    BY <1>r, CounterSteps
  <2> QED
    BY <1>r, <2>1, <2>4, <2>5 DEF AccountInv
<1> QED
  BY <1>1, <1>2, <1>3, <1>4, <1>5, <1>6, <1>7, <1>8 DEF Next, Worker

(* The word the workers sleep on agrees with the ready queue, up to the    *)
(* operations in flight, until the last node is counted: an early          *)
(* fetch_sub makes it wrap below 0 and a late fetch_add brings it back.    *)
THEOREM CounterFollowsQueue == Safety => []TaskCountAccurate
<1>1. Init => EndInv /\ AccountInv
  <2> SUFFICES ASSUME Init PROVE EndInv /\ AccountInv
    OBVIOUS
  <2>1. EndInv
    BY DEF Init, EndInv
  <2>2. Claimers = {} /\ Pushers = {}
    BY DEF Init, Claimers, Pushers
  <2>3. Len(ready) = Cardinality(Roots)
    BY InitialOrderIsSeq DEF Init
  <2>4. Cardinality({}) = 0
    BY FS_EmptySet
  <2>5. Cardinality(Roots) \in 0..CounterMod - 1 /\ CounterMod \in Nat /\ CounterMod > 1
    BY Sizes, ModAssumption DEF MaxCount
  <2>6. Balance = Cardinality(Roots) + CounterMod
    BY <2>2, <2>3, <2>4, <2>5 DEF Balance
  <2>7. Balance % CounterMod = Cardinality(Roots)
    <3>1. (Cardinality(Roots) + CounterMod) % CounterMod = Cardinality(Roots) % CounterMod
      BY <2>5, Sizes, Laps
    <3>2. Cardinality(Roots) % CounterMod = Cardinality(Roots)
      BY <2>5, Laps
    <3> QED
      BY <2>6, <3>1, <3>2
  <2> QED
    BY <2>1, <2>3, <2>7, Sizes DEF AccountInv, Init
<1>2. AccountInv => TaskCountAccurate
  BY DEF AccountInv, TaskCountAccurate, Balance, Claimers, Pushers
<1>3. DependencyInv => Typing
  BY DEF DependencyInv
<1> QED
  BY <1>1, <1>2, <1>3, EndNext, AccountNext, DependencyInvariant, PTL DEF Safety
=============================================================================
