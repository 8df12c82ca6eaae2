---------------------------- MODULE ProgressQueue ----------------------------
(***************************************************************************)
(* The progress output of a build: the workers put messages into the       *)
(* LockFreeMPSCQueue of mpsc_queue.hpp and count them, the progress thread *)
(* of execute() sleeps until the count has moved, takes one message and    *)
(* prints it, and after the workers are joined execute() sends a poison    *)
(* pill that ends the thread.                                              *)
(*                                                                         *)
(* Every access to a shared variable is a step.  A compare-and-swap fails  *)
(* only if the position has moved; a spurious failure repeats the look at  *)
(* the same cell.                                                          *)
(***************************************************************************)
EXTENDS Integers, Sequences, FiniteSets

CONSTANTS
    Workers,    \* threads that print
    Main,       \* the thread in execute()
    Messages,   \* messages each worker prints (a bound)
    Capacity    \* cells of the queue, a power of two

ASSUME CapacityAssumption == Capacity \in Nat /\ Capacity > 1 /\ Messages \in Nat
ASSUME MainAssumption == Main \notin Workers

VARIABLES
    sequence, data, enqueue_pos, dequeue_pos,   \* the queue
    messages_enqueued,                          \* ctx.messages_enqueued
    pc,         \* where each sender is
    pos,        \* the local variable pos of its enqueue
    sent,       \* how many messages it has sent
    printer,    \* where the progress thread is
    processed,  \* its local variable
    event,      \* the message it has taken out of the cell
    claims,     \* history: the message of every claimed position
    printed     \* history: the messages in the order in which they were handled

ring == <<sequence, data, enqueue_pos, dequeue_pos>>
reader == <<printer, processed, event, printed>>
vars == <<ring, messages_enqueued, pc, pos, sent, claims, reader>>

Senders == Workers \cup {Main}
Cell(p) == p % Capacity
NoEvent == <<>>
Pill == <<Main, 1>>                             \* is_poison_pill
Message(t) == <<t, sent[t] + 1>>
Quota(t) == IF t = Main THEN 1 ELSE Messages

Init ==
    /\ sequence = [i \in 0..Capacity - 1 |-> i]
    /\ data = [i \in 0..Capacity - 1 |-> NoEvent]
    /\ enqueue_pos = 0 /\ dequeue_pos = 0
    /\ messages_enqueued = 0
    /\ pc = [t \in Senders |-> "idle"]
    /\ pos = [t \in Senders |-> 0]
    /\ sent = [t \in Senders |-> 0]
    /\ printer = "load"
    /\ processed = 0
    /\ event = NoEvent
    /\ claims = <<>>
    /\ printed = <<>>

Goto(t, label) == pc' = [pc EXCEPT ![t] = label]

(* A worker ends with its last message; execute() joins them all.          *)
MaySendAnytime(t) == sent[t] < Quota(t)         \* mutant: the pill does not wait for the join
MaySend(t) ==
    /\ sent[t] < Quota(t)
    /\ t = Main => \A w \in Workers : sent[w] = Messages /\ pc[w] = "idle"

(***************************************************************************)
(* while (!progress_queue.enqueue(...)) yield(); then count and notify.    *)
(***************************************************************************)
Send(t) ==
    /\ pc[t] = "idle"
    /\ MaySend(t)
    /\ pos' = [pos EXCEPT ![t] = enqueue_pos]
    /\ Goto(t, "look")
    /\ UNCHANGED <<ring, messages_enqueued, sent, claims, reader>>

(* The cell is free; or the queue is full or the position stale: try again.*)
Look(t) ==
    /\ pc[t] = "look"
    /\ IF sequence[Cell(pos[t])] = pos[t]
         THEN Goto(t, "claim")
         ELSE Goto(t, "retry")
    /\ UNCHANGED <<ring, messages_enqueued, pos, sent, claims, reader>>

Retry(t) ==
    /\ pc[t] = "retry"
    /\ pos' = [pos EXCEPT ![t] = enqueue_pos]
    /\ Goto(t, "look")
    /\ UNCHANGED <<ring, messages_enqueued, sent, claims, reader>>

Claim(t) ==
    /\ pc[t] = "claim"
    /\ IF enqueue_pos = pos[t]
         THEN /\ enqueue_pos' = pos[t] + 1
              /\ claims' = Append(claims, Message(t))
              /\ Goto(t, "write")
              /\ UNCHANGED pos
         ELSE /\ pos' = [pos EXCEPT ![t] = enqueue_pos]
              /\ Goto(t, "look")
              /\ UNCHANGED <<enqueue_pos, claims>>
    /\ UNCHANGED <<sequence, data, dequeue_pos, messages_enqueued, sent, reader>>

Write(t) ==
    /\ pc[t] = "write"
    /\ data' = [data EXCEPT ![Cell(pos[t])] = Message(t)]
    /\ Goto(t, "publish")
    /\ UNCHANGED <<sequence, enqueue_pos, dequeue_pos, messages_enqueued, pos, sent, claims, reader>>

Publish(t) ==
    /\ pc[t] = "publish"
    /\ sequence' = [sequence EXCEPT ![Cell(pos[t])] = pos[t] + 1]
    /\ Goto(t, "count")
    /\ UNCHANGED <<data, enqueue_pos, dequeue_pos, messages_enqueued, pos, sent, claims, reader>>

CountSilently(t) ==                             \* mutant: no notify_one
    /\ pc[t] = "count"
    /\ messages_enqueued' = messages_enqueued + 1
    /\ sent' = [sent EXCEPT ![t] = @ + 1]
    /\ Goto(t, "idle")
    /\ UNCHANGED <<ring, pos, claims, reader>>

Count(t) ==
    /\ pc[t] = "count"
    /\ messages_enqueued' = messages_enqueued + 1
    /\ Goto(t, "notify")
    /\ UNCHANGED <<ring, pos, sent, claims, reader>>

Notify(t) ==
    /\ pc[t] = "notify"
    /\ sent' = [sent EXCEPT ![t] = @ + 1]
    /\ Goto(t, "idle")
    /\ printer' = IF printer = "blocked" THEN "load" ELSE printer
    /\ UNCHANGED <<ring, messages_enqueued, pos, claims, processed, event, printed>>

(***************************************************************************)
(* The progress thread.                                                    *)
(***************************************************************************)
LoadOneAhead ==                                 \* mutant: takes a message that is not counted
    /\ printer = "load"
    /\ printer' = IF processed > messages_enqueued THEN "wait" ELSE "dequeue"
    /\ UNCHANGED <<ring, messages_enqueued, pc, pos, sent, claims, processed, event, printed>>

Load ==
    /\ printer = "load"
    /\ printer' = IF processed = messages_enqueued THEN "wait" ELSE "dequeue"
    /\ UNCHANGED <<ring, messages_enqueued, pc, pos, sent, claims, processed, event, printed>>

(* messages_enqueued.wait(processed), which looks before it blocks.        *)
Wait ==
    /\ printer = "wait"
    /\ printer' = IF processed = messages_enqueued THEN "blocked" ELSE "load"
    /\ UNCHANGED <<ring, messages_enqueued, pc, pos, sent, claims, processed, event, printed>>

DequeueFreeing ==                               \* mutant: the cell is freed before it is read
    /\ printer = "dequeue"
    /\ sequence[Cell(dequeue_pos)] = dequeue_pos + 1
    /\ sequence' = [sequence EXCEPT ![Cell(dequeue_pos)] = dequeue_pos + Capacity]
    /\ printer' = "read"
    /\ UNCHANGED <<data, enqueue_pos, dequeue_pos, messages_enqueued, pc, pos, sent, claims,
                   processed, event, printed>>

(* dequeue, tried until the head is published.                             *)
Dequeue ==
    /\ printer = "dequeue"
    /\ sequence[Cell(dequeue_pos)] = dequeue_pos + 1
    /\ printer' = "read"
    /\ UNCHANGED <<ring, messages_enqueued, pc, pos, sent, claims, processed, event, printed>>

Read ==
    /\ printer = "read"
    /\ event' = data[Cell(dequeue_pos)]
    /\ printer' = "free"
    /\ UNCHANGED <<ring, messages_enqueued, pc, pos, sent, claims, processed, printed>>

(* The cell is free for the next lap; the message is printed, or ends the  *)
(* thread.                                                                 *)
Free ==
    /\ printer = "free"
    /\ sequence' = [sequence EXCEPT ![Cell(dequeue_pos)] = dequeue_pos + Capacity]
    /\ dequeue_pos' = dequeue_pos + 1
    /\ processed' = processed + 1
    /\ printed' = Append(printed, event)
    /\ event' = NoEvent
    /\ printer' = IF event = Pill THEN "exited" ELSE "load"
    /\ UNCHANGED <<data, enqueue_pos, messages_enqueued, pc, pos, sent, claims>>

-----------------------------------------------------------------------------

Sender(t) ==
    Send(t) \/ Look(t) \/ Retry(t) \/ Claim(t) \/ Write(t) \/ Publish(t) \/ Count(t) \/ Notify(t)

Printer == Load \/ Wait \/ Dequeue \/ Read \/ Free

(* execute() has sent the pill and joined the progress thread.             *)
Joined == printer = "exited" /\ sent[Main] = 1 /\ UNCHANGED vars

Next == Printer \/ (\E t \in Senders : Sender(t)) \/ Joined

(* Every thread that is not blocked runs.                                  *)
Spec == Init /\ [][Next]_vars /\ WF_vars(Printer) /\ \A t \in Senders : WF_vars(Sender(t))

-----------------------------------------------------------------------------
(***************************************************************************)
(* Properties.                                                             *)
(***************************************************************************)

(* Messages come out in the order in which their cells were claimed,       *)
(* unchanged, and the thread ends only when all of them are out.           *)
NothingLost ==
    /\ printed = SubSeq(claims, 1, Len(printed))
    /\ printer = "exited" =>
        /\ printed = claims
        /\ \A w \in Workers, n \in 1..Messages : \E i \in DOMAIN printed : printed[i] = <<w, n>>

(* The consumer keeps dequeue_pos and the data without any atomic: nobody  *)
(* writes the cell it reads.                                               *)
ReaderUndisturbed ==
    \A t \in Senders :
        pc[t] = "write" /\ printer = "read" => Cell(pos[t]) # Cell(dequeue_pos)

(* The thread tries to take a message only when one is claimed, so its     *)
(* loop around dequeue waits for one producer at most, not for a message   *)
(* that may never come.                                                    *)
DequeueNotInVain == printer \in {"dequeue", "read"} => dequeue_pos < enqueue_pos

(* execute() returns: every message, and then the pill, is handled although*)
(* the queue is smaller than what is sent and producers spin on it.        *)
PrinterEnds == <>(printer = "exited" /\ sent[Main] = 1)

=============================================================================
