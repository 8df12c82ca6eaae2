----------------------------- MODULE ClaimQueue ------------------------------
(***************************************************************************)
(* What the bounded multi-producer multi-consumer queue promises: a FIFO   *)
(* of at most Capacity items in which an enqueue takes effect in two       *)
(* steps.  It first claims the next place, which fixes its turn, and then  *)
(* publishes the item.  A dequeue takes the oldest item, and only when     *)
(* that one is published: a slow producer holds back those behind it.      *)
(*                                                                         *)
(* Module MPMCQueue, the ring buffer of mpmc_queue.hpp, implements it, and *)
(* module Scheduler is shown to use its ready queue as one.                *)
(***************************************************************************)
EXTENDS Integers, Sequences

CONSTANTS Items, Clients, Capacity, None

VARIABLES
    queue,        \* the claimed items, oldest first
    unpublished,  \* those among them whose producer has not finished
    received      \* the item each client holds between taking it and handing it on

vars == <<queue, unpublished, received>>

Contents == {queue[i] : i \in DOMAIN queue}

(* The owner may fill the queue before it shares it.                       *)
Init ==
    /\ queue \in UNION {[1..n -> Items] : n \in 0..Capacity}
    /\ unpublished = {}
    /\ received = [c \in Clients |-> None]

Claim(x) ==
    /\ Len(queue) < Capacity
    /\ x \notin Contents
    /\ queue' = Append(queue, x)
    /\ unpublished' = unpublished \cup {x}
    /\ UNCHANGED received

Publish(x) ==
    /\ x \in unpublished
    /\ unpublished' = unpublished \ {x}
    /\ UNCHANGED <<queue, received>>

Take(c) ==
    /\ queue # <<>>
    /\ Head(queue) \notin unpublished
    /\ received[c] = None
    /\ received' = [received EXCEPT ![c] = Head(queue)]
    /\ queue' = Tail(queue)
    /\ UNCHANGED unpublished

HandOn(c) ==
    /\ received[c] # None
    /\ received' = [received EXCEPT ![c] = None]
    /\ UNCHANGED <<queue, unpublished>>

Next ==
    \/ \E x \in Items : Claim(x) \/ Publish(x)
    \/ \E c \in Clients : Take(c) \/ HandOn(c)

Spec == Init /\ [][Next]_vars

=============================================================================
