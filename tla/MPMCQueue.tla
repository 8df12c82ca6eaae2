------------------------------ MODULE MPMCQueue ------------------------------
(***************************************************************************)
(* LockFreeMPMCQueue of mpmc_queue.hpp: a ring of cells, each with a       *)
(* sequence number and a datum, and two positions that only grow.  Every   *)
(* load, store and compare-and-swap is a step.  The sequence numbers are   *)
(* accessed with acquire and release, so a thread that has read a number   *)
(* sees the datum written before it; the positions are relaxed, and only   *)
(* the compare-and-swap on them decides anything.  Positions are size_t    *)
(* and are taken as unbounded: 2^64 operations do not happen.              *)
(*                                                                         *)
(* Every item is enqueued once (Items bounds the run); any thread may call *)
(* enqueue or dequeue at any time.                                         *)
(***************************************************************************)
EXTENDS Sequences, FiniteSets, Rounding

CONSTANTS
    Items,        \* values that are enqueued
    Threads,      \* callers
    Requested,    \* the constructor's argument
    None          \* no value

ASSUME RequestedAssumption == Requested \in Nat

VARIABLES
    sequence,     \* buffer_[i].sequence
    data,         \* buffer_[i].data
    enqueue_pos,
    dequeue_pos,
    pc,           \* where each thread is
    pos,          \* the local variable pos of each thread
    item,         \* the argument of its enqueue, or what its dequeue has copied out
    claims        \* history: the item for which each position was claimed

shared == <<sequence, data, enqueue_pos, dequeue_pos>>
vars == <<shared, pc, pos, item, claims>>

Cells == bitCeil[Requested]
Cell(p) == p % Cells

Init ==
    /\ sequence = [i \in 0..Cells - 1 |-> i]
    /\ data = [i \in 0..Cells - 1 |-> None]
    /\ enqueue_pos = 0
    /\ dequeue_pos = 0
    /\ pc = [t \in Threads |-> "idle"]
    /\ pos = [t \in Threads |-> 0]
    /\ item = [t \in Threads |-> None]
    /\ claims = <<>>

Goto(t, label) == pc' = [pc EXCEPT ![t] = label]
Started == {claims[i] : i \in DOMAIN claims} \cup {item[t] : t \in Threads}
Waiting == SubSeq(claims, dequeue_pos + 1, Len(claims))
Unpublished == {item[t] : t \in {u \in Threads : pc[u] \in {"write", "publish"}}}

(***************************************************************************)
(* enqueue(x)                                                              *)
(***************************************************************************)
EnqueueCall(t, x) ==
    /\ pc[t] = "idle"
    /\ x \notin Started
    /\ item' = [item EXCEPT ![t] = x]
    /\ pos' = [pos EXCEPT ![t] = enqueue_pos]
    /\ Goto(t, "enqueue")
    /\ UNCHANGED <<shared, claims>>

(* The cell is free for this lap; still occupied; or already claimed.      *)
EnqueueLook(t) ==
    /\ pc[t] = "enqueue"
    /\ LET seq == sequence[Cell(pos[t])]
       IN  \/ seq = pos[t] /\ Goto(t, "claim") /\ UNCHANGED item
           \/ seq < pos[t] /\ Goto(t, "idle") /\ item' = [item EXCEPT ![t] = None]
           \/ seq > pos[t] /\ Goto(t, "reload") /\ UNCHANGED item
    /\ UNCHANGED <<shared, pos, claims>>

EnqueueReload(t) ==
    /\ pc[t] = "reload"
    /\ pos' = [pos EXCEPT ![t] = enqueue_pos]
    /\ Goto(t, "enqueue")
    /\ UNCHANGED <<shared, item, claims>>

EnqueueClaimByStore(t) ==                       \* mutant: a load and a store, no compare-and-swap
    /\ pc[t] = "claim"
    /\ enqueue_pos' = pos[t] + 1
    /\ claims' = Append(claims, item[t])
    /\ Goto(t, "write")
    /\ UNCHANGED <<sequence, data, dequeue_pos, pos, item>>

EnqueueClaim(t) ==
    /\ pc[t] = "claim"
    /\ enqueue_pos = pos[t]
    /\ enqueue_pos' = pos[t] + 1
    /\ claims' = Append(claims, item[t])
    /\ Goto(t, "write")
    /\ UNCHANGED <<sequence, data, dequeue_pos, pos, item>>

(* The weak compare-and-swap fails, perhaps spuriously, and reloads pos.   *)
EnqueueRetry(t) ==
    /\ pc[t] = "claim"
    /\ pos' = [pos EXCEPT ![t] = enqueue_pos]
    /\ Goto(t, "enqueue")
    /\ UNCHANGED <<shared, item, claims>>

EnqueueWrite(t) ==
    /\ pc[t] = "write"
    /\ data' = [data EXCEPT ![Cell(pos[t])] = item[t]]
    /\ Goto(t, "publish")
    /\ UNCHANGED <<sequence, enqueue_pos, dequeue_pos, pos, item, claims>>

EnqueuePublish(t) ==
    /\ pc[t] = "publish"
    /\ sequence' = [sequence EXCEPT ![Cell(pos[t])] = pos[t] + 1]
    /\ item' = [item EXCEPT ![t] = None]
    /\ Goto(t, "idle")
    /\ UNCHANGED <<data, enqueue_pos, dequeue_pos, pos, claims>>

(***************************************************************************)
(* dequeue(data)                                                           *)
(***************************************************************************)
DequeueCall(t) ==
    /\ pc[t] = "idle"
    /\ pos' = [pos EXCEPT ![t] = dequeue_pos]
    /\ Goto(t, "dequeue")
    /\ UNCHANGED <<shared, item, claims>>

(* The cell holds this position's item; it is not there yet; or it was     *)
(* already taken.                                                          *)
DequeueLook(t) ==
    /\ pc[t] = "dequeue"
    /\ LET seq == sequence[Cell(pos[t])]
       IN  \/ seq = pos[t] + 1 /\ Goto(t, "take")
           \/ seq < pos[t] + 1 /\ Goto(t, "empty")
           \/ seq > pos[t] + 1 /\ Goto(t, "refresh")
    /\ UNCHANGED <<shared, pos, item, claims>>

DequeueReload(t) ==
    /\ pc[t] = "refresh"
    /\ pos' = [pos EXCEPT ![t] = dequeue_pos]
    /\ Goto(t, "dequeue")
    /\ UNCHANGED <<shared, item, claims>>

DequeueTakeByStore(t) ==                        \* mutant: a load and a store, no compare-and-swap
    /\ pc[t] = "take"
    /\ dequeue_pos' = pos[t] + 1
    /\ Goto(t, "read")
    /\ UNCHANGED <<sequence, data, enqueue_pos, pos, item, claims>>

DequeueTakeFreeing(t) ==                        \* mutant: the cell is freed before the datum is read
    /\ pc[t] = "take"
    /\ dequeue_pos = pos[t]
    /\ dequeue_pos' = pos[t] + 1
    /\ sequence' = [sequence EXCEPT ![Cell(pos[t])] = pos[t] + Cells]
    /\ Goto(t, "read")
    /\ UNCHANGED <<data, enqueue_pos, pos, item, claims>>

DequeueTake(t) ==
    /\ pc[t] = "take"
    /\ dequeue_pos = pos[t]
    /\ dequeue_pos' = pos[t] + 1
    /\ Goto(t, "read")
    /\ UNCHANGED <<sequence, data, enqueue_pos, pos, item, claims>>

DequeueRetry(t) ==
    /\ pc[t] = "take"
    /\ pos' = [pos EXCEPT ![t] = dequeue_pos]
    /\ Goto(t, "dequeue")
    /\ UNCHANGED <<shared, item, claims>>

DequeueRead(t) ==
    /\ pc[t] = "read"
    /\ item' = [item EXCEPT ![t] = data[Cell(pos[t])]]
    /\ Goto(t, "free")
    /\ UNCHANGED <<shared, pos, claims>>

(* sequence.store(pos + buffer_mask_ + 1): free for the next lap.          *)
NextLapOneShort(p) == p + Cells - 1             \* mutant: the mask without the 1
NextLap(p) == p + Cells

DequeueFree(t) ==
    /\ pc[t] = "free"
    /\ sequence' = [sequence EXCEPT ![Cell(pos[t])] = NextLap(pos[t])]
    /\ item' = [item EXCEPT ![t] = None]
    /\ Goto(t, "idle")
    /\ UNCHANGED <<data, enqueue_pos, dequeue_pos, pos, claims>>

DequeueEmpty(t) ==
    /\ pc[t] = "empty"
    /\ Goto(t, "idle")
    /\ UNCHANGED <<shared, pos, item, claims>>

-----------------------------------------------------------------------------

Enqueue(t) ==
    \/ \E x \in Items : EnqueueCall(t, x)
    \/ EnqueueLook(t) \/ EnqueueReload(t) \/ EnqueueClaim(t) \/ EnqueueRetry(t)
    \/ EnqueueWrite(t) \/ EnqueuePublish(t)

Dequeue(t) ==
    \/ DequeueCall(t) \/ DequeueLook(t) \/ DequeueReload(t) \/ DequeueTake(t) \/ DequeueRetry(t)
    \/ DequeueRead(t) \/ DequeueFree(t) \/ DequeueEmpty(t)

Next == \E t \in Threads : Enqueue(t) \/ Dequeue(t)

Spec == Init /\ [][Next]_vars

-----------------------------------------------------------------------------
(***************************************************************************)
(* Properties.                                                             *)
(***************************************************************************)

(* The datum of a cell is a plain object: no thread writes it while        *)
(* another reads or writes it.  That is the job of the sequence numbers.   *)
NoDataRace ==
    \A t, u \in Threads :
        t # u /\ pc[t] = "write" /\ pc[u] \in {"write", "read"} => Cell(pos[t]) # Cell(pos[u])

(* enqueue succeeds only while a cell is free ("false if the queue is      *)
(* full"), and dequeue only when something was enqueued.                   *)
WithinCapacity ==
    /\ dequeue_pos <= enqueue_pos
    /\ enqueue_pos <= dequeue_pos + Cells

(* With no call in progress the ring is what it says: the places of the    *)
(* waiting items hold published cells and all others are free, so that the *)
(* next enqueue fails exactly when Cells items wait, and the next dequeue  *)
(* exactly when none does.                                                 *)
QuietRing ==
    (\A t \in Threads : pc[t] = "idle") =>
        \A p \in dequeue_pos .. dequeue_pos + Cells - 1 :
            sequence[Cell(p)] = IF p < enqueue_pos THEN p + 1 ELSE p

(* What a dequeue has taken: the item claimed for its position until it    *)
(* has copied the datum, and from then on what it did copy.                *)
Received(t) == CASE pc[t] = "read" -> claims[pos[t] + 1]
                 [] pc[t] = "free" -> item[t]
                 [] OTHER -> None

Abstract == INSTANCE ClaimQueue
    WITH Clients <- Threads,
         Capacity <- Cells,
         queue <- Waiting,
         unpublished <- Unpublished,
         received <- [t \in Threads |-> Received(t)]

(* The ring implements the claim-and-publish FIFO: items leave in the      *)
(* order in which their positions were claimed, each once, unchanged, and  *)
(* never before they are published.                                        *)
ClaimQueueSpec == Abstract!Spec

=============================================================================
