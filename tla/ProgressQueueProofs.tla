------------------------- MODULE ProgressQueueProofs --------------------------
(***************************************************************************)
(* Proofs about the progress output, for any set of workers, any number of *)
(* messages and any ring of at least two cells.                            *)
(***************************************************************************)
EXTENDS ProgressQueue, RingArithmetic, FiniteSetTheorems, SequenceTheorems, TLAPS

-----------------------------------------------------------------------------
(* The inductive invariant.                                                *)

Events == Senders \X Nat
Labels == {"idle", "look", "retry", "claim", "write", "publish", "count", "notify"}
Producing == {"write", "publish"}                   \* owns a position that it has claimed
Uncounted == {"write", "publish", "count"}          \* has claimed and not yet counted
Claimed == {"write", "publish", "count", "notify"}  \* its message has a position
Active == {t \in Senders : pc[t] \in Uncounted}

TypeOK ==
    /\ sequence \in [0..Capacity - 1 -> Nat]
    /\ data \in [0..Capacity - 1 -> Events \cup {NoEvent}]
    /\ enqueue_pos \in Nat
    /\ dequeue_pos \in Nat
    /\ messages_enqueued \in Nat
    /\ pc \in [Senders -> Labels]
    /\ pos \in [Senders -> Nat]
    /\ sent \in [Senders -> Nat]
    /\ printer \in {"load", "wait", "blocked", "dequeue", "read", "free", "exited"}
    /\ processed = dequeue_pos
    /\ claims \in Seq(Events) /\ Len(claims) = enqueue_pos
    /\ printed \in Seq(Events) /\ Len(printed) = dequeue_pos

(* The waiting messages fill at most the ring; their places are published, *)
(* or their senders have still to do it; the places behind them are free.  *)
PlacesInv ==
    /\ dequeue_pos <= enqueue_pos
    /\ enqueue_pos <= dequeue_pos + Capacity
    /\ \A p \in dequeue_pos .. enqueue_pos - 1 :
         \/ sequence[Cell(p)] = p + 1
         \/ \E t \in Senders : pc[t] \in Producing /\ pos[t] = p
    /\ \A p \in enqueue_pos .. dequeue_pos + Capacity - 1 : sequence[Cell(p)] = p

(* Whoever owns a position finds there what it expects, and is alone.      *)
OwnersInv ==
    /\ \A t \in Senders : pc[t] \in Producing =>
         /\ dequeue_pos <= pos[t] /\ pos[t] < enqueue_pos
         /\ sequence[Cell(pos[t])] = pos[t]
    /\ \A t, u \in Senders : pc[t] \in Producing /\ pc[u] \in Producing /\ t # u => pos[t] # pos[u]
    /\ printer \in {"read", "free"} => sequence[Cell(dequeue_pos)] = dequeue_pos + 1

(* What a sender has seen in a cell can only have grown.                   *)
SeenInv == \A t \in Senders : pc[t] = "claim" => sequence[Cell(pos[t])] >= pos[t]

(* The counter is behind the claims by the senders that are on their way,  *)
(* and the printer takes only what is counted.                             *)
CountInv ==
    /\ IsFiniteSet(Active)
    /\ enqueue_pos = messages_enqueued + Cardinality(Active)
    /\ dequeue_pos <= messages_enqueued
    /\ printer \in {"dequeue", "read", "free"} => dequeue_pos < messages_enqueued

(* Claims, cells, the reader's copy and the output agree.                  *)
DataInv ==
    /\ \A t \in Senders : pc[t] \in Claimed =>
         pos[t] < enqueue_pos /\ claims[pos[t] + 1] = Message(t)
    /\ \A t \in Senders : pc[t] = "publish" => data[Cell(pos[t])] = claims[pos[t] + 1]
    /\ \A p \in dequeue_pos .. enqueue_pos - 1 :
         sequence[Cell(p)] = p + 1 => data[Cell(p)] = claims[p + 1]
    /\ printer = "free" => event = claims[dequeue_pos + 1]
    /\ \A i \in 1..dequeue_pos : printed[i] = claims[i]

(* Main begins when the workers have ended, and its pill is the last claim.*)
MainBegun == pc[Main] # "idle" \/ sent[Main] > 0
MainClaimed == pc[Main] \in Claimed \/ sent[Main] > 0

PillInv ==
    /\ \A t \in Senders : sent[t] <= Quota(t) /\ (pc[t] # "idle" => sent[t] < Quota(t))
    /\ MainBegun => \A w \in Workers : sent[w] = Messages /\ pc[w] = "idle"
    /\ \A i \in 1..enqueue_pos : claims[i] = Pill => i = enqueue_pos /\ MainClaimed
    /\ \A t \in Senders : \A n \in 1..sent[t] : \E i \in 1..enqueue_pos : claims[i] = <<t, n>>
    /\ printer = "exited" => dequeue_pos = enqueue_pos /\ MainClaimed

LockInv == PlacesInv /\ OwnersInv /\ SeenInv
RingInv == TypeOK /\ LockInv /\ CountInv
ProgressInv == RingInv /\ DataInv /\ PillInv

-----------------------------------------------------------------------------
(* The ring.                                                               *)

(* Cells of positions, and that the places of one lap have different ones. *)
LEMMA CellsOfPositions ==
    /\ Capacity \in Nat /\ Capacity > 1
    /\ \A p \in Nat : Cell(p) \in 0..Capacity - 1 /\ Cell(p + Capacity) = Cell(p)
    /\ \A i \in 0..Capacity - 1 : Cell(i) = i
    /\ \A p, q \in Nat : p < q /\ q < p + Capacity => Cell(p) # Cell(q)
<1>1. Capacity \in Nat /\ Capacity > 1
  BY CapacityAssumption
<1> QED
  BY <1>1, Laps DEF Cell

(* The places in use lie in different cells.                               *)
LEMMA PlacesApart ==
    ASSUME TypeOK
    PROVE  \A p, q \in dequeue_pos .. dequeue_pos + Capacity - 1 : p # q => Cell(p) # Cell(q)
<1>1. dequeue_pos \in Nat /\ Capacity \in Nat
  BY CapacityAssumption DEF TypeOK
<1> SUFFICES ASSUME NEW p \in dequeue_pos .. dequeue_pos + Capacity - 1,
                    NEW q \in dequeue_pos .. dequeue_pos + Capacity - 1, p # q
             PROVE  Cell(p) # Cell(q)
  OBVIOUS
<1>2. p \in Nat /\ q \in Nat /\ p < q + Capacity /\ q < p + Capacity /\ (p < q \/ q < p)
  BY <1>1
<1> QED
  BY <1>2, CellsOfPositions

(* The values that most steps below need.                                  *)
LEMMA Values ==
    ASSUME RingInv
    PROVE  /\ enqueue_pos \in Nat /\ dequeue_pos \in Nat /\ Capacity \in Nat /\ Capacity > 1
           /\ dequeue_pos <= enqueue_pos /\ enqueue_pos <= dequeue_pos + Capacity
           /\ \A t \in Senders : pos[t] \in Nat
           /\ sequence \in [0..Capacity - 1 -> Nat]
           /\ \A p \in Nat : Cell(p) \in 0..Capacity - 1 /\ sequence[Cell(p)] \in Nat
BY CellsOfPositions DEF RingInv, LockInv, TypeOK, PlacesInv

(* Types are kept; what the printer takes out of a cell is a message.      *)
LEMMA TypeOKStep ==
    ASSUME ProgressInv, [Next]_vars
    PROVE  TypeOK'
<1> USE DEF TypeOK, Goto, Labels, ring, reader
<1>1. TypeOK /\ DataInv /\ RingInv
  BY DEF ProgressInv, RingInv
<1>2. CASE UNCHANGED vars
  BY <1>1, <1>2 DEF vars
<1>3. /\ \A t \in Senders : Message(t) \in Events /\ Cell(pos[t]) \in 0..Capacity - 1 /\ pos[t] \in Nat
      /\ Cell(dequeue_pos) \in 0..Capacity - 1
  <2>1. /\ \A t \in Senders : pos[t] \in Nat /\ sent[t] + 1 \in Nat
        /\ dequeue_pos \in Nat
    BY <1>1
  <2>2. \A t \in Senders : Message(t) \in Events
    BY ONLY <2>1 DEF Message, Events
  <2> QED
    BY ONLY <2>1, <2>2, CellsOfPositions
<1>4. ASSUME NEW t \in Senders, Sender(t) PROVE TypeOK'
  <2>0. pos[t] + 1 \in Nat /\ sent[t] + 1 \in Nat /\ messages_enqueued + 1 \in Nat
    BY <1>1
  <2>1. CASE Send(t) \/ Look(t) \/ Retry(t)
    BY <1>1, <2>1, ZenonT(40) DEF Send, Look, Retry
  <2>2. CASE Count(t)
    BY <1>1, <2>0, <2>2 DEF Count
  <2>3. CASE Notify(t)
    BY <1>1, <2>0, <2>3 DEF Notify
  <2>4. CASE Claim(t)
    <3>1. claims \in Seq(Events) /\ Message(t) \in Events
      BY <1>1, <1>3
    <3>2. Append(claims, Message(t)) \in Seq(Events) /\ Len(Append(claims, Message(t))) = Len(claims) + 1
      BY ONLY <3>1, AppendProperties
    <3> QED
      BY <1>1, <2>0, <2>4, <3>2 DEF Claim
  <2>5. CASE Write(t)
    <3>1. data' = [data EXCEPT ![Cell(pos[t])] = Message(t)]
      BY <2>5 DEF Write
    <3>2. data' \in [0..Capacity - 1 -> Events \cup {NoEvent}]
      BY <1>1, <1>3, <3>1
    <3> QED
      BY <1>1, <2>5, <3>2 DEF Write
  <2>6. CASE Publish(t)
    <3>1. sequence' \in [0..Capacity - 1 -> Nat]
      BY <1>1, <1>3, <2>0, <2>6 DEF Publish
    <3> QED
      BY <1>1, <2>6, <3>1 DEF Publish
  <2> QED
    BY <1>4, <2>1, <2>2, <2>3, <2>4, <2>5, <2>6 DEF Sender
<1>5. CASE Load \/ Wait \/ Dequeue \/ Read
  BY <1>1, <1>5 DEF Load, Wait, Dequeue, Read
<1>6. CASE Free
  <2>1. dequeue_pos < enqueue_pos
    <3>1. messages_enqueued <= enqueue_pos
      BY <1>1, FS_CardinalityType DEF RingInv, CountInv
    <3> QED
      BY <1>1, <1>6, <3>1 DEF Free, RingInv, CountInv
  <2>2. event \in Events
    <3>1. event = claims[dequeue_pos + 1] /\ dequeue_pos + 1 \in 1..Len(claims)
      BY <1>1, <1>6, <2>1 DEF Free, DataInv
    <3>2. claims \in Seq(Events)
      BY <1>1
    <3> QED
      BY ONLY <3>1, <3>2, ElementOfSeq
  <2>3. Append(printed, event) \in Seq(Events) /\ Len(Append(printed, event)) = Len(printed) + 1
    BY <1>1, <2>2, AppendProperties
  <2>4. dequeue_pos + Capacity \in Nat /\ dequeue_pos + 1 \in Nat /\ Cell(dequeue_pos) \in 0..Capacity - 1
    BY <1>1, <1>3, CapacityAssumption
  <2>5. sequence' \in [0..Capacity - 1 -> Nat]
    BY <1>1, <1>6, <2>4 DEF Free
  <2>6. dequeue_pos' = dequeue_pos + 1 /\ processed' = dequeue_pos + 1 /\ printed' = Append(printed, event)
    BY <1>1, <1>6 DEF Free
  <2>7. printed' \in Seq(Events) /\ Len(printed') = dequeue_pos'
    BY <1>1, <2>3, <2>6
  <2> QED
    BY <1>1, <1>6, <2>4, <2>5, <2>6, <2>7 DEF Free
<1> QED
  BY <1>2, <1>4, <1>5, <1>6 DEF Next, Printer, Joined

(* A step that leaves the positions and the sequence numbers alone, and    *)
(* with which no position changes hands.                                   *)
LocalStep ==
    /\ UNCHANGED <<sequence, enqueue_pos, dequeue_pos>>
    /\ \A t \in Senders :
         /\ pc'[t] \in Producing <=> pc[t] \in Producing
         /\ pc[t] \in Producing => pos'[t] = pos[t]
         /\ pc'[t] = "claim" => sequence[Cell(pos'[t])] >= pos'[t]
    /\ printer' \in {"read", "free"} => sequence[Cell(dequeue_pos)] = dequeue_pos + 1

(* Steps that touch no cell leave its owner alone.                         *)
LEMMA LocalStepKeepsLock ==
    ASSUME RingInv, LocalStep
    PROVE  LockInv'
<1> USE DEF LocalStep, RingInv, LockInv, Cell
<1>1. PlacesInv'
  BY DEF PlacesInv
<1>2. OwnersInv'
  BY DEF OwnersInv
<1>3. SeenInv'
  BY DEF SeenInv
<1> QED
  BY <1>1, <1>2, <1>3

(* Positions owned by senders, and by the printer, have different cells.   *)
LEMMA OwnersApart ==
    ASSUME RingInv
    PROVE  /\ \A t \in Senders : pc[t] \in Producing =>
                /\ pos[t] \in dequeue_pos .. dequeue_pos + Capacity - 1
                /\ printer \in {"read", "free"} => Cell(pos[t]) # Cell(dequeue_pos)
           /\ \A t, u \in Senders : pc[t] \in Producing /\ pc[u] \in Producing /\ t # u =>
                Cell(pos[t]) # Cell(pos[u])
<1>1. /\ enqueue_pos \in Nat /\ dequeue_pos \in Nat /\ Capacity \in Nat /\ Capacity > 1
      /\ dequeue_pos <= enqueue_pos /\ enqueue_pos <= dequeue_pos + Capacity
      /\ \A t \in Senders : pos[t] \in Nat
  BY Values
<1>2. \A t \in Senders : pc[t] \in Producing =>
        /\ pos[t] \in dequeue_pos .. dequeue_pos + Capacity - 1
        /\ sequence[Cell(pos[t])] = pos[t]
  <2> SUFFICES ASSUME NEW t \in Senders, pc[t] \in Producing
               PROVE  /\ pos[t] \in dequeue_pos .. dequeue_pos + Capacity - 1
                      /\ sequence[Cell(pos[t])] = pos[t]
    OBVIOUS
  <2>1. dequeue_pos <= pos[t] /\ pos[t] < enqueue_pos /\ sequence[Cell(pos[t])] = pos[t]
    BY DEF RingInv, LockInv, OwnersInv
  <2>2. pos[t] \in Nat
    BY <1>1
  <2> QED
    BY <1>1, <2>1, <2>2
<1>3. ASSUME NEW t \in Senders, pc[t] \in Producing, printer \in {"read", "free"}
      PROVE  Cell(pos[t]) # Cell(dequeue_pos)
  <2>1. sequence[Cell(dequeue_pos)] = dequeue_pos + 1
    BY <1>3 DEF RingInv, LockInv, OwnersInv
  <2>2. pos[t] # dequeue_pos
    BY <1>1, <1>2, <1>3, <2>1
  <2>3. dequeue_pos \in dequeue_pos .. dequeue_pos + Capacity - 1
    BY <1>1
  <2> QED
    BY <1>2, <1>3, <2>2, <2>3, PlacesApart DEF RingInv
<1>4. ASSUME NEW t \in Senders, NEW u \in Senders, pc[t] \in Producing, pc[u] \in Producing, t # u
      PROVE  Cell(pos[t]) # Cell(pos[u])
  <2>1. pos[t] # pos[u]
    BY <1>4 DEF RingInv, LockInv, OwnersInv
  <2> QED
    BY <1>2, <1>4, <2>1, PlacesApart DEF RingInv
<1> QED
  BY <1>2, <1>3, <1>4

(* The compare-and-swap of a sender succeeds only on a free cell.          *)
LEMMA ClaimedCellIsFree ==
    ASSUME RingInv, NEW t \in Senders, pc[t] = "claim", pos[t] = enqueue_pos
    PROVE  /\ enqueue_pos < dequeue_pos + Capacity
           /\ sequence[Cell(enqueue_pos)] = enqueue_pos
<1>1. /\ enqueue_pos \in Nat /\ dequeue_pos \in Nat /\ Capacity \in Nat /\ Capacity > 1
      /\ dequeue_pos <= enqueue_pos /\ enqueue_pos <= dequeue_pos + Capacity
      /\ \A u \in Senders : pos[u] \in Nat
  BY Values
<1>2. sequence[Cell(enqueue_pos)] >= enqueue_pos
  BY DEF RingInv, LockInv, SeenInv
<1>3. ASSUME enqueue_pos = dequeue_pos + Capacity PROVE FALSE
  <2>1. dequeue_pos \in dequeue_pos .. enqueue_pos - 1 /\ Cell(enqueue_pos) = Cell(dequeue_pos)
    BY <1>1, <1>3, CellsOfPositions
  <2>2. sequence[Cell(dequeue_pos)] \in {dequeue_pos, dequeue_pos + 1}
    BY <2>1 DEF RingInv, LockInv, PlacesInv, OwnersInv
  <2> QED
    BY <1>1, <1>2, <1>3, <2>1, <2>2
<1>4. enqueue_pos < dequeue_pos + Capacity
  BY <1>1, <1>3
<1>5. enqueue_pos \in enqueue_pos .. dequeue_pos + Capacity - 1
  BY <1>1, <1>4
<1> QED
  BY <1>4, <1>5 DEF RingInv, LockInv, PlacesInv

(* The claimed place passes from the free ones to the waiting ones.        *)
LEMMA ClaimKeepsLock ==
    ASSUME RingInv, NEW t \in Senders, Claim(t), enqueue_pos = pos[t]
    PROVE  LockInv'
<1>1. /\ enqueue_pos \in Nat /\ dequeue_pos \in Nat /\ Capacity \in Nat /\ Capacity > 1
      /\ dequeue_pos <= enqueue_pos /\ enqueue_pos <= dequeue_pos + Capacity
      /\ \A u \in Senders : pos[u] \in Nat
  BY Values
<1>2. /\ pc[t] = "claim" /\ pc'[t] = "write" /\ \A u \in Senders \ {t} : pc'[u] = pc[u]
      /\ enqueue_pos' = enqueue_pos + 1
      /\ UNCHANGED <<sequence, dequeue_pos, pos, printer>>
  BY DEF Claim, Goto, reader, RingInv, TypeOK
<1>3. enqueue_pos < dequeue_pos + Capacity /\ sequence[Cell(enqueue_pos)] = enqueue_pos
  BY <1>2, ClaimedCellIsFree
<1>4. \A u \in Senders : pc'[u] \in Producing <=> pc[u] \in Producing \/ u = t
  BY <1>2 DEF Producing
<1>5. PlacesInv'
  <2>1. ASSUME NEW p \in dequeue_pos .. enqueue_pos
        PROVE  \/ sequence[Cell(p)] = p + 1
               \/ \E u \in Senders : pc'[u] \in Producing /\ pos[u] = p
    <3>1. CASE p = enqueue_pos
      BY <1>4, <3>1
    <3>2. CASE p \in dequeue_pos .. enqueue_pos - 1
      BY <1>4, <3>2 DEF RingInv, LockInv, PlacesInv
    <3> QED
      BY <1>1, <3>1, <3>2
  <2>2. ASSUME NEW p \in enqueue_pos + 1 .. dequeue_pos + Capacity - 1
        PROVE  sequence[Cell(p)] = p
    <3>1. p \in enqueue_pos .. dequeue_pos + Capacity - 1
      BY <1>1
    <3> QED
      BY <3>1 DEF RingInv, LockInv, PlacesInv
  <2>3. enqueue_pos' - 1 = enqueue_pos /\ enqueue_pos' <= dequeue_pos + Capacity
        /\ dequeue_pos <= enqueue_pos'
    BY <1>1, <1>2, <1>3
  <2> QED
    BY <1>2, <2>1, <2>2, <2>3 DEF PlacesInv, Cell
<1>6. OwnersInv'
  <2>1. ASSUME NEW u \in Senders, pc'[u] \in Producing
        PROVE  /\ dequeue_pos <= pos[u] /\ pos[u] < enqueue_pos + 1
               /\ sequence[Cell(pos[u])] = pos[u]
               /\ u # t => pos[u] < enqueue_pos
    <3>1. CASE u = t
      BY <1>1, <1>3, <3>1
    <3>2. CASE u # t
      BY <1>1, <1>4, <2>1, <3>2 DEF RingInv, LockInv, OwnersInv
    <3> QED
      BY <3>1, <3>2
  <2>2. ASSUME NEW u \in Senders, NEW v \in Senders, u # v, pc'[u] \in Producing, pc'[v] \in Producing
        PROVE  pos[u] # pos[v]
    BY <1>1, <1>4, <2>1, <2>2 DEF RingInv, LockInv, OwnersInv
  <2>3. printer \in {"read", "free"} => sequence[Cell(dequeue_pos)] = dequeue_pos + 1
    BY DEF RingInv, LockInv, OwnersInv
  <2> QED
    BY <1>2, <2>1, <2>2, <2>3 DEF OwnersInv, Cell
<1>7. SeenInv'
  BY <1>2 DEF RingInv, LockInv, SeenInv, Cell
<1> QED
  BY <1>5, <1>6, <1>7 DEF LockInv

(* A sender hands its cell on to the printer.                              *)
LEMMA PublishKeepsLock ==
    ASSUME RingInv, NEW t \in Senders, Publish(t)
    PROVE  LockInv'
<1> DEFINE next == [sequence EXCEPT ![Cell(pos[t])] = pos[t] + 1]
<1>1. /\ enqueue_pos \in Nat /\ dequeue_pos \in Nat /\ Capacity \in Nat /\ Capacity > 1
      /\ dequeue_pos <= enqueue_pos /\ enqueue_pos <= dequeue_pos + Capacity
      /\ \A u \in Senders : pos[u] \in Nat
      /\ \A p \in Nat : Cell(p) \in 0..Capacity - 1 /\ sequence[Cell(p)] \in Nat
  BY Values
<1>2. /\ pc[t] = "publish" /\ pc'[t] = "count" /\ \A u \in Senders \ {t} : pc'[u] = pc[u]
      /\ sequence' = next
      /\ UNCHANGED <<enqueue_pos, dequeue_pos, pos, printer>>
  BY DEF Publish, Goto, reader, RingInv, TypeOK
<1>3. /\ pos[t] \in Nat /\ dequeue_pos <= pos[t] /\ pos[t] < enqueue_pos
      /\ sequence[Cell(pos[t])] = pos[t]
      /\ pos[t] \in dequeue_pos .. dequeue_pos + Capacity - 1
  BY <1>1, <1>2, OwnersApart DEF RingInv, LockInv, OwnersInv, Producing
<1>4. \A u \in Senders : pc'[u] \in Producing <=> pc[u] \in Producing /\ u # t
  BY <1>2 DEF Producing
<1>5. /\ next[Cell(pos[t])] = pos[t] + 1
      /\ \A p \in Nat : Cell(p) # Cell(pos[t]) => next[Cell(p)] = sequence[Cell(p)]
  <2>1. sequence \in [0..Capacity - 1 -> Nat]
    BY Values
  <2>2. Cell(pos[t]) \in 0..Capacity - 1 /\ \A p \in Nat : Cell(p) \in 0..Capacity - 1
    BY <1>1, <1>3
  <2> QED
    BY ONLY <2>1, <2>2 DEF next
<1> HIDE DEF next
<1>6. PlacesInv'
  <2>1. ASSUME NEW p \in dequeue_pos .. dequeue_pos + Capacity - 1, p # pos[t]
        PROVE  next[Cell(p)] = sequence[Cell(p)]
    <3>1. Cell(p) # Cell(pos[t]) /\ p \in Nat
      BY <1>1, <1>3, <2>1, PlacesApart DEF RingInv
    <3> QED
      BY <1>5, <3>1
  <2>2. ASSUME NEW p \in dequeue_pos .. enqueue_pos - 1
        PROVE  \/ next[Cell(p)] = p + 1
               \/ \E u \in Senders : pc'[u] \in Producing /\ pos[u] = p
    <3>1. CASE p = pos[t]
      BY <1>5, <3>1
    <3>2. CASE p # pos[t]
      <4>1. p \in dequeue_pos .. dequeue_pos + Capacity - 1
        BY <1>1
      <4> QED
        BY <1>4, <2>1, <3>2, <4>1 DEF RingInv, LockInv, PlacesInv
    <3> QED
      BY <3>1, <3>2
  <2>3. ASSUME NEW p \in enqueue_pos .. dequeue_pos + Capacity - 1
        PROVE  next[Cell(p)] = p
    <3>1. p \in dequeue_pos .. dequeue_pos + Capacity - 1 /\ p # pos[t]
      BY <1>1, <1>3
    <3> QED
      BY <2>1, <3>1 DEF RingInv, LockInv, PlacesInv
  <2> QED
    BY <1>1, <1>2, <2>2, <2>3 DEF PlacesInv, Cell
<1>7. OwnersInv'
  <2>1. ASSUME NEW u \in Senders, pc'[u] \in Producing
        PROVE  pc[u] \in Producing /\ next[Cell(pos[u])] = sequence[Cell(pos[u])]
    <3>1. pc[u] \in Producing /\ pc[t] \in Producing /\ u # t
      BY <1>2, <1>4, <2>1 DEF Producing
    <3>2. Cell(pos[u]) # Cell(pos[t]) /\ pos[u] \in Nat
      BY <1>1, <3>1, OwnersApart
    <3> QED
      BY <1>5, <3>1, <3>2
  <2>2. printer \in {"read", "free"} => next[Cell(dequeue_pos)] = dequeue_pos + 1
    <3>1. printer \in {"read", "free"} => Cell(pos[t]) # Cell(dequeue_pos)
      BY <1>2, OwnersApart DEF Producing
    <3> QED
      BY <1>1, <1>5, <3>1 DEF RingInv, LockInv, OwnersInv
  <2> QED
    BY <1>2, <2>1, <2>2 DEF OwnersInv, Cell, RingInv, LockInv
<1>8. SeenInv'
  <2>1. ASSUME NEW u \in Senders, pc'[u] = "claim" PROVE next[Cell(pos[u])] >= pos[u]
    <3>1. sequence[Cell(pos[u])] >= pos[u] /\ pos[u] \in Nat
      BY <1>1, <1>2, <2>1 DEF RingInv, LockInv, SeenInv
    <3>2. CASE Cell(pos[u]) = Cell(pos[t])
      BY <1>3, <1>5, <3>1, <3>2
    <3>3. CASE Cell(pos[u]) # Cell(pos[t])
      BY <1>5, <3>1, <3>3
    <3> QED
      BY <3>2, <3>3
  <2> QED
    BY <1>2, <2>1 DEF SeenInv, Cell
<1> QED
  BY <1>6, <1>7, <1>8 DEF LockInv

(* The printer frees its cell for the next lap and moves on.               *)
LEMMA FreeKeepsLock ==
    ASSUME RingInv, Free
    PROVE  LockInv'
<1> DEFINE place == dequeue_pos + Capacity
           next == [sequence EXCEPT ![Cell(dequeue_pos)] = place]
<1>1. /\ enqueue_pos \in Nat /\ dequeue_pos \in Nat /\ Capacity \in Nat /\ Capacity > 1
      /\ dequeue_pos <= enqueue_pos /\ enqueue_pos <= dequeue_pos + Capacity
      /\ \A u \in Senders : pos[u] \in Nat
      /\ \A p \in Nat : Cell(p) \in 0..Capacity - 1 /\ sequence[Cell(p)] \in Nat
  BY Values
<1>2. /\ printer = "free" /\ printer' \notin {"read", "free"}
      /\ sequence' = next /\ dequeue_pos' = dequeue_pos + 1
      /\ UNCHANGED <<enqueue_pos, pc, pos>>
  BY DEF Free
<1>3. sequence[Cell(dequeue_pos)] = dequeue_pos + 1 /\ dequeue_pos < enqueue_pos
  <2>1. messages_enqueued \in Nat /\ dequeue_pos < messages_enqueued
    BY <1>2 DEF RingInv, CountInv, TypeOK
  <2>2. messages_enqueued <= enqueue_pos
    BY <2>1, FS_CardinalityType DEF RingInv, CountInv
  <2> QED
    BY <1>1, <1>2, <2>1, <2>2 DEF RingInv, LockInv, OwnersInv
<1>4. /\ next[Cell(dequeue_pos)] = place
      /\ \A p \in Nat : Cell(p) # Cell(dequeue_pos) => next[Cell(p)] = sequence[Cell(p)]
  <2>1. sequence \in [0..Capacity - 1 -> Nat]
    BY Values
  <2>2. Cell(dequeue_pos) \in 0..Capacity - 1 /\ \A p \in Nat : Cell(p) \in 0..Capacity - 1
    BY <1>1
  <2> QED
    BY ONLY <2>1, <2>2 DEF next
<1>5. place \in Nat /\ place > dequeue_pos + 1 /\ Cell(place) = Cell(dequeue_pos)
  BY <1>1, CellsOfPositions
<1>6. dequeue_pos \in dequeue_pos .. dequeue_pos + Capacity - 1
  BY <1>1
<1> HIDE DEF next
<1>7. ASSUME NEW p \in dequeue_pos .. dequeue_pos + Capacity - 1, p # dequeue_pos
      PROVE  next[Cell(p)] = sequence[Cell(p)]
  <2>1. Cell(p) # Cell(dequeue_pos) /\ p \in Nat
    BY <1>1, <1>6, <1>7, PlacesApart DEF RingInv
  <2> QED
    BY <1>4, <2>1
<1>8. PlacesInv'
  <2>1. ASSUME NEW p \in dequeue_pos + 1 .. enqueue_pos - 1
        PROVE  \/ next[Cell(p)] = p + 1
               \/ \E u \in Senders : pc'[u] \in Producing /\ pos[u] = p
    <3>1. /\ p \in dequeue_pos .. enqueue_pos - 1 /\ p # dequeue_pos
          /\ p \in dequeue_pos .. dequeue_pos + Capacity - 1
      BY <1>1
    <3> QED
      BY <1>2, <1>7, <3>1 DEF RingInv, LockInv, PlacesInv
  <2>2. ASSUME NEW p \in enqueue_pos .. place PROVE next[Cell(p)] = p
    <3>1. CASE p = place
      BY <1>4, <1>5, <3>1
    <3>2. CASE p # place
      <4>1. /\ p \in enqueue_pos .. dequeue_pos + Capacity - 1 /\ p # dequeue_pos
            /\ p \in dequeue_pos .. dequeue_pos + Capacity - 1
        BY <1>1, <1>3, <3>2
      <4> QED
        BY <1>7, <4>1 DEF RingInv, LockInv, PlacesInv
    <3> QED
      BY <3>1, <3>2
  <2>3. /\ dequeue_pos' + Capacity - 1 = place
        /\ dequeue_pos' <= enqueue_pos /\ enqueue_pos <= dequeue_pos' + Capacity
    BY <1>1, <1>2, <1>3
  <2> QED
    BY <1>2, <2>1, <2>2, <2>3 DEF PlacesInv, Cell
<1>9. OwnersInv'
  <2>1. ASSUME NEW u \in Senders, pc[u] \in Producing
        PROVE  /\ dequeue_pos + 1 <= pos[u] /\ pos[u] < enqueue_pos
               /\ next[Cell(pos[u])] = pos[u]
    <3>1. /\ dequeue_pos <= pos[u] /\ pos[u] < enqueue_pos /\ sequence[Cell(pos[u])] = pos[u]
          /\ pos[u] \in Nat
      BY <1>1, <2>1 DEF RingInv, LockInv, OwnersInv
    <3>2. pos[u] # dequeue_pos
      BY <1>1, <1>3, <3>1
    <3>3. Cell(pos[u]) # Cell(dequeue_pos)
      BY <1>2, <2>1, OwnersApart
    <3> QED
      BY <1>1, <1>4, <3>1, <3>2, <3>3, SMTT(30)
  <2>2. \A u, v \in Senders : pc[u] \in Producing /\ pc[v] \in Producing /\ u # v => pos[u] # pos[v]
    BY DEF RingInv, LockInv, OwnersInv
  <2> QED
    BY <1>2, <2>1, <2>2 DEF OwnersInv, Cell
<1>10. SeenInv'
  <2>1. ASSUME NEW u \in Senders, pc[u] = "claim" PROVE next[Cell(pos[u])] >= pos[u]
    <3>1. sequence[Cell(pos[u])] >= pos[u] /\ pos[u] \in Nat
      BY <1>1, <2>1 DEF RingInv, LockInv, SeenInv
    <3>2. CASE Cell(pos[u]) = Cell(dequeue_pos)
      BY <1>1, <1>3, <1>4, <1>5, <3>1, <3>2
    <3>3. CASE Cell(pos[u]) # Cell(dequeue_pos)
      BY <1>4, <3>1, <3>3
    <3> QED
      BY <3>2, <3>3
  <2> QED
    BY <1>2, <2>1 DEF SeenInv, Cell
<1> QED
  BY <1>8, <1>9, <1>10 DEF LockInv

(* Every step keeps the ring's discipline.                                 *)
LEMMA LockStep ==
    ASSUME RingInv, [Next]_vars
    PROVE  LockInv'
<1>1. /\ pc \in [Senders -> Labels] /\ \A p \in Nat : sequence[Cell(p)] \in Nat
      /\ pos \in [Senders -> Nat]
      /\ printer \in {"read", "free"} => sequence[Cell(dequeue_pos)] = dequeue_pos + 1
  BY Values DEF RingInv, TypeOK, LockInv, OwnersInv
<1>2. \A t \in Senders : pc[t] = "claim" => sequence[Cell(pos[t])] >= pos[t]
  BY DEF RingInv, LockInv, SeenInv
<1> USE DEF Goto, ring, reader, Producing
<1>3. ASSUME LocalStep PROVE LockInv'
  BY <1>3, LocalStepKeepsLock
<1>4. CASE UNCHANGED vars
  BY <1>1, <1>2, <1>3, <1>4 DEF vars, LocalStep
<1>5. ASSUME NEW t \in Senders, Sender(t) PROVE LockInv'
  <2>1. CASE Send(t) \/ Retry(t) \/ Write(t) \/ Count(t) \/ Notify(t)
    <3>1. /\ UNCHANGED <<sequence, enqueue_pos, dequeue_pos>>
          /\ \A u \in Senders : u # t => pc'[u] = pc[u] /\ pos'[u] = pos[u]
          /\ pc'[t] # "claim" /\ (pc'[t] \in Producing <=> pc[t] \in Producing)
          /\ pc[t] \in Producing => pos'[t] = pos[t]
          /\ printer' \in {"read", "free"} => printer \in {"read", "free"}
      BY <1>1, <2>1 DEF Send, Retry, Write, Count, Notify
    <3> QED
      BY <1>1, <1>2, <1>3, <3>1 DEF LocalStep
  <2>2. CASE Look(t)
    <3>1. /\ UNCHANGED <<sequence, enqueue_pos, dequeue_pos, pos, printer>>
          /\ \A u \in Senders : u # t => pc'[u] = pc[u]
          /\ pc[t] = "look" /\ pc'[t] \in {"claim", "retry"}
          /\ pc'[t] = "claim" => sequence[Cell(pos[t])] = pos[t]
      BY <1>1, <2>2 DEF Look
    <3>2. pc'[t] = "claim" => sequence[Cell(pos[t])] >= pos[t]
      BY <1>1, <3>1
    <3>3. LocalStep
      BY <1>1, <1>2, <3>1, <3>2 DEF LocalStep
    <3> QED
      BY <1>3, <3>3
  <2>3. CASE Claim(t) /\ enqueue_pos = pos[t]
    BY <2>3, ClaimKeepsLock
  <2>4. CASE Claim(t) /\ enqueue_pos # pos[t]
    <3>1. /\ UNCHANGED <<sequence, enqueue_pos, dequeue_pos, printer>>
          /\ \A u \in Senders : u # t => pc'[u] = pc[u] /\ pos'[u] = pos[u]
          /\ pc[t] = "claim" /\ pc'[t] = "look"
      BY <1>1, <2>4 DEF Claim
    <3> QED
      BY <1>1, <1>2, <1>3, <3>1 DEF LocalStep
  <2>5. CASE Publish(t)
    BY <2>5, PublishKeepsLock
  <2> QED
    BY <1>5, <2>1, <2>2, <2>3, <2>4, <2>5 DEF Sender
<1>6. CASE Load \/ Wait \/ Dequeue \/ Read
  <2>1. /\ UNCHANGED <<sequence, enqueue_pos, dequeue_pos, pc, pos>>
        /\ printer' \in {"read", "free"} => sequence[Cell(dequeue_pos)] = dequeue_pos + 1
    BY <1>1, <1>6 DEF Load, Wait, Dequeue, Read
  <2> QED
    BY <1>2, <1>3, <2>1 DEF LocalStep
<1>7. CASE Free
  BY <1>7, FreeKeepsLock
<1> QED
  BY <1>4, <1>5, <1>6, <1>7 DEF Next, Printer, Joined

(* The counter stays behind the claims by exactly the senders on their way.*)
LEMMA CountStep ==
    ASSUME RingInv, [Next]_vars
    PROVE  CountInv'
<1>1. /\ pc \in [Senders -> Labels]
      /\ enqueue_pos \in Nat /\ dequeue_pos \in Nat /\ messages_enqueued \in Nat
      /\ processed = dequeue_pos
      /\ IsFiniteSet(Active) /\ Cardinality(Active) \in Nat
      /\ enqueue_pos = messages_enqueued + Cardinality(Active)
      /\ dequeue_pos <= messages_enqueued
      /\ printer \in {"dequeue", "read", "free"} => dequeue_pos < messages_enqueued
  BY FS_CardinalityType DEF RingInv, TypeOK, CountInv
<1> USE DEF Goto, ring, reader
<1>2. ASSUME Active' = Active, UNCHANGED <<enqueue_pos, dequeue_pos, messages_enqueued>>,
             printer' \in {"dequeue", "read", "free"} => dequeue_pos < messages_enqueued
      PROVE  CountInv'
  BY <1>1, <1>2 DEF CountInv
<1>3. CASE UNCHANGED vars
  BY <1>1, <1>2, <1>3 DEF vars, Active
<1>4. ASSUME NEW t \in Senders, Sender(t) PROVE CountInv'
  <2>1. CASE Send(t) \/ Look(t) \/ Retry(t) \/ Write(t) \/ Publish(t) \/ Notify(t)
             \/ (Claim(t) /\ enqueue_pos # pos[t])
    <3>1. /\ UNCHANGED <<enqueue_pos, dequeue_pos, messages_enqueued>>
          /\ \A u \in Senders : u # t => pc'[u] = pc[u]
          /\ pc'[t] \in Uncounted <=> pc[t] \in Uncounted
          /\ printer' \in {"dequeue", "read", "free"} => printer \in {"dequeue", "read", "free"}
      BY <1>1, <2>1 DEF Send, Look, Retry, Write, Publish, Notify, Claim, Uncounted
    <3>2. Active' = Active
      BY <3>1 DEF Active
    <3> QED
      BY <1>1, <1>2, <3>1, <3>2
  <2>2. CASE Claim(t) /\ enqueue_pos = pos[t]
    <3>1. /\ UNCHANGED <<dequeue_pos, messages_enqueued, printer>> /\ enqueue_pos' = enqueue_pos + 1
          /\ \A u \in Senders : u # t => pc'[u] = pc[u]
          /\ pc'[t] \in Uncounted /\ pc[t] \notin Uncounted
      BY <1>1, <2>2 DEF Claim, Uncounted
    <3>2. Active' = Active \cup {t} /\ t \notin Active
      BY <3>1 DEF Active
    <3>3. IsFiniteSet(Active') /\ Cardinality(Active') = Cardinality(Active) + 1
      BY <1>1, <3>2, FS_AddElement
    <3> QED
      BY <1>1, <3>1, <3>3 DEF CountInv
  <2>3. CASE Count(t)
    <3>1. /\ UNCHANGED <<enqueue_pos, dequeue_pos, printer>>
          /\ messages_enqueued' = messages_enqueued + 1
          /\ \A u \in Senders : u # t => pc'[u] = pc[u]
          /\ pc'[t] \notin Uncounted /\ pc[t] \in Uncounted
      BY <1>1, <2>3 DEF Count, Uncounted
    <3>2. Active' = Active \ {t} /\ t \in Active
      BY <3>1 DEF Active
    <3>3. IsFiniteSet(Active') /\ Cardinality(Active') = Cardinality(Active) - 1
      BY <1>1, <3>2, FS_RemoveElement
    <3> QED
      BY <1>1, <3>1, <3>3 DEF CountInv
  <2> QED
    BY <1>4, <2>1, <2>2, <2>3 DEF Sender
<1>5. CASE Load \/ Wait \/ Dequeue \/ Read
  <2>1. UNCHANGED <<pc, enqueue_pos, dequeue_pos, messages_enqueued>>
    BY <1>5 DEF Load, Wait, Dequeue, Read
  <2>2. printer' \in {"dequeue", "read", "free"} => dequeue_pos < messages_enqueued
    BY <1>1, <1>5 DEF Load, Wait, Dequeue, Read
  <2> QED
    BY <1>2, <2>1, <2>2 DEF Active
<1>6. CASE Free
  <2>1. /\ UNCHANGED <<pc, enqueue_pos, messages_enqueued>> /\ dequeue_pos' = dequeue_pos + 1
        /\ dequeue_pos < messages_enqueued /\ printer' \in {"load", "exited"}
    BY <1>1, <1>6 DEF Free
  <2>2. Active' = Active
    BY <2>1 DEF Active
  <2> QED
    BY <1>1, <2>1, <2>2 DEF CountInv
<1> QED
  BY <1>3, <1>4, <1>5, <1>6 DEF Next, Printer, Joined

-----------------------------------------------------------------------------
(* The messages.                                                           *)

(* A step that changes neither the ring nor the claims, and only what one  *)
(* sender does.                                                            *)
LEMMA SenderStepKeepsData ==
    ASSUME DataInv, NEW t \in Senders,
           UNCHANGED <<ring, claims, event, printed>>,
           \A u \in Senders : u # t => pc'[u] = pc[u] /\ pos'[u] = pos[u] /\ sent'[u] = sent[u],
           pc'[t] \in Claimed => pc[t] \in Claimed /\ pos'[t] = pos[t] /\ sent'[t] = sent[t],
           pc'[t] # "publish",
           printer' = "free" => printer = "free"
    PROVE  DataInv'
<1> USE DEF ring
<1>1. ASSUME NEW u \in Senders, pc'[u] \in Claimed
      PROVE  pc[u] \in Claimed /\ pos'[u] = pos[u] /\ sent'[u] = sent[u]
  BY <1>1
<1>2. \A u \in Senders : pc'[u] = "publish" => pc[u] = "publish" /\ pos'[u] = pos[u]
  OBVIOUS
<1> QED
  BY <1>1, <1>2 DEF DataInv, Message, Cell

(* Every step keeps claims, cells, the reader's copy and the output alike. *)
LEMMA DataStep ==
    ASSUME ProgressInv, TypeOK', [Next]_vars
    PROVE  DataInv'
<1>1. /\ enqueue_pos \in Nat /\ dequeue_pos \in Nat /\ Capacity \in Nat /\ Capacity > 1
      /\ dequeue_pos <= enqueue_pos /\ enqueue_pos <= dequeue_pos + Capacity
      /\ \A u \in Senders : pos[u] \in Nat
      /\ \A p \in Nat : Cell(p) \in 0..Capacity - 1 /\ sequence[Cell(p)] \in Nat
  BY Values DEF ProgressInv
<1>2. /\ pc \in [Senders -> Labels] /\ pos \in [Senders -> Nat] /\ sent \in [Senders -> Nat]
      /\ sequence \in [0..Capacity - 1 -> Nat]
      /\ data \in [0..Capacity - 1 -> Events \cup {NoEvent}]
      /\ claims \in Seq(Events) /\ Len(claims) = enqueue_pos
      /\ printed \in Seq(Events) /\ Len(printed) = dequeue_pos
      /\ \A u \in Senders : Message(u) \in Events
  <2>1. TypeOK
    BY DEF ProgressInv, RingInv
  <2>2. \A u \in Senders : sent[u] + 1 \in Nat
    BY <2>1 DEF TypeOK
  <2> QED
    BY <2>1, <2>2 DEF TypeOK, Message, Events
<1>3. RingInv /\ DataInv /\ OwnersInv /\ TypeOK
  BY DEF ProgressInv, RingInv, LockInv
<1>4. dequeue_pos \in dequeue_pos .. dequeue_pos + Capacity - 1
  BY <1>1
<1>5. CASE UNCHANGED vars
  BY <1>3, <1>5 DEF vars, ring, reader, DataInv, Message, Cell
<1>6. ASSUME NEW t \in Senders, Sender(t) PROVE DataInv'
  <2>1. CASE Send(t) \/ Look(t) \/ Retry(t) \/ Count(t) \/ Notify(t)
             \/ (Claim(t) /\ enqueue_pos # pos[t])
    <3>1. /\ UNCHANGED <<ring, claims, event, printed>>
          /\ \A u \in Senders : u # t => pc'[u] = pc[u] /\ pos'[u] = pos[u] /\ sent'[u] = sent[u]
          /\ pc'[t] \in Claimed => pc[t] \in Claimed /\ pos'[t] = pos[t] /\ sent'[t] = sent[t]
          /\ pc'[t] # "publish"
          /\ printer' = "free" => printer = "free"
      BY <1>2, <2>1 DEF Send, Look, Retry, Count, Notify, Claim, Goto, Claimed, ring, reader
    <3> QED
      BY <1>3, <3>1, SenderStepKeepsData
  <2>2. CASE Claim(t) /\ enqueue_pos = pos[t]
    <3>1. /\ claims' = Append(claims, Message(t)) /\ enqueue_pos' = enqueue_pos + 1
          /\ UNCHANGED <<sequence, data, dequeue_pos, pos, sent, printer, event, printed>>
          /\ pc[t] = "claim" /\ pc'[t] = "write" /\ \A u \in Senders : u # t => pc'[u] = pc[u]
      BY <1>2, <2>2 DEF Claim, Goto, reader
    <3>2. /\ \A i \in 1..Len(claims) : claims'[i] = claims[i]
          /\ claims'[Len(claims) + 1] = Message(t)
      <4>1. claims \in Seq(Events) /\ Message(t) \in Events
        BY <1>2
      <4> QED
        BY <3>1, <4>1, AppendProperties
    <3>0. Len(claims) = enqueue_pos /\ enqueue_pos \in Nat /\ \A u \in Senders : pos[u] \in Nat
      BY <1>1, <1>2
    <3>3. ASSUME NEW u \in Senders, pc'[u] \in Claimed
          PROVE  pos[u] < enqueue_pos + 1 /\ claims'[pos[u] + 1] = Message(u)
      <4>1. CASE u = t
        BY <1>1, <1>2, <2>2, <3>2, <4>1
      <4>2. CASE u # t
        <5>1. pos[u] < enqueue_pos /\ claims[pos[u] + 1] = Message(u)
          BY <1>3, <3>1, <3>3, <4>2 DEF DataInv
        <5>2. pos[u] + 1 \in 1..Len(claims) /\ pos[u] < enqueue_pos + 1
          BY ONLY <3>0, <5>1, u \in Senders
        <5>3. claims'[pos[u] + 1] = claims[pos[u] + 1]
          BY ONLY <3>2, <5>2
        <5> QED
          BY <5>1, <5>2, <5>3
      <4> QED
        BY <4>1, <4>2
    <3>4. ASSUME NEW u \in Senders, pc'[u] = "publish"
          PROVE  data[Cell(pos[u])] = claims'[pos[u] + 1]
      <4>1. pos[u] < enqueue_pos /\ data[Cell(pos[u])] = claims[pos[u] + 1]
        BY <1>3, <3>1, <3>4 DEF DataInv, Claimed
      <4>2. pos[u] + 1 \in 1..Len(claims)
        BY ONLY <3>0, <4>1, u \in Senders
      <4>3. claims'[pos[u] + 1] = claims[pos[u] + 1]
        BY ONLY <3>2, <4>2
      <4> QED
        BY <4>1, <4>3
    <3>5. ASSUME NEW p \in dequeue_pos .. enqueue_pos, sequence[Cell(p)] = p + 1
          PROVE  data[Cell(p)] = claims'[p + 1]
      <4>1. sequence[Cell(enqueue_pos)] = enqueue_pos
        BY <1>3, <2>2, <3>1, ClaimedCellIsFree
      <4>2. p # enqueue_pos
        BY <1>1, <3>5, <4>1
      <4>3. p \in dequeue_pos .. enqueue_pos - 1 /\ p + 1 \in 1..Len(claims)
        BY ONLY <1>1, <3>0, <4>2, p \in dequeue_pos .. enqueue_pos
      <4> QED
        BY <1>3, <3>2, <3>5, <4>3 DEF DataInv
    <3>6. printer = "free" => event = claims'[dequeue_pos + 1]
      <4>1. ASSUME printer = "free" PROVE dequeue_pos + 1 \in 1..Len(claims)
        <5>1. messages_enqueued \in Nat /\ dequeue_pos < messages_enqueued
              /\ messages_enqueued <= enqueue_pos
          <6>1. messages_enqueued \in Nat /\ enqueue_pos \in Nat
            BY <1>3 DEF RingInv, TypeOK
          <6>2. dequeue_pos < messages_enqueued
            BY <1>3, <4>1 DEF RingInv, CountInv
          <6>3. messages_enqueued <= enqueue_pos
            BY <1>3, <6>1, FS_CardinalityType DEF RingInv, CountInv
          <6> QED
            BY <6>1, <6>2, <6>3
        <5> QED
          BY <1>1, <1>2, <5>1
      <4> QED
        BY <1>3, <3>2, <4>1 DEF DataInv
    <3>7. \A i \in 1..dequeue_pos : printed[i] = claims'[i]
      <4>1. \A i \in 1..dequeue_pos : i \in 1..Len(claims)
        BY <1>1, <1>2
      <4> QED
        BY <1>3, <3>2, <4>1 DEF DataInv
    <3>8. enqueue_pos' - 1 = enqueue_pos
      BY <1>1, <3>1
    <3> QED
      BY <3>1, <3>3, <3>4, <3>5, <3>6, <3>7, <3>8 DEF DataInv, Message, Cell
  <2>3. CASE Write(t)
    <3>1. /\ data' = [data EXCEPT ![Cell(pos[t])] = Message(t)]
          /\ UNCHANGED <<sequence, enqueue_pos, dequeue_pos, pos, sent, claims, printer, event, printed>>
          /\ pc[t] = "write" /\ pc'[t] = "publish" /\ \A u \in Senders : u # t => pc'[u] = pc[u]
      BY <1>2, <2>3 DEF Write, Goto, reader
    <3>2. /\ pos[t] \in Nat /\ pos[t] < enqueue_pos /\ claims[pos[t] + 1] = Message(t)
          /\ sequence[Cell(pos[t])] = pos[t] /\ pc[t] \in Producing
          /\ pos[t] \in dequeue_pos .. dequeue_pos + Capacity - 1
      BY <1>1, <1>3, <3>1, OwnersApart DEF DataInv, OwnersInv, Claimed, Producing
    <3>3. /\ data'[Cell(pos[t])] = claims[pos[t] + 1]
          /\ \A p \in Nat : Cell(p) # Cell(pos[t]) => data'[Cell(p)] = data[Cell(p)]
      BY <1>1, <1>2, <3>1, <3>2
    <3>4. ASSUME NEW p \in dequeue_pos .. enqueue_pos - 1, sequence[Cell(p)] = p + 1
          PROVE  data'[Cell(p)] = claims[p + 1]
      <4>1. p # pos[t] /\ p \in dequeue_pos .. dequeue_pos + Capacity - 1 /\ p \in Nat
        BY <1>1, <3>2, <3>4
      <4>2. Cell(p) # Cell(pos[t])
        BY <1>3, <3>2, <4>1, PlacesApart
      <4> QED
        BY <1>3, <3>3, <3>4, <4>1, <4>2 DEF DataInv
    <3>5. ASSUME NEW u \in Senders, pc'[u] = "publish"
          PROVE  data'[Cell(pos[u])] = claims[pos[u] + 1]
      <4>1. CASE u = t
        BY <3>3, <4>1
      <4>2. CASE u # t
        <5>1. pc[u] = "publish" /\ Cell(pos[u]) # Cell(pos[t]) /\ pos[u] \in Nat
          BY <1>1, <1>3, <3>1, <3>2, <3>5, <4>2, OwnersApart DEF Producing
        <5> QED
          BY <1>3, <3>3, <5>1 DEF DataInv
      <4> QED
        BY <4>1, <4>2
    <3>6. \A u \in Senders : pc'[u] \in Claimed => pc[u] \in Claimed
      BY <3>1 DEF Claimed
    <3> QED
      BY <1>3, <3>1, <3>4, <3>5, <3>6 DEF DataInv, Message, Cell
  <2>4. CASE Publish(t)
    <3>1. /\ sequence' = [sequence EXCEPT ![Cell(pos[t])] = pos[t] + 1]
          /\ UNCHANGED <<data, enqueue_pos, dequeue_pos, pos, sent, claims, printer, event, printed>>
          /\ pc[t] = "publish" /\ pc'[t] = "count" /\ \A u \in Senders : u # t => pc'[u] = pc[u]
      BY <1>2, <2>4 DEF Publish, Goto, reader
    <3>2. /\ pos[t] \in Nat /\ data[Cell(pos[t])] = claims[pos[t] + 1]
          /\ pos[t] \in dequeue_pos .. dequeue_pos + Capacity - 1
      BY <1>1, <1>3, <3>1, OwnersApart DEF DataInv, Producing
    <3>3. \A p \in Nat : Cell(p) # Cell(pos[t]) => sequence'[Cell(p)] = sequence[Cell(p)]
      BY <1>1, <1>2, <3>1, <3>2
    <3>4. ASSUME NEW p \in dequeue_pos .. enqueue_pos - 1, sequence'[Cell(p)] = p + 1
          PROVE  data[Cell(p)] = claims[p + 1]
      <4>1. CASE p = pos[t]
        BY <3>2, <4>1
      <4>2. CASE p # pos[t]
        <5>1. p \in dequeue_pos .. dequeue_pos + Capacity - 1 /\ p \in Nat
          BY <1>1
        <5>2. Cell(p) # Cell(pos[t])
          BY <1>3, <3>2, <4>2, <5>1, PlacesApart
        <5> QED
          BY <1>3, <3>3, <3>4, <5>1, <5>2 DEF DataInv
      <4> QED
        BY <4>1, <4>2
    <3>5. \A u \in Senders : /\ pc'[u] \in Claimed => pc[u] \in Claimed
                             /\ pc'[u] = "publish" => pc[u] = "publish"
      BY <3>1 DEF Claimed
    <3> QED
      BY <1>3, <3>1, <3>4, <3>5 DEF DataInv, Message, Cell
  <2> QED
    BY <1>6, <2>1, <2>2, <2>3, <2>4 DEF Sender
<1>7. CASE Load \/ Wait \/ Dequeue
  <2>1. UNCHANGED <<ring, pc, pos, sent, claims, event, printed>> /\ printer' # "free"
    BY <1>7 DEF Load, Wait, Dequeue
  <2> QED
    BY <1>3, <2>1 DEF DataInv, Message, ring, Cell
<1>8. CASE Read
  <2>1. /\ UNCHANGED <<ring, pc, pos, sent, claims, printed>> /\ printer = "read"
        /\ event' = data[Cell(dequeue_pos)]
    BY <1>8 DEF Read
  <2>2. data[Cell(dequeue_pos)] = claims[dequeue_pos + 1]
    <3>1. sequence[Cell(dequeue_pos)] = dequeue_pos + 1
      BY <1>3, <2>1 DEF OwnersInv
    <3>2. messages_enqueued \in Nat /\ dequeue_pos < messages_enqueued
          /\ messages_enqueued <= enqueue_pos
      <4>1. messages_enqueued \in Nat /\ enqueue_pos \in Nat
        BY <1>3 DEF RingInv, TypeOK
      <4>2. dequeue_pos < messages_enqueued
        BY <1>3, <2>1 DEF RingInv, CountInv
      <4>3. messages_enqueued <= enqueue_pos
        BY <1>3, <4>1, FS_CardinalityType DEF RingInv, CountInv
      <4> QED
        BY <4>1, <4>2, <4>3
    <3>3. dequeue_pos \in dequeue_pos .. enqueue_pos - 1
      BY <1>1, <3>2
    <3> QED
      BY <1>3, <3>1, <3>3 DEF DataInv
  <2> QED
    BY <1>3, <2>1, <2>2 DEF DataInv, Message, ring, Cell
<1>9. CASE Free
  <2> DEFINE place == dequeue_pos + Capacity
  <2>1. /\ UNCHANGED <<data, enqueue_pos, pc, pos, sent, claims>>
        /\ printer = "free" /\ printer' # "free" /\ dequeue_pos' = dequeue_pos + 1
        /\ sequence' = [sequence EXCEPT ![Cell(dequeue_pos)] = place]
        /\ printed' = Append(printed, event)
    BY <1>9 DEF Free
  <2>2. messages_enqueued \in Nat /\ dequeue_pos < messages_enqueued
        /\ messages_enqueued <= enqueue_pos
    BY <1>3, <2>1, FS_CardinalityType DEF RingInv, CountInv, TypeOK
  <2>3. event = claims[dequeue_pos + 1] /\ event \in Events
    <3>1. event = claims[dequeue_pos + 1]
      BY <1>3, <2>1 DEF DataInv
    <3>2. dequeue_pos + 1 \in 1..Len(claims)
      BY <1>1, <1>2, <2>2
    <3>3. claims \in Seq(Events)
      BY <1>2
    <3> QED
      BY ONLY <3>1, <3>2, <3>3, ElementOfSeq
  <2>4. \A i \in 1..dequeue_pos + 1 : printed'[i] = claims[i]
    <3>1. printed \in Seq(Events) /\ Len(printed) = dequeue_pos
      BY <1>2
    <3>2. /\ \A i \in 1..dequeue_pos : printed'[i] = printed[i]
          /\ printed'[dequeue_pos + 1] = event
      BY <2>1, <2>3, <3>1, AppendProperties
    <3>3. \A i \in 1..dequeue_pos + 1 : i \in 1..dequeue_pos \/ i = dequeue_pos + 1
      BY <1>1
    <3> QED
      BY <1>3, <2>3, <3>2, <3>3 DEF DataInv
  <2>5. ASSUME NEW p \in dequeue_pos + 1 .. enqueue_pos - 1, sequence'[Cell(p)] = p + 1
        PROVE  data[Cell(p)] = claims[p + 1]
    <3>1. /\ p \in dequeue_pos .. dequeue_pos + Capacity - 1 /\ p # dequeue_pos /\ p \in Nat
          /\ p \in dequeue_pos .. enqueue_pos - 1
      BY <1>1
    <3>2. Cell(p) # Cell(dequeue_pos)
      BY <1>3, <1>4, <3>1, PlacesApart
    <3>3. sequence'[Cell(p)] = sequence[Cell(p)]
      BY <1>1, <1>2, <2>1, <3>1, <3>2
    <3> QED
      BY <1>3, <2>5, <3>1, <3>3 DEF DataInv
  <2> QED
    BY <1>3, <2>1, <2>4, <2>5 DEF DataInv, Message, Cell
<1> QED
  BY <1>5, <1>6, <1>7, <1>8, <1>9 DEF Next, Printer, Joined

(* Once the pill has its position, nobody claims another.                  *)
LEMMA NothingAfterThePill ==
    ASSUME ProgressInv, NEW t \in Senders, pc[t] = "claim"
    PROVE  ~MainClaimed
<1>1. PillInv /\ sent[Main] \in Nat /\ Main \in Senders
  BY DEF ProgressInv, RingInv, TypeOK, Senders
<1>2. CASE t = Main
  BY <1>1, <1>2 DEF PillInv, Quota, MainClaimed, Claimed
<1>3. CASE t # Main
  <2>1. t \in Workers
    BY <1>3 DEF Senders
  <2>2. ~MainBegun
    BY <1>1, <2>1 DEF PillInv
  <2> QED
    BY <2>2 DEF MainBegun, MainClaimed, Claimed
<1> QED
  BY <1>2, <1>3

(* Every step keeps the pill last, and every sent message claimed.         *)
LEMMA PillStep ==
    ASSUME ProgressInv, TypeOK', [Next]_vars
    PROVE  PillInv'
<1>1. /\ enqueue_pos \in Nat /\ dequeue_pos \in Nat
      /\ \A u \in Senders : pos[u] \in Nat
  BY Values DEF ProgressInv
<1>2. /\ pc \in [Senders -> Labels] /\ sent \in [Senders -> Nat] /\ pos \in [Senders -> Nat]
      /\ Main \in Senders /\ Main \notin Workers /\ Senders = Workers \cup {Main}
      /\ Messages \in Nat
  BY MainAssumption, CapacityAssumption DEF ProgressInv, RingInv, TypeOK, Senders
<1>3. RingInv /\ DataInv /\ PillInv /\ TypeOK
  BY DEF ProgressInv, RingInv
<1>4. CASE UNCHANGED vars
  BY <1>3, <1>4 DEF vars, ring, reader, PillInv, MainBegun, MainClaimed
<1> DEFINE Others(t) == \A u \in Senders : u # t => pc'[u] = pc[u] /\ sent'[u] = sent[u]
<1>5. ASSUME NEW t \in Senders, Sender(t) PROVE PillInv'
  <2>1. CASE Send(t)
    <3>1. /\ UNCHANGED <<enqueue_pos, dequeue_pos, claims, sent, printer>>
          /\ pc[t] = "idle" /\ pc'[t] = "look" /\ MaySend(t) /\ Others(t)
      BY <1>2, <2>1 DEF Send, Goto, ring, reader
    <3>2. sent[t] < Quota(t) /\ (t = Main => \A w \in Workers : sent[w] = Messages /\ pc[w] = "idle")
      BY <3>1 DEF MaySend
    <3>3. \A u \in Senders : sent[u] <= Quota(u) /\ (pc'[u] # "idle" => sent[u] < Quota(u))
      BY <1>3, <3>1, <3>2 DEF PillInv
    <3>4. ASSUME pc'[Main] # "idle" \/ sent[Main] > 0
          PROVE  \A w \in Workers : sent[w] = Messages /\ pc'[w] = "idle"
      <4>1. CASE t = Main
        BY <1>2, <3>1, <3>2, <4>1
      <4>2. CASE t # Main
        <5>1. MainBegun
          BY <1>2, <3>1, <3>4, <4>2 DEF MainBegun
        <5>2. t \in Workers /\ Quota(t) = Messages
          BY <1>2, <4>2 DEF Quota
        <5>3. sent[t] = Messages
          BY <1>3, <5>1, <5>2 DEF PillInv
        <5> QED
          BY <1>2, <3>2, <5>2, <5>3
      <4> QED
        BY <4>1, <4>2
    <3>5. MainClaimed => MainClaimed'
      BY <1>2, <3>1 DEF MainClaimed, Claimed
    <3> QED
      BY <1>3, <3>1, <3>3, <3>4, <3>5 DEF PillInv, MainBegun
  <2>2. CASE \/ Look(t) \/ Retry(t) \/ Write(t) \/ Publish(t) \/ Count(t)
             \/ (Claim(t) /\ enqueue_pos # pos[t])
    <3>1. /\ UNCHANGED <<enqueue_pos, dequeue_pos, claims, sent, printer>>
          /\ pc[t] # "idle" /\ pc'[t] # "idle" /\ Others(t)
          /\ pc[t] \in Claimed => pc'[t] \in Claimed
      BY <1>2, <2>2
         DEF Look, Retry, Write, Publish, Count, Claim, Goto, ring, reader, Claimed
    <3>2. MainClaimed => MainClaimed'
      BY <1>2, <3>1 DEF MainClaimed
    <3>3. MainBegun' => MainBegun
      BY <1>2, <3>1 DEF MainBegun
    <3>4. \A u \in Senders : pc'[u] = "idle" <=> pc[u] = "idle"
      BY <3>1
    <3>5. \A w \in Workers : pc[w] = "idle" => pc'[w] = "idle"
      BY <1>2, <3>4
    <3> QED
      BY <1>3, <3>1, <3>2, <3>3, <3>4, <3>5 DEF PillInv
  <2>3. CASE Claim(t) /\ enqueue_pos = pos[t]
    <3>1. /\ claims' = Append(claims, Message(t)) /\ enqueue_pos' = enqueue_pos + 1
          /\ UNCHANGED <<dequeue_pos, sent, printer>>
          /\ pc[t] = "claim" /\ pc'[t] = "write" /\ Others(t)
      BY <1>2, <2>3 DEF Claim, Goto, reader
    <3>2. /\ \A i \in 1..enqueue_pos : claims'[i] = claims[i]
          /\ claims'[enqueue_pos + 1] = Message(t)
      <4>1. sent[t] + 1 \in Nat
        BY <1>2
      <4>2. Message(t) \in Events /\ claims \in Seq(Events) /\ Len(claims) = enqueue_pos
        BY <1>3, <4>1 DEF TypeOK, Message, Events
      <4> QED
        BY <3>1, <4>2, AppendProperties
    <3>3. ~MainClaimed
      BY <3>1, NothingAfterThePill
    <3>4. ASSUME NEW i \in 1..enqueue_pos + 1, claims'[i] = Pill
          PROVE  i = enqueue_pos + 1 /\ MainClaimed'
      <4>1. i = enqueue_pos + 1
        <5>1. i \in 1..enqueue_pos \/ i = enqueue_pos + 1
          BY <1>1
        <5> QED
          BY <1>3, <3>2, <3>3, <3>4, <5>1 DEF PillInv
      <4>2. Message(t) = Pill
        BY <3>2, <3>4, <4>1
      <4>3. t = Main
        BY <4>2 DEF Message, Pill
      <4> QED
        BY <3>1, <4>1, <4>3 DEF MainClaimed, Claimed
    <3>5. ASSUME NEW u \in Senders, NEW n \in 1..sent[u]
          PROVE  \E i \in 1..enqueue_pos + 1 : claims'[i] = <<u, n>>
      <4>1. PICK i \in 1..enqueue_pos : claims[i] = <<u, n>>
        BY <1>3 DEF PillInv
      <4>2. i \in 1..enqueue_pos + 1
        BY <1>1
      <4> QED
        BY <3>2, <4>1, <4>2
    <3>6. printer # "exited"
      BY <1>3, <3>3 DEF PillInv
    <3>7. \A u \in Senders : pc'[u] = "idle" <=> pc[u] = "idle"
      BY <3>1
    <3>8. MainBegun' => MainBegun
      BY <1>2, <3>1, <3>7 DEF MainBegun
    <3>9. \A w \in Workers : pc[w] = "idle" => pc'[w] = "idle"
      BY <1>2, <3>7
    <3> QED
      BY <1>3, <3>1, <3>4, <3>5, <3>6, <3>7, <3>8, <3>9 DEF PillInv
  <2>4. CASE Notify(t)
    <3>1. /\ UNCHANGED <<enqueue_pos, dequeue_pos, claims>>
          /\ pc[t] = "notify" /\ pc'[t] = "idle" /\ sent'[t] = sent[t] + 1 /\ Others(t)
          /\ printer' = "exited" => printer = "exited"
      BY <1>2, <2>4 DEF Notify, Goto, ring
    <3>2. \A u \in Senders : sent'[u] <= Quota(u) /\ (pc'[u] # "idle" => sent'[u] < Quota(u))
      <4>1. sent[t] < Quota(t) /\ Quota(t) \in Nat /\ sent[t] \in Nat
        BY <1>2, <1>3, <3>1 DEF PillInv, Quota
      <4>2. sent'[t] <= Quota(t)
        BY <3>1, <4>1
      <4> QED
        BY <1>3, <3>1, <4>2 DEF PillInv
    <3>3. MainClaimed => MainClaimed'
      BY <1>2, <3>1 DEF MainClaimed
    <3>4. ASSUME MainBegun' PROVE \A w \in Workers : sent'[w] = Messages /\ pc'[w] = "idle"
      <4>1. MainBegun
        BY <1>2, <3>1, <3>4 DEF MainBegun
      <4>2. \A w \in Workers : sent[w] = Messages /\ pc[w] = "idle"
        BY <1>3, <4>1 DEF PillInv
      <4> QED
        BY <1>2, <3>1, <4>2
    <3>5. ASSUME NEW u \in Senders, NEW n \in 1..sent'[u]
          PROVE  \E i \in 1..enqueue_pos : claims[i] = <<u, n>>
      <4>1. CASE u = t /\ n = sent[t] + 1
        <5>1. pos[t] < enqueue_pos /\ claims[pos[t] + 1] = <<t, n>>
          BY <1>3, <3>1, <4>1 DEF DataInv, Claimed, Message
        <5>2. pos[t] + 1 \in 1..enqueue_pos
          BY <1>1, <5>1
        <5> QED
          BY <4>1, <5>1, <5>2
      <4>2. CASE ~(u = t /\ n = sent[t] + 1)
        <5>1. n \in 1..sent[u]
          BY <1>2, <3>1, <4>2
        <5> QED
          BY <1>3, <5>1 DEF PillInv
      <4> QED
        BY <4>1, <4>2
    <3> QED
      BY <1>3, <3>1, <3>2, <3>3, <3>4, <3>5 DEF PillInv
  <2> QED
    BY <1>5, <2>1, <2>2, <2>3, <2>4 DEF Sender
<1>6. CASE Load \/ Wait \/ Dequeue \/ Read
  <2>1. /\ UNCHANGED <<enqueue_pos, dequeue_pos, claims, pc, sent>>
        /\ printer' # "exited"
    BY <1>6 DEF Load, Wait, Dequeue, Read, ring
  <2> QED
    BY <1>3, <2>1 DEF PillInv, MainBegun, MainClaimed
<1>7. CASE Free
  <2>1. /\ UNCHANGED <<enqueue_pos, claims, pc, sent>> /\ dequeue_pos' = dequeue_pos + 1
        /\ printer = "free" /\ (printer' = "exited" => event = Pill)
    BY <1>7 DEF Free
  <2>2. ASSUME event = Pill PROVE dequeue_pos + 1 = enqueue_pos /\ MainClaimed
    <3>1. messages_enqueued \in Nat /\ dequeue_pos < messages_enqueued
          /\ messages_enqueued <= enqueue_pos
      <4>1. messages_enqueued \in Nat /\ enqueue_pos \in Nat
        BY <1>3 DEF RingInv, TypeOK
      <4>2. dequeue_pos < messages_enqueued
        BY <1>3, <2>1 DEF RingInv, CountInv
      <4>3. messages_enqueued <= enqueue_pos
        BY <1>3, <4>1, FS_CardinalityType DEF RingInv, CountInv
      <4> QED
        BY <4>1, <4>2, <4>3
    <3>2. claims[dequeue_pos + 1] = Pill /\ dequeue_pos + 1 \in 1..enqueue_pos
      BY <1>1, <1>3, <2>1, <2>2, <3>1 DEF DataInv
    <3> QED
      BY <1>3, <3>2 DEF PillInv
  <2> QED
    BY <1>3, <2>1, <2>2 DEF PillInv, MainBegun, MainClaimed
<1> QED
  BY <1>4, <1>5, <1>6, <1>7 DEF Next, Printer, Joined

-----------------------------------------------------------------------------
(* What follows.                                                           *)

(* The invariant holds throughout.                                         *)
LEMMA ProgressInvariant == Spec => []ProgressInv
<1>1. ASSUME Init PROVE ProgressInv
  <2>1. /\ Capacity \in Nat /\ Capacity > 1 /\ \A i \in 0..Capacity - 1 : Cell(i) = i
        /\ Messages \in Nat /\ Main \in Senders
    BY CellsOfPositions, CapacityAssumption DEF Senders
  <2>2. TypeOK
    BY <1>1, <2>1 DEF Init, TypeOK, Labels
  <2>3. LockInv
    BY <1>1, <2>1 DEF Init, LockInv, PlacesInv, OwnersInv, SeenInv, Producing
  <2>4. CountInv
    <3>1. Active = {}
      BY <1>1 DEF Init, Active, Uncounted
    <3> QED
      BY <1>1, <3>1, FS_EmptySet DEF Init, CountInv
  <2>5. DataInv
    BY <1>1 DEF Init, DataInv, Claimed
  <2>6. PillInv
    BY <1>1, <2>1 DEF Init, PillInv, MainBegun, MainClaimed, Claimed, Quota
  <2> QED
    BY <2>2, <2>3, <2>4, <2>5, <2>6 DEF ProgressInv, RingInv
<1>2. ASSUME ProgressInv, [Next]_vars PROVE ProgressInv'
  <2>1. TypeOK'
    BY <1>2, TypeOKStep
  <2>2. LockInv' /\ CountInv'
    BY <1>2, LockStep, CountStep DEF ProgressInv
  <2>3. DataInv' /\ PillInv'
    BY <1>2, <2>1, DataStep, PillStep
  <2> QED
    BY <2>1, <2>2, <2>3 DEF ProgressInv, RingInv
<1> QED
  BY <1>1, <1>2, PTL DEF Spec

(* Messages are handled in the order of their claims, unchanged, and the   *)
(* progress thread ends only when every worker's are: the pill is last.    *)
THEOREM NoMessageLost == Spec => []NothingLost
<1>1. ASSUME ProgressInv PROVE NothingLost
  <2>1. /\ claims \in Seq(Events) /\ Len(claims) = enqueue_pos
        /\ printed \in Seq(Events) /\ Len(printed) = dequeue_pos
        /\ enqueue_pos \in Nat /\ dequeue_pos \in Nat /\ dequeue_pos <= enqueue_pos
        /\ DOMAIN printed = 1..dequeue_pos
    BY <1>1, LenProperties DEF ProgressInv, RingInv, LockInv, PlacesInv, TypeOK
  <2>2. \A i \in 1..dequeue_pos : printed[i] = claims[i]
    BY <1>1 DEF ProgressInv, DataInv
  <2>3. printed = SubSeq(claims, 1, Len(printed))
    <3> DEFINE s == SubSeq(claims, 1, dequeue_pos)
    <3>1. \A i \in 1..dequeue_pos : claims[i] \in Events
      BY <2>1, ElementOfSeq
    <3>2. /\ s \in Seq(Events)
          /\ Len(s) = IF 1 <= dequeue_pos THEN dequeue_pos - 1 + 1 ELSE 0
          /\ \A i \in 1..dequeue_pos - 1 + 1 : s[i] = claims[1 + i - 1]
      BY <2>1, <3>1, SubSeqProperties
    <3> HIDE DEF s
    <3>3. Len(s) = dequeue_pos
      BY <2>1, <3>2
    <3>4. ASSUME NEW i \in 1..dequeue_pos PROVE printed[i] = s[i]
      <4>1. i \in 1..dequeue_pos - 1 + 1 /\ 1 + i - 1 = i
        BY <2>1
      <4> QED
        BY <2>2, <3>2, <4>1
    <3>5. printed = s
      BY <2>1, <3>2, <3>3, <3>4, SeqEqual
    <3> QED
      BY <2>1, <3>5 DEF s
  <2>4. ASSUME printer = "exited"
        PROVE  /\ printed = claims
               /\ \A w \in Workers, n \in 1..Messages : \E i \in DOMAIN printed : printed[i] = <<w, n>>
    <3>1. dequeue_pos = enqueue_pos /\ MainClaimed
      BY <1>1, <2>4 DEF ProgressInv, PillInv
    <3>2. printed = claims
      BY <2>1, <2>2, <3>1, SeqEqual
    <3>3. \A w \in Workers : sent[w] = Messages
      BY <1>1, <3>1 DEF ProgressInv, PillInv, MainBegun, MainClaimed, Claimed
    <3>4. ASSUME NEW w \in Workers, NEW n \in 1..Messages
          PROVE  \E i \in DOMAIN printed : printed[i] = <<w, n>>
      <4>1. w \in Senders /\ n \in 1..sent[w]
        BY <3>3 DEF Senders
      <4>2. PICK i \in 1..enqueue_pos : claims[i] = <<w, n>>
        BY <1>1, <4>1 DEF ProgressInv, PillInv
      <4> QED
        BY <2>1, <3>1, <3>2, <4>2
    <3> QED
      BY <3>2, <3>4
  <2> QED
    BY <2>3, <2>4 DEF NothingLost
<1> QED
  BY <1>1, ProgressInvariant, PTL

(* The consumer reads its cell while no sender writes it, although it      *)
(* keeps its position and the data without any atomic.                     *)
THEOREM ReaderNeverDisturbed == Spec => []ReaderUndisturbed
<1>1. ASSUME ProgressInv PROVE ReaderUndisturbed
  BY <1>1, OwnersApart DEF ProgressInv, ReaderUndisturbed, Producing
<1> QED
  BY <1>1, ProgressInvariant, PTL

(* The consumer tries to take a message only when one is claimed.          *)
THEOREM NoVainDequeue == Spec => []DequeueNotInVain
<1>1. ASSUME ProgressInv PROVE DequeueNotInVain
  <2>1. /\ enqueue_pos \in Nat /\ dequeue_pos \in Nat /\ messages_enqueued \in Nat
        /\ Cardinality(Active) \in Nat /\ enqueue_pos = messages_enqueued + Cardinality(Active)
    BY <1>1, FS_CardinalityType DEF ProgressInv, RingInv, TypeOK, CountInv
  <2>2. printer \in {"dequeue", "read"} => dequeue_pos < messages_enqueued
    BY <1>1 DEF ProgressInv, RingInv, CountInv
  <2> QED
    BY <2>1, <2>2 DEF DequeueNotInVain
<1> QED
  BY <1>1, ProgressInvariant, PTL
=============================================================================
