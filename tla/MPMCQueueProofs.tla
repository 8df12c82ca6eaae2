--------------------------- MODULE MPMCQueueProofs ---------------------------
(***************************************************************************)
(* Proofs about the ring buffer, for any number of threads and items and   *)
(* any ring of at least two cells (with one cell, the number of a full     *)
(* cell is that of a free one, and WithinCapacity does not hold).          *)
(***************************************************************************)
EXTENDS MPMCQueue, RingArithmetic, SequenceTheorems, TLAPS

RingHasTwoCells == Cells \in Nat /\ Cells > 1

(* A queue that is asked for two cells or more has them.                   *)
LEMMA TwoCells ==
    ASSUME Requested > 1
    PROVE  RingHasTwoCells
BY BitCeil, RequestedAssumption DEF RingHasTwoCells, Cells

-----------------------------------------------------------------------------
(* Positions and cells.                                                    *)

(* Positions that are less than a lap apart have different cells, and a    *)
(* cell comes round after one lap.                                         *)
LEMMA CellsOfPositions ==
    ASSUME RingHasTwoCells
    PROVE  /\ \A p \in Nat : Cell(p) \in 0..Cells - 1 /\ Cell(p + Cells) = Cell(p)
           /\ \A i \in 0..Cells - 1 : Cell(i) = i
           /\ \A p, q \in Nat : p < q /\ q < p + Cells => Cell(p) # Cell(q)
<1> DEFINE n == Cells
<1>1. n \in Nat /\ n > 1
  BY DEF RingHasTwoCells
<1> HIDE DEF n
<1>2. /\ \A p \in Nat : p % n \in 0..n - 1 /\ (p + n) % n = p % n
      /\ \A i \in 0..n - 1 : i % n = i
      /\ \A p, q \in Nat : p < q /\ q < p + n => p % n # q % n
  BY <1>1, Laps
<1> QED
  BY <1>2 DEF n, Cell

-----------------------------------------------------------------------------
(* The inductive invariant.                                                *)

Labels == {"idle", "enqueue", "reload", "claim", "write", "publish",
           "dequeue", "refresh", "take", "read", "free", "empty"}
Producing == {"write", "publish"}               \* owns a position that it has claimed
Consuming == {"read", "free"}                   \* owns a position that it has taken
Owning == Producing \cup Consuming
Asking == {"enqueue", "reload", "claim"}         \* has an item and no position for it
EmptyHanded == {"idle", "dequeue", "refresh", "take", "empty"}

TypeOK ==
    /\ sequence \in [0..Cells - 1 -> Nat]
    /\ data \in [0..Cells - 1 -> Items \cup {None}]
    /\ enqueue_pos \in Nat
    /\ dequeue_pos \in Nat
    /\ pc \in [Threads -> Labels]
    /\ pos \in [Threads -> Nat]
    /\ item \in [Threads -> Items \cup {None}]
    /\ \A t \in Threads : pc[t] \in Asking => item[t] \in Items
    /\ claims \in Seq(Items)
    /\ Len(claims) = enqueue_pos

(* The places of waiting items are published, or their producers have      *)
(* still to do it; the places behind them are free, or their consumers     *)
(* have still to free them.                                                *)
PlacesInv ==
    /\ \A p \in dequeue_pos .. enqueue_pos - 1 :
         \/ sequence[Cell(p)] = p + 1
         \/ \E t \in Threads : pc[t] \in Producing /\ pos[t] = p
    /\ \A p \in enqueue_pos .. dequeue_pos + Cells - 1 :
         \/ sequence[Cell(p)] = p
         \/ \E t \in Threads : pc[t] \in Consuming /\ pos[t] + Cells = p

(* Whoever owns a position finds there what it expects, within a lap of    *)
(* everybody else, and alone.                                              *)
OwnersInv ==
    /\ \A t \in Threads : pc[t] \in Producing =>
         /\ dequeue_pos <= pos[t] /\ pos[t] < enqueue_pos
         /\ sequence[Cell(pos[t])] = pos[t]
    /\ \A t \in Threads : pc[t] \in Consuming =>
         /\ pos[t] < dequeue_pos /\ enqueue_pos <= pos[t] + Cells
         /\ sequence[Cell(pos[t])] = pos[t] + 1
    /\ \A t, u \in Threads : pc[t] \in Owning /\ pc[u] \in Owning /\ t # u => pos[t] # pos[u]

(* What a thread has seen in a cell can only have grown.                   *)
SeenInv ==
    \A t \in Threads :
        /\ pc[t] = "claim" => sequence[Cell(pos[t])] >= pos[t]
        /\ pc[t] = "take" => sequence[Cell(pos[t])] >= pos[t] + 1

RingInv == TypeOK /\ WithinCapacity /\ PlacesInv /\ OwnersInv /\ SeenInv

(* An item for which t seeks a position is new, and nobody else's.         *)
NewItem(t) ==
    /\ item[t] # None
    /\ \A i \in 1..Len(claims) : claims[i] # item[t]
    /\ \A u \in Threads : pc[u] \in Asking /\ t # u => item[t] # item[u]

(* Items are claimed once, and each thread has the item it should.         *)
ItemsInv ==
    /\ \A i, j \in 1..Len(claims) : claims[i] = claims[j] => i = j
    /\ \A i \in 1..Len(claims) : claims[i] # None
    /\ \A t \in Threads : pc[t] \in Asking => NewItem(t)
    /\ \A t \in Threads : pc[t] \in Producing \cup {"free"} => item[t] = claims[pos[t] + 1]
    /\ \A t \in Threads : pc[t] \in EmptyHanded => item[t] = None

(* A published cell, or one that is about to be published or read, holds   *)
(* the item that was claimed for its position.                             *)
DataInv ==
    /\ \A p \in dequeue_pos .. enqueue_pos - 1 :
         sequence[Cell(p)] = p + 1 => data[Cell(p)] = claims[p + 1]
    /\ \A t \in Threads : pc[t] \in {"publish", "read"} => data[Cell(pos[t])] = claims[pos[t] + 1]

QueueInv == RingInv /\ ItemsInv /\ DataInv

-----------------------------------------------------------------------------
(* The invariant is preserved.                                             *)

(* Types.                                                                  *)
LEMMA TypeOKStep ==
    ASSUME RingHasTwoCells, TypeOK, [Next]_vars
    PROVE  TypeOK'
<1>0. \A t \in Threads : pos[t] \in Nat
  BY DEF TypeOK
<1> USE DEF TypeOK, Goto, Labels, Asking
<1>1. CASE UNCHANGED vars
  BY <1>1 DEF vars, shared
<1>2. \A p \in Nat : Cell(p) \in 0..Cells - 1
  BY CellsOfPositions
<1>3. ASSUME NEW t \in Threads, Enqueue(t) PROVE TypeOK'
  <2>1. ASSUME NEW x \in Items, EnqueueCall(t, x) PROVE TypeOK'
    BY <2>1 DEF EnqueueCall, shared
  <2>2. CASE EnqueueLook(t)
    BY <2>2 DEF EnqueueLook, shared
  <2>3. CASE EnqueueReload(t)
    BY <2>3 DEF EnqueueReload, shared
  <2>4. CASE EnqueueClaim(t)
    <3>1. /\ item[t] \in Items /\ Append(claims, item[t]) \in Seq(Items)
          /\ Len(Append(claims, item[t])) = Len(claims) + 1
      BY <2>4, AppendProperties DEF EnqueueClaim
    <3> QED
      BY <2>4, <3>1 DEF EnqueueClaim
  <2>5. CASE EnqueueRetry(t)
    BY <2>5 DEF EnqueueRetry, shared
  <2>6. CASE EnqueueWrite(t)
    BY <1>2, <2>6 DEF EnqueueWrite
  <2>7. CASE EnqueuePublish(t)
    <3>1. Cell(pos[t]) \in 0..Cells - 1 /\ pos[t] + 1 \in Nat
      BY ONLY <1>0, <1>2, t \in Threads
    <3> QED
      BY <2>7, <3>1 DEF EnqueuePublish
  <2> QED
    BY <1>3, <2>1, <2>2, <2>3, <2>4, <2>5, <2>6, <2>7 DEF Enqueue
<1>4. ASSUME NEW t \in Threads, Dequeue(t) PROVE TypeOK'
  <2>1. CASE DequeueCall(t)
    BY <2>1 DEF DequeueCall, shared
  <2>2. CASE DequeueLook(t)
    BY <2>2 DEF DequeueLook, shared
  <2>3. CASE DequeueReload(t)
    BY <2>3 DEF DequeueReload, shared
  <2>4. CASE DequeueTake(t)
    BY <2>4 DEF DequeueTake
  <2>5. CASE DequeueRetry(t)
    BY <2>5 DEF DequeueRetry, shared
  <2>6. CASE DequeueRead(t)
    BY <1>2, <2>6 DEF DequeueRead, shared
  <2>7. CASE DequeueFree(t)
    <3>1. Cell(pos[t]) \in 0..Cells - 1 /\ NextLap(pos[t]) \in Nat
      BY ONLY <1>0, <1>2, t \in Threads, RingHasTwoCells DEF NextLap, RingHasTwoCells
    <3> QED
      BY <2>7, <3>1 DEF DequeueFree
  <2>8. CASE DequeueEmpty(t)
    BY <2>8 DEF DequeueEmpty, shared
  <2> QED
    BY <1>4, <2>1, <2>2, <2>3, <2>4, <2>5, <2>6, <2>7, <2>8 DEF Dequeue
<1> QED
  BY <1>1, <1>3, <1>4 DEF Next

(* A step that leaves positions and sequence numbers alone, and with which *)
(* no position changes hands.                                              *)
LocalStep(t) ==
    /\ UNCHANGED <<sequence, enqueue_pos, dequeue_pos>>
    /\ \A u \in Threads : u # t => pc'[u] = pc[u] /\ pos'[u] = pos[u]
    /\ pc[t] \in Producing <=> pc'[t] \in Producing
    /\ pc[t] \in Consuming <=> pc'[t] \in Consuming
    /\ pc[t] \in Owning => pos'[t] = pos[t]
    /\ pc'[t] = "claim" => sequence[Cell(pos'[t])] >= pos'[t]
    /\ pc'[t] = "take" => sequence[Cell(pos'[t])] >= pos'[t] + 1

(* Such a step keeps the invariant of the ring.                            *)
LEMMA LocalStepKeepsRing ==
    ASSUME RingInv, TypeOK', NEW t \in Threads, LocalStep(t)
    PROVE  RingInv'
<1> USE DEF LocalStep, RingInv, Cell
<1>1. WithinCapacity'
  BY DEF WithinCapacity
<1>2. PlacesInv'
  <2>1. \A u \in Threads : /\ pc[u] \in Producing => pc'[u] \in Producing /\ pos'[u] = pos[u]
                           /\ pc[u] \in Consuming => pc'[u] \in Consuming /\ pos'[u] = pos[u]
    BY DEF Owning
  <2> QED
    BY <2>1 DEF PlacesInv
<1>3. OwnersInv'
  <2>1. \A u \in Threads : /\ pc'[u] \in Producing => pc[u] \in Producing /\ pos'[u] = pos[u]
                           /\ pc'[u] \in Consuming => pc[u] \in Consuming /\ pos'[u] = pos[u]
    BY DEF Owning
  <2> QED
    BY <2>1 DEF OwnersInv, Owning
<1>4. SeenInv'
  BY DEF SeenInv
<1> QED
  BY <1>1, <1>2, <1>3, <1>4

(* Owned positions are less than a lap apart, so their cells differ.       *)
LEMMA OwnersApart ==
    ASSUME RingHasTwoCells, RingInv
    PROVE  /\ \A t \in Threads : pc[t] \in Owning =>
                pos[t] \in Nat /\ pos[t] < enqueue_pos /\ enqueue_pos <= pos[t] + Cells
           /\ \A t, u \in Threads : pc[t] \in Owning /\ pc[u] \in Owning /\ t # u =>
                Cell(pos[t]) # Cell(pos[u])
<1>1. \A t \in Threads : pc[t] \in Owning =>
        pos[t] \in Nat /\ pos[t] < enqueue_pos /\ enqueue_pos <= pos[t] + Cells
  <2> SUFFICES ASSUME NEW t \in Threads, pc[t] \in Owning
               PROVE  pos[t] \in Nat /\ pos[t] < enqueue_pos /\ enqueue_pos <= pos[t] + Cells
    OBVIOUS
  <2>1. pos[t] \in Nat /\ enqueue_pos \in Nat /\ dequeue_pos \in Nat /\ Cells \in Nat
    BY DEF RingInv, TypeOK, RingHasTwoCells
  <2>2. dequeue_pos <= enqueue_pos /\ enqueue_pos <= dequeue_pos + Cells
    BY DEF RingInv, WithinCapacity
  <2>3. CASE pc[t] \in Producing
    BY <2>1, <2>2, <2>3 DEF RingInv, OwnersInv
  <2>4. CASE pc[t] \in Consuming
    BY <2>1, <2>2, <2>4 DEF RingInv, OwnersInv
  <2> QED
    BY <2>3, <2>4 DEF Owning
<1>2. ASSUME NEW t \in Threads, NEW u \in Threads, pc[t] \in Owning, pc[u] \in Owning, t # u
      PROVE  Cell(pos[t]) # Cell(pos[u])
  <2>1. pos[t] # pos[u]
    BY <1>2 DEF RingInv, OwnersInv
  <2>2. pos[t] < pos[u] + Cells /\ pos[u] < pos[t] + Cells /\ pos[t] \in Nat /\ pos[u] \in Nat
    <3>1. /\ pos[t] \in Nat /\ pos[t] < enqueue_pos /\ enqueue_pos <= pos[t] + Cells
          /\ pos[u] \in Nat /\ pos[u] < enqueue_pos /\ enqueue_pos <= pos[u] + Cells
      BY <1>1, <1>2
    <3>2. enqueue_pos \in Nat /\ Cells \in Nat
      BY DEF RingHasTwoCells, RingInv, TypeOK
    <3> QED
      BY ONLY <3>1, <3>2
  <2>3. pos[t] < pos[u] \/ pos[u] < pos[t]
    BY <2>1, <2>2
  <2> QED
    BY <2>2, <2>3, CellsOfPositions
<1> QED
  BY <1>1, <1>2

(* The compare-and-swap of an enqueue succeeds only on a free cell.        *)
LEMMA ClaimedCellIsFree ==
    ASSUME RingHasTwoCells, RingInv, NEW t \in Threads, EnqueueClaim(t)
    PROVE  /\ enqueue_pos < dequeue_pos + Cells
           /\ sequence[Cell(enqueue_pos)] = enqueue_pos
           /\ \A u \in Threads : pc[u] \in Consuming => pos[u] + Cells # enqueue_pos
<1>1. /\ enqueue_pos \in Nat /\ dequeue_pos \in Nat /\ Cells \in Nat /\ Cells > 1
      /\ \A u \in Threads : pos[u] \in Nat
  BY DEF RingInv, TypeOK, RingHasTwoCells
<1>2. sequence[Cell(enqueue_pos)] >= enqueue_pos
  BY DEF EnqueueClaim, RingInv, SeenInv
<1>3. dequeue_pos <= enqueue_pos /\ enqueue_pos <= dequeue_pos + Cells
  BY DEF RingInv, WithinCapacity
<1>4. ASSUME NEW u \in Threads, pc[u] \in Consuming, pos[u] + Cells = enqueue_pos PROVE FALSE
  <2>1. sequence[Cell(pos[u])] = pos[u] + 1
    BY <1>4 DEF RingInv, OwnersInv
  <2>2. Cell(enqueue_pos) = Cell(pos[u])
    BY <1>1, <1>4, CellsOfPositions
  <2> QED
    BY <1>1, <1>2, <1>4, <2>1, <2>2
<1>5. ASSUME enqueue_pos = dequeue_pos + Cells PROVE FALSE
  <2>1. dequeue_pos \in dequeue_pos .. enqueue_pos - 1 /\ Cell(enqueue_pos) = Cell(dequeue_pos)
    BY <1>1, <1>5, CellsOfPositions
  <2>2. sequence[Cell(dequeue_pos)] \in {dequeue_pos, dequeue_pos + 1}
    BY <2>1 DEF RingInv, PlacesInv, OwnersInv
  <2> QED
    BY <1>1, <1>2, <1>5, <2>1, <2>2
<1>6. enqueue_pos < dequeue_pos + Cells
  BY <1>1, <1>3, <1>5
<1>7. sequence[Cell(enqueue_pos)] = enqueue_pos
  <2>1. enqueue_pos \in enqueue_pos .. dequeue_pos + Cells - 1
    BY <1>1, <1>6
  <2> QED
    BY <1>4, <2>1 DEF RingInv, PlacesInv
<1> QED
  BY <1>4, <1>6, <1>7

(* The compare-and-swap of a dequeue succeeds only on a published one.     *)
LEMMA TakenCellIsPublished ==
    ASSUME RingHasTwoCells, RingInv, NEW t \in Threads, DequeueTake(t)
    PROVE  /\ dequeue_pos < enqueue_pos
           /\ sequence[Cell(dequeue_pos)] = dequeue_pos + 1
           /\ \A u \in Threads : pc[u] \in Producing => pos[u] # dequeue_pos
<1>1. /\ enqueue_pos \in Nat /\ dequeue_pos \in Nat /\ Cells \in Nat /\ Cells > 1
      /\ \A u \in Threads : pos[u] \in Nat
  BY DEF RingInv, TypeOK, RingHasTwoCells
<1>2. sequence[Cell(dequeue_pos)] >= dequeue_pos + 1
  BY DEF DequeueTake, RingInv, SeenInv
<1>3. dequeue_pos <= enqueue_pos /\ enqueue_pos <= dequeue_pos + Cells
  BY DEF RingInv, WithinCapacity
<1>4. ASSUME NEW u \in Threads, pc[u] \in Producing, pos[u] = dequeue_pos PROVE FALSE
  <2>1. sequence[Cell(dequeue_pos)] = dequeue_pos
    BY <1>4 DEF RingInv, OwnersInv
  <2> QED
    BY <1>1, <1>2, <2>1
<1>5. ASSUME dequeue_pos = enqueue_pos PROVE FALSE
  <2>1. dequeue_pos \in enqueue_pos .. dequeue_pos + Cells - 1
    BY <1>1, <1>5
  <2>2. PICK u \in Threads : pc[u] \in Consuming /\ pos[u] + Cells = dequeue_pos
    BY <1>1, <1>2, <2>1 DEF RingInv, PlacesInv
  <2>3. sequence[Cell(pos[u])] = pos[u] + 1 /\ Cell(dequeue_pos) = Cell(pos[u])
    BY <1>1, <2>2, CellsOfPositions DEF RingInv, OwnersInv
  <2> QED
    BY <1>1, <1>2, <2>2, <2>3
<1>6. dequeue_pos < enqueue_pos
  BY <1>1, <1>3, <1>5
<1>7. sequence[Cell(dequeue_pos)] = dequeue_pos + 1
  <2>1. dequeue_pos \in dequeue_pos .. enqueue_pos - 1
    BY <1>1, <1>6
  <2> QED
    BY <1>4, <2>1 DEF RingInv, PlacesInv
<1> QED
  BY <1>4, <1>6, <1>7

(* The claimed place passes from the free ones to the waiting ones.        *)
LEMMA ClaimKeepsRing ==
    ASSUME RingHasTwoCells, RingInv, TypeOK', NEW t \in Threads, EnqueueClaim(t)
    PROVE  RingInv'
<1>1. /\ enqueue_pos \in Nat /\ dequeue_pos \in Nat /\ Cells \in Nat /\ Cells > 1
      /\ \A u \in Threads : pos[u] \in Nat
  BY DEF RingInv, TypeOK, RingHasTwoCells
<1>2. /\ pc[t] = "claim" /\ pc'[t] = "write" /\ \A u \in Threads \ {t} : pc'[u] = pc[u]
      /\ pos[t] = enqueue_pos /\ enqueue_pos' = enqueue_pos + 1
      /\ UNCHANGED <<sequence, dequeue_pos, pos>>
  BY DEF EnqueueClaim, Goto, RingInv, TypeOK, Asking
<1>3. /\ enqueue_pos < dequeue_pos + Cells
      /\ sequence[Cell(enqueue_pos)] = enqueue_pos
      /\ \A u \in Threads : pc[u] \in Consuming => pos[u] + Cells # enqueue_pos
  BY ClaimedCellIsFree
<1>4. /\ \A u \in Threads : pc'[u] \in Producing <=> pc[u] \in Producing \/ u = t
      /\ \A u \in Threads : pc'[u] \in Consuming <=> pc[u] \in Consuming
      /\ pc[t] \notin Owning
  BY <1>2 DEF Producing, Consuming, Owning
<1>5. WithinCapacity'
  BY <1>1, <1>2, <1>3 DEF RingInv, WithinCapacity
<1>6. PlacesInv'
  <2>1. ASSUME NEW p \in dequeue_pos .. enqueue_pos
        PROVE  \/ sequence[Cell(p)] = p + 1
               \/ \E u \in Threads : pc'[u] \in Producing /\ pos[u] = p
    <3>1. CASE p = enqueue_pos
      BY <1>2, <1>4, <3>1
    <3>2. CASE p \in dequeue_pos .. enqueue_pos - 1
      BY <1>4, <3>2 DEF RingInv, PlacesInv
    <3> QED
      BY <1>1, <3>1, <3>2
  <2>2. ASSUME NEW p \in enqueue_pos + 1 .. dequeue_pos + Cells - 1
        PROVE  \/ sequence[Cell(p)] = p
               \/ \E u \in Threads : pc'[u] \in Consuming /\ pos[u] + Cells = p
    <3>1. p \in enqueue_pos .. dequeue_pos + Cells - 1
      BY <1>1
    <3> QED
      BY <1>4, <3>1 DEF RingInv, PlacesInv
  <2> QED
    BY <1>1, <1>2, <2>1, <2>2 DEF PlacesInv, Cell
<1>7. OwnersInv'
  <2>1. ASSUME NEW u \in Threads, pc'[u] \in Producing
        PROVE  /\ dequeue_pos <= pos[u] /\ pos[u] < enqueue_pos + 1
               /\ sequence[Cell(pos[u])] = pos[u]
    <3>1. CASE u = t
      BY <1>1, <1>2, <1>3, <3>1 DEF RingInv, WithinCapacity
    <3>2. CASE u # t
      BY <1>1, <1>4, <2>1, <3>2 DEF RingInv, OwnersInv
    <3> QED
      BY <3>1, <3>2
  <2>2. ASSUME NEW u \in Threads, pc'[u] \in Consuming
        PROVE  /\ pos[u] < dequeue_pos /\ enqueue_pos + 1 <= pos[u] + Cells
               /\ sequence[Cell(pos[u])] = pos[u] + 1
    <3>1. pc[u] \in Consuming
      BY <1>4, <2>2
    <3>2. /\ pos[u] < dequeue_pos /\ enqueue_pos <= pos[u] + Cells
          /\ sequence[Cell(pos[u])] = pos[u] + 1
      BY <3>1 DEF RingInv, OwnersInv
    <3> QED
      BY <1>1, <1>3, <3>1, <3>2
  <2>3. ASSUME NEW u \in Threads, NEW v \in Threads, u # v,
               pc'[u] \in Owning, pc'[v] \in Owning
        PROVE  pos[u] # pos[v]
    <3>1. \A w \in Threads \ {t} : pc'[w] \in Owning => pc[w] \in Owning /\ pos[w] < enqueue_pos
      BY <1>2, OwnersApart
    <3> QED
      BY <1>1, <1>2, <2>3, <3>1 DEF RingInv, OwnersInv
  <2> QED
    BY <1>2, <2>1, <2>2, <2>3 DEF OwnersInv, Cell
<1>8. SeenInv'
  BY <1>2 DEF RingInv, SeenInv, Cell
<1> QED
  BY <1>5, <1>6, <1>7, <1>8 DEF RingInv

(* The taken place becomes one of the next lap, still to be freed.         *)
LEMMA TakeKeepsRing ==
    ASSUME RingHasTwoCells, RingInv, TypeOK', NEW t \in Threads, DequeueTake(t)
    PROVE  RingInv'
<1>1. /\ enqueue_pos \in Nat /\ dequeue_pos \in Nat /\ Cells \in Nat /\ Cells > 1
      /\ \A u \in Threads : pos[u] \in Nat
  BY DEF RingInv, TypeOK, RingHasTwoCells
<1>2. /\ pc[t] = "take" /\ pc'[t] = "read" /\ \A u \in Threads \ {t} : pc'[u] = pc[u]
      /\ pos[t] = dequeue_pos /\ dequeue_pos' = dequeue_pos + 1
      /\ UNCHANGED <<sequence, enqueue_pos, pos>>
  BY DEF DequeueTake, Goto, RingInv, TypeOK
<1>3. /\ dequeue_pos < enqueue_pos
      /\ sequence[Cell(dequeue_pos)] = dequeue_pos + 1
      /\ \A u \in Threads : pc[u] \in Producing => pos[u] # dequeue_pos
  BY TakenCellIsPublished
<1>4. /\ \A u \in Threads : pc'[u] \in Producing <=> pc[u] \in Producing
      /\ \A u \in Threads : pc'[u] \in Consuming <=> pc[u] \in Consuming \/ u = t
      /\ pc[t] \notin Owning
  BY <1>2 DEF Producing, Consuming, Owning
<1>5. dequeue_pos <= enqueue_pos /\ enqueue_pos <= dequeue_pos + Cells
  BY DEF RingInv, WithinCapacity
<1>6. WithinCapacity'
  BY <1>1, <1>2, <1>3, <1>5 DEF WithinCapacity
<1>7. PlacesInv'
  <2>1. ASSUME NEW p \in dequeue_pos + 1 .. enqueue_pos - 1
        PROVE  \/ sequence[Cell(p)] = p + 1
               \/ \E u \in Threads : pc'[u] \in Producing /\ pos[u] = p
    <3>1. p \in dequeue_pos .. enqueue_pos - 1
      BY <1>1
    <3> QED
      BY <1>4, <3>1 DEF RingInv, PlacesInv
  <2>2. ASSUME NEW p \in enqueue_pos .. dequeue_pos + Cells
        PROVE  \/ sequence[Cell(p)] = p
               \/ \E u \in Threads : pc'[u] \in Consuming /\ pos[u] + Cells = p
    <3>1. CASE p = dequeue_pos + Cells
      BY <1>2, <1>4, <3>1
    <3>2. CASE p \in enqueue_pos .. dequeue_pos + Cells - 1
      BY <1>4, <3>2 DEF RingInv, PlacesInv
    <3> QED
      BY <1>1, <3>1, <3>2
  <2>3. dequeue_pos' + Cells - 1 = dequeue_pos + Cells
    BY <1>1, <1>2
  <2> QED
    BY <1>2, <2>1, <2>2, <2>3 DEF PlacesInv, Cell
<1>8. OwnersInv'
  <2>1. ASSUME NEW u \in Threads, pc'[u] \in Producing
        PROVE  /\ dequeue_pos + 1 <= pos[u] /\ pos[u] < enqueue_pos
               /\ sequence[Cell(pos[u])] = pos[u]
    <3>1. pc[u] \in Producing
      BY <1>4, <2>1
    <3>2. /\ dequeue_pos <= pos[u] /\ pos[u] < enqueue_pos
          /\ sequence[Cell(pos[u])] = pos[u]
      BY <3>1 DEF RingInv, OwnersInv
    <3> QED
      BY <1>1, <1>3, <3>1, <3>2
  <2>2. ASSUME NEW u \in Threads, pc'[u] \in Consuming
        PROVE  /\ pos[u] < dequeue_pos + 1 /\ enqueue_pos <= pos[u] + Cells
               /\ sequence[Cell(pos[u])] = pos[u] + 1
    <3>1. CASE u = t
      BY <1>1, <1>2, <1>3, <1>5, <3>1
    <3>2. CASE u # t
      BY <1>1, <1>4, <2>2, <3>2 DEF RingInv, OwnersInv
    <3> QED
      BY <3>1, <3>2
  <2>3. ASSUME NEW u \in Threads, NEW v \in Threads, u # v,
               pc'[u] \in Owning, pc'[v] \in Owning
        PROVE  pos[u] # pos[v]
    <3>1. \A w \in Threads \ {t} : pc'[w] \in Owning => pc[w] \in Owning /\ pos[w] # dequeue_pos
      BY <1>1, <1>2, <1>3 DEF Owning, RingInv, OwnersInv
    <3> QED
      BY <1>1, <1>2, <2>3, <3>1 DEF RingInv, OwnersInv
  <2> QED
    BY <1>2, <2>1, <2>2, <2>3 DEF OwnersInv, Cell
<1>9. SeenInv'
  BY <1>2 DEF RingInv, SeenInv, Cell
<1> QED
  BY <1>6, <1>7, <1>8, <1>9 DEF RingInv

(* The places of one lap have different cells.                             *)
LEMMA PlacesApart ==
    ASSUME RingHasTwoCells, RingInv
    PROVE  \A p, q \in dequeue_pos .. dequeue_pos + Cells - 1 : p # q => Cell(p) # Cell(q)
<1>1. dequeue_pos \in Nat /\ Cells \in Nat
  BY DEF RingInv, TypeOK, RingHasTwoCells
<1> SUFFICES ASSUME NEW p \in dequeue_pos .. dequeue_pos + Cells - 1,
                    NEW q \in dequeue_pos .. dequeue_pos + Cells - 1, p # q
             PROVE  Cell(p) # Cell(q)
  OBVIOUS
<1>2. p \in Nat /\ q \in Nat /\ p < q + Cells /\ q < p + Cells /\ (p < q \/ q < p)
  BY <1>1
<1> QED
  BY <1>2, CellsOfPositions

(* A producer hands its cell on to the consumers.                          *)
LEMMA PublishKeepsRing ==
    ASSUME RingHasTwoCells, RingInv, TypeOK', NEW t \in Threads, EnqueuePublish(t)
    PROVE  RingInv'
<1> DEFINE at == pos[t]
           next == [sequence EXCEPT ![Cell(at)] = at + 1]
<1>1. /\ enqueue_pos \in Nat /\ dequeue_pos \in Nat /\ Cells \in Nat /\ Cells > 1
      /\ \A u \in Threads : pos[u] \in Nat
      /\ sequence \in [0..Cells - 1 -> Nat]
  BY DEF RingInv, TypeOK, RingHasTwoCells
<1>2. /\ pc[t] = "publish" /\ pc'[t] = "idle" /\ \A u \in Threads \ {t} : pc'[u] = pc[u]
      /\ sequence' = next
      /\ UNCHANGED <<enqueue_pos, dequeue_pos, pos>>
  BY DEF EnqueuePublish, Goto, RingInv, TypeOK
<1>3. /\ dequeue_pos <= at /\ at < enqueue_pos /\ sequence[Cell(at)] = at /\ at \in Nat
  BY <1>1, <1>2 DEF RingInv, OwnersInv, Producing
<1>4. /\ \A u \in Threads : pc'[u] \in Producing <=> pc[u] \in Producing /\ u # t
      /\ \A u \in Threads : pc'[u] \in Consuming <=> pc[u] \in Consuming
      /\ pc[t] \in Owning
  BY <1>2 DEF Producing, Consuming, Owning
<1>5. dequeue_pos <= enqueue_pos /\ enqueue_pos <= dequeue_pos + Cells
  BY DEF RingInv, WithinCapacity
<1>6. /\ \A p \in Nat : Cell(p) \in 0..Cells - 1
      /\ next[Cell(at)] = at + 1
      /\ \A p \in Nat : Cell(p) # Cell(at) => next[Cell(p)] = sequence[Cell(p)]
      /\ \A p \in Nat : /\ sequence[Cell(p)] \in Nat /\ next[Cell(p)] \in Nat
                        /\ next[Cell(p)] >= sequence[Cell(p)]
  <2>1. \A p \in Nat : Cell(p) \in 0..Cells - 1
    BY CellsOfPositions
  <2>2. at \in Nat /\ sequence[Cell(at)] = at /\ sequence \in [0..Cells - 1 -> Nat]
    BY <1>1, <1>3
  <2> HIDE DEF at
  <2>3. next[Cell(at)] = at + 1
    BY ONLY <2>1, <2>2 DEF next
  <2>4. \A p \in Nat : Cell(p) # Cell(at) => next[Cell(p)] = sequence[Cell(p)]
    BY ONLY <2>1, <2>2 DEF next
  <2>5. \A p \in Nat : sequence[Cell(p)] \in Nat
    BY ONLY <2>1, <2>2
  <2> HIDE DEF next
  <2>6. ASSUME NEW p \in Nat PROVE next[Cell(p)] \in Nat /\ next[Cell(p)] >= sequence[Cell(p)]
    <3>1. CASE Cell(p) = Cell(at)
      BY <2>2, <2>3, <3>1
    <3>2. CASE Cell(p) # Cell(at)
      BY <2>4, <2>5, <3>2
    <3> QED
      BY <3>1, <3>2
  <2> QED
    BY <2>1, <2>3, <2>4, <2>5, <2>6
<1>7. at \in dequeue_pos .. dequeue_pos + Cells - 1
  BY <1>1, <1>3, <1>5, SMTT(30)
<1> HIDE DEF at, next
<1>8. WithinCapacity'
  BY <1>2, <1>5 DEF WithinCapacity
<1>9. PlacesInv'
  <2>1. ASSUME NEW p \in dequeue_pos .. enqueue_pos - 1
        PROVE  \/ next[Cell(p)] = p + 1
               \/ \E u \in Threads : pc'[u] \in Producing /\ pos[u] = p
    <3>1. CASE p = at
      BY <1>6, <3>1
    <3>2. CASE p # at
      <4>1. Cell(p) # Cell(at) /\ p \in Nat
        BY <1>1, <1>5, <1>7, <3>2, PlacesApart
      <4>2. p # pos[t]
        BY <3>2 DEF at
      <4>3. \/ sequence[Cell(p)] = p + 1
            \/ \E u \in Threads : pc[u] \in Producing /\ pos[u] = p
        BY DEF RingInv, PlacesInv
      <4> QED
        BY <1>4, <1>6, <4>1, <4>2, <4>3
    <3> QED
      BY <3>1, <3>2
  <2>2. ASSUME NEW p \in enqueue_pos .. dequeue_pos + Cells - 1
        PROVE  \/ next[Cell(p)] = p
               \/ \E u \in Threads : pc'[u] \in Consuming /\ pos[u] + Cells = p
    <3>1. Cell(p) # Cell(at) /\ p \in Nat
      BY <1>1, <1>3, <1>5, <1>7, PlacesApart
    <3>2. \/ sequence[Cell(p)] = p
          \/ \E u \in Threads : pc[u] \in Consuming /\ pos[u] + Cells = p
      BY DEF RingInv, PlacesInv
    <3> QED
      BY <1>4, <1>6, <3>1, <3>2
  <2> QED
    BY <1>2, <2>1, <2>2 DEF PlacesInv, Cell
<1>10. OwnersInv'
  <2>1. ASSUME NEW u \in Threads, pc'[u] \in Owning
        PROVE  pc[u] \in Owning /\ next[Cell(pos[u])] = sequence[Cell(pos[u])]
    <3>1. pc[u] \in Owning /\ u # t
      BY <1>2, <1>4, <2>1 DEF Owning, Producing, Consuming
    <3>2. Cell(pos[u]) # Cell(at)
      BY <1>4, <3>1, OwnersApart DEF at
    <3> QED
      BY <1>1, <1>6, <3>1, <3>2
  <2>2. \A u \in Threads : pc'[u] \in Producing =>
          dequeue_pos <= pos[u] /\ pos[u] < enqueue_pos /\ next[Cell(pos[u])] = pos[u]
    BY <1>4, <2>1 DEF RingInv, OwnersInv, Owning
  <2>3. \A u \in Threads : pc'[u] \in Consuming =>
          /\ pos[u] < dequeue_pos /\ enqueue_pos <= pos[u] + Cells
          /\ next[Cell(pos[u])] = pos[u] + 1
    BY <1>4, <2>1 DEF RingInv, OwnersInv, Owning
  <2>4. \A u, v \in Threads : pc'[u] \in Owning /\ pc'[v] \in Owning /\ u # v => pos[u] # pos[v]
    BY <2>1 DEF RingInv, OwnersInv
  <2> QED
    BY <1>2, <2>2, <2>3, <2>4 DEF OwnersInv, Cell
<1>11. SeenInv'
  <2>1. \A u \in Threads : pc'[u] \in {"claim", "take"} => pc[u] = pc'[u]
    BY <1>2
  <2>2. \A u \in Threads : /\ sequence[Cell(pos[u])] \in Nat /\ next[Cell(pos[u])] \in Nat
                           /\ next[Cell(pos[u])] >= sequence[Cell(pos[u])]
    BY <1>1, <1>6
  <2>3. ASSUME NEW u \in Threads
        PROVE  /\ pc'[u] = "claim" => next[Cell(pos[u])] >= pos[u]
               /\ pc'[u] = "take" => next[Cell(pos[u])] >= pos[u] + 1
    <3>1. /\ pc'[u] = "claim" => sequence[Cell(pos[u])] >= pos[u]
          /\ pc'[u] = "take" => sequence[Cell(pos[u])] >= pos[u] + 1
      BY <2>1 DEF RingInv, SeenInv
    <3> QED
      <4>1. pos[u] \in Nat
        BY <1>1
      <4> QED
        BY ONLY <2>2, <3>1, <4>1, u \in Threads
  <2> QED
    BY <1>2, <2>3 DEF SeenInv, Cell
<1> QED
  BY <1>8, <1>9, <1>10, <1>11 DEF RingInv
(* A consumer frees its cell for the next lap.                             *)
LEMMA FreeKeepsRing ==
    ASSUME RingHasTwoCells, RingInv, TypeOK', NEW t \in Threads, DequeueFree(t)
    PROVE  RingInv'
<1> DEFINE at == pos[t]
           place == at + Cells
           next == [sequence EXCEPT ![Cell(at)] = place]
<1>1. /\ enqueue_pos \in Nat /\ dequeue_pos \in Nat /\ Cells \in Nat /\ Cells > 1
      /\ \A u \in Threads : pos[u] \in Nat
      /\ sequence \in [0..Cells - 1 -> Nat]
  BY DEF RingInv, TypeOK, RingHasTwoCells
<1>2. /\ pc[t] = "free" /\ pc'[t] = "idle" /\ \A u \in Threads \ {t} : pc'[u] = pc[u]
      /\ sequence' = next
      /\ UNCHANGED <<enqueue_pos, dequeue_pos, pos>>
  BY DEF DequeueFree, NextLap, Goto, RingInv, TypeOK
<1>3. /\ at < dequeue_pos /\ enqueue_pos <= at + Cells /\ sequence[Cell(at)] = at + 1
      /\ at \in Nat /\ place \in Nat /\ place > at + 1
  <2>1. at < dequeue_pos /\ enqueue_pos <= at + Cells /\ sequence[Cell(at)] = at + 1
    BY <1>2 DEF RingInv, OwnersInv, Consuming
  <2>2. at \in Nat /\ Cells \in Nat /\ Cells > 1
    BY <1>1
  <2>3. at + Cells \in Nat /\ at + Cells > at + 1
    BY ONLY <2>2
  <2> QED
    BY <2>1, <2>2, <2>3
<1>4. /\ \A u \in Threads : pc'[u] \in Producing <=> pc[u] \in Producing
      /\ \A u \in Threads : pc'[u] \in Consuming <=> pc[u] \in Consuming /\ u # t
      /\ pc[t] \in Owning
  BY <1>2 DEF Producing, Consuming, Owning
<1>5. dequeue_pos <= enqueue_pos /\ enqueue_pos <= dequeue_pos + Cells
  BY DEF RingInv, WithinCapacity
<1>6. /\ \A p \in Nat : Cell(p) \in 0..Cells - 1
      /\ next[Cell(at)] = place
      /\ \A p \in Nat : Cell(p) # Cell(at) => next[Cell(p)] = sequence[Cell(p)]
      /\ \A p \in Nat : /\ sequence[Cell(p)] \in Nat /\ next[Cell(p)] \in Nat
                        /\ next[Cell(p)] >= sequence[Cell(p)]
  <2>1. \A p \in Nat : Cell(p) \in 0..Cells - 1
    BY CellsOfPositions
  <2>2. at \in Nat /\ place \in Nat /\ sequence[Cell(at)] = at + 1 /\ place > at + 1 /\ sequence \in [0..Cells - 1 -> Nat]
    BY <1>1, <1>3
  <2> HIDE DEF at, place
  <2>3. next[Cell(at)] = place
    BY ONLY <2>1, <2>2 DEF next
  <2>4. \A p \in Nat : Cell(p) # Cell(at) => next[Cell(p)] = sequence[Cell(p)]
    BY ONLY <2>1, <2>2 DEF next
  <2>5. \A p \in Nat : sequence[Cell(p)] \in Nat
    BY ONLY <2>1, <2>2
  <2> HIDE DEF next
  <2>6. ASSUME NEW p \in Nat PROVE next[Cell(p)] \in Nat /\ next[Cell(p)] >= sequence[Cell(p)]
    <3>1. CASE Cell(p) = Cell(at)
      BY <2>2, <2>3, <3>1
    <3>2. CASE Cell(p) # Cell(at)
      BY <2>4, <2>5, <3>2
    <3> QED
      BY <3>1, <3>2
  <2> QED
    BY <2>1, <2>3, <2>4, <2>5, <2>6
<1>7. place \in enqueue_pos .. dequeue_pos + Cells - 1 /\ Cell(place) = Cell(at)
  <2>1. Cell(place) = Cell(at)
    BY <1>3, CellsOfPositions
  <2>2. at \in Nat /\ enqueue_pos <= at + Cells /\ at < dequeue_pos
    BY <1>3
  <2> HIDE DEF at
  <2> QED
    BY ONLY <1>1, <2>1, <2>2 DEF place
<1> HIDE DEF at, place, next
<1>8. WithinCapacity'
  BY <1>2, <1>5 DEF WithinCapacity
<1>9. PlacesInv'
  <2>1. ASSUME NEW p \in dequeue_pos .. enqueue_pos - 1
        PROVE  \/ next[Cell(p)] = p + 1
               \/ \E u \in Threads : pc'[u] \in Producing /\ pos[u] = p
    <3>1. /\ p \in dequeue_pos .. dequeue_pos + Cells - 1 /\ p \in Nat
          /\ place \in dequeue_pos .. dequeue_pos + Cells - 1 /\ p # place
      BY <1>1, <1>5, <1>7
    <3>2. Cell(p) # Cell(at)
      BY <1>7, <3>1, PlacesApart
    <3>3. \/ sequence[Cell(p)] = p + 1
          \/ \E u \in Threads : pc[u] \in Producing /\ pos[u] = p
      BY DEF RingInv, PlacesInv
    <3> QED
      BY <1>4, <1>6, <3>1, <3>2, <3>3
  <2>2. ASSUME NEW p \in enqueue_pos .. dequeue_pos + Cells - 1
        PROVE  \/ next[Cell(p)] = p
               \/ \E u \in Threads : pc'[u] \in Consuming /\ pos[u] + Cells = p
    <3>1. CASE p = place
      BY <1>6, <1>7, <3>1
    <3>2. CASE p # place
      <4>1. /\ p \in dequeue_pos .. dequeue_pos + Cells - 1 /\ p \in Nat
            /\ place \in dequeue_pos .. dequeue_pos + Cells - 1
        BY <1>1, <1>5, <1>7
      <4>2. Cell(p) # Cell(at)
        BY <1>7, <3>2, <4>1, PlacesApart
      <4>3. p # pos[t] + Cells
        BY <3>2 DEF at, place
      <4>4. \/ sequence[Cell(p)] = p
            \/ \E u \in Threads : pc[u] \in Consuming /\ pos[u] + Cells = p
        BY DEF RingInv, PlacesInv
      <4> QED
        BY <1>4, <1>6, <4>1, <4>2, <4>3, <4>4
    <3> QED
      BY <3>1, <3>2
  <2> QED
    BY <1>2, <2>1, <2>2 DEF PlacesInv, Cell
<1>10. OwnersInv'
  <2>1. ASSUME NEW u \in Threads, pc'[u] \in Owning
        PROVE  pc[u] \in Owning /\ next[Cell(pos[u])] = sequence[Cell(pos[u])]
    <3>1. pc[u] \in Owning /\ u # t
      BY <1>2, <1>4, <2>1 DEF Owning, Producing, Consuming
    <3>2. Cell(pos[u]) # Cell(at)
      BY <1>4, <3>1, OwnersApart DEF at
    <3> QED
      BY <1>1, <1>6, <3>1, <3>2
  <2>2. \A u \in Threads : pc'[u] \in Producing =>
          dequeue_pos <= pos[u] /\ pos[u] < enqueue_pos /\ next[Cell(pos[u])] = pos[u]
    BY <1>4, <2>1 DEF RingInv, OwnersInv, Owning
  <2>3. \A u \in Threads : pc'[u] \in Consuming =>
          /\ pos[u] < dequeue_pos /\ enqueue_pos <= pos[u] + Cells
          /\ next[Cell(pos[u])] = pos[u] + 1
    BY <1>4, <2>1 DEF RingInv, OwnersInv, Owning
  <2>4. \A u, v \in Threads : pc'[u] \in Owning /\ pc'[v] \in Owning /\ u # v => pos[u] # pos[v]
    BY <2>1 DEF RingInv, OwnersInv
  <2> QED
    BY <1>2, <2>2, <2>3, <2>4 DEF OwnersInv, Cell
<1>11. SeenInv'
  <2>1. \A u \in Threads : pc'[u] \in {"claim", "take"} => pc[u] = pc'[u]
    BY <1>2
  <2>2. \A u \in Threads : /\ sequence[Cell(pos[u])] \in Nat /\ next[Cell(pos[u])] \in Nat
                           /\ next[Cell(pos[u])] >= sequence[Cell(pos[u])]
    BY <1>1, <1>6
  <2>3. ASSUME NEW u \in Threads
        PROVE  /\ pc'[u] = "claim" => next[Cell(pos[u])] >= pos[u]
               /\ pc'[u] = "take" => next[Cell(pos[u])] >= pos[u] + 1
    <3>1. /\ pc'[u] = "claim" => sequence[Cell(pos[u])] >= pos[u]
          /\ pc'[u] = "take" => sequence[Cell(pos[u])] >= pos[u] + 1
      BY <2>1 DEF RingInv, SeenInv
    <3> QED
      <4>1. pos[u] \in Nat
        BY <1>1
      <4> QED
        BY ONLY <2>2, <3>1, <4>1, u \in Threads
  <2> QED
    BY <1>2, <2>3 DEF SeenInv, Cell
<1> QED
  BY <1>8, <1>9, <1>10, <1>11 DEF RingInv

(* The constructor leaves an empty ring.                                   *)
LEMMA RingInit ==
    ASSUME RingHasTwoCells, Init
    PROVE  RingInv
<1>1. Cells \in Nat /\ Cells > 1
  BY DEF RingHasTwoCells
<1>2. TypeOK
  BY <1>1 DEF Init, TypeOK, Labels, Asking
<1>3. WithinCapacity
  BY <1>1 DEF Init, WithinCapacity
<1>4. PlacesInv
  <2>1. \A p \in 0..Cells - 1 : sequence[Cell(p)] = p
    BY CellsOfPositions DEF Init
  <2>2. enqueue_pos = 0 /\ dequeue_pos = 0
    BY DEF Init
  <2> QED
    BY <1>1, <2>1, <2>2 DEF PlacesInv
<1>5. OwnersInv /\ SeenInv
  BY DEF Init, OwnersInv, SeenInv, Owning, Producing, Consuming
<1> QED
  BY <1>2, <1>3, <1>4, <1>5 DEF RingInv

(* Every step of enqueue and dequeue keeps the ring's invariant.           *)
LEMMA RingStep ==
    ASSUME RingHasTwoCells, RingInv, [Next]_vars
    PROVE  RingInv'
<1>1. TypeOK'
  BY TypeOKStep DEF RingInv
<1>2. /\ pc \in [Threads -> Labels] /\ pos \in [Threads -> Nat]
      /\ sequence \in [0..Cells - 1 -> Nat]
      /\ \A p \in Nat : Cell(p) \in 0..Cells - 1
  BY CellsOfPositions DEF RingInv, TypeOK
<1>3. CASE UNCHANGED vars
  BY <1>3 DEF vars, shared, RingInv, TypeOK, WithinCapacity, PlacesInv, OwnersInv, SeenInv, Cell
<1>4. ASSUME NEW t \in Threads, LocalStep(t) PROVE RingInv'
  BY <1>1, <1>4, LocalStepKeepsRing
<1> USE DEF LocalStep, Goto, shared, Owning, Producing, Consuming
<1>5. ASSUME NEW t \in Threads, Enqueue(t) PROVE RingInv'
  <2>1. ASSUME NEW x \in Items, EnqueueCall(t, x) PROVE LocalStep(t)
    BY <1>2, <2>1 DEF EnqueueCall
  <2>2. ASSUME EnqueueLook(t) PROVE LocalStep(t)
    <3>1. pos[t] \in Nat /\ sequence[Cell(pos[t])] \in Nat
      BY <1>2
    <3>2. /\ pc[t] = "enqueue" /\ \A u \in Threads : u # t => pc'[u] = pc[u]
          /\ pc'[t] \in {"claim", "idle", "reload"}
          /\ pc'[t] = "claim" => sequence[Cell(pos[t])] = pos[t]
          /\ UNCHANGED <<shared, pos>>
      BY <1>2, <2>2 DEF EnqueueLook
    <3>3. pc'[t] = "claim" => sequence[Cell(pos'[t])] >= pos'[t]
      BY <3>1, <3>2
    <3> QED
      BY <3>2, <3>3
  <2>3. ASSUME EnqueueReload(t) PROVE LocalStep(t)
    BY <1>2, <2>3 DEF EnqueueReload
  <2>4. CASE EnqueueClaim(t)
    BY <1>1, <2>4, ClaimKeepsRing
  <2>5. ASSUME EnqueueRetry(t) PROVE LocalStep(t)
    BY <1>2, <2>5 DEF EnqueueRetry
  <2>6. ASSUME EnqueueWrite(t) PROVE LocalStep(t)
    BY <1>2, <2>6 DEF EnqueueWrite
  <2>7. CASE EnqueuePublish(t)
    BY <1>1, <2>7, PublishKeepsRing
  <2> QED
    BY <1>4, <1>5, <2>1, <2>2, <2>3, <2>4, <2>5, <2>6, <2>7 DEF Enqueue
<1>6. ASSUME NEW t \in Threads, Dequeue(t) PROVE RingInv'
  <2>1. ASSUME DequeueCall(t) PROVE LocalStep(t)
    BY <1>2, <2>1 DEF DequeueCall
  <2>2. ASSUME DequeueLook(t) PROVE LocalStep(t)
    <3>1. pos[t] \in Nat /\ sequence[Cell(pos[t])] \in Nat
      BY <1>2
    <3>2. /\ pc[t] = "dequeue" /\ \A u \in Threads : u # t => pc'[u] = pc[u]
          /\ pc'[t] \in {"take", "empty", "refresh"}
          /\ pc'[t] = "take" => sequence[Cell(pos[t])] = pos[t] + 1
          /\ UNCHANGED <<shared, pos>>
      BY <1>2, <2>2 DEF DequeueLook
    <3>3. pc'[t] = "take" => sequence[Cell(pos'[t])] >= pos'[t] + 1
      BY <3>1, <3>2
    <3> QED
      BY <3>2, <3>3
  <2>3. ASSUME DequeueReload(t) PROVE LocalStep(t)
    BY <1>2, <2>3 DEF DequeueReload
  <2>4. CASE DequeueTake(t)
    BY <1>1, <2>4, TakeKeepsRing
  <2>5. ASSUME DequeueRetry(t) PROVE LocalStep(t)
    BY <1>2, <2>5 DEF DequeueRetry
  <2>6. ASSUME DequeueRead(t) PROVE LocalStep(t)
    BY <1>2, <2>6 DEF DequeueRead
  <2>7. CASE DequeueFree(t)
    BY <1>1, <2>7, FreeKeepsRing
  <2>8. ASSUME DequeueEmpty(t) PROVE LocalStep(t)
    BY <1>2, <2>8 DEF DequeueEmpty
  <2> QED
    BY <1>4, <1>6, <2>1, <2>2, <2>3, <2>4, <2>5, <2>6, <2>7, <2>8 DEF Dequeue
<1> QED
  BY <1>3, <1>5, <1>6 DEF Next

-----------------------------------------------------------------------------
(* What follows from it.                                                   *)

(* The ring's invariant holds throughout.                                  *)
LEMMA RingInvariant ==
    ASSUME RingHasTwoCells
    PROVE  Spec => []RingInv
<1>1. Init => RingInv
  BY RingInit
<1>2. RingInv /\ [Next]_vars => RingInv'
  BY RingStep
<1> QED
  BY <1>1, <1>2, PTL DEF Spec

(* enqueue succeeds only while a cell is free, dequeue only when an item   *)
(* was enqueued: the positions are never more than a lap apart.            *)
THEOREM CapacityRespected ==
    ASSUME Requested > 1
    PROVE  Spec => []WithinCapacity
<1>0. RingHasTwoCells
  BY TwoCells
<1> USE <1>0
<1>1. RingInv => WithinCapacity
  BY DEF RingInv
<1> QED
  BY <1>1, RingInvariant, PTL

(* The plain datum of a cell is never written by one thread while another  *)
(* reads or writes it: the sequence numbers are enough of a lock.          *)
THEOREM NoTwoThreadsInACell ==
    ASSUME Requested > 1
    PROVE  Spec => []NoDataRace
<1>0. RingHasTwoCells
  BY TwoCells
<1> USE <1>0
<1>1. RingInv => NoDataRace
  BY OwnersApart DEF NoDataRace, Owning, Producing, Consuming
<1> QED
  BY <1>1, RingInvariant, PTL

(* When every call has returned, each place up to enqueue_pos is published *)
(* and each behind it is free, so that the next call finds what it should. *)
THEOREM RingQuietBetweenCalls ==
    ASSUME Requested > 1
    PROVE  Spec => []QuietRing
<1>0. RingHasTwoCells
  BY TwoCells
<1> USE <1>0
<1>1. ASSUME RingInv PROVE QuietRing
  <2>1. SUFFICES ASSUME \A t \in Threads : pc[t] = "idle",
                        NEW p \in dequeue_pos .. dequeue_pos + Cells - 1
                 PROVE  sequence[Cell(p)] = IF p < enqueue_pos THEN p + 1 ELSE p
    BY DEF QuietRing
  <2>2. enqueue_pos \in Nat /\ dequeue_pos \in Nat /\ Cells \in Nat
    BY <1>1 DEF RingInv, TypeOK, RingHasTwoCells
  <2>3. \A t \in Threads : pc[t] \notin Producing /\ pc[t] \notin Consuming
    BY <2>1 DEF Producing, Consuming
  <2>4. CASE p < enqueue_pos
    <3>1. p \in dequeue_pos .. enqueue_pos - 1
      BY <2>2, <2>4
    <3> QED
      BY <1>1, <2>3, <2>4, <3>1 DEF RingInv, PlacesInv
  <2>5. CASE ~(p < enqueue_pos)
    <3>1. p \in enqueue_pos .. dequeue_pos + Cells - 1
      BY <2>2, <2>5
    <3> QED
      BY <1>1, <2>3, <2>5, <3>1 DEF RingInv, PlacesInv
  <2> QED
    BY <2>4, <2>5
<1> QED
  BY <1>1, RingInvariant, PTL

-----------------------------------------------------------------------------
(* Items and data.                                                         *)

(* A step that claims nothing and only changes what one thread does.       *)
LEMMA HandsStep ==
    ASSUME ItemsInv, NEW t \in Threads, UNCHANGED claims,
           \A u \in Threads : u # t => pc'[u] = pc[u] /\ pos'[u] = pos[u] /\ item'[u] = item[u],
           pc'[t] \in Asking => NewItem(t)',
           pc'[t] \in Producing \cup {"free"} => item'[t] = claims[pos'[t] + 1],
           pc'[t] \in EmptyHanded => item'[t] = None
    PROVE  ItemsInv'
<1>1. ASSUME NEW u \in Threads, pc'[u] \in Asking, u # t PROVE NewItem(u)'
  <2>1. NewItem(u) /\ item'[u] = item[u]
    BY <1>1 DEF ItemsInv
  <2>2. ASSUME NEW v \in Threads, pc'[v] \in Asking, u # v PROVE item'[u] # item'[v]
    <3>1. CASE v = t
      BY <1>1, <2>2, <3>1 DEF NewItem
    <3>2. CASE v # t
      BY <2>1, <2>2, <3>2 DEF NewItem
    <3> QED
      BY <3>1, <3>2
  <2> QED
    BY <2>1, <2>2 DEF NewItem
<1> QED
  BY <1>1 DEF ItemsInv

(* Every step keeps items and threads in agreement with the claims.        *)
LEMMA ItemsStep ==
    ASSUME RingHasTwoCells, QueueInv, RingInv', [Next]_vars
    PROVE  ItemsInv'
<1>1. /\ pc \in [Threads -> Labels] /\ pos \in [Threads -> Nat]
      /\ item \in [Threads -> Items \cup {None}]
      /\ claims \in Seq(Items) /\ Len(claims) = enqueue_pos /\ Len(claims) \in Nat
      /\ DOMAIN claims = 1..Len(claims)
  BY LenProperties DEF QueueInv, RingInv, TypeOK
<1>2. CASE UNCHANGED vars
  BY <1>2 DEF vars, shared, QueueInv, ItemsInv, NewItem
<1>3. ItemsInv /\ DataInv
  BY DEF QueueInv
<1>4. \A u \in Threads : pc[u] \in Owning => pos[u] + 1 \in 1..Len(claims)
  BY <1>1, OwnersApart DEF QueueInv
<1>5. ASSUME NEW t \in Threads, Enqueue(t) PROVE ItemsInv'
  <2>1. ASSUME NEW x \in Items, EnqueueCall(t, x) PROVE ItemsInv'
    <3>1. /\ UNCHANGED claims /\ item'[t] = x /\ pc'[t] = "enqueue" /\ pc[t] = "idle"
          /\ \A u \in Threads : u # t => pc'[u] = pc[u] /\ pos'[u] = pos[u] /\ item'[u] = item[u]
      BY <1>1, <2>1 DEF EnqueueCall, Goto, shared
    <3>2. /\ \A i \in 1..Len(claims) : claims[i] # x
          /\ \A u \in Threads : item[u] # x
          /\ x # None
      BY <1>1, <1>3, <2>1, <3>1 DEF EnqueueCall, Started, ItemsInv, EmptyHanded
    <3>3. NewItem(t)'
      BY <3>1, <3>2 DEF NewItem
    <3> QED
      BY <1>3, <3>1, <3>3, HandsStep DEF Producing, EmptyHanded
  <2>2. ASSUME EnqueueLook(t) \/ EnqueueReload(t) \/ EnqueueRetry(t) PROVE ItemsInv'
    <3>1. /\ UNCHANGED claims
          /\ \A u \in Threads : u # t => pc'[u] = pc[u] /\ pos'[u] = pos[u] /\ item'[u] = item[u]
          /\ pc[t] \in Asking
          /\ \/ pc'[t] \in Asking /\ item' = item
             \/ pc'[t] = "idle" /\ item'[t] = None
      BY <1>1, <2>2 DEF EnqueueLook, EnqueueReload, EnqueueRetry, Goto, shared, Asking
    <3>2. NewItem(t)
      BY <1>3, <3>1 DEF ItemsInv
    <3>3. pc'[t] \in Asking => NewItem(t)'
      BY <3>1, <3>2 DEF NewItem, Asking
    <3> QED
      BY <1>3, <3>1, <3>3, HandsStep DEF Producing, EmptyHanded, Asking
  <2>3. ASSUME EnqueueClaim(t) PROVE ItemsInv'
    <3>1. /\ claims' = Append(claims, item[t]) /\ pc[t] = "claim" /\ pc'[t] = "write"
          /\ UNCHANGED <<pos, item>> /\ pos[t] = enqueue_pos
          /\ \A u \in Threads : u # t => pc'[u] = pc[u]
      BY <1>1, <2>3 DEF EnqueueClaim, Goto
    <3>2. item[t] \in Items /\ NewItem(t)
      BY <1>3, <3>1 DEF ItemsInv, QueueInv, RingInv, TypeOK, Asking
    <3>3. /\ Len(claims') = Len(claims) + 1 /\ claims'[Len(claims) + 1] = item[t]
          /\ \A i \in 1..Len(claims) : claims'[i] = claims[i]
      BY <1>1, <3>1, <3>2, AppendProperties
    <3>4. \A i, j \in 1..Len(claims') : claims'[i] = claims'[j] => i = j
      <4>1. \A i \in 1..Len(claims') : i \in 1..Len(claims) \/ i = Len(claims) + 1
        BY <1>1, <3>3
      <4> QED
        BY <1>3, <3>2, <3>3, <4>1 DEF ItemsInv, NewItem
    <3>5. \A i \in 1..Len(claims') : claims'[i] # None
      <4>1. \A i \in 1..Len(claims') : i \in 1..Len(claims) \/ i = Len(claims) + 1
        BY <1>1, <3>3
      <4> QED
        BY <1>3, <3>2, <3>3, <4>1 DEF ItemsInv, NewItem
    <3>6. ASSUME NEW u \in Threads, pc'[u] \in Asking PROVE NewItem(u)'
      <4>1. u # t /\ pc[u] \in Asking /\ pc[t] \in Asking
        BY <3>1, <3>6 DEF Asking
      <4>2. NewItem(u)
        BY <1>3, <4>1 DEF ItemsInv
      <4>3. \A i \in 1..Len(claims') : i \in 1..Len(claims) \/ i = Len(claims) + 1
        BY <1>1, <3>3
      <4>4. \A i \in 1..Len(claims') : claims'[i] # item[u]
        BY <3>3, <4>1, <4>2, <4>3 DEF NewItem
      <4>5. \A v \in Threads : pc'[v] \in Asking => pc[v] \in Asking
        BY <3>1 DEF Asking
      <4> QED
        BY <3>1, <4>2, <4>4, <4>5 DEF NewItem
    <3>7. ASSUME NEW u \in Threads, pc'[u] \in Producing \cup {"free"}
          PROVE  item[u] = claims'[pos[u] + 1]
      <4>1. CASE u = t
        BY <1>1, <3>1, <3>3, <4>1
      <4>2. CASE u # t
        BY <1>3, <1>4, <3>1, <3>3, <3>7, <4>2 DEF ItemsInv, Owning, Consuming
      <4> QED
        BY <4>1, <4>2
    <3>8. \A u \in Threads : pc'[u] \in EmptyHanded => item[u] = None
      BY <1>3, <3>1 DEF ItemsInv, EmptyHanded
    <3> QED
      BY <3>1, <3>4, <3>5, <3>6, <3>7, <3>8 DEF ItemsInv
  <2>4. ASSUME EnqueueWrite(t) PROVE ItemsInv'
    <3>1. /\ UNCHANGED <<claims, pos, item>> /\ pc[t] = "write" /\ pc'[t] = "publish"
          /\ \A u \in Threads : u # t => pc'[u] = pc[u]
      BY <1>1, <2>4 DEF EnqueueWrite, Goto
    <3>2. item[t] = claims[pos[t] + 1]
      BY <1>3, <3>1 DEF ItemsInv, Producing
    <3> QED
      BY <1>3, <3>1, <3>2, HandsStep DEF Asking, EmptyHanded
  <2>5. ASSUME EnqueuePublish(t) PROVE ItemsInv'
    <3>1. /\ UNCHANGED <<claims, pos>> /\ pc'[t] = "idle" /\ item'[t] = None
          /\ \A u \in Threads : u # t => pc'[u] = pc[u] /\ item'[u] = item[u]
      BY <1>1, <2>5 DEF EnqueuePublish, Goto
    <3> QED
      BY <1>3, <3>1, HandsStep DEF Asking, EmptyHanded, Producing
  <2> QED
    BY <1>5, <2>1, <2>2, <2>3, <2>4, <2>5 DEF Enqueue
<1>6. ASSUME NEW t \in Threads, Dequeue(t) PROVE ItemsInv'
  <2>1. ASSUME \/ DequeueCall(t) \/ DequeueLook(t) \/ DequeueReload(t) \/ DequeueTake(t)
               \/ DequeueRetry(t) \/ DequeueEmpty(t)
        PROVE  ItemsInv'
    <3>1. /\ UNCHANGED <<claims, item>> /\ pc[t] \in EmptyHanded
          /\ pc'[t] \in EmptyHanded \cup {"read"}
          /\ \A u \in Threads : u # t => pc'[u] = pc[u] /\ pos'[u] = pos[u]
      BY <1>1, <2>1
         DEF DequeueCall, DequeueLook, DequeueReload, DequeueTake, DequeueRetry, DequeueEmpty,
             Goto, shared, EmptyHanded
    <3>2. item[t] = None
      BY <1>3, <3>1 DEF ItemsInv
    <3> QED
      BY <1>3, <3>1, <3>2, HandsStep DEF Asking, EmptyHanded, Producing
  <2>2. ASSUME DequeueRead(t) PROVE ItemsInv'
    <3>1. /\ UNCHANGED <<claims, pos>> /\ pc[t] = "read" /\ pc'[t] = "free"
          /\ item'[t] = data[Cell(pos[t])]
          /\ \A u \in Threads : u # t => pc'[u] = pc[u] /\ item'[u] = item[u]
      BY <1>1, <2>2 DEF DequeueRead, Goto, shared
    <3>2. item'[t] = claims[pos[t] + 1]
      BY <1>3, <3>1 DEF DataInv
    <3> QED
      BY <1>3, <3>1, <3>2, HandsStep DEF Asking, EmptyHanded
  <2>3. ASSUME DequeueFree(t) PROVE ItemsInv'
    <3>1. /\ UNCHANGED <<claims, pos>> /\ pc'[t] = "idle" /\ item'[t] = None
          /\ \A u \in Threads : u # t => pc'[u] = pc[u] /\ item'[u] = item[u]
      BY <1>1, <2>3 DEF DequeueFree, Goto
    <3> QED
      BY <1>3, <3>1, HandsStep DEF Asking, EmptyHanded, Producing
  <2> QED
    BY <1>6, <2>1, <2>2, <2>3 DEF Dequeue
<1> QED
  BY <1>2, <1>5, <1>6 DEF Next

(* Every step keeps the published cells in agreement with the claims.      *)
LEMMA DataStep ==
    ASSUME RingHasTwoCells, QueueInv, RingInv', [Next]_vars
    PROVE  DataInv'
<1>1. /\ enqueue_pos \in Nat /\ dequeue_pos \in Nat /\ Cells \in Nat /\ Cells > 1
      /\ pc \in [Threads -> Labels] /\ pos \in [Threads -> Nat]
      /\ sequence \in [0..Cells - 1 -> Nat] /\ data \in [0..Cells - 1 -> Items \cup {None}]
      /\ claims \in Seq(Items) /\ Len(claims) = enqueue_pos
      /\ dequeue_pos <= enqueue_pos /\ enqueue_pos <= dequeue_pos + Cells
  BY DEF QueueInv, RingInv, TypeOK, WithinCapacity, RingHasTwoCells
<1>2. DataInv /\ ItemsInv /\ RingInv /\ OwnersInv
  BY DEF QueueInv, RingInv
<1>3. /\ \A u \in Threads : pc[u] \in Owning => pos[u] + 1 \in 1..Len(claims)
      /\ \A u, v \in Threads : pc[u] \in Owning /\ pc[v] \in Owning /\ u # v => Cell(pos[u]) # Cell(pos[v])
      /\ \A p \in Nat : Cell(p) \in 0..Cells - 1
  <2>1. \A u \in Threads : pc[u] \in Owning => pos[u] \in Nat /\ pos[u] < enqueue_pos
    BY <1>2, OwnersApart
  <2>2. \A u \in Threads : pc[u] \in Owning => pos[u] + 1 \in 1..Len(claims)
    BY <1>1, <2>1
  <2> QED
    BY <1>2, <2>2, OwnersApart, CellsOfPositions
<1>4. ASSUME UNCHANGED <<sequence, data, claims, enqueue_pos, dequeue_pos>>,
             \A u \in Threads : pc'[u] \in {"publish", "read"} => pc[u] = pc'[u] /\ pos'[u] = pos[u]
      PROVE  DataInv'
  BY <1>2, <1>4 DEF DataInv, Cell
<1>5. CASE UNCHANGED vars
  BY <1>2, <1>5 DEF vars, shared, DataInv, Cell
<1>6. ASSUME NEW t \in Threads, Enqueue(t) PROVE DataInv'
  <2>1. ASSUME \/ \E x \in Items : EnqueueCall(t, x)
               \/ EnqueueLook(t) \/ EnqueueReload(t) \/ EnqueueRetry(t)
        PROVE  DataInv'
    <3>1. /\ UNCHANGED <<sequence, data, claims, enqueue_pos, dequeue_pos>>
          /\ pc'[t] \notin {"publish", "read"}
          /\ \A u \in Threads : u # t => pc'[u] = pc[u] /\ pos'[u] = pos[u]
      BY <1>1, <2>1 DEF EnqueueCall, EnqueueLook, EnqueueReload, EnqueueRetry, Goto, shared
    <3> QED
      BY <1>4, <3>1
  <2>2. ASSUME EnqueueClaim(t) PROVE DataInv'
    <3>1. /\ claims' = Append(claims, item[t]) /\ pc[t] = "claim" /\ pc'[t] = "write"
          /\ UNCHANGED <<pos, sequence, data, dequeue_pos>> /\ enqueue_pos' = enqueue_pos + 1
          /\ pos[t] = enqueue_pos
          /\ \A u \in Threads : u # t => pc'[u] = pc[u]
      BY <1>1, <2>2 DEF EnqueueClaim, Goto
    <3>2. sequence[Cell(enqueue_pos)] = enqueue_pos
      BY <1>2, <2>2, ClaimedCellIsFree
    <3>3. item[t] \in Items
      BY <1>2, <3>1 DEF RingInv, TypeOK, Asking
    <3>4. \A i \in 1..Len(claims) : claims'[i] = claims[i]
      BY <1>1, <3>1, <3>3, AppendProperties
    <3>5. ASSUME NEW p \in dequeue_pos .. enqueue_pos, sequence[Cell(p)] = p + 1
          PROVE  data[Cell(p)] = claims'[p + 1]
      <4>0. enqueue_pos \in Nat
        BY <1>1
      <4>1. p # enqueue_pos
        BY ONLY <3>2, <3>5, <4>0
      <4>2. p \in dequeue_pos .. enqueue_pos - 1 /\ p + 1 \in 1..Len(claims)
        BY <1>1, <4>1
      <4> QED
        BY <1>2, <3>4, <3>5, <4>2 DEF DataInv
    <3>6. ASSUME NEW u \in Threads, pc'[u] \in {"publish", "read"}
          PROVE  data[Cell(pos[u])] = claims'[pos[u] + 1]
      <4>1. pc[u] \in {"publish", "read"} /\ pc[u] \in Owning
        BY <3>1, <3>6 DEF Owning, Producing, Consuming
      <4> QED
        BY <1>2, <1>3, <3>4, <4>1 DEF DataInv
    <3>7. enqueue_pos' - 1 = enqueue_pos
      BY <1>1, <3>1
    <3> QED
      BY <3>1, <3>5, <3>6, <3>7 DEF DataInv, Cell
  <2>3. ASSUME EnqueueWrite(t) PROVE DataInv'
    <3>1. /\ pc[t] = "write" /\ pc'[t] = "publish"
          /\ UNCHANGED <<pos, item, claims, sequence, enqueue_pos, dequeue_pos>>
          /\ data' = [data EXCEPT ![Cell(pos[t])] = item[t]]
          /\ \A u \in Threads : u # t => pc'[u] = pc[u]
      BY <1>1, <2>3 DEF EnqueueWrite, Goto
    <3>2. /\ pos[t] \in Nat /\ dequeue_pos <= pos[t] /\ pos[t] < enqueue_pos
          /\ sequence[Cell(pos[t])] = pos[t]
          /\ item[t] = claims[pos[t] + 1]
      BY <1>1, <1>2, <3>1 DEF OwnersInv, ItemsInv, Producing
    <3>3. /\ data'[Cell(pos[t])] = claims[pos[t] + 1]
          /\ \A p \in Nat : Cell(p) # Cell(pos[t]) => data'[Cell(p)] = data[Cell(p)]
      BY <1>1, <1>3, <3>1, <3>2
    <3>4. ASSUME NEW p \in dequeue_pos .. enqueue_pos - 1, sequence[Cell(p)] = p + 1
          PROVE  data'[Cell(p)] = claims[p + 1]
      <4>1. p # pos[t] /\ p \in Nat
        BY <1>1, <3>2, <3>4, SMTT(30)
      <4>2. /\ p \in dequeue_pos .. dequeue_pos + Cells - 1
            /\ pos[t] \in dequeue_pos .. dequeue_pos + Cells - 1
        BY <1>1, <3>2
      <4>3. Cell(p) # Cell(pos[t])
        BY <1>2, <4>1, <4>2, PlacesApart
      <4> QED
        BY <1>2, <3>3, <3>4, <4>1, <4>3 DEF DataInv
    <3>5. ASSUME NEW u \in Threads, pc'[u] \in {"publish", "read"}
          PROVE  data'[Cell(pos[u])] = claims[pos[u] + 1]
      <4>1. CASE u = t
        BY <3>3, <4>1
      <4>2. CASE u # t
        <5>1. pc[u] \in {"publish", "read"} /\ pc[u] \in Owning /\ pc[t] \in Owning
          BY <3>1, <3>5, <4>2 DEF Owning, Producing, Consuming
        <5>2. Cell(pos[u]) # Cell(pos[t]) /\ pos[u] \in Nat
          BY <1>1, <1>3, <4>2, <5>1
        <5> QED
          BY <1>2, <3>3, <5>1, <5>2 DEF DataInv
      <4> QED
        BY <4>1, <4>2
    <3> QED
      BY <3>1, <3>4, <3>5 DEF DataInv, Cell
  <2>4. ASSUME EnqueuePublish(t) PROVE DataInv'
    <3>1. /\ pc[t] = "publish" /\ pc'[t] = "idle"
          /\ UNCHANGED <<pos, claims, data, enqueue_pos, dequeue_pos>>
          /\ sequence' = [sequence EXCEPT ![Cell(pos[t])] = pos[t] + 1]
          /\ \A u \in Threads : u # t => pc'[u] = pc[u]
      BY <1>1, <2>4 DEF EnqueuePublish, Goto
    <3>2. /\ pos[t] \in Nat /\ dequeue_pos <= pos[t] /\ pos[t] < enqueue_pos
          /\ data[Cell(pos[t])] = claims[pos[t] + 1]
      BY <1>1, <1>2, <3>1 DEF OwnersInv, DataInv, Producing
    <3>3. \A p \in Nat : Cell(p) # Cell(pos[t]) => sequence'[Cell(p)] = sequence[Cell(p)]
      BY <1>1, <1>3, <3>1, <3>2
    <3>4. ASSUME NEW p \in dequeue_pos .. enqueue_pos - 1, sequence'[Cell(p)] = p + 1
          PROVE  data[Cell(p)] = claims[p + 1]
      <4>1. CASE p = pos[t]
        BY <3>2, <4>1
      <4>2. CASE p # pos[t]
        <5>1. /\ p \in dequeue_pos .. dequeue_pos + Cells - 1 /\ p \in Nat
              /\ pos[t] \in dequeue_pos .. dequeue_pos + Cells - 1
          BY <1>1, <3>2
        <5>2. Cell(p) # Cell(pos[t])
          BY <1>2, <4>2, <5>1, PlacesApart
        <5> QED
          BY <1>2, <3>3, <3>4, <5>1, <5>2 DEF DataInv
      <4> QED
        BY <4>1, <4>2
    <3>5. \A u \in Threads : pc'[u] \in {"publish", "read"} => data[Cell(pos[u])] = claims[pos[u] + 1]
      BY <1>2, <3>1 DEF DataInv
    <3> QED
      BY <3>1, <3>4, <3>5 DEF DataInv, Cell
  <2> QED
    BY <1>6, <2>1, <2>2, <2>3, <2>4 DEF Enqueue
<1>7. ASSUME NEW t \in Threads, Dequeue(t) PROVE DataInv'
  <2>1. ASSUME \/ DequeueCall(t) \/ DequeueLook(t) \/ DequeueReload(t) \/ DequeueRetry(t)
               \/ DequeueRead(t) \/ DequeueEmpty(t)
        PROVE  DataInv'
    <3>1. /\ UNCHANGED <<sequence, data, claims, enqueue_pos, dequeue_pos>>
          /\ pc'[t] \notin {"publish", "read"}
          /\ \A u \in Threads : u # t => pc'[u] = pc[u] /\ pos'[u] = pos[u]
      BY <1>1, <2>1
         DEF DequeueCall, DequeueLook, DequeueReload, DequeueRetry, DequeueRead, DequeueEmpty,
             Goto, shared
    <3> QED
      BY <1>4, <3>1
  <2>2. ASSUME DequeueTake(t) PROVE DataInv'
    <3>1. /\ pc[t] = "take" /\ pc'[t] = "read" /\ pos[t] = dequeue_pos
          /\ UNCHANGED <<pos, claims, data, sequence, enqueue_pos>>
          /\ dequeue_pos' = dequeue_pos + 1
          /\ \A u \in Threads : u # t => pc'[u] = pc[u]
      BY <1>1, <2>2 DEF DequeueTake, Goto
    <3>2. dequeue_pos < enqueue_pos /\ sequence[Cell(dequeue_pos)] = dequeue_pos + 1
      BY <1>2, <2>2, TakenCellIsPublished
    <3>3. data[Cell(pos[t])] = claims[pos[t] + 1]
      <4>1. dequeue_pos \in dequeue_pos .. enqueue_pos - 1
        BY <1>1, <3>2
      <4> QED
        BY <1>2, <3>1, <3>2, <4>1 DEF DataInv
    <3>4. \A p \in dequeue_pos + 1 .. enqueue_pos - 1 :
            sequence[Cell(p)] = p + 1 => data[Cell(p)] = claims[p + 1]
      <4>1. \A p \in dequeue_pos + 1 .. enqueue_pos - 1 : p \in dequeue_pos .. enqueue_pos - 1
        BY <1>1
      <4> QED
        BY <1>2, <4>1 DEF DataInv
    <3>5. \A u \in Threads : pc'[u] \in {"publish", "read"} => data[Cell(pos[u])] = claims[pos[u] + 1]
      BY <1>2, <3>1, <3>3 DEF DataInv
    <3> QED
      BY <3>1, <3>4, <3>5 DEF DataInv, Cell
  <2>3. ASSUME DequeueFree(t) PROVE DataInv'
    <3> DEFINE place == pos[t] + Cells
    <3>1. /\ pc[t] = "free" /\ pc'[t] = "idle"
          /\ UNCHANGED <<pos, claims, data, enqueue_pos, dequeue_pos>>
          /\ sequence' = [sequence EXCEPT ![Cell(pos[t])] = place]
          /\ \A u \in Threads : u # t => pc'[u] = pc[u]
      BY <1>1, <2>3 DEF DequeueFree, NextLap, Goto
    <3>2. pos[t] \in Nat /\ pos[t] < dequeue_pos /\ enqueue_pos <= place
      BY <1>1, <1>2, <3>1 DEF OwnersInv, Consuming
    <3>3. /\ place \in enqueue_pos .. dequeue_pos + Cells - 1
          /\ Cell(place) = Cell(pos[t])
      <4>1. Cell(place) = Cell(pos[t])
        BY <3>2, CellsOfPositions
      <4> QED
        BY ONLY <1>1, <3>2, <4>1, t \in Threads DEF place
    <3> HIDE DEF place
    <3>4. \A p \in Nat : Cell(p) # Cell(pos[t]) => sequence'[Cell(p)] = sequence[Cell(p)]
      BY <1>1, <1>3, <3>1, <3>2
    <3>5. ASSUME NEW p \in dequeue_pos .. enqueue_pos - 1, sequence'[Cell(p)] = p + 1
          PROVE  data[Cell(p)] = claims[p + 1]
      <4>1. /\ p \in dequeue_pos .. dequeue_pos + Cells - 1 /\ p \in Nat
            /\ place \in dequeue_pos .. dequeue_pos + Cells - 1 /\ p # place
        BY <1>1, <3>3
      <4>2. Cell(p) # Cell(pos[t])
        BY <1>2, <3>3, <4>1, PlacesApart
      <4> QED
        BY <1>2, <3>4, <3>5, <4>1, <4>2 DEF DataInv
    <3>6. \A u \in Threads : pc'[u] \in {"publish", "read"} => data[Cell(pos[u])] = claims[pos[u] + 1]
      BY <1>2, <3>1 DEF DataInv
    <3> QED
      BY <3>1, <3>5, <3>6 DEF DataInv, Cell
  <2> QED
    BY <1>7, <2>1, <2>2, <2>3 DEF Dequeue
<1> QED
  BY <1>5, <1>6, <1>7 DEF Next

(* The whole invariant holds throughout.                                   *)
LEMMA QueueInvariant ==
    ASSUME RingHasTwoCells
    PROVE  Spec => []QueueInv
<1>1. ASSUME Init PROVE QueueInv
  <2>1. RingInv /\ claims = <<>> /\ Len(claims) = 0 /\ enqueue_pos = 0
    BY <1>1, RingInit DEF Init
  <2>2. ItemsInv
    BY <1>1, <2>1 DEF Init, ItemsInv, Asking, Producing
  <2>3. DataInv
    BY <1>1, <2>1 DEF Init, DataInv
  <2> QED
    BY <2>1, <2>2, <2>3 DEF QueueInv
<1>2. QueueInv /\ [Next]_vars => QueueInv'
  BY RingStep, ItemsStep, DataStep DEF QueueInv
<1> QED
  BY <1>1, <1>2, PTL DEF Spec

-----------------------------------------------------------------------------
(* The ring implements the claim-and-publish FIFO.                         *)

(* What is left of a sequence after its first d elements.                  *)
LEMMA Remaining ==
    ASSUME NEW S, NEW c \in Seq(S), NEW d \in 0..Len(c)
    PROVE  /\ SubSeq(c, d + 1, Len(c)) \in Seq(S)
           /\ Len(SubSeq(c, d + 1, Len(c))) = Len(c) - d
           /\ \A i \in 1 .. Len(c) - d : SubSeq(c, d + 1, Len(c))[i] = c[d + i]
<1> DEFINE n == Len(c)
           m == d + 1
<1>1. n \in Nat /\ d \in Nat /\ d <= n /\ m \in Int /\ n \in Int
  BY LenProperties
<1>2. \A i \in m..n : c[i] \in S
  BY <1>1, ElementOfSeq
<1> DEFINE r == SubSeq(c, m, n)
<1>3. /\ r \in Seq(S)
      /\ Len(r) = IF m <= n THEN n - m + 1 ELSE 0
      /\ \A i \in 1..n - m + 1 : r[i] = c[m + i - 1]
  BY <1>1, <1>2, SubSeqProperties
<1> HIDE DEF r
<1>5. Len(r) = n - d
  BY <1>1, <1>3
<1>6. ASSUME NEW i \in 1..n - d PROVE r[i] = c[d + i]
  <2>1. i \in 1..n - m + 1 /\ m + i - 1 = d + i
    BY <1>1
  <2> QED
    BY <1>3, <2>1
<1> QED
  BY <1>3, <1>5, <1>6, Zenon DEF r

(* The waiting items are the claims from dequeue_pos on.                   *)
LEMMA WaitingItems ==
    ASSUME RingInv
    PROVE  /\ Waiting \in Seq(Items)
           /\ Len(Waiting) = enqueue_pos - dequeue_pos
           /\ \A i \in 1 .. enqueue_pos - dequeue_pos : Waiting[i] = claims[dequeue_pos + i]
<1>1. claims \in Seq(Items) /\ dequeue_pos \in 0..Len(claims) /\ Len(claims) = enqueue_pos
  BY DEF RingInv, TypeOK, WithinCapacity
<1> QED
  BY <1>1, Remaining DEF Waiting

(* A claim appends to the waiting items.                                   *)
LEMMA ClaimAppends ==
    ASSUME RingInv, RingInv', NEW x \in Items, claims' = Append(claims, x),
           enqueue_pos' = enqueue_pos + 1, UNCHANGED dequeue_pos
    PROVE  Waiting' = Append(Waiting, x)
<1>1. /\ enqueue_pos \in Nat /\ dequeue_pos \in Nat /\ dequeue_pos <= enqueue_pos
      /\ claims \in Seq(Items) /\ Len(claims) = enqueue_pos
  BY DEF RingInv, TypeOK, WithinCapacity
<1>2. /\ Waiting \in Seq(Items) /\ Len(Waiting) = enqueue_pos - dequeue_pos
      /\ \A i \in 1 .. enqueue_pos - dequeue_pos : Waiting[i] = claims[dequeue_pos + i]
  BY WaitingItems
<1>3. /\ Waiting' \in Seq(Items) /\ Len(Waiting') = enqueue_pos' - dequeue_pos'
      /\ \A i \in 1 .. enqueue_pos' - dequeue_pos' : Waiting'[i] = claims'[dequeue_pos' + i]
  <2>1. claims' \in Seq(Items) /\ dequeue_pos' \in 0..Len(claims') /\ Len(claims') = enqueue_pos'
    BY DEF RingInv, TypeOK, WithinCapacity
  <2>2. Waiting' = SubSeq(claims', dequeue_pos' + 1, Len(claims'))
    BY DEF Waiting
  <2>3. \A c \in Seq(Items) : \A d \in 0..Len(c) :
          /\ SubSeq(c, d + 1, Len(c)) \in Seq(Items)
          /\ Len(SubSeq(c, d + 1, Len(c))) = Len(c) - d
          /\ \A i \in 1 .. Len(c) - d : SubSeq(c, d + 1, Len(c))[i] = c[d + i]
    BY Remaining
  <2> QED
    BY ONLY <2>1, <2>2, <2>3
<1>4. /\ Append(Waiting, x) \in Seq(Items)
      /\ Len(Append(Waiting, x)) = Len(Waiting) + 1
      /\ \A i \in 1..Len(Waiting) : Append(Waiting, x)[i] = Waiting[i]
      /\ Append(Waiting, x)[Len(Waiting) + 1] = x
  BY <1>2, AppendProperties
<1>5. /\ \A i \in 1..Len(claims) : claims'[i] = claims[i]
      /\ claims'[Len(claims) + 1] = x
  BY <1>1, AppendProperties
<1> DEFINE w == Waiting'
           n == enqueue_pos - dequeue_pos
<1>6. Len(w) = n + 1 /\ Len(w) = Len(Append(Waiting, x)) /\ n \in Nat
  BY <1>1, <1>2, <1>3, <1>4
<1>7. ASSUME NEW i \in 1..n + 1 PROVE w[i] = Append(Waiting, x)[i]
  <2>1. w[i] = claims'[dequeue_pos + i]
    BY <1>1, <1>3
  <2>2. CASE i = n + 1
    <3>1. dequeue_pos + i = Len(claims) + 1 /\ i = Len(Waiting) + 1
      BY <1>1, <1>2, <2>2
    <3> QED
      BY <1>4, <1>5, <2>1, <3>1
  <2>3. CASE i # n + 1
    <3>1. dequeue_pos + i \in 1..Len(claims) /\ i \in 1..Len(Waiting) /\ i \in 1..n
      BY <1>1, <1>2, <2>3
    <3> QED
      BY <1>2, <1>4, <1>5, <2>1, <3>1
  <2> QED
    BY <2>2, <2>3
<1>8. w \in Seq(Items)
  BY <1>3
<1> HIDE DEF w, n
<1>9. w = Append(Waiting, x)
  BY <1>4, <1>6, <1>7, <1>8, SeqEqual
<1> QED
  BY <1>9 DEF w

(* A take removes the oldest.                                              *)
LEMMA TakeRemoves ==
    ASSUME RingInv, dequeue_pos < enqueue_pos, UNCHANGED claims, dequeue_pos' = dequeue_pos + 1
    PROVE  /\ Waiting # <<>>
           /\ Head(Waiting) = claims[dequeue_pos + 1]
           /\ Waiting' = Tail(Waiting)
<1>1. /\ enqueue_pos \in Nat /\ dequeue_pos \in Nat /\ dequeue_pos <= enqueue_pos
      /\ claims \in Seq(Items) /\ Len(claims) = enqueue_pos
  BY DEF RingInv, TypeOK, WithinCapacity
<1>2. dequeue_pos + 1 \in 1..Len(claims) /\ Len(claims) \in dequeue_pos + 1 .. Len(claims)
  BY <1>1
<1>3. /\ Head(Waiting) = claims[dequeue_pos + 1]
      /\ Tail(Waiting) = SubSeq(claims, (dequeue_pos + 1) + 1, Len(claims))
  BY <1>1, <1>2, HeadTailOfSubSeq DEF Waiting
<1>4. Len(Waiting) # 0
  BY <1>1, WaitingItems
<1>5. Waiting # <<>>
  BY <1>4, EmptySeq
<1> QED
  BY <1>3, <1>5 DEF Waiting

(* Threads that go on as they were hold what they held.                    *)
LEMMA ReceivedKept ==
    ASSUME NEW u \in Threads, pc'[u] = pc[u], pos'[u] = pos[u], item'[u] = item[u],
           pc[u] = "read" => claims'[pos[u] + 1] = claims[pos[u] + 1]
    PROVE  Received(u)' = Received(u)
<1>1. CASE pc[u] = "read"
  BY <1>1 DEF Received
<1>2. CASE pc[u] = "free"
  BY <1>2 DEF Received
<1>3. CASE pc[u] \notin {"read", "free"}
  BY <1>3 DEF Received
<1> QED
  BY <1>1, <1>2, <1>3

(* Each step of the ring is a step of the FIFO, or nothing that it shows:  *)
(* a successful compare-and-swap claims or takes, and the store to a       *)
(* sequence number publishes or hands on.                                  *)
LEMMA AbstractStep ==
    ASSUME RingHasTwoCells, QueueInv, QueueInv', [Next]_vars
    PROVE  [Abstract!Next]_(Abstract!vars)
<1> SUFFICES Abstract!Next \/ UNCHANGED Abstract!vars
  OBVIOUS
<1>1. /\ enqueue_pos \in Nat /\ dequeue_pos \in Nat /\ Cells \in Nat /\ Cells > 1
      /\ pc \in [Threads -> Labels] /\ pos \in [Threads -> Nat]
      /\ item \in [Threads -> Items \cup {None}]
      /\ claims \in Seq(Items) /\ Len(claims) = enqueue_pos
      /\ dequeue_pos <= enqueue_pos /\ enqueue_pos <= dequeue_pos + Cells
  BY DEF QueueInv, RingInv, TypeOK, WithinCapacity, RingHasTwoCells
<1>2. RingInv /\ RingInv' /\ ItemsInv /\ DataInv /\ OwnersInv
  BY DEF QueueInv, RingInv
<1>3. \A u \in Threads : pc[u] \in Owning => pos[u] + 1 \in 1..Len(claims)
  <2>1. \A u \in Threads : pc[u] \in Owning => pos[u] \in Nat /\ pos[u] < enqueue_pos
    BY <1>2, OwnersApart
  <2> QED
    BY <1>1, <2>1
<1>4. ASSUME UNCHANGED <<claims, dequeue_pos>>, Unpublished' = Unpublished,
             \A u \in Threads : Received(u)' = Received(u)
      PROVE  UNCHANGED Abstract!vars
  <2>1. Waiting' = Waiting
    BY <1>4 DEF Waiting
  <2> QED
    BY <1>4, <2>1 DEF Abstract!vars
<1>5. CASE UNCHANGED vars
  <2>1. \A u \in Threads : Received(u)' = Received(u)
    BY <1>5, ReceivedKept DEF vars, shared
  <2>2. Unpublished' = Unpublished
    BY <1>5 DEF Unpublished, vars
  <2> QED
    BY <1>4, <1>5, <2>1, <2>2 DEF vars, shared
<1>6. ASSUME NEW t \in Threads, Enqueue(t) PROVE Abstract!Next \/ UNCHANGED Abstract!vars
  <2>1. ASSUME \/ \E x \in Items : EnqueueCall(t, x)
               \/ EnqueueLook(t) \/ EnqueueReload(t) \/ EnqueueRetry(t)
        PROVE  UNCHANGED Abstract!vars
    <3>1. /\ UNCHANGED <<claims, dequeue_pos>>
          /\ pc[t] \notin Owning /\ pc'[t] \notin Owning
          /\ \A u \in Threads : u # t => pc'[u] = pc[u] /\ pos'[u] = pos[u] /\ item'[u] = item[u]
      BY <1>1, <2>1
         DEF EnqueueCall, EnqueueLook, EnqueueReload, EnqueueRetry, Goto, shared,
             Owning, Producing, Consuming
    <3>2. Unpublished' = Unpublished
      BY <3>1 DEF Unpublished, Owning, Producing
    <3>3. ASSUME NEW u \in Threads PROVE Received(u)' = Received(u)
      <4>1. CASE u = t
        BY <3>1, <4>1 DEF Received, Owning, Consuming
      <4>2. CASE u # t
        BY <3>1, <4>2, ReceivedKept
      <4> QED
        BY <4>1, <4>2
    <3> QED
      BY <1>4, <3>1, <3>2, <3>3
  <2>2. ASSUME EnqueueClaim(t) PROVE Abstract!Next
    <3>1. /\ claims' = Append(claims, item[t]) /\ pc[t] = "claim" /\ pc'[t] = "write"
          /\ UNCHANGED <<pos, item, dequeue_pos>> /\ enqueue_pos' = enqueue_pos + 1
          /\ pos[t] = enqueue_pos
          /\ \A u \in Threads : u # t => pc'[u] = pc[u]
      BY <1>1, <2>2 DEF EnqueueClaim, Goto
    <3>2. item[t] \in Items /\ NewItem(t)
      BY <1>2, <3>1 DEF ItemsInv, RingInv, TypeOK, Asking
    <3>3. Len(Waiting) < Cells
      <4>1. enqueue_pos < dequeue_pos + Cells
        BY <1>2, <2>2, ClaimedCellIsFree
      <4> QED
        BY <1>1, <1>2, <4>1, WaitingItems
    <3>4. item[t] \notin Abstract!Contents
      <4>1. \A i \in DOMAIN Waiting : Waiting[i] # item[t]
        <5>1. DOMAIN Waiting = 1 .. enqueue_pos - dequeue_pos
          BY <1>2, WaitingItems, LenProperties
        <5>2. ASSUME NEW i \in 1 .. enqueue_pos - dequeue_pos
              PROVE  Waiting[i] # item[t]
          <6>1. Waiting[i] = claims[dequeue_pos + i] /\ dequeue_pos + i \in 1..Len(claims)
            BY <1>1, <1>2, WaitingItems
          <6> QED
            BY <3>2, <6>1 DEF NewItem
        <5> QED
          BY <5>1, <5>2
      <4> QED
        BY <4>1 DEF Abstract!Contents
    <3>5. Waiting' = Append(Waiting, item[t])
      BY <1>2, <3>1, <3>2, ClaimAppends
    <3>6. Unpublished' = Unpublished \cup {item[t]}
      <4>1. \A u \in Threads : pc'[u] \in Producing <=> pc[u] \in Producing \/ u = t
        BY <3>1 DEF Producing
      <4> QED
        BY <3>1, <4>1 DEF Unpublished, Producing
    <3>7. ASSUME NEW u \in Threads PROVE Received(u)' = Received(u)
      <4>1. \A i \in 1..Len(claims) : claims'[i] = claims[i]
        BY <1>1, <3>1, <3>2, AppendProperties
      <4>2. CASE u = t
        BY <3>1, <4>2 DEF Received
      <4>3. CASE u # t
        <5>1. pc[u] = "read" => claims'[pos[u] + 1] = claims[pos[u] + 1]
          BY <1>3, <4>1 DEF Owning, Consuming
        <5> QED
          BY <3>1, <4>3, <5>1, ReceivedKept
      <4> QED
        BY <4>2, <4>3
    <3>8. Abstract!Claim(item[t])
      BY <3>3, <3>4, <3>5, <3>6, <3>7 DEF Abstract!Claim
    <3> QED
      BY <3>2, <3>8 DEF Abstract!Next
  <2>3. ASSUME EnqueueWrite(t) PROVE UNCHANGED Abstract!vars
    <3>1. /\ UNCHANGED <<claims, dequeue_pos, pos, item>>
          /\ pc[t] = "write" /\ pc'[t] = "publish"
          /\ \A u \in Threads : u # t => pc'[u] = pc[u]
      BY <1>1, <2>3 DEF EnqueueWrite, Goto
    <3>2. Unpublished' = Unpublished
      BY <3>1 DEF Unpublished
    <3>3. ASSUME NEW u \in Threads PROVE Received(u)' = Received(u)
      <4>1. CASE u = t
        BY <3>1, <4>1 DEF Received
      <4>2. CASE u # t
        BY <3>1, <4>2, ReceivedKept
      <4> QED
        BY <4>1, <4>2
    <3> QED
      BY <1>4, <3>1, <3>2, <3>3
  <2>4. ASSUME EnqueuePublish(t) PROVE Abstract!Next
    <3>1. /\ UNCHANGED <<claims, dequeue_pos, pos>> /\ pc[t] = "publish" /\ pc'[t] = "idle"
          /\ \A u \in Threads : u # t => pc'[u] = pc[u] /\ item'[u] = item[u]
      BY <1>1, <2>4 DEF EnqueuePublish, Goto
    <3>2. \A u \in Threads : pc[u] \in Producing =>
            item[u] = claims[pos[u] + 1] /\ pos[u] + 1 \in 1..Len(claims)
      BY <1>2, <1>3 DEF ItemsInv, Owning
    <3>3. pc[t] \in Producing /\ item[t] \in Items
      BY <1>1, <3>1, <3>2, ElementOfSeq DEF Producing
    <3>4. \A u \in Threads : pc[u] \in Producing /\ u # t => item[u] # item[t]
      <4>1. \A u \in Threads : pc[u] \in Producing /\ u # t => pos[u] # pos[t]
        BY <1>2, <3>3 DEF OwnersInv, Owning
      <4>2. \A u \in Threads : pos[u] \in Nat
        BY <1>1
      <4> QED
        BY <1>2, <3>2, <3>3, <4>1, <4>2, SMTT(30) DEF ItemsInv
    <3>5. Unpublished' = Unpublished \ {item[t]}
      <4>1. \A u \in Threads : pc'[u] \in Producing <=> pc[u] \in Producing /\ u # t
        BY <3>1 DEF Producing
      <4> QED
        BY <3>1, <3>4, <4>1 DEF Unpublished, Producing
    <3>6. ASSUME NEW u \in Threads PROVE Received(u)' = Received(u)
      <4>1. CASE u = t
        BY <3>1, <4>1 DEF Received
      <4>2. CASE u # t
        BY <3>1, <4>2, ReceivedKept
      <4> QED
        BY <4>1, <4>2
    <3>7. Waiting' = Waiting
      BY <3>1 DEF Waiting
    <3>8. item[t] \in Unpublished
      BY <3>1 DEF Unpublished
    <3>9. Abstract!Publish(item[t])
      BY <3>5, <3>6, <3>7, <3>8 DEF Abstract!Publish
    <3> QED
      BY <3>3, <3>9 DEF Abstract!Next
  <2> QED
    BY <1>6, <2>1, <2>2, <2>3, <2>4 DEF Enqueue
<1>7. ASSUME NEW t \in Threads, Dequeue(t) PROVE Abstract!Next \/ UNCHANGED Abstract!vars
  <2>1. ASSUME \/ DequeueCall(t) \/ DequeueLook(t) \/ DequeueReload(t)
               \/ DequeueRetry(t) \/ DequeueEmpty(t)
        PROVE  UNCHANGED Abstract!vars
    <3>1. /\ UNCHANGED <<claims, dequeue_pos, item>>
          /\ pc[t] \notin Owning /\ pc'[t] \notin Owning
          /\ \A u \in Threads : u # t => pc'[u] = pc[u] /\ pos'[u] = pos[u]
      BY <1>1, <2>1
         DEF DequeueCall, DequeueLook, DequeueReload, DequeueRetry, DequeueEmpty, Goto, shared,
             Owning, Producing, Consuming
    <3>2. Unpublished' = Unpublished
      BY <3>1 DEF Unpublished, Owning, Producing
    <3>3. ASSUME NEW u \in Threads PROVE Received(u)' = Received(u)
      <4>1. CASE u = t
        BY <3>1, <4>1 DEF Received, Owning, Consuming
      <4>2. CASE u # t
        BY <3>1, <4>2, ReceivedKept
      <4> QED
        BY <4>1, <4>2
    <3> QED
      BY <1>4, <3>1, <3>2, <3>3
  <2>2. ASSUME DequeueTake(t) PROVE Abstract!Next
    <3>1. /\ pc[t] = "take" /\ pc'[t] = "read" /\ pos[t] = dequeue_pos
          /\ UNCHANGED <<pos, claims, item>> /\ dequeue_pos' = dequeue_pos + 1
          /\ \A u \in Threads : u # t => pc'[u] = pc[u]
      BY <1>1, <2>2 DEF DequeueTake, Goto
    <3>2. dequeue_pos < enqueue_pos /\ \A u \in Threads : pc[u] \in Producing => pos[u] # dequeue_pos
      BY <1>2, <2>2, TakenCellIsPublished
    <3>3. /\ Waiting # <<>> /\ Head(Waiting) = claims[dequeue_pos + 1] /\ Waiting' = Tail(Waiting)
      BY <1>2, <3>1, <3>2, TakeRemoves
    <3>4. Head(Waiting) \notin Unpublished
      <4>1. ASSUME NEW u \in Threads, pc[u] \in Producing PROVE item[u] # Head(Waiting)
        <5>1. item[u] = claims[pos[u] + 1] /\ pos[u] + 1 \in 1..Len(claims)
          BY <1>2, <1>3, <4>1 DEF ItemsInv, Owning
        <5>2. dequeue_pos + 1 \in 1..Len(claims) /\ pos[u] + 1 # dequeue_pos + 1
          BY <1>1, <3>2, <4>1
        <5> QED
          BY <1>2, <3>3, <5>1, <5>2 DEF ItemsInv
      <4> QED
        BY <4>1 DEF Unpublished, Producing
    <3>5. Unpublished' = Unpublished
      BY <3>1 DEF Unpublished
    <3>6. Received(t) = None /\ Received(t)' = Head(Waiting)
      BY <3>1, <3>3 DEF Received
    <3>7. \A u \in Threads : u # t => Received(u)' = Received(u)
      BY <3>1, ReceivedKept
    <3>8. Abstract!Take(t)
      BY <3>3, <3>4, <3>5, <3>6, <3>7 DEF Abstract!Take
    <3> QED
      BY <3>8 DEF Abstract!Next
  <2>3. ASSUME DequeueRead(t) PROVE UNCHANGED Abstract!vars
    <3>1. /\ UNCHANGED <<claims, dequeue_pos, pos>> /\ pc[t] = "read" /\ pc'[t] = "free"
          /\ item'[t] = data[Cell(pos[t])]
          /\ \A u \in Threads : u # t => pc'[u] = pc[u] /\ item'[u] = item[u]
      BY <1>1, <2>3 DEF DequeueRead, Goto, shared
    <3>2. Unpublished' = Unpublished
      BY <3>1 DEF Unpublished
    <3>3. data[Cell(pos[t])] = claims[pos[t] + 1]
      BY <1>2, <3>1 DEF DataInv
    <3>4. ASSUME NEW u \in Threads PROVE Received(u)' = Received(u)
      <4>1. CASE u = t
        BY <3>1, <3>3, <4>1 DEF Received
      <4>2. CASE u # t
        BY <3>1, <4>2, ReceivedKept
      <4> QED
        BY <4>1, <4>2
    <3> QED
      BY <1>4, <3>1, <3>2, <3>4
  <2>4. ASSUME DequeueFree(t) PROVE Abstract!Next
    <3>1. /\ UNCHANGED <<claims, dequeue_pos, pos>> /\ pc[t] = "free" /\ pc'[t] = "idle"
          /\ \A u \in Threads : u # t => pc'[u] = pc[u] /\ item'[u] = item[u]
      BY <1>1, <2>4 DEF DequeueFree, Goto
    <3>2. Waiting' = Waiting
      BY <3>1 DEF Waiting
    <3>3. Unpublished' = Unpublished
      BY <3>1 DEF Unpublished
    <3>4. item[t] = claims[pos[t] + 1] /\ item[t] # None
      BY <1>2, <1>3, <3>1 DEF ItemsInv, Owning, Consuming
    <3>5. Received(t) # None /\ Received(t)' = None
      BY <3>1, <3>4 DEF Received
    <3>6. \A u \in Threads : u # t => Received(u)' = Received(u)
      BY <3>1, ReceivedKept
    <3>7. Abstract!HandOn(t)
      BY <3>2, <3>3, <3>5, <3>6 DEF Abstract!HandOn
    <3> QED
      BY <3>7 DEF Abstract!Next
  <2> QED
    BY <1>7, <2>1, <2>2, <2>3, <2>4 DEF Dequeue
<1> QED
  BY <1>5, <1>6, <1>7 DEF Next

(* Items leave in the order in which their positions were claimed, each    *)
(* once and unchanged, and never before they are published.                *)
THEOREM ImplementsClaimQueue ==
    ASSUME Requested > 1
    PROVE  Spec => ClaimQueueSpec
<1>0. RingHasTwoCells
  BY TwoCells
<1> USE <1>0
<1>1. ASSUME Init PROVE Abstract!Init
  <2>1. claims = <<>> /\ dequeue_pos = 0 /\ \A t \in Threads : pc[t] = "idle"
    BY <1>1 DEF Init
  <2>2. Waiting = <<>>
    BY <2>1, SubSeqEmpty, EmptySeq DEF Waiting
  <2>3. Waiting \in UNION {[1..n -> Items] : n \in 0..Cells}
    <3>1. <<>> \in [1..0 -> Items]
      BY EmptySeq, LenProperties
    <3>2. 0 \in 0..Cells
      BY DEF RingHasTwoCells
    <3> QED
      BY <2>2, <3>1, <3>2
  <2>4. Unpublished = {}
    BY <2>1 DEF Unpublished
  <2>5. \A t \in Threads : Received(t) = None
    BY <2>1 DEF Received
  <2> QED
    BY <2>3, <2>4, <2>5 DEF Abstract!Init
<1>2. QueueInv /\ QueueInv' /\ [Next]_vars => [Abstract!Next]_(Abstract!vars)
  BY AbstractStep
<1> QED
  BY <1>1, <1>2, QueueInvariant, PTL DEF Spec, ClaimQueueSpec, Abstract!Spec
=============================================================================
