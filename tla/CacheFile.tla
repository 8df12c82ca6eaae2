------------------------------ MODULE CacheFile -----------------------------
(***************************************************************************)
(* How a run of cob reads .catalyst.bin and writes the next one:           *)
(* writeBinData's loop over two buffers, the rename, and what is left when *)
(* a system call fails, cob is killed or the power goes.  Runs follow one  *)
(* another.                                                                *)
(*                                                                         *)
(* A byte is <<run, place>>: the place-th of the image that this run       *)
(* writes.  Two bytes stand for the header; the second is the checksum.    *)
(***************************************************************************)
EXTENDS Integers, Sequences, FiniteSets

CONSTANTS
    PayloadSize,    \* of each run: a sequence of numbers; its length bounds the runs
    MaxFailures     \* bound: crashes and failing system calls

HeaderSize == 2
Image(r) == [i \in 1 .. HeaderSize + PayloadSize[r] |-> <<r, i>>]
Hole == <<0, 0>>    \* a block that never reached the disk
Missing == <<>>     \* no such file, or an empty one

VARIABLES
    bin, tmp,       \* .catalyst.bin and .catalyst.bin.tmp
    unsynced,       \* what .catalyst.bin has been since it was last known to be on disk
    run, loaded,
    pc,             \* "idle", "building", "write", "close", "rename", "remove"
    buffers, next,  \* writeBinData's iovec array, and next_buffer
    failures, cuts

writer == <<pc, buffers, next>>
cacheVars == <<bin, tmp, unsynced, run, loaded, writer, failures, cuts>>

CacheInit ==
    /\ bin = Missing /\ tmp = Missing /\ unsynced = {Missing}
    /\ run = 0 /\ loaded = 0
    /\ pc = "idle" /\ buffers = <<Missing, Missing>> /\ next = 1
    /\ failures = 0 /\ cuts = 0

Failure == failures < MaxFailures /\ failures' = failures + 1

(***************************************************************************)
(* parseBin: magic and checksum.                                           *)
(***************************************************************************)
Sum(content) == [content EXCEPT ![2] = Hole]    \* the checksum counts as zero
Accepts(content) ==
    /\ Len(content) >= HeaderSize
    /\ content[1] # Hole /\ content[2] # Hole
    /\ Sum(Image(content[2][1])) = Sum(content)

(* The run that meant this; -1 if it is accepted although no run did.      *)
Holds(content) ==
    IF ~Accepts(content) THEN 0
    ELSE IF content = Image(content[2][1]) THEN content[2][1] ELSE -1

Start ==
    /\ pc = "idle"
    /\ run < Len(PayloadSize)
    /\ run' = run + 1
    /\ loaded' = Holds(bin)
    /\ pc' = "building"
    /\ UNCHANGED <<bin, tmp, unsynced, buffers, next, failures, cuts>>

(***************************************************************************)
(* writeBinData and the end of emitBin.  EINTR only repeats a call.        *)
(***************************************************************************)
Open ==
    /\ pc = "building"
    /\ pc' = "write"
    /\ tmp' = Missing
    /\ buffers' = <<SubSeq(Image(run), 1, HeaderSize),
                    SubSeq(Image(run), HeaderSize + 1, Len(Image(run)))>>
    /\ next' = 1
    /\ UNCHANGED <<bin, unsynced, run, loaded, failures, cuts>>

UpTo(i) == (IF next <= 1 /\ 1 <= i THEN Len(buffers[1]) ELSE 0)
            + (IF next <= 2 /\ 2 <= i THEN Len(buffers[2]) ELSE 0)

(* After n bytes: the next buffer, and the buffers without what is written.*)
NextBuffer(n) ==
    CHOOSE i \in next .. 3 : UpTo(i - 1) <= n /\ (i = 3 \/ n < UpTo(i))

KeepBuffers(n) == buffers               \* mutant: a partly written buffer is written from its start
Advanced(n) ==
    LET i == NextBuffer(n)
    IN  IF i = 3 THEN buffers
        ELSE [buffers EXCEPT ![i] = SubSeq(@, n - UpTo(i - 1) + 1, Len(@))]

Write ==
    /\ pc = "write"
    /\ \E n \in 1 .. UpTo(2) :
         /\ tmp' = tmp \o SubSeq((IF next = 1 THEN buffers[1] ELSE <<>>) \o buffers[2], 1, n)
         /\ next' = NextBuffer(n)
         /\ buffers' = Advanced(n)
         /\ pc' = IF next' = 3 THEN "close" ELSE "write"
    /\ UNCHANGED <<bin, unsynced, run, loaded, failures, cuts>>

Close ==
    /\ pc = "close"
    /\ pc' = "rename"
    /\ UNCHANGED <<bin, tmp, unsynced, run, loaded, buffers, next, failures, cuts>>

(* open, writev or close fails.                                            *)
CallFails ==
    /\ pc \in {"building", "write", "close"}
    /\ Failure
    /\ pc' = "remove"
    /\ UNCHANGED <<bin, tmp, unsynced, run, loaded, buffers, next, cuts>>

Remove ==
    /\ pc = "remove"
    /\ tmp' = Missing
    /\ pc' = "idle"
    /\ UNCHANGED <<bin, unsynced, run, loaded, buffers, next, failures, cuts>>

Rename ==
    /\ pc = "rename"
    /\ bin' = tmp
    /\ unsynced' = unsynced \cup {tmp}
    /\ tmp' = Missing
    /\ pc' = "idle"
    /\ UNCHANGED <<run, loaded, buffers, next, failures, cuts>>

RenameFails ==
    /\ pc = "rename"
    /\ Failure
    /\ pc' = "idle"
    /\ UNCHANGED <<bin, tmp, unsynced, run, loaded, buffers, next, cuts>>

(* The run does not save, because no hash changed or the build failed.     *)
Leave ==
    /\ pc = "building"
    /\ pc' = "idle"
    /\ UNCHANGED <<bin, tmp, unsynced, run, loaded, buffers, next, failures, cuts>>

(***************************************************************************)
(* cob is killed: what it has written stays.  Without power, the files go  *)
(* back to something they have been, and bytes of it may be missing:       *)
(* nothing is synced.                                                      *)
(***************************************************************************)
Kill ==
    /\ pc # "idle"
    /\ Failure
    /\ pc' = "idle"
    /\ UNCHANGED <<bin, tmp, unsynced, run, loaded, buffers, next, cuts>>

Holed(content, kept) == [i \in DOMAIN content |-> IF i \in kept THEN content[i] ELSE Hole]
Damaged(content) ==
    {SubSeq(Holed(content, kept), 1, n) : kept \in SUBSET DOMAIN content, n \in 0 .. Len(content)}

PowerCut ==
    /\ Failure
    /\ cuts' = cuts + 1
    /\ pc' = "idle"
    /\ bin' \in UNION {Damaged(content) : content \in unsynced}
    /\ unsynced' = {bin'}
    /\ tmp' \in {Missing, tmp}
    /\ UNCHANGED <<run, loaded, buffers, next>>

CacheNext ==
    \/ Start \/ Leave
    \/ Open \/ Write \/ Close \/ Rename
    \/ CallFails \/ RenameFails \/ Remove
    \/ Kill \/ PowerCut

CacheSpec == CacheInit /\ [][CacheNext]_cacheVars

-----------------------------------------------------------------------------
(* Through partial writes, failing calls, kills and power cuts, what a run *)
(* accepts is the whole of what an earlier run meant to write (parseBin    *)
(* takes offsets and counts from it unchecked), and unless the power went  *)
(* it is the latest that was saved.  The incremental build takes the cache *)
(* to be such a cell.                                                      *)
Atomic == INSTANCE AtomicCache WITH cache <- Holds(bin)
CacheIsAtomic == Atomic!Spec
=============================================================================
