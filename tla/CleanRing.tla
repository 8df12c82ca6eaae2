------------------------------ MODULE CleanRing -----------------------------
(***************************************************************************)
(* unlinkWithIoUring: cob clean removes its files in batches of requests   *)
(* to the kernel, which carries them out in any order, and falls back to   *)
(* one unlink after the other when the ring disappoints.                   *)
(***************************************************************************)
EXTENDS Integers, Sequences, FiniteSets

CONSTANTS
    MaxPaths,       \* bound: paths to remove, 1 .. n
    Depth           \* CLEAN_QUEUE_DEPTH

VARIABLES
    paths,          \* how many
    files,          \* those that exist
    pc,             \* "init", "prepare", "submit", "wait", "reap", "fallback", "done"
    offset,
    prepared,       \* entries of the submission queue, in order
    submitted,      \* requests of this batch that the kernel has taken
    inKernel,       \* those that it still has to carry out
    completions,    \* the completion queue: <<path, whether it failed>>
    seen            \* completions of this batch that were looked at

ring == <<prepared, submitted, inKernel, completions, seen>>
cleanVars == <<paths, files, pc, offset, ring>>

CleanInit ==
    /\ paths \in 0 .. MaxPaths
    /\ files \in SUBSET (1 .. paths)
    /\ pc = "init" /\ offset = 0
    /\ prepared = <<>> /\ submitted = 0 /\ inKernel = {} /\ completions = <<>> /\ seen = 0

Smaller(a, b) == IF a < b THEN a ELSE b
Count == Smaller(paths - offset, Depth)

QueueInit ==
    /\ pc = "init"
    /\ pc' = "prepare"
    /\ UNCHANGED <<paths, files, offset, ring>>

QueueInitFails ==
    /\ pc = "init"
    /\ pc' = "fallback"
    /\ UNCHANGED <<paths, files, offset, ring>>

Prepare ==
    /\ pc = "prepare"
    /\ offset < paths
    /\ prepared' = [i \in 1 .. Count |-> offset + i]
    /\ submitted' = 0
    /\ seen' = 0
    /\ pc' = "submit"
    /\ UNCHANGED <<paths, files, offset, inKernel, completions>>

(* io_uring_submit takes some of the entries; EINTR repeats the call.      *)
Submit ==
    /\ pc = "submit"
    /\ submitted < Count
    /\ \E n \in 1 .. Len(prepared) :
         /\ submitted' = submitted + n
         /\ inKernel' = inKernel \cup {prepared[i] : i \in 1 .. n}
         /\ prepared' = SubSeq(prepared, n + 1, Len(prepared))
    /\ UNCHANGED <<paths, files, pc, offset, completions, seen>>

Submitted ==
    /\ pc = "submit"
    /\ submitted = Count
    /\ pc' = "wait"
    /\ UNCHANGED <<paths, files, offset, ring>>

(* It takes none, or fails: what was submitted is waited for, and then the *)
(* ring is given up.                                                       *)
SubmitFails ==
    /\ pc = "submit"
    /\ submitted < Count
    /\ pc' = "wait"
    /\ UNCHANGED <<paths, files, offset, ring>>

(* The kernel                                                              *)
Unlink(path) ==
    /\ path \in inKernel
    /\ inKernel' = inKernel \ {path}
    /\ \E failed \in BOOLEAN :
         /\ completions' = Append(completions, <<path, failed>>)
         /\ files' = IF failed THEN files ELSE files \ {path}
    /\ UNCHANGED <<paths, pc, offset, prepared, submitted, seen>>

Wait ==
    /\ pc = "wait"
    /\ Len(completions) >= submitted
    /\ pc' = IF submitted = Count THEN "reap" ELSE "fallback"
    /\ UNCHANGED <<paths, files, offset, ring>>

WaitFails ==
    /\ pc = "wait"
    /\ submitted > 0
    /\ pc' = "fallback"
    /\ UNCHANGED <<paths, files, offset, ring>>

(* Failed requests, other than for a file that is not there, are repeated. *)
Reap ==
    /\ pc = "reap"
    /\ seen < submitted
    /\ completions # <<>>
    /\ LET completion == Head(completions)
       IN  files' = IF completion[2] THEN files \ {completion[1]} ELSE files
    /\ completions' = Tail(completions)
    /\ seen' = seen + 1
    /\ UNCHANGED <<paths, pc, offset, prepared, submitted, inKernel>>

NextBatch ==
    /\ pc = "reap"
    /\ seen = submitted
    /\ offset' = offset + Count
    /\ pc' = "prepare"
    /\ UNCHANGED <<paths, files, ring>>

(* unlinkSynchronously.  The ring is gone, and with it the requests that   *)
(* it had not carried out.                                                 *)
FallBackBehindSubmitted ==              \* mutant: trusts what was submitted
    /\ pc = "fallback"
    /\ files' = files \ (offset + submitted + 1 .. paths)
    /\ prepared' = <<>> /\ inKernel' = {} /\ completions' = <<>>
    /\ pc' = "done"
    /\ UNCHANGED <<paths, offset, submitted, seen>>

FallBack ==
    /\ pc = "fallback"
    /\ files' = files \ (offset + 1 .. paths)
    /\ prepared' = <<>> /\ inKernel' = {} /\ completions' = <<>>
    /\ pc' = "done"
    /\ UNCHANGED <<paths, offset, submitted, seen>>

QueueExit ==
    /\ pc = "prepare"
    /\ offset >= paths
    /\ pc' = "done"
    /\ UNCHANGED <<paths, files, offset, ring>>

CleanNext ==
    \/ QueueInit \/ QueueInitFails
    \/ Prepare \/ Submit \/ Submitted \/ SubmitFails
    \/ \E path \in inKernel : Unlink(path)
    \/ Wait \/ WaitFails \/ Reap \/ NextBatch
    \/ FallBack \/ QueueExit

CleanSpec == CleanInit /\ [][CleanNext]_cleanVars

-----------------------------------------------------------------------------
(* Whatever part of the requests the kernel takes, fails or never answers, *)
(* and in whatever order it carries them out, no file is left when clean   *)
(* returns.                                                                *)
AllRemoved == pc = "done" => files = {}
=============================================================================
