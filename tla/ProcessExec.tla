----------------------------- MODULE ProcessExec ----------------------------
(***************************************************************************)
(* processExecLinux on several workers at once: the capture pipe, the      *)
(* child and what it may leave behind, the end of the output and the wait  *)
(* for the child.  EINTR only repeats a call.                              *)
(***************************************************************************)
EXTENDS Integers, Sequences

CONSTANTS
    Workers,
    Outputs,        \* how much a command may write: subset of Nat
    PipeSize        \* what the kernel keeps for a reader

VARIABLES
    pc,             \* "call", "fork", "spawn", "close", "drain", "closeRead", "wait", "returned"
    capture,        \* whether the output is captured
    readEnd, writeEnd,      \* cob's descriptors of the worker's pipe
    child,          \* "none", "forked", "running", "zombie", "reaped"
    holds,          \* pipes of which the child holds the write end
    orphan,         \* whether a descendant of the child holds its output
    output,         \* how much the child is going to write, and has written
    pipe,           \* what is in the pipe
    captured,
    failed          \* whether an error is to be returned

procVars == <<pc, capture, readEnd, writeEnd, child, holds, orphan, output, pipe, captured, failed>>

ProcInit ==
    /\ pc = [w \in Workers |-> "call"]
    /\ capture = [w \in Workers |-> FALSE]
    /\ readEnd = [w \in Workers |-> FALSE] /\ writeEnd = [w \in Workers |-> FALSE]
    /\ child = [w \in Workers |-> "none"]
    /\ holds = [w \in Workers |-> {}]
    /\ orphan = [w \in Workers |-> FALSE]
    /\ output = [w \in Workers |-> [total |-> 0, written |-> 0]]
    /\ pipe = [w \in Workers |-> <<>>]
    /\ captured = [w \in Workers |-> <<>>]
    /\ failed = [w \in Workers |-> FALSE]

Goto(w, label) == pc' = [pc EXCEPT ![w] = label]
Set(f, w, value) == [f EXCEPT ![w] = value]

(***************************************************************************)
(* The worker                                                              *)
(***************************************************************************)
(* The destructors close what is still open.                               *)
ReturnError(w) ==
    /\ Goto(w, "returned")
    /\ failed' = Set(failed, w, TRUE)
    /\ readEnd' = Set(readEnd, w, FALSE)
    /\ writeEnd' = Set(writeEnd, w, FALSE)

Call(w) ==
    /\ pc[w] = "call"
    /\ \E c \in BOOLEAN, n \in Outputs :
         /\ capture' = Set(capture, w, c)
         /\ readEnd' = Set(readEnd, w, c)
         /\ writeEnd' = Set(writeEnd, w, c)
         /\ output' = [output EXCEPT ![w].total = n]
    /\ Goto(w, "fork")
    /\ UNCHANGED <<child, holds, orphan, pipe, captured, failed>>

(* The environment is refused, or pipe2 or a preparation of spawn fails.   *)
CallFails(w) ==
    /\ pc[w] \in {"call", "fork"}
    /\ ReturnError(w)
    /\ UNCHANGED <<capture, child, holds, orphan, output, pipe, captured>>

(* posix_spawn: until the program is started, the child has copies of all  *)
(* descriptors of cob, those of other workers' pipes included.             *)
Fork(w) ==
    /\ pc[w] = "fork"
    /\ Goto(w, "spawn")
    /\ child' = Set(child, w, "forked")
    /\ holds' = Set(holds, w, {v \in Workers : writeEnd[v]})
    /\ UNCHANGED <<capture, readEnd, writeEnd, orphan, output, pipe, captured, failed>>

Spawn(w) ==
    /\ pc[w] = "spawn"
    /\ Goto(w, "close")
    /\ child' = Set(child, w, "running")
    /\ holds' = Set(holds, w, IF capture[w] THEN {w} ELSE {})
    /\ UNCHANGED <<capture, readEnd, writeEnd, orphan, output, pipe, captured, failed>>

SpawnFails(w) ==
    /\ pc[w] = "spawn"
    /\ child' = Set(child, w, "none")
    /\ holds' = Set(holds, w, {})
    /\ ReturnError(w)
    /\ UNCHANGED <<capture, orphan, output, pipe, captured>>

KeepWriteEnd(w) ==                      \* mutant: capture_write stays open until the return
    /\ pc[w] = "close"
    /\ Goto(w, IF capture[w] THEN "drain" ELSE "wait")
    /\ UNCHANGED <<capture, readEnd, writeEnd, child, holds, orphan, output, pipe, captured, failed>>

CloseWriteEnd(w) ==
    /\ pc[w] = "close"
    /\ writeEnd' = Set(writeEnd, w, FALSE)
    /\ Goto(w, IF capture[w] THEN "drain" ELSE "wait")
    /\ UNCHANGED <<capture, readEnd, child, holds, orphan, output, pipe, captured, failed>>

(* drainOutput                                                             *)
Read(w) ==
    /\ pc[w] = "drain"
    /\ \E n \in 1 .. Len(pipe[w]) :
         /\ captured' = [captured EXCEPT ![w] = @ \o SubSeq(pipe[w], 1, n)]
         /\ pipe' = [pipe EXCEPT ![w] = SubSeq(@, n + 1, Len(@))]
    /\ UNCHANGED <<pc, capture, readEnd, writeEnd, child, holds, orphan, output, failed>>

Writable(v) == writeEnd[v] \/ orphan[v] \/ \E w \in Workers : v \in holds[w]

EndWhenChildExits(w) ==                 \* mutant: the output ends with the child
    /\ pc[w] = "drain"
    /\ child[w] = "zombie"
    /\ Goto(w, "closeRead")
    /\ UNCHANGED <<capture, readEnd, writeEnd, child, holds, orphan, output, pipe, captured, failed>>

EndOfOutput(w) ==
    /\ pc[w] = "drain"
    /\ pipe[w] = <<>> /\ ~Writable(w)
    /\ Goto(w, "closeRead")
    /\ UNCHANGED <<capture, readEnd, writeEnd, child, holds, orphan, output, pipe, captured, failed>>

ReturnOnReadError(w) ==                 \* mutant: the child is not waited for
    /\ pc[w] = "drain"
    /\ ReturnError(w)
    /\ UNCHANGED <<capture, child, holds, orphan, output, pipe, captured>>

ReadFails(w) ==
    /\ pc[w] = "drain"
    /\ failed' = Set(failed, w, TRUE)
    /\ Goto(w, "closeRead")
    /\ UNCHANGED <<capture, readEnd, writeEnd, child, holds, orphan, output, pipe, captured>>

CloseReadEnd(w) ==
    /\ pc[w] = "closeRead"
    /\ readEnd' = Set(readEnd, w, FALSE)
    /\ Goto(w, "wait")
    /\ UNCHANGED <<capture, writeEnd, child, holds, orphan, output, pipe, captured, failed>>

WaitForProcess(w) ==
    /\ pc[w] = "wait"
    /\ child[w] = "zombie"
    /\ child' = Set(child, w, "reaped")
    /\ Goto(w, "returned")
    /\ UNCHANGED <<capture, readEnd, writeEnd, holds, orphan, output, pipe, captured, failed>>

(***************************************************************************)
(* The command and its descendants                                         *)
(***************************************************************************)
Exit(w) ==
    /\ child[w] = "running"
    /\ output[w].written = output[w].total
    /\ child' = Set(child, w, "zombie")
    /\ holds' = Set(holds, w, {})
    /\ UNCHANGED <<pc, capture, readEnd, writeEnd, orphan, output, pipe, captured, failed>>

(* A full pipe blocks the command; one without a reader kills it.          *)
Write(w) ==
    /\ child[w] = "running"
    /\ output[w].written < output[w].total
    /\ IF w \in holds[w] /\ ~readEnd[w]
       THEN /\ child' = Set(child, w, "zombie")
            /\ holds' = Set(holds, w, {})
            /\ UNCHANGED <<output, pipe>>
       ELSE /\ w \in holds[w] => Len(pipe[w]) < PipeSize
            /\ output' = [output EXCEPT ![w].written = @ + 1]
            /\ pipe' = IF w \in holds[w] THEN [pipe EXCEPT ![w] = Append(@, output'[w].written)]
                       ELSE pipe
            /\ UNCHANGED <<child, holds>>
    /\ UNCHANGED <<pc, capture, readEnd, writeEnd, orphan, captured, failed>>

LeaveOrphan(w) ==
    /\ child[w] = "running"
    /\ w \in holds[w]
    /\ orphan' = Set(orphan, w, TRUE)
    /\ UNCHANGED <<pc, capture, readEnd, writeEnd, child, holds, output, pipe, captured, failed>>

OrphanEnds(w) ==
    /\ orphan[w]
    /\ child[w] # "running"
    /\ orphan' = Set(orphan, w, FALSE)
    /\ UNCHANGED <<pc, capture, readEnd, writeEnd, child, holds, output, pipe, captured, failed>>

-----------------------------------------------------------------------------
(* What goes on by itself, and what may happen.                            *)
WorkerStep(w) ==
    \/ Call(w) \/ Fork(w) \/ Spawn(w) \/ CloseWriteEnd(w)
    \/ Read(w) \/ EndOfOutput(w) \/ CloseReadEnd(w) \/ WaitForProcess(w)
CommandStep(w) == Write(w) \/ Exit(w)
Mishap(w) == CallFails(w) \/ SpawnFails(w) \/ ReadFails(w) \/ LeaveOrphan(w)

ProcNext == \E w \in Workers : WorkerStep(w) \/ CommandStep(w) \/ OrphanEnds(w) \/ Mishap(w)

(* Threads and processes are scheduled, commands end and so do the         *)
(* processes they leave behind; nothing need ever fail.                    *)
ProcFairness == \A w \in Workers : /\ WF_procVars(WorkerStep(w))
                                   /\ WF_procVars(CommandStep(w))
                                   /\ WF_procVars(OrphanEnds(w))

ProcSpec == ProcInit /\ [][ProcNext]_procVars /\ ProcFairness

(***************************************************************************)
(* Properties.                                                             *)
(***************************************************************************)
Returned(w) == pc[w] = "returned"

(* A capture that succeeds has all the command has written, in order,      *)
(* however the pipe was filled and emptied.                                *)
OutputComplete ==
    \A w \in Workers : Returned(w) /\ ~failed[w] /\ capture[w] =>
        captured[w] = [i \in 1 .. output[w].total |-> i]

(* When process_exec has returned, an error included, its pipe is closed   *)
(* and its child gone: a build of thousands of steps neither runs out of   *)
(* descriptors nor gathers dead processes.                                 *)
NothingLeft ==
    \A w \in Workers : Returned(w) => ~readEnd[w] /\ ~writeEnd[w] /\ child[w] \in {"none", "reaped"}

(* Every call returns: the worker does not hold the end of the pipe that   *)
(* it waits for to close, another worker's child gives its copy up, and a  *)
(* child is not left blocked in a full pipe while it is being waited for.  *)
CallsReturn == \A w \in Workers : <>Returned(w)
=============================================================================
