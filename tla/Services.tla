------------------------------- MODULE Services ------------------------------
(***************************************************************************)
(* What cob asks of the operating system: the cache file, the files that   *)
(* clean removes, response files, commands, and the times of the sources.  *)
(* They work on files and processes of their own, so each behaviour is one *)
(* of one of them (part), and the others stay as they are at the start.    *)
(***************************************************************************)
EXTENDS Integers, Sequences

CONSTANTS
    PayloadSize, MaxFailures,                               \* CacheFile
    MaxPaths, Depth,                                        \* CleanRing
    Links, Versions, Long, Rsp, TornWrites, MaxTime,        \* ResponseFiles
    Workers, Outputs, PipeSize,                             \* ProcessExec
    Graphs, Times, ThreadCounts, StatsPerThread             \* SourceTimes

VARIABLES
    part,
    bin, tmp, unsynced, run, loaded, saving, buffers, next, failures, cuts,
    paths, files, cleaning, offset, prepared, submitted, inKernel, completions, seen,
    clock, version, mtime, rsp, linked, graph, linking,
    pc, capture, readEnd, writeEnd, child, holds, orphan, output, pipe, captured, failed,
    vertices, file, stage, at, edge, pending, ranges, sources, producedIn

cacheState == <<bin, tmp, unsynced, run, loaded, saving, buffers, next, failures, cuts>>
cleanState == <<paths, files, cleaning, offset, prepared, submitted, inKernel, completions, seen>>
rspState == <<clock, version, mtime, rsp, linked, graph, linking>>
procState == <<pc, capture, readEnd, writeEnd, child, holds, orphan, output, pipe, captured, failed>>
timesState == <<vertices, file, stage, at, edge, pending, ranges, sources, producedIn>>
vars == <<part, cacheState, cleanState, rspState, procState, timesState>>

Cache == INSTANCE CacheFile WITH pc <- saving
Clean == INSTANCE CleanRing WITH pc <- cleaning
Response == INSTANCE ResponseFiles WITH output <- linked, pc <- linking
Exec == INSTANCE ProcessExec
Sources == INSTANCE SourceTimes

-----------------------------------------------------------------------------
Parts == {"cache", "clean", "rsp", "exec", "times"}

Init ==
    /\ part \in Parts
    /\ part # "clean" => paths = 0 /\ files = {}
    /\ part # "times" => vertices = <<>> /\ file = <<>>
    /\ Cache!CacheInit /\ Clean!CleanInit /\ Response!RspInit /\ Exec!ProcInit /\ Sources!SourceInit

Next ==
    /\ UNCHANGED part
    /\ \/ part = "cache" /\ Cache!CacheNext /\ UNCHANGED <<cleanState, rspState, procState, timesState>>
       \/ part = "clean" /\ Clean!CleanNext /\ UNCHANGED <<cacheState, rspState, procState, timesState>>
       \/ part = "rsp" /\ Response!RspNext /\ UNCHANGED <<cacheState, cleanState, procState, timesState>>
       \/ part = "exec" /\ Exec!ProcNext /\ UNCHANGED <<cacheState, cleanState, rspState, timesState>>
       \/ part = "times" /\ Sources!SourceNext
          /\ UNCHANGED <<cacheState, cleanState, rspState, procState>>

(* The fairness of ProcessExec, while it is the part that runs.            *)
Running(A) == part = "exec" /\ A /\ UNCHANGED <<part, cacheState, cleanState, rspState, timesState>>
Fairness == \A w \in Workers : /\ WF_vars(Running(Exec!WorkerStep(w)))
                               /\ WF_vars(Running(Exec!CommandStep(w)))
                               /\ WF_vars(Running(Exec!OrphanEnds(w)))

Spec == Init /\ [][Next]_vars /\ Fairness

(***************************************************************************)
(* The properties, as the modules state them.                              *)
(***************************************************************************)
(* The cache file is a cell that changes as a whole (AtomicCache), through *)
(* partial writes, failing calls, kills and power cuts.                    *)
CacheIsAtomic == Cache!CacheIsAtomic
(* No file is left when clean returns.                                     *)
AllRemoved == Clean!AllRemoved
(* A link step that is done was linked from its own inputs.                *)
LinkedFromItsInputs == Response!LinkedFromItsInputs
(* What is captured of a command is all it wrote.                          *)
OutputComplete == Exec!OutputComplete
(* No descriptor and no child is left when process_exec returns.           *)
NothingLeft == Exec!NothingLeft
(* The summary of the sources answers as a look at every input would.      *)
SummaryAnswers == Sources!SummaryAnswers
(* Every call of process_exec returns.                                     *)
CallsReturn == part = "exec" => Exec!CallsReturn
=============================================================================
