-------------------------- MODULE IncrementalBuild ---------------------------
(***************************************************************************)
(* Successive runs of cob over one directory: what parse, parseBin,        *)
(* emitBin, needsRebuild, processStep, execute and clean read from and     *)
(* leave in the file system, and what they conclude from it.               *)
(*                                                                         *)
(* A file has a modification time and a content.  The content of a source, *)
(* a header or a manifest is the number of times it was edited, that of an *)
(* output says from which contents and with which command it was produced. *)
(* A run is a sequence of steps, so that an edit or an interrupt can come  *)
(* between any two.  How the workers share out the steps of one run is the *)
(* subject of module Scheduler; here a step may start as soon as its       *)
(* producers are done.                                                     *)
(***************************************************************************)
EXTENDS Integers, FiniteSets

CONSTANTS
    Steps,             \* build steps, named by their outputs
    Sources,           \* files that steps list as inputs, parsed or opaque
    Headers,           \* files that compilers read without being listed
    Manifests,         \* build manifests (-f)
    Inputs,            \* the listed inputs of each step
    Includes,          \* the headers each step reads; only compile steps read any
    Overrides,         \* definitions given on the command line (VAR=value)
    Faulty,            \* steps whose command may fail
    Leftovers,         \* what a failing command leaves: "old", "nothing", "partial"
    EditsDuringBuild,  \* files that may be edited while a run is under way
    HeaderEdits,       \* which headers are edited: "known" to the cache, or "any"
    Coarse,            \* whether two writes can have the same modification time
    MaxEdits,          \* bound: edits of files
    MaxRuns,           \* bound: invocations of cob
    MaxFaults,         \* bound: how often .catalyst.bin cannot be read or written
    None               \* no file, no override

ASSUME FilesAssumption ==
    /\ Inputs \in [Steps -> SUBSET (Sources \cup Steps)]
    /\ Includes \in [Steps -> SUBSET Headers]
ASSUME EnvironmentAssumption ==
    /\ Faulty \subseteq Steps
    /\ Leftovers \subseteq {"old", "nothing", "partial"} /\ Leftovers # {}
    /\ EditsDuringBuild \subseteq Sources \cup Headers \cup Manifests
    /\ HeaderEdits \in {"known", "any"} /\ Coarse \in BOOLEAN
    /\ MaxFaults \in Nat /\ MaxEdits \in Nat

Edited == Sources \cup Headers \cup Manifests
ASSUME RolesAssumption ==
    /\ Edited \cap Steps = {}
    /\ \A m \in Manifests, v \in 0..MaxEdits : <<m, v>> # None
Reads(s) == Inputs[s] \cup Includes[s]
Compiles == {s \in Steps : Includes[s] # {}}

VARIABLES
    \* the file system
    clock,     \* the time of the last write
    version,   \* content of the edited files
    mtime,     \* modification times; 0: the file does not exist
    artifact,  \* content of the outputs
    depfiles,  \* steps whose .d file exists
    bin,       \* .catalyst.bin: its time, definitions, depfile inputs, command hashes
    \* the process
    run,       \* where main() is, what it was asked for, and what the files were then
    graph,     \* the definitions and the graph it has loaded
    sources,   \* NodeTimes::sources, the times statSources saw
    build_file_slot,  \* the manifest's time as the first step to ask for it saw it; 0: UNKNOWN
    state,     \* per step: "waiting", "running", "done", "failed"
    output,    \* what a running command will have produced
    \* history and bounds
    settled,   \* the command line of the last successful build that nothing disturbed
    raced,     \* whether a file was edited while a run was under way
    due,       \* the content each manifest was given by its last edit between runs
    edits,
    runs,
    faults

disk == <<clock, version, mtime, artifact, depfiles, bin>>
process == <<graph, sources, build_file_slot, state, output>>
vars == <<disk, run, process, settled, raced, due, edits, runs, faults>>

(* Command lines stand for their hashes; a hash is None until one is known *)
(* (command_hash = 0).                                                     *)
NoHashes == [s \in Steps |-> None]
Idle == [at |-> "idle", mode |-> None, manifest |-> None, override |-> None, saw |-> None]
At(label) == [run EXCEPT !.at = label]

Init ==
    /\ clock = 1
    /\ version = [f \in Edited |-> 0]
    /\ mtime = [f \in Edited \cup Steps |-> IF f \in Edited THEN 1 ELSE 0]
    /\ artifact = [s \in Steps |-> None]
    /\ depfiles = {}
    /\ bin = None
    /\ run = Idle
    /\ graph = None
    /\ sources = None
    /\ build_file_slot = 0
    /\ state = [s \in Steps |-> "waiting"]
    /\ output = [s \in Steps |-> None]
    /\ settled = None
    /\ raced = FALSE
    /\ due = [m \in Manifests |-> 0]
    /\ edits = 0
    /\ runs = 0
    /\ faults = 0

(* .catalyst.bin cannot be mapped, opened, written or renamed.             *)
Fault == faults < MaxFaults /\ faults' = faults + 1

(* The times a write can get.                                              *)
Stamps == IF Coarse THEN {clock, clock + 1} ELSE {clock + 1}

(* The definitions a manifest makes: they change with every edit of it.    *)
ManifestFlags(m) == <<m, version[m]>>

(* What the command of a step would produce now.                           *)
Product(s) ==
    [flags |-> graph.flags,
     from |-> [i \in Reads(s) |-> IF i \in Steps THEN artifact[i] ELSE version[i]]]

(***************************************************************************)
(* The user.                                                               *)
(***************************************************************************)
Edit(f) ==
    /\ run.at = "idle" \/ f \in EditsDuringBuild
    /\ edits < MaxEdits /\ edits' = edits + 1
    /\ f \in Headers /\ HeaderEdits = "known" =>
         bin # None /\ \A s \in Steps : f \in Includes[s] => s \in bin.discovered
    /\ \E t \in Stamps : clock' = t /\ mtime' = [mtime EXCEPT ![f] = t]
    /\ version' = [version EXCEPT ![f] = @ + 1]
    /\ settled' = None
    /\ raced' = (raced \/ run.at # "idle")
    /\ due' = [m \in Manifests |-> IF m = f /\ run.at = "idle" THEN version'[m] ELSE due[m]]
    /\ UNCHANGED <<artifact, depfiles, bin, run, process, runs, faults>>

(* cob -f m, with -n, -t clean or one of the tools that only print.  The   *)
(* files as they are now are kept for settled: the program has no copy.    *)
Invoke(m, mode, override) ==
    /\ run.at = "idle"
    /\ runs < MaxRuns
    /\ runs' = runs + 1
    /\ run' = [at |-> "parse", mode |-> mode, manifest |-> m, override |-> override,
               saw |-> version]
    /\ UNCHANGED <<disk, process, settled, raced, due, edits, faults>>

(***************************************************************************)
(* parse.                                                                  *)
(***************************************************************************)
CacheValidOnTie(m) == bin # None /\ bin.time >= mtime[m]       \* mutant: equal times count as newer
CacheValid(m) == bin # None /\ bin.time > mtime[m]

(* parseBin: definitions, graph and hashes are those of the cache; the .d  *)
(* files are not looked at.                                                *)
ReadCache ==
    /\ run.at = "parse"
    /\ CacheValid(run.manifest)
    /\ graph' = [flags |-> bin.flags, discovered |-> bin.discovered, hash |-> bin.hash,
               loaded |-> bin.hash]
    /\ run' = At("parsed")
    /\ UNCHANGED <<disk, sources, build_file_slot, state, output, settled, raced, due, edits, runs, faults>>

(* The text of the manifest, also if the cache cannot be mapped or read;   *)
(* addStep reads the .d files there are.                                   *)
ReadManifestKeepingHashes ==                                    \* mutant: hashes survive a new manifest
    /\ run.at = "parse"
    /\ IF CacheValid(run.manifest) THEN Fault ELSE UNCHANGED faults
    /\ graph' = [flags |-> ManifestFlags(run.manifest), discovered |-> depfiles,
                 hash |-> IF bin = None THEN NoHashes ELSE bin.hash, loaded |-> NoHashes]
    /\ run' = At("emit")
    /\ settled' = IF CacheValid(run.manifest) THEN None ELSE settled
    /\ UNCHANGED <<disk, sources, build_file_slot, state, output, raced, due, edits, runs>>

ReadManifest ==
    /\ run.at = "parse"
    /\ IF CacheValid(run.manifest) THEN Fault ELSE UNCHANGED faults
    /\ graph' = [flags |-> ManifestFlags(run.manifest), discovered |-> depfiles, hash |-> NoHashes,
               loaded |-> NoHashes]
    /\ run' = At("emit")
    /\ settled' = IF CacheValid(run.manifest) THEN None ELSE settled
    /\ UNCHANGED <<disk, sources, build_file_slot, state, output, raced, due, edits, runs>>

(* emitBin: the temporary file is renamed over the cache in one step.      *)
WriteCache ==
    \E t \in Stamps :
        /\ clock' = t
        /\ bin' = [time |-> t, flags |-> graph.flags, discovered |-> graph.discovered,
                   hash |-> graph.hash]

EmitParsed ==
    /\ run.at = "emit"
    /\ WriteCache
    /\ run' = At("parsed")
    /\ UNCHANGED <<version, mtime, artifact, depfiles, process, settled, raced, due, edits, runs, faults>>

(* The result of emitBin is not looked at; what was there before stays.    *)
EmitFails ==
    /\ Fault
    /\ run.at = "emit"
    /\ run' = At("parsed")
    /\ UNCHANGED <<disk, process, settled, raced, due, edits, runs>>

(***************************************************************************)
(* main: overrides, then the tool that was asked for.                      *)
(***************************************************************************)
(* overrideDefinition, and the constructor of NodeTimes.                   *)
StartExecute ==
    /\ run.at = "parsed"
    /\ run.mode \in {"build", "dry"}
    /\ graph' = IF run.override = None THEN graph ELSE [graph EXCEPT !.flags = run.override]
    /\ sources' = [f \in Sources \cup Headers |-> mtime[f]]
    /\ build_file_slot' = 0
    /\ run' = At("execute")
    /\ UNCHANGED <<disk, state, output, settled, raced, due, edits, runs, faults>>

(* clean removes the outputs, and the .d files of compile steps; with -i   *)
(* only those of compile steps.                                            *)
Cleaned == CASE run.mode = "clean" -> Steps
             [] run.mode = "cleancc" -> Compiles
             [] OTHER -> {}

RunTool ==
    /\ run.at = "parsed"
    /\ run.mode \notin {"build", "dry"}
    /\ mtime' = [f \in DOMAIN mtime |-> IF f \in Cleaned THEN 0 ELSE mtime[f]]
    /\ artifact' = [s \in Steps |-> IF s \in Cleaned THEN None ELSE artifact[s]]
    /\ depfiles' = depfiles \ Cleaned
    /\ settled' = IF Cleaned = {} THEN settled ELSE None
    /\ run' = Idle
    /\ graph' = None
    /\ UNCHANGED <<clock, version, bin, sources, build_file_slot, state, output, raced, due, edits, runs, faults>>

(***************************************************************************)
(* execute: needsRebuild and processStep for each step.                    *)
(***************************************************************************)
(* The in-edges of a step's node: listed inputs and those of the .d file   *)
(* that was read when the graph was built.                                 *)
KnownInputs(s) == Inputs[s] \cup (IF s \in graph.discovered THEN Includes[s] ELSE {})
InputTime(f) == IF f \in Steps THEN mtime[f] ELSE sources[f]

NewerOnly(f, s) == InputTime(f) = 0 \/ InputTime(f) > mtime[s]  \* mutant: equal times are up to date
ChangedSince(f, s) == InputTime(f) = 0 \/ InputTime(f) >= mtime[s]

(* buildFileChangedSince looks at the manifest once and keeps its time; a  *)
(* step whose output is absent or has another hash does not ask for it.    *)
(* Two steps that both look first are in module NodeTimes.                 *)
BuildFileTime == IF build_file_slot = 0 THEN mtime[run.manifest] ELSE build_file_slot
LooksAtManifest(s) == mtime[s] # 0 /\ graph.hash[s] = graph.flags
FillSlot(s) ==
    build_file_slot' = IF LooksAtManifest(s) THEN BuildFileTime ELSE build_file_slot

NeedsRebuild(s) ==
    \/ ~LooksAtManifest(s)
    \/ BuildFileTime >= mtime[s]
    \/ \E f \in KnownInputs(s) : ChangedSince(f, s)

Runnable(s) ==
    /\ run.at = "execute"
    /\ state[s] = "waiting"
    /\ \A i \in Inputs[s] \cap Steps : state[i] = "done"

(* Up to date, or a dry run, which only prints the step.                   *)
Skip(s) ==
    /\ Runnable(s)
    /\ NeedsRebuild(s) => run.mode = "dry"
    /\ FillSlot(s)
    /\ state' = [state EXCEPT ![s] = "done"]
    /\ UNCHANGED <<disk, run, graph, sources, output, settled, raced, due, edits, runs, faults>>

(* process_exec: the command reads its inputs when it starts.              *)
Start(s) ==
    /\ Runnable(s)
    /\ run.mode = "build"
    /\ NeedsRebuild(s)
    /\ FillSlot(s)
    /\ state' = [state EXCEPT ![s] = "running"]
    /\ output' = [output EXCEPT ![s] = Product(s)]
    /\ UNCHANGED <<disk, run, graph, sources, settled, raced, due, edits, runs, faults>>

FinishUnhashed(s) ==                                            \* mutant: the hash is not noted
    /\ state[s] = "running"
    /\ \E t \in Stamps : clock' = t /\ mtime' = [mtime EXCEPT ![s] = t]
    /\ artifact' = [artifact EXCEPT ![s] = output[s]]
    /\ depfiles' = IF s \in Compiles THEN depfiles \cup {s} ELSE depfiles
    /\ state' = [state EXCEPT ![s] = "done"]
    /\ output' = [output EXCEPT ![s] = None]
    /\ UNCHANGED <<version, bin, run, graph, sources, build_file_slot, settled, raced, due, edits, runs, faults>>

(* Exit code 0: the output and the .d file are there, the hash is noted.   *)
Finish(s) ==
    /\ state[s] = "running"
    /\ \E t \in Stamps : clock' = t /\ mtime' = [mtime EXCEPT ![s] = t]
    /\ artifact' = [artifact EXCEPT ![s] = output[s]]
    /\ depfiles' = IF s \in Compiles THEN depfiles \cup {s} ELSE depfiles
    /\ graph' = [graph EXCEPT !.hash[s] = graph.flags]
    /\ state' = [state EXCEPT ![s] = "done"]
    /\ output' = [output EXCEPT ![s] = None]
    /\ UNCHANGED <<version, bin, run, sources, build_file_slot, settled, raced, due, edits, runs, faults>>

(* What commands leave that were stopped, or stopped by themselves.        *)
Abandon(S) ==
    \E choice \in [S -> Leftovers], t \in Stamps :
        LET left(f) == IF f \in S THEN choice[f] ELSE "old"
        IN  /\ clock' = IF \E s \in S : left(s) = "partial" THEN t ELSE clock
            /\ artifact' = [s \in Steps |-> CASE left(s) = "old" -> artifact[s]
                                              [] left(s) = "nothing" -> None
                                              [] OTHER -> [flags |-> graph.flags, from |-> None]]
            /\ mtime' = [f \in DOMAIN mtime |-> CASE left(f) = "old" -> mtime[f]
                                                  [] left(f) = "nothing" -> 0
                                                  [] OTHER -> t]

Fail(s) ==
    /\ state[s] = "running"
    /\ s \in Faulty
    /\ Abandon({s})
    /\ state' = [state EXCEPT ![s] = "failed"]
    /\ output' = [output EXCEPT ![s] = None]
    /\ settled' = None
    /\ UNCHANGED <<version, depfiles, bin, run, graph, sources, build_file_slot, raced, due, edits, runs, faults>>

Running == {s \in Steps : state[s] = "running"}

(* The process is gone: nothing of its memory is kept.                     *)
Forget ==
    /\ run' = Idle
    /\ graph' = None
    /\ sources' = None
    /\ build_file_slot' = 0
    /\ state' = [s \in Steps |-> "waiting"]
    /\ output' = [s \in Steps |-> None]

FailBuild ==
    /\ run.at = "execute"
    /\ Running = {}
    /\ \E s \in Steps : state[s] = "failed"
    /\ Forget
    /\ UNCHANGED <<disk, settled, raced, due, edits, runs, faults>>

(* Every step is done.  The hashes are saved if one of them changed.       *)
HashesChanged == graph.hash # graph.loaded

(* No two of the times that the next run will compare are equal.           *)
Distinct ==
    /\ bin' # None /\ bin'.time > mtime[run.manifest]
    /\ \A s \in Steps : \A i \in Reads(s) \cup {run.manifest} : mtime[s] > mtime[i]

Succeed ==
    /\ run.at = "execute"
    /\ \A s \in Steps : state[s] = "done"
    /\ IF run.mode = "build" /\ HashesChanged THEN WriteCache ELSE UNCHANGED <<clock, bin>>
    /\ run' = At("succeeded")
    /\ settled' = IF run.mode = "build" /\ run.saw = version
                   THEN (IF Distinct THEN graph.flags ELSE None) ELSE settled
    /\ UNCHANGED <<version, mtime, artifact, depfiles, process, raced, due, edits, runs, faults>>

(* The cache cannot be written: a warning, and the run still succeeds.     *)
SucceedUnsaved ==
    /\ Fault
    /\ run.at = "execute"
    /\ \A s \in Steps : state[s] = "done"
    /\ run.mode = "build" /\ HashesChanged
    /\ run' = At("succeeded")
    /\ settled' = None
    /\ UNCHANGED <<disk, process, raced, due, edits, runs>>

Return ==
    /\ run.at = "succeeded"
    /\ Forget
    /\ UNCHANGED <<disk, settled, raced, due, edits, runs, faults>>

(* Control-C, a crash or a power cut at any time.                          *)
Interrupt ==
    /\ run.at # "idle"
    /\ Abandon(Running)
    /\ Forget
    /\ settled' = None
    /\ UNCHANGED <<version, depfiles, bin, raced, due, edits, runs, faults>>

-----------------------------------------------------------------------------

Modes == {"build", "dry", "print", "clean", "cleancc"}

Next ==
    \/ \E f \in Edited : Edit(f)
    \/ \E m \in Manifests, mode \in Modes, o \in Overrides \cup {None} : Invoke(m, mode, o)
    \/ ReadCache \/ ReadManifest \/ EmitParsed \/ EmitFails \/ StartExecute \/ RunTool
    \/ \E s \in Steps : Skip(s) \/ Start(s) \/ Finish(s) \/ Fail(s)
    \/ FailBuild \/ Succeed \/ SucceedUnsaved \/ Return \/ Interrupt
    \/ runs = MaxRuns /\ run.at = "idle" /\ UNCHANGED vars

Spec == Init /\ [][Next]_vars

-----------------------------------------------------------------------------
(***************************************************************************)
(* Properties.                                                             *)
(***************************************************************************)

(* When a build succeeds, every output is what its command would produce   *)
(* from the inputs as they are: nothing stale was taken for up to date, by *)
(* whichever combination of edits, failed and interrupted runs.            *)
SuccessMeansFresh ==
    run.at = "succeeded" /\ run.mode = "build" /\ ~raced =>
        \A s \in Steps : artifact[s] = Product(s)

(* A build that follows a successful one, with nothing edited, cleaned or  *)
(* failed in between and the same command lines, starts no command.        *)
NothingToDo ==
    [][\A s \in Steps : Start(s) => settled # graph.flags]_vars

(* command_hash is "the hash of the fully-resolved command line used to    *)
(* generate the output of this step": when a run is over, however it       *)
(* ended, a cache that the next run would accept never claims that an      *)
(* output was made with a command other than the one that made it.         *)
HashTruthful ==
    run.at = "idle" /\ (\E m \in Manifests : CacheValid(m)) =>
        \A s \in Steps : bin.hash[s] # None /\ artifact[s] # None =>
            artifact[s].flags = bin.hash[s]

(* An edit of the manifest that was made while no run was under way is in  *)
(* what every later run loads, be it the cache or the text: although edits *)
(* during runs may be missing from the cache, which is trusted for its age *)
(* alone, they never hide another one.  One manifest to a directory.       *)
EditsAreNoticed ==
    run.at = "parsed" =>
        \E v \in due[run.manifest] .. version[run.manifest] : graph.flags = <<run.manifest, v>>

(* -f <file>: "Use <file> as the build manifest": what parse has loaded is *)
(* what this file said at some time since cob was started.                 *)
UsesNamedManifest ==
    run.at = "parsed" =>
        \E v \in run.saw[run.manifest] .. version[run.manifest] : graph.flags = <<run.manifest, v>>

=============================================================================
