---------------------------- MODULE ResponseFiles ---------------------------
(***************************************************************************)
(* The response files of link steps: when buildCommandArgs writes one,     *)
(* when it takes the one that is there, and what the linker then reads.    *)
(* Runs of cob follow one another, with edits of the manifest and clean    *)
(* between them; the link steps of a run are on different workers.  What   *)
(* IncrementalBuild says of out-of-date steps is reduced to what matters   *)
(* here: the manifest's time forces a link, and anything else may.         *)
(***************************************************************************)
EXTENDS Integers, FiniteSets

CONSTANTS
    Links,          \* link steps
    Versions,       \* 1 .. n: versions of the manifest
    Long,           \* <<step, version>>: more inputs than RSP_INPUT_THRESHOLD
    Rsp,            \* the name of a step's response file: its output with another extension
    TornWrites,     \* whether cob may be killed, or the disk be full, in a write
    MaxTime         \* bound: ticks of the file system's clock

VARIABLES
    clock,
    version, mtime, \* the manifest
    rsp,            \* response files: [time, inputs]
    output,         \* outputs: [time, inputs], the inputs of the last link
    graph,          \* the version that the present run has read; 0: no run
    pc              \* of each step: "idle", "check", "args", "write", "inline", "file", "done"

rspVars == <<clock, version, mtime, rsp, output, graph, pc>>

None == [time |-> 0, inputs |-> <<>>]   \* no such file
Inputs(l) == <<l, graph>>
File(inputs) == [time |-> clock, inputs |-> inputs]

RspInit ==
    /\ clock = 1
    /\ version = 1 /\ mtime = 1
    /\ rsp = [name \in {Rsp[l] : l \in Links} |-> None]
    /\ output = [l \in Links |-> None]
    /\ graph = 0
    /\ pc = [l \in Links |-> "idle"]

(***************************************************************************)
(* The user, and time.                                                     *)
(***************************************************************************)
Tick ==
    /\ clock < MaxTime
    /\ clock' = clock + 1
    /\ UNCHANGED <<version, mtime, rsp, output, graph, pc>>

EditManifest ==
    /\ graph = 0
    /\ version + 1 \in Versions
    /\ version' = version + 1
    /\ mtime' = clock
    /\ UNCHANGED <<clock, rsp, output, graph, pc>>

Clean ==                                \* the outputs go, the response files stay
    /\ graph = 0
    /\ output' = [l \in Links |-> None]
    /\ UNCHANGED <<clock, version, mtime, rsp, graph, pc>>

Start ==
    /\ graph = 0
    /\ graph' = version
    /\ pc' = [l \in Links |-> "check"]
    /\ UNCHANGED <<clock, version, mtime, rsp, output>>

(***************************************************************************)
(* processStep of a link step                                              *)
(***************************************************************************)
Goto(l, label) == pc' = [pc EXCEPT ![l] = label]

UpToDate(l) ==
    /\ pc[l] = "check"
    /\ output[l] # None
    /\ mtime < output[l].time
    /\ Goto(l, "done")
    /\ UNCHANGED <<clock, version, mtime, rsp, output, graph>>

NeedsRebuild(l) ==
    /\ pc[l] = "check"
    /\ Goto(l, "args")
    /\ UNCHANGED <<clock, version, mtime, rsp, output, graph>>

(* The file is there, and newer than the manifest.                         *)
ReusableOnTie(l) == rsp[Rsp[l]] # None /\ rsp[Rsp[l]].time >= mtime     \* mutant
Reusable(l) == rsp[Rsp[l]] # None /\ rsp[Rsp[l]].time > mtime

UseFile(l) ==
    /\ pc[l] = "args"
    /\ Reusable(l)
    /\ Goto(l, "file")
    /\ UNCHANGED <<clock, version, mtime, rsp, output, graph>>

ListInputs(l) ==
    /\ pc[l] = "args"
    /\ ~Reusable(l)
    /\ Inputs(l) \notin Long
    /\ Goto(l, "inline")
    /\ UNCHANGED <<clock, version, mtime, rsp, output, graph>>

(* The ofstream truncates the file when it is opened.                      *)
OpenFile(l) ==
    /\ pc[l] = "args"
    /\ ~Reusable(l)
    /\ Inputs(l) \in Long
    /\ rsp' = [rsp EXCEPT ![Rsp[l]] = File(<<>>)]
    /\ Goto(l, "write")
    /\ UNCHANGED <<clock, version, mtime, output, graph>>

(* A write that fails is not noticed.                                      *)
WriteFile(l) ==
    /\ pc[l] = "write"
    /\ \E whole \in {TRUE, ~TornWrites} :
         rsp' = IF whole THEN [rsp EXCEPT ![Rsp[l]] = File(Inputs(l))] ELSE rsp
    /\ Goto(l, "file")
    /\ UNCHANGED <<clock, version, mtime, output, graph>>

(* The linker reads the response file itself.                              *)
Link(l) ==
    /\ pc[l] \in {"inline", "file"}
    /\ output' = [output EXCEPT ![l] =
                     File(IF pc[l] = "inline" THEN Inputs(l) ELSE rsp[Rsp[l]].inputs)]
    /\ Goto(l, "done")
    /\ UNCHANGED <<clock, version, mtime, rsp, graph>>

(* The run ends because all is done, a command failed or cob was killed.   *)
End ==
    /\ graph # 0
    /\ (\E l \in Links : pc[l] = "write") => TornWrites
    /\ graph' = 0
    /\ pc' = [l \in Links |-> "idle"]
    /\ UNCHANGED <<clock, version, mtime, rsp, output>>

RspNext ==
    \/ Tick \/ EditManifest \/ Clean \/ Start \/ End
    \/ \E l \in Links :
         \/ UpToDate(l) \/ NeedsRebuild(l)
         \/ UseFile(l) \/ ListInputs(l) \/ OpenFile(l) \/ WriteFile(l)
         \/ Link(l)

RspSpec == RspInit /\ [][RspNext]_rspVars

-----------------------------------------------------------------------------
(* A link step that is done, or is taken for up to date, was linked from   *)
(* exactly the inputs that this manifest gives it, and not from those of   *)
(* an earlier version, although a response file that is there is passed on *)
(* unread.  It takes names in Rsp that are distinct and writes that are    *)
(* whole: without either it does not hold.                                 *)
LinkedFromItsInputs ==
    \A l \in Links : pc[l] = "done" => output[l].inputs = Inputs(l)
=============================================================================
