----------------------------- MODULE BuildGraph -----------------------------
(***************************************************************************)
(* BuildGraph: nodes for files, edges from inputs to outputs, and the two  *)
(* searches for cycles.  execute() counts with Kahn's algorithm over the   *)
(* produced files and runs topoSort only to name a node of a cycle;        *)
(* emitCommands takes the order that topoSort makes.                       *)
(*                                                                         *)
(* A node is its index in nodes_m, from 1; step 0 is no step.              *)
(***************************************************************************)
EXTENDS Integers, SequencesExt

CONSTANTS
    Paths,          \* names of files
    Manifests       \* sequences of steps: [output, compiles, depfile, parsed, opaque]

VARIABLES
    manifest,
    tool,           \* "execute" or "commands"
    phase,          \* "load", "kahn", "sort", then "run", "duplicate" or "cycle"
    nodes,          \* nodes_m: sequence of [path, out, step]
    steps,          \* steps added so far
    linked,         \* inputs of the last of them that have their edge
    degree,         \* temp_in_degrees
    remaining, ready, visited,      \* Kahn's; the order of ready is left open
    status, stack, order,           \* topoSort's
    culprit         \* the node that the error names

load == <<nodes, steps, linked>>
kahn == <<degree, remaining, ready, visited>>
sort == <<status, stack, order, culprit>>
graphVars == <<manifest, tool, phase, load, kahn, sort>>

GraphInit ==
    /\ manifest \in Manifests
    /\ tool \in {"execute", "commands"}
    /\ phase = "load"
    /\ nodes = <<>> /\ steps = 0 /\ linked = 0
    /\ degree = <<>> /\ remaining = <<>> /\ ready = {} /\ visited = 0
    /\ status = <<>> /\ stack = <<>> /\ order = <<>> /\ culprit = 0

(***************************************************************************)
(* addStep: the node of the output, then an edge for every input.          *)
(***************************************************************************)
NodeOf(ns, path) ==
    IF \E n \in DOMAIN ns : ns[n].path = path
    THEN CHOOSE n \in DOMAIN ns : ns[n].path = path
    ELSE 0

getOrCreateNode(ns, path) ==
    IF NodeOf(ns, path) # 0 THEN ns ELSE Append(ns, [path |-> path, out |-> <<>>, step |-> 0])

(* The paths that get an edge, in the order in which they get it.          *)
ListedInputs(step) == (IF step.compiles THEN step.depfile ELSE <<>>) \o step.parsed \* mutant: no '!' inputs
InputsOf(step) == (IF step.compiles THEN step.depfile ELSE <<>>) \o step.parsed \o step.opaque

Linked == steps > 0 => linked = Len(InputsOf(manifest[steps]))

AddStep ==
    /\ phase = "load" /\ Linked
    /\ steps < Len(manifest)
    /\ LET step == manifest[steps + 1]
           with == getOrCreateNode(nodes, step.output)
           out == NodeOf(with, step.output)
       IN  IF with[out].step # 0
           THEN phase' = "duplicate" /\ nodes' = with /\ UNCHANGED <<steps, linked>>
           ELSE /\ nodes' = [with EXCEPT ![out].step = steps + 1]
                /\ steps' = steps + 1
                /\ linked' = 0
                /\ UNCHANGED phase
    /\ UNCHANGED <<manifest, tool, kahn, sort>>

AddEdge ==
    /\ phase = "load" /\ ~Linked
    /\ LET path == InputsOf(manifest[steps])[linked + 1]
           with == getOrCreateNode(nodes, path)
       IN  nodes' = [with EXCEPT ![NodeOf(with, path)].out =
                        Append(@, NodeOf(nodes, manifest[steps].output))]
    /\ linked' = linked + 1
    /\ UNCHANGED <<manifest, tool, phase, steps, kahn, sort>>

Loaded == phase = "load" /\ Linked /\ steps = Len(manifest)

(***************************************************************************)
(* execute: in-degrees, then Kahn's algorithm.                             *)
(***************************************************************************)
Produced == {n \in DOMAIN nodes : nodes[n].step # 0}
Edges(u, v) == {e \in DOMAIN nodes[u].out : nodes[u].out[e] = v}
EdgesFrom(from, v) == UNION {{u} \X Edges(u, v) : u \in from}

EveryInput == [v \in DOMAIN nodes |-> Cardinality(EdgesFrom(DOMAIN nodes, v))] \* mutant: sources count too
InputsOnce ==                                                       \* mutant: repeated inputs count once
    [v \in DOMAIN nodes |-> Cardinality({u \in Produced : Edges(u, v) # {}})]
InDegrees == [v \in DOMAIN nodes |-> Cardinality(EdgesFrom(Produced, v))]

CountInputs ==
    /\ Loaded
    /\ tool = "execute"
    /\ IF nodes = <<>> THEN phase' = "run" /\ UNCHANGED kahn
       ELSE /\ phase' = "kahn"
            /\ degree' = InDegrees
            /\ remaining' = InDegrees
            /\ ready' = {n \in Produced : InDegrees[n] = 0}
            /\ UNCHANGED visited
    /\ UNCHANGED <<manifest, tool, load, sort>>

(* Counting down edge by edge, a node becomes ready when it passes zero.   *)
Visit(n) ==
    /\ phase = "kahn"
    /\ n \in ready
    /\ remaining' = [v \in DOMAIN nodes |-> remaining[v] - Cardinality(Edges(n, v))]
    /\ ready' = (ready \ {n}) \cup {v \in DOMAIN nodes : remaining[v] > 0 /\ remaining'[v] <= 0}
    /\ visited' = visited + 1
    /\ UNCHANGED <<manifest, tool, phase, load, degree, sort>>

BeginSort == status' = [n \in DOMAIN nodes |-> "unstarted"] /\ UNCHANGED <<stack, order, culprit>>

JudgeCount ==
    /\ phase = "kahn"
    /\ ready = {}
    /\ IF visited + Cardinality(DOMAIN nodes \ Produced) = Len(nodes)
       THEN phase' = "run" /\ UNCHANGED sort
       ELSE phase' = "sort" /\ BeginSort
    /\ UNCHANGED <<manifest, tool, load, kahn>>

(***************************************************************************)
(* topoSort: depth first, with an explicit stack.                          *)
(***************************************************************************)
AskCommands ==
    /\ Loaded
    /\ tool = "commands"
    /\ phase' = "sort"
    /\ BeginSort
    /\ UNCHANGED <<manifest, tool, load, kahn>>

Push(onto, n) ==
    /\ stack' = Append(onto, [node |-> n, edge |-> 1])
    /\ status' = [status EXCEPT ![n] = "working"]

(* The first node that is left begins the next search.                     *)
NextRoot(n) ==
    /\ phase = "sort"
    /\ stack = <<>>
    /\ status[n] = "unstarted" /\ \A m \in 1 .. n - 1 : status[m] # "unstarted"
    /\ Push(<<>>, n)
    /\ UNCHANGED <<manifest, tool, phase, load, kahn, order, culprit>>

Follow ==
    /\ phase = "sort"
    /\ stack # <<>>
    /\ LET top == Last(stack)
           next == Append(Front(stack), [top EXCEPT !.edge = @ + 1])
           v == nodes[top.node].out[top.edge]
       IN  /\ top.edge <= Len(nodes[top.node].out)
           /\ \/ status[v] = "unstarted" /\ Push(next, v) /\ UNCHANGED <<phase, culprit>>
              \/ status[v] = "finished" /\ stack' = next /\ UNCHANGED <<phase, culprit, status>>
              \/ /\ status[v] = "working"
                 /\ phase' = "cycle" /\ culprit' = v /\ stack' = next
                 /\ UNCHANGED status
    /\ UNCHANGED <<manifest, tool, load, kahn, order>>

Leave ==
    /\ phase = "sort"
    /\ stack # <<>>
    /\ Last(stack).edge > Len(nodes[Last(stack).node].out)
    /\ status' = [status EXCEPT ![Last(stack).node] = "finished"]
    /\ order' = Append(order, Last(stack).node)
    /\ stack' = Front(stack)
    /\ UNCHANGED <<manifest, tool, phase, load, kahn, culprit>>

(* The order is reversed at the end.  For execute() only the absence of an *)
(* error counts: it goes on to run the steps.                              *)
Sorted ==
    /\ phase = "sort"
    /\ stack = <<>>
    /\ \A n \in DOMAIN nodes : status[n] # "unstarted"
    /\ phase' = "run"
    /\ order' = Reverse(order)
    /\ UNCHANGED <<manifest, tool, load, kahn, status, stack, culprit>>

GraphNext ==
    \/ AddStep \/ AddEdge
    \/ CountInputs \/ JudgeCount \/ AskCommands \/ Sorted
    \/ \E n \in DOMAIN nodes : Visit(n) \/ NextRoot(n)
    \/ Follow \/ Leave

-----------------------------------------------------------------------------
(***************************************************************************)
(* What the manifest says, read without the graph.                         *)
(***************************************************************************)
Mentioned(i) == (IF manifest[i].compiles THEN manifest[i].depfile ELSE <<>>)
                    \o manifest[i].parsed \o manifest[i].opaque
Outputs == {manifest[i].output : i \in DOMAIN manifest}
Files == Outputs \cup UNION {Range(Mentioned(i)) : i \in DOMAIN manifest}
LeadsTo(file, output) == \E i \in DOMAIN manifest :
                            manifest[i].output = output /\ file \in Range(Mentioned(i))
NeedsItself(file) ==
    \A F \in SUBSET Files :
        (\A p, q \in Files : LeadsTo(p, q) /\ q \in F \cup {file} => p \in F) => file \in F
Cyclic == \E file \in Files : NeedsItself(file)
Ambiguous == \E i, j \in DOMAIN manifest : i # j /\ manifest[i].output = manifest[j].output

(* A graph is refused exactly when a file is made twice or needs itself,   *)
(* whichever of the two searches looks at it, and the file that the error  *)
(* names does need itself: a cycle that got through would leave workers    *)
(* waiting for steps that can never become ready.                          *)
RefusedIffCyclic ==
    /\ phase = "run" => ~Ambiguous /\ ~Cyclic
    /\ phase = "duplicate" => Ambiguous
    /\ phase = "cycle" => NeedsItself(nodes[culprit].path)

(* The in-degrees count every mention of a file that some step makes, also *)
(* of files mentioned before the step that makes them: too many, and the   *)
(* step never becomes ready; too few, and it starts too early.             *)
DegreesAreMentions ==
    degree # <<>> =>
        \A i \in DOMAIN manifest :
            degree[NodeOf(nodes, manifest[i].output)]
                = Cardinality({k \in DOMAIN Mentioned(i) : Mentioned(i)[k] \in Outputs})

(* The commands tool lists every file once, and a step after all that make *)
(* its inputs, opaque ones and those of its depfile included.              *)
CommandsInOrder ==
    phase = "run" /\ tool = "commands" =>
        /\ {nodes[n].path : n \in Range(order)} = Files /\ Len(order) = Cardinality(Files)
        /\ \A i, j \in DOMAIN order : LeadsTo(nodes[order[i]].path, nodes[order[j]].path) => i < j
=============================================================================
