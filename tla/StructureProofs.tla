--------------------------- MODULE StructureProofs ---------------------------
(***************************************************************************)
(* Proofs about what a graph is made with, for any manifest, hash function *)
(* and strings: the two searches of the graph refuse the same graphs and   *)
(* keep the order, the map answers as the function that it stands for,     *)
(* references lead to the strings they were given for, and the reader of   *)
(* depfiles gets to the end of any text and reads in a compiler's text the *)
(* names that it was written for.  The invariant of each is proved of its  *)
(* own module; in the end they are put together.                           *)
(***************************************************************************)
EXTENDS Structures, RingArithmetic, FiniteSetTheorems, FunctionTheorems, SequenceTheorems, TLAPS

(* The tables' capacities are those of the lemmas about bit_ceil.          *)
LEMMA SameRounding == Map!bitCeil = bitCeil /\ Pool!bitCeil = bitCeil
BY DEF Map!bitCeil, Pool!bitCeil, bitCeil

(* The modules count with the Cardinality of the lemmas about finite sets. *)
LEMMA SameCounts ==
    \A S : Graph!Cardinality(S) = Cardinality(S) /\ Map!Cardinality(S) = Cardinality(S)
           /\ Pool!Cardinality(S) = Cardinality(S)
BY DEF Graph!Cardinality, Map!Cardinality, Pool!Cardinality, Cardinality

-----------------------------------------------------------------------------
(***************************************************************************)
(* The graph: what its nodes and edges are while it is loaded, what its    *)
(* in-degrees say while they are used up, and what a search by depth has   *)
(* finished.                                                               *)
(***************************************************************************)
NodeType == [path : Paths, out : Seq(Nat), step : Nat]
Phases == {"load", "kahn", "sort", "run", "duplicate", "cycle"}
(* What a step mentions, and how much of it is connected.                   *)
Given(i) == Graph!InputsOf(manifest[i])
Done(i) == IF i < steps THEN Len(Given(i)) ELSE linked
(* A path has one node.                                                    *)
Distinct(ns) == \A m, n \in DOMAIN ns : ns[m].path = ns[n].path => m = n

(* Types; a graph past loading has every step.                             *)
LoadType ==
    /\ manifest \in Seq(StepType)
    /\ tool \in {"execute", "commands"}
    /\ phase \in Phases
    /\ nodes \in Seq(NodeType)
    /\ steps \in 0 .. Len(manifest)
    /\ linked \in Nat
    /\ steps > 0 => linked <= Len(Given(steps))
    /\ phase \notin {"load", "duplicate"} => Graph!Linked /\ steps = Len(manifest)

(* The nodes are the files read so far; the steps are at their outputs.    *)
NodesInv ==
    /\ Distinct(nodes)
    /\ steps = 0 => nodes = <<>>
    /\ \A n \in DOMAIN nodes :
         /\ nodes[n].step \in 0 .. steps
         /\ nodes[n].step # 0 => manifest[nodes[n].step].output = nodes[n].path
         /\ nodes[n].step = 0 => \E i \in 1 .. steps : \E k \in 1 .. Done(i) :
                Given(i)[k] = nodes[n].path
    /\ \A i \in 1 .. steps : \E n \in DOMAIN nodes : nodes[n].step = i

(* An edge for every mention, and no other.                                *)
Lists(i, F) == {k \in 1 .. Done(i) : Given(i)[k] \in F}
EdgesInto(v, F) == UNION {{u} \X Graph!Edges(u, v) : u \in {n \in DOMAIN nodes : nodes[n].path \in F}}
EdgesInv ==
    /\ \A u \in DOMAIN nodes : \A e \in DOMAIN nodes[u].out : nodes[u].out[e] \in Graph!Produced
    /\ \A v \in Graph!Produced : \A F \in SUBSET Paths :
         /\ IsFiniteSet(EdgesInto(v, F))
         /\ Cardinality(EdgesInto(v, F)) = Cardinality(Lists(nodes[v].step, F))

LoadInv == LoadType /\ NodesInv /\ EdgesInv

-----------------------------------------------------------------------------
(* The paths a step of the manifest gives to addStep.                      *)
LEMMA StepFacts ==
    ASSUME manifest \in Seq(StepType), NEW i \in 1 .. Len(manifest)
    PROVE  manifest[i].output \in Paths /\ Given(i) \in Seq(Paths) /\ Len(Given(i)) \in Nat
           /\ \A k \in 1 .. Len(Given(i)) : Given(i)[k] \in Paths
<1>1. manifest[i] \in StepType
  BY ElementOfSeq
<1>2. Graph!InputsOf(manifest[i]) \in Seq(Paths)
  <2>1. /\ manifest[i].depfile \in Seq(Paths) /\ manifest[i].parsed \in Seq(Paths)
        /\ manifest[i].opaque \in Seq(Paths) /\ <<>> \in Seq(Paths)
    BY <1>1 DEF StepType
  <2> QED
    BY <2>1, ConcatProperties DEF Graph!InputsOf
<1> QED
  BY <1>1, <1>2, ElementOfSeq, LenProperties DEF Given, StepType

(* getOrCreateNode keeps the nodes and finds or adds one.                  *)
LEMMA NodeAdded ==
    ASSUME NEW ns \in Seq(NodeType), Distinct(ns), NEW path \in Paths
    PROVE  LET with == Graph!getOrCreateNode(ns, path)
               n == Graph!NodeOf(with, path)
           IN  /\ with \in Seq(NodeType) /\ Distinct(with)
               /\ n \in DOMAIN with /\ with[n].path = path
               /\ DOMAIN ns \subseteq DOMAIN with
               /\ \A m \in DOMAIN ns : with[m] = ns[m]
               /\ \A m \in DOMAIN with \ DOMAIN ns :
                    m = n /\ with[m] = [path |-> path, out |-> <<>>, step |-> 0]
<1> DEFINE with == Graph!getOrCreateNode(ns, path)
           new == [path |-> path, out |-> <<>>, step |-> 0]
<1>1. Len(ns) \in Nat /\ DOMAIN ns = 1 .. Len(ns) /\ \A m \in DOMAIN ns : ns[m] \in NodeType
  BY LenProperties, ElementOfSeq
<1>2. CASE \E m \in DOMAIN ns : ns[m].path = path
  <2>1. Graph!NodeOf(ns, path) \in DOMAIN ns /\ ns[Graph!NodeOf(ns, path)].path = path
    BY <1>2 DEF Graph!NodeOf
  <2>2. Graph!NodeOf(ns, path) # 0
    BY <1>1, <2>1
  <2>3. with = ns
    BY <2>2 DEF Graph!getOrCreateNode
  <2> QED
    BY <2>1, <2>3
<1>3. CASE ~ \E m \in DOMAIN ns : ns[m].path = path
  <2>1. with = Append(ns, new)
    BY <1>3 DEF Graph!getOrCreateNode, Graph!NodeOf
  <2>2. new \in NodeType
    BY EmptySeq DEF NodeType
  <2>3. /\ with \in Seq(NodeType) /\ Len(with) = Len(ns) + 1
        /\ \A m \in 1 .. Len(ns) : with[m] = ns[m]
        /\ with[Len(ns) + 1] = new
    BY <2>1, <2>2, AppendProperties
  <2>4. DOMAIN with = 1 .. Len(ns) + 1
    BY <2>3, LenProperties
  <2>5. new.path = path
    OBVIOUS
  <2> HIDE DEF with, new
  <2>6. \A m \in DOMAIN with : with[m].path = path <=> m = Len(ns) + 1
    BY <1>1, <1>3, <2>3, <2>4, <2>5
  <2>7. Graph!NodeOf(with, path) = Len(ns) + 1
    BY <1>1, <2>4, <2>6 DEF Graph!NodeOf
  <2>8. Distinct(with)
    BY <1>1, <2>3, <2>4, <2>6 DEF Distinct
  <2>9. DOMAIN ns \subseteq DOMAIN with
        /\ \A m \in DOMAIN with \ DOMAIN ns : m = Len(ns) + 1
    BY <1>1, <2>4
  <2> QED
    BY <1>1, <2>3, <2>4, <2>6, <2>7, <2>8, <2>9 DEF with, new
<1> QED
  BY <1>2, <1>3

(* What addStep does before it reads the inputs.                           *)
LEMMA AddStepEffect ==
    ASSUME LoadInv, Graph!AddStep, phase' # "duplicate"
    PROVE  /\ phase' = "load" /\ UNCHANGED <<manifest, tool, Graph!kahn, Graph!sort>>
           /\ steps + 1 \in 1 .. Len(manifest) /\ steps' = steps + 1 /\ linked' = 0
           /\ nodes' \in Seq(NodeType) /\ Distinct(nodes')
           /\ DOMAIN nodes \subseteq DOMAIN nodes'
           /\ \E out \in DOMAIN nodes' \ Graph!Produced :
                /\ nodes'[out].path = manifest[steps + 1].output /\ nodes'[out].step = steps + 1
                /\ \A m \in DOMAIN nodes : /\ nodes'[m].path = nodes[m].path
                                           /\ nodes'[m].out = nodes[m].out
                                           /\ m # out => nodes'[m].step = nodes[m].step
                /\ \A m \in DOMAIN nodes' \ DOMAIN nodes : m = out /\ nodes'[m].out = <<>>
<1> DEFINE path == manifest[steps + 1].output
           with == Graph!getOrCreateNode(nodes, path)
           out == Graph!NodeOf(with, path)
<1>1. /\ manifest \in Seq(StepType) /\ nodes \in Seq(NodeType) /\ Distinct(nodes)
      /\ Len(manifest) \in Nat /\ steps \in 0 .. Len(manifest) /\ steps < Len(manifest)
  BY LenProperties DEF LoadInv, LoadType, NodesInv, Graph!AddStep
<1>2. steps + 1 \in 1 .. Len(manifest) /\ path \in Paths
  BY <1>1, StepFacts
<1>3. /\ with \in Seq(NodeType) /\ Distinct(with)
      /\ out \in DOMAIN with /\ with[out].path = path
      /\ DOMAIN nodes \subseteq DOMAIN with
      /\ \A m \in DOMAIN nodes : with[m] = nodes[m]
      /\ \A m \in DOMAIN with \ DOMAIN nodes :
           m = out /\ with[m] = [path |-> path, out |-> <<>>, step |-> 0]
  BY <1>1, <1>2, NodeAdded
<1>4. /\ nodes' = [with EXCEPT ![out].step = steps + 1]
      /\ with[out].step = 0
      /\ phase' = "load" /\ UNCHANGED <<manifest, tool, Graph!kahn, Graph!sort>>
      /\ steps' = steps + 1 /\ linked' = 0
  BY DEF Graph!AddStep
<1> HIDE DEF with, out, path
<1>5. with[out] \in NodeType /\ \A m \in DOMAIN with : with[m] \in NodeType
  BY <1>3, ElementOfSeq, LenProperties
<1>6. /\ DOMAIN nodes' = DOMAIN with
      /\ nodes'[out] = [with[out] EXCEPT !.step = steps + 1]
      /\ \A m \in DOMAIN with : m # out => nodes'[m] = with[m]
  BY <1>3, <1>4
<1>7. /\ nodes'[out] \in NodeType
      /\ nodes'[out].path = path /\ nodes'[out].step = steps + 1
      /\ nodes'[out].out = with[out].out
  <2>1. steps + 1 \in Nat
    BY <1>1
  <2> QED
    BY <1>3, <1>5, <1>6, <2>1 DEF NodeType
<1>8. nodes' \in Seq(NodeType)
  <2>1. Len(with) \in Nat /\ DOMAIN with = 1 .. Len(with)
    BY <1>3, LenProperties
  <2>2. nodes' = [with EXCEPT ![out] = [with[out] EXCEPT !.step = steps + 1]]
    BY <1>4
  <2>3. [with[out] EXCEPT !.step = steps + 1] \in NodeType
    BY <1>6, <1>7
  <2> QED
    BY <1>3, <2>1, <2>2, <2>3, ExceptSeq
<1>9. Distinct(nodes')
  <2>1. \A m \in DOMAIN with : nodes'[m].path = with[m].path
    BY <1>3, <1>6, <1>7
  <2> QED
    BY <1>3, <1>6, <2>1 DEF Distinct
<1>10. out \in DOMAIN nodes' \ Graph!Produced
  BY <1>3, <1>4, <1>6 DEF Graph!Produced
<1>11. \A m \in DOMAIN nodes : /\ nodes'[m].path = nodes[m].path
                               /\ nodes'[m].out = nodes[m].out
                               /\ m # out => nodes'[m].step = nodes[m].step
  BY <1>3, <1>6, <1>7
<1>12. \A m \in DOMAIN nodes' \ DOMAIN nodes : m = out /\ nodes'[m].out = <<>>
  BY <1>3, <1>6, <1>7
<1> QED
  BY <1>2, <1>3, <1>4, <1>6, <1>7, <1>8, <1>9, <1>10, <1>11, <1>12 DEF path

(* The node of a step that has been added.                                 *)
LEMMA OutputNode ==
    ASSUME LoadInv, NEW i \in 1 .. steps
    PROVE  LET n == Graph!NodeOf(nodes, manifest[i].output)
           IN  n \in Graph!Produced /\ nodes[n].step = i /\ nodes[n].path = manifest[i].output
<1>1. PICK n \in DOMAIN nodes : nodes[n].step = i
  BY DEF LoadInv, NodesInv
<1>2. nodes[n].path = manifest[i].output /\ i # 0
  BY <1>1 DEF LoadInv, NodesInv
<1>3. Graph!NodeOf(nodes, manifest[i].output) = n
  BY <1>1, <1>2 DEF LoadInv, NodesInv, Distinct, Graph!NodeOf
<1> QED
  BY <1>1, <1>2, <1>3 DEF Graph!Produced

(* What addStep does with an input.                                        *)
LEMMA AddEdgeEffect ==
    ASSUME LoadInv, Graph!AddEdge
    PROVE  /\ phase' = "load" /\ UNCHANGED <<manifest, tool, steps, Graph!kahn, Graph!sort>>
           /\ steps \in 1 .. Len(manifest)
           /\ linked + 1 \in 1 .. Len(Given(steps)) /\ linked' = linked + 1
           /\ nodes' \in Seq(NodeType) /\ Distinct(nodes')
           /\ DOMAIN nodes \subseteq DOMAIN nodes'
           /\ \E out \in Graph!Produced, in \in DOMAIN nodes' :
                /\ nodes[out].step = steps
                /\ nodes'[in].path = Given(steps)[linked + 1]
                /\ nodes'[in].out = Append(IF in \in DOMAIN nodes THEN nodes[in].out ELSE <<>>, out)
                /\ \A m \in DOMAIN nodes : /\ nodes'[m].path = nodes[m].path
                                           /\ nodes'[m].step = nodes[m].step
                                           /\ m # in => nodes'[m].out = nodes[m].out
                /\ \A m \in DOMAIN nodes' \ DOMAIN nodes : m = in /\ nodes'[m].step = 0
<1> DEFINE path == Given(steps)[linked + 1]
           with == Graph!getOrCreateNode(nodes, path)
           in == Graph!NodeOf(with, path)
           out == Graph!NodeOf(nodes, manifest[steps].output)
<1>1. /\ manifest \in Seq(StepType) /\ nodes \in Seq(NodeType) /\ Distinct(nodes)
      /\ Len(manifest) \in Nat /\ steps \in 1 .. Len(manifest)
      /\ linked \in Nat /\ linked <= Len(Given(steps)) /\ linked # Len(Given(steps))
  BY LenProperties DEF LoadInv, LoadType, NodesInv, Graph!AddEdge, Graph!Linked, Given
<1>2. linked + 1 \in 1 .. Len(Given(steps)) /\ path \in Paths
  BY <1>1, StepFacts
<1>3. /\ with \in Seq(NodeType) /\ Distinct(with)
      /\ in \in DOMAIN with /\ with[in].path = path
      /\ DOMAIN nodes \subseteq DOMAIN with
      /\ \A m \in DOMAIN nodes : with[m] = nodes[m]
      /\ \A m \in DOMAIN with \ DOMAIN nodes :
           m = in /\ with[m] = [path |-> path, out |-> <<>>, step |-> 0]
  BY <1>1, <1>2, NodeAdded
<1>4. /\ nodes' = [with EXCEPT ![in].out = Append(@, out)]
      /\ phase' = "load" /\ UNCHANGED <<manifest, tool, steps, Graph!kahn, Graph!sort>>
      /\ linked' = linked + 1
  BY DEF Graph!AddEdge, Given
<1>5. out \in Graph!Produced /\ nodes[out].step = steps
  BY <1>1, OutputNode
<1> HIDE DEF with, in, path, out
<1>6. with[in] \in NodeType /\ \A m \in DOMAIN with : with[m] \in NodeType
  BY <1>3, ElementOfSeq, LenProperties
<1>7. /\ DOMAIN nodes' = DOMAIN with
      /\ nodes'[in] = [with[in] EXCEPT !.out = Append(with[in].out, out)]
      /\ \A m \in DOMAIN with : m # in => nodes'[m] = with[m]
  BY <1>3, <1>4
<1>8. Append(with[in].out, out) \in Seq(Nat)
  <2>1. with[in].out \in Seq(Nat) /\ out \in Nat
    BY <1>1, <1>5, <1>6, LenProperties, SMTT(30) DEF NodeType, Graph!Produced
  <2> QED
    BY <2>1, AppendProperties
<1>9. /\ nodes'[in] \in NodeType
      /\ nodes'[in].path = path /\ nodes'[in].step = with[in].step
      /\ nodes'[in].out = Append(with[in].out, out)
  BY <1>3, <1>6, <1>7, <1>8 DEF NodeType
<1>10. nodes' \in Seq(NodeType)
  <2>1. Len(with) \in Nat /\ DOMAIN with = 1 .. Len(with)
    BY <1>3, LenProperties
  <2>2. nodes' = [with EXCEPT ![in] = [with[in] EXCEPT !.out = Append(with[in].out, out)]]
    BY <1>4
  <2>3. [with[in] EXCEPT !.out = Append(with[in].out, out)] \in NodeType
    BY <1>7, <1>9
  <2> QED
    BY <1>3, <2>1, <2>2, <2>3, ExceptSeq
<1>11. Distinct(nodes')
  <2>1. \A m \in DOMAIN with : nodes'[m].path = with[m].path
    BY <1>3, <1>7, <1>9
  <2> QED
    BY <1>3, <1>7, <2>1 DEF Distinct
<1>12. \A m \in DOMAIN nodes : /\ nodes'[m].path = nodes[m].path
                               /\ nodes'[m].step = nodes[m].step
                               /\ m # in => nodes'[m].out = nodes[m].out
  BY <1>3, <1>7, <1>9
<1>13. \A m \in DOMAIN nodes' \ DOMAIN nodes : m = in /\ nodes'[m].step = 0
  BY <1>3, <1>7, <1>9
<1>14. with[in].out = IF in \in DOMAIN nodes THEN nodes[in].out ELSE <<>>
  BY <1>3
<1>15. in \in DOMAIN nodes'
  BY <1>3, <1>7
<1>16. \E o \in Graph!Produced, i \in DOMAIN nodes' :
         /\ nodes[o].step = steps
         /\ nodes'[i].path = path
         /\ nodes'[i].out = Append(IF i \in DOMAIN nodes THEN nodes[i].out ELSE <<>>, o)
         /\ \A m \in DOMAIN nodes : /\ nodes'[m].path = nodes[m].path
                                    /\ nodes'[m].step = nodes[m].step
                                    /\ m # i => nodes'[m].out = nodes[m].out
         /\ \A m \in DOMAIN nodes' \ DOMAIN nodes : m = i /\ nodes'[m].step = 0
  BY <1>5, <1>9, <1>12, <1>13, <1>14, <1>15
<1> QED
  BY <1>1, <1>2, <1>3, <1>4, <1>7, <1>10, <1>11, <1>16 DEF path

(* The graph is only changed while it is loaded.                           *)
LEMMA LoadStable ==
    ASSUME LoadInv, UNCHANGED <<manifest, tool, nodes, steps, linked>>, phase' \in Phases,
           phase' \notin {"load", "duplicate"} => Graph!Linked /\ steps = Len(manifest)
    PROVE  LoadInv'
<1>1. LoadType'
  BY DEF LoadInv, LoadType, Graph!Linked, Given
<1>2. NodesInv'
  <2>1. \A i : Given(i)' = Given(i) /\ Done(i)' = Done(i)
    BY DEF Done, Given
  <2>2. NodesInv
    BY DEF LoadInv
  <2> QED
    BY ONLY <2>1, <2>2, UNCHANGED <<manifest, nodes, steps>> DEF NodesInv, Distinct
<1>3. EdgesInv'
  <2>1. Graph!Produced' = Graph!Produced /\ \A v, F : EdgesInto(v, F)' = EdgesInto(v, F)
    BY DEF EdgesInto, Graph!Edges, Graph!Produced
  <2>2. \A v \in DOMAIN nodes : \A F : Lists(nodes[v].step, F)' = Lists(nodes[v].step, F)
    BY DEF Lists, Done, Given
  <2>3. Graph!Produced \subseteq DOMAIN nodes
    BY DEF Graph!Produced
  <2> QED
    BY <2>1, <2>2, <2>3 DEF LoadInv, EdgesInv
<1> QED
  BY <1>1, <1>2, <1>3 DEF LoadInv

(* Numbers that are cited below.                                           *)
LEMMA LoadNumbers ==
    ASSUME LoadInv
    PROVE  /\ Len(manifest) \in Nat /\ steps \in 0 .. Len(manifest) /\ linked \in Nat
           /\ \A i \in 1 .. steps : Len(Given(i)) \in Nat /\ Done(i) \in 0 .. Len(Given(i))
<1>1. Len(manifest) \in Nat /\ steps \in 0 .. Len(manifest) /\ linked \in Nat
      /\ manifest \in Seq(StepType) /\ (steps > 0 => linked <= Len(Given(steps)))
  BY LenProperties DEF LoadInv, LoadType
<1>2. \A i \in 1 .. steps : i \in 1 .. Len(manifest)
  BY <1>1
<1> QED
  BY <1>1, <1>2, StepFacts DEF Done

(* Entering a step makes its output a node, or refuses a second step of    *)
(* it; no edge of it is there yet.                                         *)
LEMMA AddStepKeeps ==
    ASSUME LoadInv, Graph!AddStep
    PROVE  LoadInv'
<1> USE LoadNumbers
<1>1. CASE phase' = "duplicate"
  <2> DEFINE path == manifest[steps + 1].output
             with == Graph!getOrCreateNode(nodes, path)
             out == Graph!NodeOf(with, path)
  <2>1. /\ manifest \in Seq(StepType) /\ nodes \in Seq(NodeType) /\ Distinct(nodes)
        /\ steps < Len(manifest) /\ phase = "load"
    BY DEF LoadInv, LoadType, NodesInv, Graph!AddStep
  <2>2. path \in Paths
    <3>1. steps + 1 \in 1 .. Len(manifest)
      BY <2>1
    <3> QED
      BY <2>1, <3>1, StepFacts
  <2>3. nodes' = with /\ with[out].step # 0 /\ UNCHANGED <<manifest, tool, steps, linked>>
    BY <1>1, <2>1 DEF Graph!AddStep
  <2>4. /\ out \in DOMAIN with
        /\ \A m \in DOMAIN with \ DOMAIN nodes :
             m = out /\ with[m] = [path |-> path, out |-> <<>>, step |-> 0]
    BY <2>1, <2>2, NodeAdded
  <2>5. out \in DOMAIN nodes
    BY <2>3, <2>4
  <2>6. with = nodes
    <3>1. CASE Graph!NodeOf(nodes, path) # 0
      BY <3>1 DEF Graph!getOrCreateNode
    <3>2. CASE Graph!NodeOf(nodes, path) = 0
      <4>1. with = Append(nodes, [path |-> path, out |-> <<>>, step |-> 0])
        BY <3>2 DEF Graph!getOrCreateNode
      <4>2. [path |-> path, out |-> <<>>, step |-> 0] \in NodeType
        BY <2>2, EmptySeq DEF NodeType
      <4>3. /\ \A m \in 1 .. Len(nodes) : with[m] = nodes[m]
            /\ DOMAIN nodes = 1 .. Len(nodes) /\ Len(nodes) \in Nat
        BY <2>1, <4>1, <4>2, AppendProperties, LenProperties
      <4>4. with[out].path = path
        BY <2>1, <2>2, NodeAdded, SMTT(30)
      <4>5. nodes[out].path = path
        BY <2>5, <4>3, <4>4
      <4>6. Graph!NodeOf(nodes, path) \in DOMAIN nodes
        BY <2>5, <4>5 DEF Graph!NodeOf
      <4> QED
        BY <3>2, <4>3, <4>6
    <3> QED
      BY <3>1, <3>2
  <2> HIDE DEF with
  <2> QED
    BY <1>1, <2>3, <2>6, LoadStable DEF Phases
<1>2. CASE phase' # "duplicate"
  <2>1. PICK out \in DOMAIN nodes' \ Graph!Produced :
          /\ nodes'[out].path = manifest[steps + 1].output /\ nodes'[out].step = steps + 1
          /\ \A m \in DOMAIN nodes : /\ nodes'[m].path = nodes[m].path
                                     /\ nodes'[m].out = nodes[m].out
                                     /\ m # out => nodes'[m].step = nodes[m].step
          /\ \A m \in DOMAIN nodes' \ DOMAIN nodes : m = out /\ nodes'[m].out = <<>>
    BY <1>2, AddStepEffect
  <2>2. /\ phase' = "load" /\ UNCHANGED <<manifest, tool>>
        /\ steps + 1 \in 1 .. Len(manifest) /\ steps' = steps + 1 /\ linked' = 0
        /\ nodes' \in Seq(NodeType) /\ Distinct(nodes')
        /\ DOMAIN nodes \subseteq DOMAIN nodes'
    BY <1>2, AddStepEffect
  <2>3. \A i \in 1 .. steps : Done(i)' = Done(i) /\ Given(i)' = Given(i)
    <3>1. steps > 0 => linked = Len(Given(steps))
      BY DEF Graph!AddStep, Graph!Linked, Given
    <3>2. ASSUME NEW i \in 1 .. steps PROVE Done(i)' = Len(Given(i)) /\ Done(i) = Len(Given(i))
      <4>1. i < steps' /\ Given(i)' = Given(i)
        BY <2>2 DEF Given
      <4>2. i < steps \/ i = steps
        OBVIOUS
      <4> QED
        BY <3>1, <4>1, <4>2 DEF Done
    <3> QED
      BY <2>2, <3>2 DEF Given
  <2>4. Done(steps)' = 0
    BY <2>2 DEF Done
  <2>5. Graph!Produced' = Graph!Produced \cup {out}
    <3>1. \A m \in DOMAIN nodes' : nodes'[m].step # 0 <=> m \in Graph!Produced \/ m = out
      BY <2>1, <2>2 DEF Graph!Produced
    <3> QED
      BY <2>1, <2>2, <3>1 DEF Graph!Produced
  <2>6. LoadType'
    <3>1. steps' > 0 => linked' <= Len(Given(steps)')
      <4>1. Len(Given(steps + 1)) \in Nat
        BY <2>2, StepFacts DEF LoadInv, LoadType
      <4> QED
        BY <2>2, <4>1 DEF Given
    <3> QED
      BY <2>2, <3>1 DEF LoadInv, LoadType, Phases, Given
  <2>7. NodesInv'
    <3>1. \A n \in DOMAIN nodes' :
            /\ nodes'[n].step \in 0 .. steps + 1
            /\ nodes'[n].step # 0 => manifest[nodes'[n].step].output = nodes'[n].path
            /\ nodes'[n].step = 0 =>
                 \E i \in 1 .. steps + 1 : \E k \in 1 .. Done(i)' : Given(i)'[k] = nodes'[n].path
      <4> SUFFICES ASSUME NEW n \in DOMAIN nodes'
                   PROVE  /\ nodes'[n].step \in 0 .. steps + 1
                          /\ nodes'[n].step # 0 => manifest[nodes'[n].step].output = nodes'[n].path
                          /\ nodes'[n].step = 0 =>
                               \E i \in 1 .. steps + 1 : \E k \in 1 .. Done(i)' :
                                   Given(i)'[k] = nodes'[n].path
        OBVIOUS
      <4>1. CASE n = out
        BY <2>1, <2>2, <4>1
      <4>2. CASE n # out
        <5>1. n \in DOMAIN nodes /\ nodes'[n].path = nodes[n].path /\ nodes'[n].step = nodes[n].step
          BY <2>1, <4>2
        <5>2. /\ nodes[n].step \in 0 .. steps
              /\ nodes[n].step # 0 => manifest[nodes[n].step].output = nodes[n].path
              /\ nodes[n].step = 0 => \E i \in 1 .. steps : \E k \in 1 .. Done(i) :
                     Given(i)[k] = nodes[n].path
          BY <5>1 DEF LoadInv, NodesInv
        <5>3. ASSUME nodes'[n].step = 0
              PROVE  \E i \in 1 .. steps + 1 : \E k \in 1 .. Done(i)' : Given(i)'[k] = nodes'[n].path
          <6>1. PICK i \in 1 .. steps : \E k \in 1 .. Done(i) : Given(i)[k] = nodes[n].path
            BY <5>1, <5>2, <5>3
          <6>2. i \in 1 .. steps + 1
            OBVIOUS
          <6> QED
            BY <2>3, <5>1, <6>1, <6>2
        <5>4. nodes'[n].step \in 0 .. steps + 1
          BY <5>1, <5>2
        <5> QED
          BY <5>1, <5>2, <5>3, <5>4
      <4> QED
        BY <4>1, <4>2
    <3>2. \A i \in 1 .. steps + 1 : \E n \in DOMAIN nodes' : nodes'[n].step = i
      <4> SUFFICES ASSUME NEW i \in 1 .. steps + 1 PROVE \E n \in DOMAIN nodes' : nodes'[n].step = i
        OBVIOUS
      <4>1. CASE i = steps + 1
        BY <2>1, <4>1
      <4>2. CASE i \in 1 .. steps
        <5>1. PICK n \in DOMAIN nodes : nodes[n].step = i
          BY <4>2 DEF LoadInv, NodesInv
        <5>2. n # out
          BY <2>1, <4>2, <5>1 DEF Graph!Produced
        <5> QED
          BY <2>1, <2>2, <5>1, <5>2
      <4> QED
        BY <2>2, <4>1, <4>2
    <3> QED
      BY <2>2, <3>1, <3>2 DEF NodesInv
  <2>8. \A u \in DOMAIN nodes' : \A v :
            Graph!Edges(u, v)' = IF u \in DOMAIN nodes THEN Graph!Edges(u, v) ELSE {}
    BY <2>1, <2>2 DEF Graph!Edges
  <2>9. \A v : \A F : EdgesInto(v, F)' = EdgesInto(v, F)
    <3> SUFFICES ASSUME NEW v, NEW F PROVE EdgesInto(v, F)' = EdgesInto(v, F)
      OBVIOUS
    <3>1. EdgesInto(v, F)'
              = UNION {{u} \X Graph!Edges(u, v)' : u \in {n \in DOMAIN nodes' : nodes'[n].path \in F}}
      BY DEF EdgesInto
    <3>2. ASSUME NEW x PROVE x \in EdgesInto(v, F)' <=> x \in EdgesInto(v, F)
      <4>1. x \in EdgesInto(v, F)' <=>
              \E u \in DOMAIN nodes' : nodes'[u].path \in F /\ x \in {u} \X Graph!Edges(u, v)'
        BY <3>1
      <4>2. x \in EdgesInto(v, F)
                <=> \E u \in DOMAIN nodes : nodes[u].path \in F /\ x \in {u} \X Graph!Edges(u, v)
        BY DEF EdgesInto
      <4>3. \A u \in DOMAIN nodes' : x \in {u} \X Graph!Edges(u, v)'
                <=> u \in DOMAIN nodes /\ x \in {u} \X Graph!Edges(u, v)
        BY <2>8
      <4> QED
        BY <2>1, <2>2, <4>1, <4>2, <4>3
    <3> QED
      BY <3>2
  <2>10. EdgesInv'
    <3>1. \A u \in DOMAIN nodes' : \A e \in DOMAIN nodes'[u].out : nodes'[u].out[e] \in Graph!Produced'
      BY <2>1, <2>2, <2>5 DEF LoadInv, EdgesInv
    <3>2. ASSUME NEW v \in Graph!Produced', NEW F \in SUBSET Paths
          PROVE  /\ IsFiniteSet(EdgesInto(v, F)')
                 /\ Cardinality(EdgesInto(v, F)') = Cardinality(Lists(nodes[v].step, F)')
      <4>1. CASE v \in Graph!Produced
        <5>1. v # out /\ nodes'[v].step = nodes[v].step /\ nodes[v].step \in 1 .. steps
          BY <2>1, <4>1 DEF Graph!Produced, LoadInv, NodesInv
        <5>2. Lists(nodes[v].step, F)' = Lists(nodes[v].step, F)
          BY <2>3, <5>1 DEF Lists
        <5> QED
          BY <2>9, <4>1, <5>2 DEF LoadInv, EdgesInv
      <4>2. CASE v = out
        <5>1. EdgesInto(out, F) = {}
          <6>1. \A u \in DOMAIN nodes : Graph!Edges(u, out) = {}
            BY DEF LoadInv, EdgesInv, Graph!Edges
          <6> QED
            BY <6>1 DEF EdgesInto
        <5>2. Lists(nodes[out].step, F)' = {}
          <6>1. nodes'[out].step = steps'
            BY <2>1, <2>2
          <6>2. Lists(steps, F)' = {}
            BY <2>4 DEF Lists
          <6> QED
            BY <6>1, <6>2
        <5> QED
          BY <2>9, <4>2, <5>1, <5>2, FS_EmptySet
      <4> QED
        BY <2>5, <4>1, <4>2
    <3> QED
      BY <3>1, <3>2 DEF EdgesInv
  <2> QED
    BY <2>6, <2>7, <2>10 DEF LoadInv
<1> QED
  BY <1>1, <1>2

(* Connecting the next input adds one edge, from the input's node to the   *)
(* node of the step that is entered.                                       *)
LEMMA AddEdgeKeeps ==
    ASSUME LoadInv, Graph!AddEdge
    PROVE  LoadInv'
<1> DEFINE path == Given(steps)[linked + 1]
<1>1. PICK out \in Graph!Produced, in \in DOMAIN nodes' :
        /\ nodes[out].step = steps
        /\ nodes'[in].path = path
        /\ nodes'[in].out = Append(IF in \in DOMAIN nodes THEN nodes[in].out ELSE <<>>, out)
        /\ \A m \in DOMAIN nodes : /\ nodes'[m].path = nodes[m].path
                                   /\ nodes'[m].step = nodes[m].step
                                   /\ m # in => nodes'[m].out = nodes[m].out
        /\ \A m \in DOMAIN nodes' \ DOMAIN nodes : m = in /\ nodes'[m].step = 0
  BY AddEdgeEffect
<1>2. /\ phase' = "load" /\ UNCHANGED <<manifest, tool, steps>>
      /\ steps \in 1 .. Len(manifest) /\ Len(manifest) \in Nat
      /\ linked + 1 \in 1 .. Len(Given(steps)) /\ linked' = linked + 1 /\ linked \in Nat
      /\ nodes' \in Seq(NodeType) /\ Distinct(nodes')
      /\ DOMAIN nodes \subseteq DOMAIN nodes'
  BY AddEdgeEffect, LoadNumbers
<1>3. \A i \in 1 .. steps : Given(i)' = Given(i) /\ Done(i)' = IF i = steps THEN linked + 1 ELSE Done(i)
  BY <1>2 DEF Done, Given
<1>4. Done(steps) = linked
  BY <1>2 DEF Done
<1>5. \A i \in 1 .. steps : Len(Given(i)) \in Nat /\ Done(i) \in 0 .. Len(Given(i))
  BY LoadNumbers
<1>6. Graph!Produced' = Graph!Produced
  BY <1>1, <1>2 DEF Graph!Produced
<1> DEFINE old == IF in \in DOMAIN nodes THEN nodes[in].out ELSE <<>>
<1>7. /\ old \in Seq(Nat) /\ out \in Nat /\ Len(old) \in Nat /\ DOMAIN old = 1 .. Len(old)
      /\ DOMAIN nodes'[in].out = 1 .. Len(old) + 1
      /\ \A e \in 1 .. Len(old) : nodes'[in].out[e] = old[e]
      /\ nodes'[in].out[Len(old) + 1] = out
  <2>1. nodes \in Seq(NodeType) /\ out \in DOMAIN nodes
    BY DEF LoadInv, LoadType, Graph!Produced
  <2>2. out \in Nat
    BY <2>1, LenProperties
  <2>3. old \in Seq(Nat)
    <3>1. CASE in \in DOMAIN nodes
      <4>1. nodes[in] \in NodeType
        BY <2>1, <3>1, ElementOfSeq, LenProperties
      <4> QED
        BY <3>1, <4>1 DEF NodeType
    <3>2. CASE in \notin DOMAIN nodes
      BY <3>2, EmptySeq
    <3> QED
      BY <3>1, <3>2
  <2>4. nodes'[in].out = Append(old, out)
    BY <1>1
  <2> HIDE DEF old
  <2>5. /\ nodes'[in].out \in Seq(Nat) /\ Len(nodes'[in].out) = Len(old) + 1
        /\ \A e \in 1 .. Len(old) : nodes'[in].out[e] = old[e]
        /\ nodes'[in].out[Len(old) + 1] = out
    BY <2>2, <2>3, <2>4, AppendProperties
  <2> QED
    BY <2>2, <2>3, <2>5, LenProperties
<1>8. in \notin DOMAIN nodes => old = <<>>
  OBVIOUS
<1>9. in \in DOMAIN nodes => old = nodes[in].out
  OBVIOUS
<1> HIDE DEF old
<1>10. LoadType'
  <2>1. steps' > 0 => linked' <= Len(Given(steps)')
    BY <1>2, <1>3, <1>5
  <2> QED
    BY <1>2, <2>1 DEF LoadInv, LoadType, Phases
<1>11. NodesInv'
  <2>1. ASSUME NEW n \in DOMAIN nodes'
        PROVE  /\ nodes'[n].step \in 0 .. steps
               /\ nodes'[n].step # 0 => manifest[nodes'[n].step].output = nodes'[n].path
               /\ nodes'[n].step = 0 =>
                    \E i \in 1 .. steps : \E k \in 1 .. Done(i)' : Given(i)'[k] = nodes'[n].path
    <3>1. CASE n \in DOMAIN nodes
      <4>1. nodes'[n].path = nodes[n].path /\ nodes'[n].step = nodes[n].step
        BY <1>1, <3>1
      <4>2. /\ nodes[n].step \in 0 .. steps
            /\ nodes[n].step # 0 => manifest[nodes[n].step].output = nodes[n].path
            /\ nodes[n].step = 0 => \E i \in 1 .. steps : \E k \in 1 .. Done(i) :
                   Given(i)[k] = nodes[n].path
        BY <3>1 DEF LoadInv, NodesInv
      <4>3. ASSUME nodes[n].step = 0
            PROVE  \E i \in 1 .. steps : \E k \in 1 .. Done(i)' : Given(i)'[k] = nodes'[n].path
        <5>1. PICK i \in 1 .. steps : \E k \in 1 .. Done(i) : Given(i)[k] = nodes[n].path
          BY <4>2, <4>3
        <5>2. PICK k \in 1 .. Done(i) : Given(i)[k] = nodes[n].path
          BY <5>1
        <5>3. k \in 1 .. Done(i)'
          <6>1. CASE i = steps
            <7>1. Done(i)' = linked + 1 /\ Done(i) = linked /\ linked \in Nat
              BY <1>2, <1>3, <1>4, <6>1
            <7> QED
              BY <7>1
          <6>2. CASE i # steps
            BY <1>3, <6>2
          <6> QED
            BY <6>1, <6>2
        <5> QED
          BY <1>3, <4>1, <5>2, <5>3
      <4> QED
        BY <4>1, <4>2, <4>3
    <3>2. CASE n \notin DOMAIN nodes
      <4>1. n = in /\ nodes'[n].step = 0
        BY <1>1, <3>2
      <4>2. linked + 1 \in 1 .. Done(steps)'
        <5>1. Done(steps)' = linked + 1
          BY <1>2 DEF Done
        <5> QED
          BY <1>2, <5>1
      <4>3. Given(steps)'[linked + 1] = nodes'[n].path
        BY <1>1, <1>2, <4>1 DEF Given
      <4>4. nodes'[n].step \in 0 .. steps /\ steps \in 1 .. steps
        BY <1>2, <4>1
      <4>5. steps' = steps
        BY <1>2
      <4> QED
        BY <4>1, <4>2, <4>3, <4>4, <4>5
    <3> QED
      BY <3>1, <3>2
  <2>2. \A i \in 1 .. steps : \E n \in DOMAIN nodes' : nodes'[n].step = i
    <3> SUFFICES ASSUME NEW i \in 1 .. steps PROVE \E n \in DOMAIN nodes' : nodes'[n].step = i
      OBVIOUS
    <3>1. PICK n \in DOMAIN nodes : nodes[n].step = i
      BY DEF LoadInv, NodesInv
    <3> QED
      BY <1>1, <1>2, <3>1
  <2> QED
    BY <1>2, <2>1, <2>2 DEF NodesInv
<1>12. \A u \in DOMAIN nodes' : \A v :
         Graph!Edges(u, v)' = (IF u \in DOMAIN nodes THEN Graph!Edges(u, v) ELSE {})
                          \cup (IF u = in /\ v = out THEN {Len(old) + 1} ELSE {})
  <2> SUFFICES ASSUME NEW u \in DOMAIN nodes', NEW v
               PROVE  Graph!Edges(u, v)' = (IF u \in DOMAIN nodes THEN Graph!Edges(u, v) ELSE {})
                                       \cup (IF u = in /\ v = out THEN {Len(old) + 1} ELSE {})
    OBVIOUS
  <2>1. Graph!Edges(u, v)' = {e \in DOMAIN nodes'[u].out : nodes'[u].out[e] = v}
    BY DEF Graph!Edges
  <2>2. CASE u # in
    <3>1. u \in DOMAIN nodes /\ nodes'[u].out = nodes[u].out
      BY <1>1, <2>2
    <3> QED
      BY <2>1, <2>2, <3>1 DEF Graph!Edges
  <2>3. CASE u = in
    <3>1. Graph!Edges(u, v)' = {e \in 1 .. Len(old) : old[e] = v}
              \cup (IF v = out THEN {Len(old) + 1} ELSE {})
      <4>1. \A e : e \in 1 .. Len(old) + 1 <=> e \in 1 .. Len(old) \/ e = Len(old) + 1
        BY <1>7
      <4>2. \A e \in 1 .. Len(old) : e # Len(old) + 1
        BY <1>7
      <4>3. ASSUME NEW e
            PROVE  e \in Graph!Edges(u, v)'
                <=> (e \in 1 .. Len(old) /\ old[e] = v) \/ (e = Len(old) + 1 /\ v = out)
        <5>1. e \in Graph!Edges(u, v)' <=> e \in 1 .. Len(old) + 1 /\ nodes'[in].out[e] = v
          BY <1>7, <2>1, <2>3
        <5>2. CASE e \in 1 .. Len(old)
          BY <1>7, <4>1, <4>2, <5>1, <5>2
        <5>3. CASE e = Len(old) + 1
          <6>1. nodes'[in].out[e] = out /\ e \in 1 .. Len(old) + 1 /\ e \notin 1 .. Len(old)
            BY <1>7, <4>1, <4>2, <5>3
          <6> QED
            BY <5>1, <5>3, <6>1
        <5> QED
          BY <4>1, <5>1, <5>2, <5>3
      <4> QED
        BY <4>3
    <3>2. CASE in \in DOMAIN nodes
      BY <1>7, <1>9, <2>3, <3>1, <3>2 DEF Graph!Edges
    <3>3. CASE in \notin DOMAIN nodes
      BY <1>7, <1>8, <2>3, <3>1, <3>3
    <3> QED
      BY <3>2, <3>3
  <2> QED
    BY <2>2, <2>3
<1>13. \A v, F : EdgesInto(v, F)'
           = EdgesInto(v, F) \cup (IF v = out /\ path \in F THEN {<<in, Len(old) + 1>>} ELSE {})
  <2> SUFFICES ASSUME NEW v, NEW F
               PROVE  EdgesInto(v, F)'
                   = EdgesInto(v, F) \cup (IF v = out /\ path \in F THEN {<<in, Len(old) + 1>>} ELSE {})
    OBVIOUS
  <2> HIDE DEF path
  <2>1. ASSUME NEW x
        PROVE  x \in EdgesInto(v, F)'
            <=> x \in EdgesInto(v, F) \/ (v = out /\ path \in F /\ x = <<in, Len(old) + 1>>)
    <3>1. x \in EdgesInto(v, F)'
              <=> \E u \in DOMAIN nodes' : nodes'[u].path \in F /\ x \in {u} \X Graph!Edges(u, v)'
      BY DEF EdgesInto
    <3>2. x \in EdgesInto(v, F)
              <=> \E u \in DOMAIN nodes : nodes[u].path \in F /\ x \in {u} \X Graph!Edges(u, v)
      BY DEF EdgesInto
    <3>3. \A u \in DOMAIN nodes' :
            x \in {u} \X Graph!Edges(u, v)' <=> \/ u \in DOMAIN nodes /\ x \in {u} \X Graph!Edges(u, v)
                                                \/ u = in /\ v = out /\ x = <<in, Len(old) + 1>>
      BY <1>12
    <3> QED
      BY <1>1, <1>2, <3>1, <3>2, <3>3
  <2> QED
    BY <2>1
<1>14. \A v, F : <<in, Len(old) + 1>> \notin EdgesInto(v, F)
  <2> SUFFICES ASSUME NEW v, NEW F, <<in, Len(old) + 1>> \in EdgesInto(v, F) PROVE FALSE
    OBVIOUS
  <2>1. PICK u \in DOMAIN nodes : <<in, Len(old) + 1>> \in {u} \X Graph!Edges(u, v)
    BY DEF EdgesInto
  <2>2. u = in /\ Len(old) + 1 \in Graph!Edges(in, v)
    BY <2>1
  <2>3. Len(old) + 1 \in DOMAIN old
    BY <1>9, <2>2 DEF Graph!Edges
  <2> QED
    BY <1>7, <2>3
<1>15. \A F : Lists(steps, F)' = Lists(steps, F) \cup (IF path \in F THEN {linked + 1} ELSE {})
  <2> SUFFICES ASSUME NEW F
          PROVE Lists(steps, F)' = Lists(steps, F) \cup (IF path \in F THEN {linked + 1} ELSE {})
    OBVIOUS
  <2>1. Lists(steps, F)' = {k \in 1 .. linked + 1 : Given(steps)[k] \in F}
    <3>1. Done(steps)' = linked + 1 /\ Given(steps)' = Given(steps)
      BY <1>2 DEF Done, Given
    <3> QED
      BY <3>1 DEF Lists
  <2>2. 1 .. linked + 1 = (1 .. linked) \cup {linked + 1}
    <3>1. linked \in Nat
      BY <1>2
    <3> QED
      BY ONLY <3>1
  <2> QED
    BY <1>4, <2>1, <2>2 DEF Lists
<1>16. \A F : IsFiniteSet(Lists(steps, F)) /\ linked + 1 \notin Lists(steps, F)
  <2>1. IsFiniteSet(1 .. linked) /\ linked + 1 \notin 1 .. linked
    <3>1. linked \in Nat
      BY <1>2
    <3>2. 1 \in Int /\ linked \in Int /\ linked + 1 \notin 1 .. linked
      BY ONLY <3>1
    <3> QED
      BY <3>2, FS_Interval
  <2> QED
    BY <1>4, <2>1, FS_Subset DEF Lists
<1>17. EdgesInv'
  <2>1. \A u \in DOMAIN nodes' : \A e \in DOMAIN nodes'[u].out : nodes'[u].out[e] \in Graph!Produced'
    <3> SUFFICES ASSUME NEW u \in DOMAIN nodes', NEW e \in DOMAIN nodes'[u].out
                 PROVE  nodes'[u].out[e] \in Graph!Produced
      BY <1>6
    <3>1. CASE u # in
      BY <1>1, <3>1 DEF LoadInv, EdgesInv
    <3>2. CASE u = in
      <4>1. \A k \in 1 .. Len(old) : old[k] \in Graph!Produced
        <5>1. CASE in \in DOMAIN nodes
          BY <1>7, <1>9, <5>1 DEF LoadInv, EdgesInv
        <5>2. CASE in \notin DOMAIN nodes
          BY <1>7, <1>8, <5>2
        <5> QED
          BY <5>1, <5>2
      <4>2. e \in 1 .. Len(old) \/ e = Len(old) + 1
        BY <1>7, <3>2
      <4>3. CASE e \in 1 .. Len(old)
        BY <1>7, <3>2, <4>1, <4>3
      <4>4. CASE e = Len(old) + 1
        BY <1>7, <3>2, <4>4
      <4> QED
        BY <4>2, <4>3, <4>4
    <3> QED
      BY <3>1, <3>2
  <2>2. ASSUME NEW v \in Graph!Produced', NEW F \in SUBSET Paths
        PROVE  /\ IsFiniteSet(EdgesInto(v, F)')
               /\ Cardinality(EdgesInto(v, F)') = Cardinality(Lists(nodes[v].step, F)')
    <3>1. /\ v \in Graph!Produced /\ v \in DOMAIN nodes /\ nodes'[v].step = nodes[v].step
          /\ nodes[v].step \in 1 .. steps /\ manifest[nodes[v].step].output = nodes[v].path
      BY <1>1, <1>6 DEF Graph!Produced, LoadInv, NodesInv
    <3>2. /\ IsFiniteSet(EdgesInto(v, F))
          /\ Cardinality(EdgesInto(v, F)) = Cardinality(Lists(nodes[v].step, F))
      BY <3>1 DEF LoadInv, EdgesInv
    <3>3. CASE v # out
      <4>1. nodes[v].step # steps
        <5>1. out \in DOMAIN nodes /\ manifest[steps].output = nodes[out].path
          BY <1>1, <1>2 DEF Graph!Produced, LoadInv, NodesInv
        <5> QED
          BY <3>1, <3>3, <5>1 DEF LoadInv, NodesInv, Distinct
      <4>2. Lists(nodes[v].step, F)' = Lists(nodes[v].step, F)
        BY <1>3, <3>1, <4>1 DEF Lists
      <4> QED
        BY <1>13, <3>2, <3>3, <4>2
    <3>4. CASE v = out /\ path \notin F
      <4>1. Lists(nodes[v].step, F)' = Lists(steps, F)'
        BY <1>1, <1>2, <3>1, <3>4
      <4>2. Lists(steps, F)' = Lists(steps, F)
        <5>1. Lists(steps, F)' = Lists(steps, F) \cup {}
          BY <1>15, <3>4
        <5> QED
          BY ONLY <5>1
      <4>3. EdgesInto(v, F)' = EdgesInto(v, F)
        BY <1>13, <3>4
      <4> QED
        BY <1>1, <3>2, <3>4, <4>1, <4>2, <4>3
    <3>5. CASE v = out /\ path \in F
      <4>1. Lists(nodes[v].step, F)' = Lists(steps, F) \cup {linked + 1}
        <5>1. Lists(nodes[v].step, F)' = Lists(steps, F)'
          BY <1>1, <1>2, <3>1, <3>5
        <5> QED
          BY <1>15, <3>5, <5>1
      <4>2. EdgesInto(v, F)' = EdgesInto(v, F) \cup {<<in, Len(old) + 1>>}
        BY <1>13, <3>5
      <4>3. Cardinality(EdgesInto(v, F)) = Cardinality(Lists(steps, F))
        BY <1>1, <3>2, <3>5
      <4>4. /\ IsFiniteSet(EdgesInto(v, F)')
            /\ Cardinality(EdgesInto(v, F)') = Cardinality(EdgesInto(v, F)) + 1
        BY <1>14, <3>2, <4>2, FS_AddElement
      <4>5. Cardinality(Lists(nodes[v].step, F)') = Cardinality(Lists(steps, F)) + 1
        BY <1>16, <4>1, FS_AddElement
      <4> QED
        BY <4>3, <4>4, <4>5
    <3> QED
      BY <3>3, <3>4, <3>5
  <2> QED
    BY <2>1, <2>2 DEF EdgesInv
<1> QED
  BY <1>10, <1>11, <1>17 DEF LoadInv

-----------------------------------------------------------------------------
(* The graph, when it is loaded, is what the manifest says.                *)
IsLoaded == Graph!Linked /\ steps = Len(manifest)
PathOf(n) == nodes[n].path

(* Two nodes are connected when the step of the second mentions the path   *)
(* of the first.                                                           *)
LEMMA EdgesAreMentions ==
    ASSUME LoadInv, NEW v \in Graph!Produced, NEW u \in DOMAIN nodes
    PROVE  Graph!Edges(u, v) # {}
        <=> \E k \in 1 .. Done(nodes[v].step) : Given(nodes[v].step)[k] = PathOf(u)
<1> DEFINE p == PathOf(u)
           i == nodes[v].step
<1>1. p \in Paths
  <2>1. nodes \in Seq(NodeType) /\ u \in 1 .. Len(nodes)
    BY LenProperties DEF LoadInv, LoadType
  <2>2. nodes[u] \in NodeType
    BY <2>1, ElementOfSeq
  <2> QED
    BY <2>2 DEF NodeType, PathOf
<1>2. IsFiniteSet(EdgesInto(v, {p})) /\ Cardinality(EdgesInto(v, {p})) = Cardinality(Lists(i, {p}))
  BY <1>1 DEF LoadInv, EdgesInv
<1>3. i \in 1 .. steps
  BY DEF LoadInv, NodesInv, Graph!Produced
<1>4. IsFiniteSet(Lists(i, {p}))
  <2>1. Len(Given(i)) \in Nat /\ Done(i) \in 0 .. Len(Given(i))
    BY <1>3, LoadNumbers
  <2>2. Done(i) \in Nat
    BY <2>1
  <2>3. IsFiniteSet(1 .. Done(i))
    BY <2>2, FS_Interval
  <2> QED
    BY <2>3, FS_Subset DEF Lists
<1>5. EdgesInto(v, {p}) = {} <=> Lists(i, {p}) = {}
  BY <1>2, <1>4, FS_EmptySet
<1>6. EdgesInto(v, {p}) # {} <=> Graph!Edges(u, v) # {}
  <2>1. \A w \in DOMAIN nodes : nodes[w].path \in {p} <=> w = u
    BY DEF LoadInv, NodesInv, Distinct, PathOf
  <2>2. {w \in DOMAIN nodes : nodes[w].path \in {p}} = {u}
    BY <2>1
  <2>3. EdgesInto(v, {p}) = UNION {{w} \X Graph!Edges(w, v) : w \in {u}}
    BY <2>2 DEF EdgesInto
  <2>4. ASSUME NEW x PROVE x \in EdgesInto(v, {p}) <=> x \in {u} \X Graph!Edges(u, v)
    BY <2>3
  <2>5. \A e \in Graph!Edges(u, v) : <<u, e>> \in EdgesInto(v, {p})
    BY <2>4
  <2>6. \A x \in EdgesInto(v, {p}) : \E e \in Graph!Edges(u, v) : x = <<u, e>>
    BY <2>4
  <2> QED
    BY <2>5, <2>6
<1>7. Lists(i, {p}) # {} <=> \E k \in 1 .. Done(i) : Given(i)[k] = p
  BY DEF Lists
<1> QED
  BY <1>5, <1>6, <1>7

(* Of a graph that is loaded every step is entered with all that it        *)
(* mentions.                                                               *)
LEMMA WhenLoaded ==
    ASSUME LoadInv, IsLoaded
    PROVE  /\ Len(manifest) \in Nat /\ steps = Len(manifest) /\ DOMAIN manifest = 1 .. steps
           /\ \A i \in 1 .. steps : /\ Graph!Mentioned(i) = Given(i)
                                    /\ DOMAIN Graph!Mentioned(i) = 1 .. Done(i)
                                    /\ \A k \in DOMAIN Graph!Mentioned(i) :
                                           Graph!Mentioned(i)[k] \in Paths
<1>1. manifest \in Seq(StepType) /\ steps = Len(manifest) /\ Graph!Linked
  BY DEF LoadInv, LoadType, IsLoaded
<1>2. Len(manifest) \in Nat /\ DOMAIN manifest = 1 .. steps
  BY <1>1, LenProperties
<1>3. ASSUME NEW i \in 1 .. steps
      PROVE  /\ Graph!Mentioned(i) = Given(i)
             /\ DOMAIN Graph!Mentioned(i) = 1 .. Done(i)
             /\ \A k \in DOMAIN Graph!Mentioned(i) : Graph!Mentioned(i)[k] \in Paths
  <2>1. Graph!Mentioned(i) = Given(i)
    BY DEF Graph!Mentioned, Given, Graph!InputsOf
  <2>2. Done(i) = Len(Given(i))
    BY <1>1, <1>2 DEF Done, Graph!Linked, Given
  <2>3. Given(i) \in Seq(Paths)
    BY <1>1, StepFacts
  <2> QED
    BY <2>1, <2>2, <2>3, LenProperties, ElementOfSeq
<1> QED
  BY <1>1, <1>2, <1>3

(* So its nodes are the manifest's files and its edges the manifest's      *)
(* relation: nothing is twice or missing.                                  *)
LEMMA GraphIsManifest ==
    ASSUME LoadInv, IsLoaded
    PROVE  /\ Graph!Outputs = {PathOf(n) : n \in Graph!Produced}
           /\ Graph!Files = {PathOf(n) : n \in DOMAIN nodes}
           /\ \A u, v \in DOMAIN nodes : Graph!LeadsTo(PathOf(u), PathOf(v)) <=> Graph!Edges(u, v) # {}
           /\ ~Graph!Ambiguous
<1>1. /\ Len(manifest) \in Nat /\ steps = Len(manifest) /\ DOMAIN manifest = 1 .. steps
      /\ \A i \in 1 .. steps : Graph!Mentioned(i) = Given(i) /\ DOMAIN Graph!Mentioned(i) = 1 .. Done(i)
  BY WhenLoaded
<1>2. \A n \in Graph!Produced :
          nodes[n].step \in 1 .. steps /\ manifest[nodes[n].step].output = PathOf(n)
  BY DEF LoadInv, NodesInv, Graph!Produced, PathOf
<1>3. \A i \in 1 .. steps : \E n \in Graph!Produced : nodes[n].step = i
  BY <1>1 DEF LoadInv, NodesInv, Graph!Produced
<1>4. Graph!Produced \subseteq DOMAIN nodes
  BY DEF Graph!Produced
<1>5. \A u, v \in DOMAIN nodes : PathOf(u) = PathOf(v) => u = v
  BY DEF LoadInv, NodesInv, Distinct, PathOf
<1>6. Graph!Outputs = {PathOf(n) : n \in Graph!Produced}
  <2>1. ASSUME NEW x PROVE x \in Graph!Outputs <=> \E n \in Graph!Produced : x = PathOf(n)
    <3>1. x \in Graph!Outputs <=> \E i \in 1 .. steps : x = manifest[i].output
      BY <1>1 DEF Graph!Outputs
    <3> QED
      BY <1>2, <1>3, <3>1
  <2> QED
    BY <2>1
<1>7. \A i \in 1 .. steps : \A k \in 1 .. Done(i) : \E u \in DOMAIN nodes : PathOf(u) = Given(i)[k]
  <2> SUFFICES ASSUME NEW i \in 1 .. steps, NEW k \in 1 .. Done(i)
               PROVE  \E u \in DOMAIN nodes : PathOf(u) = Given(i)[k]
    OBVIOUS
  <2> DEFINE p == Given(i)[k]
  <2>1. PICK v \in Graph!Produced : nodes[v].step = i
    BY <1>3
  <2>2. p \in Paths
    BY <1>1, WhenLoaded
  <2>3. IsFiniteSet(EdgesInto(v, {p})) /\ Cardinality(EdgesInto(v, {p})) = Cardinality(Lists(i, {p}))
    BY <2>1, <2>2 DEF LoadInv, EdgesInv
  <2>4. Lists(i, {p}) # {} /\ IsFiniteSet(Lists(i, {p}))
    <3>1. Len(Given(i)) \in Nat /\ Done(i) \in 0 .. Len(Given(i))
      BY LoadNumbers
    <3>2. Done(i) \in Nat
      BY <3>1
    <3>3. IsFiniteSet(1 .. Done(i))
      BY <3>2, FS_Interval
    <3> QED
      BY <3>3, FS_Subset DEF Lists
  <2>5. EdgesInto(v, {p}) # {}
    BY <2>3, <2>4, FS_EmptySet
  <2>6. \E u \in DOMAIN nodes : nodes[u].path \in {p}
    BY <2>5 DEF EdgesInto
  <2> QED
    BY <2>6 DEF PathOf
<1>8. Graph!Files = {PathOf(n) : n \in DOMAIN nodes}
  <2>1. ASSUME NEW x
        PROVE  x \in Graph!Files
            <=> x \in Graph!Outputs \/ \E i \in 1 .. steps : \E k \in 1 .. Done(i) : x = Given(i)[k]
    <3>1. x \in Graph!Files <=> x \in Graph!Outputs \/ \E i \in 1 .. steps :
              x \in Graph!Range(Graph!Mentioned(i))
      BY <1>1 DEF Graph!Files
    <3>2. \A i \in 1 .. steps : x \in Graph!Range(Graph!Mentioned(i))
              <=> \E k \in 1 .. Done(i) : x = Given(i)[k]
      BY <1>1 DEF Graph!Range
    <3> QED
      BY <3>1, <3>2
  <2>2. ASSUME NEW n \in DOMAIN nodes PROVE PathOf(n) \in Graph!Files
    <3>1. CASE n \in Graph!Produced
      BY <1>6, <2>1, <3>1
    <3>2. CASE n \notin Graph!Produced
      <4>1. \E i \in 1 .. steps : \E k \in 1 .. Done(i) : Given(i)[k] = PathOf(n)
        BY <3>2 DEF Graph!Produced, LoadInv, NodesInv, PathOf
      <4> QED
        BY <2>1, <4>1
    <3> QED
      BY <3>1, <3>2
  <2>3. ASSUME NEW x \in Graph!Files PROVE \E n \in DOMAIN nodes : x = PathOf(n)
    BY <1>4, <1>6, <1>7, <2>1
  <2> QED
    BY <2>2, <2>3
<1>9. ASSUME NEW u \in DOMAIN nodes, NEW v \in DOMAIN nodes
      PROVE  Graph!LeadsTo(PathOf(u), PathOf(v)) <=> Graph!Edges(u, v) # {}
  <2>1. Graph!LeadsTo(PathOf(u), PathOf(v))
          <=> \E i \in 1 .. steps : /\ manifest[i].output = PathOf(v)
                                    /\ \E k \in 1 .. Done(i) : PathOf(u) = Given(i)[k]
    <3>1. \A i \in 1 .. steps : PathOf(u) \in Graph!Range(Graph!Mentioned(i))
              <=> \E k \in 1 .. Done(i) : PathOf(u) = Given(i)[k]
      BY <1>1 DEF Graph!Range
    <3> QED
      BY <1>1, <3>1 DEF Graph!LeadsTo
  <2>2. ASSUME NEW i \in 1 .. steps, manifest[i].output = PathOf(v)
            PROVE v \in Graph!Produced /\ nodes[v].step = i
    <3>1. PICK n \in Graph!Produced : nodes[n].step = i
      BY <1>3
    <3> QED
      BY <1>2, <1>4, <1>5, <2>2, <3>1
  <2>3. CASE v \in Graph!Produced
    BY <1>2, <2>1, <2>2, <2>3, EdgesAreMentions
  <2>4. CASE v \notin Graph!Produced
    <3>1. Graph!Edges(u, v) = {}
      BY <2>4 DEF LoadInv, EdgesInv, Graph!Edges
    <3> QED
      BY <2>1, <2>2, <2>4, <3>1
  <2> QED
    BY <2>3, <2>4
<1>10. ~Graph!Ambiguous
  <2> SUFFICES ASSUME NEW i \in 1 .. steps, NEW j \in 1 .. steps, i # j,
                      manifest[i].output = manifest[j].output
               PROVE  FALSE
    BY <1>1 DEF Graph!Ambiguous
  <2>1. PICK m \in Graph!Produced : nodes[m].step = i
    BY <1>3
  <2>2. PICK n \in Graph!Produced : nodes[n].step = j
    BY <1>3
  <2> QED
    BY <1>2, <1>4, <1>5, <2>1, <2>2
<1> QED
  BY <1>6, <1>8, <1>9, <1>10

-----------------------------------------------------------------------------
(* The counters and the searches: what Kahn's count has used up.           *)
Passed == {n \in Graph!Produced : remaining[n] = 0 /\ n \notin ready}
StackType == [node : DOMAIN nodes, edge : Nat \ {0}]

(* The counters belong to the graph that is loaded, and each search begins *)
(* with nothing.                                                           *)
DegreeInv ==
    /\ degree # <<>> => phase \notin {"load", "duplicate"} /\ degree = Graph!InDegrees
    /\ phase = "load" => visited = 0
    /\ phase \in {"load", "kahn"} => stack = <<>> /\ order = <<>>
    /\ phase = "kahn" => tool = "execute"

(* A node's counter is the number of edges from nodes not used up; those   *)
(* used up do not need themselves.                                         *)
KahnInv ==
    phase = "kahn" =>
        /\ \A v \in DOMAIN nodes :
               remaining[v] = Cardinality(Graph!EdgesFrom(Graph!Produced \ Passed, v))
        /\ ready \subseteq {n \in Graph!Produced : remaining[n] = 0}
        /\ visited = Cardinality(Passed)
        /\ \A n \in Passed : ~Graph!NeedsItself(PathOf(n))

(* The stack is a path without a node twice, the order has what is         *)
(* finished, and edges already taken lead to finished nodes or to the next *)
(* of the path.                                                            *)
SortInv ==
    phase = "sort" =>
        /\ status \in [DOMAIN nodes -> {"unstarted", "working", "finished"}]
        /\ stack \in Seq(StackType)
        /\ order \in Seq(DOMAIN nodes)
        /\ \A i, j \in DOMAIN stack : stack[i].node = stack[j].node => i = j
        /\ \A i, j \in DOMAIN order : order[i] = order[j] => i = j
        /\ \A n \in DOMAIN nodes : status[n] = "working" <=> \E i \in DOMAIN stack : stack[i].node = n
        /\ \A n \in DOMAIN nodes : status[n] = "finished" <=> \E i \in DOMAIN order : order[i] = n
        /\ \A i \in DOMAIN stack : i + 1 \in DOMAIN stack =>
              \E e \in DOMAIN nodes[stack[i].node].out : nodes[stack[i].node].out[e] = stack[i + 1].node
        /\ \A i \in DOMAIN stack : \A e \in DOMAIN nodes[stack[i].node].out :
              e < stack[i].edge =>
                \/ status[nodes[stack[i].node].out[e]] = "finished"
                \/ i + 1 \in DOMAIN stack /\ stack[i + 1].node = nodes[stack[i].node].out[e]
        /\ \A i \in DOMAIN order : \A e \in DOMAIN nodes[order[i]].out :
              \E j \in 1 .. i - 1 : order[j] = nodes[order[i]].out[e]

GraphInv == LoadInv /\ DegreeInv /\ KahnInv /\ SortInv /\ Graph!RefusedIffCyclic /\ Graph!CommandsInOrder

-----------------------------------------------------------------------------
(* What is said of the graph changes only with the manifest and the nodes. *)
LEMMA GraphStable ==
    ASSUME UNCHANGED <<manifest, nodes>>
    PROVE  /\ Graph!Produced' = Graph!Produced /\ Graph!InDegrees' = Graph!InDegrees
           /\ \A u, v : Graph!Edges(u, v)' = Graph!Edges(u, v)
           /\ \A U, v : Graph!EdgesFrom(U, v)' = Graph!EdgesFrom(U, v)
           /\ \A n : PathOf(n)' = PathOf(n)
           /\ \A f : Graph!NeedsItself(f)' <=> Graph!NeedsItself(f)
           /\ \A f, g : Graph!LeadsTo(f, g)' <=> Graph!LeadsTo(f, g)
           /\ Graph!Files' = Graph!Files
           /\ Graph!Cyclic' <=> Graph!Cyclic
           /\ Graph!Ambiguous' <=> Graph!Ambiguous
<1>1. Graph!Produced' = Graph!Produced /\ Graph!InDegrees' = Graph!InDegrees
  BY DEF Graph!Produced, Graph!InDegrees, Graph!EdgesFrom, Graph!Edges
<1>2. /\ \A u, v : Graph!Edges(u, v)' = Graph!Edges(u, v)
      /\ \A U, v : Graph!EdgesFrom(U, v)' = Graph!EdgesFrom(U, v)
  BY DEF Graph!EdgesFrom, Graph!Edges
<1>3. /\ \A n : PathOf(n)' = PathOf(n)
      /\ \A f, g : Graph!LeadsTo(f, g)' <=> Graph!LeadsTo(f, g)
      /\ Graph!Files' = Graph!Files
  BY DEF PathOf, Graph!LeadsTo, Graph!Mentioned, Graph!Files, Graph!Outputs
<1>4. \A f : Graph!NeedsItself(f)' <=> Graph!NeedsItself(f)
  BY <1>3 DEF Graph!NeedsItself
<1>5. (Graph!Cyclic' <=> Graph!Cyclic) /\ (Graph!Ambiguous' <=> Graph!Ambiguous)
  BY <1>3, <1>4 DEF Graph!Cyclic, Graph!Ambiguous
<1> QED
  BY <1>1, <1>2, <1>3, <1>4, <1>5

(* The edges are finitely many.                                            *)
LEMMA EdgesFinite ==
    ASSUME LoadInv, NEW v \in DOMAIN nodes, NEW U \in SUBSET DOMAIN nodes
    PROVE  /\ IsFiniteSet(Graph!EdgesFrom(U, v)) /\ Cardinality(Graph!EdgesFrom(U, v)) \in Nat
           /\ Cardinality(Graph!EdgesFrom(U, v)) = 0 <=> \A u \in U : Graph!Edges(u, v) = {}
<1>1. IsFiniteSet(Graph!EdgesFrom(U, v))
  <2>1. CASE v \in Graph!Produced
    <3>1. IsFiniteSet(EdgesInto(v, Paths))
      BY <2>1 DEF LoadInv, EdgesInv
    <3>2. \A u \in U : nodes[u].path \in Paths
      <4>1. nodes \in Seq(NodeType) /\ U \subseteq 1 .. Len(nodes)
        BY LenProperties DEF LoadInv, LoadType
      <4>2. \A u \in U : nodes[u] \in NodeType
        BY <4>1, ElementOfSeq
      <4> QED
        BY <4>2 DEF NodeType
    <3>3. U \subseteq {n \in DOMAIN nodes : nodes[n].path \in Paths}
      BY <3>2
    <3> HIDE DEF Graph!Edges
    <3>4. Graph!EdgesFrom(U, v) \subseteq EdgesInto(v, Paths)
      BY <3>3 DEF Graph!EdgesFrom, EdgesInto
    <3> QED
      BY <3>1, <3>4, FS_Subset
  <2>2. CASE v \notin Graph!Produced
    <3>1. \A u \in U : Graph!Edges(u, v) = {}
      BY <2>2 DEF LoadInv, EdgesInv, Graph!Edges
    <3>2. \A x : x \notin Graph!EdgesFrom(U, v)
      BY <3>1 DEF Graph!EdgesFrom
    <3>3. Graph!EdgesFrom(U, v) = {}
      BY <3>2
    <3> QED
      BY <3>3, FS_EmptySet
  <2> QED
    BY <2>1, <2>2
<1>2. Graph!EdgesFrom(U, v) = {} <=> \A u \in U : Graph!Edges(u, v) = {}
  <2>1. \A u \in U : \A e \in Graph!Edges(u, v) : <<u, e>> \in Graph!EdgesFrom(U, v)
    BY DEF Graph!EdgesFrom
  <2>2. \A x \in Graph!EdgesFrom(U, v) : \E u \in U : Graph!Edges(u, v) # {}
    BY DEF Graph!EdgesFrom
  <2> QED
    BY <2>1, <2>2
<1> QED
  BY <1>1, <1>2, FS_CardinalityType, FS_EmptySet

(* The edges of one node more.                                             *)
LEMMA EdgesSplit ==
    ASSUME LoadInv, NEW v \in DOMAIN nodes, NEW U \in SUBSET DOMAIN nodes, NEW n \in U
    PROVE  /\ Cardinality(Graph!Edges(n, v)) \in Nat
           /\ (Cardinality(Graph!Edges(n, v)) = 0 <=> Graph!Edges(n, v) = {})
           /\ Cardinality(Graph!EdgesFrom(U, v)) = Cardinality(Graph!EdgesFrom(U \ {n}, v))
                  + Cardinality(Graph!Edges(n, v))
<1> DEFINE A == Graph!EdgesFrom(U \ {n}, v)
           B == {n} \X Graph!Edges(n, v)
<1>1. IsFiniteSet(Graph!EdgesFrom(U, v)) /\ IsFiniteSet(A)
  BY EdgesFinite
<1>2. Graph!EdgesFrom(U, v) = A \cup B
  <2>1. ASSUME NEW x PROVE x \in Graph!EdgesFrom(U, v) <=> \E u \in U : x \in {u} \X Graph!Edges(u, v)
    BY DEF Graph!EdgesFrom
  <2>2. ASSUME NEW x PROVE x \in A <=> \E u \in U \ {n} : x \in {u} \X Graph!Edges(u, v)
    BY DEF Graph!EdgesFrom
  <2> QED
    BY <2>1, <2>2
<1>3. A \cap B = {}
  BY DEF Graph!EdgesFrom
<1>4. IsFiniteSet(B)
  BY <1>1, <1>2, FS_Subset
<1>5. IsFiniteSet(Graph!Edges(n, v)) /\ Cardinality(Graph!Edges(n, v)) = Cardinality(B)
  <2> DEFINE f == [x \in B |-> x[2]]
  <2>1. f \in Bijection(B, Graph!Edges(n, v))
    <3>1. f \in [B -> Graph!Edges(n, v)]
      OBVIOUS
    <3>2. \A x, y \in B : f[x] = f[y] => x = y
      OBVIOUS
    <3>3. \A e \in Graph!Edges(n, v) : \E x \in B : f[x] = e
      <4> SUFFICES ASSUME NEW e \in Graph!Edges(n, v) PROVE \E x \in B : f[x] = e
        OBVIOUS
      <4>1. <<n, e>> \in B /\ f[<<n, e>>] = e
        OBVIOUS
      <4> QED
        BY <4>1
    <3> QED
      BY <3>1, <3>2, <3>3 DEF Bijection, Injection, Surjection, IsInjective
  <2>2. ExistsBijection(B, Graph!Edges(n, v))
    BY <2>1 DEF ExistsBijection
  <2> QED
    BY <1>4, <2>2, FS_Bijection
<1>6. Cardinality(A \cup B) = Cardinality(A) + Cardinality(B)
  <2>1. Cardinality(A \cup B) = Cardinality(A) + Cardinality(B) - Cardinality(A \cap B)
    BY <1>1, <1>4, FS_Union
  <2>2. Cardinality(A \cap B) = 0
    BY <1>3, FS_EmptySet
  <2>3. Cardinality(A) \in Nat /\ Cardinality(B) \in Nat
    BY <1>1, <1>4, FS_CardinalityType
  <2> QED
    BY <2>1, <2>2, <2>3
<1>7. /\ Cardinality(Graph!Edges(n, v)) \in Nat
      /\ (Cardinality(Graph!Edges(n, v)) = 0 <=> Graph!Edges(n, v) = {})
  BY <1>5, FS_CardinalityType, FS_EmptySet
<1> QED
  BY <1>2, <1>5, <1>6, <1>7

(* A file no step of which is left needs nothing of what is left.          *)
LEMMA FreeOfCycles ==
    ASSUME LoadInv, IsLoaded, NEW U \in SUBSET DOMAIN nodes, NEW n \in DOMAIN nodes \ U,
           \A v \in U \cup {n} : \A u \in DOMAIN nodes : Graph!Edges(u, v) # {} => u \in U
    PROVE  ~Graph!NeedsItself(PathOf(n))
<1> DEFINE F == {PathOf(u) : u \in U}
<1>1. /\ Graph!Files = {PathOf(u) : u \in DOMAIN nodes}
      /\ \A u, v \in DOMAIN nodes : Graph!LeadsTo(PathOf(u), PathOf(v)) <=> Graph!Edges(u, v) # {}
  BY GraphIsManifest
<1>2. \A u, v \in DOMAIN nodes : PathOf(u) = PathOf(v) => u = v
  BY DEF LoadInv, NodesInv, Distinct, PathOf
<1>3. F \in SUBSET Graph!Files
  BY <1>1
<1>4. PathOf(n) \notin F
  BY <1>2
<1>5. ASSUME NEW p \in Graph!Files, NEW q \in Graph!Files, Graph!LeadsTo(p, q), q \in F \cup {PathOf(n)}
      PROVE  p \in F
  <2>1. PICK u \in DOMAIN nodes : p = PathOf(u)
    BY <1>1
  <2>2. PICK v \in U \cup {n} : q = PathOf(v)
    BY <1>5
  <2>3. Graph!Edges(u, v) # {}
    BY <1>1, <1>5, <2>1, <2>2
  <2> QED
    BY <2>1, <2>2, <2>3
<1> HIDE DEF F
<1> QED
  BY <1>3, <1>4, <1>5 DEF Graph!NeedsItself

(* Edges lead to nodes that have a step.                                   *)
LEMMA EdgesWithin ==
    ASSUME LoadInv
    PROVE  \A u, v \in DOMAIN nodes : Graph!Edges(u, v) # {} => v \in Graph!Produced
BY DEF LoadInv, EdgesInv, Graph!Edges

(* Counting the inputs begins Kahn's count with what has none.             *)
LEMMA CountKeeps ==
    ASSUME GraphInv, Graph!CountInputs
    PROVE  GraphInv'
<1>1. /\ LoadInv /\ DegreeInv /\ phase = "load" /\ Graph!Linked /\ steps = Len(manifest)
      /\ UNCHANGED <<manifest, tool, Graph!load, Graph!sort>> /\ tool = "execute"
      /\ visited = 0 /\ stack = <<>> /\ order = <<>>
  BY DEF GraphInv, Graph!CountInputs, Graph!Loaded, DegreeInv
<1>2. UNCHANGED <<manifest, tool, nodes, steps, linked, stack, order>>
  BY <1>1 DEF Graph!load, Graph!sort
<1>3. phase' \in {"run", "kahn"}
  BY DEF Graph!CountInputs
<1>4. LoadInv'
  <2>1. phase' \in Phases
    BY <1>3 DEF Phases
  <2> QED
    BY <1>1, <1>2, <2>1, LoadStable
<1>5. SortInv' /\ Graph!CommandsInOrder'
  BY <1>1, <1>2, <1>3 DEF SortInv, Graph!CommandsInOrder
<1>6. CASE nodes = <<>>
  <2>1. phase' = "run" /\ UNCHANGED <<degree, remaining, ready, visited>>
    BY <1>6 DEF Graph!CountInputs, Graph!kahn
  <2>2. ~Graph!Ambiguous /\ Graph!Files = {}
    <3>1. DOMAIN nodes = {}
      BY <1>6
    <3>2. Graph!Files = {PathOf(n) : n \in DOMAIN nodes} /\ ~Graph!Ambiguous
      BY <1>1, GraphIsManifest DEF IsLoaded
    <3> QED
      BY <3>1, <3>2
  <2>3. Graph!RefusedIffCyclic'
    BY <1>2, <2>1, <2>2, GraphStable DEF Graph!RefusedIffCyclic, Graph!Cyclic
  <2>4. degree = <<>>
    BY <1>1 DEF DegreeInv
  <2> QED
    BY <1>2, <1>4, <1>5, <2>1, <2>3, <2>4 DEF GraphInv, DegreeInv, KahnInv
<1>7. CASE nodes # <<>>
  <2>1. /\ phase' = "kahn" /\ degree' = Graph!InDegrees /\ remaining' = Graph!InDegrees
        /\ ready' = {n \in Graph!Produced : Graph!InDegrees[n] = 0} /\ visited' = visited
    BY <1>7 DEF Graph!CountInputs, Graph!kahn
  <2>2. Graph!Produced' = Graph!Produced /\ Graph!InDegrees' = Graph!InDegrees /\ \A U, v :
            Graph!EdgesFrom(U, v)' = Graph!EdgesFrom(U, v)
    BY <1>2, GraphStable
  <2>3. Passed' = {}
    BY <2>1, <2>2 DEF Passed
  <2>4. Graph!Produced \ {} = Graph!Produced
    OBVIOUS
  <2>5. \A v \in DOMAIN nodes : Graph!InDegrees[v] = Cardinality(Graph!EdgesFrom(Graph!Produced, v))
    BY SameCounts DEF Graph!InDegrees
  <2>6. \A v \in DOMAIN nodes :
            (remaining[v] = Cardinality(Graph!EdgesFrom(Graph!Produced \ Passed, v)))'
    BY <1>2, <2>1, <2>2, <2>3, <2>4, <2>5 DEF Graph!EdgesFrom, Graph!Edges
  <2>7. KahnInv'
    BY <1>1, <1>2, <2>1, <2>2, <2>3, <2>6, FS_EmptySet DEF KahnInv
  <2> QED
    BY <1>1, <1>2, <1>4, <1>5, <2>1, <2>2, <2>7 DEF GraphInv, DegreeInv, Graph!RefusedIffCyclic
<1> QED
  BY <1>6, <1>7

(* A node whose inputs are all counted is counted itself: it takes its     *)
(* edges off its outputs' numbers, and it does not need itself.            *)
LEMMA VisitKeeps ==
    ASSUME GraphInv, NEW n \in DOMAIN nodes, Graph!Visit(n)
    PROVE  GraphInv'
<1> DEFINE Left == Graph!Produced \ Passed
<1>1. /\ LoadInv /\ DegreeInv /\ KahnInv /\ phase = "kahn" /\ IsLoaded /\ n \in ready
      /\ UNCHANGED <<manifest, tool, phase, Graph!load, degree, Graph!sort>>
  BY DEF GraphInv, Graph!Visit, IsLoaded, LoadInv, LoadType
<1>2. UNCHANGED <<manifest, tool, nodes, steps, linked, status, stack, order, culprit>>
  BY <1>1 DEF Graph!load, Graph!sort
<1>3. phase' = "kahn" /\ phase' \in Phases /\ Graph!Linked /\ steps = Len(manifest)
  BY <1>1 DEF Phases, LoadInv, LoadType
<1>4. LoadInv'
  BY <1>1, <1>2, <1>3, LoadStable
<1>5. /\ Graph!Produced' = Graph!Produced /\ Graph!InDegrees' = Graph!InDegrees
      /\ \A U, v : Graph!EdgesFrom(U, v)' = Graph!EdgesFrom(U, v)
      /\ \A x : PathOf(x)' = PathOf(x)
      /\ \A f : Graph!NeedsItself(f)' <=> Graph!NeedsItself(f)
  BY <1>2, GraphStable
<1>6. /\ \A v \in DOMAIN nodes : remaining[v] = Cardinality(Graph!EdgesFrom(Left, v))
      /\ ready \subseteq {x \in Graph!Produced : remaining[x] = 0}
      /\ visited = Cardinality(Passed)
      /\ \A x \in Passed : ~Graph!NeedsItself(PathOf(x))
  BY <1>1 DEF KahnInv
<1>7. n \in Graph!Produced /\ remaining[n] = 0 /\ n \notin Passed /\ n \in Left
  BY <1>1, <1>6 DEF Passed
<1>8. /\ Graph!Produced \subseteq DOMAIN nodes /\ Left \in SUBSET DOMAIN nodes
      /\ Left \ {n} \in SUBSET DOMAIN nodes
  BY DEF Graph!Produced
<1> HIDE DEF Left
<1>9. \A v \in DOMAIN nodes :
        /\ Cardinality(Graph!Edges(n, v)) \in Nat
        /\ (Cardinality(Graph!Edges(n, v)) = 0 <=> Graph!Edges(n, v) = {})
        /\ Cardinality(Graph!EdgesFrom(Left, v)) = Cardinality(Graph!EdgesFrom(Left \ {n}, v))
               + Cardinality(Graph!Edges(n, v))
  BY <1>1, <1>7, <1>8, EdgesSplit
<1>10. \A v \in DOMAIN nodes :
         /\ Cardinality(Graph!EdgesFrom(Left, v)) \in Nat
         /\ Cardinality(Graph!EdgesFrom(Left \ {n}, v)) \in Nat
         /\ Cardinality(Graph!EdgesFrom(Left, v)) = 0 <=> \A u \in Left : Graph!Edges(u, v) = {}
  BY <1>1, <1>8, EdgesFinite
<1>11. /\ remaining' = [v \in DOMAIN nodes |-> remaining[v] - Cardinality(Graph!Edges(n, v))]
       /\ ready' = (ready \ {n}) \cup {v \in DOMAIN nodes : remaining[v] > 0 /\ remaining'[v] <= 0}
       /\ visited' = visited + 1
  BY SameCounts DEF Graph!Visit
<1>12. \A v \in DOMAIN nodes : /\ remaining'[v] = Cardinality(Graph!EdgesFrom(Left \ {n}, v))
                               /\ remaining[v] \in Nat /\ remaining'[v] \in Nat
                               /\ remaining'[v] <= remaining[v]
  <2> SUFFICES ASSUME NEW v \in DOMAIN nodes
               PROVE  /\ remaining'[v] = Cardinality(Graph!EdgesFrom(Left \ {n}, v))
                      /\ remaining[v] \in Nat /\ remaining'[v] \in Nat
                      /\ remaining'[v] <= remaining[v]
    OBVIOUS
  <2>1. /\ remaining'[v] = remaining[v] - Cardinality(Graph!Edges(n, v))
        /\ remaining[v] = Cardinality(Graph!EdgesFrom(Left, v))
    BY <1>6, <1>11
  <2>2. /\ Cardinality(Graph!EdgesFrom(Left, v)) = Cardinality(Graph!EdgesFrom(Left \ {n}, v))
               + Cardinality(Graph!Edges(n, v))
        /\ Cardinality(Graph!EdgesFrom(Left, v)) \in Nat /\ Cardinality(Graph!Edges(n, v)) \in Nat
        /\ Cardinality(Graph!EdgesFrom(Left \ {n}, v)) \in Nat
    BY <1>9, <1>10
  <2> QED
    BY <2>1, <2>2
<1>13. Passed' = Passed \cup {n}
  <2>1. remaining'[n] = 0
    BY <1>7, <1>8, <1>12
  <2>2. \A x \in Graph!Produced : x \in Passed' <=> remaining'[x] = 0 /\ x \notin ready'
    BY <1>5 DEF Passed
  <2>3. ASSUME NEW x \in Graph!Produced PROVE x \in Passed' <=> x \in Passed \cup {n}
    <3>1. /\ x \in DOMAIN nodes /\ remaining[x] \in Nat /\ remaining'[x] \in Nat
          /\ remaining'[x] <= remaining[x]
      BY <1>8, <1>12
    <3>2. CASE x = n
      BY <1>7, <1>8, <1>11, <2>1, <2>2, <3>2
    <3>3. CASE x # n /\ remaining[x] = 0
      <4>1. remaining'[x] = 0
        BY <3>1, <3>3
      <4>2. x \in ready' <=> x \in ready
        BY <1>11, <3>1, <3>3
      <4> QED
        BY <2>2, <3>3, <4>1, <4>2 DEF Passed
    <3>4. CASE x # n /\ remaining[x] > 0
      <4>1. remaining'[x] = 0 => x \in ready'
        BY <1>11, <3>1, <3>4
      <4> QED
        BY <2>2, <3>1, <3>4, <4>1 DEF Passed
    <3> QED
      BY <3>1, <3>2, <3>3, <3>4
  <2>4. Passed \cup {n} \subseteq Graph!Produced /\ Passed' \subseteq Graph!Produced
    BY <1>5, <1>7 DEF Passed
  <2> QED
    BY <2>3, <2>4
<1>14. Graph!Produced' \ Passed' = Left \ {n}
  BY <1>5, <1>13 DEF Left
<1>15. ready' \subseteq {x \in Graph!Produced' : remaining'[x] = 0}
  <2>1. ASSUME NEW x \in ready' PROVE x \in Graph!Produced /\ remaining'[x] = 0
    <3>1. CASE x \in ready
      <4>1. x \in Graph!Produced /\ remaining[x] = 0
        BY <1>6, <3>1
      <4> QED
        BY <1>8, <1>12, <4>1
    <3>2. CASE x \notin ready
      <4>1. x \in DOMAIN nodes /\ remaining[x] > 0 /\ remaining'[x] <= 0
        BY <1>11, <2>1, <3>2
      <4>2. remaining'[x] = 0
        BY <1>12, <4>1
      <4>3. Graph!Edges(n, x) # {}
        <5>1. remaining'[x] = remaining[x] - Cardinality(Graph!Edges(n, x))
          BY <1>11, <4>1
        <5>2. Cardinality(Graph!Edges(n, x)) = 0 <=> Graph!Edges(n, x) = {}
          BY <1>9, <4>1
        <5>3. remaining[x] \in Nat /\ Cardinality(Graph!Edges(n, x)) \in Nat
          BY <1>9, <1>12, <4>1
        <5> QED
          BY <4>1, <4>2, <5>1, <5>2, <5>3
      <4> QED
        BY <1>1, <4>1, <4>2, <4>3, EdgesWithin
    <3> QED
      BY <3>1, <3>2
  <2> QED
    BY <1>5, <2>1
<1>16. visited' = Cardinality(Passed')
  <2>1. nodes \in Seq(NodeType)
    BY <1>1 DEF LoadInv, LoadType
  <2>2. Len(nodes) \in Nat /\ Passed \subseteq 1 .. Len(nodes)
    BY <1>8, <2>1, LenProperties DEF Passed
  <2>3. IsFiniteSet(1 .. Len(nodes))
    BY <2>2, FS_Interval
  <2>4. IsFiniteSet(Passed)
    BY <2>2, <2>3, FS_Subset
  <2> QED
    BY <1>6, <1>7, <1>11, <1>13, <2>4, FS_AddElement
<1>17. ~Graph!NeedsItself(PathOf(n))
  <2> DEFINE U == Passed \cup (DOMAIN nodes \ Graph!Produced)
  <2>1. U \in SUBSET DOMAIN nodes /\ n \in DOMAIN nodes \ U
    BY <1>7, <1>8 DEF Passed
  <2>2. ASSUME NEW v \in U \cup {n}, NEW u \in DOMAIN nodes, Graph!Edges(u, v) # {}
        PROVE  u \in U
    <3>1. v \in Graph!Produced
      BY <1>1, <2>1, <2>2, EdgesWithin
    <3>2. v \in DOMAIN nodes /\ remaining[v] = 0
      BY <1>7, <1>8, <2>2, <3>1 DEF Passed
    <3>3. u \notin Left
      BY <1>6, <1>10, <2>2, <3>2
    <3> QED
      BY <3>3 DEF Left
  <2> HIDE DEF U
  <2> QED
    BY <1>1, <2>1, <2>2, FreeOfCycles
<1>18. KahnInv'
  <2>1. \A v \in DOMAIN nodes' :
            (remaining[v] = Cardinality(Graph!EdgesFrom(Graph!Produced \ Passed, v)))'
    <3>1. \A v : Graph!EdgesFrom(Graph!Produced \ Passed, v)' = Graph!EdgesFrom(Left \ {n}, v)
      BY <1>2, <1>14 DEF Graph!EdgesFrom, Graph!Edges
    <3> QED
      BY <1>2, <1>12, <3>1
  <2>2. \A x \in Passed' : (~Graph!NeedsItself(PathOf(x)))'
    <3>1. \A x : Graph!NeedsItself(PathOf(x))' <=> Graph!NeedsItself(PathOf(x))
      BY <1>2
         DEF Graph!NeedsItself, PathOf, Graph!Files, Graph!Outputs, Graph!Mentioned, Graph!LeadsTo
    <3> QED
      BY <1>6, <1>13, <1>17, <3>1
  <2> QED
    BY <1>15, <1>16, <2>1, <2>2 DEF KahnInv
<1>19. DegreeInv'
  BY <1>1, <1>2, <1>3, <1>5 DEF DegreeInv
<1>20. SortInv' /\ Graph!RefusedIffCyclic' /\ Graph!CommandsInOrder'
  BY <1>3 DEF SortInv, Graph!RefusedIffCyclic, Graph!CommandsInOrder
<1> QED
  BY <1>4, <1>18, <1>19, <1>20 DEF GraphInv

(* A search begins with nothing on its stack.                              *)
LEMMA SortBegins ==
    ASSUME LoadInv, UNCHANGED nodes,
           status' = [n \in DOMAIN nodes |-> "unstarted"],
           stack' = <<>>, order' = <<>>
    PROVE  SortInv'
<1>1. DOMAIN stack' = {} /\ DOMAIN order' = {}
  OBVIOUS
<1>2. stack' \in Seq(StackType') /\ order' \in Seq(DOMAIN nodes')
  BY EmptySeq
<1>3. status' \in [DOMAIN nodes' -> {"unstarted", "working", "finished"}]
  OBVIOUS
<1>4. \A n \in DOMAIN nodes' : status'[n] = "unstarted"
  OBVIOUS
<1> QED
  BY <1>1, <1>2, <1>3, <1>4 DEF SortInv

(* When nothing is ready the count is judged: if nodes are left, each has  *)
(* an input that is left, and there is a cycle; if none is left, there is  *)
(* none.                                                                   *)
LEMMA JudgeKeeps ==
    ASSUME GraphInv, Graph!JudgeCount
    PROVE  GraphInv'
<1>1. /\ LoadInv /\ DegreeInv /\ KahnInv /\ phase = "kahn" /\ IsLoaded /\ ready = {}
      /\ UNCHANGED <<manifest, tool, Graph!load, Graph!kahn>>
      /\ tool = "execute" /\ stack = <<>> /\ order = <<>>
  BY DEF GraphInv, Graph!JudgeCount, IsLoaded, LoadInv, LoadType, DegreeInv
<1>2. UNCHANGED <<manifest, tool, nodes, steps, linked, degree, remaining, ready, visited>>
  BY <1>1 DEF Graph!load, Graph!kahn
<1>3. phase' \in {"run", "sort"}
  BY DEF Graph!JudgeCount
<1>4. LoadInv'
  <2>1. phase' \in Phases /\ Graph!Linked /\ steps = Len(manifest)
    BY <1>1, <1>3 DEF Phases, IsLoaded
  <2> QED
    BY <1>1, <1>2, <2>1, LoadStable
<1>5. DegreeInv'
  <2>1. Graph!InDegrees' = Graph!InDegrees
    BY <1>2, GraphStable
  <2> QED
    BY <1>1, <1>2, <1>3, <2>1 DEF DegreeInv
<1>6. KahnInv' /\ Graph!CommandsInOrder'
  BY <1>1, <1>2, <1>3 DEF KahnInv, Graph!CommandsInOrder
<1>7. CASE visited + Cardinality(DOMAIN nodes \ Graph!Produced) = Len(nodes)
  <2>1. phase' = "run"
    BY <1>7, SameCounts DEF Graph!JudgeCount
  <2>2. Len(nodes) \in Nat /\ DOMAIN nodes = 1 .. Len(nodes)
    BY <1>1, LenProperties DEF LoadInv, LoadType
  <2>3. /\ IsFiniteSet(DOMAIN nodes) /\ Cardinality(DOMAIN nodes) = Len(nodes)
    <3>1. \A k \in Nat : IsFiniteSet(1 .. k) /\ Cardinality(1 .. k) = k
      <4> SUFFICES ASSUME NEW k \in Nat PROVE IsFiniteSet(1 .. k) /\ Cardinality(1 .. k) = k
        OBVIOUS
      <4> QED
        BY FS_Interval
    <3> QED
      BY <2>2, <3>1
  <2>4. Graph!Produced \subseteq DOMAIN nodes /\ Passed \subseteq Graph!Produced
    BY DEF Graph!Produced, Passed
  <2>5. IsFiniteSet(Graph!Produced) /\ Cardinality(Graph!Produced) \in Nat /\ Cardinality(Passed) \in Nat
    BY <2>3, <2>4, FS_Subset, FS_CardinalityType
  <2>6. Cardinality(DOMAIN nodes \ Graph!Produced) = Len(nodes) - Cardinality(Graph!Produced)
    <3>1. DOMAIN nodes \cap Graph!Produced = Graph!Produced
      BY <2>4
    <3>2. Cardinality(DOMAIN nodes \ Graph!Produced) = Cardinality(DOMAIN nodes)
              - Cardinality(DOMAIN nodes \cap Graph!Produced)
      BY <2>3, FS_Difference
    <3> QED
      BY <2>3, <3>1, <3>2
  <2>7. Cardinality(Graph!Produced) = Cardinality(Passed)
    <3>1. visited = Cardinality(Passed)
      BY <1>1 DEF KahnInv
    <3> QED
      BY <1>7, <2>2, <2>5, <2>6, <3>1
  <2>8. Passed = Graph!Produced
    BY <2>4, <2>5, <2>7, FS_Subset
  <2>9. ASSUME NEW n \in DOMAIN nodes PROVE ~Graph!NeedsItself(PathOf(n))
    <3>1. CASE n \in Graph!Produced
      BY <1>1, <2>8, <3>1 DEF KahnInv
    <3>2. CASE n \notin Graph!Produced
      <4>1. \A u \in DOMAIN nodes : Graph!Edges(u, n) = {}
        BY <1>1, <3>2, EdgesWithin
      <4> QED
        BY <1>1, <4>1, FreeOfCycles
    <3> QED
      BY <3>1, <3>2
  <2>10. Graph!Files = {PathOf(n) : n \in DOMAIN nodes} /\ ~Graph!Ambiguous
    BY <1>1, GraphIsManifest
  <2>11. ~Graph!Cyclic
    BY <2>9, <2>10 DEF Graph!Cyclic
  <2>12. Graph!RefusedIffCyclic'
    BY <1>2, <2>1, <2>10, <2>11, GraphStable DEF Graph!RefusedIffCyclic
  <2> QED
    BY <1>4, <1>5, <1>6, <2>1, <2>12 DEF GraphInv, SortInv
<1>8. CASE visited + Cardinality(DOMAIN nodes \ Graph!Produced) # Len(nodes)
  <2>1. /\ phase' = "sort" /\ status' = [n \in DOMAIN nodes |-> "unstarted"]
        /\ UNCHANGED <<stack, order, culprit>>
    BY <1>8, SameCounts DEF Graph!JudgeCount, Graph!BeginSort
  <2>2. SortInv'
    BY <1>1, <1>2, <2>1, SortBegins
  <2> QED
    BY <1>4, <1>5, <1>6, <2>1, <2>2 DEF GraphInv, Graph!RefusedIffCyclic
<1> QED
  BY <1>7, <1>8

(* The commands tool goes to the search by depth as soon as the graph is   *)
(* loaded.                                                                 *)
LEMMA AskKeeps ==
    ASSUME GraphInv, Graph!AskCommands
    PROVE  GraphInv'
<1>1. /\ LoadInv /\ DegreeInv /\ phase = "load" /\ IsLoaded
      /\ UNCHANGED <<manifest, tool, Graph!load, Graph!kahn>>
      /\ stack = <<>> /\ order = <<>> /\ degree = <<>>
  BY DEF GraphInv, Graph!AskCommands, Graph!Loaded, IsLoaded, DegreeInv
<1>2. UNCHANGED <<manifest, tool, nodes, steps, linked, degree, remaining, ready, visited>>
  BY <1>1 DEF Graph!load, Graph!kahn
<1>3. /\ phase' = "sort" /\ status' = [n \in DOMAIN nodes |-> "unstarted"]
      /\ UNCHANGED <<stack, order, culprit>>
  BY DEF Graph!AskCommands, Graph!BeginSort
<1>4. LoadInv'
  <2>1. phase' \in Phases /\ Graph!Linked /\ steps = Len(manifest)
    BY <1>1, <1>3 DEF Phases, IsLoaded
  <2> QED
    BY <1>1, <1>2, <2>1, LoadStable
<1>5. DegreeInv'
  BY <1>1, <1>2, <1>3 DEF DegreeInv
<1>6. SortInv'
  BY <1>1, <1>2, <1>3, SortBegins
<1> QED
  BY <1>3, <1>4, <1>5, <1>6 DEF GraphInv, KahnInv, Graph!RefusedIffCyclic, Graph!CommandsInOrder

(* A second step for one output.                                           *)
LEMMA DuplicateIsAmbiguous ==
    ASSUME LoadInv, Graph!AddStep, phase' = "duplicate"
    PROVE  Graph!Ambiguous
<1> DEFINE path == manifest[steps + 1].output
           with == Graph!getOrCreateNode(nodes, path)
           out == Graph!NodeOf(with, path)
<1>1. /\ manifest \in Seq(StepType) /\ nodes \in Seq(NodeType) /\ Distinct(nodes)
      /\ Len(manifest) \in Nat /\ steps \in 0 .. Len(manifest) /\ steps < Len(manifest) /\ phase = "load"
  BY LenProperties DEF LoadInv, LoadType, NodesInv, Graph!AddStep
<1>2. steps + 1 \in 1 .. Len(manifest) /\ path \in Paths
  BY <1>1, StepFacts
<1>3. /\ out \in DOMAIN with /\ with[out].path = path
      /\ \A m \in DOMAIN nodes : with[m] = nodes[m]
      /\ \A m \in DOMAIN with \ DOMAIN nodes :
           m = out /\ with[m] = [path |-> path, out |-> <<>>, step |-> 0]
  BY <1>1, <1>2, NodeAdded, SMTT(30)
<1>4. with[out].step # 0
  BY <1>1 DEF Graph!AddStep
<1> HIDE DEF with, out, path
<1>5. out \in DOMAIN nodes /\ nodes[out].path = path /\ nodes[out].step # 0
  BY <1>3, <1>4
<1>6. nodes[out].step \in 1 .. steps /\ manifest[nodes[out].step].output = path
  BY <1>1, <1>5 DEF LoadInv, NodesInv
<1>7. DOMAIN manifest = 1 .. Len(manifest)
  BY <1>1, LenProperties
<1>8. nodes[out].step \in DOMAIN manifest /\ steps + 1 \in DOMAIN manifest /\ nodes[out].step # steps + 1
  BY <1>1, <1>2, <1>6, <1>7
<1> QED
  BY <1>6, <1>8 DEF Graph!Ambiguous, path

(* A sequence with its last element replaced, or without it.               *)
LEMMA LastReplaced ==
    ASSUME NEW S, NEW s \in Seq(S), s # <<>>, NEW x \in S
    PROVE  /\ Len(s) \in Nat \ {0} /\ DOMAIN s = 1 .. Len(s) /\ Graph!Last(s) = s[Len(s)]
           /\ Graph!Last(s) \in S
           /\ Graph!Front(s) \in Seq(S) /\ DOMAIN Graph!Front(s) = 1 .. Len(s) - 1
           /\ \A i \in 1 .. Len(s) - 1 : Graph!Front(s)[i] = s[i]
           /\ Append(Graph!Front(s), x) \in Seq(S) /\ DOMAIN Append(Graph!Front(s), x) = 1 .. Len(s)
           /\ Len(Append(Graph!Front(s), x)) = Len(s)
           /\ \A i \in 1 .. Len(s) - 1 : Append(Graph!Front(s), x)[i] = s[i]
           /\ Append(Graph!Front(s), x)[Len(s)] = x
<1>1. Len(s) \in Nat \ {0} /\ DOMAIN s = 1 .. Len(s) /\ \A i \in 1 .. Len(s) : s[i] \in S
  BY EmptySeq, LenProperties, ElementOfSeq
<1>2. Graph!Last(s) = s[Len(s)] /\ Graph!Last(s) \in S
  BY <1>1 DEF Graph!Last
<1>3. Graph!Front(s) = SubSeq(s, 1, Len(s) - 1)
  BY DEF Graph!Front
<1>4. /\ Graph!Front(s) \in Seq(S) /\ Len(Graph!Front(s)) = Len(s) - 1
      /\ \A i \in 1 .. Len(s) - 1 : Graph!Front(s)[i] = s[i]
  <2>1. \A i \in 1 .. Len(s) - 1 : s[i] \in S
    BY <1>1
  <2>2. /\ SubSeq(s, 1, Len(s) - 1) \in Seq(S)
        /\ Len(SubSeq(s, 1, Len(s) - 1)) = IF 1 <= Len(s) - 1 THEN Len(s) - 1 - 1 + 1 ELSE 0
        /\ \A i \in 1 .. Len(s) - 1 - 1 + 1 : SubSeq(s, 1, Len(s) - 1)[i] = s[1 + i - 1]
    BY <1>1, <2>1, SubSeqProperties
  <2>3. Len(SubSeq(s, 1, Len(s) - 1)) = Len(s) - 1
    BY <1>1, <2>2
  <2>4. \A i \in 1 .. Len(s) - 1 : SubSeq(s, 1, Len(s) - 1)[i] = s[i]
    BY <1>1, <2>2
  <2> QED
    BY <1>3, <2>2, <2>3, <2>4
<1>5. DOMAIN Graph!Front(s) = 1 .. Len(s) - 1
  BY <1>4, LenProperties
<1>6. /\ Append(Graph!Front(s), x) \in Seq(S) /\ Len(Append(Graph!Front(s), x)) = Len(s)
      /\ \A i \in 1 .. Len(s) - 1 : Append(Graph!Front(s), x)[i] = s[i]
      /\ Append(Graph!Front(s), x)[Len(s)] = x
  <2>1. /\ Append(Graph!Front(s), x) \in Seq(S)
        /\ Len(Append(Graph!Front(s), x)) = Len(Graph!Front(s)) + 1
        /\ \A i \in 1 .. Len(Graph!Front(s)) : Append(Graph!Front(s), x)[i] = Graph!Front(s)[i]
        /\ Append(Graph!Front(s), x)[Len(Graph!Front(s)) + 1] = x
    BY <1>4, AppendProperties
  <2> QED
    BY <1>1, <1>4, <2>1
<1>7. DOMAIN Append(Graph!Front(s), x) = 1 .. Len(s)
  BY <1>6, LenProperties
<1> QED
  BY ONLY <1>1, <1>2, <1>4, <1>5, <1>6, <1>7, Zenon

(* Numbers of the sorting that are cited below.                            *)
LEMMA SortFacts ==
    ASSUME LoadInv, SortInv, phase = "sort"
    PROVE  /\ Len(stack) \in Nat /\ DOMAIN stack = 1 .. Len(stack)
           /\ Len(order) \in Nat /\ DOMAIN order = 1 .. Len(order)
           /\ \A i \in DOMAIN stack : stack[i] \in StackType
           /\ \A i \in DOMAIN order : order[i] \in DOMAIN nodes
           /\ DOMAIN nodes \subseteq Nat \ {0}
           /\ \A u \in DOMAIN nodes : /\ Len(nodes[u].out) \in Nat
                                      /\ DOMAIN nodes[u].out = 1 .. Len(nodes[u].out)
                                      /\ \A e \in DOMAIN nodes[u].out : nodes[u].out[e] \in DOMAIN nodes
<1>1. stack \in Seq(StackType) /\ order \in Seq(DOMAIN nodes) /\ nodes \in Seq(NodeType)
  BY DEF LoadInv, LoadType, SortInv
<1>2. \A u \in DOMAIN nodes : nodes[u].out \in Seq(Nat)
  <2>1. \A u \in DOMAIN nodes : nodes[u] \in NodeType
    BY <1>1, LenProperties, ElementOfSeq
  <2> QED
    BY <2>1 DEF NodeType
<1>3. \A u \in DOMAIN nodes : /\ Len(nodes[u].out) \in Nat
                              /\ DOMAIN nodes[u].out = 1 .. Len(nodes[u].out)
  BY <1>2, LenProperties
<1>4. \A u \in DOMAIN nodes : \A e \in DOMAIN nodes[u].out : nodes[u].out[e] \in DOMAIN nodes
  BY DEF LoadInv, EdgesInv, Graph!Produced
<1> HIDE DEF SortInv
<1>5. DOMAIN nodes \subseteq Nat \ {0}
  BY <1>1, LenProperties
<1> QED
  BY <1>1, <1>3, <1>4, <1>5, LenProperties, ElementOfSeq

(* A node is entered: it was not, and whatever was left through goes on.   *)
LEMMA PushKeeps ==
    ASSUME LoadInv, SortInv, phase = "sort", UNCHANGED <<nodes, order>>,
           NEW onto \in Seq(StackType), NEW v \in DOMAIN nodes, status[v] = "unstarted",
           Graph!Push(onto, v), Len(onto) = Len(stack),
           \A i \in 1 .. Len(stack) : onto[i].node = stack[i].node,
           \A i \in 1 .. Len(stack) - 1 : onto[i].edge = stack[i].edge,
           stack # <<>> =>
             /\ onto[Len(stack)].edge = stack[Len(stack)].edge + 1
             /\ stack[Len(stack)].edge \in DOMAIN nodes[stack[Len(stack)].node].out
             /\ nodes[stack[Len(stack)].node].out[stack[Len(stack)].edge] = v
    PROVE  SortInv'
<1> DEFINE L == Len(stack)
           new == [node |-> v, edge |-> 1]
<1>1. /\ L \in Nat /\ DOMAIN stack = 1 .. L
      /\ Len(order) \in Nat /\ DOMAIN order = 1 .. Len(order)
      /\ \A i \in DOMAIN stack : stack[i] \in StackType
      /\ \A i \in DOMAIN order : order[i] \in DOMAIN nodes
      /\ DOMAIN nodes \subseteq Nat \ {0}
      /\ \A u \in DOMAIN nodes : /\ Len(nodes[u].out) \in Nat
                                 /\ DOMAIN nodes[u].out = 1 .. Len(nodes[u].out)
                                 /\ \A e \in DOMAIN nodes[u].out : nodes[u].out[e] \in DOMAIN nodes
  BY SortFacts
<1>2. /\ status \in [DOMAIN nodes -> {"unstarted", "working", "finished"}]
      /\ \A i, j \in DOMAIN stack : stack[i].node = stack[j].node => i = j
      /\ \A n \in DOMAIN nodes : status[n] = "working" <=> \E i \in DOMAIN stack : stack[i].node = n
      /\ \A n \in DOMAIN nodes : status[n] = "finished" <=> \E i \in DOMAIN order : order[i] = n
      /\ \A i \in DOMAIN stack : i + 1 \in DOMAIN stack =>
            \E e \in DOMAIN nodes[stack[i].node].out : nodes[stack[i].node].out[e] = stack[i + 1].node
      /\ \A i \in DOMAIN stack : \A e \in DOMAIN nodes[stack[i].node].out :
            e < stack[i].edge =>
              \/ status[nodes[stack[i].node].out[e]] = "finished"
              \/ i + 1 \in DOMAIN stack /\ stack[i + 1].node = nodes[stack[i].node].out[e]
  BY DEF SortInv
<1>3. stack' = Append(onto, new) /\ status' = [status EXCEPT ![v] = "working"]
  BY DEF Graph!Push
<1>4. new \in StackType
  BY DEF StackType
<1>5. /\ stack' \in Seq(StackType) /\ Len(stack') = L + 1
      /\ \A i \in 1 .. L : stack'[i] = onto[i]
      /\ stack'[L + 1] = new
  BY <1>3, <1>4, AppendProperties
<1>6. DOMAIN stack' = 1 .. L + 1
  BY <1>5, LenProperties
<1>7. \A i \in 1 .. L : stack'[i].node = stack[i].node
  BY <1>5
<1>8. stack'[L + 1].node = v /\ stack'[L + 1].edge = 1
  BY <1>5
<1>9. \A i \in 1 .. L : stack[i].node \in DOMAIN nodes /\ stack[i].edge \in Nat /\ stack[i].node # v
  <2>1. \A i \in 1 .. L : stack[i].node \in DOMAIN nodes /\ stack[i].edge \in Nat
    BY <1>1 DEF StackType
  <2> QED
    BY <1>1, <1>2, <2>1
<1>10. status' \in [DOMAIN nodes -> {"unstarted", "working", "finished"}]
       /\ status'[v] = "working" /\ \A n \in DOMAIN nodes : n # v => status'[n] = status[n]
  BY <1>2, <1>3
<1> HIDE DEF L, new
<1>11. \A i, j \in DOMAIN stack' : stack'[i].node = stack'[j].node => i = j
  <2> SUFFICES ASSUME NEW i \in 1 .. L + 1, NEW j \in 1 .. L + 1, stack'[i].node = stack'[j].node
               PROVE  i = j
    BY <1>6
  <2>1. (i \in 1 .. L \/ i = L + 1) /\ (j \in 1 .. L \/ j = L + 1)
    BY <1>1
  <2>2. CASE i \in 1 .. L /\ j \in 1 .. L
    <3>1. stack[i].node = stack[j].node
      BY <1>7, <2>2
    <3> QED
      BY <1>1, <1>2, <2>2, <3>1
  <2>3. CASE i \in 1 .. L /\ j = L + 1
    BY <1>7, <1>8, <1>9, <2>3
  <2>4. CASE i = L + 1 /\ j \in 1 .. L
    BY <1>7, <1>8, <1>9, <2>4
  <2> QED
    BY <2>1, <2>2, <2>3, <2>4
<1>12. ASSUME NEW n \in DOMAIN nodes
       PROVE  status'[n] = "working" <=> \E i \in DOMAIN stack' : stack'[i].node = n
  <2>1. CASE n = v
    <3>1. L + 1 \in DOMAIN stack'
      BY <1>1, <1>6
    <3> QED
      BY <1>8, <1>10, <2>1, <3>1
  <2>2. CASE n # v
    <3>1. (\E i \in DOMAIN stack' : stack'[i].node = n) <=> \E i \in DOMAIN stack : stack[i].node = n
      <4>1. \A i \in 1 .. L + 1 : i \in 1 .. L \/ i = L + 1
        BY <1>1
      <4>2. \A i \in 1 .. L : i \in 1 .. L + 1
        BY <1>1
      <4> QED
        BY <1>1, <1>6, <1>7, <1>8, <2>2, <4>1, <4>2
    <3> QED
      BY <1>2, <1>10, <2>2, <3>1
  <2> QED
    BY <2>1, <2>2
<1>13. \A n \in DOMAIN nodes : status'[n] = "finished" <=> status[n] = "finished"
  BY <1>10
<1>14. ASSUME NEW i \in DOMAIN stack', i + 1 \in DOMAIN stack'
       PROVE  \E e \in DOMAIN nodes[stack'[i].node].out :
           nodes[stack'[i].node].out[e] = stack'[i + 1].node
  <2>1. i \in 1 .. L /\ (i + 1 \in 1 .. L \/ i = L)
    BY <1>1, <1>6, <1>14
  <2>2. CASE i + 1 \in 1 .. L
    <3>1. \E e \in DOMAIN nodes[stack[i].node].out : nodes[stack[i].node].out[e] = stack[i + 1].node
      BY <1>1, <1>2, <2>1, <2>2
    <3> QED
      BY <1>7, <2>1, <2>2, <3>1
  <2>3. CASE i = L
    <3>1. stack # <<>>
      BY <1>1, <2>1
    <3>2. /\ stack[L].edge \in DOMAIN nodes[stack[L].node].out
          /\ nodes[stack[L].node].out[stack[L].edge] = v
      BY <3>1 DEF L
    <3>3. stack'[i].node = stack[L].node
      BY <1>7, <2>1, <2>3
    <3> QED
      BY <1>8, <2>3, <3>2, <3>3
  <2> QED
    BY <2>1, <2>2, <2>3
<1>15. ASSUME NEW i \in DOMAIN stack', NEW e \in DOMAIN nodes[stack'[i].node].out, e < stack'[i].edge
       PROVE  \/ status'[nodes[stack'[i].node].out[e]] = "finished"
              \/ i + 1 \in DOMAIN stack' /\ stack'[i + 1].node = nodes[stack'[i].node].out[e]
  <2>1. i \in 1 .. L - 1 \/ (i = L /\ i \in 1 .. L) \/ i = L + 1
    BY <1>1, <1>6, SMTT(30)
  <2>2. CASE i \in 1 .. L - 1
    <3>1. /\ i \in 1 .. L /\ i + 1 \in 1 .. L /\ i + 1 \in 1 .. L + 1
      BY <1>1, <2>2, SMTT(30)
    <3>2. /\ stack'[i].node = stack[i].node /\ stack'[i].edge = stack[i].edge
          /\ stack'[i + 1].node = stack[i + 1].node
      BY <1>5, <1>7, <2>2, <3>1 DEF L
    <3>3. nodes[stack[i].node].out[e] \in DOMAIN nodes
      BY <1>1, <1>9, <3>1, <3>2
    <3>4. \/ status[nodes[stack[i].node].out[e]] = "finished"
          \/ i + 1 \in DOMAIN stack /\ stack[i + 1].node = nodes[stack[i].node].out[e]
      BY <1>1, <1>2, <1>15, <3>1, <3>2
    <3> QED
      BY <1>6, <1>13, <3>1, <3>2, <3>3, <3>4
  <2>3. CASE i = L /\ i \in 1 .. L
    <3>1. stack # <<>> /\ L + 1 \in DOMAIN stack' /\ L + 1 \notin DOMAIN stack
      BY <1>1, <1>6, <2>3
    <3>2. stack'[L].edge = stack[L].edge + 1 /\ nodes[stack[L].node].out[stack[L].edge] = v
      BY <1>5, <2>3, <3>1 DEF L
    <3>3. stack'[L].node = stack[L].node /\ stack[L].edge \in Nat /\ stack[L].node \in DOMAIN nodes
      BY <1>7, <1>9, <2>3
    <3>4. e \in Nat /\ nodes[stack[L].node].out[e] \in DOMAIN nodes
      BY <1>1, <2>3, <3>3, SMTT(30)
    <3>5. CASE e = stack[L].edge
      BY <1>8, <2>3, <3>1, <3>2, <3>3, <3>5
    <3>6. CASE e < stack[L].edge
      BY <1>1, <1>2, <1>13, <2>3, <3>1, <3>3, <3>4, <3>6, ZenonT(30)
    <3> QED
      BY <1>15, <2>3, <3>2, <3>3, <3>4, <3>5, <3>6
  <2>4. CASE i = L + 1
    <3>1. stack'[i].node = v /\ stack'[i].edge = 1
      BY <1>8, <2>4
    <3>2. e \in 1 .. Len(nodes[v].out)
      BY <1>1, <3>1
    <3> QED
      BY <1>15, <3>1, <3>2
  <2> QED
    BY <2>1, <2>2, <2>3, <2>4
<1>16. (phase = "sort")' => StackType' = StackType
  BY DEF StackType
<1>17. /\ (order \in Seq(DOMAIN nodes))'
       /\ \A i, j \in DOMAIN order' : order'[i] = order'[j] => i = j
       /\ \A i \in DOMAIN order' : \A e \in DOMAIN nodes'[order'[i]].out :
              \E j \in 1 .. i - 1 : order'[j] = nodes'[order'[i]].out[e]
  BY DEF SortInv
<1>18. \A n \in DOMAIN nodes : status'[n] = "finished" <=> \E i \in DOMAIN order' : order'[i] = n
  BY <1>2, <1>13
<1> QED
  BY <1>5, <1>10, <1>11, <1>12, <1>14, <1>15, <1>16, <1>17, <1>18 DEF SortInv

(* The search goes on from a node that it has not seen.                    *)
LEMMA RootKeeps ==
    ASSUME GraphInv, NEW n \in DOMAIN nodes, Graph!NextRoot(n)
    PROVE  GraphInv'
<1>1. /\ LoadInv /\ DegreeInv /\ SortInv /\ phase = "sort" /\ stack = <<>> /\ status[n] = "unstarted"
      /\ Graph!Push(<<>>, n)
      /\ UNCHANGED <<manifest, tool, phase, Graph!load, Graph!kahn, order, culprit>>
  BY DEF GraphInv, Graph!NextRoot
<1>2. UNCHANGED <<manifest, tool, phase, nodes, steps, linked, degree, remaining, ready, visited,
                  order, culprit>>
  BY <1>1 DEF Graph!load, Graph!kahn
<1>3. LoadInv'
  BY <1>1, <1>2, LoadStable DEF LoadInv, LoadType
<1>4. <<>> \in Seq(StackType) /\ Len(<<>>) = 0
  BY EmptySeq
<1>5. SortInv'
  BY <1>1, <1>2, <1>4, PushKeeps
<1>6. DegreeInv'
  <2>1. Graph!InDegrees' = Graph!InDegrees
    BY <1>2, GraphStable
  <2> QED
    BY <1>1, <1>2, <2>1 DEF DegreeInv
<1> QED
  BY <1>1, <1>2, <1>3, <1>5, <1>6
     DEF GraphInv, KahnInv, Graph!RefusedIffCyclic, Graph!CommandsInOrder

(* Along the stack every node leads to the next, so what needs its top     *)
(* needs all of it.                                                        *)
LEMMA StackLeads ==
    ASSUME LoadInv, IsLoaded, SortInv, phase = "sort",
           NEW m \in DOMAIN stack, stack # <<>>,
           Graph!Edges(stack[Len(stack)].node, stack[m].node) # {}
    PROVE  Graph!NeedsItself(PathOf(stack[m].node))
<1> DEFINE L == Len(stack)
           P(i) == PathOf(stack[i].node)
<1>1. /\ L \in Nat /\ DOMAIN stack = 1 .. L
      /\ \A i \in DOMAIN stack : stack[i] \in StackType
  BY SortFacts
<1>2. \A i \in 1 .. L : stack[i].node \in DOMAIN nodes
  BY <1>1 DEF StackType
<1>3. /\ Graph!Files = {PathOf(n) : n \in DOMAIN nodes}
      /\ \A u, v \in DOMAIN nodes : Graph!LeadsTo(PathOf(u), PathOf(v)) <=> Graph!Edges(u, v) # {}
  BY GraphIsManifest
<1>4. \A i \in 1 .. L : P(i) \in Graph!Files
  BY <1>2, <1>3
<1>5. Graph!LeadsTo(P(L), P(m))
  BY <1>1, <1>2, <1>3
<1>6. ASSUME NEW i \in 1 .. L, i + 1 \in 1 .. L PROVE Graph!LeadsTo(P(i), P(i + 1))
  <2>1. \E e \in DOMAIN nodes[stack[i].node].out : nodes[stack[i].node].out[e] = stack[i + 1].node
    BY <1>1, <1>6 DEF SortInv
  <2>2. Graph!Edges(stack[i].node, stack[i + 1].node) # {}
    BY <2>1 DEF Graph!Edges
  <2> QED
    BY <1>2, <1>3, <1>6, <2>2
<1>7. ASSUME NEW F \in SUBSET Graph!Files,
             \A p, q \in Graph!Files : Graph!LeadsTo(p, q) /\ q \in F \cup {P(m)} => p \in F
      PROVE  P(m) \in F
  <2> HIDE DEF P
  <2> DEFINE S == {d \in Nat : d <= L - m /\ P(L - d) \notin F}
  <2>1. m \in 1 .. L
    BY <1>1
  <2>2. S = {}
    <3> SUFFICES ASSUME S # {} PROVE FALSE
      OBVIOUS
    <3>1. S \subseteq Nat
      OBVIOUS
    <3> HIDE DEF S
    <3>2. PICK d \in S : \A e \in S : d <= e
      BY <3>1, LeastNumber
    <3>3. d \in Nat /\ d <= L - m /\ P(L - d) \notin F
      BY DEF S
    <3>4. CASE d = 0
      <4>1. P(L) \in F
        BY <1>1, <1>4, <1>5, <1>7, <2>1
      <4> QED
        BY <1>1, <3>3, <3>4, <4>1
    <3>5. CASE d > 0
      <4>1. d - 1 \in Nat /\ ~(d <= d - 1)
        BY <3>3, <3>5
      <4>2. d - 1 \notin S
        BY <3>2, <4>1
      <4>3. P(L - (d - 1)) \in F
        BY <1>1, <2>1, <3>3, <4>1, <4>2 DEF S
      <4>4. L - d \in 1 .. L /\ (L - d) + 1 \in 1 .. L /\ L - (d - 1) = (L - d) + 1
        BY <1>1, <2>1, <3>3, <3>5
      <4>5. Graph!LeadsTo(P(L - d), P((L - d) + 1))
        BY <1>6, <4>4
      <4> QED
        BY <1>4, <1>7, <3>3, <4>3, <4>4, <4>5
    <3> QED
      BY <3>3, <3>4, <3>5
  <2>3. L - m \in Nat /\ L - (L - m) = m
    BY <1>1, <2>1
  <2>4. L - m \notin S
    BY <2>2
  <2> QED
    BY <2>3, <2>4
<1> QED
  BY <1>7 DEF Graph!NeedsItself

(* An edge to a node that is finished is passed.                           *)
LEMMA NextKeeps ==
    ASSUME LoadInv, SortInv, phase = "sort", UNCHANGED <<nodes, order, status>>, stack # <<>>,
           NEW v \in DOMAIN nodes, status[v] = "finished",
           stack' \in Seq(StackType), Len(stack') = Len(stack),
           \A i \in 1 .. Len(stack) : stack'[i].node = stack[i].node,
           \A i \in 1 .. Len(stack) - 1 : stack'[i].edge = stack[i].edge,
           stack'[Len(stack)].edge = stack[Len(stack)].edge + 1,
           nodes[stack[Len(stack)].node].out[stack[Len(stack)].edge] = v
    PROVE  SortInv'
<1> DEFINE L == Len(stack)
<1>1. /\ L \in Nat /\ DOMAIN stack = 1 .. L
      /\ \A i \in DOMAIN stack : stack[i] \in StackType
      /\ \A u \in DOMAIN nodes : DOMAIN nodes[u].out = 1 .. Len(nodes[u].out)
  BY SortFacts
<1>2. DOMAIN stack' = 1 .. L
  BY LenProperties
<1>3. \A i \in 1 .. L : stack[i].node \in DOMAIN nodes /\ stack[i].edge \in Nat
  BY <1>1 DEF StackType
<1>4. /\ \A i, j \in DOMAIN stack : stack[i].node = stack[j].node => i = j
      /\ \A n \in DOMAIN nodes : status[n] = "working" <=> \E i \in DOMAIN stack : stack[i].node = n
      /\ \A i \in DOMAIN stack : i + 1 \in DOMAIN stack =>
            \E e \in DOMAIN nodes[stack[i].node].out : nodes[stack[i].node].out[e] = stack[i + 1].node
      /\ \A i \in DOMAIN stack : \A e \in DOMAIN nodes[stack[i].node].out :
            e < stack[i].edge =>
              \/ status[nodes[stack[i].node].out[e]] = "finished"
              \/ i + 1 \in DOMAIN stack /\ stack[i + 1].node = nodes[stack[i].node].out[e]
  BY DEF SortInv
<1>5. /\ \A i, j \in DOMAIN stack' : stack'[i].node = stack'[j].node => i = j
      /\ \A n \in DOMAIN nodes : status[n] = "working" <=> \E i \in DOMAIN stack' : stack'[i].node = n
  BY <1>1, <1>2, <1>4, SMTT(30)
<1>6. ASSUME NEW i \in 1 .. L, i + 1 \in 1 .. L
      PROVE  \E e \in DOMAIN nodes[stack'[i].node].out :
          nodes[stack'[i].node].out[e] = stack'[i + 1].node
  <2>1. \E e \in DOMAIN nodes[stack[i].node].out : nodes[stack[i].node].out[e] = stack[i + 1].node
    BY <1>1, <1>4, <1>6
  <2> QED
    BY <1>6, <2>1
<1>7. ASSUME NEW i \in 1 .. L, NEW e \in DOMAIN nodes[stack'[i].node].out, e < stack'[i].edge
      PROVE  \/ status[nodes[stack'[i].node].out[e]] = "finished"
             \/ i + 1 \in 1 .. L /\ stack'[i + 1].node = nodes[stack'[i].node].out[e]
  <2>1. stack'[i].node = stack[i].node /\ e \in Nat /\ stack[i].edge \in Nat
    BY <1>1, <1>3
  <2>2. CASE e < stack[i].edge
    <3>1. \/ status[nodes[stack[i].node].out[e]] = "finished"
          \/ i + 1 \in DOMAIN stack /\ stack[i + 1].node = nodes[stack[i].node].out[e]
      <4>1. e \in DOMAIN nodes[stack[i].node].out /\ i \in DOMAIN stack
        BY <1>1, <1>7, <2>1
      <4> QED
        BY <1>4, <2>2, <4>1
    <3> QED
      BY <1>1, <2>1, <3>1
  <2>3. CASE ~(e < stack[i].edge)
    <3>1. i = L /\ e = stack[i].edge
      <4>1. i \in 1 .. L - 1 \/ i = L
        BY <1>1
      <4> QED
        BY <1>7, <2>1, <2>3, <4>1
    <3> QED
      BY <2>1, <3>1
  <2> QED
    BY <2>2, <2>3
<1> HIDE DEF L
<1>8. StackType' = StackType
  BY DEF StackType
<1>9. /\ (status \in [DOMAIN nodes -> {"unstarted", "working", "finished"}])'
      /\ (order \in Seq(DOMAIN nodes))'
      /\ \A i, j \in DOMAIN order' : order'[i] = order'[j] => i = j
      /\ \A n \in DOMAIN nodes' : status'[n] = "finished" <=> \E i \in DOMAIN order' : order'[i] = n
      /\ \A i \in DOMAIN order' : \A e \in DOMAIN nodes'[order'[i]].out :
              \E j \in 1 .. i - 1 : order'[j] = nodes'[order'[i]].out[e]
  BY DEF SortInv
<1>10. /\ \A i \in DOMAIN stack' : i + 1 \in DOMAIN stack' =>
            \E e \in DOMAIN nodes'[stack'[i].node].out :
                nodes'[stack'[i].node].out[e] = stack'[i + 1].node
       /\ \A i \in DOMAIN stack' : \A e \in DOMAIN nodes'[stack'[i].node].out :
            e < stack'[i].edge =>
              \/ status'[nodes'[stack'[i].node].out[e]] = "finished"
              \/ i + 1 \in DOMAIN stack' /\ stack'[i + 1].node = nodes'[stack'[i].node].out[e]
  BY <1>2, <1>6, <1>7
<1>11. \A n \in DOMAIN nodes' : status'[n] = "working" <=> \E i \in DOMAIN stack' : stack'[i].node = n
  BY <1>5
<1>12. (stack \in Seq(StackType))'
  BY <1>8
<1> QED
  BY <1>5, <1>9, <1>10, <1>11, <1>12 DEF SortInv

(* The search takes the next edge of the node on top: to a node not seen,  *)
(* past a finished one, or to one on the stack, which closes a cycle.      *)
LEMMA FollowKeeps ==
    ASSUME GraphInv, Graph!Follow
    PROVE  GraphInv'
<1> DEFINE L == Len(stack)
           top == Graph!Last(stack)
           next == Append(Graph!Front(stack), [top EXCEPT !.edge = @ + 1])
           v == nodes[top.node].out[top.edge]
<1>1. /\ LoadInv /\ DegreeInv /\ SortInv /\ phase = "sort" /\ stack # <<>> /\ IsLoaded
      /\ UNCHANGED <<manifest, tool, Graph!load, Graph!kahn, order>>
  BY DEF GraphInv, Graph!Follow, LoadInv, LoadType, IsLoaded
<1>2. UNCHANGED <<manifest, tool, nodes, steps, linked, degree, remaining, ready, visited, order>>
  BY <1>1 DEF Graph!load, Graph!kahn
<1>3. /\ L \in Nat /\ DOMAIN stack = 1 .. L
      /\ Len(order) \in Nat /\ DOMAIN order = 1 .. Len(order)
      /\ \A i \in DOMAIN stack : stack[i] \in StackType
      /\ \A u \in DOMAIN nodes : /\ Len(nodes[u].out) \in Nat
                                 /\ DOMAIN nodes[u].out = 1 .. Len(nodes[u].out)
                                 /\ \A e \in DOMAIN nodes[u].out : nodes[u].out[e] \in DOMAIN nodes
  BY <1>1, SortFacts
<1>4. stack \in Seq(StackType)
  BY <1>1 DEF SortInv
<1>5. top \in StackType /\ top = stack[L] /\ L \in 1 .. L
  BY <1>1, <1>3, <1>4, LastReplaced
<1>6. [top EXCEPT !.edge = @ + 1] \in StackType /\ [top EXCEPT !.edge = @ + 1].node = top.node
      /\ [top EXCEPT !.edge = @ + 1].edge = top.edge + 1
  BY <1>5 DEF StackType
<1>7. /\ next \in Seq(StackType) /\ Len(next) = L /\ DOMAIN next = 1 .. L
      /\ \A i \in 1 .. L - 1 : next[i] = stack[i]
      /\ next[L] = [top EXCEPT !.edge = @ + 1]
  BY <1>1, <1>4, <1>6, LastReplaced
<1>8. /\ top.edge <= Len(nodes[top.node].out)
      /\ \/ status[v] = "unstarted" /\ Graph!Push(next, v) /\ UNCHANGED <<phase, culprit>>
         \/ status[v] = "finished" /\ stack' = next /\ UNCHANGED <<phase, culprit, status>>
         \/ /\ status[v] = "working" /\ phase' = "cycle" /\ culprit' = v /\ stack' = next
            /\ UNCHANGED status
  BY DEF Graph!Follow
<1> HIDE DEF top, next, v, L
<1>9. top.node \in DOMAIN nodes /\ top.edge \in Nat \ {0} /\ top.edge \in DOMAIN nodes[top.node].out
  BY <1>3, <1>5, <1>8 DEF StackType
<1>10. v \in DOMAIN nodes /\ v = nodes[top.node].out[top.edge]
  BY <1>3, <1>9 DEF v
<1>11. /\ \A i \in 1 .. L : next[i].node = stack[i].node
       /\ \A i \in 1 .. L - 1 : next[i].edge = stack[i].edge
       /\ next[L].edge = top.edge + 1
  <2>1. \A i \in 1 .. L : i \in 1 .. L - 1 \/ i = L
    BY <1>3
  <2> QED
    BY <1>5, <1>6, <1>7, <2>1
<1>12. phase' \in {"sort", "cycle"} /\ phase' \in Phases
  BY <1>1, <1>8 DEF Phases
<1>13. LoadInv'
  BY <1>1, <1>2, <1>12, LoadStable DEF IsLoaded
<1>14. DegreeInv'
  <2>1. Graph!InDegrees' = Graph!InDegrees
    BY <1>2, GraphStable
  <2> QED
    BY <1>1, <1>2, <1>12, <2>1 DEF DegreeInv
<1>15. KahnInv' /\ Graph!CommandsInOrder'
  BY <1>12 DEF KahnInv, Graph!CommandsInOrder
<1>16. CASE status[v] = "unstarted" /\ Graph!Push(next, v) /\ UNCHANGED <<phase, culprit>>
  <2>1. SortInv'
    BY <1>1, <1>2, <1>5, <1>7, <1>9, <1>10, <1>11, <1>16, PushKeeps DEF L
  <2> QED
    BY <1>1, <1>13, <1>14, <1>15, <1>16, <2>1, SMTT(30) DEF GraphInv, Graph!RefusedIffCyclic
<1>17. CASE status[v] = "finished" /\ stack' = next /\ UNCHANGED <<phase, culprit, status>>
  <2>1. SortInv'
    <3>1. /\ stack' \in Seq(StackType) /\ Len(stack') = L
          /\ \A i \in 1 .. L : stack'[i].node = stack[i].node
          /\ \A i \in 1 .. L - 1 : stack'[i].edge = stack[i].edge
          /\ stack'[L].edge = stack[L].edge + 1
          /\ nodes[stack[L].node].out[stack[L].edge] = v
      BY <1>5, <1>7, <1>10, <1>11, <1>17
    <3> QED
      BY <1>1, <1>2, <1>10, <1>17, <3>1, NextKeeps DEF L
  <2> QED
    BY <1>1, <1>13, <1>14, <1>15, <1>17, <2>1 DEF GraphInv, Graph!RefusedIffCyclic
<1>18. CASE /\ status[v] = "working" /\ phase' = "cycle" /\ culprit' = v /\ stack' = next
            /\ UNCHANGED status
  <2>1. PICK m \in DOMAIN stack : stack[m].node = v
    BY <1>1, <1>10, <1>18 DEF SortInv
  <2>2. Graph!Edges(stack[Len(stack)].node, stack[m].node) # {}
    BY <1>5, <1>9, <1>10, <2>1 DEF Graph!Edges, L
  <2>3. Graph!NeedsItself(PathOf(v))
    BY <1>1, <2>1, <2>2, StackLeads
  <2>4. (Graph!NeedsItself(nodes[culprit].path))'
    BY <1>2, <1>18, <2>3
       DEF Graph!NeedsItself, PathOf, Graph!Files, Graph!Outputs, Graph!Mentioned, Graph!LeadsTo
  <2> QED
    BY <1>13, <1>14, <1>15, <1>18, <2>4 DEF GraphInv, Graph!RefusedIffCyclic, SortInv
<1> QED
  BY <1>8, <1>16, <1>17, <1>18

(* A node all of whose edges are taken is finished, after all that its     *)
(* edges lead to.                                                          *)
LEMMA LeaveKeeps ==
    ASSUME GraphInv, Graph!Leave
    PROVE  GraphInv'
<1> DEFINE L == Len(stack)
           n == Graph!Last(stack).node
           K == Len(order)
<1>1. /\ LoadInv /\ DegreeInv /\ SortInv /\ phase = "sort" /\ stack # <<>>
      /\ UNCHANGED <<manifest, tool, phase, Graph!load, Graph!kahn, culprit>>
  BY DEF GraphInv, Graph!Leave
<1>2. UNCHANGED <<manifest, tool, phase, nodes, steps, linked, degree, remaining, ready, visited,
                  culprit>>
  BY <1>1 DEF Graph!load, Graph!kahn
<1>3. LoadInv'
  BY <1>1, <1>2, LoadStable DEF LoadInv, LoadType
<1>4. DegreeInv'
  <2>1. Graph!InDegrees' = Graph!InDegrees
    BY <1>2, GraphStable
  <2> QED
    BY <1>1, <1>2, <2>1 DEF DegreeInv
<1>5. /\ L \in Nat /\ DOMAIN stack = 1 .. L
      /\ K \in Nat /\ DOMAIN order = 1 .. K
      /\ \A i \in DOMAIN stack : stack[i] \in StackType
      /\ \A i \in DOMAIN order : order[i] \in DOMAIN nodes
      /\ \A u \in DOMAIN nodes : /\ Len(nodes[u].out) \in Nat
                                 /\ DOMAIN nodes[u].out = 1 .. Len(nodes[u].out)
                                 /\ \A e \in DOMAIN nodes[u].out : nodes[u].out[e] \in DOMAIN nodes
  BY <1>1, SortFacts
<1>6. /\ status \in [DOMAIN nodes -> {"unstarted", "working", "finished"}]
      /\ stack \in Seq(StackType) /\ order \in Seq(DOMAIN nodes)
      /\ \A i, j \in DOMAIN stack : stack[i].node = stack[j].node => i = j
      /\ \A i, j \in DOMAIN order : order[i] = order[j] => i = j
      /\ \A x \in DOMAIN nodes : status[x] = "working" <=> \E i \in DOMAIN stack : stack[i].node = x
      /\ \A x \in DOMAIN nodes : status[x] = "finished" <=> \E i \in DOMAIN order : order[i] = x
      /\ \A i \in DOMAIN stack : i + 1 \in DOMAIN stack =>
            \E e \in DOMAIN nodes[stack[i].node].out : nodes[stack[i].node].out[e] = stack[i + 1].node
      /\ \A i \in DOMAIN stack : \A e \in DOMAIN nodes[stack[i].node].out :
            e < stack[i].edge =>
              \/ status[nodes[stack[i].node].out[e]] = "finished"
              \/ i + 1 \in DOMAIN stack /\ stack[i + 1].node = nodes[stack[i].node].out[e]
      /\ \A i \in DOMAIN order : \A e \in DOMAIN nodes[order[i]].out :
            \E j \in 1 .. i - 1 : order[j] = nodes[order[i]].out[e]
  BY <1>1 DEF SortInv
<1>7. /\ Graph!Last(stack) = stack[L] /\ L \in 1 .. L /\ Graph!Last(stack) \in StackType
      /\ Graph!Front(stack) \in Seq(StackType) /\ DOMAIN Graph!Front(stack) = 1 .. L - 1
      /\ \A i \in 1 .. L - 1 : Graph!Front(stack)[i] = stack[i]
  BY <1>1, <1>5, <1>6, LastReplaced
<1>8. /\ status' = [status EXCEPT ![n] = "finished"]
      /\ order' = Append(order, n) /\ stack' = Graph!Front(stack)
      /\ Graph!Last(stack).edge > Len(nodes[n].out)
  BY DEF Graph!Leave
<1>9. n \in DOMAIN nodes /\ n = stack[L].node /\ stack[L].edge \in Nat
  BY <1>7 DEF StackType
<1>10. status[n] = "working"
  BY <1>5, <1>6, <1>7, <1>9
<1> HIDE DEF n, L, K
<1>11. /\ status' \in [DOMAIN nodes -> {"unstarted", "working", "finished"}]
       /\ status'[n] = "finished" /\ \A x \in DOMAIN nodes : x # n => status'[x] = status[x]
  BY <1>6, <1>8, <1>9
<1>12. /\ order' \in Seq(DOMAIN nodes) /\ Len(order') = K + 1
       /\ \A i \in 1 .. K : order'[i] = order[i]
       /\ order'[K + 1] = n
  BY <1>6, <1>8, <1>9, AppendProperties DEF K
<1>13. DOMAIN order' = 1 .. K + 1
  BY <1>12, LenProperties
<1>14. /\ DOMAIN stack' = 1 .. L - 1 /\ \A i \in 1 .. L - 1 : stack'[i] = stack[i]
       /\ \A i \in 1 .. L - 1 : i \in 1 .. L
       /\ \A i \in 1 .. L : i \in 1 .. L - 1 \/ i = L
       /\ L \notin 1 .. L - 1
  BY <1>5, <1>7, <1>8
<1>15. /\ \A i \in 1 .. K + 1 : i \in 1 .. K \/ i = K + 1
       /\ \A i \in 1 .. K : i \in 1 .. K + 1
       /\ K + 1 \in 1 .. K + 1
  BY <1>5
<1>16. \A i, j \in DOMAIN stack' : stack'[i].node = stack'[j].node => i = j
  BY <1>5, <1>6, <1>14
<1>17. \A i \in 1 .. K : order[i] # n
  BY <1>5, <1>6, <1>9, <1>10
<1>18. \A i, j \in DOMAIN order' : order'[i] = order'[j] => i = j
  <2> SUFFICES ASSUME NEW i \in 1 .. K + 1, NEW j \in 1 .. K + 1, order'[i] = order'[j]
               PROVE  i = j
    BY <1>13
  <2>1. CASE i \in 1 .. K /\ j \in 1 .. K
    BY <1>5, <1>6, <1>12, <2>1
  <2>2. CASE i = K + 1 \/ j = K + 1
    BY <1>12, <1>15, <1>17, <2>2
  <2> QED
    BY <1>15, <2>1, <2>2
<1>19. ASSUME NEW x \in DOMAIN nodes
       PROVE  status'[x] = "working" <=> \E i \in DOMAIN stack' : stack'[i].node = x
  <2>1. CASE x = n
    <3>1. ASSUME NEW i \in DOMAIN stack' PROVE stack'[i].node # n
      <4>1. stack'[i] = stack[i] /\ i \in 1 .. L /\ i # L
        BY <1>14
      <4>2. \A j \in DOMAIN stack : stack[i].node = stack[j].node => i = j
        BY <1>5, <1>6, <4>1
      <4> QED
        BY <1>5, <1>7, <1>9, <4>1, <4>2
    <3> QED
      BY <1>11, <2>1, <3>1
  <2>2. CASE x # n
    <3>1. (\E i \in DOMAIN stack' : stack'[i].node = x) <=> \E i \in DOMAIN stack : stack[i].node = x
      <4>1. \A i \in DOMAIN stack' : i \in DOMAIN stack /\ stack'[i].node = stack[i].node
        BY <1>5, <1>14
      <4>2. \A i \in DOMAIN stack : stack[i].node = x => i \in DOMAIN stack' /\ stack'[i].node = x
        BY <1>5, <1>9, <1>14, <2>2
      <4> QED
        BY <4>1, <4>2
    <3> QED
      BY <1>6, <1>11, <2>2, <3>1
  <2> QED
    BY <2>1, <2>2
<1>20. ASSUME NEW x \in DOMAIN nodes
       PROVE  status'[x] = "finished" <=> \E i \in DOMAIN order' : order'[i] = x
  <2>1. CASE x = n
    BY <1>11, <1>12, <1>13, <1>15, <2>1
  <2>2. CASE x # n
    <3>1. (\E i \in DOMAIN order' : order'[i] = x) <=> \E i \in DOMAIN order : order[i] = x
      BY <1>5, <1>12, <1>13, <1>15, <2>2
    <3> QED
      BY <1>6, <1>11, <2>2, <3>1
  <2> QED
    BY <2>1, <2>2
<1>21. ASSUME NEW i \in DOMAIN stack', i + 1 \in DOMAIN stack'
       PROVE  \E e \in DOMAIN nodes[stack'[i].node].out :
           nodes[stack'[i].node].out[e] = stack'[i + 1].node
  <2>1. /\ i \in DOMAIN stack /\ i + 1 \in DOMAIN stack /\ stack'[i] = stack[i]
        /\ stack'[i + 1] = stack[i + 1]
    BY <1>5, <1>14, <1>21
  <2>2. \E e \in DOMAIN nodes[stack[i].node].out : nodes[stack[i].node].out[e] = stack[i + 1].node
    BY <1>6, <2>1
  <2> QED
    BY <2>1, <2>2
<1>22. ASSUME NEW i \in DOMAIN stack', NEW e \in DOMAIN nodes[stack'[i].node].out, e < stack'[i].edge
       PROVE  \/ status'[nodes[stack'[i].node].out[e]] = "finished"
              \/ i + 1 \in DOMAIN stack' /\ stack'[i + 1].node = nodes[stack'[i].node].out[e]
  <2>1. stack'[i] = stack[i] /\ i \in DOMAIN stack /\ stack[i].node \in DOMAIN nodes
    BY <1>5, <1>14 DEF StackType
  <2>2. nodes[stack[i].node].out[e] \in DOMAIN nodes
    BY <1>5, <1>22, <2>1
  <2>3. \/ status[nodes[stack[i].node].out[e]] = "finished"
        \/ i + 1 \in DOMAIN stack /\ stack[i + 1].node = nodes[stack[i].node].out[e]
    BY <1>6, <1>22, <2>1
  <2> QED
    BY <1>5, <1>9, <1>11, <1>14, <2>1, <2>2, <2>3
<1>23. ASSUME NEW i \in DOMAIN order', NEW e \in DOMAIN nodes[order'[i]].out
       PROVE  \E j \in 1 .. i - 1 : order'[j] = nodes[order'[i]].out[e]
  <2>1. CASE i \in 1 .. K
    <3>1. PICK j \in 1 .. i - 1 : order[j] = nodes[order[i]].out[e]
      BY <1>5, <1>6, <1>12, <1>23, <2>1
    <3>2. j \in 1 .. K
      BY <1>5, <2>1
    <3> QED
      BY <1>12, <2>1, <3>1, <3>2
  <2>2. CASE i = K + 1
    <3>1. order'[i] = n /\ e \in DOMAIN nodes[n].out
      BY <1>12, <1>23, <2>2
    <3>2. e < stack[L].edge /\ L + 1 \notin DOMAIN stack /\ L \in DOMAIN stack
      <4>1. e \in 1 .. Len(nodes[n].out) /\ Len(nodes[n].out) \in Nat
        BY <1>5, <1>9, <3>1
      <4>2. stack[L].edge > Len(nodes[n].out)
        BY <1>7, <1>8
      <4> QED
        <5>1. e < stack[L].edge
          BY <1>9, <4>1, <4>2
        <5>2. L \in DOMAIN stack /\ L + 1 \notin DOMAIN stack
          BY <1>5, <1>7
        <5> QED
          BY <5>1, <5>2
    <3>3. status[nodes[n].out[e]] = "finished"
      BY <1>6, <1>9, <3>1, <3>2
    <3>4. nodes[n].out[e] \in DOMAIN nodes
      BY <1>5, <1>9, <3>1
    <3>5. PICK j \in 1 .. K : order[j] = nodes[n].out[e]
      BY <1>5, <1>6, <3>3, <3>4
    <3>6. j \in 1 .. i - 1
      BY <1>5, <2>2
    <3> QED
      BY <1>12, <3>1, <3>5, <3>6
  <2> QED
    BY <1>13, <1>15, <2>1, <2>2
<1>24. SortInv'
  <2>1. StackType' = StackType /\ stack' \in Seq(StackType)
    BY <1>2, <1>7, <1>8 DEF StackType
  <2> QED
    BY <1>2, <1>11, <1>12, <1>16, <1>18, <1>19, <1>20, <1>21, <1>22, <1>23, <2>1 DEF SortInv
<1> QED
  BY <1>1, <1>2, <1>3, <1>4, <1>24
     DEF GraphInv, KahnInv, Graph!RefusedIffCyclic, Graph!CommandsInOrder

(* When everything is finished the order is one of the whole graph, which  *)
(* has no cycle.                                                           *)
LEMMA SortedKeeps ==
    ASSUME GraphInv, Graph!Sorted
    PROVE  GraphInv'
<1> DEFINE K == Len(order)
           rev == Graph!Reverse(order)
<1>1. /\ LoadInv /\ DegreeInv /\ SortInv /\ phase = "sort" /\ stack = <<>> /\ IsLoaded
      /\ UNCHANGED <<manifest, tool, Graph!load, Graph!kahn, status, stack, culprit>>
      /\ phase' = "run" /\ order' = rev
      /\ \A n \in DOMAIN nodes : status[n] # "unstarted"
  BY DEF GraphInv, Graph!Sorted, LoadInv, LoadType, IsLoaded
<1>2. UNCHANGED <<manifest, tool, nodes, steps, linked, degree, remaining, ready, visited>>
  BY <1>1 DEF Graph!load, Graph!kahn
<1>3. LoadInv'
  BY <1>1, <1>2, LoadStable DEF Phases, IsLoaded
<1>4. DegreeInv'
  <2>1. Graph!InDegrees' = Graph!InDegrees
    BY <1>2, GraphStable
  <2> QED
    BY <1>1, <1>2, <2>1 DEF DegreeInv
<1>5. K \in Nat /\ DOMAIN order = 1 .. K /\ \A i \in 1 .. K : order[i] \in DOMAIN nodes
  BY <1>1, SortFacts
<1>6. \A i, j \in 1 .. K : order[i] = order[j] => i = j
  BY <1>1, <1>5 DEF SortInv
<1>7. \A n \in DOMAIN nodes : \E i \in 1 .. K : order[i] = n
  <2>1. DOMAIN stack = {}
    BY <1>1
  <2>2. \A n \in DOMAIN nodes : status[n] \in {"unstarted", "working", "finished"}
    BY <1>1 DEF SortInv
  <2>3. \A n \in DOMAIN nodes : status[n] = "finished"
    BY <1>1, <2>1, <2>2 DEF SortInv
  <2> QED
    BY <1>1, <1>5, <2>3 DEF SortInv
<1>8. ASSUME NEW i \in 1 .. K, NEW j \in 1 .. K, Graph!Edges(order[i], order[j]) # {}
      PROVE  j < i
  <2>1. PICK e \in DOMAIN nodes[order[i]].out : nodes[order[i]].out[e] = order[j]
    BY <1>8 DEF Graph!Edges
  <2>2. PICK k \in 1 .. i - 1 : order[k] = order[j]
    BY <1>1, <1>5, <2>1, SMTT(30) DEF SortInv
  <2>3. k \in 1 .. K /\ k < i
    BY <1>5
  <2> QED
    BY <1>6, <2>2, <2>3
<1>9. /\ Graph!Files = {PathOf(n) : n \in DOMAIN nodes} /\ ~Graph!Ambiguous
      /\ \A u, v \in DOMAIN nodes : Graph!LeadsTo(PathOf(u), PathOf(v)) <=> Graph!Edges(u, v) # {}
  BY <1>1, GraphIsManifest
<1>10. ASSUME NEW n \in DOMAIN nodes PROVE ~Graph!NeedsItself(PathOf(n))
  <2>1. PICK k \in 1 .. K : order[k] = n
    BY <1>7
  <2> DEFINE U == {order[j] : j \in k + 1 .. K}
  <2>2. \A j \in k + 1 .. K : j \in 1 .. K /\ j # k
    BY <1>5
  <2>3. U \in SUBSET DOMAIN nodes /\ n \in DOMAIN nodes \ U
    BY <1>5, <1>6, <2>1, <2>2
  <2>4. ASSUME NEW v \in U \cup {n}, NEW u \in DOMAIN nodes, Graph!Edges(u, v) # {}
        PROVE  u \in U
    <3>1. PICK i \in 1 .. K : order[i] = u
      BY <1>7
    <3>2. PICK j \in 1 .. K : order[j] = v /\ k <= j
      <4>1. CASE v = n
        BY <1>5, <2>1, <4>1
      <4>2. CASE v \in U
        BY <1>5, <2>2, <4>2
      <4> QED
        BY <2>4, <4>1, <4>2
    <3>3. j < i
      BY <1>8, <2>4, <3>1, <3>2
    <3>4. i \in k + 1 .. K
      BY <1>5, <3>2, <3>3
    <3> QED
      BY <3>1, <3>4
  <2> HIDE DEF U
  <2> QED
    BY <1>1, <2>3, <2>4, FreeOfCycles
<1>11. ~Graph!Cyclic
  BY <1>9, <1>10 DEF Graph!Cyclic
<1>12. Graph!RefusedIffCyclic'
  BY <1>1, <1>2, <1>9, <1>11, GraphStable DEF Graph!RefusedIffCyclic
<1>13. /\ DOMAIN rev = 1 .. K /\ rev \in Seq(DOMAIN nodes) /\ Len(rev) = K
       /\ \A i \in 1 .. K : rev[i] = order[K - i + 1] /\ K - i + 1 \in 1 .. K
  <2>1. rev = [i \in 1 .. K |-> order[(K - i) + 1]]
    BY DEF Graph!Reverse
  <2>2. \A i \in 1 .. K : K - i + 1 \in 1 .. K
    BY <1>5
  <2>3. rev \in [1 .. K -> DOMAIN nodes]
    BY <1>5, <2>1, <2>2
  <2>4. rev \in Seq(DOMAIN nodes)
    BY <1>5, <2>3, SeqDef
  <2>5. DOMAIN rev = 1 .. K
    BY <2>1
  <2>6. Len(rev) = K
    BY <1>5, <2>4, <2>5, LenProperties
  <2> QED
    BY <2>1, <2>2, <2>4, <2>5, <2>6
<1> HIDE DEF rev, K
<1>14. {PathOf(n) : n \in Graph!Range(rev)} = Graph!Files
  <2>1. \A n \in DOMAIN nodes : \E i \in 1 .. K : rev[i] = n
    <3> SUFFICES ASSUME NEW n \in DOMAIN nodes PROVE \E i \in 1 .. K : rev[i] = n
      OBVIOUS
    <3>1. PICK i \in 1 .. K : order[i] = n
      BY <1>7
    <3>2. K - i + 1 \in 1 .. K /\ K - (K - i + 1) + 1 = i
      BY <1>5
    <3>3. rev[K - i + 1] = order[K - (K - i + 1) + 1]
      BY <1>13, <3>2
    <3> QED
      BY <3>1, <3>2, <3>3
  <2>2. Graph!Range(rev) = DOMAIN nodes
    <3>1. \A i \in 1 .. K : rev[i] \in DOMAIN nodes
      BY <1>5, <1>13
    <3>2. ASSUME NEW x PROVE x \in Graph!Range(rev) <=> \E i \in 1 .. K : rev[i] = x
      BY <1>13 DEF Graph!Range
    <3> QED
      BY <2>1, <3>1, <3>2
  <2> QED
    BY <1>9, <2>2
<1>15. K = Cardinality(Graph!Files)
  <2> DEFINE f == [i \in 1 .. K |-> PathOf(order[i])]
  <2>1. f \in [1 .. K -> Graph!Files]
    BY <1>5, <1>9
  <2>2. \A u, v \in DOMAIN nodes : PathOf(u) = PathOf(v) => u = v
    BY <1>1 DEF LoadInv, NodesInv, Distinct, PathOf
  <2>3. \A i, j \in 1 .. K : f[i] = f[j] => i = j
    BY <1>5, <1>6, <2>2
  <2>4. \A x \in Graph!Files : \E i \in 1 .. K : f[i] = x
    BY <1>7, <1>9
  <2>5. f \in Bijection(1 .. K, Graph!Files)
    BY <2>1, <2>3, <2>4 DEF Bijection, Injection, Surjection, IsInjective
  <2>6. ExistsBijection(1 .. K, Graph!Files)
    BY <2>5 DEF ExistsBijection
  <2> QED
    BY <1>5, <2>6, FS_CountingElements
<1>16. ASSUME NEW i \in 1 .. K, NEW j \in 1 .. K, Graph!LeadsTo(PathOf(rev[i]), PathOf(rev[j]))
       PROVE  i < j
  <2>1. /\ rev[i] = order[K - i + 1] /\ K - i + 1 \in 1 .. K
        /\ rev[j] = order[K - j + 1] /\ K - j + 1 \in 1 .. K
    BY <1>13
  <2>2. Graph!Edges(order[K - i + 1], order[K - j + 1]) # {}
    BY <1>5, <1>9, <1>16, <2>1
  <2>3. K - j + 1 < K - i + 1
    BY <1>8, <2>1, <2>2
  <2> QED
    BY <1>5, <2>3
<1>17. Graph!CommandsInOrder'
  <2>1. /\ {(nodes[n].path)' : n \in Graph!Range(order')} = Graph!Files'
        /\ Len(order') = Cardinality(Graph!Files')
    BY <1>1, <1>2, <1>13, <1>14, <1>15, GraphStable DEF PathOf
  <2>2. \A i, j \in DOMAIN order' : Graph!LeadsTo(nodes[order[i]].path, nodes[order[j]].path)' => i < j
    <3>1. \A i : (nodes[order[i]].path)' = PathOf(rev[i])
      BY <1>1, <1>2 DEF PathOf
    <3>2. \A i, j : Graph!LeadsTo(nodes[order[i]].path, nodes[order[j]].path)'
                      <=> Graph!LeadsTo(PathOf(rev[i]), PathOf(rev[j]))
      BY <1>2, <3>1 DEF Graph!LeadsTo, Graph!Mentioned
    <3> QED
      BY <1>1, <1>13, <1>16, <3>2
  <2> QED
    BY <2>1, <2>2, SameCounts DEF Graph!CommandsInOrder
<1> QED
  BY <1>1, <1>3, <1>4, <1>12, <1>17 DEF GraphInv, KahnInv, SortInv

(* The invariant of loading is that of the whole while the graph is        *)
(* loaded.                                                                 *)
LEMMA LoadingKeeps ==
    ASSUME GraphInv, Graph!AddStep \/ Graph!AddEdge
    PROVE  GraphInv'
<1>1. /\ LoadInv /\ DegreeInv /\ phase = "load" /\ phase' \in {"load", "duplicate"}
      /\ UNCHANGED <<tool, Graph!kahn, Graph!sort>>
  BY DEF GraphInv, Graph!AddStep, Graph!AddEdge
<1>2. UNCHANGED <<tool, degree, remaining, ready, visited, status, stack, order, culprit>>
  BY <1>1 DEF Graph!kahn, Graph!sort
<1>3. LoadInv'
  BY <1>1, AddStepKeeps, AddEdgeKeeps
<1>4. DegreeInv'
  BY <1>1, <1>2 DEF DegreeInv
<1>5. Graph!RefusedIffCyclic'
  <2>1. CASE phase' = "duplicate"
    <3>1. Graph!AddStep
      BY <1>1, <2>1 DEF Graph!AddEdge
    <3>2. Graph!Ambiguous /\ manifest' = manifest
      BY <1>1, <2>1, <3>1, DuplicateIsAmbiguous DEF Graph!AddStep
    <3>3. Graph!Ambiguous'
      BY <3>2 DEF Graph!Ambiguous
    <3> QED
      BY <2>1, <3>3 DEF Graph!RefusedIffCyclic
  <2>2. CASE phase' = "load"
    BY <2>2 DEF Graph!RefusedIffCyclic
  <2> QED
    BY <1>1, <2>1, <2>2
<1> QED
  BY <1>1, <1>3, <1>4, <1>5, SMTT(30) DEF GraphInv, KahnInv, SortInv, Graph!CommandsInOrder

(* It holds before the first step of the manifest.                         *)
LEMMA GraphInvInit ==
    ASSUME Graph!GraphInit
    PROVE  GraphInv
<1>1. manifest \in Seq(StepType)
  BY GraphAssumption DEF Graph!GraphInit
<1>2. Len(manifest) \in Nat /\ DOMAIN nodes = {} /\ nodes \in Seq(NodeType)
  BY <1>1, LenProperties, EmptySeq DEF Graph!GraphInit
<1>3. LoadType
  BY <1>1, <1>2 DEF LoadType, Graph!GraphInit, Phases
<1>4. NodesInv
  BY <1>2 DEF NodesInv, Graph!GraphInit, Distinct
<1>5. EdgesInv
  BY <1>2 DEF EdgesInv, Graph!Produced
<1> QED
  BY <1>3, <1>4, <1>5 DEF Graph!GraphInit, GraphInv, LoadInv, DegreeInv, KahnInv, SortInv,
                          Graph!RefusedIffCyclic, Graph!CommandsInOrder

(* Every action of the graph keeps it.                                     *)
LEMMA GraphInvNext ==
    ASSUME GraphInv, [Graph!GraphNext]_(Graph!graphVars)
    PROVE  GraphInv'
<1>1. CASE Graph!AddStep \/ Graph!AddEdge
  BY <1>1, LoadingKeeps
<1>2. CASE Graph!CountInputs
  BY <1>2, CountKeeps
<1>3. CASE Graph!JudgeCount
  BY <1>3, JudgeKeeps
<1>4. CASE Graph!AskCommands
  BY <1>4, AskKeeps
<1>5. CASE Graph!Sorted
  BY <1>5, SortedKeeps
<1>6. ASSUME NEW n \in DOMAIN nodes, Graph!Visit(n) PROVE GraphInv'
  BY <1>6, VisitKeeps
<1>7. ASSUME NEW n \in DOMAIN nodes, Graph!NextRoot(n) PROVE GraphInv'
  BY <1>7, RootKeeps
<1>8. CASE Graph!Follow
  BY <1>8, FollowKeeps
<1>9. CASE Graph!Leave
  BY <1>9, LeaveKeeps
<1>10. CASE UNCHANGED Graph!graphVars
  <2>1. UNCHANGED <<manifest, tool, phase, nodes, steps, linked, degree, remaining, ready, visited,
                    status, stack, order, culprit>>
    BY <1>10 DEF Graph!graphVars, Graph!load, Graph!kahn, Graph!sort
  <2>2. LoadInv'
    BY <2>1, LoadStable DEF GraphInv, LoadInv, LoadType
  <2>3. DegreeInv'
    BY <2>1, GraphStable DEF GraphInv, DegreeInv
  <2>4. KahnInv'
    <3>1. Graph!Produced' = Graph!Produced /\ Passed' = Passed
      BY <2>1 DEF Graph!Produced, Passed
    <3>2. \A v : Graph!EdgesFrom(Graph!Produced \ Passed, v)'
              = Graph!EdgesFrom(Graph!Produced \ Passed, v)
      BY <2>1, <3>1 DEF Graph!EdgesFrom, Graph!Edges
    <3>3. \A x : Graph!NeedsItself(PathOf(x))' <=> Graph!NeedsItself(PathOf(x))
      BY <2>1
         DEF Graph!NeedsItself, PathOf, Graph!Files, Graph!Outputs, Graph!Mentioned, Graph!LeadsTo
    <3>4. KahnInv
      BY DEF GraphInv
    <3> QED
      BY <2>1, <3>1, <3>2, <3>3, <3>4 DEF KahnInv
  <2>5. SortInv'
    BY <2>1 DEF GraphInv, SortInv, StackType
  <2>6. Graph!RefusedIffCyclic'
    <3>1. (Graph!Cyclic' <=> Graph!Cyclic) /\ (Graph!Ambiguous' <=> Graph!Ambiguous)
      BY <2>1, GraphStable
    <3>2. Graph!NeedsItself(nodes[culprit].path)' <=> Graph!NeedsItself(nodes[culprit].path)
      BY <2>1 DEF Graph!NeedsItself, Graph!Files, Graph!Outputs, Graph!Mentioned, Graph!LeadsTo
    <3> QED
      BY <2>1, <3>1, <3>2 DEF GraphInv, Graph!RefusedIffCyclic
  <2>7. Graph!CommandsInOrder'
    <3>1. Graph!Files' = Graph!Files
      BY <2>1, GraphStable
    <3>2. \A i, j : Graph!LeadsTo(nodes[order[i]].path, nodes[order[j]].path)'
                      <=> Graph!LeadsTo(nodes[order[i]].path, nodes[order[j]].path)
      BY <2>1 DEF Graph!LeadsTo, Graph!Mentioned
    <3>3. {nodes[n].path : n \in Graph!Range(order)}' = {nodes[n].path : n \in Graph!Range(order)}
      BY <2>1
    <3> QED
      BY <2>1, <3>1, <3>2, <3>3 DEF GraphInv, Graph!CommandsInOrder
  <2> QED
    BY <2>2, <2>3, <2>4, <2>5, <2>6, <2>7 DEF GraphInv
<1> QED
  BY <1>1, <1>2, <1>3, <1>4, <1>5, <1>6, <1>7, <1>8, <1>9, <1>10 DEF Graph!GraphNext

(* The in-degree of a step's node counts the mentions of produced files.   *)
LEMMA DegreesCount ==
    ASSUME GraphInv
    PROVE  Graph!DegreesAreMentions
<1> SUFFICES ASSUME degree # <<>>, NEW i \in DOMAIN manifest
             PROVE  degree[Graph!NodeOf(nodes, manifest[i].output)]
                      = Cardinality({k \in DOMAIN Graph!Mentioned(i) : Graph!Mentioned(i)[k] \in Graph!Outputs})
  BY SameCounts DEF Graph!DegreesAreMentions
<1>1. LoadInv /\ IsLoaded /\ degree = Graph!InDegrees
  BY DEF GraphInv, DegreeInv, LoadInv, LoadType, IsLoaded
<1>2. /\ i \in 1 .. steps /\ Graph!Mentioned(i) = Given(i) /\ DOMAIN Graph!Mentioned(i) = 1 .. Done(i)
  BY <1>1, WhenLoaded
<1> DEFINE v == Graph!NodeOf(nodes, manifest[i].output)
<1>3. v \in Graph!Produced /\ nodes[v].step = i
  BY <1>1, <1>2, OutputNode
<1> HIDE DEF v
<1>4. Graph!Outputs = {PathOf(n) : n \in Graph!Produced} /\ Graph!Produced \subseteq DOMAIN nodes
  BY <1>1, GraphIsManifest DEF Graph!Produced
<1>5. \A u, w \in DOMAIN nodes : PathOf(u) = PathOf(w) => u = w
  BY <1>1 DEF LoadInv, NodesInv, Distinct, PathOf
<1>6. {n \in DOMAIN nodes : nodes[n].path \in Graph!Outputs} = Graph!Produced
  <2>1. \A n \in DOMAIN nodes : PathOf(n) \in Graph!Outputs <=> n \in Graph!Produced
    BY <1>4, <1>5
  <2> QED
    BY <1>4, <2>1 DEF PathOf
<1>7. Graph!Outputs \in SUBSET Paths
  <2>1. manifest \in Seq(StepType) /\ DOMAIN manifest = 1 .. Len(manifest)
    BY <1>1, LenProperties DEF LoadInv, LoadType
  <2>2. \A j \in DOMAIN manifest : manifest[j].output \in Paths
    BY <2>1, StepFacts
  <2> QED
    BY <2>2 DEF Graph!Outputs
<1>8. Cardinality(EdgesInto(v, Graph!Outputs)) = Cardinality(Lists(i, Graph!Outputs))
  BY <1>1, <1>3, <1>7 DEF LoadInv, EdgesInv
<1>9. EdgesInto(v, Graph!Outputs) = Graph!EdgesFrom(Graph!Produced, v)
  BY <1>6 DEF EdgesInto, Graph!EdgesFrom
<1>10. degree[v] = Cardinality(Graph!EdgesFrom(Graph!Produced, v))
  BY <1>1, <1>3, <1>4, SameCounts DEF Graph!InDegrees
<1>11. Lists(i, Graph!Outputs)
           = {k \in DOMAIN Graph!Mentioned(i) : Graph!Mentioned(i)[k] \in Graph!Outputs}
  BY <1>2 DEF Lists
<1> QED
  BY <1>8, <1>9, <1>10, <1>11 DEF v

-----------------------------------------------------------------------------
(***************************************************************************)
(* The map that indexes paths. Probing goes round the slots.               *)
(***************************************************************************)
Entry == [key : Keys, value : Values, dist : Nat \ {0}]
Occupied == {i \in DOMAIN slots : slots[i] # Map!Empty}

(* Each entry is at its distance from its home, no entry is more than one  *)
(* step worse off than the slot before it, and a key is there once.        *)
SlotsInv ==
    /\ \E c \in Nat : c > 0 /\ DOMAIN slots = 0 .. c - 1
    /\ slots \in [DOMAIN slots -> Entry \cup {Map!Empty}]
    /\ \A i \in Occupied : i = (Map!Home(slots[i].key) + slots[i].dist - 1) % Map!Capacity
    /\ \A i \in DOMAIN slots : slots[i].dist <= Map!Capacity
    /\ \A i \in DOMAIN slots : slots[(i + 1) % Map!Capacity].dist <= slots[i].dist + 1
    /\ \A i, j \in Occupied : slots[i].key = slots[j].key => i = j

(* The number of entries, with those that wait and the one in hand, is one *)
(* the slots can take: a probe finds a free slot.                          *)
SizeInv ==
    /\ size = Cardinality(Occupied)
    /\ size + Len(queue) + (IF carry = Map!Empty THEN 0 ELSE 1) <= Map!Capacity

(* The entry in hand would be in order at its place, and its key, if the   *)
(* map has it, is not behind it.                                           *)
CarryInv ==
    carry # Map!Empty =>
        /\ place = (Map!Home(carry.key) + carry.dist - 1) % Map!Capacity
        /\ \A i \in DOMAIN slots : (i + 1) % Map!Capacity = place => carry.dist <= slots[i].dist + 1
        /\ \A i \in Occupied : slots[i].key = carry.key => carry.dist <= slots[i].dist

Pending(k) == {i \in DOMAIN queue : queue[i].key = k}

(* The keys are those waiting, in hand or in a slot; the last that waits   *)
(* has the value, or, when none does, the hand, or the slot.               *)
ContentInv ==
    \A k \in Keys :
        /\ k \in DOMAIN dict <=> Pending(k) # {} \/ carry.key = k
                                 \/ \E i \in DOMAIN slots : slots[i].key = k
        /\ \A i \in Pending(k) : (\A j \in Pending(k) : j <= i) => queue[i].value = dict[k]
        /\ Pending(k) = {} =>
             /\ carry.key = k => carry.value = dict[k]
             /\ carry.key # k =>
                  \A i \in DOMAIN slots : slots[i].key = k => slots[i].value = dict[k]

IsLast(entry) == entry.key = last.key /\ entry.value = last.value

(* The last insertion's slot has its entry, and what is in hand comes      *)
(* after it in the same run.                                               *)
Placed ==
    /\ result \in DOMAIN slots /\ IsLast(slots[result])
    /\ carry # Map!Empty =>
         \E m \in 1 .. Map!Capacity :
            /\ place = (result + m) % Map!Capacity
            /\ \A e \in 0 .. m - 1 : slots[(result + e) % Map!Capacity] # Map!Empty

(* The last insertion's entry waits last, is in hand, or is where its      *)
(* result says.                                                            *)
ResultInv ==
    last # Map!Empty =>
        IF queue # <<>> THEN queue[Len(queue)] = last
        ELSE (carry # Map!Empty /\ result = Nothing /\ IsLast(carry)) \/ Placed

MapTypeInv ==
    /\ hash \in Hashes
    /\ queue \in Seq(Entry \cup {Map!Empty})
    /\ carry \in Entry \cup {Map!Empty}
    /\ last \in Entry \cup {Map!Empty}
    /\ DOMAIN dict \subseteq Keys

MapInv == MapTypeInv /\ SlotsInv /\ SizeInv /\ CarryInv /\ ContentInv /\ ResultInv

-----------------------------------------------------------------------------
(* One step round the ring after another.                                  *)
LEMMA NextCell ==
    ASSUME NEW n \in Nat, n > 0, NEW a \in Nat
    PROVE  ((a % n) + 1) % n = (a + 1) % n
<1> DEFINE q == a \div n
           r == a % n
           p == (r + 1) \div n
           s == (r + 1) % n
           b == (a + 1) \div n
           t == (a + 1) % n
<1>1. ASSUME NEW x \in Nat
      PROVE  x = n * (x \div n) + (x % n) /\ x \div n \in Int /\ x % n \in 0 .. n - 1
  OBVIOUS
<1>2. a = n * q + r /\ q \in Int /\ r \in 0 .. n - 1
  BY <1>1
<1> HIDE DEF q, r
<1>3. r + 1 \in Nat /\ a + 1 \in Nat
  BY <1>2
<1>4. /\ r + 1 = n * p + s /\ p \in Int /\ s \in 0 .. n - 1
      /\ a + 1 = n * b + t /\ b \in Int /\ t \in 0 .. n - 1
  BY <1>1, <1>3
<1> HIDE DEF p, s, b, t
<1>5. n * (q + p) = n * q + n * p
  BY <1>2, <1>4
<1>6. n * (q + p) + s = n * b + t
  BY <1>2, <1>4, <1>5
<1>7. q + p \in Int /\ b \in Int /\ s \in 0 .. n - 1 /\ t \in 0 .. n - 1 /\ n \in Nat /\ n > 0
  BY <1>2, <1>4
<1>8. s = t
  <2> DEFINE c == q + p
  <2>1. n * c + s = n * b + t /\ c \in Int
    BY <1>6, <1>7
  <2> HIDE DEF c
  <2> QED
    BY ONLY <2>1, <1>7, Remainder
<1> QED
  BY <1>8 DEF s, t, r

(* Distances up to the capacity lead to different slots.                   *)
LEMMA SameSlot ==
    ASSUME NEW n \in Nat, n > 0, NEW h \in Nat, NEW d \in 1 .. n, NEW e \in 1 .. n,
           (h + d - 1) % n = (h + e - 1) % n
    PROVE  d = e
<1>1. CASE n = 1
  BY <1>1
<1>2. CASE n > 1
  <2>1. \A p, q \in Nat : p < q /\ q < p + n => p % n # q % n
    BY <1>2, Laps
  <2>2. h + d - 1 \in Nat /\ h + e - 1 \in Nat
    OBVIOUS
  <2>3. ~(d < e)
    <3> SUFFICES ASSUME d < e PROVE FALSE
      OBVIOUS
    <3>1. h + d - 1 < h + e - 1 /\ h + e - 1 < (h + d - 1) + n
      OBVIOUS
    <3> QED
      BY <2>1, <2>2, <3>1
  <2>4. ~(e < d)
    <3> SUFFICES ASSUME e < d PROVE FALSE
      OBVIOUS
    <3>1. h + e - 1 < h + d - 1 /\ h + d - 1 < (h + e - 1) + n
      OBVIOUS
    <3> QED
      BY <2>1, <2>2, <3>1
  <2> QED
    BY <2>3, <2>4
<1> QED
  BY <1>1, <1>2

(* The slots.                                                              *)
LEMMA SlotFacts ==
    ASSUME MapTypeInv, SlotsInv
    PROVE  /\ Map!Capacity \in Nat /\ Map!Capacity > 0 /\ DOMAIN slots = 0 .. Map!Capacity - 1
           /\ IsFiniteSet(DOMAIN slots)
           /\ \A k \in Keys : hash[k] \in Nat /\ Map!Home(k) \in 0 .. Map!Capacity - 1
           /\ \A i \in DOMAIN slots :
                /\ slots[i] \in Entry \cup {Map!Empty} /\ slots[i].dist \in Nat
                /\ i \in Occupied <=> slots[i].dist # 0
                /\ i \in Occupied <=> slots[i].key \in Keys
           /\ IsFiniteSet(Occupied) /\ Cardinality(Occupied) \in Nat
           /\ Cardinality(Occupied) <= Map!Capacity
<1>1. PICK c \in Nat : c > 0 /\ DOMAIN slots = 0 .. c - 1
  BY DEF SlotsInv
<1>2. IsFiniteSet(0 .. c - 1) /\ Cardinality(0 .. c - 1) = c
  <2>1. /\ IsFiniteSet(0 .. c - 1)
        /\ Cardinality(0 .. c - 1) = IF 0 > c - 1 THEN 0 ELSE c - 1 - 0 + 1
    BY <1>1, FS_Interval
  <2> QED
    BY <1>1, <2>1
<1>3. Map!Capacity = c
  BY <1>1, <1>2, SameCounts DEF Map!Capacity
<1>4. \A k \in Keys : hash[k] \in Nat /\ Map!Home(k) \in 0 .. Map!Capacity - 1
  <2>1. hash \in [Keys -> Nat]
    BY MapAssumption DEF MapTypeInv
  <2> QED
    BY <1>1, <1>3, <2>1 DEF Map!Home
<1>5. ASSUME NEW i \in DOMAIN slots
      PROVE  /\ slots[i] \in Entry \cup {Map!Empty} /\ slots[i].dist \in Nat
             /\ i \in Occupied <=> slots[i].dist # 0
             /\ i \in Occupied <=> slots[i].key \in Keys
  <2>1. slots[i] \in Entry \cup {Map!Empty}
    BY DEF SlotsInv
  <2>2. CASE slots[i] = Map!Empty
    BY <2>2, MapAssumption DEF Map!Empty, Occupied
  <2>3. CASE slots[i] \in Entry
    BY <2>3, MapAssumption DEF Map!Empty, Entry, Occupied
  <2> QED
    BY <2>1, <2>2, <2>3
<1>6. Occupied \subseteq DOMAIN slots
  BY DEF Occupied
<1>7. /\ IsFiniteSet(Occupied) /\ Cardinality(Occupied) \in Nat
      /\ Cardinality(Occupied) <= Cardinality(DOMAIN slots)
  BY <1>1, <1>2, <1>6, FS_Subset, FS_CardinalityType
<1> QED
  BY <1>1, <1>2, <1>3, <1>4, <1>5, <1>7

(* An entry at distance d has entries before it that are at least as far   *)
(* from their homes as it was when it passed them.                         *)
LEMMA Chain ==
    ASSUME MapTypeInv, SlotsInv, NEW k \in Keys, NEW d \in Nat, d > 0, Map!Probe(k, d).dist >= d
    PROVE  \A e \in 1 .. d : Map!Probe(k, e).dist >= e
<1> DEFINE C == Map!Capacity
           h == Map!Home(k)
           at(e) == (h + e - 1) % C
           Bad == {n \in Nat : n < d /\ ~(slots[at(d - n)].dist >= d - n)}
<1>1. C \in Nat /\ C > 0 /\ DOMAIN slots = 0 .. C - 1 /\ h \in Nat
  BY SlotFacts
<1>2. \A i \in 0 .. C - 1 : slots[i].dist \in Nat /\ slots[(i + 1) % C].dist <= slots[i].dist + 1
  BY <1>1, SlotFacts DEF SlotsInv
<1>3. \A e : Map!Probe(k, e) = slots[at(e)]
  BY DEF Map!Probe
<1> HIDE DEF C, h
<1>4. ASSUME NEW e \in Nat, e > 0 PROVE at(e) \in 0 .. C - 1 /\ at(e + 1) = (at(e) + 1) % C
  <2> DEFINE a == h + e - 1
  <2>1. a \in Nat /\ h + (e + 1) - 1 = a + 1
    BY <1>1, <1>4
  <2> HIDE DEF a
  <2>2. C \in Nat /\ C > 0 /\ a \in Nat
    BY <1>1, <2>1
  <2>3. ((a % C) + 1) % C = (a + 1) % C
    BY ONLY <2>2, NextCell
  <2>4. a % C \in 0 .. C - 1
    BY ONLY <2>2
  <2> QED
    BY <2>1, <2>3, <2>4 DEF a
<1> HIDE DEF at
<1>5. Bad = {}
  <2> SUFFICES ASSUME Bad # {} PROVE FALSE
    OBVIOUS
  <2>1. PICK n \in Bad : \A m \in Bad : n <= m
    <3>1. Bad \subseteq Nat
      OBVIOUS
    <3> HIDE DEF Bad
    <3> QED
      BY <3>1, LeastNumber
  <2>2. n \in Nat /\ n < d /\ ~(slots[at(d - n)].dist >= d - n)
    BY <2>1
  <2>3. n # 0
    BY <1>3, <2>2
  <2>4. n - 1 \in Nat /\ n - 1 < d /\ n - 1 \notin Bad
    BY <2>1, <2>2, <2>3
  <2>5. slots[at(d - (n - 1))].dist >= d - (n - 1)
    BY <2>4
  <2>6. d - n \in Nat /\ d - n > 0 /\ d - (n - 1) = (d - n) + 1
    BY <2>2
  <2> HIDE DEF Bad
  <2> DEFINE e == d - n
  <2>7. e \in Nat /\ e > 0 /\ slots[at(e + 1)].dist >= e + 1 /\ ~(slots[at(e)].dist >= e)
    BY <2>2, <2>5, <2>6
  <2> HIDE DEF e
  <2> QED
    BY <1>2, <1>4, <2>7
<1>6. ASSUME NEW e \in 1 .. d PROVE slots[at(e)].dist >= e
  <2>1. d - e \in Nat /\ d - e < d /\ d - (d - e) = e
    OBVIOUS
  <2> QED
    BY <1>5, <2>1
<1> QED
  BY <1>3, <1>6

(* While an entry is carried there is room for it.                         *)
LEMMA FreeSlot ==
    ASSUME MapTypeInv, SlotsInv, SizeInv, carry # Map!Empty
    PROVE  \E i \in DOMAIN slots : slots[i].dist = 0
<1>1. Len(queue) \in Nat
  BY LenProperties DEF MapTypeInv
<1>2. /\ Map!Capacity \in Nat /\ DOMAIN slots = 0 .. Map!Capacity - 1 /\ Cardinality(Occupied) \in Nat
      /\ \A i \in DOMAIN slots : i \in Occupied <=> slots[i].dist # 0
  BY SlotFacts
<1>3. Cardinality(Occupied) + 1 <= Map!Capacity
  BY <1>1, <1>2 DEF SizeInv
<1>4. SUFFICES ASSUME \A i \in DOMAIN slots : slots[i].dist # 0 PROVE FALSE
  OBVIOUS
<1>5. Occupied = DOMAIN slots
  BY <1>2, <1>4 DEF Occupied
<1>6. Cardinality(Occupied) = Map!Capacity
  BY <1>5, SameCounts DEF Map!Capacity
<1> QED
  BY <1>2, <1>3, <1>6

(* The entry that is carried stands at a slot of its chain, and no further *)
(* from its home than there are slots.                                     *)
LEMMA CarryFacts ==
    ASSUME MapTypeInv, SlotsInv, SizeInv, CarryInv, carry # Map!Empty
    PROVE  /\ carry \in Entry /\ carry.key \in Keys /\ carry.dist \in 1 .. Map!Capacity
           /\ place \in DOMAIN slots /\ Map!Probe(carry.key, carry.dist) = slots[place]
           /\ \A i \in Occupied : slots[i].key = carry.key => slots[place].dist >= carry.dist
<1> DEFINE C == Map!Capacity
           k == carry.key
           d == carry.dist
           h == Map!Home(k)
<1>1. carry \in Entry /\ k \in Keys /\ d \in Nat /\ d > 0
  BY DEF MapTypeInv, Entry
<1>2. /\ C \in Nat /\ C > 0 /\ DOMAIN slots = 0 .. C - 1 /\ h \in Nat
      /\ \A i \in 0 .. C - 1 : slots[i].dist \in Nat
      /\ \A i \in 0 .. C - 1 : i \in Occupied <=> slots[i].dist # 0
      /\ Occupied \subseteq 0 .. C - 1
  BY <1>1, SlotFacts DEF Occupied
<1>3. place = (h + d - 1) % C /\ \A i \in 0 .. C - 1 : (i + 1) % C = place => d <= slots[i].dist + 1
  BY <1>2 DEF CarryInv
<1> HIDE DEF C, h, d, k
<1>4. \A e \in Nat : e > 0 => (h + e - 1) % C \in 0 .. C - 1
  <2> TAKE e \in Nat
  <2> HAVE e > 0
  <2>1. e - 1 \in Nat /\ h + e - 1 = h + (e - 1)
    BY <1>2
  <2> QED
    BY <1>2, <2>1, RoundTheRing
<1>5. place \in 0 .. C - 1 /\ Map!Probe(k, d) = slots[place]
  <2>1. place \in 0 .. C - 1
    BY <1>1, <1>3, <1>4
  <2> QED
    BY <1>3, <2>1 DEF Map!Probe, C, h
<1>6. ASSUME d > 1 PROVE \A e \in 1 .. d - 1 : slots[(h + e - 1) % C].dist >= e
  <2> DEFINE p == (h + (d - 1) - 1) % C
  <2>1. p \in 0 .. C - 1
    BY <1>1, <1>4, <1>6
  <2>2. (p + 1) % C = place
    <3> DEFINE a == h + (d - 1) - 1
    <3>1. a \in Nat /\ a + 1 = h + d - 1
      BY <1>1, <1>2, <1>6
    <3> HIDE DEF a
    <3>2. ((a % C) + 1) % C = (a + 1) % C
      BY <1>2, <3>1, NextCell
    <3> QED
      BY <1>3, <3>1, <3>2 DEF a
  <2>3. Map!Probe(k, d - 1).dist >= d - 1
    <3>1. d <= slots[p].dist + 1 /\ slots[p].dist \in Nat
      BY <1>2, <1>3, <2>1, <2>2
    <3> HIDE DEF p
    <3>2. Map!Probe(k, d - 1) = slots[p]
      BY DEF Map!Probe, C, h, p
    <3> QED
      BY <1>1, <3>1, <3>2
  <2>4. d - 1 \in Nat /\ d - 1 > 0
    BY <1>1, <1>6
  <2>5. \A e \in 1 .. d - 1 : Map!Probe(k, e).dist >= e
    BY <1>1, <2>3, <2>4, Chain
  <2> QED
    BY <2>5 DEF Map!Probe, C, h
<1>7. d <= C
  <2> SUFFICES ASSUME d > C PROVE FALSE
    BY <1>1, <1>2
  <2>1. PICK i \in 0 .. C - 1 : slots[i].dist = 0
    BY <1>2, FreeSlot
  <2>2. PICK m \in 0 .. C - 1 : (h + m) % C = i
    BY <1>2, RoundTheRing
  <2>3. m + 1 \in 1 .. d - 1 /\ d > 1 /\ h + (m + 1) - 1 = h + m
    BY <1>1, <1>2
  <2>4. slots[i].dist >= m + 1
    BY <1>6, <2>2, <2>3
  <2> QED
    BY <2>1, <2>4
<1>8. ASSUME NEW i \in Occupied, slots[i].key = k PROVE slots[place].dist >= d
  <2> DEFINE b == slots[i].dist
  <2>1. /\ i = (h + b - 1) % C /\ d <= b
        /\ b \in Nat /\ b > 0
    BY <1>1, <1>2, <1>8 DEF SlotsInv, CarryInv, d, k, h, C
  <2> HIDE DEF b
  <2>2. Map!Probe(k, b).dist = b
    BY <2>1 DEF Map!Probe, C, h, b
  <2>3. \A e \in 1 .. b : Map!Probe(k, e).dist >= e
    BY <1>1, <2>1, <2>2, Chain
  <2>4. d \in 1 .. b
    BY <1>1, <2>1
  <2> QED
    BY <1>5, <2>3, <2>4
<1> QED
  BY <1>1, <1>2, <1>5, <1>7, <1>8 DEF C, d, k

(* An entry that takes a slot from a poorer one leaves the slots in order. *)
LEMMA PutKeeps ==
    ASSUME MapTypeInv, SlotsInv, SizeInv, CarryInv, carry # Map!Empty,
           slots[place].dist < carry.dist,
           slots' = [slots EXCEPT ![place] = carry], hash' = hash
    PROVE  /\ SlotsInv' /\ Map!Capacity' = Map!Capacity /\ DOMAIN slots' = DOMAIN slots
           /\ place \in DOMAIN slots /\ slots'[place] = carry
           /\ \A i \in DOMAIN slots : i # place => slots'[i] = slots[i]
           /\ Occupied' = Occupied \cup {place}
<1> DEFINE C == Map!Capacity
           h == Map!Home(carry.key)
<1>1. /\ carry \in Entry /\ carry.key \in Keys /\ carry.dist \in 1 .. C /\ place \in DOMAIN slots
      /\ \A i \in Occupied : slots[i].key = carry.key => slots[place].dist >= carry.dist
  BY CarryFacts
<1>2. /\ C \in Nat /\ C > 0 /\ DOMAIN slots = 0 .. C - 1 /\ h \in Nat
      /\ \A i \in DOMAIN slots :
           /\ slots[i] \in Entry \cup {Map!Empty} /\ slots[i].dist \in Nat
           /\ (i \in Occupied <=> slots[i].dist # 0)
  BY <1>1, SlotFacts
<1>3. slots \in [DOMAIN slots -> Entry \cup {Map!Empty}]
  BY DEF SlotsInv
<1>4. /\ DOMAIN slots' = DOMAIN slots /\ slots'[place] = carry
      /\ \A i \in DOMAIN slots : i # place => slots'[i] = slots[i]
      /\ slots' \in [DOMAIN slots' -> Entry \cup {Map!Empty}]
  BY <1>1, <1>3
<1>5. Map!Capacity' = C /\ \A k : hash'[k] % Map!Capacity' = Map!Home(k)
  BY <1>4 DEF Map!Capacity, Map!Home
<1>6. Occupied' = Occupied \cup {place}
  BY <1>1, <1>4 DEF Occupied
<1>7. \A i \in Occupied' : (i = (Map!Home(slots[i].key) + slots[i].dist - 1) % Map!Capacity)'
  <2> SUFFICES ASSUME NEW i \in Occupied'
               PROVE  i = (Map!Home(slots'[i].key) + slots'[i].dist - 1) % C
    BY <1>5 DEF Map!Home
  <2>1. CASE i = place
    BY <1>4, <2>1 DEF CarryInv
  <2>2. CASE i # place
    <3>1. i \in Occupied /\ slots'[i] = slots[i]
      BY <1>4, <1>6, <2>2 DEF Occupied
    <3> QED
      BY <3>1 DEF SlotsInv
  <2> QED
    BY <2>1, <2>2
<1>8. \A i \in DOMAIN slots' : slots'[i].dist <= Map!Capacity'
  BY <1>1, <1>4, <1>5 DEF SlotsInv
<1>9. ASSUME NEW i \in DOMAIN slots' PROVE slots'[(i + 1) % Map!Capacity'].dist <= slots'[i].dist + 1
  <2> DEFINE n == (i + 1) % C
  <2>1. n \in DOMAIN slots
    <3>1. i + 1 \in Nat
      BY <1>2, <1>4
    <3> HIDE DEF C
    <3> QED
      BY <1>2, <3>1
  <2>2. slots[n].dist <= slots[i].dist + 1 /\ slots[n].dist \in Nat /\ slots[i].dist \in Nat
    BY <1>2, <1>4, <2>1 DEF SlotsInv
  <2>3. n = place => carry.dist <= slots[i].dist + 1
    BY <1>4 DEF CarryInv
  <2> HIDE DEF n
  <2>4. slots'[n].dist <= slots'[i].dist + 1
    <3>1. CASE n = place /\ i = place
      BY <1>1, <1>4, <3>1
    <3>2. CASE n = place /\ i # place
      BY <1>1, <1>4, <2>3, <3>2
    <3>3. CASE n # place /\ i = place
      BY <1>1, <1>2, <1>4, <2>1, <2>2, <3>3, SMTT(30)
    <3>4. CASE n # place /\ i # place
      BY <1>1, <1>2, <1>4, <2>1, <2>2, <3>4
    <3> QED
      BY <3>1, <3>2, <3>3, <3>4
  <2> QED
    BY <1>5, <2>4 DEF n
<1>10. ASSUME NEW i \in Occupied', NEW j \in Occupied', slots'[i].key = slots'[j].key PROVE i = j
  <2>1. \A x \in Occupied : slots[x].key # carry.key
    BY <1>1, <1>2
  <2>2. \A x, y \in Occupied : slots[x].key = slots[y].key => x = y
    BY DEF SlotsInv
  <2>3. \A x \in Occupied' : x # place => x \in Occupied /\ slots'[x] = slots[x]
    BY <1>4, <1>6 DEF Occupied
  <2>4. CASE i = place /\ j # place
    BY <1>4, <1>10, <2>1, <2>3, <2>4
  <2>5. CASE i # place /\ j = place
    BY <1>4, <1>10, <2>1, <2>3, <2>5
  <2>6. CASE i # place /\ j # place
    BY <1>10, <2>2, <2>3, <2>6
  <2> QED
    BY <2>4, <2>5, <2>6
<1>11. \E c \in Nat : c > 0 /\ DOMAIN slots' = 0 .. c - 1
  BY <1>2, <1>4
<1>12. SlotsInv'
  BY <1>4, <1>7, <1>8, <1>9, <1>10, <1>11 DEF SlotsInv
<1> QED
  BY <1>1, <1>4, <1>5, <1>6, <1>12

-----------------------------------------------------------------------------
(* A table without entries.                                                *)
LEMMA FreeSlotsFacts ==
    ASSUME NEW c \in Nat, c > 0
    PROVE  /\ DOMAIN Map!FreeSlots(c) = 0 .. c - 1 /\ Cardinality(0 .. c - 1) = c
           /\ Map!FreeSlots(c) \in [0 .. c - 1 -> Entry \cup {Map!Empty}]
           /\ \A i \in 0 .. c - 1 : Map!FreeSlots(c)[i] = Map!Empty /\ (i + 1) % c \in 0 .. c - 1
<1>1. Cardinality(0 .. c - 1) = c
  <2>1. Cardinality(0 .. c - 1) = IF 0 > c - 1 THEN 0 ELSE c - 1 - 0 + 1
    BY FS_Interval
  <2> QED
    BY <2>1
<1>2. ASSUME NEW i \in 0 .. c - 1 PROVE (i + 1) % c \in 0 .. c - 1
  <2>1. i + 1 \in Nat
    OBVIOUS
  <2> QED
    BY <2>1
<1> QED
  BY <1>1, <1>2 DEF Map!FreeSlots

(* It holds of the slots that the map begins with.                         *)
LEMMA MapInvInit ==
    ASSUME Map!MapInit
    PROVE  MapInv
<1>1. PICK n \in Requests : slots = Map!FreeSlots(Map!bitCeil[IF n = 0 THEN 1 ELSE n])
  BY DEF Map!MapInit, Map!FirstSlots
<1> DEFINE c == Map!bitCeil[IF n = 0 THEN 1 ELSE n]
<1>2. c \in Nat /\ c > 0
  BY MapAssumption, BitCeil, SameRounding
<1> HIDE DEF c
<1>3. /\ DOMAIN slots = 0 .. c - 1 /\ Cardinality(0 .. c - 1) = c
      /\ slots \in [0 .. c - 1 -> Entry \cup {Map!Empty}]
      /\ \A i \in 0 .. c - 1 : slots[i] = Map!Empty /\ (i + 1) % c \in 0 .. c - 1
  BY <1>1, <1>2, FreeSlotsFacts DEF c
<1>4. Map!Capacity = c /\ Occupied = {}
  BY <1>3, SameCounts DEF Map!Capacity, Occupied
<1>5. SlotsInv
  <2>1. \A i \in DOMAIN slots : slots[i].dist <= Map!Capacity
    BY <1>2, <1>3, <1>4 DEF Map!Empty
  <2>2. \A i \in DOMAIN slots : slots[(i + 1) % Map!Capacity].dist <= slots[i].dist + 1
    BY <1>3, <1>4 DEF Map!Empty
  <2> QED
    BY <1>2, <1>3, <1>4, <2>1, <2>2 DEF SlotsInv
<1>6. /\ queue = <<>> /\ carry = Map!Empty /\ last = Map!Empty /\ size = 0 /\ DOMAIN dict = {}
      /\ hash \in Hashes
  BY DEF Map!MapInit
<1>7. SizeInv
  BY <1>2, <1>4, <1>6, FS_EmptySet, EmptySeq DEF SizeInv
<1>8. ContentInv
  BY <1>3, <1>6, MapAssumption DEF ContentInv, Pending, Map!Empty
<1>9. MapTypeInv
  BY <1>6, EmptySeq DEF MapTypeInv
<1> QED
  BY <1>5, <1>6, <1>7, <1>8, <1>9 DEF MapInv, CarryInv, ResultInv

(* What a table that is not being changed holds.                           *)
LEMMA IdleFacts ==
    ASSUME MapInv, Map!Idle
    PROVE  /\ \A k \in Keys :
                /\ k \in DOMAIN dict <=> \E i \in DOMAIN slots : slots[i].key = k
                /\ \A i \in DOMAIN slots : slots[i].key = k => slots[i].value = dict[k]
           /\ size \in Nat /\ size = Cardinality(Occupied) /\ size <= Map!Capacity
           /\ Len(queue) = 0
<1>1. queue = <<>> /\ carry = Map!Empty /\ Map!Empty.key \notin Keys
  BY MapAssumption DEF Map!Idle, Map!Empty
<1>2. Len(queue) = 0 /\ \A k : Pending(k) = {}
  BY <1>1 DEF Pending
<1>3. \A k \in Keys : carry.key # k
  BY <1>1
<1>4. \A k \in Keys :
        /\ k \in DOMAIN dict <=> \E i \in DOMAIN slots : slots[i].key = k
        /\ \A i \in DOMAIN slots : slots[i].key = k => slots[i].value = dict[k]
  BY <1>2, <1>3 DEF ContentInv, MapInv
<1>5. size \in Nat /\ size = Cardinality(Occupied) /\ size <= Map!Capacity
  BY SlotFacts DEF MapInv, SizeInv
<1> QED
  BY <1>2, <1>4, <1>5

(* The old slots wait, and what is to follow after them.                   *)
LEMMA RehashFacts ==
    ASSUME MapInv, Map!Idle, NEW c \in Nat, c > 0, NEW then \in Seq(Entry \cup {Map!Empty}),
        Map!Rehash(c, then),
           hash' = hash, carry' = carry
    PROVE  /\ SlotsInv' /\ Map!Capacity' = c /\ Occupied' = {} /\ Cardinality({}) = 0
           /\ \A i \in DOMAIN slots' : slots'[i] = Map!Empty
           /\ queue' \in Seq(Entry \cup {Map!Empty}) /\ Len(queue') = Map!Capacity + Len(then)
           /\ DOMAIN queue' = 1 .. Map!Capacity + Len(then)
           /\ \A i \in DOMAIN queue' :
                queue'[i] = IF i <= Map!Capacity THEN slots[i - 1] ELSE then[i - Map!Capacity]
           /\ \A i \in DOMAIN slots : i + 1 \in DOMAIN queue' /\ queue'[i + 1] = slots[i]
<1> DEFINE C == Map!Capacity
           old == [i \in 1 .. C |-> slots[i - 1]]
<1>1. /\ C \in Nat /\ DOMAIN slots = 0 .. C - 1
      /\ \A i \in 0 .. C - 1 : slots[i] \in Entry \cup {Map!Empty}
  BY SlotFacts DEF MapInv
<1>2. slots' = Map!FreeSlots(c) /\ queue' = old \o then
  BY DEF Map!Rehash
<1>3. /\ DOMAIN slots' = 0 .. c - 1 /\ Cardinality(0 .. c - 1) = c
      /\ slots' \in [0 .. c - 1 -> Entry \cup {Map!Empty}]
      /\ \A i \in 0 .. c - 1 : slots'[i] = Map!Empty /\ (i + 1) % c \in 0 .. c - 1
  BY <1>2, FreeSlotsFacts
<1>4. Map!Capacity' = c /\ Occupied' = {}
  BY <1>3 DEF Map!Capacity, Occupied
<1>5. SlotsInv'
  <2>1. \A i \in DOMAIN slots' : slots'[i].dist <= Map!Capacity'
    BY <1>3, <1>4 DEF Map!Empty
  <2>2. \A i \in DOMAIN slots' : slots'[(i + 1) % Map!Capacity'].dist <= slots'[i].dist + 1
    BY <1>3, <1>4 DEF Map!Empty
  <2> QED
    BY <1>3, <1>4, <2>1, <2>2 DEF SlotsInv
<1> HIDE DEF C
<1>6. \A i \in 1 .. C : i - 1 \in 0 .. C - 1
  BY <1>1
<1>7. old \in [1 .. C -> Entry \cup {Map!Empty}]
  BY <1>1, <1>6
<1>8. old \in Seq(Entry \cup {Map!Empty}) /\ Len(old) = C
  <2> HIDE DEF old
  <2>1. old \in Seq(Entry \cup {Map!Empty}) /\ DOMAIN old = 1 .. C
    BY <1>1, <1>7
  <2>2. DOMAIN old = 1 .. Len(old) /\ Len(old) \in Nat
    BY <2>1, LenProperties
  <2> QED
    BY <1>1, <2>1, <2>2
<1>9. \A i \in 1 .. C : old[i] = slots[i - 1]
  OBVIOUS
<1> HIDE DEF old
<1>10. /\ queue' \in Seq(Entry \cup {Map!Empty}) /\ Len(queue') = C + Len(then)
       /\ \A i \in 1 .. C + Len(then) : queue'[i] = IF i <= C THEN old[i] ELSE then[i - C]
  BY <1>2, <1>8, ConcatProperties
<1>11. DOMAIN queue' = 1 .. C + Len(then) /\ Len(then) \in Nat
  BY <1>10, LenProperties
<1>12. ASSUME NEW i \in DOMAIN queue'
       PROVE  queue'[i] = IF i <= C THEN slots[i - 1] ELSE then[i - C]
  <2>1. i \in 1 .. C + Len(then) /\ i \in Nat /\ i >= 1
    BY <1>1, <1>11
  <2>2. CASE i <= C
    <3>1. i \in 1 .. C
      BY <1>1, <2>1, <2>2
    <3> QED
      BY <1>9, <1>10, <2>1, <2>2, <3>1
  <2>3. CASE ~(i <= C)
    BY <1>10, <2>1, <2>3
  <2> QED
    BY <2>2, <2>3
<1>13. \A i \in DOMAIN slots : i + 1 \in DOMAIN queue' /\ queue'[i + 1] = slots[i]
  BY <1>1, <1>11, <1>12
<1> QED
  BY <1>3, <1>4, <1>5, <1>10, <1>11, <1>12, <1>13, FS_EmptySet DEF C

(* An insertion that finds room queues the entry; one that fills the map   *)
(* to its limit makes it grow and queues its slots too.                    *)
LEMMA InsertKeeps ==
    ASSUME MapInv, NEW key \in Keys, NEW value \in Values, Map!Insert(key, value)
    PROVE  MapInv'
<1> DEFINE new == [key |-> key, value |-> value, dist |-> 1]
<1>1. /\ Map!Idle /\ hash' = hash /\ carry' = carry /\ last' = new
      /\ dict' = [k \in DOMAIN dict \cup {key} |-> IF k = key THEN value ELSE dict[k]]
      /\ IF 4 * size >= 3 * Map!Capacity THEN Map!Rehash(2 * Map!Capacity, <<last'>>)
         ELSE queue' = <<last'>> /\ UNCHANGED Map!table
  BY DEF Map!Insert, Map!Call
<1>2. new \in Entry /\ new # Map!Empty /\ new.key = key /\ new.value = value
  BY DEF Entry, Map!Empty
<1> HIDE DEF new
<1>3. /\ queue = <<>> /\ carry' = Map!Empty /\ Len(queue) = 0 /\ \A k \in Keys : carry'.key # k
      /\ size \in Nat /\ size = Cardinality(Occupied) /\ size <= Map!Capacity
      /\ \A k \in Keys :
           /\ k \in DOMAIN dict <=> \E i \in DOMAIN slots : slots[i].key = k
           /\ \A i \in DOMAIN slots : slots[i].key = k => slots[i].value = dict[k]
  BY <1>1, IdleFacts, MapAssumption DEF Map!Idle, Map!Empty
<1>4. Map!Capacity \in Nat /\ Map!Capacity > 0 /\ DOMAIN slots = 0 .. Map!Capacity - 1
  BY SlotFacts DEF MapInv
<1>5. /\ DOMAIN dict' = DOMAIN dict \cup {key} /\ DOMAIN dict' \subseteq Keys /\ dict'[key] = value
      /\ \A k \in DOMAIN dict : k # key => dict'[k] = dict[k]
  BY <1>1 DEF MapInv, MapTypeInv
<1>6. <<new>> \in Seq(Entry \cup {Map!Empty}) /\ Len(<<new>>) = 1 /\ <<new>>[1] = new
  BY <1>2
<1>7. CarryInv'
  BY <1>3 DEF CarryInv
<1>8. CASE 4 * size >= 3 * Map!Capacity
  <2>1. Map!Rehash(2 * Map!Capacity, <<new>>) /\ 2 * Map!Capacity \in Nat /\ 2 * Map!Capacity > 0
    BY <1>1, <1>4, <1>8
  <2>2. /\ SlotsInv' /\ Map!Capacity' = 2 * Map!Capacity /\ Occupied' = {} /\ Cardinality({}) = 0
        /\ \A i \in DOMAIN slots' : slots'[i] = Map!Empty
        /\ queue' \in Seq(Entry \cup {Map!Empty}) /\ Len(queue') = Map!Capacity + 1
        /\ DOMAIN queue' = 1 .. Map!Capacity + 1
        /\ \A i \in DOMAIN queue' :
             queue'[i] = IF i <= Map!Capacity THEN slots[i - 1] ELSE <<new>>[i - Map!Capacity]
        /\ \A i \in DOMAIN slots : i + 1 \in DOMAIN queue' /\ queue'[i + 1] = slots[i]
    BY <1>1, <1>6, <2>1, RehashFacts
  <2>3. MapTypeInv'
    BY <1>1, <1>2, <1>3, <1>5, <2>2 DEF MapInv, MapTypeInv
  <2>4. size' = 0
    BY <2>1 DEF Map!Rehash
  <2>5. SizeInv'
    BY <1>3, <1>4, <2>2, <2>4 DEF SizeInv
  <2>6. Map!Capacity + 1 \in DOMAIN queue' /\ queue'[Map!Capacity + 1] = new
    BY <1>4, <1>6, <2>2
  <2>7. ResultInv'
    <3>1. queue' # <<>>
      BY <1>4, <2>2
    <3> QED
      BY <1>1, <2>2, <2>6, <3>1 DEF ResultInv
  <2>8. ASSUME NEW i \in DOMAIN queue', i # Map!Capacity + 1
        PROVE  i - 1 \in DOMAIN slots /\ queue'[i] = slots[i - 1]
    BY <1>4, <2>2, <2>8
  <2>9. ASSUME NEW k \in Keys
        PROVE  /\ k \in DOMAIN dict' <=> Pending(k)' # {}
               /\ \A i \in Pending(k)' : (\A j \in Pending(k)' : j <= i) => queue'[i].value = dict'[k]
               /\ \A i \in DOMAIN slots' : slots'[i].key # k
    <3> DEFINE P == {i \in DOMAIN queue' : queue'[i].key = k}
    <3>1. Pending(k)' = P
      BY DEF Pending
    <3>2. \A i \in DOMAIN slots' : slots'[i].key # k
      BY <2>2, MapAssumption DEF Map!Empty
    <3>3. CASE k = key
      <4>1. Map!Capacity + 1 \in P
        BY <1>2, <2>6, <3>3
      <4>2. ASSUME NEW i \in P, \A j \in P : j <= i PROVE queue'[i].value = dict'[k]
        <5>1. i = Map!Capacity + 1
          BY <1>4, <2>2, <4>1, <4>2
        <5> QED
          BY <1>2, <1>5, <2>6, <3>3, <5>1
      <4> QED
        BY <1>5, <3>1, <3>2, <3>3, <4>1, <4>2
    <3>4. CASE k # key
      <4>1. ASSUME NEW i \in P
            PROVE  i - 1 \in DOMAIN slots /\ queue'[i] = slots[i - 1] /\ slots[i - 1].key = k
        BY <1>2, <2>6, <2>8, <3>4
      <4>2. \A i \in P : k \in DOMAIN dict /\ queue'[i].value = dict[k]
        BY <1>3, <4>1
      <4>3. k \in DOMAIN dict => P # {}
        BY <1>3, <2>2
      <4> QED
        BY <1>5, <3>1, <3>2, <3>4, <4>2, <4>3
    <3> QED
      BY <3>3, <3>4
  <2>10. ContentInv'
    BY <1>3, <2>9 DEF ContentInv
  <2> QED
    BY <1>7, <2>2, <2>3, <2>5, <2>7, <2>10 DEF MapInv
<1>9. CASE ~(4 * size >= 3 * Map!Capacity)
  <2>1. queue' = <<new>> /\ slots' = slots /\ size' = size
    BY <1>1, <1>9 DEF Map!table
  <2>2. SlotsInv' /\ Map!Capacity' = Map!Capacity /\ Occupied' = Occupied
    BY <1>1, <2>1 DEF MapInv, SlotsInv, Map!Capacity, Occupied, Map!Home
  <2>3. MapTypeInv'
    BY <1>1, <1>2, <1>3, <1>5, <1>6, <2>1 DEF MapInv, MapTypeInv
  <2>4. SizeInv'
    BY <1>3, <1>4, <1>6, <1>9, <2>1, <2>2 DEF SizeInv
  <2>5. ResultInv'
    BY <1>1, <1>6, <2>1 DEF ResultInv
  <2>6. ASSUME NEW k \in Keys
        PROVE  /\ k \in DOMAIN dict' <=> Pending(k)' # {} \/ \E i \in DOMAIN slots' : slots'[i].key = k
               /\ \A i \in Pending(k)' : (\A j \in Pending(k)' : j <= i) => queue'[i].value = dict'[k]
               /\ Pending(k)' = {} =>
                    \A i \in DOMAIN slots' : slots'[i].key = k => slots'[i].value = dict'[k]
    <3>1. Pending(k)' = IF k = key THEN {1} ELSE {}
      BY <1>2, <1>6, <2>1 DEF Pending
    <3> QED
      BY <1>2, <1>3, <1>5, <1>6, <2>1, <3>1
  <2>7. ContentInv'
    BY <1>3, <2>6 DEF ContentInv
  <2> QED
    BY <1>7, <2>2, <2>3, <2>4, <2>5, <2>7 DEF MapInv
<1> QED
  BY <1>8, <1>9

(* A request for room makes the map grow, or does nothing.                 *)
LEMMA ReserveKeeps ==
    ASSUME MapInv, NEW n \in Requests, Map!Reserve(n)
    PROVE  MapInv'
<1> DEFINE c == Map!bitCeil[(4 * n) \div 3 + 1]
<1>1. /\ Map!Idle /\ hash' = hash /\ carry' = carry /\ last' = Map!Empty /\ dict' = dict
      /\ IF c > Map!Capacity THEN Map!Rehash(c, <<>>) ELSE UNCHANGED <<Map!table, queue>>
  BY DEF Map!Reserve, Map!Call
<1>2. c \in Nat /\ c > 0
  <2>1. n \in Nat /\ (4 * n) \div 3 + 1 \in Nat
    BY MapAssumption
  <2> QED
    BY <2>1, BitCeil, SameRounding
<1> HIDE DEF c
<1>3. /\ queue = <<>> /\ carry' = Map!Empty /\ Len(queue) = 0 /\ \A k \in Keys : carry'.key # k
      /\ size \in Nat /\ size = Cardinality(Occupied) /\ size <= Map!Capacity
      /\ \A k \in Keys :
           /\ k \in DOMAIN dict <=> \E i \in DOMAIN slots : slots[i].key = k
           /\ \A i \in DOMAIN slots : slots[i].key = k => slots[i].value = dict[k]
  BY <1>1, IdleFacts, MapAssumption DEF Map!Idle, Map!Empty
<1>4. Map!Capacity \in Nat /\ Map!Capacity > 0 /\ DOMAIN slots = 0 .. Map!Capacity - 1
  BY SlotFacts DEF MapInv
<1>5. CarryInv' /\ ResultInv'
  BY <1>1, <1>3 DEF CarryInv, ResultInv
<1>6. CASE c > Map!Capacity
  <2>1. /\ SlotsInv' /\ Map!Capacity' = c /\ Occupied' = {} /\ Cardinality({}) = 0
        /\ \A i \in DOMAIN slots' : slots'[i] = Map!Empty
        /\ queue' \in Seq(Entry \cup {Map!Empty}) /\ Len(queue') = Map!Capacity
        /\ DOMAIN queue' = 1 .. Map!Capacity
        /\ \A i \in DOMAIN queue' : queue'[i] = slots[i - 1]
        /\ \A i \in DOMAIN slots : i + 1 \in DOMAIN queue' /\ queue'[i + 1] = slots[i]
    <3>1. <<>> \in Seq(Entry \cup {Map!Empty}) /\ Len(<<>>) = 0
      BY EmptySeq
    <3> QED
      BY <1>1, <1>2, <1>4, <1>6, <3>1, RehashFacts, SMTT(30)
  <2>2. MapTypeInv'
    BY <1>1, <1>3, <2>1 DEF MapInv, MapTypeInv
  <2>3. SizeInv'
    <3>1. size' = 0
      BY <1>1, <1>6 DEF Map!Rehash
    <3> QED
      BY <1>2, <1>3, <1>4, <1>6, <2>1, <3>1 DEF SizeInv
  <2>4. ASSUME NEW k \in Keys
        PROVE  /\ k \in DOMAIN dict' <=> Pending(k)' # {}
               /\ \A i \in Pending(k)' : queue'[i].value = dict'[k]
               /\ \A i \in DOMAIN slots' : slots'[i].key # k
    <3>1. \A i \in DOMAIN slots' : slots'[i].key # k
      BY <2>1, MapAssumption DEF Map!Empty
    <3>2. \A i \in DOMAIN queue' : i - 1 \in DOMAIN slots
      BY <1>4, <2>1
    <3> QED
      BY <1>1, <1>3, <2>1, <3>1, <3>2 DEF Pending
  <2>5. ContentInv'
    BY <1>3, <2>4 DEF ContentInv
  <2> QED
    BY <1>5, <2>1, <2>2, <2>3, <2>5 DEF MapInv
<1>7. CASE ~(c > Map!Capacity)
  <2>1. queue' = queue /\ slots' = slots /\ size' = size
    BY <1>1, <1>7 DEF Map!table
  <2>2. SlotsInv' /\ SizeInv' /\ ContentInv'
    BY <1>1, <2>1
       DEF MapInv, SlotsInv, SizeInv, ContentInv, Pending, Map!Capacity, Occupied, Map!Home
  <2>3. MapTypeInv'
    BY <1>1, <2>1 DEF MapInv, MapTypeInv
  <2> QED
    BY <1>5, <2>2, <2>3 DEF MapInv
<1> QED
  BY <1>6, <1>7

(* What waits after the first of the queue has been taken.                 *)
LEMMA TailFacts ==
    ASSUME MapTypeInv, queue # <<>>, queue' = Tail(queue)
    PROVE  /\ Len(queue) \in Nat /\ Len(queue) > 0 /\ DOMAIN queue = 1 .. Len(queue)
           /\ Head(queue) = queue[1] /\ Head(queue) \in Entry \cup {Map!Empty}
           /\ queue' \in Seq(Entry \cup {Map!Empty}) /\ Len(queue') = Len(queue) - 1
           /\ DOMAIN queue' = 1 .. Len(queue) - 1
           /\ \A i \in DOMAIN queue' : queue'[i] = queue[i + 1]
           /\ queue' # <<>> => queue'[Len(queue')] = queue[Len(queue)]
           /\ queue' = <<>> => Len(queue) = 1
           /\ \A k : /\ \A i \in Pending(k) : i = 1 \/ i - 1 \in Pending(k)'
                     /\ \A i \in Pending(k)' : i + 1 \in Pending(k) /\ i \in Nat /\ i > 0
<1> DEFINE E == Entry \cup {Map!Empty}
<1>1. queue \in Seq(E)
  BY DEF MapTypeInv
<1> HIDE DEF E
<1>2. /\ Head(queue) \in E /\ queue' \in Seq(E) /\ Len(queue') = Len(queue) - 1
      /\ \A i \in 1 .. Len(queue') : queue'[i] = queue[i + 1]
  BY <1>1, HeadTailProperties
<1>3. Len(queue) \in Nat /\ DOMAIN queue = 1 .. Len(queue) /\ DOMAIN queue' = 1 .. Len(queue')
  BY <1>1, <1>2, LenProperties
<1>4. Len(queue') \in Nat
  BY <1>2, LenProperties
<1>5. Len(queue) > 0
  BY <1>2, <1>3, <1>4
<1>6. queue' # <<>> => queue'[Len(queue')] = queue[Len(queue)]
  <2> SUFFICES ASSUME queue' # <<>> PROVE queue'[Len(queue')] = queue[Len(queue)]
    OBVIOUS
  <2>1. Len(queue') # 0
    BY <1>2, EmptySeq
  <2>2. Len(queue') \in 1 .. Len(queue') /\ Len(queue') + 1 = Len(queue)
    BY <1>2, <1>3, <1>4, <2>1
  <2> QED
    BY <1>2, <2>2
<1>7. queue' = <<>> => Len(queue) = 1
  <2> SUFFICES ASSUME queue' = <<>> PROVE Len(queue) = 1
    OBVIOUS
  <2>1. Len(queue') = 0 /\ Len(queue') = Len(queue) - 1 /\ Len(queue) \in Nat
    BY <1>2, <1>3, EmptySeq
  <2> QED
    BY ONLY <2>1
<1>8. Head(queue) = queue[1]
  OBVIOUS
<1>9. ASSUME NEW k, NEW i \in Pending(k), i # 1 PROVE i - 1 \in Pending(k)'
  <2>1. i \in 1 .. Len(queue) /\ queue[i].key = k
    BY <1>3 DEF Pending
  <2>2. i - 1 \in 1 .. Len(queue') /\ (i - 1) + 1 = i
    BY <1>2, <1>3, <1>9, <2>1
  <2>3. queue'[i - 1] = queue[i]
    BY <1>2, <2>2
  <2> QED
    BY <1>3, <2>1, <2>2, <2>3 DEF Pending
<1>10. ASSUME NEW k, NEW i \in Pending(k)' PROVE i + 1 \in Pending(k) /\ i \in Nat /\ i > 0
  <2>1. i \in 1 .. Len(queue') /\ queue'[i].key = k
    BY <1>3 DEF Pending
  <2>2. i + 1 \in 1 .. Len(queue) /\ queue[i + 1].key = k
    BY <1>2, <1>3, <2>1
  <2> QED
    BY <1>3, <2>1, <2>2 DEF Pending
<1> QED
  BY <1>2, <1>3, <1>5, <1>6, <1>7, <1>8, <1>9, <1>10 DEF E

(* A slot that was free is not entered again.                              *)
LEMMA SkipKeeps ==
    ASSUME MapInv, Map!Skip
    PROVE  MapInv'
<1>1. /\ carry = Map!Empty /\ queue # <<>> /\ queue' = Tail(queue) /\ Head(queue).dist = 0
      /\ UNCHANGED <<hash, slots, size, carry, place, result, dict, last>>
  BY DEF Map!Skip, Map!table
<1>2. /\ Len(queue) \in Nat /\ Len(queue) > 0 /\ DOMAIN queue = 1 .. Len(queue)
      /\ Head(queue) = queue[1] /\ Head(queue) \in Entry \cup {Map!Empty}
      /\ queue' \in Seq(Entry \cup {Map!Empty}) /\ Len(queue') = Len(queue) - 1
      /\ \A i \in DOMAIN queue' : queue'[i] = queue[i + 1]
      /\ queue' # <<>> => queue'[Len(queue')] = queue[Len(queue)]
      /\ queue' = <<>> => Len(queue) = 1
      /\ \A k : /\ \A i \in Pending(k) : i = 1 \/ i - 1 \in Pending(k)'
                /\ \A i \in Pending(k)' : i + 1 \in Pending(k) /\ i \in Nat /\ i > 0
  BY <1>1, TailFacts DEF MapInv
<1>3. Head(queue) = Map!Empty
  BY <1>1, <1>2 DEF Entry
<1>4. \A k \in Keys : 1 \notin Pending(k)
  BY <1>2, <1>3, MapAssumption DEF Pending, Map!Empty
<1>5. SlotsInv' /\ CarryInv' /\ Map!Capacity' = Map!Capacity /\ Occupied' = Occupied
  BY <1>1 DEF MapInv, SlotsInv, CarryInv, Map!Capacity, Occupied, Map!Home
<1>6. SizeInv'
  <2>1. Map!Capacity \in Nat /\ size \in Nat
    BY SlotFacts DEF MapInv, SizeInv
  <2> QED
    BY <1>1, <1>2, <1>5, <2>1 DEF MapInv, SizeInv
<1>7. MapTypeInv'
  BY <1>1, <1>2 DEF MapInv, MapTypeInv
<1>8. ResultInv'
  <2>1. last # Map!Empty => queue[Len(queue)] = last
    BY <1>1 DEF MapInv, ResultInv
  <2>2. last # Map!Empty => queue' # <<>>
    BY <1>2, <1>3, <2>1
  <2> QED
    BY <1>1, <1>2, <2>1, <2>2 DEF ResultInv
<1>9. ContentInv'
  <2> SUFFICES ASSUME NEW k \in Keys
               PROVE  /\ k \in DOMAIN dict <=> Pending(k)' # {} \/ carry.key = k
                                               \/ \E i \in DOMAIN slots : slots[i].key = k
                      /\ \A i \in Pending(k)' : (\A j \in Pending(k)' : j <= i)
                             => queue'[i].value = dict[k]
                      /\ Pending(k)' = {} =>
                           /\ carry.key = k => carry.value = dict[k]
                           /\ carry.key # k =>
                                \A i \in DOMAIN slots : slots[i].key = k => slots[i].value = dict[k]
    BY <1>1 DEF ContentInv
  <2>1. Pending(k)' = {} <=> Pending(k) = {}
    BY <1>2, <1>4
  <2>2. ASSUME NEW i \in Pending(k)', \A j \in Pending(k)' : j <= i PROVE queue'[i].value = dict[k]
    <3>1. i + 1 \in Pending(k) /\ i \in Nat /\ queue'[i] = queue[i + 1]
      BY <1>2 DEF Pending
    <3>2. ASSUME NEW j \in Pending(k) PROVE j <= i + 1
      <4>1. j - 1 \in Pending(k)' /\ j \in Nat
        BY <1>2, <1>4, SMTT(30) DEF Pending
      <4> QED
        BY <2>2, <3>1, <4>1
    <3> QED
      BY <3>1, <3>2 DEF MapInv, ContentInv
  <2> QED
    BY <2>1, <2>2 DEF MapInv, ContentInv
<1> QED
  BY <1>5, <1>6, <1>7, <1>8, <1>9 DEF MapInv

(* An entry is taken from the queue to the slot its hash names.            *)
LEMMA EnterKeeps ==
    ASSUME MapInv, Map!Enter
    PROVE  MapInv'
<1> DEFINE head == Head(queue)
<1>1. /\ carry = Map!Empty /\ queue # <<>> /\ queue' = Tail(queue) /\ head.dist # 0
      /\ carry' = [head EXCEPT !.dist = 1] /\ place' = Map!Home(head.key) /\ result' = Nothing
      /\ UNCHANGED <<hash, slots, size, dict, last>>
  BY DEF Map!Enter, Map!table
<1>2. /\ Len(queue) \in Nat /\ Len(queue) > 0 /\ DOMAIN queue = 1 .. Len(queue)
      /\ head = queue[1] /\ head \in Entry \cup {Map!Empty}
      /\ queue' \in Seq(Entry \cup {Map!Empty}) /\ Len(queue') = Len(queue) - 1
      /\ \A i \in DOMAIN queue' : queue'[i] = queue[i + 1]
      /\ queue' # <<>> => queue'[Len(queue')] = queue[Len(queue)]
      /\ queue' = <<>> => Len(queue) = 1
      /\ \A k : /\ \A i \in Pending(k) : i = 1 \/ i - 1 \in Pending(k)'
                /\ \A i \in Pending(k)' : i + 1 \in Pending(k) /\ i \in Nat /\ i > 0
  BY <1>1, TailFacts DEF MapInv
<1>3. /\ carry' \in Entry /\ carry'.key = head.key /\ carry'.value = head.value /\ carry'.dist = 1
      /\ head.key \in Keys /\ carry' # Map!Empty
  BY <1>1, <1>2 DEF Entry, Map!Empty
<1> HIDE DEF head
<1>4. \A k : 1 \in Pending(k) <=> head.key = k
  BY <1>2 DEF Pending
<1>5. SlotsInv' /\ Map!Capacity' = Map!Capacity /\ Occupied' = Occupied
  BY <1>1 DEF MapInv, SlotsInv, Map!Capacity, Occupied, Map!Home
<1>6. /\ Map!Capacity \in Nat /\ Map!Capacity > 0 /\ size \in Nat /\ DOMAIN slots = 0 .. Map!Capacity - 1
      /\ Map!Home(head.key) \in 0 .. Map!Capacity - 1
      /\ \A i \in DOMAIN slots : slots[i].dist \in Nat /\ (i \in Occupied <=> slots[i].dist # 0)
      /\ Occupied \subseteq DOMAIN slots
  BY <1>3, SlotFacts DEF MapInv, SizeInv, Occupied
<1>7. SizeInv'
  BY <1>1, <1>2, <1>3, <1>5, <1>6 DEF MapInv, SizeInv
<1>8. CarryInv'
  <2>1. place' = (Map!Home(head.key) + 1 - 1) % Map!Capacity
    <3> DEFINE h == Map!Home(head.key)
               C == Map!Capacity
    <3>1. h \in 0 .. C - 1 /\ C \in Nat /\ C > 0 /\ place' = h
      BY <1>1, <1>6
    <3> HIDE DEF h, C
    <3>2. h + 1 - 1 = h /\ h % C = h
      BY <3>1
    <3> QED
      BY <3>1, <3>2 DEF h, C
  <2>2. Map!Home(head.key) = hash'[carry'.key] % Map!Capacity'
    BY <1>1, <1>3, <1>5 DEF Map!Home
  <2>3. (place = (Map!Home(carry.key) + carry.dist - 1) % Map!Capacity)'
    <3>1. place' = ((hash'[carry'.key] % Map!Capacity') + carry'.dist - 1) % Map!Capacity'
      BY <1>3, <1>5, <2>1, <2>2
    <3> QED
      BY <3>1 DEF Map!Home
  <2>4. \A i \in DOMAIN slots : carry'.dist <= slots[i].dist + 1
    BY <1>3, <1>6
  <2>5. \A i \in Occupied : carry'.dist <= slots[i].dist
    BY <1>3, <1>6
  <2> QED
    BY <1>1, <1>5, <2>3, <2>4, <2>5 DEF CarryInv
<1>9. MapTypeInv'
  BY <1>1, <1>2, <1>3 DEF MapInv, MapTypeInv
<1>10. ResultInv'
  <2>1. last # Map!Empty => queue[Len(queue)] = last
    BY <1>1 DEF MapInv, ResultInv
  <2>2. last # Map!Empty /\ queue' = <<>> => IsLast(carry')
    BY <1>2, <1>3, <2>1 DEF IsLast
  <2> QED
    BY <1>1, <1>2, <1>3, <2>1, <2>2 DEF ResultInv, IsLast
<1>11. ContentInv'
  <2> SUFFICES ASSUME NEW k \in Keys
               PROVE  /\ k \in DOMAIN dict <=> Pending(k)' # {} \/ carry'.key = k
                                               \/ \E i \in DOMAIN slots : slots[i].key = k
                      /\ \A i \in Pending(k)' : (\A j \in Pending(k)' : j <= i)
                             => queue'[i].value = dict[k]
                      /\ Pending(k)' = {} =>
                           /\ carry'.key = k => carry'.value = dict[k]
                           /\ carry'.key # k =>
                                \A i \in DOMAIN slots : slots[i].key = k => slots[i].value = dict[k]
    BY <1>1, ZenonT(30) DEF ContentInv
  <2>0. carry.key # k
    BY <1>1, MapAssumption DEF Map!Empty
  <2>1. Pending(k) # {} <=> Pending(k)' # {} \/ carry'.key = k
    BY <1>2, <1>3, <1>4
  <2>2. ASSUME NEW i \in Pending(k)', \A j \in Pending(k)' : j <= i PROVE queue'[i].value = dict[k]
    <3>1. i + 1 \in Pending(k) /\ i \in Nat /\ i > 0 /\ queue'[i] = queue[i + 1]
      BY <1>2 DEF Pending
    <3>2. ASSUME NEW j \in Pending(k) PROVE j <= i + 1
      <4>1. j = 1 \/ (j - 1 \in Pending(k)' /\ j \in Nat)
        BY <1>2, SMTT(30) DEF Pending
      <4> QED
        BY <2>2, <3>1, <4>1
    <3> QED
      BY <3>1, <3>2 DEF MapInv, ContentInv
  <2>3. ASSUME Pending(k)' = {}, carry'.key = k PROVE carry'.value = dict[k]
    <3>1. 1 \in Pending(k) /\ \A j \in Pending(k) : j = 1
      BY <1>2, <1>3, <1>4, <2>3
    <3>2. queue[1].value = dict[k]
      BY <3>1 DEF MapInv, ContentInv
    <3> QED
      BY <1>2, <1>3, <3>2
  <2>4. ASSUME Pending(k)' = {}, carry'.key # k
        PROVE  \A i \in DOMAIN slots : slots[i].key = k => slots[i].value = dict[k]
    <3>1. Pending(k) = {}
      BY <2>1, <2>4
    <3> QED
      BY <2>0, <3>1 DEF MapInv, ContentInv
  <2>5. k \in DOMAIN dict <=> Pending(k) # {} \/ carry.key = k
                              \/ \E i \in DOMAIN slots : slots[i].key = k
    BY DEF MapInv, ContentInv
  <2> QED
    BY <2>0, <2>1, <2>2, <2>3, <2>4, <2>5
<1> QED
  BY <1>5, <1>7, <1>8, <1>9, <1>10, <1>11 DEF MapInv

(* The slot with the entry of this call is behind the one that is looked   *)
(* at, and all slots between them are taken.                               *)
LEMMA ResultStands ==
    ASSUME MapInv, carry # Map!Empty, queue = <<>>, last # Map!Empty
    PROVE  \/ result = Nothing /\ IsLast(carry)
           \/ /\ result # Nothing /\ result # place
              /\ result \in DOMAIN slots /\ IsLast(slots[result])
              /\ \E m \in Nat :
                    /\ m > 0 /\ m < Map!Capacity /\ place = (result + m) % Map!Capacity
                    /\ \A e \in 0 .. m - 1 : slots[(result + e) % Map!Capacity] # Map!Empty
<1> DEFINE C == Map!Capacity
<1>1. (result = Nothing /\ IsLast(carry)) \/ Placed
  BY DEF MapInv, ResultInv
<1>2. SUFFICES ASSUME Placed
               PROVE  /\ result # Nothing /\ result # place
                      /\ result \in DOMAIN slots /\ IsLast(slots[result])
                      /\ \E m \in Nat :
                            /\ m > 0 /\ m < C /\ place = (result + m) % C
                            /\ \A e \in 0 .. m - 1 : slots[(result + e) % C] # Map!Empty
  BY <1>1
<1>3. C \in Nat /\ C > 0 /\ DOMAIN slots = 0 .. C - 1
  BY SlotFacts DEF MapInv
<1>4. result \in 0 .. C - 1 /\ result # Nothing /\ IsLast(slots[result])
  BY <1>2, <1>3, MapAssumption DEF Placed
<1>5. PICK m \in 1 .. C : /\ place = (result + m) % C
                          /\ \A e \in 0 .. m - 1 : slots[(result + e) % C] # Map!Empty
  BY <1>2 DEF Placed
<1>6. PICK f \in 0 .. C - 1 : slots[f] = Map!Empty
  <2>1. \E f \in DOMAIN slots : slots[f].dist = 0
    BY FreeSlot DEF MapInv
  <2>2. \A f \in DOMAIN slots : slots[f] # Map!Empty <=> slots[f].dist # 0
    BY SlotFacts DEF MapInv, Occupied
  <2> QED
    BY <1>3, <2>1, <2>2
<1> HIDE DEF C
<1>7. m # C
  <2> SUFFICES ASSUME m = C PROVE FALSE
    OBVIOUS
  <2>0. result \in Nat /\ \A j \in 0 .. C - 1 : \E d \in 0 .. C - 1 : (result + d) % C = j
    <3>1. result \in Nat
      BY <1>3, <1>4
    <3> QED
      BY ONLY <1>3, <3>1, RoundTheRing
  <2>1. PICK e \in 0 .. C - 1 : (result + e) % C = f
    BY <2>0
  <2> QED
    BY <1>5, <1>6, <2>1
<1>8. m \in Nat /\ m > 0 /\ m < C
  BY <1>3, <1>7
<1>9. result # place
  <2> SUFFICES ASSUME result = place PROVE FALSE
    OBVIOUS
  <2>1. result % C = result
    BY <1>3, <1>4
  <2>2. result + 1 - 1 = result /\ result + (m + 1) - 1 = result + m
    BY <1>3, <1>4, <1>8
  <2>3. (result + 1 - 1) % C = (result + (m + 1) - 1) % C
    BY <1>5, <2>1, <2>2
  <2>4. 1 \in 1 .. C /\ m + 1 \in 1 .. C /\ result \in Nat
    BY <1>3, <1>4, <1>8
  <2>5. 1 = m + 1
    BY ONLY <1>3, <2>3, <2>4, SameSlot
  <2> QED
    BY <1>8, <2>5
<1> QED
  BY <1>3, <1>4, <1>5, <1>8, <1>9

(* The slot that is looked at, as the entry that is carried goes on.       *)
LEMMA StepOn ==
    ASSUME MapInv, carry # Map!Empty
    PROVE  /\ (place + 1) % Map!Capacity \in DOMAIN slots
           /\ (place + 1) % Map!Capacity = (Map!Home(carry.key) + (carry.dist + 1) - 1) % Map!Capacity
           /\ \A i \in DOMAIN slots : (i + 1) % Map!Capacity = (place + 1) % Map!Capacity => i = place
           /\ \A m \in Nat, r \in DOMAIN slots :
                place = (r + m) % Map!Capacity
                    => (place + 1) % Map!Capacity = (r + (m + 1)) % Map!Capacity
           /\ (place + 0) % Map!Capacity = place
<1> DEFINE C == Map!Capacity
           h == Map!Home(carry.key)
           d == carry.dist
<1>1. d \in Nat /\ d > 0 /\ carry.key \in Keys /\ place \in DOMAIN slots
  BY CarryFacts, SlotFacts DEF MapInv
<1>2. C \in Nat /\ C > 0 /\ DOMAIN slots = 0 .. C - 1 /\ h \in Nat
  BY <1>1, SlotFacts DEF MapInv
<1>3. place = (h + d - 1) % C
  BY DEF MapInv, CarryInv
<1> HIDE DEF C, h, d
<1>4. (place + 1) % C \in 0 .. C - 1
  <2>1. place + 1 \in Nat
    BY <1>1, <1>2
  <2> QED
    BY <1>2, <2>1
<1>5. (place + 1) % C = (h + (d + 1) - 1) % C
  <2> DEFINE a == h + d - 1
  <2>1. a \in Nat /\ a + 1 = h + (d + 1) - 1
    BY <1>1, <1>2
  <2> HIDE DEF a
  <2>2. ((a % C) + 1) % C = (a + 1) % C
    BY <1>2, <2>1, NextCell
  <2> QED
    BY <1>3, <2>1, <2>2 DEF a
<1>6. ASSUME NEW m \in Nat, NEW r \in DOMAIN slots, place = (r + m) % C
      PROVE  (place + 1) % C = (r + (m + 1)) % C
  <2> DEFINE a == r + m
  <2>1. a \in Nat /\ a + 1 = r + (m + 1)
    BY <1>2
  <2> HIDE DEF a
  <2>2. ((a % C) + 1) % C = (a + 1) % C
    BY <1>2, <2>1, NextCell
  <2> QED
    BY <1>6, <2>1, <2>2 DEF a
<1>7. ASSUME NEW i \in DOMAIN slots, (i + 1) % C = (place + 1) % C PROVE i = place
  <2> SUFFICES ASSUME i # place PROVE FALSE
    OBVIOUS
  <2>1. C > 1
    BY <1>1, <1>2
  <2>2. \A p, q \in Nat : p < q /\ q < p + C => p % C # q % C
    BY <1>2, <2>1, Laps
  <2>3. i \in 0 .. C - 1 /\ place \in 0 .. C - 1
    BY <1>1, <1>2
  <2>4. CASE i < place
    <3>1. i + 1 \in Nat /\ place + 1 \in Nat /\ i + 1 < place + 1 /\ place + 1 < (i + 1) + C
      BY <1>2, <2>3, <2>4
    <3> QED
      BY <1>7, <2>2, <3>1
  <2>5. CASE place < i
    <3>1. i + 1 \in Nat /\ place + 1 \in Nat /\ place + 1 < i + 1 /\ i + 1 < (place + 1) + C
      BY <1>2, <2>3, <2>5
    <3> QED
      BY <1>7, <2>2, <3>1
  <2> QED
    BY <1>2, <2>3, <2>4, <2>5
<1>8. (place + 0) % C = place
  BY <1>1, <1>2
<1> QED
  BY <1>2, <1>4, <1>5, <1>6, <1>7, <1>8 DEF C, h, d

(* The first free slot takes the entry: no other has its key.              *)
LEMMA StoreKeeps ==
    ASSUME MapInv, Map!Store
    PROVE  MapInv'
<1>1. /\ carry # Map!Empty /\ slots[place].dist = 0 /\ slots' = [slots EXCEPT ![place] = carry]
      /\ size' = size + 1 /\ result' = Map!Found /\ carry' = Map!Empty
      /\ UNCHANGED <<hash, queue, dict, last>>
  BY DEF Map!Store
<1>2. carry \in Entry /\ carry.key \in Keys /\ carry.dist \in 1 .. Map!Capacity
  BY <1>1, CarryFacts DEF MapInv
<1>3. slots[place].dist < carry.dist
  BY <1>1, <1>2
<1>4. /\ SlotsInv' /\ Map!Capacity' = Map!Capacity /\ DOMAIN slots' = DOMAIN slots
      /\ place \in DOMAIN slots /\ slots'[place] = carry
      /\ \A i \in DOMAIN slots : i # place => slots'[i] = slots[i]
      /\ Occupied' = Occupied \cup {place}
  BY <1>1, <1>3, PutKeeps DEF MapInv
<1>5. /\ IsFiniteSet(Occupied) /\ Cardinality(Occupied) \in Nat /\ place \notin Occupied
      /\ Map!Capacity \in Nat /\ DOMAIN slots = 0 .. Map!Capacity - 1
  BY <1>1, <1>4, SlotFacts DEF MapInv
<1>6. \A k \in Keys : carry'.key # k /\ slots[place].key # k
  BY <1>1, <1>4, <1>5, SlotFacts, MapAssumption DEF MapInv, Map!Empty
<1>7. SizeInv'
  <2>1. Cardinality(Occupied') = Cardinality(Occupied) + 1
    BY <1>4, <1>5, FS_AddElement
  <2>2. Len(queue) \in Nat
    BY LenProperties DEF MapInv, MapTypeInv
  <2> QED
    BY <1>1, <1>4, <1>5, <2>1, <2>2 DEF MapInv, SizeInv
<1>8. MapTypeInv' /\ CarryInv'
  BY <1>1 DEF MapInv, MapTypeInv, CarryInv
<1>9. ResultInv'
  <2> SUFFICES ASSUME last # Map!Empty, queue = <<>> PROVE Placed'
    BY <1>1 DEF MapInv, ResultInv
  <2>1. CASE result = Nothing /\ IsLast(carry)
    <3>1. result' = place
      BY <1>1, <2>1 DEF Map!Found
    <3>2. slots'[result'].key = last'.key /\ slots'[result'].value = last'.value
      BY <1>1, <1>4, <2>1, <3>1 DEF IsLast
    <3> QED
      BY <1>1, <1>4, <3>1, <3>2 DEF Placed, IsLast
  <2>2. CASE result # Nothing /\ result # place /\ result \in DOMAIN slots /\ IsLast(slots[result])
    <3>1. result' = result
      BY <1>1, <2>2 DEF Map!Found
    <3>2. slots'[result'].key = last'.key /\ slots'[result'].value = last'.value
      BY <1>1, <1>4, <2>2, <3>1 DEF IsLast
    <3> QED
      BY <1>1, <1>4, <2>2, <3>1, <3>2 DEF Placed, IsLast
  <2> QED
    BY <1>1, <2>1, <2>2, ResultStands
<1>10. ContentInv'
  <2> SUFFICES ASSUME NEW k \in Keys
               PROVE  /\ k \in DOMAIN dict
                           <=> Pending(k) # {} \/ \E i \in DOMAIN slots' : slots'[i].key = k
                      /\ \A i \in Pending(k) : (\A j \in Pending(k) : j <= i) => queue[i].value = dict[k]
                      /\ Pending(k) = {} =>
                           \A i \in DOMAIN slots' : slots'[i].key = k => slots'[i].value = dict[k]
    BY <1>1, <1>6 DEF ContentInv, Pending
  <2>1. /\ k \in DOMAIN dict <=> Pending(k) # {} \/ carry.key = k
                                 \/ \E i \in DOMAIN slots : slots[i].key = k
        /\ \A i \in Pending(k) : (\A j \in Pending(k) : j <= i) => queue[i].value = dict[k]
        /\ Pending(k) = {} =>
             /\ carry.key = k => carry.value = dict[k]
             /\ carry.key # k =>
                  \A i \in DOMAIN slots : slots[i].key = k => slots[i].value = dict[k]
    BY DEF MapInv, ContentInv
  <2>2. (\E i \in DOMAIN slots' : slots'[i].key = k)
        <=> carry.key = k \/ \E i \in DOMAIN slots : slots[i].key = k
    BY <1>4, <1>6
  <2>3. ASSUME Pending(k) = {}, NEW i \in DOMAIN slots', slots'[i].key = k
        PROVE  slots'[i].value = dict[k]
    <3>1. CASE i = place
      BY <1>4, <2>1, <2>3, <3>1
    <3>2. CASE i # place
      <4>1. slots'[i] = slots[i] /\ slots[i].key = k /\ i \in Occupied
        BY <1>4, <2>3, <3>2, SlotFacts DEF MapInv
      <4>2. i \in Occupied' /\ place \in Occupied' /\ slots'[place] = carry
        BY <1>4, <4>1
      <4>3. carry.key # k
        BY <1>4, <2>3, <3>2, <4>2 DEF SlotsInv
      <4> QED
        BY <1>4, <2>1, <2>3, <4>1, <4>3
    <3> QED
      BY <3>1, <3>2
  <2> QED
    BY <2>1, <2>2, <2>3
<1> QED
  BY <1>4, <1>7, <1>8, <1>9, <1>10 DEF MapInv

(* A slot with the entry's key takes its value.                            *)
LEMMA OverwriteKeeps ==
    ASSUME MapInv, Map!Overwrite
    PROVE  MapInv'
<1>1. /\ carry # Map!Empty /\ slots[place].dist # 0 /\ slots[place].key = carry.key
      /\ slots' = [slots EXCEPT ![place].value = carry.value]
      /\ result' = Map!Found /\ carry' = Map!Empty
      /\ UNCHANGED <<hash, size, queue, dict, last>>
  BY DEF Map!Overwrite
<1>2. carry \in Entry /\ carry.key \in Keys /\ place \in DOMAIN slots
  BY <1>1, CarryFacts DEF MapInv
<1>3. /\ slots \in [DOMAIN slots -> Entry \cup {Map!Empty}]
      /\ Map!Capacity \in Nat /\ Map!Capacity > 0 /\ DOMAIN slots = 0 .. Map!Capacity - 1
      /\ slots[place] \in Entry
      /\ \A i \in DOMAIN slots : i \in Occupied <=> slots[i].dist # 0
  BY <1>1, <1>2, SlotFacts, SMTT(30) DEF MapInv, SlotsInv, Map!Empty
<1>4. slots' = [slots EXCEPT ![place] = [slots[place] EXCEPT !.value = carry.value]]
  BY <1>1
<1>5. /\ [slots[place] EXCEPT !.value = carry.value] \in Entry
      /\ [slots[place] EXCEPT !.value = carry.value].key = slots[place].key
      /\ [slots[place] EXCEPT !.value = carry.value].dist = slots[place].dist
      /\ [slots[place] EXCEPT !.value = carry.value].value = carry.value
  BY <1>2, <1>3 DEF Entry
<1>6. /\ DOMAIN slots' = DOMAIN slots /\ slots'[place] \in Entry
      /\ slots'[place].key = slots[place].key /\ slots'[place].dist = slots[place].dist
      /\ slots'[place].value = carry.value
      /\ \A i \in DOMAIN slots : i # place => slots'[i] = slots[i]
      /\ slots' \in [DOMAIN slots' -> Entry \cup {Map!Empty}]
  BY <1>2, <1>3, <1>4, <1>5
<1>7. \A i \in DOMAIN slots : slots'[i].key = slots[i].key /\ slots'[i].dist = slots[i].dist
  BY <1>6
<1>8. Map!Capacity' = Map!Capacity /\ Occupied' = Occupied
  <2>1. slots'[place] # Map!Empty /\ slots[place] # Map!Empty
    BY <1>3, <1>6 DEF Entry, Map!Empty
  <2> QED
    BY <1>2, <1>6, <2>1 DEF Map!Capacity, Occupied
<1>9. SlotsInv'
  <2>1. \A i \in Occupied' : (i = (Map!Home(slots[i].key) + slots[i].dist - 1) % Map!Capacity)'
    <3> SUFFICES ASSUME NEW i \in Occupied
                 PROVE  i = (Map!Home(slots'[i].key) + slots'[i].dist - 1) % Map!Capacity
      BY <1>1, <1>8 DEF Map!Home
    <3>1. i = (Map!Home(slots[i].key) + slots[i].dist - 1) % Map!Capacity /\ i \in DOMAIN slots
      BY DEF MapInv, SlotsInv, Occupied
    <3> QED
      BY <1>7, <3>1
  <2>2. \A i \in DOMAIN slots' : slots'[i].dist <= Map!Capacity'
    BY <1>6, <1>7, <1>8 DEF MapInv, SlotsInv
  <2>3. \A i \in DOMAIN slots' : slots'[(i + 1) % Map!Capacity'].dist <= slots'[i].dist + 1
    <3>1. \A i \in DOMAIN slots : (i + 1) % Map!Capacity \in DOMAIN slots
      <4> TAKE i \in DOMAIN slots
      <4>1. i + 1 \in Nat
        BY <1>3
      <4> QED
        BY <1>3, <4>1
    <3> QED
      BY <1>6, <1>7, <1>8, <3>1 DEF MapInv, SlotsInv
  <2>4. \A i, j \in Occupied' : slots'[i].key = slots'[j].key => i = j
    BY <1>7, <1>8 DEF MapInv, SlotsInv, Occupied
  <2>5. \E c \in Nat : c > 0 /\ DOMAIN slots' = 0 .. c - 1
    BY <1>3, <1>6
  <2> QED
    BY <1>6, <2>1, <2>2, <2>3, <2>4, <2>5 DEF SlotsInv
<1>10. SizeInv' /\ MapTypeInv' /\ CarryInv'
  <2>1. Len(queue) \in Nat /\ size \in Nat
    BY SlotFacts, LenProperties DEF MapInv, MapTypeInv, SizeInv
  <2> QED
    BY <1>1, <1>3, <1>8, <2>1 DEF MapInv, MapTypeInv, SizeInv, CarryInv
<1>11. ResultInv'
  <2> SUFFICES ASSUME last # Map!Empty, queue = <<>> PROVE Placed'
    BY <1>1 DEF MapInv, ResultInv
  <2>1. CASE result = Nothing /\ IsLast(carry)
    <3>1. result' = place
      BY <1>1, <2>1 DEF Map!Found
    <3>2. slots'[result'].key = last'.key /\ slots'[result'].value = last'.value
      BY <1>1, <1>6, <2>1, <3>1 DEF IsLast
    <3> QED
      BY <1>1, <1>2, <1>6, <3>1, <3>2 DEF Placed, IsLast
  <2>2. CASE result # Nothing /\ result # place /\ result \in DOMAIN slots /\ IsLast(slots[result])
    <3>1. result' = result
      BY <1>1, <2>2 DEF Map!Found
    <3>2. slots'[result'].key = last'.key /\ slots'[result'].value = last'.value
      BY <1>1, <1>6, <2>2, <3>1 DEF IsLast
    <3> QED
      BY <1>1, <1>6, <2>2, <3>1, <3>2 DEF Placed, IsLast
  <2> QED
    BY <1>1, <2>1, <2>2, ResultStands
<1>12. ContentInv'
  <2> SUFFICES ASSUME NEW k \in Keys
               PROVE  /\ k \in DOMAIN dict
                           <=> Pending(k) # {} \/ \E i \in DOMAIN slots' : slots'[i].key = k
                      /\ \A i \in Pending(k) : (\A j \in Pending(k) : j <= i) => queue[i].value = dict[k]
                      /\ Pending(k) = {} =>
                           \A i \in DOMAIN slots' : slots'[i].key = k => slots'[i].value = dict[k]
    <3>1. \A k \in Keys : carry'.key # k
      BY <1>1, MapAssumption DEF Map!Empty
    <3> QED
      BY <1>1, <3>1 DEF ContentInv, Pending
  <2>1. /\ k \in DOMAIN dict <=> Pending(k) # {} \/ carry.key = k
                                 \/ \E i \in DOMAIN slots : slots[i].key = k
        /\ \A i \in Pending(k) : (\A j \in Pending(k) : j <= i) => queue[i].value = dict[k]
        /\ Pending(k) = {} =>
             /\ carry.key = k => carry.value = dict[k]
             /\ carry.key # k =>
                  \A i \in DOMAIN slots : slots[i].key = k => slots[i].value = dict[k]
    BY DEF MapInv, ContentInv
  <2>2. (\E i \in DOMAIN slots' : slots'[i].key = k)
        <=> carry.key = k \/ \E i \in DOMAIN slots : slots[i].key = k
    BY <1>1, <1>2, <1>6, <1>7
  <2>3. ASSUME Pending(k) = {}, NEW i \in DOMAIN slots', slots'[i].key = k
        PROVE  slots'[i].value = dict[k]
    <3>1. CASE i = place
      BY <1>1, <1>6, <2>1, <2>3, <3>1
    <3>2. CASE i # place
      <4>1. slots'[i] = slots[i] /\ slots[i].key = k /\ i \in Occupied /\ place \in Occupied
        BY <1>1, <1>2, <1>3, <1>6, <2>3, <3>2, SlotFacts DEF MapInv
      <4>2. carry.key # k
        BY <1>1, <3>2, <4>1 DEF MapInv, SlotsInv
      <4> QED
        BY <1>6, <2>1, <2>3, <4>1, <4>2
    <3> QED
      BY <3>1, <3>2
  <2> QED
    BY <2>1, <2>2, <2>3
<1> QED
  BY <1>9, <1>10, <1>11, <1>12 DEF MapInv

(* An entry nearer to its home gives up its slot, and is carried on.       *)
LEMMA SwapKeeps ==
    ASSUME MapInv, Map!Swap
    PROVE  MapInv'
<1> DEFINE old == slots[place]
<1>1. /\ carry # Map!Empty /\ old.dist # 0 /\ old.key # carry.key /\ carry.dist > old.dist
      /\ slots' = [slots EXCEPT ![place] = carry] /\ carry' = [old EXCEPT !.dist = @ + 1]
      /\ result' = Map!Found /\ place' = (place + 1) % Map!Capacity
      /\ UNCHANGED <<hash, size, queue, dict, last>>
  BY DEF Map!Swap, Map!OtherEntry, Map!Advance
<1>2. /\ carry \in Entry /\ carry.key \in Keys /\ carry.dist \in 1 .. Map!Capacity
      /\ place \in DOMAIN slots
      /\ \A i \in DOMAIN slots : /\ slots[i] \in Entry \cup {Map!Empty} /\ slots[i].dist \in Nat
                                 /\ i \in Occupied <=> slots[i].dist # 0
                                 /\ i \in Occupied <=> slots[i].key \in Keys
      /\ Map!Capacity \in Nat /\ Map!Capacity > 0 /\ DOMAIN slots = 0 .. Map!Capacity - 1
  BY <1>1, CarryFacts, SlotFacts DEF MapInv
<1>3. old.dist < carry.dist
  BY <1>1, <1>2
<1>4. /\ SlotsInv' /\ Map!Capacity' = Map!Capacity /\ DOMAIN slots' = DOMAIN slots
      /\ slots'[place] = carry
      /\ \A i \in DOMAIN slots : i # place => slots'[i] = slots[i]
      /\ Occupied' = Occupied \cup {place}
  BY <1>1, <1>3, PutKeeps DEF MapInv
<1>5. Occupied' = Occupied /\ place \in Occupied /\ old \in Entry
  BY <1>1, <1>2, <1>4 DEF Map!Empty
<1>6. /\ carry' \in Entry /\ carry'.key = old.key /\ carry'.value = old.value
      /\ carry'.dist = old.dist + 1 /\ carry' # Map!Empty
  BY <1>1, <1>5 DEF Entry, Map!Empty
<1> HIDE DEF old
<1>7. SizeInv'
  BY <1>1, <1>4, <1>5, <1>6 DEF MapInv, SizeInv
<1>8. MapTypeInv'
  BY <1>1, <1>6 DEF MapInv, MapTypeInv
<1>9. /\ (place + 1) % Map!Capacity \in DOMAIN slots
      /\ \A i \in DOMAIN slots : (i + 1) % Map!Capacity = (place + 1) % Map!Capacity => i = place
      /\ \A m \in Nat, r \in DOMAIN slots :
           place = (r + m) % Map!Capacity => (place + 1) % Map!Capacity = (r + (m + 1)) % Map!Capacity
      /\ (place + 0) % Map!Capacity = place
  BY <1>1, StepOn DEF MapInv
<1>10. \A i \in Occupied : i # place => slots[i].key # old.key
  BY <1>5 DEF MapInv, SlotsInv, old
<1>11. CarryInv'
  <2>1. place' = (Map!Home(old.key) + (old.dist + 1) - 1) % Map!Capacity
    <3> DEFINE C == Map!Capacity
               h == Map!Home(old.key)
               d == old.dist
               a == h + d - 1
    <3>1. place = a % C
      BY <1>5 DEF MapInv, SlotsInv, old
    <3>2. C \in Nat /\ C > 0 /\ d \in Nat /\ d > 0 /\ h \in Nat
      BY <1>2, <1>5, SlotFacts DEF MapInv, Entry
    <3> HIDE DEF C, h, d
    <3>3. a \in Nat /\ a + 1 = h + (d + 1) - 1
      BY <3>2
    <3> HIDE DEF a
    <3>4. ((a % C) + 1) % C = (a + 1) % C
      BY <3>2, <3>3, NextCell
    <3> QED
      BY <1>1, <3>1, <3>3, <3>4 DEF C, h, d
  <2>2. (place = (Map!Home(carry.key) + carry.dist - 1) % Map!Capacity)'
    <3>1. place' = ((hash'[carry'.key] % Map!Capacity') + carry'.dist - 1) % Map!Capacity'
      BY <1>1, <1>4, <1>6, <2>1 DEF Map!Home
    <3> QED
      BY <3>1 DEF Map!Home
  <2>3. ASSUME NEW i \in DOMAIN slots, (i + 1) % Map!Capacity = place'
            PROVE carry'.dist <= slots'[i].dist + 1
    <3>1. i = place
      BY <1>1, <1>9, <2>3
    <3> QED
      BY <1>2, <1>3, <1>4, <1>5, <1>6, <3>1 DEF Entry
  <2>4. ASSUME NEW i \in Occupied, slots'[i].key = carry'.key PROVE carry'.dist <= slots'[i].dist
    <3>1. CASE i = place
      BY <1>1, <1>4, <1>6, <2>4, <3>1 DEF old
    <3>2. CASE i # place
      <4>1. i \in DOMAIN slots
        BY DEF Occupied
      <4>2. slots'[i] = slots[i]
        BY <1>4, <3>2, <4>1
      <4> QED
        BY <1>6, <1>10, <2>4, <3>2, <4>2
    <3> QED
      BY <3>1, <3>2
  <2> QED
    BY <1>4, <1>5, <2>2, <2>3, <2>4 DEF CarryInv
<1>12. ResultInv'
  <2> SUFFICES ASSUME last # Map!Empty, queue = <<>> PROVE Placed'
    BY <1>1 DEF MapInv, ResultInv
  <2>1. CASE result = Nothing /\ IsLast(carry)
    <3>1. result' = place
      BY <1>1, <2>1 DEF Map!Found
    <3>2. slots'[result'].key = last'.key /\ slots'[result'].value = last'.value
      BY <1>1, <1>4, <2>1, <3>1 DEF IsLast
    <3>3. /\ 1 \in 1 .. Map!Capacity /\ place' = (place + 1) % Map!Capacity
          /\ \A e \in 0 .. 1 - 1 : slots'[(place + e) % Map!Capacity] # Map!Empty
      <4>1. \A e \in 0 .. 1 - 1 : e = 0
        OBVIOUS
      <4> QED
        BY <1>1, <1>2, <1>4, <1>9, <4>1
    <3> QED
      BY <1>2, <1>4, <3>1, <3>2, <3>3 DEF Placed, IsLast
  <2>2. CASE /\ result # Nothing /\ result # place
             /\ result \in DOMAIN slots /\ IsLast(slots[result])
             /\ \E m \in Nat :
                   /\ m > 0 /\ m < Map!Capacity /\ place = (result + m) % Map!Capacity
                   /\ \A e \in 0 .. m - 1 : slots[(result + e) % Map!Capacity] # Map!Empty
    <3>1. result' = result
      BY <1>1, <2>2 DEF Map!Found
    <3>2. slots'[result'].key = last'.key /\ slots'[result'].value = last'.value
      BY <1>1, <1>4, <2>2, <3>1 DEF IsLast
    <3>3. PICK m \in Nat : /\ m > 0 /\ m < Map!Capacity /\ place = (result + m) % Map!Capacity
                           /\ \A e \in 0 .. m - 1 : slots[(result + e) % Map!Capacity] # Map!Empty
      BY <2>2
    <3>4. m + 1 \in 1 .. Map!Capacity /\ place' = (result + (m + 1)) % Map!Capacity
      <4>1. /\ place' = (place + 1) % Map!Capacity /\ place = (result + m) % Map!Capacity
            /\ result \in DOMAIN slots
        BY <1>1, <2>2, <3>3
      <4>2. place' = (result + (m + 1)) % Map!Capacity
        BY <1>9, <4>1
      <4>3. m + 1 \in 1 .. Map!Capacity
        BY <1>2, <3>3
      <4> QED
        BY <4>2, <4>3
    <3>5. ASSUME NEW e \in 0 .. (m + 1) - 1 PROVE slots'[(result + e) % Map!Capacity] # Map!Empty
      <4> DEFINE at == (result + e) % Map!Capacity
      <4>1. slots[at] # Map!Empty
        <5>1. CASE e = m
          BY <1>1, <3>3, <5>1 DEF Map!Empty, old
        <5>2. CASE e # m
          <6>1. e \in 0 .. m - 1
            BY <5>2
          <6> QED
            BY <3>3, <6>1
        <5> QED
          BY <5>1, <5>2
      <4>2. at \in DOMAIN slots
        <5>1. result + e \in Nat
          BY <1>2, <2>2
        <5> QED
          BY <1>2, <5>1
      <4> HIDE DEF at
      <4> QED
        BY <1>1, <1>4, <4>1, <4>2 DEF at
    <3> QED
      BY <1>1, <1>4, <2>2, <3>1, <3>2, <3>4, <3>5 DEF Placed, IsLast
  <2> QED
    BY <1>1, <2>1, <2>2, ResultStands
<1>13. ContentInv'
  <2> SUFFICES ASSUME NEW k \in Keys
               PROVE  /\ k \in DOMAIN dict <=> Pending(k) # {} \/ old.key = k
                                               \/ \E i \in DOMAIN slots' : slots'[i].key = k
                      /\ \A i \in Pending(k) : (\A j \in Pending(k) : j <= i) => queue[i].value = dict[k]
                      /\ Pending(k) = {} =>
                           /\ old.key = k => old.value = dict[k]
                           /\ old.key # k =>
                                \A i \in DOMAIN slots' : slots'[i].key = k => slots'[i].value = dict[k]
    BY <1>1, <1>6 DEF ContentInv, Pending
  <2>1. /\ k \in DOMAIN dict <=> Pending(k) # {} \/ carry.key = k
                                 \/ \E i \in DOMAIN slots : slots[i].key = k
        /\ \A i \in Pending(k) : (\A j \in Pending(k) : j <= i) => queue[i].value = dict[k]
        /\ Pending(k) = {} =>
             /\ carry.key = k => carry.value = dict[k]
             /\ carry.key # k =>
                  \A i \in DOMAIN slots : slots[i].key = k => slots[i].value = dict[k]
    BY DEF MapInv, ContentInv
  <2>2. old.key = k \/ (\E i \in DOMAIN slots' : slots'[i].key = k)
        <=> carry.key = k \/ \E i \in DOMAIN slots : slots[i].key = k
    BY <1>2, <1>4 DEF old
  <2>3. ASSUME Pending(k) = {}, old.key = k PROVE old.value = dict[k]
    BY <1>1, <1>2, <2>1, <2>3 DEF old
  <2>4. ASSUME Pending(k) = {}, NEW i \in DOMAIN slots', slots'[i].key = k
        PROVE  slots'[i].value = dict[k]
    <3>1. CASE i = place
      BY <1>4, <2>1, <2>4, <3>1
    <3>2. CASE i # place
      <4>1. slots'[i] = slots[i] /\ slots[i].key = k /\ i \in Occupied
        BY <1>2, <1>4, <2>4, <3>2
      <4>2. carry.key # k
        BY <1>4, <1>5, <2>4, <3>2, <4>1 DEF SlotsInv
      <4> QED
        BY <1>4, <2>1, <2>4, <4>1, <4>2
    <3> QED
      BY <3>1, <3>2
  <2> QED
    BY <2>1, <2>2, <2>3, <2>4
<1> QED
  BY <1>4, <1>7, <1>8, <1>11, <1>12, <1>13 DEF MapInv

(* An entry further from its home is passed.                               *)
LEMMA PassKeeps ==
    ASSUME MapInv, Map!Pass
    PROVE  MapInv'
<1>1. /\ carry # Map!Empty /\ slots[place].dist # 0 /\ slots[place].key # carry.key
      /\ carry.dist <= slots[place].dist
      /\ carry' = [carry EXCEPT !.dist = @ + 1] /\ place' = (place + 1) % Map!Capacity
      /\ UNCHANGED <<hash, slots, size, queue, result, dict, last>>
  BY DEF Map!Pass, Map!OtherEntry, Map!Advance
<1>2. /\ carry \in Entry /\ carry.key \in Keys /\ carry.dist \in 1 .. Map!Capacity
      /\ place \in DOMAIN slots
      /\ \A i \in DOMAIN slots : slots[i].dist \in Nat
      /\ Map!Capacity \in Nat /\ Map!Capacity > 0 /\ DOMAIN slots = 0 .. Map!Capacity - 1
  BY <1>1, CarryFacts, SlotFacts DEF MapInv
<1>3. /\ carry' \in Entry /\ carry'.key = carry.key /\ carry'.value = carry.value
      /\ carry'.dist = carry.dist + 1 /\ carry' # Map!Empty
  BY <1>1, <1>2, SMTT(30) DEF Entry, Map!Empty
<1>4. SlotsInv' /\ Map!Capacity' = Map!Capacity /\ Occupied' = Occupied
  BY <1>1 DEF MapInv, SlotsInv, Map!Capacity, Occupied, Map!Home
<1>5. SizeInv' /\ MapTypeInv'
  BY <1>1, <1>3, <1>4 DEF MapInv, SizeInv, MapTypeInv
<1>6. ContentInv'
  BY <1>1, <1>3 DEF MapInv, ContentInv, Pending
<1>7. /\ (place + 1) % Map!Capacity \in DOMAIN slots
      /\ (place + 1) % Map!Capacity = (Map!Home(carry.key) + (carry.dist + 1) - 1) % Map!Capacity
      /\ \A i \in DOMAIN slots : (i + 1) % Map!Capacity = (place + 1) % Map!Capacity => i = place
      /\ \A m \in Nat, r \in DOMAIN slots :
           place = (r + m) % Map!Capacity => (place + 1) % Map!Capacity = (r + (m + 1)) % Map!Capacity
  BY <1>1, StepOn DEF MapInv
<1>8. CarryInv'
  <2>1. (place = (Map!Home(carry.key) + carry.dist - 1) % Map!Capacity)'
    <3>1. place' = ((hash'[carry'.key] % Map!Capacity') + carry'.dist - 1) % Map!Capacity'
      BY <1>1, <1>3, <1>4, <1>7 DEF Map!Home
    <3> QED
      BY <3>1 DEF Map!Home
  <2>2. ASSUME NEW i \in DOMAIN slots, (i + 1) % Map!Capacity = place'
            PROVE carry'.dist <= slots[i].dist + 1
    <3>1. i = place
      BY <1>1, <1>7, <2>2
    <3> QED
      BY <1>1, <1>2, <1>3, <3>1
  <2>3. ASSUME NEW i \in Occupied, slots[i].key = carry'.key PROVE carry'.dist <= slots[i].dist
    <3>1. carry.dist <= slots[i].dist /\ i \in DOMAIN slots
      BY <1>1, <1>3, <2>3 DEF MapInv, CarryInv, Occupied
    <3>2. slots[i].dist # carry.dist
      <4> SUFFICES ASSUME slots[i].dist = carry.dist PROVE FALSE
        OBVIOUS
      <4>1. i = (Map!Home(slots[i].key) + slots[i].dist - 1) % Map!Capacity
        BY DEF MapInv, SlotsInv
      <4>2. place = (Map!Home(carry.key) + carry.dist - 1) % Map!Capacity
        BY <1>1 DEF MapInv, CarryInv
      <4>3. i = place
        BY <1>3, <2>3, <4>1, <4>2
      <4> QED
        BY <1>1, <1>3, <2>3, <4>3
    <3> QED
      BY <1>2, <1>3, <3>1, <3>2
  <2> QED
    BY <1>1, <1>4, <2>1, <2>2, <2>3 DEF CarryInv
<1>9. ResultInv'
  <2> SUFFICES ASSUME last # Map!Empty, queue = <<>>
               PROVE  (result = Nothing /\ IsLast(carry)') \/ Placed'
    BY <1>1, <1>3 DEF MapInv, ResultInv
  <2>1. CASE result = Nothing /\ IsLast(carry)
    <3>1. carry'.key = last'.key /\ carry'.value = last'.value
      BY <1>1, <1>3, <2>1 DEF IsLast
    <3> QED
      BY <2>1, <3>1 DEF IsLast
  <2>2. CASE /\ result # Nothing /\ result # place
             /\ result \in DOMAIN slots /\ IsLast(slots[result])
             /\ \E m \in Nat :
                   /\ m > 0 /\ m < Map!Capacity /\ place = (result + m) % Map!Capacity
                   /\ \A e \in 0 .. m - 1 : slots[(result + e) % Map!Capacity] # Map!Empty
    <3>1. slots'[result'].key = last'.key /\ slots'[result'].value = last'.value
      BY <1>1, <2>2 DEF IsLast
    <3>2. PICK m \in Nat : /\ m > 0 /\ m < Map!Capacity /\ place = (result + m) % Map!Capacity
                           /\ \A e \in 0 .. m - 1 : slots[(result + e) % Map!Capacity] # Map!Empty
      BY <2>2
    <3>3. m + 1 \in 1 .. Map!Capacity /\ place' = (result + (m + 1)) % Map!Capacity
      <4>1. /\ place' = (place + 1) % Map!Capacity /\ place = (result + m) % Map!Capacity
            /\ result \in DOMAIN slots
        BY <1>1, <2>2, <3>2
      <4>2. place' = (result + (m + 1)) % Map!Capacity
        BY <1>7, <4>1
      <4>3. m + 1 \in 1 .. Map!Capacity
        BY <1>2, <3>2
      <4> QED
        BY <4>2, <4>3
    <3>4. ASSUME NEW e \in 0 .. (m + 1) - 1 PROVE slots[(result + e) % Map!Capacity] # Map!Empty
      <4>1. CASE e = m
        BY <1>1, <3>2, <4>1 DEF Map!Empty
      <4>2. CASE e # m
        <5>1. e \in 0 .. m - 1
          BY <4>2
        <5> QED
          BY <3>2, <5>1
      <4> QED
        BY <4>1, <4>2
    <3> QED
      BY <1>1, <1>4, <2>2, <3>1, <3>3, <3>4 DEF Placed, IsLast
  <2> QED
    BY <1>1, <2>1, <2>2, ResultStands
<1> QED
  BY <1>4, <1>5, <1>6, <1>8, <1>9 DEF MapInv

(* Every action of the map keeps it.                                       *)
LEMMA MapInvNext ==
    ASSUME MapInv, [Map!MapNext]_(Map!mapVars)
    PROVE  MapInv'
<1>1. ASSUME NEW k \in Keys, NEW v \in Values, Map!Insert(k, v) PROVE MapInv'
  BY <1>1, InsertKeeps
<1>2. ASSUME NEW n \in Requests, Map!Reserve(n) PROVE MapInv'
  BY <1>2, ReserveKeeps
<1>3. CASE UNCHANGED Map!mapVars
  <2>1. UNCHANGED <<hash, slots, size, queue, carry, place, result, dict, last>>
    BY <1>3 DEF Map!mapVars, Map!table, Map!helper
  <2>2. (SlotsInv /\ SizeInv /\ CarryInv)'
    BY <2>1 DEF MapInv, SlotsInv, SizeInv, CarryInv, Map!Capacity, Occupied, Map!Home
  <2>3. (MapTypeInv /\ ContentInv)'
    BY <2>1 DEF MapInv, MapTypeInv, ContentInv, Pending
  <2>4. ResultInv'
    BY <2>1 DEF MapInv, ResultInv, Placed, IsLast, Map!Capacity
  <2> QED
    BY <2>2, <2>3, <2>4 DEF MapInv
<1> QED
  BY <1>1, <1>2, <1>3, SkipKeeps, EnterKeeps, StoreKeeps, OverwriteKeeps, SwapKeeps, PassKeeps
     DEF Map!MapNext

(* find stops at the key, or where the key cannot be further on.           *)
LEMMA FindRight ==
    ASSUME MapInv, Map!Idle, NEW k \in Keys
    PROVE  Map!Find(k) = IF k \in DOMAIN dict THEN dict[k] ELSE Nothing
<1> DEFINE Ends(d) == d > Map!Probe(k, d).dist \/ Map!Probe(k, d).key = k
           end == CHOOSE d \in 1 .. Map!Capacity + 1 : Ends(d) /\ \A e \in 1 .. d - 1 : ~Ends(e)
           h == Map!Home(k)
           C == Map!Capacity
<1>1. /\ C \in Nat /\ C > 0 /\ DOMAIN slots = 0 .. C - 1 /\ h \in Nat
      /\ \A i \in DOMAIN slots : /\ slots[i].dist \in Nat /\ slots[i].dist <= C
                                 /\ i \in Occupied <=> slots[i].dist # 0
                                 /\ i \in Occupied <=> slots[i].key \in Keys
  BY SlotFacts DEF MapInv, SlotsInv
<1>2. \A i, j \in Occupied : slots[i].key = slots[j].key => i = j
  BY DEF MapInv, SlotsInv
<1>3. /\ k \in DOMAIN dict <=> \E i \in DOMAIN slots : slots[i].key = k
      /\ \A i \in DOMAIN slots : slots[i].key = k => slots[i].value = dict[k]
  BY IdleFacts
<1>4. Map!Find(k) = IF end <= Map!Probe(k, end).dist THEN Map!Probe(k, end).value ELSE Nothing
  BY DEF Map!Find
<1>5. \A e : Map!Probe(k, e) = slots[(h + e - 1) % C]
  BY DEF Map!Probe
<1> HIDE DEF C, h
<1>6. ASSUME NEW e \in Nat, e > 0 PROVE (h + e - 1) % C \in DOMAIN slots
  <2>1. h + e - 1 \in Nat
    BY <1>1, <1>6
  <2> QED
    BY <1>1, <2>1
<1>7. \A x, d : /\ x \in 1 .. C + 1 /\ Ends(x) /\ \A e \in 1 .. x - 1 : ~Ends(e)
                /\ d \in 1 .. C + 1 /\ Ends(d) /\ \A e \in 1 .. d - 1 : ~Ends(e)
                => x = d
  <2> HIDE DEF Ends
  <2> TAKE x, d
  <2> HAVE /\ x \in 1 .. C + 1 /\ Ends(x) /\ \A e \in 1 .. x - 1 : ~Ends(e)
           /\ d \in 1 .. C + 1 /\ Ends(d) /\ \A e \in 1 .. d - 1 : ~Ends(e)
  <2>1. ~(x \in 1 .. d - 1) /\ ~(d \in 1 .. x - 1)
    OBVIOUS
  <2> QED
    BY <1>1, <2>1
<1>8. CASE \E i \in DOMAIN slots : slots[i].key = k
  <2>1. PICK i \in DOMAIN slots : slots[i].key = k
    BY <1>8
  <2> DEFINE d == slots[i].dist
  <2>2. i \in Occupied /\ d \in 1 .. C
    BY <1>1, <2>1
  <2>3. i = (h + d - 1) % C
    BY <2>1, <2>2 DEF MapInv, SlotsInv, h, C
  <2> HIDE DEF d
  <2>4. Map!Probe(k, d) = slots[i] /\ Map!Probe(k, d).dist = d
    BY <1>5, <2>3 DEF d
  <2>5. \A e \in 1 .. d : Map!Probe(k, e).dist >= e
    BY <2>2, <2>4, Chain DEF MapInv
  <2>6. Ends(d)
    BY <2>1, <2>4
  <2>7. ASSUME NEW e \in 1 .. d - 1 PROVE ~Ends(e)
    <3>1. e \in Nat /\ e > 0 /\ e \in 1 .. d /\ e \in 1 .. C /\ e # d
      BY <1>1, <2>2
    <3> DEFINE j == (h + e - 1) % C
    <3>2. j \in DOMAIN slots /\ Map!Probe(k, e) = slots[j]
      BY <1>5, <1>6, <3>1
    <3> HIDE DEF j
    <3>3. Map!Probe(k, e).dist >= e /\ Map!Probe(k, e).dist \in Nat
      BY <1>1, <2>5, <3>1, <3>2
    <3>4. Map!Probe(k, e).key # k
      <4> SUFFICES ASSUME slots[j].key = k PROVE FALSE
        BY <3>2
      <4>1. j \in Occupied
        BY <1>1, <3>2
      <4>2. j = i
        BY <1>2, <2>1, <2>2, <4>1
      <4>3. (h + d - 1) % C = (h + e - 1) % C
        BY <2>3, <4>2 DEF j
      <4>4. d = e
        BY ONLY <1>1, <2>2, <3>1, <4>3, SameSlot
      <4> QED
        BY <3>1, <4>4
    <3> QED
      BY <3>1, <3>3, <3>4
  <2> HIDE DEF Ends
  <2>8. end = d
    <3>1. d \in 1 .. Map!Capacity + 1
      BY <1>1, <2>2 DEF C
    <3>2. end \in 1 .. Map!Capacity + 1 /\ Ends(end) /\ \A e \in 1 .. end - 1 : ~Ends(e)
      BY <2>6, <2>7, <3>1
    <3> HIDE DEF end
    <3> QED
      BY <1>7, <2>6, <2>7, <3>1, <3>2 DEF C
  <2> HIDE DEF end
  <2>9. Map!Find(k) = slots[i].value
    BY <1>1, <1>4, <2>2, <2>4, <2>8
  <2> QED
    BY <1>3, <2>1, <2>9
<1>9. CASE ~ \E i \in DOMAIN slots : slots[i].key = k
  <2> DEFINE S == {d \in 1 .. C + 1 : Ends(d)}
  <2>1. Ends(C + 1)
    <3>1. C + 1 \in Nat /\ C + 1 > 0
      BY <1>1
    <3> DEFINE j == (h + (C + 1) - 1) % C
    <3>2. j \in DOMAIN slots /\ Map!Probe(k, C + 1) = slots[j]
      BY <1>5, <1>6, <3>1
    <3> HIDE DEF j
    <3>3. C + 1 > slots[j].dist
      BY <1>1, <3>2
    <3> QED
      BY <3>2, <3>3
  <2>2. PICK d \in S : \A e \in S : d <= e
    <3>1. S \subseteq Nat
      BY <1>1
    <3>2. C + 1 \in S
      BY <1>1, <2>1
    <3> HIDE DEF S
    <3> QED
      BY <3>1, <3>2, LeastNumber
  <2>3. d \in 1 .. C + 1 /\ Ends(d) /\ \A e \in 1 .. d - 1 : ~Ends(e)
    <3>1. d \in 1 .. C + 1 /\ Ends(d)
      OBVIOUS
    <3> HIDE DEF Ends
    <3>2. \A e \in 1 .. d - 1 : e \in 1 .. C + 1 /\ ~(d <= e)
      BY <1>1, <3>1
    <3> QED
      BY <2>2, <3>1, <3>2
  <2> HIDE DEF S, Ends
  <2>4. end \in 1 .. Map!Capacity + 1 /\ Ends(end)
    BY <2>3 DEF C
  <2> HIDE DEF end
  <2>5. end \in Nat /\ end > 0
    BY <1>1, <2>4 DEF C
  <2> DEFINE j == (h + end - 1) % C
  <2>6. j \in DOMAIN slots /\ Map!Probe(k, end) = slots[j]
    BY <1>5, <1>6, <2>5
  <2> HIDE DEF j
  <2>7. slots[j].key # k /\ slots[j].dist \in Nat
    BY <1>1, <1>9, <2>6
  <2>8. ~(end <= Map!Probe(k, end).dist)
    BY <2>4, <2>5, <2>6, <2>7 DEF Ends
  <2> QED
    BY <1>3, <1>4, <1>9, <2>8
<1> QED
  BY <1>8, <1>9

(* The keys and the slots that are taken are as many.                      *)
LEMMA SizeRight ==
    ASSUME MapInv, Map!Idle
    PROVE  size = Cardinality(DOMAIN dict)
<1> DEFINE f == [i \in Occupied |-> slots[i].key]
<1>1. /\ IsFiniteSet(Occupied) /\ Occupied \subseteq DOMAIN slots
      /\ \A i \in DOMAIN slots : i \in Occupied <=> slots[i].key \in Keys
  BY SlotFacts DEF MapInv, Occupied
<1>2. \A i, j \in Occupied : slots[i].key = slots[j].key => i = j
  BY DEF MapInv, SlotsInv
<1>3. \A k \in Keys : k \in DOMAIN dict <=> \E i \in DOMAIN slots : slots[i].key = k
  BY IdleFacts
<1>4. DOMAIN dict \subseteq Keys
  BY DEF MapInv, MapTypeInv
<1>5. f \in [Occupied -> DOMAIN dict]
  BY <1>1, <1>3
<1>6. \A i, j \in Occupied : f[i] = f[j] => i = j
  BY <1>2
<1>7. \A k \in DOMAIN dict : \E i \in Occupied : f[i] = k
  BY <1>1, <1>3, <1>4
<1> HIDE DEF f
<1>8. f \in Bijection(Occupied, DOMAIN dict)
  BY <1>5, <1>6, <1>7, Fun_IsBij
<1>9. ExistsBijection(Occupied, DOMAIN dict)
  BY <1>8 DEF ExistsBijection
<1>10. Cardinality(DOMAIN dict) = Cardinality(Occupied)
  BY <1>1, <1>9, FS_Bijection
<1> QED
  BY <1>10, IdleFacts

(* A map of which it holds, when it is idle, answers a lookup as the       *)
(* function does, and an insertion with its own entry.                     *)
LEMMA MapInvAnswers == ASSUME MapInv PROVE Map!LooksLikeMap /\ Map!ReturnsItsEntry
<1>1. Map!LooksLikeMap
  BY FindRight, SizeRight, SameCounts DEF Map!LooksLikeMap
<1>2. Map!ReturnsItsEntry
  BY DEF MapInv, ResultInv, Placed, IsLast, Map!Idle, Map!ReturnsItsEntry
<1> QED
  BY <1>1, <1>2

-----------------------------------------------------------------------------
(***************************************************************************)
(* The pool of strings, and the cache of the addresses that it has seen.   *)
(***************************************************************************)
Contents == {view.content : view \in Views}
Taken == {i \in DOMAIN buckets : buckets[i] # Pool!Free}
Right(ref, content) == ref \in 1 .. Len(pool) /\ pool[ref] = content

(* The pool has each string once; the cache is not half full, and what it  *)
(* remembers, as what was written, leads to its own string.                *)
PoolInv ==
    /\ index \in Multipliers
    /\ \E n \in Nat : n > 0 /\ DOMAIN buckets = 0 .. n - 1
    /\ buckets = [i \in DOMAIN buckets |-> buckets[i]]
    /\ used = Cardinality(Taken) /\ 2 * used < Pool!Slots
    /\ pool \in Seq(Contents)
    /\ \A i, j \in DOMAIN pool : pool[i] = pool[j] => i = j
    /\ \A i \in Taken : \E view \in Views :
         /\ view.data # 0 /\ Pool!SameView(buckets[i], view)
         /\ Right(buckets[i].ref, view.content)
    /\ written \in Seq([view : Views, ref : Nat])
    /\ \A i \in DOMAIN written : Right(written[i].ref, written[i].view.content)

(* The slots of the address cache.                                         *)
LEMMA SlotNumbers ==
    ASSUME PoolInv
    PROVE  /\ Pool!Slots \in Nat /\ Pool!Slots > 0 /\ DOMAIN buckets = 0 .. Pool!Slots - 1
           /\ IsFiniteSet(Taken) /\ used \in Nat
           /\ \E i \in DOMAIN buckets : buckets[i] = Pool!Free
<1>1. PICK n \in Nat : n > 0 /\ DOMAIN buckets = 0 .. n - 1
  BY DEF PoolInv
<1>2. IsFiniteSet(0 .. n - 1) /\ Cardinality(0 .. n - 1) = n
  <2>1. /\ IsFiniteSet(0 .. n - 1)
        /\ Cardinality(0 .. n - 1) = IF 0 > n - 1 THEN 0 ELSE n - 1 - 0 + 1
    BY <1>1, FS_Interval
  <2> QED
    BY <1>1, <2>1
<1>3. Pool!Slots = n
  BY <1>1, <1>2, SameCounts DEF Pool!Slots
<1>4. Taken \subseteq 0 .. n - 1
  BY <1>1 DEF Taken
<1>5. IsFiniteSet(Taken) /\ Cardinality(Taken) \in Nat
  BY <1>2, <1>4, FS_Subset, FS_CardinalityType
<1>6. used = Cardinality(Taken) /\ 2 * used < n
  BY <1>3 DEF PoolInv
<1>7. \E i \in DOMAIN buckets : buckets[i] = Pool!Free
  <2> SUFFICES ASSUME \A i \in DOMAIN buckets : buckets[i] # Pool!Free PROVE FALSE
    OBVIOUS
  <2>1. Taken = 0 .. n - 1
    BY <1>1 DEF Taken
  <2> QED
    BY <1>1, <1>2, <1>5, <1>6, <2>1
<1> QED
  BY <1>1, <1>3, <1>5, <1>6, <1>7

(* A probe ends, at an empty slot or at the view's own.                    *)
LEMMA ProbeEnds ==
    ASSUME PoolInv, NEW view \in Views, view.data # 0
    PROVE  /\ Pool!ProbeEnd(view) \in DOMAIN buckets
           /\ \/ buckets[Pool!ProbeEnd(view)] = Pool!Free
              \/ Pool!SameView(buckets[Pool!ProbeEnd(view)], view)
<1> DEFINE h == index[view.data]
           at(d) == (h + d) % Pool!Slots
           Ends(d) == buckets[at(d)] = Pool!Free \/ Pool!SameView(buckets[at(d)], view)
           S == {d \in 0 .. Pool!Slots - 1 : Ends(d)}
<1>1. /\ Pool!Slots \in Nat /\ Pool!Slots > 0 /\ DOMAIN buckets = 0 .. Pool!Slots - 1
      /\ \E i \in DOMAIN buckets : buckets[i] = Pool!Free
  BY SlotNumbers
<1>2. h \in Nat
  BY PoolAssumption DEF PoolInv
<1>3. \A d \in 0 .. Pool!Slots - 1 : at(d) \in DOMAIN buckets
  <2> HIDE DEF h
  <2> QED
    BY <1>1, <1>2, RoundTheRing
<1>4. S # {}
  <2>1. PICK i \in 0 .. Pool!Slots - 1 : buckets[i] = Pool!Free
    BY <1>1
  <2>2. \E d \in 0 .. Pool!Slots - 1 : at(d) = i
    <3> HIDE DEF h
    <3> QED
      BY <1>1, <1>2, RoundTheRing
  <2> HIDE DEF at
  <2> QED
    BY <2>1, <2>2
<1> HIDE DEF at
<1>5. PICK d \in S : \A e \in S : d <= e
  <2>1. S \subseteq Nat
    BY <1>1
  <2> HIDE DEF S
  <2> QED
    BY <1>4, <2>1, LeastNumber
<1>6. d \in 0 .. Pool!Slots - 1 /\ Ends(d) /\ \A e \in 0 .. d - 1 : ~Ends(e)
  <2>1. d \in 0 .. Pool!Slots - 1 /\ Ends(d)
    OBVIOUS
  <2>2. \A e \in 0 .. d - 1 : e \in 0 .. Pool!Slots - 1 /\ ~(d <= e)
    BY <1>1, <2>1
  <2> QED
    BY <1>5, <2>1, <2>2
<1> HIDE DEF Ends, S
<1> DEFINE end == CHOOSE x \in 0 .. Pool!Slots - 1 : Ends(x) /\ \A e \in 0 .. x - 1 : ~Ends(e)
<1>7. end \in 0 .. Pool!Slots - 1 /\ Ends(end)
  BY <1>6
<1>8. Pool!ProbeEnd(view) = at(end)
  BY DEF Pool!ProbeEnd, Ends, at
<1> HIDE DEF end
<1> QED
  BY <1>3, <1>7, <1>8 DEF Ends

(* The reference that StringBuffer::add returns.                           *)
LEMMA PoolGrows ==
    ASSUME PoolInv, NEW view \in Views
    PROVE  LET c == view.content
               p == Pool!PoolWith(c)
           IN  /\ p \in Seq(Contents) /\ \A i, j \in DOMAIN p : p[i] = p[j] => i = j
               /\ Len(pool) \in Nat /\ Len(p) \in Nat /\ Len(pool) <= Len(p)
               /\ \A i \in 1 .. Len(pool) : p[i] = pool[i]
               /\ Pool!Position(c) \in 1 .. Len(p) /\ p[Pool!Position(c)] = c
<1> DEFINE c == view.content
           p == Pool!PoolWith(c)
<1>1. c \in Contents /\ pool \in Seq(Contents)
  BY DEF Contents, PoolInv
<1>2. Len(pool) \in Nat /\ DOMAIN pool = 1 .. Len(pool) /\ \A i, j \in DOMAIN pool :
          pool[i] = pool[j] => i = j
  BY <1>1, LenProperties DEF PoolInv
<1>3. CASE \E i \in DOMAIN pool : pool[i] = c
  <2>1. Pool!Position(c) \in DOMAIN pool /\ pool[Pool!Position(c)] = c
    BY <1>3 DEF Pool!Position
  <2>2. p = pool
    BY <1>2, <2>1 DEF Pool!PoolWith
  <2> QED
    BY <1>1, <1>2, <2>1, <2>2
<1>4. CASE ~ \E i \in DOMAIN pool : pool[i] = c
  <2>1. Pool!Position(c) = Len(pool) + 1
    BY <1>4 DEF Pool!Position
  <2>2. p = Append(pool, c)
    BY <1>2, <2>1 DEF Pool!PoolWith
  <2> HIDE DEF c, p
  <2>3. /\ p \in Seq(Contents) /\ Len(p) = Len(pool) + 1
        /\ \A i \in 1 .. Len(pool) : p[i] = pool[i]
        /\ p[Len(pool) + 1] = c
    BY <1>1, <2>2, AppendProperties
  <2>4. DOMAIN p = 1 .. Len(pool) + 1
    BY <2>3, LenProperties
  <2>5. ASSUME NEW i \in DOMAIN p, NEW j \in DOMAIN p, p[i] = p[j] PROVE i = j
    <3>1. (i \in 1 .. Len(pool) \/ i = Len(pool) + 1) /\ (j \in 1 .. Len(pool) \/ j = Len(pool) + 1)
      BY <1>2, <2>4
    <3>2. CASE i \in 1 .. Len(pool) /\ j \in 1 .. Len(pool)
      BY <1>2, <2>3, <2>5, <3>2
    <3>3. CASE i = Len(pool) + 1 \/ j = Len(pool) + 1
      BY <1>2, <1>4, <2>3, <2>5, <3>1, <3>3
    <3> QED
      BY <3>1, <3>2, <3>3
  <2> QED
    BY <1>2, <2>1, <2>3, <2>5 DEF c, p
<1> QED
  BY <1>3, <1>4

(* It holds of the pool that a save begins with.                           *)
LEMMA PoolInvInit ==
    ASSUME Pool!PoolInit
    PROVE  PoolInv
<1>1. PICK m \in Capacities : buckets = [i \in 0 .. Pool!bitCeil[2 * m + 2] - 1 |-> Pool!Free]
  BY DEF Pool!PoolInit, Pool!FirstBuckets
<1> DEFINE n == Pool!bitCeil[2 * m + 2]
<1>2. n \in Nat /\ n > 0
  BY PoolAssumption, BitCeil, SameRounding
<1> HIDE DEF n
<1>3. DOMAIN buckets = 0 .. n - 1 /\ Taken = {} /\ buckets = [i \in DOMAIN buckets |-> buckets[i]]
  BY <1>1 DEF Taken, n
<1>4. Pool!Slots = n
  <2>1. Cardinality(0 .. n - 1) = IF 0 > n - 1 THEN 0 ELSE n - 1 - 0 + 1
    BY <1>2, FS_Interval
  <2> QED
    BY <1>2, <1>3, <2>1, SameCounts DEF Pool!Slots
<1>5. used = Cardinality(Taken) /\ 2 * used < Pool!Slots
  BY <1>2, <1>3, <1>4, FS_EmptySet DEF Pool!PoolInit
<1>6. pool = <<>> /\ written = <<>> /\ DOMAIN pool = {} /\ DOMAIN written = {}
  BY DEF Pool!PoolInit
<1>7. pool \in Seq(Contents) /\ written \in Seq([view : Views, ref : Nat])
  BY <1>6, EmptySeq
<1> QED
  BY <1>2, <1>3, <1>5, <1>6, <1>7 DEF Pool!PoolInit, PoolInv

(* A node's path is interned, and its reference remembered.                *)
LEMMA WriteNodeKeeps ==
    ASSUME PoolInv, NEW view \in Views, Pool!WriteNode(view)
    PROVE  PoolInv'
<1> DEFINE c == view.content
           at == Pool!ProbeEnd(view)
           new == [data |-> view.data, size |-> view.size, ref |-> Pool!Position(c)]
<1>1. /\ pool' = Pool!PoolWith(c) /\ UNCHANGED <<index, written>>
      /\ Pool!Remember(view, Pool!Position(c))
  BY DEF Pool!WriteNode
<1>2. /\ pool' \in Seq(Contents) /\ \A i, j \in DOMAIN pool' : pool'[i] = pool'[j] => i = j
      /\ Len(pool) \in Nat /\ Len(pool') \in Nat /\ Len(pool) <= Len(pool')
      /\ \A i \in 1 .. Len(pool) : pool'[i] = pool[i]
      /\ Pool!Position(c) \in 1 .. Len(pool') /\ pool'[Pool!Position(c)] = c
  BY <1>1, PoolGrows
<1>3. \A ref, x : Right(ref, x) => ref \in 1 .. Len(pool') /\ pool'[ref] = x
  BY <1>2 DEF Right
<1>4. \A i \in DOMAIN written' : Right(written[i].ref, written[i].view.content)'
  BY <1>1, <1>3, SMTT(30) DEF PoolInv, Right
<1>5. /\ Pool!Slots \in Nat /\ Pool!Slots > 0 /\ DOMAIN buckets = 0 .. Pool!Slots - 1
      /\ IsFiniteSet(Taken) /\ used \in Nat /\ used = Cardinality(Taken) /\ 2 * used < Pool!Slots
      /\ buckets = [i \in DOMAIN buckets |-> buckets[i]]
  BY SlotNumbers DEF PoolInv
<1>6. \A i \in Taken : \E v \in Views : /\ v.data # 0 /\ Pool!SameView(buckets[i], v)
                                        /\ buckets[i].ref \in 1 .. Len(pool')
                                        /\ pool'[buckets[i].ref] = v.content
  <2>1. \A i \in Taken : \E v \in Views : /\ v.data # 0 /\ Pool!SameView(buckets[i], v)
                                          /\ Right(buckets[i].ref, v.content)
    BY DEF PoolInv
  <2> QED
    BY <1>3, <2>1
<1>7. CASE UNCHANGED <<buckets, used>>
  <2>1. Taken' = Taken /\ Pool!Slots' = Pool!Slots
    BY <1>7 DEF Taken, Pool!Slots
  <2>2. \A i \in Taken' : \E v \in Views : /\ v.data # 0 /\ Pool!SameView(buckets'[i], v)
                                           /\ Right(buckets[i].ref, v.content)'
    BY <1>6, <1>7, <2>1 DEF Right
  <2> QED
    BY <1>1, <1>2, <1>4, <1>5, <1>7, <2>1, <2>2 DEF PoolInv
<1>8. CASE ~(view.data = 0 \/ Pool!FullCache \/ buckets[at] # Pool!Free)
  <2>1. /\ view.data # 0 /\ ~Pool!FullCache /\ buckets[at] = Pool!Free
        /\ buckets' = [buckets EXCEPT ![at] = new] /\ used' = used + 1
    BY <1>1, <1>8 DEF Pool!Remember
  <2>2. at \in DOMAIN buckets
    BY <2>1, ProbeEnds
  <2>3. new # Pool!Free
    BY <2>1 DEF Pool!Free
  <2> HIDE DEF at, new
  <2>4. /\ DOMAIN buckets' = DOMAIN buckets /\ buckets'[at] = new
        /\ \A i \in DOMAIN buckets : i # at => buckets'[i] = buckets[i]
        /\ buckets' = [i \in DOMAIN buckets' |-> buckets'[i]]
    BY <1>5, <2>1, <2>2
  <2>5. Taken' = Taken \cup {at} /\ at \notin Taken
    BY <2>1, <2>2, <2>3, <2>4 DEF Taken
  <2>6. Pool!Slots' = Pool!Slots
    BY <2>4 DEF Pool!Slots
  <2>7. used' = Cardinality(Taken') /\ 2 * used' < Pool!Slots'
    <3>1. Cardinality(Taken') = Cardinality(Taken) + 1
      BY <1>5, <2>5, FS_AddElement
    <3>2. ~(used + 1 >= Pool!Slots \div 2)
      BY <2>1 DEF Pool!FullCache
    <3> QED
      BY <1>5, <2>1, <2>6, <3>1, <3>2
  <2>8. ASSUME NEW i \in Taken'
        PROVE  \E v \in Views : /\ v.data # 0 /\ Pool!SameView(buckets'[i], v)
                                /\ Right(buckets[i].ref, v.content)'
    <3>1. CASE i = at
      <4>1. Pool!SameView(buckets'[i], view) /\ buckets'[i].ref = Pool!Position(c)
        BY <2>4, <3>1 DEF Pool!SameView, new
      <4>2. Right(buckets[i].ref, view.content)'
        BY <1>2, <4>1 DEF Right
      <4> QED
        BY <2>1, <4>1, <4>2
    <3>2. CASE i # at
      <4>1. i \in Taken /\ buckets'[i] = buckets[i]
        BY <2>4, <2>5, <3>2 DEF Taken
      <4> QED
        BY <1>6, <4>1 DEF Right
    <3> QED
      BY <3>1, <3>2
  <2>9. \E n \in Nat : n > 0 /\ DOMAIN buckets' = 0 .. n - 1
    BY <1>5, <2>4
  <2>10. (written \in Seq([view : Views, ref : Nat]) /\ index \in Multipliers)'
    BY <1>1 DEF PoolInv
  <2> QED
    BY <1>2, <1>4, <2>4, <2>7, <2>8, <2>9, <2>10 DEF PoolInv
<1> QED
  BY <1>1, <1>7, <1>8 DEF Pool!Remember

(* An input is looked for by its address, and interned when the cache has  *)
(* not seen it.                                                            *)
LEMMA WriteInputKeeps ==
    ASSUME PoolInv, NEW view \in Views, Pool!WriteInput(view)
    PROVE  PoolInv'
<1> DEFINE c == view.content
           at == Pool!ProbeEnd(view)
           ref == IF Pool!Known(view) THEN buckets[at].ref ELSE Pool!Position(c)
           new == [view |-> view, ref |-> ref]
<1>1. /\ written' = Append(written, new)
      /\ pool' = IF Pool!Known(view) THEN pool ELSE Pool!PoolWith(c)
      /\ UNCHANGED <<index, buckets, used, paths>>
  BY DEF Pool!WriteInput
<1>2. /\ pool' \in Seq(Contents) /\ \A i, j \in DOMAIN pool' : pool'[i] = pool'[j] => i = j
      /\ Len(pool) \in Nat /\ Len(pool') \in Nat /\ Len(pool) <= Len(pool')
      /\ \A i \in 1 .. Len(pool) : pool'[i] = pool[i]
      /\ ref \in 1 .. Len(pool') /\ pool'[ref] = c
  <2>1. CASE Pool!Known(view)
    <3>1. view.data # 0 /\ buckets[at] # Pool!Free
      BY <2>1 DEF Pool!Known
    <3>2. at \in Taken /\ Pool!SameView(buckets[at], view)
      BY <3>1, ProbeEnds DEF Taken
    <3>3. PICK v \in Views :
              v.data # 0 /\ Pool!SameView(buckets[at], v) /\ Right(buckets[at].ref, v.content)
      BY <3>2 DEF PoolInv
    <3>4. v.content = c
      BY <3>2, <3>3, PoolAssumption DEF Pool!SameView
    <3>5. Len(pool) \in Nat
      BY LenProperties DEF PoolInv
    <3> QED
      BY <1>1, <2>1, <3>3, <3>4, <3>5 DEF PoolInv, Right
  <2>2. CASE ~Pool!Known(view)
    BY <1>1, <2>2, PoolGrows
  <2> QED
    BY <2>1, <2>2
<1> HIDE DEF ref
<1>3. \A r, x : Right(r, x) => r \in 1 .. Len(pool') /\ pool'[r] = x
  BY <1>2 DEF Right
<1>4. written \in Seq([view : Views, ref : Nat])
  BY DEF PoolInv
<1>5. new \in [view : Views, ref : Nat]
  BY <1>2
<1>6. /\ written' \in Seq([view : Views, ref : Nat]) /\ Len(written') = Len(written) + 1
      /\ \A i \in 1 .. Len(written) : written'[i] = written[i]
      /\ written'[Len(written) + 1] = new
  BY <1>1, <1>4, <1>5, AppendProperties
<1>7. /\ Len(written) \in Nat /\ DOMAIN written = 1 .. Len(written)
      /\ DOMAIN written' = 1 .. Len(written) + 1
  BY <1>4, <1>6, LenProperties
<1>8. ASSUME NEW i \in DOMAIN written' PROVE Right(written[i].ref, written[i].view.content)'
  <2>1. CASE i \in 1 .. Len(written)
    <3>1. Right(written[i].ref, written[i].view.content)
      BY <1>7, <2>1 DEF PoolInv
    <3> QED
      BY <1>3, <1>6, <2>1, <3>1 DEF Right
  <2>2. CASE i = Len(written) + 1
    BY <1>2, <1>6, <2>2 DEF Right
  <2> QED
    BY <1>7, <2>1, <2>2
<1>9. Taken' = Taken /\ Pool!Slots' = Pool!Slots
  BY <1>1 DEF Taken, Pool!Slots
<1>10. \A i \in Taken' : \E v \in Views : /\ v.data # 0 /\ Pool!SameView(buckets'[i], v)
                                          /\ Right(buckets[i].ref, v.content)'
  <2>1. \A i \in Taken : \E v \in Views : /\ v.data # 0 /\ Pool!SameView(buckets[i], v)
                                          /\ Right(buckets[i].ref, v.content)
    BY DEF PoolInv
  <2>2. \A i \in Taken : \E v \in Views : /\ v.data # 0 /\ Pool!SameView(buckets[i], v)
                                          /\ buckets[i].ref \in 1 .. Len(pool')
                                          /\ pool'[buckets[i].ref] = v.content
    BY <1>3, <2>1
  <2> QED
    BY <1>1, <1>9, <2>2 DEF Right
<1> QED
  BY <1>1, <1>2, <1>6, <1>8, <1>9, <1>10 DEF PoolInv

(* Every write keeps it.                                                   *)
LEMMA PoolInvNext ==
    ASSUME PoolInv, [Pool!PoolNext]_(Pool!poolVars)
    PROVE  PoolInv'
<1>1. ASSUME NEW view \in Views, Pool!WriteNode(view) PROVE PoolInv'
  BY <1>1, WriteNodeKeeps
<1>2. ASSUME NEW view \in Views, Pool!WriteInput(view) PROVE PoolInv'
  BY <1>2, WriteInputKeeps
<1>3. CASE UNCHANGED Pool!poolVars
  BY <1>3 DEF Pool!poolVars, PoolInv, Taken, Pool!Slots, Right
<1> QED
  BY <1>1, <1>2, <1>3 DEF Pool!PoolNext

(* And it says that each reference leads to its string.                    *)
LEMMA PoolInvRight == ASSUME PoolInv PROVE Pool!ReferencesRight
<1>1. \A i \in DOMAIN written : pool[written[i].ref] = written[i].view.content
  BY DEF PoolInv, Right
<1> QED
  BY <1>1 DEF PoolInv, Pool!ReferencesRight, Taken

-----------------------------------------------------------------------------
(***************************************************************************)
(* The reader of depfiles: where its loops go, that a round ends behind    *)
(* where it began, what a compiler's text is made of, and that what is     *)
(* read of it so far are the names it was written for.                     *)
(***************************************************************************)
(* FirstOf finds the first stop, or the end.                               *)
LEMMA FirstOfFinds ==
    ASSUME Len(text) \in Nat, NEW stops, NEW p \in 1 .. Dep!End
    PROVE  LET s == Dep!FirstOf(stops, p)
           IN  /\ s \in p .. Dep!End
               /\ s = Dep!End \/ text[s] \in stops
               /\ \A r \in p .. s - 1 : text[r] \notin stops
<1> DEFINE S == {q \in p .. Dep!End : q = Dep!End \/ text[q] \in stops}
<1>1. Dep!End \in Nat /\ p \in Nat /\ Dep!End \in S
  BY DEF Dep!End
<1>2. S \subseteq Nat /\ S # {}
  <2>1. \A q \in p .. Dep!End : q \in Nat
    BY <1>1
  <2> QED
    BY <1>1, <2>1
<1>3. PICK q \in S : \A r \in S : q <= r
  <2> HIDE DEF S
  <2> QED
    BY <1>2, LeastNumber
<1>4. ASSUME NEW r \in p .. q - 1 PROVE text[r] \notin stops
  <2>1. r \notin S /\ r \in p .. Dep!End
    BY <1>1, <1>3
  <2> QED
    BY <2>1
<1>5. \E s \in p .. Dep!End : /\ s = Dep!End \/ text[s] \in stops
                              /\ \A r \in p .. s - 1 : text[r] \notin stops
  BY <1>3, <1>4
<1> QED
  BY <1>5 DEF Dep!FirstOf

(* RunOf counts the backslashes that follow one another, in a text or in a *)
(* token, and nothing else is that count.                                  *)
LEMMA RunOfCounts ==
    ASSUME NEW t, Len(t) \in Nat, NEW p \in 1 .. Len(t) + 1
    PROVE  LET n == Dep!RunOf(t, p)
           IN  /\ n \in Nat /\ p + n <= Len(t) + 1
               /\ \A i \in p .. p + n - 1 : i <= Len(t) /\ t[i] = "bs"
               /\ p + n > Len(t) \/ t[p + n] # "bs"
<1> DEFINE S == {n \in Nat : p + n > Len(t) \/ t[p + n] # "bs"}
<1>1. p \in Nat /\ Len(t) + 1 - p \in S /\ S \subseteq Nat /\ S # {}
  OBVIOUS
<1>2. PICK n \in S : \A m \in S : n <= m
  <2> HIDE DEF S
  <2> QED
    BY <1>1, LeastNumber
<1>3. ASSUME NEW i \in p .. p + n - 1 PROVE i <= Len(t) /\ t[i] = "bs"
  <2>1. i - p \in Nat /\ i - p < n /\ p + (i - p) = i
    BY <1>1, <1>2
  <2>2. i - p \notin S
    <3> HIDE DEF S
    <3> QED
      BY <1>1, <1>2, <2>1
  <2> QED
    BY <1>1, <2>1, <2>2
<1>4. n \in 0 .. Len(t)
  BY <1>1, <1>2
<1>5. \E m \in 0 .. Len(t) : /\ \A i \in p .. p + m - 1 : i <= Len(t) /\ t[i] = "bs"
                             /\ p + m > Len(t) \/ t[p + m] # "bs"
  BY <1>2, <1>3, <1>4
<1> DEFINE m == Dep!RunOf(t, p)
<1>6. /\ m \in 0 .. Len(t)
      /\ \A i \in p .. p + m - 1 : i <= Len(t) /\ t[i] = "bs"
      /\ p + m > Len(t) \/ t[p + m] # "bs"
  BY <1>5 DEF Dep!RunOf
<1> HIDE DEF m
<1>7. p + m <= Len(t) + 1
  <2>1. CASE m = 0
    BY <1>6, <2>1
  <2>2. CASE m # 0
    <3>1. p + m - 1 \in p .. p + m - 1
      BY <1>6, <2>2
    <3> QED
      BY <1>6, <3>1
  <2> QED
    BY <2>1, <2>2
<1> QED
  BY <1>6, <1>7 DEF m

(* How many backslashes there are at p, if they are known.                 *)
LEMMA RunOfIs ==
    ASSUME NEW t, Len(t) \in Nat, NEW p \in 1 .. Len(t) + 1, NEW n \in Nat, p + n <= Len(t) + 1,
           \A i \in p .. p + n - 1 : t[i] = "bs",
           p + n > Len(t) \/ t[p + n] # "bs"
    PROVE  Dep!RunOf(t, p) = n
<1> DEFINE m == Dep!RunOf(t, p)
<1>1. /\ m \in Nat /\ p + m <= Len(t) + 1
      /\ \A i \in p .. p + m - 1 : t[i] = "bs"
      /\ p + m > Len(t) \/ t[p + m] # "bs"
  BY RunOfCounts
<1> HIDE DEF m
<1>2. ~(m < n)
  <2> SUFFICES ASSUME m < n PROVE FALSE
    OBVIOUS
  <2>1. p + m \in p .. p + n - 1 /\ p + m <= Len(t)
    BY <1>1
  <2> QED
    BY <1>1, <2>1
<1>3. ~(n < m)
  <2> SUFFICES ASSUME n < m PROVE FALSE
    OBVIOUS
  <2>1. p + n \in p .. p + m - 1 /\ p + n <= Len(t)
    BY <1>1
  <2> QED
    BY <1>1, <2>1
<1> QED
  BY <1>1, <1>2, <1>3 DEF m

Continued(q) == Dep!At(q) = "bs" /\ Dep!At(q + 1) \in Dep!Newlines
Skipped(q) ==
    IF Dep!At(q) = "blank" THEN q + 1
    ELSE IF Dep!At(q + 1) = "cr" /\ Dep!At(q + 2) = "lf" THEN q + 3 ELSE q + 2

(* skipWhitespace goes round for a blank and for a continuation.           *)
LEMMA SkipRounds ==
    ASSUME Len(text) \in Nat, NEW q \in 1 .. Dep!End
    PROVE  IF Dep!At(q) = "blank" \/ Continued(q)
           THEN /\ Skipped(q) \in 1 .. Dep!End /\ Skipped(q) > q
                /\ Dep!skipWhitespace(q) = Dep!skipWhitespace(Skipped(q))
           ELSE Dep!skipWhitespace(q) = q
<1> DEFINE D == 1 .. Dep!End
           go == [r \in D |-> Dep!At(r) = "blank" \/ Continued(r)]
           next == [r \in D |-> Skipped(r)]
           rank == [r \in D |-> Dep!End - r]
           value == [r \in D |-> r]
<1>1. Dep!End \in Nat /\ D \subseteq Nat /\ rank \in [D -> Nat]
  BY DEF Dep!End
<1>2. ASSUME NEW r \in D, go[r] PROVE next[r] \in D /\ next[r] > r
  <2>1. \A n \in Nat : Dep!At(n) \in Dep!Blanks \cup {"bs"} => n < Dep!End
    BY DEF Dep!At, Dep!Blanks, Dep!Newlines
  <2>2. CASE Dep!At(r) = "blank"
    BY <1>1, <2>1, <2>2 DEF Dep!Blanks, Skipped
  <2>3. CASE Dep!At(r) # "blank"
    <3>1. Continued(r) /\ Dep!At(r + 1) \in Dep!Newlines /\ r \in Nat
      BY <1>1, <1>2, <2>3 DEF Continued
    <3>2. r + 1 < Dep!End
      BY <1>1, <2>1, <3>1 DEF Dep!Blanks
    <3>3. Dep!At(r + 2) = "lf" => r + 2 < Dep!End
      BY <1>1, <2>1, <3>1 DEF Dep!Blanks, Dep!Newlines
    <3> QED
      BY <1>1, <2>3, <3>1, <3>2, <3>3 DEF Skipped
  <2> QED
    BY <2>2, <2>3
<1>3. \A r \in D : go[r] => next[r] \in D /\ rank[next[r]] < rank[r]
  BY <1>1, <1>2
<1>4. PICK f : Loops(f, D, go, next, value)
  <2> HIDE DEF D, go, next, rank, value
  <2> QED
    BY ONLY <1>1, <1>3, LoopExists
<1> DEFINE skip == CHOOSE g : g = [r \in 1 .. Dep!End |->
        IF Dep!At(r) = "blank" THEN g[r + 1]
        ELSE IF Dep!At(r) = "bs" /\ Dep!At(r + 1) = "cr" /\ Dep!At(r + 2) = "lf" THEN g[r + 3]
        ELSE IF Dep!At(r) = "bs" /\ Dep!At(r + 1) \in Dep!Newlines THEN g[r + 2]
        ELSE r]
<1>5. \A p : Dep!skipWhitespace(p) = skip[p]
  BY DEF Dep!skipWhitespace
<1>6. f = [r \in 1 .. Dep!End |->
        IF Dep!At(r) = "blank" THEN f[r + 1]
        ELSE IF Dep!At(r) = "bs" /\ Dep!At(r + 1) = "cr" /\ Dep!At(r + 2) = "lf" THEN f[r + 3]
        ELSE IF Dep!At(r) = "bs" /\ Dep!At(r + 1) \in Dep!Newlines THEN f[r + 2]
        ELSE r]
  BY <1>4 DEF Loops, Continued, Skipped, Dep!Newlines
<1>7. skip = [r \in 1 .. Dep!End |->
        IF Dep!At(r) = "blank" THEN skip[r + 1]
        ELSE IF Dep!At(r) = "bs" /\ Dep!At(r + 1) = "cr" /\ Dep!At(r + 2) = "lf" THEN skip[r + 3]
        ELSE IF Dep!At(r) = "bs" /\ Dep!At(r + 1) \in Dep!Newlines THEN skip[r + 2]
        ELSE r]
  BY <1>6
<1> HIDE DEF skip
<1>8. skip[q] = IF go[q] THEN skip[next[q]] ELSE q
  BY <1>7 DEF Continued, Skipped, Dep!Newlines
<1>9. go[q] => next[q] \in D /\ next[q] > q
  BY <1>2
<1> QED
  BY <1>5, <1>8, <1>9

(* It stops before the end at what is neither, or at the end.              *)
LEMMA SkipStops ==
    ASSUME Len(text) \in Nat, NEW p \in 1 .. Dep!End
    PROVE  LET s == Dep!skipWhitespace(p)
           IN  s \in p .. Dep!End /\ Dep!At(s) # "blank" /\ ~Continued(s)
<1> DEFINE D == 1 .. Dep!End
           s(q) == Dep!skipWhitespace(q)
           rank == [q \in D |-> Dep!End - q]
           G == {q \in D : s(q) \in q .. Dep!End /\ Dep!At(s(q)) # "blank" /\ ~Continued(s(q))}
<1>1. Dep!End \in Nat /\ D \subseteq Nat /\ rank \in [D -> Nat]
  BY DEF Dep!End
<1>2. ASSUME NEW x \in D, \A y \in D : rank[y] < rank[x] => y \in G
      PROVE  x \in G
  <2>1. CASE Dep!At(x) = "blank" \/ Continued(x)
    <3>1. Skipped(x) \in D /\ Skipped(x) > x /\ s(x) = s(Skipped(x))
      BY <2>1, SkipRounds
    <3> HIDE DEF s
    <3>2. Skipped(x) \in G
      BY <1>1, <1>2, <3>1
    <3> QED
      BY <1>1, <3>1, <3>2
  <2>2. CASE ~(Dep!At(x) = "blank" \/ Continued(x))
    <3>1. s(x) = x
      BY <2>2, SkipRounds
    <3> QED
      BY <1>1, <2>2, <3>1
  <2> QED
    BY <2>1, <2>2
<1>3. D \subseteq G
  <2>1. \A x \in D : (\A y \in D : rank[y] < rank[x] => y \in G) => x \in G
    BY <1>2
  <2> HIDE DEF D, G, rank
  <2> QED
    BY ONLY <1>1, <2>1, RankInduction
<1> QED
  BY <1>3

(* The scanner of the target: from a position, and the start of the last   *)
(* word before it.                                                         *)
ScanFrom(d) ==
    LET scan[e \in Dep!Positions \X Dep!Positions] ==
        LET p == e[1]
            start == e[2]
        IN  IF p >= Dep!End \/ Dep!At(p) \in Dep!Newlines \cup {"hash"} THEN Dep!End
            ELSE IF Dep!At(p) = "bs" /\ p + 1 < Dep!End
                 THEN scan[<<IF Dep!At(p + 1) = "cr" /\ Dep!At(p + 2) = "lf" THEN p + 3 ELSE p + 2, start>>]
            ELSE IF Dep!At(p) = "colon"
                 THEN IF p = start + 1 /\ Dep!At(p + 1) \in {"slash", "bs"}
                      THEN scan[<<p + 1, start>>] ELSE p + 1
            ELSE scan[<<p + 1, IF Dep!At(p) = "blank" THEN p + 1 ELSE start>>]
    IN  scan[d]

(* Where it ends, where it goes on, and to what.                           *)
ScanEnds(p) == p >= Dep!End \/ Dep!At(p) \in Dep!Newlines \cup {"hash"}
QuotesNext(p) == Dep!At(p) = "bs" /\ p + 1 < Dep!End
DrivePrefix(p, start) == p = start + 1 /\ Dep!At(p + 1) \in {"slash", "bs"}
Scans(d) ==
    ~ScanEnds(d[1]) /\ (QuotesNext(d[1]) \/ (Dep!At(d[1]) = "colon" => DrivePrefix(d[1], d[2])))
Scanned(d) ==
    IF QuotesNext(d[1])
    THEN <<IF Dep!At(d[1] + 1) = "cr" /\ Dep!At(d[1] + 2) = "lf" THEN d[1] + 3 ELSE d[1] + 2, d[2]>>
    ELSE <<d[1] + 1, IF Dep!At(d[1]) = "blank" THEN d[1] + 1 ELSE d[2]>>

(* It does so.                                                             *)
LEMMA ScanRounds ==
    ASSUME Len(text) \in Nat, NEW here \in Dep!Positions \X Dep!Positions
    PROVE  IF Scans(here)
           THEN /\ Scanned(here) \in Dep!Positions \X Dep!Positions /\ Scanned(here)[1] > here[1]
                /\ ScanFrom(here) = ScanFrom(Scanned(here))
           ELSE ScanFrom(here) = IF ScanEnds(here[1]) THEN Dep!End ELSE here[1] + 1
<1> DEFINE D == Dep!Positions \X Dep!Positions
           go == [d \in D |-> Scans(d)]
           next == [d \in D |-> Scanned(d)]
           rank == [d \in D |-> Dep!End + 2 - d[1]]
           value == [d \in D |-> IF ScanEnds(d[1]) THEN Dep!End ELSE d[1] + 1]
<1>1. Dep!End \in Nat /\ Dep!End > 0 /\ Dep!Positions = 1 .. Dep!End + 2 /\ rank \in [D -> Nat]
  BY SMTT(30) DEF Dep!End, Dep!Positions
<1>2. ASSUME NEW d \in D, go[d] PROVE next[d] \in D /\ rank[next[d]] < rank[d]
  <2>1. d[1] \in Nat /\ d[1] > 0 /\ d[2] \in Dep!Positions /\ d[1] < Dep!End
    <3>1. d[1] \in Dep!Positions /\ d[2] \in Dep!Positions
      OBVIOUS
    <3>2. ~(d[1] >= Dep!End)
      BY <1>2 DEF Scans, ScanEnds
    <3> HIDE DEF D, go, next
    <3> QED
      BY ONLY <1>1, <3>1, <3>2
  <2>2. d[1] + 1 \in Dep!Positions /\ d[1] + 2 \in Dep!Positions
    BY <1>1, <2>1, SMTT(30)
  <2>3. QuotesNext(d[1]) => d[1] + 3 \in Dep!Positions
    BY <1>1, <2>1, SMTT(30) DEF QuotesNext
  <2>4. PICK p, s \in Dep!Positions : next[d] = <<p, s>> /\ p > d[1]
    <3>1. CASE QuotesNext(d[1])
      <4>1. CASE Dep!At(d[1] + 1) = "cr" /\ Dep!At(d[1] + 2) = "lf"
        <5>1. next[d] = <<d[1] + 3, d[2]>>
          BY <3>1, <4>1 DEF Scanned
        <5> QED
          BY <2>1, <2>3, <3>1, <5>1
      <4>2. CASE ~(Dep!At(d[1] + 1) = "cr" /\ Dep!At(d[1] + 2) = "lf")
        <5>1. next[d] = <<d[1] + 2, d[2]>>
          BY <3>1, <4>2 DEF Scanned
        <5> QED
          BY <2>1, <2>2, <5>1
      <4> QED
        BY <4>1, <4>2
    <3>2. CASE ~QuotesNext(d[1])
      <4>1. next[d] = <<d[1] + 1, d[1] + 1>> \/ next[d] = <<d[1] + 1, d[2]>>
        BY <3>2 DEF Scanned
      <4> QED
        BY <2>1, <2>2, <4>1
    <3> QED
      BY <3>1, <3>2
  <2>5. <<p, s>> \in D /\ rank[<<p, s>>] = Dep!End + 2 - p /\ rank[d] = Dep!End + 2 - d[1]
    BY <2>4 DEF Scans, Scanned, ScanEnds, QuotesNext, DrivePrefix
  <2>6. p \in Nat
    BY <1>1
  <2> HIDE DEF D, next, go, rank
  <2>7. next[d] \in D /\ rank[next[d]] = Dep!End + 2 - p
    BY ONLY <2>4, <2>5
  <2>8. Dep!End + 2 - p < Dep!End + 2 - d[1]
    <3>1. \A a, b, c \in Nat : a > b => c + 2 - a < c + 2 - b
      OBVIOUS
    <3>2. d[1] \in Nat /\ p > d[1]
      BY ONLY <2>1, <2>4
    <3> QED
      BY ONLY <1>1, <2>6, <3>1, <3>2
  <2> QED
    BY ONLY <2>5, <2>7, <2>8
<1>3. PICK f : Loops(f, D, go, next, value)
  <2>1. \A d \in D : go[d] => next[d] \in D /\ rank[next[d]] < rank[d]
    BY <1>2
  <2> HIDE DEF D, go, next, rank, value
  <2> QED
    BY ONLY <1>1, <2>1, LoopExists
<1> DEFINE Step(g, d) ==
        LET p == d[1]
            start == d[2]
        IN  IF p >= Dep!End \/ Dep!At(p) \in Dep!Newlines \cup {"hash"} THEN Dep!End
            ELSE IF Dep!At(p) = "bs" /\ p + 1 < Dep!End
                 THEN g[<<IF Dep!At(p + 1) = "cr" /\ Dep!At(p + 2) = "lf" THEN p + 3 ELSE p + 2, start>>]
            ELSE IF Dep!At(p) = "colon"
                 THEN IF p = start + 1 /\ Dep!At(p + 1) \in {"slash", "bs"}
                      THEN g[<<p + 1, start>>] ELSE p + 1
            ELSE g[<<p + 1, IF Dep!At(p) = "blank" THEN p + 1 ELSE start>>]
           scan == CHOOSE g : g = [d \in Dep!Positions \X Dep!Positions |-> Step(g, d)]
<1>4. \A d : ScanFrom(d) = scan[d]
  BY DEF ScanFrom
<1>5. ASSUME NEW g, NEW d \in D
      PROVE  Step(g, d) = IF go[d] THEN g[next[d]] ELSE value[d]
  <2>1. CASE ScanEnds(d[1])
    BY <2>1 DEF Scans, Scanned, ScanEnds, QuotesNext, DrivePrefix
  <2>2. CASE ~ScanEnds(d[1]) /\ QuotesNext(d[1])
    BY <2>2 DEF Scans, Scanned, ScanEnds, QuotesNext, DrivePrefix
  <2>3. CASE ~ScanEnds(d[1]) /\ ~QuotesNext(d[1]) /\ Dep!At(d[1]) = "colon"
    BY <2>3 DEF Scans, Scanned, ScanEnds, QuotesNext, DrivePrefix
  <2>4. CASE ~ScanEnds(d[1]) /\ ~QuotesNext(d[1]) /\ Dep!At(d[1]) # "colon"
    BY <2>4 DEF Scans, Scanned, ScanEnds, QuotesNext, DrivePrefix
  <2> QED
    BY <2>1, <2>2, <2>3, <2>4
<1>6. f = [d \in Dep!Positions \X Dep!Positions |-> Step(f, d)]
  <2>1. \A d \in D : Step(f, d) = IF go[d] THEN f[next[d]] ELSE value[d]
    BY <1>5
  <2> HIDE DEF go, next, value, Step
  <2> QED
    BY <1>3, <2>1 DEF Loops
<1>7. scan = [d \in Dep!Positions \X Dep!Positions |-> Step(scan, d)]
  <2> HIDE DEF Step
  <2> QED
    BY <1>6
<1> HIDE DEF scan
<1>8. scan[here] = IF go[here] THEN scan[next[here]] ELSE value[here]
  <2>1. scan[here] = Step(scan, here)
    <3> HIDE DEF Step
    <3> QED
      BY <1>7
  <2> QED
    BY <1>5, <2>1, ZenonT(30)
<1>9. go[here] => next[here] \in D /\ next[here][1] > here[1]
  <2> SUFFICES ASSUME go[here] PROVE next[here] \in D /\ next[here][1] > here[1]
    OBVIOUS
  <2>1. next[here] \in D /\ rank[next[here]] < rank[here]
    BY <1>2
  <2>2. rank[next[here]] = Dep!End + 2 - next[here][1] /\ rank[here] = Dep!End + 2 - here[1]
    BY <2>1
  <2>3. next[here][1] \in Nat /\ here[1] \in Nat
    BY <1>1, <2>1, SMTT(30)
  <2> HIDE DEF next, rank, D
  <2> QED
    BY <1>1, <2>1, <2>2, <2>3, SMTT(30)
<1>10. go[here] = Scans(here) /\ next[here] = Scanned(here)
       /\ value[here] = IF ScanEnds(here[1]) THEN Dep!End ELSE here[1] + 1
  OBVIOUS
<1> HIDE DEF go, next, value
<1> QED
  BY <1>4, <1>8, <1>9, <1>10

(* The target ends within the text.                                        *)
LEMMA TargetEnds ==
    ASSUME Len(text) \in Nat
    PROVE  Dep!AfterTarget \in 1 .. Dep!End
<1> DEFINE D == Dep!Positions \X Dep!Positions
           rank == [d \in D |-> Dep!End + 2 - d[1]]
           G == {d \in D : ScanFrom(d) \in 1 .. Dep!End}
<1>1. Dep!End \in Nat /\ Dep!End > 0 /\ Dep!Positions = 1 .. Dep!End + 2
  BY DEF Dep!End, Dep!Positions
<1>2. rank \in [D -> Nat]
  BY <1>1
<1>3. ASSUME NEW x \in D, \A y \in D : rank[y] < rank[x] => y \in G
      PROVE  x \in G
  <2>1. x[1] \in Nat /\ x[1] > 0 /\ rank[x] = Dep!End + 2 - x[1]
    BY <1>1
  <2>2. CASE Scans(x)
    <3>1. Scanned(x) \in D /\ Scanned(x)[1] > x[1] /\ ScanFrom(x) = ScanFrom(Scanned(x))
      BY <2>2, ScanRounds
    <3>2. Scanned(x)[1] \in Nat /\ rank[Scanned(x)] = Dep!End + 2 - Scanned(x)[1]
      BY <1>1, <3>1
    <3> HIDE DEF rank
    <3>3. rank[Scanned(x)] < rank[x]
      BY <1>1, <2>1, <3>1, <3>2
    <3> QED
      BY <1>3, <3>1, <3>3
  <2>3. CASE ~Scans(x)
    <3>1. ScanFrom(x) = IF ScanEnds(x[1]) THEN Dep!End ELSE x[1] + 1
      BY <2>3, ScanRounds
    <3> QED
      BY <1>1, <2>1, <3>1 DEF ScanEnds
  <2> QED
    BY <2>2, <2>3
<1>4. D \subseteq G
  <2>1. \A x \in D : (\A y \in D : rank[y] < rank[x] => y \in G) => x \in G
    BY <1>3
  <2> HIDE DEF D, G, rank
  <2> QED
    BY ONLY <1>2, <2>1, RankInduction
<1>5. <<1, 1>> \in D
  BY <1>1
<1>6. Dep!AfterTarget = ScanFrom(<<1, 1>>)
  BY DEF Dep!AfterTarget, ScanFrom
<1> QED
  BY <1>4, <1>5, <1>6

(* The characters before the first backslash, doubled dollars included:    *)
(* the position plain of TokenEnd.                                         *)
Plain(p) ==
    LET plain[q \in 1 .. Dep!End] ==
            LET s == Dep!findTokenSpecial(q) IN IF Dep!At(s) = "dollar" THEN plain[s + 1] ELSE s
    IN  plain[p]

(* The position where quoted of TokenEnd ends, from where it begins.        *)
QuotedEnd(p) ==
    LET quoted[q \in 1 .. Dep!End] ==
            IF Dep!At(q) = "bs"
            THEN LET r == q + Dep!RunOf(text, q)
                     odd == (r - q) % 2 = 1
                 IN  IF Dep!At(r) \in Dep!Newlines THEN (IF odd THEN r - 1 ELSE r)
                     ELSE IF Dep!At(r) = "hash" \/ (odd /\ Dep!At(r) = "blank") THEN quoted[r + 1]
                     ELSE quoted[r]
            ELSE IF Dep!At(q) \in Dep!Blanks \cup {"hash", "end"} THEN q
            ELSE quoted[q + 1]
    IN  quoted[p]

(* The two scanners are those of TokenEnd.                                 *)
LEMMA TokenEndParts ==
    ASSUME NEW p
    PROVE  Dep!TokenEnd(p) = IF Dep!At(Plain(p)) = "bs" THEN QuotedEnd(Plain(p)) ELSE Plain(p)
BY DEF Dep!TokenEnd, Plain, QuotedEnd

(* The first of them goes on behind a dollar.                              *)
LEMMA PlainRounds ==
    ASSUME Len(text) \in Nat, NEW q \in 1 .. Dep!End
    PROVE  LET s == Dep!findTokenSpecial(q)
           IN  /\ s \in q .. Dep!End
               /\ s = Dep!End \/ text[s] \in Dep!Blanks \cup {"bs", "hash", "dollar"}
               /\ \A r \in q .. s - 1 : text[r] \notin Dep!Blanks \cup {"bs", "hash", "dollar"}
               /\ IF Dep!At(s) = "dollar"
                  THEN s + 1 \in 1 .. Dep!End /\ s + 1 > q /\ Plain(q) = Plain(s + 1)
                  ELSE Plain(q) = s
<1> DEFINE D == 1 .. Dep!End
           go == [r \in D |-> Dep!At(Dep!findTokenSpecial(r)) = "dollar"]
           next == [r \in D |-> Dep!findTokenSpecial(r) + 1]
           rank == [r \in D |-> Dep!End - r]
           value == [r \in D |-> Dep!findTokenSpecial(r)]
<1>1. Dep!End \in Nat /\ D \subseteq Nat /\ rank \in [D -> Nat]
  BY DEF Dep!End
<1>2. ASSUME NEW r \in D
      PROVE  /\ Dep!findTokenSpecial(r) \in r .. Dep!End
             /\ \/ Dep!findTokenSpecial(r) = Dep!End
                \/ text[Dep!findTokenSpecial(r)] \in Dep!Blanks \cup {"bs", "hash", "dollar"}
  BY FirstOfFinds DEF Dep!findTokenSpecial
<1>3. ASSUME NEW r \in D, go[r] PROVE next[r] \in D /\ next[r] > r
  <2>1. Dep!At(Dep!End) # "dollar"
    BY <1>1 DEF Dep!At
  <2>2. Dep!findTokenSpecial(r) # Dep!End
    BY <1>3, <2>1
  <2>3. Dep!findTokenSpecial(r) \in r .. Dep!End
    BY <1>2
  <2> QED
    BY <1>1, <2>2, <2>3
<1>4. PICK f : Loops(f, D, go, next, value)
  <2>1. \A r \in D : go[r] => next[r] \in D /\ rank[next[r]] < rank[r]
    BY <1>1, <1>3
  <2> HIDE DEF D, go, next, rank, value
  <2> QED
    BY ONLY <1>1, <2>1, LoopExists
<1> DEFINE plain == CHOOSE g : g = [r \in 1 .. Dep!End |->
              LET s == Dep!findTokenSpecial(r) IN IF Dep!At(s) = "dollar" THEN g[s + 1] ELSE s]
<1>5. \A p : Plain(p) = plain[p]
  BY DEF Plain
<1>6. f = [r \in 1 .. Dep!End |->
              LET s == Dep!findTokenSpecial(r) IN IF Dep!At(s) = "dollar" THEN f[s + 1] ELSE s]
  BY <1>4 DEF Loops
<1>7. plain = [r \in 1 .. Dep!End |->
              LET s == Dep!findTokenSpecial(r) IN IF Dep!At(s) = "dollar" THEN plain[s + 1] ELSE s]
  BY <1>6
<1> HIDE DEF plain
<1>8. ASSUME NEW r \in D PROVE plain[r] = IF go[r] THEN plain[next[r]] ELSE Dep!findTokenSpecial(r)
  BY <1>7
<1>9. \A r \in q .. Dep!findTokenSpecial(q) - 1 : text[r] \notin Dep!Blanks \cup {"bs", "hash", "dollar"}
  BY FirstOfFinds DEF Dep!findTokenSpecial
<1>10. go[q] => next[q] \in D /\ next[q] > q
  BY <1>3
<1> QED
  BY <1>2, <1>5, <1>8, <1>9, <1>10

(* It stops where a name may end, or later.                                *)
LEMMA PlainMoves ==
    ASSUME Len(text) \in Nat, NEW p \in 1 .. Dep!End
    PROVE  /\ Plain(p) \in p .. Dep!End
           /\ Plain(p) = p => p = Dep!End \/ Dep!At(p) \in Dep!Blanks \cup {"bs", "hash"}
<1> DEFINE D == 1 .. Dep!End
           s(q) == Dep!findTokenSpecial(q)
           rank == [q \in D |-> Dep!End - q]
           Good(q) == /\ Plain(q) \in q .. Dep!End
                      /\ Plain(q) = q => q = Dep!End \/ Dep!At(q) \in Dep!Blanks \cup {"bs", "hash"}
           G == {q \in D : Good(q)}
<1>1. Dep!End \in Nat /\ D \subseteq Nat /\ rank \in [D -> Nat]
  BY DEF Dep!End
<1>2. ASSUME NEW x \in D, \A y \in D : rank[y] < rank[x] => y \in G
      PROVE  x \in G
  <2>1. CASE Dep!At(s(x)) = "dollar"
    <3>1. s(x) + 1 \in D /\ s(x) + 1 > x /\ Plain(x) = Plain(s(x) + 1)
      BY <2>1, PlainRounds
    <3> HIDE DEF s
    <3>2. s(x) + 1 \in G
      BY <1>1, <1>2, <3>1
    <3>3. Plain(x) \in s(x) + 1 .. Dep!End /\ x \in Nat /\ s(x) + 1 \in Nat
      BY <1>1, <3>1, <3>2
    <3>4. Plain(x) \in x .. Dep!End /\ Plain(x) # x
      BY ONLY <1>1, <3>1, <3>3
    <3> QED
      BY <3>4
  <2>2. CASE Dep!At(s(x)) # "dollar"
    <3>1. Plain(x) = s(x) /\ s(x) \in x .. Dep!End
          /\ (s(x) = Dep!End \/ text[s(x)] \in Dep!Blanks \cup {"bs", "hash", "dollar"})
      BY <2>2, PlainRounds
    <3>2. s(x) = x /\ x # Dep!End => Dep!At(x) \in Dep!Blanks \cup {"bs", "hash"}
      BY <1>1, <2>2, <3>1 DEF Dep!At
    <3> QED
      BY <3>1, <3>2
  <2> QED
    BY <2>1, <2>2
<1>3. D \subseteq G
  <2>1. \A x \in D : (\A y \in D : rank[y] < rank[x] => y \in G) => x \in G
    BY <1>2
  <2> HIDE DEF D, G, rank
  <2> QED
    BY ONLY <1>1, <2>1, RankInduction
<1> QED
  BY <1>3

(* The other one at q: the end of its run of backslashes, whether the last *)
(* of them quotes, whether it goes on, and where, or where it ends.        *)
RunEnd(q) == q + Dep!RunOf(text, q)
Quotes(q) == (RunEnd(q) - q) % 2 = 1
PassesNext(q) == Dep!At(RunEnd(q)) = "hash" \/ (Quotes(q) /\ Dep!At(RunEnd(q)) = "blank")
GoesOn(q) ==
    IF Dep!At(q) = "bs" THEN Dep!At(RunEnd(q)) \notin Dep!Newlines
    ELSE Dep!At(q) \notin Dep!Blanks \cup {"hash", "end"}
NextOf(q) ==
    IF Dep!At(q) = "bs" THEN (IF PassesNext(q) THEN RunEnd(q) + 1 ELSE RunEnd(q)) ELSE q + 1
EndsAt(q) ==
    IF Dep!At(q) = "bs" THEN (IF Quotes(q) THEN RunEnd(q) - 1 ELSE RunEnd(q)) ELSE q

(* A run is in the text and has an odd number of backslashes if it has one.*)
LEMMA RunEnds ==
    ASSUME Len(text) \in Nat, NEW q \in 1 .. Dep!End
    PROVE  /\ RunEnd(q) \in q .. Dep!End
           /\ Dep!At(q) = "bs" => RunEnd(q) > q
           /\ ~Quotes(q) => RunEnd(q) # q + 1
<1> DEFINE n == Dep!RunOf(text, q)
<1>1. /\ n \in Nat /\ q + n <= Dep!End
      /\ q + n > Len(text) \/ text[q + n] # "bs"
  BY RunOfCounts DEF Dep!End
<1>2. Dep!At(q) = "bs" => n # 0
  BY <1>1 DEF Dep!At, Dep!End
<1>3. RunEnd(q) = q + n /\ q \in Nat
  BY DEF RunEnd, Dep!End
<1> HIDE DEF n
<1>4. ~Quotes(q) => RunEnd(q) # q + 1
  BY <1>1, <1>3 DEF Quotes
<1> QED
  BY <1>1, <1>2, <1>3, <1>4

(* It goes round as it says.                                               *)
LEMMA QuotedRounds ==
    ASSUME Len(text) \in Nat, NEW q \in 1 .. Dep!End
    PROVE  IF GoesOn(q)
           THEN /\ NextOf(q) \in 1 .. Dep!End /\ NextOf(q) > q
                /\ QuotedEnd(q) = QuotedEnd(NextOf(q))
           ELSE QuotedEnd(q) = EndsAt(q)
<1> DEFINE D == 1 .. Dep!End
           go == [x \in D |-> GoesOn(x)]
           next == [x \in D |-> NextOf(x)]
           rank == [x \in D |-> Dep!End - x]
           value == [x \in D |-> EndsAt(x)]
<1>1. Dep!End \in Nat /\ D \subseteq Nat /\ rank \in [D -> Nat]
  BY DEF Dep!End
<1>2. ASSUME NEW x \in D, go[x] PROVE next[x] \in D /\ next[x] > x
  <2>1. Dep!At(Dep!End) = "end"
    BY <1>1 DEF Dep!At
  <2>2. CASE Dep!At(x) = "bs"
    <3>1. PassesNext(x) => RunEnd(x) # Dep!End
      BY <2>1 DEF PassesNext
    <3>2. RunEnd(x) \in x .. Dep!End /\ RunEnd(x) > x /\ x \in Nat
      BY <1>1, <2>2, RunEnds
    <3> QED
      BY <1>1, <2>2, <3>1, <3>2 DEF NextOf
  <2>3. CASE Dep!At(x) # "bs"
    <3>1. x # Dep!End /\ x \in Nat
      BY <1>1, <1>2, <2>1, <2>3 DEF GoesOn
    <3> QED
      BY <1>1, <2>3, <3>1 DEF NextOf
  <2> QED
    BY <2>2, <2>3
<1>3. \A x \in D : go[x] => next[x] \in D /\ rank[next[x]] < rank[x]
  BY <1>1, <1>2
<1>4. PICK f : Loops(f, D, go, next, value)
  <2> HIDE DEF D, go, next, rank, value
  <2> QED
    BY ONLY <1>1, <1>3, LoopExists
<1> DEFINE Step(g, x) ==
            IF Dep!At(x) = "bs"
            THEN LET r == x + Dep!RunOf(text, x)
                     odd == (r - x) % 2 = 1
                 IN  IF Dep!At(r) \in Dep!Newlines THEN (IF odd THEN r - 1 ELSE r)
                     ELSE IF Dep!At(r) = "hash" \/ (odd /\ Dep!At(r) = "blank") THEN g[r + 1]
                     ELSE g[r]
            ELSE IF Dep!At(x) \in Dep!Blanks \cup {"hash", "end"} THEN x
            ELSE g[x + 1]
           quoted == CHOOSE g : g = [x \in 1 .. Dep!End |-> Step(g, x)]
<1>5. \A p : QuotedEnd(p) = quoted[p]
  BY DEF QuotedEnd
<1>6. ASSUME NEW g, NEW x \in D PROVE Step(g, x) = IF go[x] THEN g[next[x]] ELSE value[x]
  <2>1. go[x] = GoesOn(x) /\ next[x] = NextOf(x) /\ value[x] = EndsAt(x)
    OBVIOUS
  <2> HIDE DEF D, go, next, value
  <2>2. CASE Dep!At(x) = "bs"
    BY <2>1, <2>2 DEF GoesOn, NextOf, EndsAt, PassesNext, Quotes, RunEnd
  <2>3. CASE Dep!At(x) # "bs"
    BY <2>1, <2>3 DEF GoesOn, NextOf, EndsAt
  <2> QED
    BY <2>2, <2>3
<1>7. quoted = [x \in 1 .. Dep!End |-> Step(quoted, x)]
  <2>1. \A x \in D : Step(f, x) = IF go[x] THEN f[next[x]] ELSE value[x]
    BY <1>6
  <2> HIDE DEF go, next, value, Step
  <2>2. f = [x \in 1 .. Dep!End |-> Step(f, x)]
    BY <1>4, <2>1 DEF Loops
  <2> QED
    BY <2>2
<1> HIDE DEF quoted
<1>8. quoted[q] = IF go[q] THEN quoted[next[q]] ELSE value[q]
  <2>1. quoted[q] = Step(quoted, q)
    <3> HIDE DEF Step
    <3> QED
      BY <1>7
  <2>2. q \in D
    OBVIOUS
  <2> HIDE DEF D, Step, go, next, value
  <2> QED
    BY <1>6, <2>1, <2>2
<1>9. go[q] => next[q] \in D /\ next[q] > q
  BY <1>2
<1>10. go[q] = GoesOn(q) /\ next[q] = NextOf(q) /\ value[q] = EndsAt(q)
  OBVIOUS
<1> HIDE DEF go, next, value
<1> QED
  BY <1>5, <1>8, <1>9, <1>10

(* It passes what follows a backslash, unless that is a continuation.      *)
LEMMA QuotedMoves ==
    ASSUME Len(text) \in Nat, NEW p \in 1 .. Dep!End
    PROVE  /\ QuotedEnd(p) \in p .. Dep!End
           /\ QuotedEnd(p) = p /\ Dep!At(p) = "bs" => Dep!At(p + 1) \in Dep!Newlines
<1> DEFINE D == 1 .. Dep!End
           rank == [q \in D |-> Dep!End - q]
           Good(q) == /\ QuotedEnd(q) \in q .. Dep!End
                      /\ QuotedEnd(q) = q /\ Dep!At(q) = "bs" => Dep!At(q + 1) \in Dep!Newlines
           G == {q \in D : Good(q)}
<1>1. Dep!End \in Nat /\ D \subseteq Nat /\ rank \in [D -> Nat]
  BY DEF Dep!End
<1>2. ASSUME NEW x \in D, \A y \in D : rank[y] < rank[x] => y \in G
      PROVE  x \in G
  <2>1. CASE GoesOn(x)
    <3>1. NextOf(x) \in D /\ NextOf(x) > x /\ QuotedEnd(x) = QuotedEnd(NextOf(x))
      BY <2>1, QuotedRounds
    <3>2. NextOf(x) \in G
      BY <1>1, <1>2, <3>1
    <3>3. QuotedEnd(x) \in NextOf(x) .. Dep!End /\ x \in Nat /\ NextOf(x) \in Nat
      BY <1>1, <3>1, <3>2
    <3>4. QuotedEnd(x) \in x .. Dep!End /\ QuotedEnd(x) # x
      BY ONLY <1>1, <3>1, <3>3
    <3> QED
      BY <3>4
  <2>2. CASE ~GoesOn(x)
    <3>1. QuotedEnd(x) = EndsAt(x)
      BY <2>2, QuotedRounds
    <3>2. CASE Dep!At(x) # "bs"
      BY <1>1, <3>1, <3>2 DEF EndsAt
    <3>3. CASE Dep!At(x) = "bs"
      <4>1. Dep!At(RunEnd(x)) \in Dep!Newlines /\ QuotedEnd(x) = IF Quotes(x) THEN RunEnd(x) - 1 ELSE RunEnd(x)
        BY <2>2, <3>1, <3>3 DEF GoesOn, EndsAt
      <4>2. /\ x \in Nat /\ RunEnd(x) \in x .. Dep!End /\ RunEnd(x) > x
            /\ ~Quotes(x) => RunEnd(x) # x + 1
        BY <1>1, <3>3, RunEnds
      <4>3. QuotedEnd(x) \in x .. Dep!End /\ (QuotedEnd(x) = x => RunEnd(x) = x + 1)
        BY ONLY <1>1, <4>1, <4>2
      <4> QED
        BY <4>1, <4>3
    <3> QED
      BY <3>2, <3>3
  <2> QED
    BY <2>1, <2>2
<1>3. D \subseteq G
  <2>1. \A x \in D : (\A y \in D : rank[y] < rank[x] => y \in G) => x \in G
    BY <1>2
  <2> HIDE DEF D, G, rank
  <2> QED
    BY ONLY <1>1, <2>1, RankInduction
<1> QED
  BY <1>3

(* A token ends after it begins, unless it begins at a stop.               *)
LEMMA TokenMoves ==
    ASSUME Len(text) \in Nat, NEW p \in 1 .. Dep!End
    PROVE  /\ Dep!TokenEnd(p) \in p .. Dep!End
           /\ \/ Dep!TokenEnd(p) > p
              \/ p = Dep!End \/ Dep!At(p) \in Dep!Blanks \cup {"hash"}
              \/ (Dep!At(p) = "bs" /\ Dep!At(p + 1) \in Dep!Newlines)
<1>1. Dep!End \in Nat /\ p \in Nat
  BY DEF Dep!End
<1>2. Plain(p) \in p .. Dep!End /\ Plain(p) \in 1 .. Dep!End
  BY <1>1, PlainMoves
<1>3. CASE Dep!At(Plain(p)) = "bs"
  <2>1. Dep!TokenEnd(p) = QuotedEnd(Plain(p))
    BY <1>3, TokenEndParts
  <2>2. /\ Dep!TokenEnd(p) \in Plain(p) .. Dep!End
        /\ Dep!TokenEnd(p) = Plain(p) => Dep!At(Plain(p) + 1) \in Dep!Newlines
    BY <1>2, <1>3, <2>1, QuotedMoves
  <2>3. CASE Plain(p) = p
    BY <1>1, <1>3, <2>2, <2>3
  <2>4. CASE Plain(p) # p
    <3>1. Plain(p) > p /\ Plain(p) \in Nat
      BY <1>1, <1>2, <2>4
    <3> QED
      BY <1>1, <2>2, <3>1
  <2> QED
    BY <2>3, <2>4
<1>4. CASE Dep!At(Plain(p)) # "bs"
  <2>1. Dep!TokenEnd(p) = Plain(p)
    BY <1>4, TokenEndParts
  <2>2. Plain(p) = p => p = Dep!End \/ Dep!At(p) \in Dep!Blanks \cup {"hash"}
    BY <1>4, PlainMoves
  <2>3. Plain(p) # p => Plain(p) > p
    BY ONLY <1>1, <1>2
  <2>4. Dep!TokenEnd(p) \in p .. Dep!End
    BY ONLY <1>2, <2>1
  <2>5. Plain(p) # p => Dep!TokenEnd(p) > p
    BY ONLY <2>1, <2>3
  <2> QED
    BY <2>2, <2>4, <2>5
<1> QED
  BY <1>3, <1>4

(* The reader's part of what EveryRoundAdvances says.                      *)
LEMMA RoundAdvances ==
    ASSUME Len(text) \in Nat, ptr \in 0 .. Dep!End
    PROVE  Dep!EveryRoundAdvances
<1> SUFFICES ASSUME ptr # 0, ~Dep!Stopped PROVE Dep!TokenEnd(Dep!skipWhitespace(ptr)) > ptr
  BY DEF Dep!EveryRoundAdvances
<1> DEFINE s == Dep!skipWhitespace(ptr)
<1>1. Dep!End \in Nat /\ ptr \in 1 .. Dep!End
  BY DEF Dep!End
<1>2. /\ s \in ptr .. Dep!End /\ s \in 1 .. Dep!End
      /\ Dep!At(s) # "blank" /\ ~(Dep!At(s) = "bs" /\ Dep!At(s + 1) \in Dep!Newlines)
  BY <1>1, SkipStops DEF Continued
<1>3. s # Dep!End /\ Dep!At(s) \notin Dep!Blanks \cup {"hash"}
  BY <1>2 DEF Dep!Stopped, Dep!Blanks, Dep!At
<1> HIDE DEF s
<1>4. Dep!TokenEnd(s) > s
  BY <1>2, <1>3, TokenMoves
<1>5. Dep!TokenEnd(s) \in s .. Dep!End
  BY <1>2, TokenMoves
<1> QED
  BY <1>1, <1>2, <1>4, <1>5 DEF s

(* A value over and over is a sequence.                                    *)
LEMMA SameSequences ==
    ASSUME NEW S, NEW n \in Nat, NEW x \in S PROVE [j \in 1 .. n |-> x] \in Seq(S)
OBVIOUS

(* What the compiler's side puts together, part by part.                   *)
Joined(f, n, piece) == f = [i \in 0 .. n |-> IF i = 0 THEN <<>> ELSE f[i - 1] \o piece[i]]

(* There is one, and it ends in a sequence of what the parts are made of.  *)
LEMMA JoinedEnds ==
    ASSUME NEW C, NEW n \in Nat, NEW piece \in [1 .. n -> Seq(C)]
    PROVE  /\ \E f : Joined(f, n, piece)
           /\ \A f : Joined(f, n, piece) => f[n] \in Seq(C)
<1> DEFINE S == Seq(C)
           step == [i \in 1 .. n |-> [s \in S |-> s \o piece[i]]]
<1>1. <<>> \in S
  OBVIOUS
<1>2. ASSUME NEW i \in 1 .. n, NEW s \in S PROVE s \o piece[i] \in S
  <2>1. piece[i] \in S
    OBVIOUS
  <2> HIDE DEF S
  <2> QED
    BY <2>1, ConcatProperties DEF S
<1>3. step \in [1 .. n -> [S -> S]]
  <2> HIDE DEF S
  <2> QED
    BY <1>2
<1>4. PICK f \in [0 .. n -> S] : Iterates(f, n, <<>>, step)
  <2> HIDE DEF S, step
  <2> QED
    BY ONLY n \in Nat, <1>1, <1>3, StepsExist
<1>5. Joined(f, n, piece)
  <2> HIDE DEF S
  <2>1. ASSUME NEW i \in 1 .. n PROVE step[i][f[i - 1]] = f[i - 1] \o piece[i]
    <3>1. f[i - 1] \in S
      <4> HIDE DEF step
      <4> QED
        BY <1>4
    <3> QED
      BY <3>1
  <2> HIDE DEF step
  <2>2. ASSUME NEW i \in 0 .. n
        PROVE  (IF i = 0 THEN <<>> ELSE step[i][f[i - 1]])
                 = IF i = 0 THEN <<>> ELSE f[i - 1] \o piece[i]
    <3>1. CASE i = 0
      BY <3>1
    <3>2. CASE i # 0
      <4>1. i \in 1 .. n
        BY <3>2
      <4> QED
        BY <2>1, <3>2, <4>1
    <3> QED
      BY <3>1, <3>2
  <2> QED
    BY <1>4, <2>2 DEF Iterates, Joined
<1>6. ASSUME NEW g, Joined(g, n, piece) PROVE g[n] \in S
  <2>1. \A i \in 0 .. n : g[i] = IF i = 0 THEN <<>> ELSE g[i - 1] \o piece[i]
    BY <1>6 DEF Joined
  <2> DEFINE Bad == {i \in Nat : i <= n /\ g[i] \notin S}
  <2>2. Bad = {}
    <3> SUFFICES ASSUME Bad # {} PROVE FALSE
      OBVIOUS
    <3>1. PICK i \in Bad : \A k \in Bad : i <= k
      <4>1. Bad \subseteq Nat
        OBVIOUS
      <4> HIDE DEF Bad
      <4> QED
        BY <4>1, LeastNumber
    <3>2. i \in Nat /\ i <= n /\ g[i] \notin S
      BY <3>1
    <3>3. i # 0
      <4>1. g[0] = <<>>
        BY <2>1
      <4> HIDE DEF S
      <4> QED
        BY <1>1, <3>2, <4>1
    <3>4. i - 1 \in Nat /\ i - 1 < i /\ i - 1 <= n /\ i \in 1 .. n /\ i \in 0 .. n
      BY <3>2, <3>3
    <3>5. g[i - 1] \in S
      BY <3>1, <3>4, SMTT(30)
    <3>6. g[i] = g[i - 1] \o piece[i]
      BY <2>1, <3>3, <3>4
    <3> HIDE DEF S, Bad
    <3> QED
      BY <1>2, <3>2, <3>4, <3>5, <3>6
  <2>3. n \in Nat /\ n <= n /\ n \notin Bad
    BY <2>2, SMTT(30)
  <2> HIDE DEF S
  <2> QED
    BY <2>3
<1> QED
  BY <1>5, <1>6

(* Joining adds to what is there: every part stays where it was put.       *)
StaysThere(f, n, piece) ==
    /\ f[0] = <<>>
    /\ \A i \in 1 .. n : Len(f[i]) = Len(f[i - 1]) + Len(piece[i])
    /\ \A i \in 0 .. n : \A j \in i .. n :
         /\ Len(f[i]) <= Len(f[j])
         /\ \A k \in 1 .. Len(f[i]) : f[j][k] = f[i][k]
    /\ \A i \in 1 .. n : \A k \in 1 .. Len(piece[i]) : f[i][Len(f[i - 1]) + k] = piece[i][k]

(* It does, and what is joined so far is a sequence.                       *)
LEMMA JoinedLayout ==
    ASSUME NEW C, NEW n \in Nat, NEW piece \in [1 .. n -> Seq(C)], NEW f, Joined(f, n, piece)
    PROVE  StaysThere(f, n, piece) /\ \A i \in 0 .. n : f[i] \in Seq(C)
<1> DEFINE D == 0 .. n
           rank == [i \in D |-> i]
           S == Seq(C)
<1>1. D \subseteq Nat /\ rank \in [D -> Nat] /\ \A i \in D : rank[i] = i
  OBVIOUS
<1>2. f[0] = <<>> /\ \A i \in 1 .. n : f[i] = f[i - 1] \o piece[i] /\ piece[i] \in S
  <2> HIDE DEF S
  <2>1. 0 \in 0 .. n
    OBVIOUS
  <2>2. f[0] = <<>>
    BY <2>1 DEF Joined
  <2>3. ASSUME NEW i \in 1 .. n PROVE f[i] = f[i - 1] \o piece[i] /\ piece[i] \in S
    <3>1. i \in 0 .. n /\ i # 0
      OBVIOUS
    <3>2. f[i] = f[i - 1] \o piece[i]
      BY <3>1 DEF Joined
    <3> QED
      BY <3>2 DEF S
  <2> QED
    BY <2>2, <2>3
<1>3. <<>> \in S /\ \A s, t \in S : s \o t \in S
  BY ConcatProperties
<1>4. D \subseteq {i \in D : f[i] \in S}
  <2> DEFINE G == {i \in D : f[i] \in S}
  <2>1. ASSUME NEW x \in D, \A y \in D : rank[y] < rank[x] => y \in G
        PROVE  x \in G
    <3>1. CASE x = 0
      <4>1. f[x] \in S
        BY ONLY <1>2, <1>3, <3>1
      <4> QED
        BY <4>1
    <3>2. CASE x # 0
      <4>1. x \in 1 .. n /\ x - 1 \in D /\ x - 1 < x
        BY <3>2
      <4>2. x - 1 \in G
        BY <1>1, <2>1, <4>1
      <4>3. f[x] \in S
        BY <1>2, <1>3, <4>1, <4>2
      <4> QED
        BY <4>3
    <3> QED
      BY <3>1, <3>2
  <2>2. \A x \in D : (\A y \in D : rank[y] < rank[x] => y \in G) => x \in G
    BY <2>1
  <2>3. D \subseteq G
    <3> HIDE DEF D, G, rank
    <3> QED
      BY ONLY <1>1, <2>2, RankInduction
  <2> QED
    BY <2>3
<1>5. \A i \in 1 .. n : i \in D /\ i - 1 \in D
  OBVIOUS
<1>6. ASSUME NEW i \in 1 .. n
      PROVE  /\ Len(f[i - 1]) \in Nat /\ Len(piece[i]) \in Nat
             /\ Len(f[i]) = Len(f[i - 1]) + Len(piece[i])
             /\ \A k \in 1 .. Len(f[i - 1]) : f[i][k] = f[i - 1][k]
             /\ \A k \in 1 .. Len(piece[i]) : f[i][Len(f[i - 1]) + k] = piece[i][k]
  <2>1. f[i - 1] \in Seq(C) /\ piece[i] \in Seq(C) /\ f[i] = f[i - 1] \o piece[i]
    BY <1>2, <1>4, <1>5
  <2> DEFINE a == f[i - 1]
             b == piece[i]
  <2>2. Len(a) \in Nat /\ Len(b) \in Nat
    BY <2>1, LenProperties
  <2>3. /\ Len(f[i]) = Len(a) + Len(b)
        /\ \A k \in 1 .. Len(a) + Len(b) : f[i][k] = IF k <= Len(a) THEN a[k] ELSE b[k - Len(a)]
    BY <2>1, ConcatProperties
  <2> HIDE DEF a, b
  <2>4. \A k \in 1 .. Len(a) : k \in 1 .. Len(a) + Len(b) /\ k <= Len(a)
    BY ONLY <2>2
  <2>5. \A k \in 1 .. Len(b) : Len(a) + k \in 1 .. Len(a) + Len(b) /\ ~(Len(a) + k <= Len(a))
                               /\ Len(a) + k - Len(a) = k
    BY ONLY <2>2
  <2>6. \A k \in 1 .. Len(a) : f[i][k] = a[k]
    BY ONLY <2>3, <2>4
  <2>7. ASSUME NEW k \in 1 .. Len(b) PROVE f[i][Len(a) + k] = b[k]
    <3>1. f[i][Len(a) + k] = b[Len(a) + k - Len(a)]
      BY <2>3, <2>5, SMTT(30)
    <3> QED
      BY <2>5, <3>1
  <2> QED
    BY <2>2, <2>3, <2>6, <2>7 DEF a, b
<1>7. ASSUME NEW i \in 0 .. n
      PROVE  \A j \in i .. n : /\ Len(f[i]) <= Len(f[j])
                               /\ \A k \in 1 .. Len(f[i]) : f[j][k] = f[i][k]
  <2> DEFINE E == i .. n
             height == [j \in E |-> j]
             Kept(j) == /\ Len(f[i]) <= Len(f[j])
                        /\ \A k \in 1 .. Len(f[i]) : f[j][k] = f[i][k]
             G == {j \in E : Kept(j)}
  <2>1. \A j \in E : j \in D /\ j \in Nat /\ Len(f[j]) \in Nat /\ height[j] = j
    BY <1>4, LenProperties
  <2>2. Len(f[i]) \in Nat /\ i \in E /\ i \in Nat
    BY <1>4, LenProperties
  <2>3. ASSUME NEW x \in E, \A y \in E : height[y] < height[x] => y \in G
        PROVE  x \in G
    <3>1. CASE x = i
      BY <2>2, <3>1
    <3>2. CASE x # i
      <4>1. x \in 1 .. n /\ x - 1 \in E /\ x - 1 < x
        BY <3>2
      <4>2. Kept(x - 1)
        BY <2>1, <2>3, <4>1
      <4>3. /\ Len(f[x - 1]) \in Nat /\ Len(f[x - 1]) <= Len(f[x])
            /\ \A k \in 1 .. Len(f[x - 1]) : f[x][k] = f[x - 1][k]
        BY <1>6, <4>1, SMTT(30)
      <4>4. Len(f[x]) \in Nat
        BY <2>1
      <4>5. Kept(x)
        BY ONLY <2>2, <4>2, <4>3, <4>4
      <4> QED
        BY <4>5
    <3> QED
      BY <3>1, <3>2
  <2>4. \A x \in E : (\A y \in E : height[y] < height[x] => y \in G) => x \in G
    BY <2>3
  <2>5. height \in [E -> Nat]
    BY <2>1
  <2>6. E \subseteq G
    <3> HIDE DEF E, G, height
    <3> QED
      BY ONLY <2>4, <2>5, RankInduction
  <2> QED
    BY <2>6
<1>8. StaysThere(f, n, piece)
  BY <1>2, <1>6, <1>7 DEF StaysThere
<1> QED
  BY <1>4, <1>8

-----------------------------------------------------------------------------
(* What the compiler's side writes for one character of a name.            *)
Before(name, i) ==
    CHOOSE k \in 0 .. i - 1 : /\ \A j \in i - k .. i - 1 : name[j] = "bs"
                              /\ k = i - 1 \/ name[i - k - 1] # "bs"
Coded(name, i) ==
    CASE name[i] = "blank" -> [j \in 1 .. Before(name, i) + 1 |-> "bs"] \o <<"blank">>
      [] name[i] = "hash" -> <<"bs", "hash">>
      [] name[i] = "dollar" -> <<"dollar", "dollar">>
      [] OTHER -> <<name[i]>>

(* It counts the backslashes before a character.                           *)
LEMMA BeforeCounts ==
    ASSUME NEW name, NEW i \in Nat \ {0}
    PROVE  /\ Before(name, i) \in 0 .. i - 1
           /\ \A j \in i - Before(name, i) .. i - 1 : name[j] = "bs"
           /\ Before(name, i) = i - 1 \/ name[i - Before(name, i) - 1] # "bs"
<1> DEFINE K == {k \in Nat : k = i - 1 \/ name[i - k - 1] # "bs"}
<1>1. i - 1 \in K /\ K \subseteq Nat
  OBVIOUS
<1>2. PICK k \in K : \A m \in K : k <= m
  <2> HIDE DEF K
  <2> QED
    BY <1>1, LeastNumber
<1>3. k \in 0 .. i - 1
  BY <1>1, <1>2
<1>4. ASSUME NEW j \in i - k .. i - 1 PROVE name[j] = "bs"
  <2>1. i - j - 1 \in Nat /\ i - j - 1 < k /\ i - (i - j - 1) - 1 = j
    BY <1>3
  <2>2. i - j - 1 \notin K
    <3>1. k \in Nat
      BY <1>3
    <3> HIDE DEF K
    <3> QED
      BY ONLY <1>2, <2>1, <3>1
  <2> QED
    BY <2>1, <2>2
<1>5. \E m \in 0 .. i - 1 : /\ \A j \in i - m .. i - 1 : name[j] = "bs"
                            /\ m = i - 1 \/ name[i - m - 1] # "bs"
  BY <1>2, <1>3, <1>4
<1> QED
  BY <1>5 DEF Before

(* And nothing else is that count.                                         *)
LEMMA BeforeIs ==
    ASSUME NEW name, NEW i \in Nat \ {0}, NEW m \in 0 .. i - 1,
           \A j \in i - m .. i - 1 : name[j] = "bs",
           m = i - 1 \/ name[i - m - 1] # "bs"
    PROVE  Before(name, i) = m
<1> DEFINE b == Before(name, i)
<1>1. /\ b \in 0 .. i - 1
      /\ \A j \in i - b .. i - 1 : name[j] = "bs"
      /\ b = i - 1 \/ name[i - b - 1] # "bs"
  BY BeforeCounts
<1> HIDE DEF b
<1>2. ~(b < m)
  <2> SUFFICES ASSUME b < m PROVE FALSE
    OBVIOUS
  <2>1. i - b - 1 \in i - m .. i - 1 /\ b # i - 1
    BY <1>1
  <2> QED
    BY <1>1, <2>1
<1>3. ~(m < b)
  <2> SUFFICES ASSUME m < b PROVE FALSE
    OBVIOUS
  <2>1. i - m - 1 \in i - b .. i - 1 /\ m # i - 1
    BY <1>1
  <2> QED
    BY <1>1, <2>1
<1>4. b = m
  BY <1>1, <1>2, <1>3
<1> QED
  BY <1>4 DEF b

(* What is written for a character is made of character classes.           *)
LEMMA CodedIsText ==
    ASSUME NEW name \in Seq(Dep!Classes), NEW i \in 1 .. Len(name)
    PROVE  Coded(name, i) \in Seq(Dep!Classes)
<1> DEFINE S == Seq(Dep!Classes)
<1>1. name[i] \in Dep!Classes /\ i \in Nat \ {0}
  OBVIOUS
<1>2. {"bs", "blank", "hash", "dollar"} \subseteq Dep!Classes
  BY DEF Dep!Classes
<1>3. [j \in 1 .. Before(name, i) + 1 |-> "bs"] \in S
  <2>1. Before(name, i) + 1 \in Nat /\ "bs" \in Dep!Classes
    BY <1>1, <1>2, BeforeCounts
  <2> QED
    BY ONLY <2>1, SameSequences
<1> DEFINE run == [j \in 1 .. Before(name, i) + 1 |-> "bs"]
<1> HIDE DEF run
<1>4. run \o <<"blank">> \in S
  BY <1>2, <1>3 DEF run
<1>5. /\ <<"bs", "hash">> \in S
      /\ <<"dollar", "dollar">> \in S
      /\ <<name[i]>> \in S
  BY <1>1, <1>2
<1> QED
  BY <1>4, <1>5 DEF run, Coded

(* A name is written as what is written for its characters, joined.        *)
LEMMA QuotedIsJoined ==
    ASSUME NEW name \in Seq(Dep!Classes)
    PROVE  /\ [i \in 1 .. Len(name) |-> Coded(name, i)] \in [1 .. Len(name) -> Seq(Dep!Classes)]
           /\ \E f : /\ Joined(f, Len(name), [i \in 1 .. Len(name) |-> Coded(name, i)])
                     /\ Dep!Quoted(name) = f[Len(name)]
<1> DEFINE n == Len(name)
           piece == [i \in 1 .. n |-> Coded(name, i)]
           Body(f) == [i \in 0 .. n |-> IF i = 0 THEN <<>> ELSE f[i - 1] \o Coded(name, i)]
           enc == CHOOSE f : f = Body(f)
<1>1. n \in Nat /\ piece \in [1 .. n -> Seq(Dep!Classes)]
  BY CodedIsText
<1>2. ASSUME NEW f PROVE f = Body(f) <=> Joined(f, n, piece)
  <2>1. ASSUME NEW i \in 0 .. n
        PROVE  (IF i = 0 THEN <<>> ELSE f[i - 1] \o Coded(name, i))
                 = IF i = 0 THEN <<>> ELSE f[i - 1] \o piece[i]
    <3>1. CASE i = 0
      BY <3>1
    <3>2. CASE i # 0
      <4>1. i \in 1 .. n
        BY <1>1, <3>2
      <4>2. piece[i] = Coded(name, i)
        BY <4>1
      <4> QED
        BY <4>2
    <3> QED
      BY <3>1, <3>2
  <2> HIDE DEF n, piece
  <2> QED
    BY <2>1 DEF Joined
<1> HIDE DEF n, piece, Body
<1>3. Joined(enc, n, piece)
  <2>1. PICK f : f = Body(f)
    BY <1>1, <1>2, JoinedEnds
  <2>2. enc = Body(enc)
    BY <2>1
  <2> HIDE DEF enc
  <2> QED
    BY <1>2, <2>2
<1>4. Dep!Quoted(name) = enc[n]
  BY DEF Dep!Quoted, Coded, Before, Body, n
<1> HIDE DEF enc
<1> QED
  BY <1>1, <1>3, <1>4 DEF n, piece

(* What is written for a name is made of character classes.                *)
LEMMA QuotedIsText ==
    ASSUME NEW name \in Seq(Dep!Classes)
    PROVE  Dep!Quoted(name) \in Seq(Dep!Classes)
<1> DEFINE n == Len(name)
           piece == [i \in 1 .. n |-> Coded(name, i)]
<1>1. n \in Nat
  OBVIOUS
<1>2. piece \in [1 .. n -> Seq(Dep!Classes)]
  BY QuotedIsJoined
<1>3. PICK f : Joined(f, n, piece) /\ Dep!Quoted(name) = f[n]
  BY QuotedIsJoined
<1> HIDE DEF n, piece
<1> QED
  BY <1>1, <1>2, <1>3, JoinedEnds

(* Where what is written for the characters of a name ends.                *)
Places(pos, name) ==
    /\ pos \in [0 .. Len(name) -> Nat]
    /\ pos[0] = 0 /\ pos[Len(name)] = Len(Dep!Quoted(name))
    /\ \A i \in 1 .. Len(name) :
         /\ pos[i] = pos[i - 1] + Len(Coded(name, i))
         /\ pos[i] <= Len(Dep!Quoted(name))
         /\ \A k \in 1 .. Len(Coded(name, i)) : Dep!Quoted(name)[pos[i - 1] + k] = Coded(name, i)[k]

(* It has such places.                                                     *)
LEMMA QuotedLayout ==
    ASSUME NEW name \in Seq(Dep!Classes)
    PROVE  \E pos : Places(pos, name)
<1> DEFINE n == Len(name)
           piece == [i \in 1 .. n |-> Coded(name, i)]
           C == Dep!Classes
<1>1. n \in Nat
  OBVIOUS
<1>2. piece \in [1 .. n -> Seq(C)]
  BY QuotedIsJoined
<1>3. PICK f : Joined(f, n, piece) /\ Dep!Quoted(name) = f[n]
  BY QuotedIsJoined
<1>4. \A i \in 1 .. n : piece[i] = Coded(name, i)
  OBVIOUS
<1> DEFINE pos == [i \in 0 .. n |-> Len(f[i])]
<1> HIDE DEF n, piece, C
<1>5. /\ f[0] = <<>>
      /\ \A i \in 0 .. n : f[i] \in Seq(C)
      /\ \A i \in 1 .. n : Len(f[i]) = Len(f[i - 1]) + Len(piece[i])
      /\ \A i \in 0 .. n : \A j \in i .. n :
           /\ Len(f[i]) <= Len(f[j])
           /\ \A k \in 1 .. Len(f[i]) : f[j][k] = f[i][k]
      /\ \A i \in 1 .. n : \A k \in 1 .. Len(piece[i]) : f[i][Len(f[i - 1]) + k] = piece[i][k]
  <2>1. StaysThere(f, n, piece) /\ \A i \in 0 .. n : f[i] \in Seq(C)
    BY <1>1, <1>2, <1>3, JoinedLayout
  <2> QED
    BY <2>1 DEF StaysThere
<1>6. pos \in [0 .. n -> Nat] /\ pos[0] = 0 /\ pos[n] = Len(f[n])
  <2>1. \A i \in 0 .. n : Len(f[i]) \in Nat
    BY <1>5, LenProperties
  <2>2. 0 \in 0 .. n /\ n \in 0 .. n /\ Len(f[0]) = 0
    BY <1>1, <1>5
  <2> QED
    BY <2>1, <2>2
<1>7. ASSUME NEW i \in 1 .. n
      PROVE  /\ pos[i] = pos[i - 1] + Len(Coded(name, i))
             /\ pos[i] <= Len(f[n])
             /\ \A k \in 1 .. Len(Coded(name, i)) : f[n][pos[i - 1] + k] = Coded(name, i)[k]
  <2>1. i \in 0 .. n /\ i - 1 \in 0 .. n /\ n \in i .. n
    BY <1>1
  <2>2. /\ Len(f[i]) = Len(f[i - 1]) + Len(piece[i])
        /\ Len(f[i]) <= Len(f[n])
        /\ \A k \in 1 .. Len(f[i]) : f[n][k] = f[i][k]
        /\ \A k \in 1 .. Len(piece[i]) : f[i][Len(f[i - 1]) + k] = piece[i][k]
    BY <1>5, <2>1
  <2>3. Len(f[i - 1]) \in Nat /\ Len(piece[i]) \in Nat
    BY <1>2, <1>5, <2>1, LenProperties
  <2>4. \A k \in 1 .. Len(piece[i]) : Len(f[i - 1]) + k \in 1 .. Len(f[i])
    <3>1. \A a, b \in Nat : \A k \in 1 .. b : a + k \in 1 .. a + b
      OBVIOUS
    <3> QED
      BY ONLY <2>2, <2>3, <3>1
  <2>5. \A k \in 1 .. Len(piece[i]) : f[n][Len(f[i - 1]) + k] = piece[i][k]
    BY <2>2, <2>4
  <2> QED
    BY <1>4, <2>1, <2>2, <2>5
<1> HIDE DEF pos
<1>8. Places(pos, name)
  BY <1>3, <1>6, <1>7 DEF Places, n
<1> QED
  BY <1>8

(* What is written for a character.                                        *)
LEMMA CodedIs ==
    ASSUME NEW name, NEW i \in Nat \ {0}
    PROVE  /\ name[i] = "blank" =>
                /\ Len(Coded(name, i)) = Before(name, i) + 2
                /\ \A j \in 1 .. Before(name, i) + 1 : Coded(name, i)[j] = "bs"
                /\ Coded(name, i)[Before(name, i) + 2] = "blank"
           /\ name[i] = "hash" =>
                Len(Coded(name, i)) = 2 /\ Coded(name, i)[1] = "bs" /\ Coded(name, i)[2] = "hash"
           /\ name[i] = "dollar" =>
                Len(Coded(name, i)) = 2 /\ Coded(name, i)[1] = "dollar" /\ Coded(name, i)[2] = "dollar"
           /\ name[i] \notin {"blank", "hash", "dollar"} =>
                Len(Coded(name, i)) = 1 /\ Coded(name, i)[1] = name[i]
<1> DEFINE b == Before(name, i) + 1
           run == [j \in 1 .. b |-> "bs"]
<1>1. b \in Nat
  BY BeforeCounts
<1> HIDE DEF b
<1>2. run \in Seq({"bs"}) /\ Len(run) = b /\ \A j \in 1 .. b : run[j] = "bs"
  BY <1>1
<1> HIDE DEF run
<1>3. /\ Len(run \o <<"blank">>) = b + 1
      /\ \A j \in 1 .. b : (run \o <<"blank">>)[j] = "bs"
      /\ (run \o <<"blank">>)[b + 1] = "blank"
  <2>1. run \in Seq({"bs", "blank"}) /\ <<"blank">> \in Seq({"bs", "blank"})
    BY <1>2
  <2>2. Len(<<"blank">>) = 1 /\ <<"blank">>[1] = "blank"
    OBVIOUS
  <2> DEFINE close == <<"blank">>
  <2> HIDE DEF close
  <2>3. /\ Len(run \o close) = Len(run) + Len(close)
        /\ \A j \in 1 .. Len(run) + Len(close) : (run \o close)[j] = IF j <= Len(run) THEN run[j] ELSE close[j - Len(run)]
    BY <2>1, ConcatProperties DEF close
  <2>4. Len(close) = 1 /\ close[1] = "blank"
    BY <2>2 DEF close
  <2>5. b + 1 \in 1 .. b + 1 /\ ~(b + 1 <= b) /\ b + 1 - b = 1
    BY <1>1
  <2>6. \A j \in 1 .. b : j \in 1 .. b + 1 /\ j <= b
    BY <1>1
  <2> QED
    BY <1>2, <2>3, <2>4, <2>5, <2>6 DEF close
<1>4. name[i] = "blank" => Coded(name, i) = run \o <<"blank">> /\ b + 1 = Before(name, i) + 2
  <2>1. Before(name, i) \in Nat
    BY BeforeCounts
  <2>2. name[i] = "blank" => Coded(name, i) = [j \in 1 .. Before(name, i) + 1 |-> "bs"] \o <<"blank">>
    BY DEF Coded
  <2> QED
    BY <2>1, <2>2, SMTT(30) DEF run, b
<1>5. name[i] = "hash" => Coded(name, i) = <<"bs", "hash">>
  BY DEF Coded
<1>6. name[i] = "dollar" => Coded(name, i) = <<"dollar", "dollar">>
  BY DEF Coded
<1>7. name[i] \notin {"blank", "hash", "dollar"} => Coded(name, i) = <<name[i]>>
  BY DEF Coded
<1>8. name[i] = "blank" => /\ Len(Coded(name, i)) = Before(name, i) + 2
                           /\ \A j \in 1 .. Before(name, i) + 1 : Coded(name, i)[j] = "bs"
                           /\ Coded(name, i)[Before(name, i) + 2] = "blank"
  BY <1>3, <1>4 DEF b
<1> QED
  BY <1>5, <1>6, <1>7, <1>8

(* How many backslashes and copies are written for a character behind m    *)
(* backslashes and for those.                                              *)
Slashes(c, m) == CASE c = "blank" -> 2 * m + 1 [] c = "hash" -> m + 1 [] OTHER -> m
Copies(c) == IF c = "dollar" THEN 2 ELSE 1

(* The backslashes from character i on, and the character behind them.     *)
Group(name, i, m) ==
    /\ m \in Nat /\ i + m <= Len(name)
    /\ \A j \in i .. i + m - 1 : name[j] = "bs"
    /\ name[i + m] # "bs"

(* They are there, as a name does not end in a backslash.                  *)
LEMMA GroupExists ==
    ASSUME NEW name, Dep!IsName(name), NEW i \in 1 .. Len(name)
    PROVE  \E m : Group(name, i, m)
<1> DEFINE n == Len(name)
           K == {m \in Nat : i + m <= n /\ name[i + m] # "bs"}
<1>1. n \in Nat /\ name[n] # "bs"
  BY DEF Dep!IsName
<1>2. n - i \in K /\ K \subseteq Nat
  <2> HIDE DEF n
  <2>1. i \in Nat /\ i <= n /\ n - i \in Nat /\ i + (n - i) = n
    BY <1>1 DEF n
  <2> QED
    BY <1>1, <2>1
<1>3. PICK m \in K : \A k \in K : m <= k
  <2> HIDE DEF K
  <2> QED
    BY <1>2, LeastNumber
<1>4. ASSUME NEW j \in i .. i + m - 1 PROVE name[j] = "bs"
  <2>1. j - i \in Nat /\ j - i < m /\ i + (j - i) = j /\ i + (j - i) <= n
    BY <1>1, <1>3
  <2>2. j - i \notin K
    <3>1. m \in Nat
      BY <1>3
    <3> HIDE DEF K
    <3> QED
      BY ONLY <1>3, <2>1, <3>1
  <2> QED
    BY <2>1, <2>2
<1> QED
  BY <1>3, <1>4 DEF Group

(* What is written for a group: the backslashes that the reader takes for  *)
(* those of the name, with what they quote.                                *)
LEMMA GroupPlaces ==
    ASSUME NEW name \in Seq(Dep!Classes), NEW pos, Places(pos, name),
           NEW i \in 1 .. Len(name), i = 1 \/ name[i - 1] # "bs", NEW m, Group(name, i, m)
    PROVE  LET c == name[i + m]
               k == Slashes(c, m)
               d == Copies(c)
               a == pos[i - 1]
           IN  /\ a \in Nat /\ k \in Nat /\ d \in {1, 2}
               /\ pos[i + m] = a + k + d /\ pos[i + m] <= Len(Dep!Quoted(name))
               /\ \A j \in 1 .. k : Dep!Quoted(name)[a + j] = "bs"
               /\ \A j \in 1 .. d : Dep!Quoted(name)[a + k + j] = c
<1> DEFINE n == Len(name)
           q == Dep!Quoted(name)
           a == pos[i - 1]
           c == name[i + m]
           k == Slashes(c, m)
           d == Copies(c)
<1>1. /\ n \in Nat /\ i \in Nat /\ i >= 1 /\ m \in Nat /\ i + m <= n /\ c # "bs"
      /\ \A j \in i .. i + m - 1 : name[j] = "bs"
  BY DEF Group
<1>2. /\ pos \in [0 .. n -> Nat]
      /\ \A j \in 1 .. n : /\ pos[j] = pos[j - 1] + Len(Coded(name, j))
                           /\ pos[j] <= Len(q)
                           /\ \A l \in 1 .. Len(Coded(name, j)) : q[pos[j - 1] + l] = Coded(name, j)[l]
  BY DEF Places
<1> HIDE DEF n, q
<1>3. a \in Nat
  <2>1. i - 1 \in 0 .. n
    BY <1>1
  <2> QED
    BY <1>2, <2>1
<1>4. ASSUME NEW j \in i .. i + m - 1
      PROVE  pos[j] = pos[j - 1] + 1 /\ q[pos[j - 1] + 1] = "bs"
  <2>1. j \in Nat \ {0} /\ j \in 1 .. n /\ name[j] = "bs"
    BY <1>1
  <2>2. Len(Coded(name, j)) = 1 /\ Coded(name, j)[1] = "bs"
    BY <2>1, CodedIs
  <2>3. /\ pos[j] = pos[j - 1] + Len(Coded(name, j))
        /\ \A l \in 1 .. Len(Coded(name, j)) : q[pos[j - 1] + l] = Coded(name, j)[l]
    BY ONLY <1>2, <2>1
  <2> QED
    BY ONLY <2>2, <2>3
<1> HIDE DEF a, c
<1>5. \A l \in 0 .. m : pos[i - 1 + l] = a + l
  <2> DEFINE D == 0 .. m
             rank == [l \in D |-> l]
             G == {l \in D : pos[i - 1 + l] = a + l}
  <2>1. rank \in [D -> Nat] /\ \A l \in D : rank[l] = l /\ l \in Nat
    BY <1>1
  <2>2. ASSUME NEW l \in D, \A g \in D : rank[g] < rank[l] => g \in G
        PROVE  l \in G
    <3>1. CASE l = 0
      <4>1. i - 1 + 0 = i - 1
        BY <1>1
      <4> QED
        BY <1>3, <3>1, <4>1 DEF a
    <3>2. CASE l # 0
      <4>1. l \in Nat /\ l - 1 \in D /\ l - 1 < l /\ i - 1 + l \in i .. i + m - 1
            /\ i - 1 + l - 1 = i - 1 + (l - 1)
        BY <1>1, <3>2
      <4>2. l - 1 \in G
        BY <2>1, <2>2, <4>1
      <4>3. pos[i - 1 + (l - 1)] = a + (l - 1)
        BY <4>2
      <4>4. pos[i - 1 + l] = a + (l - 1) + 1
        BY <1>4, <4>1, <4>3
      <4>5. a + (l - 1) + 1 = a + l
        BY <1>3, <4>1
      <4> QED
        BY <4>4, <4>5
    <3> QED
      BY <3>1, <3>2
  <2>3. D \subseteq G
    <3>1. \A l \in D : (\A g \in D : rank[g] < rank[l] => g \in G) => l \in G
      BY <2>2
    <3> HIDE DEF D, G, rank
    <3> QED
      BY ONLY <2>1, <3>1, RankInduction
  <2> QED
    BY <2>3
<1>6. \A l \in 1 .. m : q[a + l] = "bs"
  <2> TAKE l \in 1 .. m
  <2>1. /\ l - 1 \in 0 .. m /\ i - 1 + l \in i .. i + m - 1
        /\ i - 1 + l - 1 = i - 1 + (l - 1) /\ a + (l - 1) + 1 = a + l
    BY <1>1, <1>3
  <2>2. q[pos[i - 1 + l - 1] + 1] = "bs"
    BY <1>4, <2>1
  <2>3. pos[i - 1 + (l - 1)] = a + (l - 1)
    BY <1>5, <2>1
  <2> QED
    BY <2>1, <2>2, <2>3
<1>7. pos[i + m - 1] = a + m
  <2>1. m \in 0 .. m /\ i - 1 + m = i + m - 1
    BY <1>1
  <2> QED
    BY <1>5, <2>1
<1>8. Before(name, i + m) = m
  <2> DEFINE e == i + m
  <2>1. e \in Nat \ {0} /\ m \in 0 .. e - 1 /\ e - m = i /\ e - 1 = i + m - 1 /\ e - m - 1 = i - 1
        /\ (i = 1 => m = e - 1)
    BY <1>1
  <2> HIDE DEF e
  <2>2. \A j \in e - m .. e - 1 : name[j] = "bs"
    BY <1>1, <2>1
  <2>3. m = e - 1 \/ name[e - m - 1] # "bs"
    BY <2>1
  <2>4. Before(name, e) = m
    BY ONLY <2>1, <2>2, <2>3, BeforeIs
  <2> QED
    BY <2>4 DEF e
<1>9. /\ pos[i + m] = a + m + Len(Coded(name, i + m))
      /\ pos[i + m] <= Len(q)
      /\ \A l \in 1 .. Len(Coded(name, i + m)) : q[a + m + l] = Coded(name, i + m)[l]
  <2>1. i + m \in 1 .. n
    BY <1>1
  <2> DEFINE e == i + m
  <2>2. e \in 1 .. n /\ pos[e - 1] = a + m
    <3>1. e - 1 = i + m - 1
      BY <1>1
    <3> QED
      BY <1>7, <2>1, <3>1
  <2> HIDE DEF e
  <2>3. /\ pos[e] = pos[e - 1] + Len(Coded(name, e))
        /\ pos[e] <= Len(q)
        /\ \A l \in 1 .. Len(Coded(name, e)) : q[pos[e - 1] + l] = Coded(name, e)[l]
    BY ONLY <1>2, <2>2
  <2>4. /\ pos[e] = a + m + Len(Coded(name, e))
        /\ pos[e] <= Len(q)
        /\ \A l \in 1 .. Len(Coded(name, e)) : q[a + m + l] = Coded(name, e)[l]
    BY ONLY <2>2, <2>3
  <2> QED
    BY <2>4 DEF e
<1>10. i + m \in Nat \ {0}
  BY <1>1
<1> DEFINE Goal == /\ a \in Nat /\ k \in Nat /\ d \in {1, 2}
                   /\ pos[i + m] = a + k + d
                   /\ \A j \in 1 .. k : q[a + j] = "bs"
                   /\ \A j \in 1 .. d : q[a + k + j] = c
<1>11. ASSUME c = "blank" PROVE Goal
  <2>1. k = 2 * m + 1 /\ d = 1
    BY <1>11 DEF Slashes, Copies
  <2>2. /\ Len(Coded(name, i + m)) = m + 2
        /\ \A j \in 1 .. m + 1 : Coded(name, i + m)[j] = "bs"
        /\ Coded(name, i + m)[m + 2] = "blank"
    BY <1>8, <1>10, <1>11, CodedIs DEF c
  <2> HIDE DEF k, d
  <2>3. pos[i + m] = a + k + d /\ k \in Nat
    <3>1. pos[i + m] = a + m + (m + 2)
      BY ONLY <1>9, <2>2
    <3> QED
      BY ONLY <1>1, <1>3, <2>1, <3>1
  <2>4. \A j \in 1 .. k : q[a + j] = "bs"
    <3> TAKE j \in 1 .. k
    <3>1. CASE j <= m
      BY <1>1, <1>6, <2>1, <3>1
    <3>2. CASE ~(j <= m)
      <4>1. j - m \in 1 .. m + 1 /\ j - m \in 1 .. m + 2 /\ a + m + (j - m) = a + j
        BY <1>1, <1>3, <2>1, <3>2
      <4> QED
        BY <1>9, <2>2, <4>1
    <3> QED
      BY <3>1, <3>2
  <2>5. q[a + k + 1] = c
    <3>1. m + 2 \in 1 .. m + 2 /\ a + m + (m + 2) = a + k + 1
      BY <1>1, <1>3, <2>1
    <3> QED
      BY <1>9, <1>11, <2>2, <3>1
  <2>6. \A j \in 1 .. d : q[a + k + j] = c
    BY <2>1, <2>5
  <2> QED
    BY <1>3, <2>1, <2>3, <2>4, <2>6
<1>12. ASSUME c = "hash" PROVE Goal
  <2>1. k = m + 1 /\ d = 1
    BY <1>12 DEF Slashes, Copies
  <2>2. /\ Len(Coded(name, i + m)) = 2
        /\ Coded(name, i + m)[1] = "bs" /\ Coded(name, i + m)[2] = "hash"
    BY <1>10, <1>12, CodedIs DEF c
  <2> HIDE DEF k, d
  <2>3. pos[i + m] = a + k + d /\ k \in Nat
    <3>1. pos[i + m] = a + m + 2
      BY ONLY <1>9, <2>2
    <3> QED
      BY ONLY <1>1, <1>3, <2>1, <3>1
  <2>4. q[a + m + 1] = "bs" /\ q[a + m + 2] = "hash"
    BY <1>9, <2>2
  <2>5. \A j \in 1 .. k : q[a + j] = "bs"
    <3> TAKE j \in 1 .. k
    <3>1. j \in 1 .. m \/ a + j = a + m + 1
      BY <1>1, <1>3, <2>1
    <3> QED
      BY <1>6, <2>4, <3>1
  <2>6. a + k + 1 = a + m + 2
    BY <1>1, <1>3, <2>1
  <2>7. \A j \in 1 .. d : q[a + k + j] = c
    BY <1>12, <2>1, <2>4, <2>6
  <2> QED
    BY <1>3, <2>1, <2>3, <2>5, <2>7
<1>13. ASSUME c = "dollar" PROVE Goal
  <2>1. k = m /\ d = 2
    BY <1>13 DEF Slashes, Copies
  <2>2. /\ Len(Coded(name, i + m)) = 2
        /\ Coded(name, i + m)[1] = "dollar" /\ Coded(name, i + m)[2] = "dollar"
    BY <1>10, <1>13, CodedIs DEF c
  <2> HIDE DEF k, d
  <2>3. q[a + m + 1] = "dollar" /\ q[a + m + 2] = "dollar"
    BY <1>9, <2>2
  <2>4. \A j \in 1 .. d : q[a + k + j] = c
    BY <1>13, <2>1, <2>3
  <2> QED
    BY <1>1, <1>3, <1>6, <1>9, <2>1, <2>2, <2>4 DEF Goal
<1>14. ASSUME c \notin {"blank", "hash", "dollar"} PROVE Goal
  <2>1. k = m /\ d = 1
    BY <1>14 DEF Slashes, Copies
  <2>2. Len(Coded(name, i + m)) = 1 /\ Coded(name, i + m)[1] = c
    BY <1>10, <1>14, CodedIs DEF c
  <2> HIDE DEF k, d
  <2>3. \A j \in 1 .. d : q[a + k + j] = c
    BY <1>9, <2>1, <2>2
  <2> QED
    BY <1>1, <1>3, <1>6, <1>9, <2>1, <2>2, <2>3 DEF Goal
<1>15. Goal
  <2> HIDE DEF Goal
  <2> QED
    BY <1>11, <1>12, <1>13, <1>14
<1> QED
  BY <1>9, <1>15 DEF a, c, q

(* A sequence has what is written for a group, behind position a.          *)
HasGroup(s, a, m, c) ==
    /\ a \in Nat /\ m \in Nat /\ c \in Dep!Classes \ ({"bs"} \cup Dep!Newlines)
    /\ a + Slashes(c, m) + Copies(c) <= Len(s)
    /\ \A j \in 1 .. Slashes(c, m) : s[a + j] = "bs"
    /\ \A j \in 1 .. Copies(c) : s[a + Slashes(c, m) + j] = c

(* What is written for a name has its groups.                              *)
LEMMA GroupWritten ==
    ASSUME NEW name \in Seq(Dep!Classes), Dep!IsName(name), NEW pos, Places(pos, name),
           NEW i \in 1 .. Len(name), i = 1 \/ name[i - 1] # "bs"
    PROVE  \E m : /\ Group(name, i, m) /\ m \in Nat /\ i + m \in 1 .. Len(name)
                  /\ HasGroup(Dep!Quoted(name), pos[i - 1], m, name[i + m])
                  /\ pos[i + m] = pos[i - 1] + Slashes(name[i + m], m) + Copies(name[i + m])
<1>1. PICK m : Group(name, i, m)
  BY GroupExists
<1> DEFINE c == name[i + m]
           k == Slashes(c, m)
           d == Copies(c)
           a == pos[i - 1]
           q == Dep!Quoted(name)
<1>2. m \in Nat /\ i + m \in 1 .. Len(name) /\ c # "bs"
  BY <1>1 DEF Group
<1>3. c \in Dep!Classes \ ({"bs"} \cup Dep!Newlines)
  <2>1. \A j \in 1 .. Len(name) : name[j] \in Dep!Classes \ Dep!Newlines
    BY DEF Dep!IsName
  <2> QED
    BY <1>2, <2>1
<1> HIDE DEF c
<1>4. /\ a \in Nat
      /\ pos[i + m] = a + k + d /\ pos[i + m] <= Len(q)
      /\ \A j \in 1 .. k : q[a + j] = "bs"
      /\ \A j \in 1 .. d : q[a + k + j] = c
  BY <1>1, GroupPlaces DEF c
<1>5. a + k + d <= Len(q)
  BY <1>4
<1>6. HasGroup(q, a, m, c)
  <2> HIDE DEF a, q
  <2> QED
    BY <1>2, <1>3, <1>4, <1>5 DEF HasGroup
<1> QED
  BY <1>1, <1>2, <1>4, <1>6 DEF c

(* A text that has a sequence behind o has its groups.                     *)
LEMMA GroupShifted ==
    ASSUME NEW s, NEW t, NEW o \in Nat, Len(s) \in Nat, Len(t) \in Nat, o + Len(s) <= Len(t),
           \A j \in 1 .. Len(s) : t[o + j] = s[j],
           NEW a, NEW m, NEW c, HasGroup(s, a, m, c)
    PROVE  HasGroup(t, o + a, m, c)
<1> DEFINE k == Slashes(c, m)
           d == Copies(c)
           w == o + a
<1>1. /\ a \in Nat /\ m \in Nat /\ c \in Dep!Classes \ ({"bs"} \cup Dep!Newlines)
      /\ a + k + d <= Len(s)
      /\ \A j \in 1 .. k : s[a + j] = "bs"
      /\ \A j \in 1 .. d : s[a + k + j] = c
  BY DEF HasGroup
<1>2. k \in Nat /\ d \in {1, 2}
  BY <1>1, SMTT(30) DEF Slashes, Copies
<1> HIDE DEF k, d
<1>3. a \in Nat /\ k \in Nat /\ d \in {1, 2} /\ a + k + d <= Len(s)
  BY <1>1, <1>2
<1>4. w \in Nat /\ w + k + d <= Len(t)
  BY <1>3, SMTT(30)
<1>5. \A j \in 1 .. k : t[w + j] = "bs"
  <2> TAKE j \in 1 .. k
  <2>1. a + j \in 1 .. Len(s) /\ o + (a + j) = w + j
    BY ONLY <1>3, Len(s) \in Nat
  <2> QED
    BY <1>1, <2>1
<1>6. \A j \in 1 .. d : t[w + k + j] = c
  <2> TAKE j \in 1 .. d
  <2>1. a + k + j \in 1 .. Len(s) /\ o + (a + k + j) = w + k + j
    BY ONLY <1>3, Len(s) \in Nat
  <2> QED
    BY <1>1, <2>1
<1> HIDE DEF w
<1>7. HasGroup(t, w, m, c)
  BY <1>1, <1>4, <1>5, <1>6 DEF HasGroup, k, d
<1> QED
  BY <1>7 DEF w

-----------------------------------------------------------------------------
(* The decoder from position i of a token: what it takes, and where it     *)
(* goes on.                                                                *)
Decoded(token, p) ==
    LET dec[i \in 1 .. Len(token) + 3] ==
        IF i > Len(token) THEN <<>>
        ELSE IF token[i] = "bs"
             THEN LET n == Dep!RunOf(token, i)
                      next == IF i + n <= Len(token) THEN token[i + n] ELSE "end"
                      kept == CASE next = "hash" -> n - 1 [] next = "blank" -> n \div 2 [] OTHER -> n
                  IN  [j \in 1 .. kept |-> "bs"] \o dec[i + n]
        ELSE <<token[i]>> \o dec[i + (IF token[i] = "dollar" /\ i < Len(token) /\ token[i + 1] = "dollar"
                                      THEN 2 ELSE 1)]
    IN  dec[p]

Run(m) == [j \in 1 .. m |-> "bs"]
RunAnd(m, c, s) == Run(m) \o (<<c>> \o s)
Behind(token, i) ==
    IF i + Dep!RunOf(token, i) <= Len(token) THEN token[i + Dep!RunOf(token, i)] ELSE "end"
Kept(token, i) ==
    CASE Behind(token, i) = "hash" -> Dep!RunOf(token, i) - 1
      [] Behind(token, i) = "blank" -> Dep!RunOf(token, i) \div 2
      [] OTHER -> Dep!RunOf(token, i)
Yields(token, i) == IF token[i] = "bs" THEN Run(Kept(token, i)) ELSE <<token[i]>>
Ahead(token, i) ==
    IF token[i] = "bs" THEN i + Dep!RunOf(token, i)
    ELSE i + (IF token[i] = "dollar" /\ i < Len(token) /\ token[i + 1] = "dollar" THEN 2 ELSE 1)

(* It takes character classes, and goes on.                                *)
LEMMA YieldIsText ==
    ASSUME NEW token \in Seq(Dep!Classes), NEW i \in 1 .. Len(token)
    PROVE  Yields(token, i) \in Seq(Dep!Classes) /\ Ahead(token, i) \in i + 1 .. Len(token) + 1
<1> DEFINE n == Dep!RunOf(token, i)
           l == Len(token)
<1>1. l \in Nat /\ i \in Nat /\ i >= 1 /\ i <= l /\ token[i] \in Dep!Classes
  OBVIOUS
<1>2. /\ n \in Nat /\ i + n <= l + 1
      /\ i + n > l \/ token[i + n] # "bs"
  BY RunOfCounts
<1> HIDE DEF n, l
<1>3. CASE token[i] = "bs"
  <2>1. n > 0
    <3>1. n = 0 => i + n = i
      BY <1>1
    <3> QED
      BY <1>1, <1>2, <1>3, <3>1
  <2>2. Kept(token, i) \in Nat
    <3>1. n - 1 \in Nat /\ n \div 2 \in Nat
      BY <1>2, <2>1
    <3> QED
      BY <1>2, <3>1 DEF Kept, n
  <2>3. Run(Kept(token, i)) \in Seq(Dep!Classes)
    <3>1. "bs" \in Dep!Classes
      BY DEF Dep!Classes
    <3> QED
      BY ONLY <2>2, <3>1, SameSequences DEF Run
  <2>4. i + n \in i + 1 .. l + 1
    BY <1>1, <1>2, <2>1
  <2> QED
    BY <1>3, <2>3, <2>4 DEF Yields, Ahead, n, l
<1>4. CASE token[i] # "bs"
  <2>1. <<token[i]>> \in Seq(Dep!Classes)
    BY <1>1
  <2>2. i + 1 \in i + 1 .. l + 1 /\ (i < l => i + 2 \in i + 1 .. l + 1)
    BY <1>1
  <2> QED
    BY <1>4, <2>1, <2>2 DEF Yields, Ahead, l
<1> QED
  BY <1>3, <1>4

(* It does so.                                                             *)
LEMMA DecodeRounds ==
    ASSUME NEW token \in Seq(Dep!Classes), NEW q \in 1 .. Len(token) + 1
    PROVE  Decoded(token, q) = IF q > Len(token) THEN <<>>
                               ELSE Yields(token, q) \o Decoded(token, Ahead(token, q))
<1> DEFINE D == 1 .. Len(token) + 3
           V == Seq(Dep!Classes)
           rank == [i \in D |-> Len(token) + 3 - i]
           go == [i \in D |-> ~(i > Len(token))]
           succ == [i \in D |-> Ahead(token, i)]
           step == [p \in D \X V |-> Yields(token, p[1]) \o p[2]]
           value == [i \in D |-> <<>>]
<1>1. Len(token) \in Nat /\ rank \in [D -> Nat]
  OBVIOUS
<1>2. ASSUME NEW i \in D, go[i]
      PROVE  /\ succ[i] \in D /\ rank[succ[i]] < rank[i] /\ Ahead(token, i) \in D
             /\ \A v \in V : step[<<i, v>>] = Yields(token, i) \o v /\ step[<<i, v>>] \in V
  <2>1. i \in 1 .. Len(token)
    <3>1. ~(i > Len(token)) /\ i \in 1 .. Len(token) + 3
      BY <1>2
    <3> QED
      BY ONLY <1>1, <3>1
  <2>2. Yields(token, i) \in V /\ Ahead(token, i) \in i + 1 .. Len(token) + 1
    BY <2>1, YieldIsText
  <2>3. Ahead(token, i) \in D /\ Ahead(token, i) > i
    BY <1>1, <2>1, <2>2
  <2>4. \A v \in V : step[<<i, v>>] = Yields(token, i) \o v
    <3> HIDE DEF V, D
    <3> QED
      OBVIOUS
  <2>5. \A v \in V : Yields(token, i) \o v \in V
    BY <2>2, ConcatProperties
  <2>6. succ[i] \in D /\ rank[succ[i]] < rank[i]
    BY <1>1, <2>1, <2>3
  <2> HIDE DEF D, V, step, succ, rank
  <2> QED
    BY <2>3, <2>4, <2>5, <2>6
<1>3. ASSUME NEW i \in D PROVE value[i] \in V /\ value[i] = <<>>
  OBVIOUS
<1>4. PICK f \in [D -> V] : Turns(f, D, go, succ, step, value)
  <2>1. \A i \in D : go[i] => /\ succ[i] \in D /\ rank[succ[i]] < rank[i]
                            /\ \A v \in V : step[<<i, v>>] \in V
    <3> HIDE DEF D, V, go, succ, step, rank
    <3> QED
      BY <1>2
  <2>2. \A i \in D : ~go[i] => value[i] \in V
    BY <1>3
  <2> HIDE DEF D, V, go, succ, step, value, rank
  <2> QED
    BY ONLY <1>1, <2>1, <2>2, TurnsExist
<1> DEFINE Body(g, i) ==
        IF i > Len(token) THEN <<>>
        ELSE IF token[i] = "bs"
             THEN LET n == Dep!RunOf(token, i)
                      next == IF i + n <= Len(token) THEN token[i + n] ELSE "end"
                      kept == CASE next = "hash" -> n - 1 [] next = "blank" -> n \div 2 [] OTHER -> n
                  IN  [j \in 1 .. kept |-> "bs"] \o g[i + n]
        ELSE <<token[i]>> \o g[i + (IF token[i] = "dollar" /\ i < Len(token) /\ token[i + 1] = "dollar"
                                      THEN 2 ELSE 1)]
           dec == CHOOSE g : g = [i \in 1 .. Len(token) + 3 |-> Body(g, i)]
<1>5. \A p : Decoded(token, p) = dec[p]
  BY DEF Decoded
<1>6. ASSUME NEW g, NEW i PROVE Body(g, i) = IF i > Len(token) THEN <<>> ELSE Yields(token, i) \o g[Ahead(token, i)]
  <2>1. CASE i > Len(token)
    BY <2>1
  <2>2. CASE ~(i > Len(token)) /\ token[i] = "bs"
    BY <2>2 DEF Run, Yields, Ahead, Kept, Behind
  <2>3. CASE ~(i > Len(token)) /\ token[i] # "bs"
    BY <2>3 DEF Yields, Ahead
  <2> QED
    BY <2>1, <2>2, <2>3
<1> HIDE DEF Body
<1>7. f = [i \in 1 .. Len(token) + 3 |-> Body(f, i)]
  <2>1. ASSUME NEW i \in D
        PROVE  (IF go[i] THEN step[<<i, f[succ[i]]>>] ELSE value[i]) = Body(f, i)
    <3>1. CASE go[i]
      <4>1. succ[i] \in D /\ succ[i] = Ahead(token, i)
        BY <1>2, <3>1
      <4>2. f[succ[i]] \in V
        <5> HIDE DEF D, V, succ
        <5> QED
          BY <4>1
      <4>3. step[<<i, f[succ[i]]>>] = Yields(token, i) \o f[succ[i]]
        <5> HIDE DEF step, V, D, succ
        <5> QED
          BY <1>2, <3>1, <4>2
      <4>4. ~(i > Len(token))
        BY <3>1
      <4> HIDE DEF step, succ, go, D, V
      <4> QED
        BY <1>6, <3>1, <4>1, <4>3, <4>4
    <3>2. CASE ~go[i]
      <4>1. i > Len(token) /\ value[i] = <<>>
        BY <3>2
      <4> HIDE DEF go, value, step, succ
      <4> QED
        BY <1>6, <3>2, <4>1
    <3> QED
      BY <3>1, <3>2
  <2> HIDE DEF go, step, succ, value
  <2> QED
    BY <1>4, <2>1 DEF Turns
<1>8. dec = [i \in 1 .. Len(token) + 3 |-> Body(dec, i)]
  BY <1>7
<1> HIDE DEF dec
<1>9. dec[q] = Body(dec, q)
  <2>1. q \in 1 .. Len(token) + 3
    BY <1>1
  <2> QED
    BY <1>8, <2>1
<1> QED
  BY <1>5, <1>6, <1>9

(* What it makes of a token is made of character classes.                  *)
LEMMA DecodedIsText ==
    ASSUME NEW token \in Seq(Dep!Classes), NEW q \in 1 .. Len(token) + 1
    PROVE  Decoded(token, q) \in Seq(Dep!Classes)
<1> DEFINE D == 1 .. Len(token) + 1
           rank == [i \in D |-> Len(token) + 1 - i]
           G == {i \in D : Decoded(token, i) \in Seq(Dep!Classes)}
<1>1. Len(token) \in Nat /\ rank \in [D -> Nat]
  OBVIOUS
<1>2. ASSUME NEW i \in D, \A j \in D : rank[j] < rank[i] => j \in G PROVE i \in G
  <2>1. CASE i > Len(token)
    <3>1. Decoded(token, i) = <<>>
      BY <2>1, DecodeRounds
    <3> QED
      BY <3>1
  <2>2. CASE ~(i > Len(token))
    <3>1. i \in 1 .. Len(token)
      BY <1>1, <2>2
    <3>2. Yields(token, i) \in Seq(Dep!Classes) /\ Ahead(token, i) \in i + 1 .. Len(token) + 1
      BY <3>1, YieldIsText
    <3>3. Ahead(token, i) \in D /\ rank[Ahead(token, i)] < rank[i]
      BY <1>1, <3>1, <3>2
    <3>4. Decoded(token, Ahead(token, i)) \in Seq(Dep!Classes)
      BY <1>2, <3>3
    <3>5. Decoded(token, i) = Yields(token, i) \o Decoded(token, Ahead(token, i))
      BY <2>2, DecodeRounds
    <3>6. Decoded(token, i) \in Seq(Dep!Classes)
      BY ONLY <3>2, <3>4, <3>5, ConcatProperties
    <3> QED
      BY <3>6
  <2> QED
    BY <2>1, <2>2
<1>3. D \subseteq G
  <2>1. \A i \in D : (\A j \in D : rank[j] < rank[i] => j \in G) => i \in G
    BY <1>2
  <2> HIDE DEF D, rank, G
  <2> QED
    BY ONLY <1>1, <2>1, RankInduction
<1> QED
  BY <1>3

(* A group is taken as the name has it.                                    *)
LEMMA GroupDecoded ==
    ASSUME NEW token \in Seq(Dep!Classes), NEW a, NEW m, NEW c, HasGroup(token, a, m, c)
    PROVE  Decoded(token, a + 1) = RunAnd(m, c, Decoded(token, a + Slashes(c, m) + Copies(c) + 1))
<1> DEFINE k == Slashes(c, m)
           d == Copies(c)
           p == a + k + 1
           l == Len(token)
<1>10. /\ a \in Nat /\ m \in Nat /\ c # "bs" /\ a + k + d <= l
       /\ \A j \in 1 .. k : token[a + j] = "bs"
       /\ \A j \in 1 .. d : token[a + k + j] = c
  BY DEF HasGroup
<1>1. /\ a \in Nat /\ m \in Nat /\ c # "bs" /\ k \in Nat /\ d \in {1, 2} /\ l \in Nat /\ a + k + d <= l
      /\ k = 0 => m = 0
      /\ d = 2 <=> c = "dollar"
  BY <1>10 DEF Slashes, Copies
<1>2. c = "blank" => k = 2 * m + 1
  BY DEF Slashes
<1>3. c = "hash" => k = m + 1
  BY DEF Slashes
<1>4. c \notin {"blank", "hash"} => k = m
  BY DEF Slashes
<1>5. (\A j \in 1 .. k : token[a + j] = "bs") /\ (\A j \in 1 .. d : token[a + k + j] = c)
  BY <1>10
<1> HIDE DEF k, d, l
<1>6. p \in 1 .. l /\ p \in 1 .. l + 1 /\ token[p] = c
  <2>1. 1 \in 1 .. d /\ p \in 1 .. l /\ p \in 1 .. l + 1
    BY <1>1
  <2> QED
    BY <1>5, <2>1
<1>7. Decoded(token, p) = <<c>> \o Decoded(token, a + k + d + 1)
  <2>1. Decoded(token, p) = Yields(token, p) \o Decoded(token, Ahead(token, p))
    <3>1. p \in 1 .. Len(token) + 1 /\ ~(p > Len(token))
      BY <1>1, <1>6 DEF l
    <3> HIDE DEF p
    <3> QED
      BY <3>1, DecodeRounds
  <2>2. Yields(token, p) = <<c>>
    BY <1>1, <1>6 DEF Yields
  <2>3. Ahead(token, p) = a + k + d + 1
    <3>1. CASE c = "dollar"
      <4>1. p < l /\ token[p + 1] = "dollar" /\ token[p] = "dollar" /\ p + 2 = a + k + d + 1
        <5>1. d = 2 /\ p + 1 = a + k + 2 /\ p + 2 = a + k + d + 1 /\ p < l
          BY <1>1, <3>1
        <5> QED
          BY <1>5, <1>6, <3>1, <5>1
      <4> HIDE DEF p
      <4> QED
        BY <4>1 DEF Ahead, l
    <3>2. CASE c # "dollar"
      <4>1. p + 1 = a + k + d + 1
        BY <1>1, <3>2
      <4> HIDE DEF p
      <4> QED
        BY <1>1, <1>6, <3>2, <4>1 DEF Ahead
    <3> QED
      BY <3>1, <3>2
  <2> HIDE DEF p
  <2> QED
    BY <2>1, <2>2, <2>3
<1>8. CASE k = 0
  <2>1. m = 0 /\ p = a + 1
    BY <1>1, <1>8
  <2>2. Run(m) = <<>>
    BY <2>1 DEF Run
  <2>3. <<c>> \o Decoded(token, a + k + d + 1) \in Seq(Dep!Classes)
    <3>1. Decoded(token, p) \in Seq(Dep!Classes)
      BY <1>6, DecodedIsText DEF l
    <3> HIDE DEF p
    <3> QED
      BY <1>7, <3>1
  <2> DEFINE back == <<c>> \o Decoded(token, a + k + d + 1)
  <2>4. <<>> \o back = back
    <3> HIDE DEF back
    <3> QED
      BY <2>3, ConcatEmptySeq DEF back
  <2>5. Decoded(token, a + 1) = back
    BY <1>7, <2>1
  <2> HIDE DEF back
  <2> QED
    BY <2>2, <2>4, <2>5 DEF back, k, d, RunAnd
<1>9. CASE k # 0
  <2> DEFINE b == a + 1
  <2>1. b \in 1 .. l /\ b \in 1 .. l + 1 /\ token[b] = "bs" /\ b + k = p /\ k > 0
    <3>1. b \in 1 .. l /\ b \in 1 .. l + 1 /\ b + k = p /\ 1 \in 1 .. k /\ k > 0
      BY <1>1, <1>9
    <3> QED
      BY <1>5, <3>1
  <2>2. Dep!RunOf(token, b) = k
    <3>1. \A j \in b .. b + k - 1 : token[j] = "bs"
      <4> TAKE j \in b .. b + k - 1
      <4>1. j - a \in 1 .. k /\ a + (j - a) = j
        BY <1>1
      <4> QED
        BY <1>5, <4>1
    <3>2. b + k <= l + 1 /\ token[b + k] # "bs" /\ b \in 1 .. l + 1
      BY <1>1, <1>6, <2>1
    <3> HIDE DEF b
    <3> QED
      BY <1>1, <3>1, <3>2, RunOfIs DEF l
  <2>3. Decoded(token, b) = Yields(token, b) \o Decoded(token, Ahead(token, b))
    <3>1. b \in 1 .. Len(token) + 1 /\ ~(b > Len(token))
      BY <1>1, <2>1 DEF l
    <3> HIDE DEF b
    <3> QED
      BY <3>1, DecodeRounds
  <2>4. Ahead(token, b) = p
    <3> HIDE DEF b, p
    <3> QED
      BY <2>1, <2>2 DEF Ahead
  <2>5. Behind(token, b) = c
    <3>1. p <= l
      BY <1>6
    <3> HIDE DEF b, p
    <3> QED
      BY <1>6, <2>1, <2>2, <3>1 DEF Behind, l
  <2>6. Kept(token, b) = m
    <3> HIDE DEF b, p
    <3>1. CASE c = "blank"
      <4>1. Kept(token, b) = k \div 2
        BY <2>2, <2>5, <3>1 DEF Kept
      <4>2. (2 * m + 1) \div 2 = m
        BY <1>1
      <4> QED
        BY <1>2, <3>1, <4>1, <4>2
    <3>2. CASE c = "hash"
      <4>1. Kept(token, b) = k - 1
        BY <2>2, <2>5, <3>2 DEF Kept
      <4> QED
        BY <1>1, <1>3, <3>2, <4>1
    <3>3. CASE c \notin {"blank", "hash"}
      <4>1. Kept(token, b) = k
        BY <2>2, <2>5, <3>3 DEF Kept
      <4> QED
        BY <1>4, <3>3, <4>1
    <3> QED
      BY <3>1, <3>2, <3>3
  <2>7. Yields(token, b) = Run(m)
    <3> HIDE DEF b
    <3> QED
      BY <2>1, <2>6 DEF Yields
  <2>8. Decoded(token, b) = RunAnd(m, c, Decoded(token, a + k + d + 1))
    <3> HIDE DEF b, p
    <3> QED
      BY <1>7, <2>3, <2>4, <2>7 DEF RunAnd
  <2> QED
    BY <2>8 DEF k, d
<1> QED
  BY <1>8, <1>9

(* The rest of a name is its first group and what follows that.            *)
LEMMA GroupsOfName ==
    ASSUME NEW name \in Seq(Dep!Classes), NEW i \in 1 .. Len(name), NEW m, Group(name, i, m)
    PROVE  SubSeq(name, i, Len(name)) = RunAnd(m, name[i + m], SubSeq(name, i + m + 1, Len(name)))
<1> DEFINE n == Len(name)
           e == i + m
<1>1. /\ n \in Nat /\ i \in 1 .. n + 1 /\ m \in Nat /\ e \in 1 .. n /\ n \in e .. n
      /\ e - 1 \in i - 1 .. n /\ n \in e - 1 .. n /\ e - 1 + 1 = e
      /\ \A j \in i .. e - 1 : name[j] = "bs"
  BY DEF Group
<1>2. SubSeq(name, e, n) = <<name[e]>> \o SubSeq(name, e + 1, n)
  <2> HIDE DEF e
  <2> QED
    BY <1>1, SubSeqRecursiveFirst DEF n
<1>3. SubSeq(name, i, e - 1) \o SubSeq(name, e, n) = SubSeq(name, i, n)
  <2> DEFINE h == e - 1
  <2>1. h \in i - 1 .. Len(name) /\ n \in h .. Len(name) /\ i \in 1 .. Len(name) + 1 /\ h + 1 = e
    BY <1>1
  <2> HIDE DEF h
  <2>2. SubSeq(name, i, h) \o SubSeq(name, h + 1, n) = SubSeq(name, i, n)
    BY ONLY <2>1, name \in Seq(Dep!Classes), ConcatAdjacentSubSeq
  <2> QED
    BY <2>1, <2>2 DEF h
<1>4. SubSeq(name, i, e - 1) = Run(m)
  <2>1. i \in Int /\ e - 1 \in Int /\ e - 1 - i + 1 = m /\ i \in 1 .. n /\ e - 1 <= n
        /\ (~(i <= e - 1) => m = 0)
    BY <1>1
  <2>2. \A j \in i .. e - 1 : name[j] \in Dep!Classes
    BY <1>1 DEF Dep!Classes
  <2> DEFINE h == e - 1
             s == SubSeq(name, i, h)
  <2>3. /\ s \in Seq(Dep!Classes)
        /\ Len(s) = IF i <= h THEN h - i + 1 ELSE 0
        /\ \A j \in 1 .. h - i + 1 : s[j] = name[i + j - 1]
    <3> HIDE DEF h
    <3> QED
      BY <2>1, <2>2, SubSeqProperties DEF h
  <2>4. Len(s) = m
    BY <2>1, <2>3
  <2>5. \A j \in 1 .. m : s[j] = "bs"
    <3> TAKE j \in 1 .. m
    <3>1. j \in 1 .. h - i + 1 /\ i + j - 1 \in i .. e - 1
      BY <1>1
    <3> QED
      BY <1>1, <2>3, <3>1
  <2>6. s \in [1 .. m -> Dep!Classes]
    <3> HIDE DEF s
    <3> QED
      BY <2>3, <2>4, LenProperties
  <2> HIDE DEF s
  <2>7. s = Run(m)
    BY <2>5, <2>6 DEF Run
  <2> QED
    BY <2>7 DEF s
<1> QED
  BY <1>2, <1>3, <1>4 DEF RunAnd

(* What is read of a quoted name is the name.                              *)
LEMMA NameDecoded ==
    ASSUME NEW name \in Seq(Dep!Classes), Dep!IsName(name)
    PROVE  Dep!decodeDepfileToken(Dep!Quoted(name)) = name
<1> DEFINE n == Len(name)
           q == Dep!Quoted(name)
<1>1. n \in Nat /\ n > 0 /\ name[n] # "bs" /\ q \in Seq(Dep!Classes)
  BY QuotedIsText DEF Dep!IsName
<1>2. PICK pos : Places(pos, name)
  BY QuotedLayout
<1>3. pos \in [0 .. n -> Nat] /\ pos[0] = 0 /\ pos[n] = Len(q) /\ Len(q) \in Nat
  BY <1>1, <1>2 DEF Places
<1> DEFINE D == {i \in 1 .. n + 1 : i = 1 \/ name[i - 1] # "bs"}
           rank == [i \in D |-> n + 1 - i]
           G == {i \in D : Decoded(q, pos[i - 1] + 1) = SubSeq(name, i, n)}
<1>4. rank \in [D -> Nat]
  BY <1>1
<1>5. ASSUME NEW i \in D, \A j \in D : rank[j] < rank[i] => j \in G PROVE i \in G
  <2>1. CASE i = n + 1
    <3>1. i - 1 = n /\ Len(q) + 1 \in 1 .. Len(q) + 1 /\ Len(q) + 1 > Len(q) /\ i > n /\ i \in Int /\ n \in Int
      BY <1>1, <1>3, <2>1
    <3>2. Decoded(q, Len(q) + 1) = <<>>
      <4> HIDE DEF q
      <4> QED
        BY <1>1, <3>1, DecodeRounds
    <3>3. SubSeq(name, i, n) = <<>>
      BY <3>1, SubSeqEmpty
    <3>4. Decoded(q, pos[i - 1] + 1) = SubSeq(name, i, n)
      BY <1>3, <3>1, <3>2, <3>3
    <3> QED
      BY <3>4
  <2>2. CASE i # n + 1
    <3>1. i \in 1 .. n /\ i \in 1 .. Len(name) /\ (i = 1 \/ name[i - 1] # "bs")
      BY <1>1, <2>2
    <3>2. PICK m : /\ Group(name, i, m) /\ m \in Nat /\ i + m \in 1 .. Len(name)
                   /\ HasGroup(q, pos[i - 1], m, name[i + m])
                   /\ pos[i + m] = pos[i - 1] + Slashes(name[i + m], m) + Copies(name[i + m])
      BY <1>2, <3>1, GroupWritten
    <3> DEFINE c == name[i + m]
               k == Slashes(c, m)
               d == Copies(c)
               a == pos[i - 1]
    <3>3. c # "bs" /\ pos[i + m] = a + k + d
      BY <3>2 DEF Group
    <3>4. HasGroup(q, a, m, c)
      BY <3>2
    <3>5. q \in Seq(Dep!Classes)
      BY <1>1
    <3> HIDE DEF c, a, q
    <3>6. Decoded(q, a + 1) = RunAnd(m, c, Decoded(q, a + k + d + 1))
      BY <3>4, <3>5, GroupDecoded
    <3>7. SubSeq(name, i, n) = RunAnd(m, c, SubSeq(name, i + m + 1, n))
      BY <3>1, <3>2, GroupsOfName DEF c
    <3>8. Decoded(q, a + k + d + 1) = SubSeq(name, i + m + 1, n)
      <4> DEFINE h == i + m + 1
      <4>1. h \in 1 .. n + 1 /\ h - 1 = i + m
        BY <3>1, <3>2
      <4>2. h \in D
        <5>1. name[h - 1] # "bs"
          BY <3>3, <4>1 DEF c
        <5> HIDE DEF h
        <5> QED
          BY <4>1, <5>1
      <4>3. rank[h] < rank[i]
        BY <1>1, <3>2, <4>2
      <4>4. h \in G
        <5> HIDE DEF h, D, G, rank
        <5> QED
          BY <1>5, <4>2, <4>3
      <4>5. Decoded(q, pos[h - 1] + 1) = SubSeq(name, h, n)
        <5> HIDE DEF h
        <5> QED
          BY <4>4
      <4>6. pos[h - 1] + 1 = a + k + d + 1
        <5> HIDE DEF h
        <5> QED
          BY <3>3, <4>1
      <4> QED
        BY <4>5, <4>6
    <3>9. Decoded(q, pos[i - 1] + 1) = SubSeq(name, i, n)
      BY <3>6, <3>7, <3>8 DEF a
    <3> QED
      BY <3>9
  <2> QED
    BY <2>1, <2>2
<1>6. D \subseteq G
  <2>1. \A i \in D : (\A j \in D : rank[j] < rank[i] => j \in G) => i \in G
    BY <1>5
  <2> HIDE DEF D, rank, G
  <2> QED
    BY ONLY <1>4, <2>1, RankInduction
<1>7. Decoded(q, 1) = SubSeq(name, 1, n)
  <2>1. 1 \in D
    BY <1>1
  <2>2. Decoded(q, pos[1 - 1] + 1) = SubSeq(name, 1, n)
    BY <1>6, <2>1
  <2>3. pos[1 - 1] + 1 = 1
    BY <1>3
  <2> QED
    BY <2>2, <2>3
<1>8. SubSeq(name, 1, n) = name
  BY SubSeqFull
<1>9. \A token : Dep!decodeDepfileToken(token) = Decoded(token, 1)
  BY DEF Dep!decodeDepfileToken, Decoded
<1> QED
  BY <1>7, <1>8, <1>9

-----------------------------------------------------------------------------
(* The scanners pass what is not special, and a dollar.                    *)
LEMMA PlainPasses ==
    ASSUME text \in Seq(Dep!Classes), NEW p \in 1 .. Len(text), text[p] \notin Dep!Blanks \cup {"bs", "hash"}
    PROVE  QuotedEnd(p) = QuotedEnd(p + 1) /\ Dep!TokenEnd(p) = Dep!TokenEnd(p + 1)
<1> DEFINE stops == Dep!Blanks \cup {"bs", "hash", "dollar"}
           s == Dep!findTokenSpecial(p)
           t == Dep!findTokenSpecial(p + 1)
<1>1. /\ Len(text) \in Nat /\ Dep!End = Len(text) + 1 /\ p \in Nat /\ p > 0 /\ p <= Len(text)
      /\ p \in 1 .. Dep!End /\ p + 1 \in 1 .. Dep!End /\ p < Dep!End
  BY DEF Dep!End
<1>2. Dep!At(p) = text[p] /\ text[p] # "end"
  <2>1. text[p] \in Dep!Classes
    OBVIOUS
  <2> QED
    BY <1>1, <2>1 DEF Dep!At, Dep!Classes
<1>3. QuotedEnd(p) = QuotedEnd(p + 1)
  <2>1. GoesOn(p) /\ NextOf(p) = p + 1
    BY <1>2 DEF GoesOn, NextOf
  <2> QED
    BY <1>1, <2>1, QuotedRounds
<1>4. /\ s \in p .. Dep!End
      /\ s = Dep!End \/ text[s] \in stops
      /\ \A r \in p .. s - 1 : text[r] \notin stops
      /\ IF Dep!At(s) = "dollar" THEN Plain(p) = Plain(s + 1) ELSE Plain(p) = s
  BY <1>1, PlainRounds
<1>5. /\ t \in p + 1 .. Dep!End
      /\ t = Dep!End \/ text[t] \in stops
      /\ \A r \in p + 1 .. t - 1 : text[r] \notin stops
      /\ IF Dep!At(t) = "dollar" THEN Plain(p + 1) = Plain(t + 1) ELSE Plain(p + 1) = t
  <2> DEFINE z == p + 1
  <2>1. z \in 1 .. Dep!End
    BY <1>1
  <2> HIDE DEF z
  <2>2. LET u == Dep!findTokenSpecial(z)
        IN  /\ u \in z .. Dep!End
            /\ u = Dep!End \/ text[u] \in stops
            /\ \A r \in z .. u - 1 : text[r] \notin stops
            /\ IF Dep!At(u) = "dollar" THEN Plain(z) = Plain(u + 1) ELSE Plain(z) = u
    BY <1>1, <2>1, PlainRounds
  <2> QED
    BY <2>2 DEF z
<1> HIDE DEF s, t, stops
<1>6. Plain(p) = Plain(p + 1)
  <2>1. CASE text[p] = "dollar"
    <3>1. text[p] \in stops
      BY <2>1 DEF stops
    <3>2. s = p
      BY <1>1, <1>4, <3>1
    <3> QED
      BY <1>2, <1>4, <2>1, <3>2
  <2>2. CASE text[p] # "dollar"
    <3>1. text[p] \notin stops
      BY <2>2 DEF stops
    <3>2. s # p
      BY <1>1, <1>4, <3>1
    <3>3. ~(s < t)
      <4> SUFFICES ASSUME s < t PROVE FALSE
        OBVIOUS
      <4>1. s \in p + 1 .. t - 1 /\ s # Dep!End
        BY <1>1, <1>4, <1>5, <3>2
      <4> QED
        BY <1>4, <1>5, <4>1
    <3>4. ~(t < s)
      <4> SUFFICES ASSUME t < s PROVE FALSE
        OBVIOUS
      <4>1. t \in p .. s - 1 /\ t # Dep!End
        BY <1>1, <1>4, <1>5
      <4> QED
        BY <1>4, <1>5, <4>1
    <3>5. s = t
      BY <1>1, <1>4, <1>5, <3>3, <3>4
    <3> QED
      BY <1>4, <1>5, <3>5
  <2> QED
    BY <2>1, <2>2
<1> QED
  BY <1>3, <1>6, TokenEndParts

(* And they pass a group.                                                  *)
LEMMA GroupPassed ==
    ASSUME text \in Seq(Dep!Classes), NEW a, NEW m, NEW c, HasGroup(text, a, m, c)
    PROVE  LET z == a + Slashes(c, m) + Copies(c) + 1
           IN  /\ QuotedEnd(a + 1) = QuotedEnd(z)
               /\ Dep!TokenEnd(a + 1) = IF Slashes(c, m) = 0 THEN Dep!TokenEnd(z) ELSE QuotedEnd(z)
<1> DEFINE k == Slashes(c, m)
           d == Copies(c)
           b == a + 1
           p == a + k + 1
           z == a + k + d + 1
<1>8. /\ a \in Nat /\ m \in Nat /\ c \in Dep!Classes \ ({"bs"} \cup Dep!Newlines)
      /\ a + k + d <= Len(text)
      /\ \A j \in 1 .. k : text[a + j] = "bs"
      /\ \A j \in 1 .. d : text[a + k + j] = c
  BY DEF HasGroup
<1>1. /\ a \in Nat /\ m \in Nat /\ c \in Dep!Classes \ ({"bs"} \cup Dep!Newlines)
      /\ k \in Nat /\ d \in {1, 2} /\ Len(text) \in Nat /\ a + k + d <= Len(text)
      /\ k = 0 => c \notin {"blank", "hash"}
      /\ d = 2 <=> c = "dollar"
  BY <1>8 DEF Slashes, Copies
<1>2. c = "blank" => k = 2 * m + 1
  BY DEF Slashes
<1>3. (\A j \in 1 .. k : text[a + j] = "bs") /\ (\A j \in 1 .. d : text[a + k + j] = c)
  BY <1>8
<1> HIDE DEF k, d
<1>4. /\ p \in 1 .. Len(text) /\ text[p] = c /\ Dep!End = Len(text) + 1 /\ p \in 1 .. Dep!End /\ p < Dep!End
      /\ b \in 1 .. Len(text) /\ b \in 1 .. Dep!End /\ b < Dep!End /\ p = b + k
  <2>1. 1 \in 1 .. d
    BY <1>1
  <2>2. text[p] = c
    BY <1>3, <2>1
  <2>3. p = b + k /\ p \in 1 .. Len(text) /\ b \in 1 .. Len(text)
    BY <1>1
  <2> HIDE DEF p, b
  <2> QED
    BY <1>1, <2>2, <2>3 DEF Dep!End
<1>5. ASSUME c \notin {"blank", "hash"}
      PROVE  QuotedEnd(p) = QuotedEnd(z) /\ Dep!TokenEnd(p) = Dep!TokenEnd(z)
  <2>1. text[p] \notin Dep!Blanks \cup {"bs", "hash"}
    BY <1>1, <1>4, <1>5 DEF Dep!Blanks
  <2>2. QuotedEnd(p) = QuotedEnd(p + 1) /\ Dep!TokenEnd(p) = Dep!TokenEnd(p + 1)
    <3> HIDE DEF p
    <3> QED
      BY <1>4, <2>1, PlainPasses
  <2>3. CASE d = 1
    <3>1. z = p + 1
      BY <1>1, <2>3
    <3> HIDE DEF z, p
    <3> QED
      BY <2>2, <3>1
  <2>4. CASE d = 2
    <3> DEFINE y == p + 1
    <3>1. z = y + 1 /\ y \in 1 .. Len(text) /\ text[y] = c
      <4>1. y = a + k + 2 /\ 2 \in 1 .. d /\ z = y + 1 /\ y \in 1 .. Len(text)
        BY <1>1, <2>4
      <4> QED
        BY <1>3, <4>1
    <3> HIDE DEF y, p, z
    <3>2. text[y] \notin Dep!Blanks \cup {"bs", "hash"}
      BY <1>4, <2>1, <3>1
    <3>3. QuotedEnd(y) = QuotedEnd(y + 1) /\ Dep!TokenEnd(y) = Dep!TokenEnd(y + 1)
      BY <3>1, <3>2, PlainPasses
    <3> QED
      BY <2>2, <3>1, <3>3 DEF y
  <2> QED
    BY <1>1, <2>3, <2>4
<1>6. CASE k = 0
  <2>1. p = a + 1
    BY <1>1, <1>6
  <2> HIDE DEF p, z
  <2> QED
    BY <1>1, <1>5, <1>6, <2>1 DEF z, k, d
<1>7. CASE k # 0
  <2>1. text[b] = "bs" /\ Dep!At(b) = "bs" /\ Dep!At(p) = c
    <3>1. 1 \in 1 .. k /\ b = a + 1
      BY <1>1, <1>7
    <3> QED
      BY <1>3, <1>4, <3>1 DEF Dep!At
  <2>2. Dep!RunOf(text, b) = k
    <3>1. \A j \in b .. b + k - 1 : text[j] = "bs"
      <4> TAKE j \in b .. b + k - 1
      <4>1. j - a \in 1 .. k /\ a + (j - a) = j
        BY <1>1
      <4> QED
        BY <1>3, <4>1
    <3>2. b + k <= Len(text) + 1 /\ text[b + k] # "bs" /\ b \in 1 .. Len(text) + 1
      <4> HIDE DEF p
      <4>1. b + k = p /\ p <= Len(text) + 1
        BY <1>1, <1>4
      <4> QED
        BY <1>1, <1>4, <4>1
    <3> HIDE DEF b
    <3> QED
      BY <1>1, <3>1, <3>2, RunOfIs
  <2>3. RunEnd(b) = p
    <3> HIDE DEF b, p
    <3> QED
      BY <1>4, <2>2 DEF RunEnd
  <2>4. GoesOn(b)
    <3> HIDE DEF b, p
    <3> QED
      BY <1>1, <2>1, <2>3 DEF GoesOn
  <2>5. QuotedEnd(b) = QuotedEnd(z)
    <3>1. QuotedEnd(b) = QuotedEnd(NextOf(b))
      <4> HIDE DEF b
      <4> QED
        BY <1>1, <1>4, <2>4, QuotedRounds
    <3>2. CASE c \in {"blank", "hash"}
      <4>1. c = "blank" => Quotes(b)
        <5>1. RunEnd(b) - b = k
          BY <1>1, <2>3
        <5>2. (2 * m + 1) % 2 = 1
          BY <1>1
        <5> HIDE DEF b
        <5> QED
          BY <1>2, <5>1, <5>2 DEF Quotes
      <4>2. PassesNext(b)
        <5> HIDE DEF b, p
        <5> QED
          BY <2>1, <2>3, <3>2, <4>1 DEF PassesNext
      <4>3. NextOf(b) = p + 1
        <5> HIDE DEF b, p
        <5> QED
          BY <2>1, <2>3, <4>2 DEF NextOf
      <4>4. z = p + 1
        BY <1>1, <3>2
      <4> HIDE DEF b, p, z
      <4> QED
        BY <3>1, <4>3, <4>4
    <3>3. CASE c \notin {"blank", "hash"}
      <4>1. NextOf(b) = p
        <5> HIDE DEF b, p
        <5> QED
          BY <2>1, <2>3, <3>3 DEF NextOf, PassesNext
      <4> HIDE DEF b, p, z
      <4> QED
        BY <1>5, <3>1, <3>3, <4>1
    <3> QED
      BY <3>2, <3>3
  <2>6. Dep!TokenEnd(b) = QuotedEnd(b)
    <3> HIDE DEF b
    <3> DEFINE s == Dep!findTokenSpecial(b)
    <3>1. /\ s \in b .. Dep!End
          /\ \A r \in b .. s - 1 : text[r] \notin Dep!Blanks \cup {"bs", "hash", "dollar"}
          /\ Dep!At(s) = "dollar" \/ Plain(b) = s
      BY <1>1, <1>4, PlainRounds
    <3>2. s = b
      <4> HIDE DEF s
      <4> QED
        BY <1>1, <1>4, <2>1, <3>1
    <3>3. Plain(b) = b
      BY <2>1, <3>1, <3>2
    <3> QED
      BY <2>1, <3>3, TokenEndParts
  <2> HIDE DEF z
  <2> QED
    BY <1>7, <2>5, <2>6 DEF z, k, d
<1> QED
  BY <1>6, <1>7

(* A quoted name ends where the blank or the newline is that follows it.   *)
LEMMA NameEnds ==
    ASSUME text \in Seq(Dep!Classes), NEW name \in Seq(Dep!Classes), Dep!IsName(name),
           NEW o \in Nat, o + Len(Dep!Quoted(name)) < Len(text),
           \A j \in 1 .. Len(Dep!Quoted(name)) : text[o + j] = Dep!Quoted(name)[j],
           text[o + Len(Dep!Quoted(name)) + 1] \in Dep!Blanks
    PROVE  Dep!TokenEnd(o + 1) = o + Len(Dep!Quoted(name)) + 1
<1> DEFINE n == Len(name)
           q == Dep!Quoted(name)
           e == o + Len(q) + 1
<1>1. n \in Nat /\ n > 0 /\ name[n] # "bs" /\ q \in Seq(Dep!Classes) /\ Len(q) \in Nat
  <2>1. q \in Seq(Dep!Classes)
    BY QuotedIsText
  <2> HIDE DEF q
  <2> QED
    BY <2>1 DEF Dep!IsName
<1>2. PICK pos : Places(pos, name)
  BY QuotedLayout
<1>3. pos \in [0 .. n -> Nat] /\ pos[0] = 0 /\ pos[n] = Len(q)
  BY <1>2 DEF Places
<1>4. \A i \in 1 .. n : name[i] \in Dep!Classes \ Dep!Newlines
  BY DEF Dep!IsName
<1>5. /\ e \in 1 .. Dep!End /\ e < Dep!End /\ Dep!At(e) = text[e] /\ e \in Nat
      /\ Dep!At(e) \in Dep!Blanks /\ Dep!At(e) # "bs" /\ Dep!At(e) # "dollar" /\ Len(text) \in Nat
      /\ o + Len(q) < Len(text)
  <2> HIDE DEF q
  <2>1. Len(text) \in Nat /\ o + Len(q) < Len(text) /\ text[e] \in Dep!Blanks
    BY DEF q
  <2> QED
    BY <1>1, <2>1 DEF Dep!End, Dep!At, Dep!Blanks, Dep!Newlines
<1>6. \A j \in 1 .. Len(q) : text[o + j] = q[j]
  OBVIOUS
<1> HIDE DEF q, e
<1>7. QuotedEnd(e) = e /\ Dep!TokenEnd(e) = e
  <2>1. QuotedEnd(e) = e
    <3>1. ~GoesOn(e) /\ EndsAt(e) = e
      BY <1>5 DEF GoesOn, EndsAt
    <3> QED
      BY <1>5, <3>1, QuotedRounds
  <2> DEFINE s == Dep!findTokenSpecial(e)
  <2>2. /\ s \in e .. Dep!End
        /\ \A r \in e .. s - 1 : text[r] \notin Dep!Blanks \cup {"bs", "hash", "dollar"}
        /\ Dep!At(s) = "dollar" \/ Plain(e) = s
    BY <1>5, PlainRounds
  <2>3. s = e
    <3> HIDE DEF s
    <3> QED
      BY <1>5, <2>2
  <2>4. Plain(e) = e
    BY <1>5, <2>2, <2>3
  <2> QED
    BY <1>5, <2>1, <2>4, TokenEndParts
<1> DEFINE D == {i \in 1 .. n + 1 : i = 1 \/ name[i - 1] # "bs"}
           rank == [i \in D |-> n + 1 - i]
           Ends(p) == QuotedEnd(p) = e /\ Dep!TokenEnd(p) = e
           G == {i \in D : Ends(o + pos[i - 1] + 1)}
<1>8. rank \in [D -> Nat]
  BY <1>1
<1>9. ASSUME NEW i \in D, \A j \in D : rank[j] < rank[i] => j \in G PROVE i \in G
  <2>1. CASE i = n + 1
    <3>1. o + pos[i - 1] + 1 = e
      <4>1. i - 1 = n
        BY <1>1, <2>1
      <4> QED
        BY <1>3, <4>1 DEF e
    <3> QED
      BY <1>7, <3>1
  <2>2. CASE i # n + 1
    <3>1. i \in 1 .. n /\ i \in 1 .. Len(name) /\ (i = 1 \/ name[i - 1] # "bs")
      BY <1>1, <2>2
    <3>2. PICK m : /\ Group(name, i, m) /\ m \in Nat /\ i + m \in 1 .. Len(name)
                   /\ HasGroup(q, pos[i - 1], m, name[i + m])
                   /\ pos[i + m] = pos[i - 1] + Slashes(name[i + m], m) + Copies(name[i + m])
      BY <1>2, <3>1, GroupWritten, SMTT(30) DEF q
    <3> DEFINE c == name[i + m]
               k == Slashes(c, m)
               d == Copies(c)
               a == pos[i - 1]
               w == o + a
               z == w + k + d + 1
    <3>3. c # "bs" /\ pos[i + m] = a + k + d
      BY <3>2 DEF Group
    <3>4. HasGroup(q, a, m, c)
      BY <3>2
    <3> HIDE DEF c, a
    <3>10. a \in Nat /\ k \in Nat /\ d \in {1, 2}
      <4>1. a \in Nat /\ m \in Nat
        BY <3>4 DEF HasGroup
      <4> QED
        BY <4>1, SMTT(30) DEF Slashes, Copies
    <3>5. HasGroup(text, w, m, c)
      <4>1. o + Len(q) <= Len(text)
        BY <1>1, <1>5
      <4> HIDE DEF k, d
      <4> QED
        BY <1>1, <1>5, <1>6, <3>4, <4>1, GroupShifted
    <3> HIDE DEF w
    <3>6. /\ QuotedEnd(w + 1) = QuotedEnd(z)
          /\ Dep!TokenEnd(w + 1) = IF k = 0 THEN Dep!TokenEnd(z) ELSE QuotedEnd(z)
      BY <3>5, GroupPassed
    <3> HIDE DEF k, d
    <3>7. Ends(z)
      <4> DEFINE h == i + m + 1
      <4>1. h \in 1 .. n + 1 /\ h - 1 = i + m
        BY <3>1, <3>2
      <4>2. h \in D
        <5>1. name[h - 1] # "bs"
          BY <3>3, <4>1 DEF c
        <5> HIDE DEF h
        <5> QED
          BY <4>1, <5>1
      <4>3. rank[h] < rank[i]
        BY <1>1, <3>2, <4>2
      <4>4. h \in G
        <5> HIDE DEF h, D, G, rank
        <5> QED
          BY <1>9, <4>2, <4>3
      <4>5. Ends(o + pos[h - 1] + 1)
        <5> HIDE DEF h, Ends
        <5> QED
          BY <4>4
      <4>6. o + pos[h - 1] + 1 = z
        <5>1. pos[h - 1] = a + k + d
          <6> HIDE DEF h
          <6> QED
            BY <3>3, <4>1
        <5> HIDE DEF h
        <5> QED
          BY <3>10, <5>1 DEF w
      <4> HIDE DEF z, h, Ends
      <4> QED
        BY <4>5, <4>6
    <3>8. Ends(w + 1)
      <4> HIDE DEF z
      <4> QED
        BY <3>6, <3>7
    <3>9. Ends(o + pos[i - 1] + 1)
      <4> HIDE DEF Ends
      <4> QED
        BY <3>8 DEF w, a
    <3> QED
      BY <3>9
  <2> QED
    BY <2>1, <2>2
<1>10. D \subseteq G
  <2>1. \A i \in D : (\A j \in D : rank[j] < rank[i] => j \in G) => i \in G
    BY <1>9
  <2> HIDE DEF D, rank, G
  <2> QED
    BY ONLY <1>8, <2>1, RankInduction
<1>11. Dep!TokenEnd(o + 1) = e
  <2>1. 1 \in D
    BY <1>1
  <2>2. Ends(o + pos[1 - 1] + 1)
    BY <1>10, <2>1
  <2>3. o + pos[1 - 1] + 1 = o + 1
    BY <1>3
  <2> QED
    BY <2>2, <2>3
<1> QED
  BY <1>11 DEF e, q

(* Where a group begins, whitespace has ended, and a name can begin.       *)
LEMMA GroupStarts ==
    ASSUME text \in Seq(Dep!Classes), NEW a, NEW m, NEW c, HasGroup(text, a, m, c)
    PROVE  /\ a + 1 \in 1 .. Len(text) /\ Dep!skipWhitespace(a + 1) = a + 1
           /\ Dep!At(a + 1) \notin Dep!Newlines \cup {"hash", "end"}
<1> DEFINE k == Slashes(c, m)
           d == Copies(c)
           b == a + 1
<1>1. /\ a \in Nat /\ m \in Nat /\ c \in Dep!Classes \ ({"bs"} \cup Dep!Newlines)
      /\ a + k + d <= Len(text)
      /\ \A j \in 1 .. k : text[a + j] = "bs"
      /\ \A j \in 1 .. d : text[a + k + j] = c
  BY DEF HasGroup
<1>2. k \in Nat /\ d \in {1, 2} /\ (k = 0 => c \notin {"blank", "hash"})
  BY <1>1 DEF Slashes, Copies
<1> HIDE DEF k, d
<1>3. /\ b \in 1 .. Len(text) /\ b \in 1 .. Dep!End /\ b < Dep!End /\ Len(text) \in Nat
      /\ k > 0 => b + 1 < Dep!End
  BY <1>1, <1>2 DEF Dep!End
<1>4. {"bs", "blank", "hash", "end"} \cap Dep!Newlines = {}
  BY DEF Dep!Newlines
<1>5. Dep!At(b) \notin Dep!Newlines \cup {"blank", "hash", "end"} /\ ~Continued(b)
  <2>1. CASE k = 0
    <3>1. 1 \in 1 .. d /\ a + k + 1 = b
      BY <1>1, <1>2, <2>1
    <3>2. text[b] = c
      BY <1>1, <3>1
    <3>3. Dep!At(b) = c
      <4> HIDE DEF b
      <4> QED
        BY <1>3, <3>2 DEF Dep!At
    <3>4. c # "end"
      BY <1>1 DEF Dep!Classes
    <3> HIDE DEF b
    <3> QED
      BY <1>1, <1>2, <2>1, <3>3, <3>4 DEF Continued
  <2>2. CASE k # 0
    <3>1. k > 0 /\ 1 \in 1 .. k
      BY <1>2, <2>2
    <3>2. Dep!At(b) = "bs"
      <4>1. text[b] = "bs"
        BY <1>1, <3>1
      <4> HIDE DEF b
      <4> QED
        BY <1>3, <4>1 DEF Dep!At
    <3>3. Dep!At(b + 1) \notin Dep!Newlines
      <4>1. Dep!At(b + 1) = text[b + 1]
        <5> HIDE DEF b
        <5> QED
          BY <1>3, <3>1 DEF Dep!At
      <4>2. CASE k = 1
        <5>1. 1 \in 1 .. d /\ a + k + 1 = b + 1
          BY <1>1, <1>2, <4>2
        <5>2. text[b + 1] = c
          BY <1>1, <5>1
        <5> HIDE DEF b
        <5> QED
          BY <1>1, <4>1, <5>2
      <4>3. CASE k # 1
        <5>1. 2 \in 1 .. k /\ a + 2 = b + 1
          BY <1>1, <1>2, <3>1, <4>3
        <5>2. text[b + 1] = "bs"
          BY <1>1, <5>1
        <5> HIDE DEF b
        <5> QED
          BY <1>4, <4>1, <5>2
      <4> QED
        BY <4>2, <4>3
    <3> HIDE DEF b
    <3> QED
      BY <1>4, <3>2, <3>3 DEF Continued
  <2> QED
    BY <2>1, <2>2
<1>6. Dep!skipWhitespace(b) = b
  <2> HIDE DEF b
  <2> QED
    BY <1>3, <1>5, SkipRounds
<1> QED
  BY <1>3, <1>5, <1>6

(* What is put between names is skipped, if whitespace ends behind it.     *)
LEMMA GapSkipped ==
    ASSUME text \in Seq(Dep!Classes), NEW gap \in Seq(Dep!Classes), Dep!IsGap(gap),
           NEW o \in Nat, o + Len(gap) <= Len(text),
           \A j \in 1 .. Len(gap) : text[o + j] = gap[j],
           Dep!skipWhitespace(o + Len(gap) + 1) = o + Len(gap) + 1
    PROVE  Dep!skipWhitespace(o + 1) = o + Len(gap) + 1
<1> DEFINE l == Len(gap)
           e == o + l + 1
<1>1. PICK cuts \in SUBSET (1 .. l + 1) :
         /\ 1 \in cuts
         /\ \A b \in cuts :
              \/ b = l + 1
              \/ gap[b] = "blank" /\ b + 1 \in cuts
              \/ gap[b] = "bs" /\ b + 2 \in cuts /\ gap[b + 1] = "lf"
              \/ gap[b] = "bs" /\ b + 3 \in cuts /\ gap[b + 1] = "cr" /\ gap[b + 2] = "lf"
  BY DEF Dep!IsGap
<1>2. l \in Nat /\ Len(text) \in Nat /\ Dep!End = Len(text) + 1 /\ o + l <= Len(text)
  BY DEF Dep!End
<1>3. \A j \in 1 .. l : text[o + j] = gap[j]
  OBVIOUS
<1>4. Dep!skipWhitespace(e) = e
  OBVIOUS
<1> HIDE DEF l
<1>5. ASSUME NEW j \in 1 .. l PROVE Dep!At(o + j) = gap[j]
  BY <1>2, <1>3 DEF Dep!At
<1> DEFINE rank == [b \in cuts |-> l + 1 - b]
           G == {b \in cuts : Dep!skipWhitespace(o + b) = e}
<1>6. rank \in [cuts -> Nat]
  BY <1>1, <1>2
<1>7. ASSUME NEW b \in cuts, \A y \in cuts : rank[y] < rank[b] => y \in G PROVE b \in G
  <2>1. b \in 1 .. l + 1 /\ o + b \in 1 .. Dep!End
    BY <1>1, <1>2
  <2> DEFINE Moves(w) == b + w \in cuts /\ Dep!skipWhitespace(o + b) = Dep!skipWhitespace(o + b + w)
  <2>2. ASSUME NEW w \in {1, 2, 3}, Moves(w) PROVE b \in G
    <3>1. b + w \in cuts /\ Dep!skipWhitespace(o + b) = Dep!skipWhitespace(o + b + w)
      BY <2>2
    <3> HIDE DEF Moves
    <3> DEFINE y == b + w
    <3>2. y \in 1 .. l + 1 /\ o + y = o + b + w /\ y \in cuts /\ rank[y] = l + 1 - y /\ rank[b] = l + 1 - b
      BY <1>1, <1>2, <2>1, <3>1
    <3>3. l + 1 - y < l + 1 - b
      BY <1>2, <2>1
    <3> HIDE DEF rank, y
    <3>4. y \in G
      <4> HIDE DEF G
      <4> QED
        BY <1>7, <3>2, <3>3
    <3> QED
      BY <3>1, <3>2, <3>4
  <2>3. CASE b = l + 1
    <3>1. o + b = e
      BY <1>2, <2>3
    <3> HIDE DEF e
    <3> QED
      BY <1>4, <3>1
  <2>4. CASE gap[b] = "blank" /\ b + 1 \in cuts
    <3>1. b \in 1 .. l
      BY <1>1, <1>2, <2>1, <2>4
    <3>2. Dep!At(o + b) = "blank"
      BY <1>5, <2>4, <3>1
    <3>3. Dep!skipWhitespace(o + b) = Dep!skipWhitespace(o + b + 1)
      BY <1>2, <2>1, <3>2, SkipRounds DEF Skipped
    <3> QED
      BY <2>2, <2>4, <3>3
  <2>5. CASE gap[b] = "bs" /\ b + 2 \in cuts /\ gap[b + 1] = "lf"
    <3>1. b \in 1 .. l /\ b + 1 \in 1 .. l /\ o + (b + 1) = o + b + 1
      BY <1>1, <1>2, <2>1, <2>5
    <3>2. Dep!At(o + b) = "bs" /\ Dep!At(o + b + 1) = "lf"
      BY <1>5, <2>5, <3>1
    <3>3. Continued(o + b) /\ Skipped(o + b) = o + b + 2
      BY <3>2 DEF Continued, Skipped, Dep!Newlines
    <3>4. Dep!skipWhitespace(o + b) = Dep!skipWhitespace(o + b + 2)
      BY <1>2, <2>1, <3>3, SkipRounds
    <3> QED
      BY <2>2, <2>5, <3>4
  <2>6. CASE gap[b] = "bs" /\ b + 3 \in cuts /\ gap[b + 1] = "cr" /\ gap[b + 2] = "lf"
    <3>1. /\ b \in 1 .. l /\ b + 1 \in 1 .. l /\ o + (b + 1) = o + b + 1
          /\ b + 2 \in 1 .. l /\ o + (b + 2) = o + b + 2
      BY <1>1, <1>2, <2>1, <2>6
    <3>2. Dep!At(o + b) = "bs" /\ Dep!At(o + b + 1) = "cr" /\ Dep!At(o + b + 2) = "lf"
      BY <1>5, <2>6, <3>1
    <3>3. Continued(o + b) /\ Skipped(o + b) = o + b + 3
      BY <3>2 DEF Continued, Skipped, Dep!Newlines
    <3>4. Dep!skipWhitespace(o + b) = Dep!skipWhitespace(o + b + 3)
      BY <1>2, <2>1, <3>3, SkipRounds
    <3> QED
      BY <2>2, <2>6, <3>4
  <2> HIDE DEF G
  <2> QED
    BY <1>1, <2>3, <2>4, <2>5, <2>6
<1>8. cuts \subseteq G
  <2>1. \A b \in cuts : (\A y \in cuts : rank[y] < rank[b] => y \in G) => b \in G
    BY <1>7
  <2> HIDE DEF rank, G
  <2> QED
    BY ONLY <1>6, <2>1, RankInduction, ZenonT(30)
<1>9. Dep!skipWhitespace(o + 1) = e
  BY <1>1, <1>8
<1> QED
  BY <1>9 DEF l

(* The target's separator is the colon that was written behind it.         *)
LEMMA TargetScanned ==
    ASSUME text \in Seq(Dep!Classes), NEW target \in Seq(Dep!Classes), Dep!IsTarget(target),
           Len(target) + 1 < Len(text),
           \A j \in 1 .. Len(target) : text[j] = target[j],
           text[Len(target) + 1] = "colon", text[Len(target) + 2] \in Dep!Blanks
    PROVE  Dep!AfterTarget = Len(target) + 2
<1> DEFINE l == Len(target)
           e == l + 2
<1>1. PICK cuts \in SUBSET (1 .. l + 1) :
        /\ 1 \in cuts
        /\ \A b \in cuts :
             \/ b = l + 1
             \/ target[b] \notin Dep!Blanks \cup {"bs", "hash", "colon"} /\ b + 1 \in cuts
             \/ target[b] = "bs" /\ b + 2 \in cuts /\ target[b + 1] \notin Dep!Newlines
             \/ /\ b = 2 /\ target[b] = "colon" /\ b + 1 \in cuts /\ b < l
                /\ target[b + 1] \in {"slash", "bs"}
  BY DEF Dep!IsTarget
<1>2. /\ l \in Nat /\ Len(text) \in Nat /\ Dep!End = Len(text) + 1 /\ l + 1 < Len(text)
      /\ text[l + 1] = "colon" /\ text[l + 2] \in Dep!Blanks
  BY DEF Dep!End
<1>3. \A j \in 1 .. l : text[j] = target[j]
  OBVIOUS
<1> HIDE DEF l
<1>4. /\ \A j \in 1 .. l : Dep!At(j) = target[j]
      /\ Dep!At(l + 1) = "colon" /\ Dep!At(l + 2) \in Dep!Blanks
  BY <1>2, <1>3 DEF Dep!At
<1>5. Dep!Positions = 1 .. Dep!End + 2
  BY DEF Dep!Positions
<1>6. /\ {"colon", "bs", "slash"} \cap (Dep!Newlines \cup {"hash", "blank", "cr"}) = {}
      /\ Dep!Blanks = Dep!Newlines \cup {"blank"} /\ {"colon", "slash", "bs"} \cap Dep!Blanks = {} /\ "cr" \in Dep!Newlines
  BY DEF Dep!Blanks, Dep!Newlines
<1> DEFINE rank == [b \in cuts |-> l + 1 - b]
           G == {b \in cuts : ScanFrom(<<b, 1>>) = e}
<1>7. rank \in [cuts -> Nat]
  BY <1>1, <1>2
<1>8. ASSUME NEW b \in cuts, \A y \in cuts : rank[y] < rank[b] => y \in G PROVE b \in G
  <2>1. b \in 1 .. l + 1 /\ b \in Dep!Positions /\ 1 \in Dep!Positions /\ ~(b >= Dep!End)
    BY <1>1, <1>2, <1>5
  <2> DEFINE here == <<b, 1>>
  <2>2. here \in Dep!Positions \X Dep!Positions /\ here[1] = b /\ here[2] = 1
    BY <2>1
  <2>3. IF Scans(here) THEN ScanFrom(here) = ScanFrom(Scanned(here))
        ELSE ScanFrom(here) = IF ScanEnds(b) THEN Dep!End ELSE b + 1
    <3> HIDE DEF here
    <3> QED
      BY <1>2, <2>2, ScanRounds
  <2>4. ASSUME NEW w \in {1, 2}, b + w \in cuts, Scans(here), Scanned(here) = <<b + w, 1>> PROVE b \in G
    <3> DEFINE y == b + w
    <3>1. y \in 1 .. l + 1 /\ rank[y] = l + 1 - y /\ rank[b] = l + 1 - b
      BY <1>1, <2>4
    <3>2. l + 1 - y < l + 1 - b
      BY <1>2, <2>1
    <3>3. y \in cuts /\ ScanFrom(here) = ScanFrom(<<y, 1>>)
      BY <2>3, <2>4
    <3> HIDE DEF rank, y
    <3>4. y \in G
      <4> HIDE DEF G
      <4> QED
        BY <1>8, <3>1, <3>2, <3>3
    <3> QED
      BY <3>3, <3>4
  <2>5. CASE b = l + 1
    <3>1. Dep!At(b) = "colon" /\ Dep!At(b + 1) \in Dep!Blanks /\ b + 1 = e
      <4>1. b + 1 = l + 2
        BY <1>2, <2>5
      <4> QED
        BY <1>4, <2>5, <4>1
    <3>2. ~ScanEnds(b) /\ ~QuotesNext(b) /\ ~DrivePrefix(b, 1)
      BY <1>6, <2>1, <3>1 DEF ScanEnds, QuotesNext, DrivePrefix
    <3>3. ~Scans(here)
      <4> HIDE DEF here
      <4> QED
        BY <2>2, <3>1, <3>2 DEF Scans
    <3>4. ScanFrom(here) = e
      BY <2>3, <3>1, <3>2, <3>3
    <3> QED
      BY <3>4
  <2>6. CASE target[b] \notin Dep!Blanks \cup {"bs", "hash", "colon"} /\ b + 1 \in cuts
    <3>1. b \in 1 .. l
      BY <1>1, <1>2, <2>1, <2>6
    <3>2. Dep!At(b) \notin Dep!Blanks \cup {"bs", "hash", "colon"}
      BY <1>4, <2>6, <3>1
    <3>3. ~ScanEnds(b) /\ ~QuotesNext(b)
      BY <1>6, <2>1, <3>2 DEF ScanEnds, QuotesNext
    <3>4. Scans(here)
      BY <2>2, <3>2, <3>3 DEF Scans
    <3>5. Scanned(here) = <<b + 1, 1>>
      BY <1>6, <2>2, <3>2, <3>3 DEF Scanned
    <3> QED
      BY <2>4, <2>6, <3>4, <3>5
  <2>7. CASE target[b] = "bs" /\ b + 2 \in cuts /\ target[b + 1] \notin Dep!Newlines
    <3>1. b \in 1 .. l /\ b + 1 \in 1 .. l
      BY <1>1, <1>2, <2>1, <2>7
    <3>2. Dep!At(b) = "bs" /\ Dep!At(b + 1) \notin Dep!Newlines
      BY <1>4, <2>7, <3>1
    <3>3. ~ScanEnds(b) /\ QuotesNext(b)
      BY <1>2, <1>6, <2>1, <3>1, <3>2 DEF ScanEnds, QuotesNext
    <3>4. Scans(here)
      BY <2>2, <3>3 DEF Scans
    <3>5. Scanned(here) = <<b + 2, 1>>
      BY <1>6, <2>2, <3>2, <3>3 DEF Scanned
    <3> QED
      BY <2>4, <2>7, <3>4, <3>5
  <2>8. CASE /\ b = 2 /\ target[b] = "colon" /\ b + 1 \in cuts /\ b < l
             /\ target[b + 1] \in {"slash", "bs"}
    <3>1. b \in 1 .. l /\ b + 1 \in 1 .. l
      BY <1>2, <2>1, <2>8
    <3>2. Dep!At(b) = "colon" /\ Dep!At(b + 1) \in {"slash", "bs"}
      BY <1>4, <2>8, <3>1
    <3>3. ~ScanEnds(b) /\ ~QuotesNext(b) /\ DrivePrefix(b, 1)
      BY <1>6, <2>1, <2>8, <3>2 DEF ScanEnds, QuotesNext, DrivePrefix
    <3>4. Scans(here)
      BY <2>2, <3>3 DEF Scans
    <3>5. Scanned(here) = <<b + 1, 1>>
      BY <2>2, <3>2, <3>3 DEF Scanned
    <3> QED
      BY <2>4, <2>8, <3>4, <3>5
  <2> HIDE DEF G
  <2> QED
    BY <1>1, <2>5, <2>6, <2>7, <2>8
<1>9. cuts \subseteq G
  <2>1. \A b \in cuts : (\A y \in cuts : rank[y] < rank[b] => y \in G) => b \in G
    BY <1>8
  <2> HIDE DEF rank, G
  <2> QED
    BY ONLY <1>7, <2>1, RankInduction
<1>10. ScanFrom(<<1, 1>>) = e
  BY <1>1, <1>9
<1>11. Dep!AfterTarget = ScanFrom(<<1, 1>>)
  BY DEF Dep!AfterTarget, ScanFrom
<1> QED
  BY <1>10, <1>11 DEF l

-----------------------------------------------------------------------------
(* A rule is written as its target, its names with a gap before each, and  *)
(* the second rule.                                                        *)
Rest(list, gap) == [i \in 1 .. Len(list) |-> gap \o Dep!Quoted(list[i])]
SecondRule == <<"lf", "x", "colon", "blank", "x", "lf">>

(* It is.                                                                  *)
LEMMA WrittenIsJoined ==
    ASSUME NEW target, NEW list \in Seq(Seq(Dep!Classes)), NEW gap \in Seq(Dep!Classes)
    PROVE  /\ Rest(list, gap) \in [1 .. Len(list) -> Seq(Dep!Classes)]
           /\ \E f : /\ Joined(f, Len(list), Rest(list, gap))
                     /\ Dep!Written(target, list, gap)
                          = target \o <<"colon">> \o f[Len(list)] \o SecondRule
<1> DEFINE n == Len(list)
           Part(i) == gap \o Dep!Quoted(list[i])
           Body(f) == [i \in 0 .. n |-> IF i = 0 THEN <<>> ELSE f[i - 1] \o Part(i)]
           rest == CHOOSE f : f = Body(f)
           piece == [i \in 1 .. n |-> Part(i)]
<1>1. n \in Nat
  OBVIOUS
<1>2. ASSUME NEW i \in 1 .. n PROVE Part(i) \in Seq(Dep!Classes)
  <2>1. list[i] \in Seq(Dep!Classes)
    OBVIOUS
  <2>2. Dep!Quoted(list[i]) \in Seq(Dep!Classes)
    BY <2>1, QuotedIsText
  <2> QED
    BY <2>2, ConcatProperties
<1> HIDE DEF Part
<1>3. piece \in [1 .. n -> Seq(Dep!Classes)]
  BY <1>2
<1>4. ASSUME NEW f PROVE f = Body(f) <=> Joined(f, n, piece)
  <2>1. ASSUME NEW i \in 0 .. n
        PROVE  (IF i = 0 THEN <<>> ELSE f[i - 1] \o Part(i))
                 = IF i = 0 THEN <<>> ELSE f[i - 1] \o piece[i]
    <3>1. CASE i = 0
      BY <3>1
    <3>2. CASE i # 0
      <4>1. i \in 1 .. n
        BY <1>1, <3>2
      <4>2. piece[i] = Part(i)
        BY <4>1
      <4> QED
        BY <4>2
    <3> QED
      BY <3>1, <3>2
  <2> HIDE DEF n, piece
  <2> QED
    BY <2>1 DEF Joined
<1> HIDE DEF n, piece, Body
<1>5. Joined(rest, n, piece)
  <2>1. PICK f : f = Body(f)
    BY <1>1, <1>3, <1>4, JoinedEnds
  <2>2. rest = Body(rest)
    BY <2>1
  <2> HIDE DEF rest
  <2> QED
    BY <1>4, <2>2
<1>6. Dep!Written(target, list, gap) = target \o <<"colon">> \o rest[n] \o SecondRule
  BY DEF Dep!Written, Part, Body, n, SecondRule
<1>7. piece = Rest(list, gap)
  BY DEF piece, Part, n, Rest
<1> HIDE DEF rest
<1> QED
  BY <1>3, <1>5, <1>6, <1>7 DEF n

(* What is written for a rule is made of character classes.                *)
LEMMA WrittenIsText ==
    ASSUME NEW target \in Seq(Dep!Classes), NEW list \in Seq(Seq(Dep!Classes)),
           NEW gap \in Seq(Dep!Classes)
    PROVE  Dep!Written(target, list, gap) \in Seq(Dep!Classes)
<1> DEFINE n == Len(list)
           S == Seq(Dep!Classes)
<1>1. n \in Nat /\ Rest(list, gap) \in [1 .. n -> Seq(Dep!Classes)]
  <2>1. Rest(list, gap) \in [1 .. n -> Seq(Dep!Classes)]
    BY WrittenIsJoined
  <2> QED
    BY <2>1
<1>2. PICK f : /\ Joined(f, n, Rest(list, gap))
               /\ Dep!Written(target, list, gap) = target \o <<"colon">> \o f[n] \o SecondRule
  BY WrittenIsJoined
<1> HIDE DEF n
<1>3. target \in S /\ <<"colon">> \in S /\ f[n] \in S /\ SecondRule \in S
  <2>1. SecondRule \in S /\ <<"colon">> \in S
    BY DEF Dep!Classes, SecondRule
  <2>2. f[n] \in S
    BY <1>1, <1>2, JoinedEnds
  <2> QED
    BY <2>1, <2>2
<1>4. \A a, b \in S : a \o b \in S
  BY ConcatProperties
<1> HIDE DEF S
<1>5. target \o <<"colon">> \o f[n] \o SecondRule \in S
  BY ONLY <1>3, <1>4
<1> QED
  BY <1>2, <1>5 DEF S

(* Where the names of a rule end in its text t, its target for name 0.     *)
Laid(at, target, list, gap, t) ==
    /\ at \in [0 .. Len(list) -> Nat] /\ at[0] = Len(target) + 1
    /\ \A i \in 0 .. Len(list) : at[i] < Len(t)
    /\ \A j \in 1 .. Len(target) : t[j] = target[j]
    /\ t[Len(target) + 1] = "colon"
    /\ t[at[Len(list)] + 1] = "lf"
    /\ \A i \in 1 .. Len(list) :
         /\ at[i] = at[i - 1] + Len(gap) + Len(Dep!Quoted(list[i]))
         /\ \A j \in 1 .. Len(gap) : t[at[i - 1] + j] = gap[j]
         /\ \A j \in 1 .. Len(Dep!Quoted(list[i])) : t[at[i - 1] + Len(gap) + j] = Dep!Quoted(list[i])[j]

(* They end somewhere.                                                     *)
LEMMA WrittenLayout ==
    ASSUME NEW target \in Seq(Dep!Classes), NEW list \in Seq(Seq(Dep!Classes)),
           NEW gap \in Seq(Dep!Classes)
    PROVE  \E at : Laid(at, target, list, gap, Dep!Written(target, list, gap))
<1> DEFINE C == Dep!Classes
           n == Len(list)
           piece == Rest(list, gap)
           t == Dep!Written(target, list, gap)
           l == Len(target)
<1>1. n \in Nat /\ l \in Nat
  OBVIOUS
<1>2. piece \in [1 .. n -> Seq(C)]
  BY WrittenIsJoined
<1>3. PICK f : /\ Joined(f, n, piece)
               /\ t = target \o <<"colon">> \o f[n] \o SecondRule
  BY WrittenIsJoined
<1>4. ASSUME NEW i \in 1 .. n
      PROVE  /\ Len(gap) \in Nat /\ Len(Dep!Quoted(list[i])) \in Nat
             /\ Len(piece[i]) = Len(gap) + Len(Dep!Quoted(list[i]))
             /\ \A j \in 1 .. Len(gap) : piece[i][j] = gap[j]
             /\ \A j \in 1 .. Len(Dep!Quoted(list[i])) : piece[i][Len(gap) + j] = Dep!Quoted(list[i])[j]
  <2>1. list[i] \in Seq(Dep!Classes)
    OBVIOUS
  <2> DEFINE q == Dep!Quoted(list[i])
  <2>2. q \in Seq(Dep!Classes)
    BY <2>1, QuotedIsText
  <2>3. piece[i] = gap \o q
    BY DEF Rest
  <2> HIDE DEF q, piece, n
  <2>4. Len(gap) \in Nat /\ Len(q) \in Nat
    BY <2>2, LenProperties
  <2>5. /\ Len(piece[i]) = Len(gap) + Len(q)
        /\ \A j \in 1 .. Len(gap) + Len(q) :
             piece[i][j] = IF j <= Len(gap) THEN gap[j] ELSE q[j - Len(gap)]
    BY <2>2, <2>3, ConcatProperties
  <2>6. \A j \in 1 .. Len(gap) : j \in 1 .. Len(gap) + Len(q) /\ j <= Len(gap)
    BY ONLY <2>4
  <2>7. ASSUME NEW j \in 1 .. Len(q) PROVE piece[i][Len(gap) + j] = q[j]
    <3>1. Len(gap) + j \in 1 .. Len(gap) + Len(q) /\ ~(Len(gap) + j <= Len(gap))
          /\ (Len(gap) + j) - Len(gap) = j
      BY ONLY <2>4
    <3>2. piece[i][Len(gap) + j] = q[(Len(gap) + j) - Len(gap)]
      BY <2>5, <3>1
    <3> QED
      BY <3>1, <3>2
  <2>8. \A j \in 1 .. Len(gap) : piece[i][j] = gap[j]
    BY <2>5, <2>6
  <2> QED
    BY <2>4, <2>5, <2>7, <2>8 DEF q
<1> HIDE DEF n, piece
<1>5. StaysThere(f, n, piece) /\ \A i \in 0 .. n : f[i] \in Seq(C)
  BY <1>1, <1>2, <1>3, JoinedLayout
<1> DEFINE r == f[n]
           head == target \o <<"colon">>
<1>6. r \in Seq(C) /\ Len(r) \in Nat
  <2>1. n \in 0 .. n
    BY <1>1
  <2>2. r \in Seq(C)
    BY <1>5, <2>1
  <2> HIDE DEF r, C
  <2> QED
    BY <2>2, LenProperties
<1>7. SecondRule \in Seq(C) /\ <<"colon">> \in Seq(C) /\ Len(SecondRule) = 6 /\ SecondRule[1] = "lf"
      /\ Len(<<"colon">>) = 1 /\ <<"colon">>[1] = "colon"
  BY DEF SecondRule, Dep!Classes
<1>8. /\ head \in Seq(C) /\ Len(head) = l + 1
      /\ \A j \in 1 .. l : head[j] = target[j]
      /\ head[l + 1] = "colon"
  <2> DEFINE one == <<"colon">>
  <2>1. one \in Seq(C) /\ Len(one) = 1 /\ one[1] = "colon"
    BY <1>7
  <2> HIDE DEF one
  <2>2. /\ target \o one \in Seq(C) /\ Len(target \o one) = Len(target) + Len(one)
        /\ \A j \in 1 .. Len(target) + Len(one) :
             (target \o one)[j] = IF j <= Len(target) THEN target[j] ELSE one[j - Len(target)]
    BY <2>1, ConcatProperties
  <2>3. l + 1 \in 1 .. l + 1 /\ ~(l + 1 <= l) /\ l + 1 - l = 1 /\ \A j \in 1 .. l : j \in 1 .. l + 1 /\ j <= l
    BY <1>1
  <2> HIDE DEF l
  <2> QED
    BY <2>1, <2>2, <2>3 DEF one, l
<1> HIDE DEF l, head, r
<1>9. /\ head \o r \in Seq(C) /\ Len(head \o r) = l + 1 + Len(r)
      /\ \A j \in 1 .. l + 1 : (head \o r)[j] = head[j]
      /\ \A j \in 1 .. Len(r) : (head \o r)[l + 1 + j] = r[j]
  <2>1. /\ head \o r \in Seq(C) /\ Len(head \o r) = Len(head) + Len(r)
        /\ \A j \in 1 .. Len(head) + Len(r) :
             (head \o r)[j] = IF j <= Len(head) THEN head[j] ELSE r[j - Len(head)]
    BY <1>6, <1>8, ConcatProperties
  <2>2. \A j \in 1 .. l + 1 : (head \o r)[j] = head[j]
    BY <1>1, <1>6, <1>8, <2>1
  <2>3. ASSUME NEW j \in 1 .. Len(r) PROVE (head \o r)[l + 1 + j] = r[j]
    <3>1. l + 1 + j \in 1 .. l + 1 + Len(r) /\ ~(l + 1 + j <= l + 1) /\ l + 1 + j - (l + 1) = j
      BY <1>1, <1>6
    <3>2. (head \o r)[l + 1 + j] = r[l + 1 + j - (l + 1)]
      BY <1>8, <2>1, <3>1, SMTT(30)
    <3> QED
      BY <3>1, <3>2
  <2> QED
    BY <1>8, <2>1, <2>2, <2>3
<1> DEFINE most == head \o r
           m == l + 1 + Len(r)
<1>10. t = most \o SecondRule
  BY <1>3 DEF head, r
<1> HIDE DEF most, t
<1>11. most \in Seq(C) /\ Len(most) = m /\ m \in Nat
  BY <1>1, <1>6, <1>9 DEF most
<1> HIDE DEF m
<1>12. /\ Len(t) = m + 6
       /\ \A j \in 1 .. m : t[j] = most[j]
       /\ t[m + 1] = "lf"
  <2>1. /\ Len(t) = Len(most) + Len(SecondRule)
        /\ \A j \in 1 .. Len(most) + Len(SecondRule) :
             t[j] = IF j <= Len(most) THEN most[j] ELSE SecondRule[j - Len(most)]
    BY <1>7, <1>10, <1>11, ConcatProperties
  <2>2. \A j \in 1 .. m : t[j] = most[j]
    BY <1>7, <1>11, <2>1
  <2>3. m + 1 \in 1 .. m + 6 /\ ~(m + 1 <= m) /\ m + 1 - m = 1
    BY <1>11
  <2>4. t[m + 1] = SecondRule[m + 1 - m]
    BY <1>7, <1>11, <2>1, <2>3
  <2> QED
    BY <1>7, <1>11, <2>1, <2>2, <2>3, <2>4
<1>13. /\ \A j \in 1 .. l : t[j] = target[j]
       /\ t[l + 1] = "colon"
       /\ \A j \in 1 .. Len(r) : t[l + 1 + j] = r[j]
  <2>1. /\ \A j \in 1 .. l : j \in 1 .. m /\ j \in 1 .. l + 1
        /\ l + 1 \in 1 .. m /\ l + 1 \in 1 .. l + 1
        /\ \A j \in 1 .. Len(r) : l + 1 + j \in 1 .. m
    BY <1>1, <1>6 DEF m
  <2> QED
    BY <1>8, <1>9, <1>12, <2>1 DEF most
<1> DEFINE at == [i \in 0 .. n |-> l + 1 + Len(f[i])]
<1>14. ASSUME NEW i \in 0 .. n
       PROVE  at[i] = l + 1 + Len(f[i]) /\ Len(f[i]) \in Nat /\ Len(f[i]) <= Len(r)
              /\ at[i] \in Nat /\ at[i] < Len(t)
  <2>1. f[i] \in Seq(C) /\ n \in i .. n
    BY <1>1, <1>5
  <2>2. Len(f[i]) \in Nat
    BY <2>1, LenProperties
  <2>3. Len(f[i]) <= Len(r)
    BY <1>5, <2>1 DEF StaysThere, r
  <2>4. at[i] = l + 1 + Len(f[i])
    OBVIOUS
  <2> HIDE DEF at
  <2>5. Len(t) = l + 1 + Len(r) + 6
    BY <1>12 DEF m
  <2>6. at[i] \in Nat /\ at[i] < Len(t)
    <3>1. \A a, b \in Nat : a <= b => l + 1 + a \in Nat /\ l + 1 + a < l + 1 + b + 6
      BY ONLY <1>1
    <3> QED
      BY ONLY <1>6, <2>2, <2>3, <2>4, <2>5, <3>1
  <2> QED
    BY <2>2, <2>3, <2>4, <2>6
<1>15. at[0] = l + 1 /\ at[n] = m
  <2>1. 0 \in 0 .. n /\ n \in 0 .. n /\ f[0] = <<>> /\ Len(<<>>) = 0
    BY <1>1, <1>5 DEF StaysThere
  <2>2. at[0] = l + 1 + Len(f[0]) /\ at[n] = l + 1 + Len(f[n]) /\ Len(f[0]) = 0
    BY <2>1
  <2> HIDE DEF at
  <2> QED
    BY <1>1, <2>2 DEF m, r
<1>16. at \in [0 .. n -> Nat]
  BY <1>14
<1> HIDE DEF at
<1>17. ASSUME NEW i \in 1 .. n
       PROVE  /\ at[i] = at[i - 1] + Len(gap) + Len(Dep!Quoted(list[i]))
              /\ \A j \in 1 .. Len(gap) : t[at[i - 1] + j] = gap[j]
              /\ \A j \in 1 .. Len(Dep!Quoted(list[i])) :
                   t[at[i - 1] + Len(gap) + j] = Dep!Quoted(list[i])[j]
  <2> DEFINE q == Dep!Quoted(list[i])
             g == Len(gap)
             u == Len(f[i - 1])
  <2>1. i \in 0 .. n /\ i - 1 \in 0 .. n /\ n \in i .. n
    BY <1>1
  <2>2. /\ g \in Nat /\ Len(q) \in Nat /\ Len(piece[i]) = g + Len(q)
        /\ \A j \in 1 .. g : piece[i][j] = gap[j]
        /\ \A j \in 1 .. Len(q) : piece[i][g + j] = q[j]
    BY <1>4
  <2>3. /\ at[i] = l + 1 + Len(f[i]) /\ at[i - 1] = l + 1 + u
        /\ Len(f[i]) \in Nat /\ u \in Nat /\ Len(f[i]) <= Len(r)
    BY <1>14, <2>1
  <2>4. /\ Len(f[i]) = u + Len(piece[i])
        /\ \A k \in 1 .. Len(f[i]) : r[k] = f[i][k]
        /\ \A k \in 1 .. Len(piece[i]) : f[i][u + k] = piece[i][k]
    BY <1>5, <2>1 DEF StaysThere, r
  <2> HIDE DEF q, g, u
  <2>5. ASSUME NEW k \in 1 .. g + Len(q) PROVE t[at[i - 1] + k] = piece[i][k]
    <3>1. k \in Nat /\ k \in 1 .. Len(piece[i]) /\ u + k \in 1 .. Len(f[i]) /\ u + k \in 1 .. Len(r)
          /\ at[i - 1] + k = l + 1 + (u + k)
      <4>1. Len(f[i]) = u + (g + Len(q))
        BY <2>2, <2>4
      <4>2. at[i - 1] = l + 1 + u /\ Len(f[i]) <= Len(r) /\ Len(piece[i]) = g + Len(q)
        BY <2>2, <2>3
      <4> QED
        BY ONLY <1>1, <1>6, <2>2, <2>3, <4>1, <4>2
    <3>2. t[l + 1 + (u + k)] = r[u + k]
      BY <1>13, <3>1
    <3> QED
      BY <2>4, <3>1, <3>2
  <2>6. at[i] = at[i - 1] + g + Len(q)
    BY <1>1, <2>2, <2>3, <2>4
  <2>7. \A j \in 1 .. g : j \in 1 .. g + Len(q)
    BY ONLY <2>2
  <2>8. \A j \in 1 .. g : t[at[i - 1] + j] = gap[j]
    BY <2>2, <2>5, <2>7
  <2>9. ASSUME NEW j \in 1 .. Len(q) PROVE t[at[i - 1] + g + j] = q[j]
    <3>1. g + j \in 1 .. g + Len(q) /\ at[i - 1] + g + j = at[i - 1] + (g + j)
      <4>1. at[i - 1] \in Nat
        BY <1>14, <2>1
      <4> QED
        BY ONLY <2>2, <4>1, SMTT(30)
    <3> QED
      BY <2>2, <2>5, <3>1
  <2> QED
    BY <2>6, <2>8, <2>9 DEF q, g
<1>18. Laid(at, target, list, gap, t)
  BY <1>12, <1>13, <1>14, <1>15, <1>16, <1>17 DEF Laid, n, l
<1> QED
  BY <1>18 DEF t

(* A rule that may be in a file: its target, its names and the gap.        *)
IsRule(target, list, gap) ==
    /\ target \in Seq(Dep!Classes) /\ Dep!IsTarget(target)
    /\ gap \in Seq(Dep!Classes) /\ Dep!IsGap(gap)
    /\ list \in Seq(Seq(Dep!Classes)) /\ \A i \in 1 .. Len(list) : Dep!IsName(list[i])

(* Every name ends at a blank, and the last one at a newline.              *)
LEMMA NamesAreFollowed ==
    ASSUME NEW at, NEW target, NEW list, NEW gap, IsRule(target, list, gap),
           Laid(at, target, list, gap, text)
    PROVE  \A i \in 0 .. Len(list) : text[at[i] + 1] \in Dep!Blanks
<1> TAKE i \in 0 .. Len(list)
<1>1. "blank" \in Dep!Blanks /\ "lf" \in Dep!Blanks
  BY DEF Dep!Blanks, Dep!Newlines
<1>2. Len(list) \in Nat
  BY DEF IsRule
<1>3. CASE i = Len(list)
  BY <1>1, <1>3 DEF Laid
<1>4. CASE i # Len(list)
  <2> DEFINE j == i + 1
  <2>1. j \in 1 .. Len(list) /\ j - 1 = i
    BY <1>2, <1>4
  <2>2. 1 \in 1 .. Len(gap) /\ gap[1] = "blank"
    <3>1. Len(gap) \in Nat /\ Len(gap) # 0 /\ gap[1] = "blank"
      BY DEF IsRule, Dep!IsGap
    <3> QED
      BY <3>1
  <2> HIDE DEF j
  <2>3. text[at[j - 1] + 1] = gap[1]
    BY <2>1, <2>2 DEF Laid
  <2> QED
    BY <1>1, <2>1, <2>2, <2>3
<1> QED
  BY <1>3, <1>4

(* A round reads the next name.                                            *)
LEMMA NameRead ==
    ASSUME text \in Seq(Dep!Classes),
           NEW at, NEW target, NEW list, NEW gap, IsRule(target, list, gap),
           Laid(at, target, list, gap, text), NEW i \in 1 .. Len(list)
    PROVE  LET s == Dep!skipWhitespace(at[i - 1] + 1)
           IN  /\ Dep!At(s) \notin Dep!Newlines \cup {"hash", "end"}
               /\ Dep!TokenEnd(s) = at[i] + 1 /\ at[i] + 1 # s
               /\ Dep!decodeDepfileToken(SubSeq(text, s, (at[i] + 1) - 1)) = list[i]
<1> DEFINE name == list[i]
           q == Dep!Quoted(name)
           g == Len(gap)
           p == at[i - 1]
           o == p + g
           l == Len(q)
<1>1. name \in Seq(Dep!Classes) /\ Dep!IsName(name) /\ i \in 0 .. Len(list) /\ i - 1 \in 0 .. Len(list)
      /\ gap \in Seq(Dep!Classes) /\ Dep!IsGap(gap) /\ Len(text) \in Nat
  <2>1. Len(list) \in Nat
    BY DEF IsRule
  <2> QED
    BY <2>1 DEF IsRule
<1>2. q \in Seq(Dep!Classes)
  BY <1>1, QuotedIsText
<1>3. /\ at[i] = p + g + l /\ p \in Nat /\ at[i] < Len(text)
      /\ \A j \in 1 .. g : text[p + j] = gap[j]
      /\ \A j \in 1 .. l : text[p + g + j] = q[j]
  BY <1>1 DEF Laid
<1>4. g \in Nat /\ l \in Nat
  <2> HIDE DEF q
  <2> QED
    BY <1>1, <1>2, LenProperties
<1>5. text[at[i] + 1] \in Dep!Blanks
  BY <1>1, NamesAreFollowed
<1> HIDE DEF name, q, p
<1>6. o \in Nat /\ o + l < Len(text) /\ o + l <= Len(text) /\ at[i] = o + l /\ p + g <= Len(text)
  BY <1>1, <1>3, <1>4
<1>7. \A j \in 1 .. l : text[o + j] = q[j]
  BY <1>3
<1> HIDE DEF o, l
<1>8. o + 1 \in 1 .. Len(text) /\ Dep!skipWhitespace(o + 1) = o + 1
      /\ Dep!At(o + 1) \notin Dep!Newlines \cup {"hash", "end"}
  <2>1. PICK pos : Places(pos, name)
    BY <1>1, QuotedLayout
  <2>2. 1 \in 1 .. Len(name)
    <3>1. Len(name) \in Nat /\ Len(name) # 0
      BY <1>1 DEF Dep!IsName
    <3> QED
      BY <3>1
  <2>3. PICK m : HasGroup(q, pos[1 - 1], m, name[1 + m])
    BY <1>1, <2>1, <2>2, GroupWritten DEF q
  <2>4. pos[1 - 1] = 0
    BY <2>1 DEF Places
  <2>5. HasGroup(q, 0, m, name[1 + m])
    BY <2>3, <2>4
  <2>6. HasGroup(text, o + 0, m, name[1 + m])
    BY <1>1, <1>4, <1>6, <1>7, <2>5, GroupShifted DEF l
  <2>7. o + 0 = o
    BY <1>6
  <2>8. HasGroup(text, o, m, name[1 + m])
    BY <2>6, <2>7
  <2> QED
    BY <2>8, GroupStarts
<1>9. Dep!skipWhitespace(p + 1) = o + 1
  <2>1. /\ p + Len(gap) <= Len(text) /\ \A j \in 1 .. Len(gap) : text[p + j] = gap[j]
        /\ Dep!skipWhitespace(p + Len(gap) + 1) = p + Len(gap) + 1
    BY <1>3, <1>6, <1>8 DEF o
  <2>2. Dep!skipWhitespace(p + 1) = p + Len(gap) + 1
    BY <1>1, <1>3, <2>1, GapSkipped
  <2> QED
    BY <2>2 DEF o
<1>10. Dep!TokenEnd(o + 1) = o + l + 1
  <2>1. text[o + Len(Dep!Quoted(name)) + 1] \in Dep!Blanks
    BY <1>5, <1>6 DEF l, q
  <2>2. /\ o + Len(Dep!Quoted(name)) < Len(text)
        /\ \A j \in 1 .. Len(Dep!Quoted(name)) : text[o + j] = Dep!Quoted(name)[j]
    BY <1>6, <1>7 DEF l, q
  <2>3. Dep!TokenEnd(o + 1) = o + Len(Dep!Quoted(name)) + 1
    BY <1>1, <1>6, <2>1, <2>2, NameEnds
  <2> QED
    BY <2>3 DEF l, q
<1>11. l # 0
  <2> SUFFICES ASSUME l = 0 PROVE FALSE
    OBVIOUS
  <2>1. Dep!At(o + 1) \in Dep!Blanks /\ o + 1 \in 1 .. Dep!End
    <3>1. at[i] + 1 = o + 1
      BY <1>6
    <3>2. text[o + 1] \in Dep!Blanks
      BY <1>5, <3>1
    <3>3. o + 1 < Dep!End /\ o + 1 \in 1 .. Dep!End
      BY <1>1, <1>8 DEF Dep!End
    <3> QED
      BY <3>2, <3>3 DEF Dep!At
  <2>2. Dep!At(o + 1) = "blank"
    BY <1>8, <2>1 DEF Dep!Blanks
  <2>3. Dep!At(Dep!skipWhitespace(o + 1)) # "blank"
    BY <1>1, <2>1, SkipStops
  <2> QED
    BY <1>8, <2>2, <2>3
<1>12. SubSeq(text, o + 1, (at[i] + 1) - 1) = q
  <2> DEFINE a == o + 1
             b == (at[i] + 1) - 1
             s == SubSeq(text, a, b)
  <2>1. a \in Int /\ b \in Int /\ b - a + 1 = l /\ a >= 1 /\ b <= Len(text) /\ (~(a <= b) => l = 0)
    BY <1>1, <1>4, <1>6, <1>11 DEF l
  <2>2. \A j \in a .. b : text[j] \in Dep!Classes
    <3> TAKE j \in a .. b
    <3>1. j \in 1 .. Len(text)
      BY <1>1, <2>1
    <3> QED
      BY <3>1
  <2> HIDE DEF a, b
  <2>3. /\ s \in Seq(Dep!Classes)
        /\ Len(s) = IF a <= b THEN b - a + 1 ELSE 0
        /\ \A j \in 1 .. b - a + 1 : s[j] = text[a + j - 1]
    BY <2>1, <2>2, SubSeqProperties
  <2> HIDE DEF s
  <2>4. Len(s) = Len(q)
    BY <2>1, <2>3 DEF l
  <2>5. \A j \in 1 .. Len(s) : s[j] = q[j]
    <3> TAKE j \in 1 .. Len(s)
    <3>1. j \in 1 .. b - a + 1 /\ j \in 1 .. l
      BY <2>1, <2>3, <2>4 DEF l
    <3>2. a + j - 1 = o + j
      BY <1>6, <3>1 DEF a
    <3> QED
      BY <1>7, <2>3, <3>1, <3>2
  <2>6. s = q
    BY <1>2, <2>3, <2>4, <2>5, SeqEqual
  <2> QED
    BY <2>6 DEF s, a, b
<1>13. Dep!decodeDepfileToken(q) = name
  BY <1>1, NameDecoded DEF q
<1>14. at[i] + 1 = o + l + 1 /\ at[i] + 1 # o + 1
  <2>1. l \in Nat
    BY <1>4 DEF l
  <2> QED
    BY <1>6, <1>11, <2>1
<1> QED
  BY <1>8, <1>9, <1>10, <1>12, <1>13, <1>14 DEF p, name

-----------------------------------------------------------------------------
(* What has been read of a rule: nothing, or its target and some names.    *)
ReadSoFar(at, target, gap) ==
    /\ IsRule(target, names, gap) /\ Laid(at, target, names, gap, text)
    /\ \/ ptr = 0 /\ found = <<>>
       \/ \E k \in 0 .. Len(names) : ptr = at[k] + 1 /\ found = SubSeq(names, 1, k)

(* The text stays what it was, the position is in it, and the names that   *)
(* were found are those that were written before it.                       *)
DepInv ==
    /\ text \in Seq(Dep!Classes) /\ ptr \in 0 .. Dep!End
    /\ known => \E at, target, gap : ReadSoFar(at, target, gap)

(* The reader begins inside its text.                                      *)
LEMMA DepInvInit == Dep!DepInit => DepInv
<1> SUFFICES ASSUME Dep!DepInit PROVE DepInv
  OBVIOUS
<1>1. ASSUME known
      PROVE  \E target, gap : IsRule(target, names, gap) /\ text = Dep!Written(target, names, gap)
  <2>1. PICK target \in Targets, gap \in Gaps : text = Dep!Written(target, names, gap)
    BY <1>1 DEF Dep!DepInit
  <2>2. names \in Names
    BY <1>1 DEF Dep!DepInit
  <2>3. IsRule(target, names, gap)
    BY <2>2, DepfileAssumption DEF IsRule
  <2> QED
    BY <2>1, <2>3
<1>2. text \in Seq(Dep!Classes)
  <2>1. CASE known
    BY <1>1, <2>1, WrittenIsText DEF IsRule
  <2>2. CASE ~known
    BY <2>2, DepfileAssumption DEF Dep!DepInit
  <2> QED
    BY <2>1, <2>2
<1>3. Len(text) \in Nat /\ ptr = 0 /\ found = <<>>
  BY <1>2 DEF Dep!DepInit
<1>4. ASSUME known PROVE \E at, target, gap : ReadSoFar(at, target, gap)
  <2>1. PICK target, gap : IsRule(target, names, gap) /\ text = Dep!Written(target, names, gap)
    BY <1>1, <1>4
  <2>2. PICK at : Laid(at, target, names, gap, text)
    BY <2>1, WrittenLayout DEF IsRule
  <2> QED
    BY <1>3, <2>1, <2>2 DEF ReadSoFar
<1> QED
  BY <1>2, <1>3, <1>4 DEF DepInv, Dep!End

(* A round reads the target, or one more name.                             *)
LEMMA ReadSoFarNext ==
    ASSUME DepInv, Dep!DepNext, NEW at, NEW target, NEW gap, ReadSoFar(at, target, gap)
    PROVE  ReadSoFar(at, target, gap)'
<1> DEFINE n == Len(names)
<1>1. /\ IsRule(target, names, gap) /\ Laid(at, target, names, gap, text)
      /\ text \in Seq(Dep!Classes) /\ names \in Seq(Seq(Dep!Classes))
  BY DEF ReadSoFar, DepInv, IsRule
<1>2. n \in Nat
  BY <1>1
<1>3. text' = text /\ names' = names
  BY DEF Dep!DepNext, Dep!ReadTarget, Dep!ReadName
<1>4. (IsRule(target, names, gap) /\ Laid(at, target, names, gap, text))'
  BY <1>1, <1>3 DEF IsRule, Laid
<1> SUFFICES \E k \in 0 .. n : ptr' = at[k] + 1 /\ found' = SubSeq(names, 1, k)
  BY <1>3, <1>4 DEF ReadSoFar
<1>5. CASE Dep!ReadTarget
  <2>1. found = <<>>
    <3>1. ptr = 0
      BY <1>5 DEF Dep!ReadTarget
    <3>2. \A k \in 0 .. n : at[k] + 1 # 0
      <4>1. \A k \in 0 .. n : at[k] \in Nat
        BY <1>1 DEF Laid
      <4> QED
        BY <4>1
    <3> QED
      BY <3>1, <3>2 DEF ReadSoFar
  <2>2. 0 \in 0 .. n
    BY <1>2
  <2>3. Dep!AfterTarget = Len(target) + 2 /\ at[0] = Len(target) + 1
    <3>1. target \in Seq(Dep!Classes) /\ Dep!IsTarget(target) /\ Len(target) \in Nat
      BY <1>1 DEF IsRule
    <3>2. /\ at[0] = Len(target) + 1 /\ at[0] < Len(text)
          /\ \A j \in 1 .. Len(target) : text[j] = target[j]
          /\ text[Len(target) + 1] = "colon"
      BY <1>1, <2>2 DEF Laid
    <3>3. text[Len(target) + 2] \in Dep!Blanks
      <4>1. text[at[0] + 1] \in Dep!Blanks
        BY <1>1, <2>2, NamesAreFollowed
      <4>2. at[0] + 1 = Len(target) + 2
        BY <3>1, <3>2
      <4> QED
        BY <4>1, <4>2
    <3>4. Len(target) + 1 < Len(text)
      BY <3>2
    <3>5. Dep!AfterTarget = Len(target) + 2
      BY <1>1, <3>1, <3>2, <3>3, <3>4, TargetScanned
    <3> QED
      BY <3>2, <3>5
  <2>4. ptr' = at[0] + 1
    <3>1. Len(target) \in Nat
      BY <1>1 DEF IsRule
    <3> QED
      BY <1>5, <2>3, <3>1 DEF Dep!ReadTarget
  <2>5. found' = SubSeq(names, 1, 0)
    <3>1. SubSeq(names, 1, 0) = <<>>
      BY SubSeqEmpty
    <3> QED
      BY <1>5, <2>1, <3>1 DEF Dep!ReadTarget
  <2> QED
    BY <2>2, <2>4, <2>5
<1>6. CASE Dep!ReadName
  <2>1. ptr # 0
    BY <1>6 DEF Dep!ReadName
  <2>2. PICK k \in 0 .. n : ptr = at[k] + 1 /\ found = SubSeq(names, 1, k)
    BY <2>1 DEF ReadSoFar
  <2>3. k # n
    <3> SUFFICES ASSUME k = n PROVE FALSE
      OBVIOUS
    <3>1. ptr \in 1 .. Dep!End /\ Dep!At(ptr) = "lf"
      <4>1. at[n] \in Nat /\ at[n] < Len(text) /\ text[at[n] + 1] = "lf"
        BY <1>1, <2>2 DEF Laid
      <4>2. ptr = at[n] + 1 /\ Len(text) \in Nat
        BY <1>1, <2>2
      <4> QED
        BY <4>1, <4>2 DEF Dep!At, Dep!End
    <3>2. Dep!skipWhitespace(ptr) = ptr
      <4>1. Dep!At(ptr) # "blank" /\ ~Continued(ptr)
        BY <3>1 DEF Continued
      <4>2. Len(text) \in Nat
        BY <1>1
      <4> QED
        BY <3>1, <4>1, <4>2, SkipRounds
    <3>3. Dep!At(Dep!skipWhitespace(ptr)) \notin Dep!Newlines
      BY <1>6 DEF Dep!ReadName
    <3> QED
      BY <3>1, <3>2, <3>3 DEF Dep!Newlines
  <2> DEFINE i == k + 1
             s == Dep!skipWhitespace(ptr)
  <2>4. i \in 1 .. Len(names) /\ i - 1 = k /\ i \in 0 .. n
    BY <1>2, <2>3
  <2> HIDE DEF i
  <2>5. /\ Dep!TokenEnd(s) = at[i] + 1 /\ at[i] + 1 # s
        /\ Dep!decodeDepfileToken(SubSeq(text, s, (at[i] + 1) - 1)) = names[i]
    <3>1. LET y == Dep!skipWhitespace(at[i - 1] + 1)
          IN  /\ Dep!TokenEnd(y) = at[i] + 1 /\ at[i] + 1 # y
              /\ Dep!decodeDepfileToken(SubSeq(text, y, (at[i] + 1) - 1)) = names[i]
      BY <1>1, <2>4, NameRead
    <3>2. at[i - 1] + 1 = ptr
      BY <2>2, <2>4
    <3> QED
      BY <3>1, <3>2
  <2>6. ptr' = at[i] + 1 /\ found' = Append(found, names[i])
    <3>1. ptr' = Dep!TokenEnd(s) /\ (ptr' # s => found' = Append(found, Dep!decodeDepfileToken(SubSeq(text, s, ptr' - 1))))
      BY <1>6 DEF Dep!ReadName
    <3> HIDE DEF s
    <3>2. ptr' = at[i] + 1 /\ ptr' # s
      BY <2>5, <3>1
    <3> QED
      BY <2>5, <3>1, <3>2
  <2>7. Append(SubSeq(names, 1, k), names[i]) = SubSeq(names, 1, i)
    <3> DEFINE S == Seq(Dep!Classes)
               u == SubSeq(names, 1, k)
    <3>1. names \in Seq(S) /\ 1 \in 1 .. Len(names) /\ i \in 1 .. Len(names)
      BY <1>1, <1>2, <2>4
    <3> HIDE DEF S
    <3>2. SubSeq(names, 1, i) = SubSeq(names, 1, i - 1) \o <<names[i]>>
      BY <3>1, SubSeqRecursiveSecond
    <3>3. names[i] \in S
      BY <3>1
    <3>4. u \in Seq(S)
      <4>1. \A j \in 1 .. k : names[j] \in S
        BY <1>2, <3>1
      <4>2. 1 \in Int /\ k \in Int
        OBVIOUS
      <4> QED
        BY ONLY <4>1, <4>2, SubSeqProperties
    <3> HIDE DEF u
    <3>5. Append(u, names[i]) = u \o <<names[i]>>
      BY <3>3, <3>4, AppendIsConcat
    <3> QED
      BY <2>4, <3>2, <3>5 DEF u
  <2> QED
    BY <2>2, <2>4, <2>6, <2>7
<1> QED
  BY <1>5, <1>6 DEF Dep!DepNext

(* No round leaves the text, or reads what was not written.                *)
LEMMA DepInvNext == DepInv /\ [Dep!DepNext]_(Dep!depVars) => DepInv'
<1> SUFFICES ASSUME DepInv, [Dep!DepNext]_(Dep!depVars) PROVE DepInv'
  OBVIOUS
<1>1. Len(text) \in Nat /\ Dep!End \in Nat
  BY DEF DepInv, Dep!End
<1>2. text' = text /\ known' = known
  BY DEF Dep!DepNext, Dep!ReadTarget, Dep!ReadName, Dep!depVars
<1>3. ptr' \in 0 .. Dep!End
  <2>1. CASE Dep!ReadTarget
    BY <1>1, <2>1, TargetEnds DEF Dep!ReadTarget
  <2>2. CASE Dep!ReadName
    <3>1. ptr \in 1 .. Dep!End /\ ptr' = Dep!TokenEnd(Dep!skipWhitespace(ptr))
      BY <2>2 DEF Dep!ReadName, DepInv
    <3>2. Dep!skipWhitespace(ptr) \in ptr .. Dep!End
      BY <1>1, <3>1, SkipStops
    <3>3. Dep!skipWhitespace(ptr) \in 1 .. Dep!End
      BY <1>1, <3>1, <3>2
    <3>4. ptr' \in Dep!skipWhitespace(ptr) .. Dep!End
      BY <1>1, <3>1, <3>3, TokenMoves
    <3> QED
      BY <1>1, <3>3, <3>4
  <2>3. CASE UNCHANGED Dep!depVars
    BY <2>3 DEF Dep!depVars, DepInv
  <2> QED
    BY <2>1, <2>2, <2>3 DEF Dep!DepNext
<1>4. ASSUME known PROVE \E at, target, gap : ReadSoFar(at, target, gap)'
  <2>1. PICK at, target, gap : ReadSoFar(at, target, gap)
    BY <1>4 DEF DepInv
  <2>2. CASE Dep!DepNext
    BY <2>1, <2>2, ReadSoFarNext
  <2>3. CASE UNCHANGED Dep!depVars
    <3>1. ReadSoFar(at, target, gap)'
      BY <2>1, <2>3 DEF Dep!depVars, ReadSoFar, IsRule, Laid
    <3> QED
      BY <3>1
  <2> QED
    BY <2>2, <2>3
<1> QED
  BY <1>2, <1>3, <1>4 DEF DepInv, Dep!End

(* And from a position in the text every round moves on, or is the last.   *)
LEMMA DepInvAdvances == ASSUME DepInv PROVE Dep!EveryRoundAdvances
BY RoundAdvances DEF DepInv

(* When it stops there is no name left.                                    *)
LEMMA DepInvSurvives == ASSUME DepInv PROVE Dep!NamesSurvive
<1> SUFFICES ASSUME known, Dep!Stopped PROVE found = names
  BY DEF Dep!NamesSurvive
<1>1. PICK at, target, gap : ReadSoFar(at, target, gap)
  BY DEF DepInv
<1> DEFINE n == Len(names)
<1>2. /\ IsRule(target, names, gap) /\ Laid(at, target, names, gap, text)
      /\ text \in Seq(Dep!Classes) /\ names \in Seq(Seq(Dep!Classes))
  BY <1>1 DEF ReadSoFar, DepInv, IsRule
<1>3. n \in Nat
  BY <1>2
<1>4. PICK k \in 0 .. n : ptr = at[k] + 1 /\ found = SubSeq(names, 1, k)
  BY <1>1 DEF ReadSoFar, Dep!Stopped
<1>5. k = n
  <2> SUFFICES ASSUME k # n PROVE FALSE
    OBVIOUS
  <2> DEFINE i == k + 1
  <2>1. i \in 1 .. Len(names) /\ i - 1 = k
    BY <1>3
  <2> HIDE DEF i
  <2>2. Dep!At(Dep!skipWhitespace(at[i - 1] + 1)) \notin Dep!Newlines \cup {"hash", "end"}
    BY <1>2, <2>1, NameRead
  <2>3. Dep!At(Dep!skipWhitespace(ptr)) \in Dep!Newlines \cup {"hash", "end"}
    BY DEF Dep!Stopped
  <2> QED
    BY <1>4, <2>1, <2>2, <2>3
<1>6. SubSeq(names, 1, n) = names
  BY <1>2, SubSeqFull
<1> QED
  BY <1>4, <1>5, <1>6

-----------------------------------------------------------------------------
(***************************************************************************)
(* The structures together: each behaviour is one of one of them, and the  *)
(* others do nothing in it.                                                *)
(***************************************************************************)
(* A step of the part that runs is none of the others.                     *)
LEMMA EachPartRunsItsModule ==
    /\ Init => Graph!GraphInit /\ Map!MapInit /\ Pool!PoolInit /\ Dep!DepInit
    /\ [Next]_vars => /\ [Graph!GraphNext]_(Graph!graphVars)
                      /\ [Map!MapNext]_(Map!mapVars)
                      /\ [Pool!PoolNext]_(Pool!poolVars)
                      /\ [Dep!DepNext]_(Dep!depVars)
<1>1. UNCHANGED graphState => UNCHANGED Graph!graphVars
  BY DEF graphState, Graph!graphVars, Graph!load, Graph!kahn, Graph!sort
<1>2. UNCHANGED mapState => UNCHANGED Map!mapVars
  BY DEF mapState, Map!mapVars, Map!table, Map!helper
<1>3. UNCHANGED poolState => UNCHANGED Pool!poolVars
  BY DEF poolState, Pool!poolVars
<1>4. UNCHANGED depState => UNCHANGED Dep!depVars
  BY DEF depState, Dep!depVars
<1>5. UNCHANGED vars => UNCHANGED <<graphState, mapState, poolState, depState>>
  BY DEF vars
<1>6. Next => /\ Graph!GraphNext \/ UNCHANGED graphState
              /\ Map!MapNext \/ UNCHANGED mapState
              /\ Pool!PoolNext \/ UNCHANGED poolState
              /\ Dep!DepNext \/ UNCHANGED depState
  BY DEF Next
<1> QED
  BY <1>1, <1>2, <1>3, <1>4, <1>5, <1>6 DEF Init

(* The invariants of the four hold of every manifest, hash function, list  *)
(* of strings and text.                                                    *)
LEMMA StructuresInvariant == Spec => [](GraphInv /\ MapInv /\ PoolInv /\ DepInv)
<1>1. Init => GraphInv /\ MapInv /\ PoolInv /\ DepInv
  BY EachPartRunsItsModule, GraphInvInit, MapInvInit, PoolInvInit, DepInvInit
<1>2. GraphInv /\ MapInv /\ PoolInv /\ DepInv /\ [Next]_vars
        => (GraphInv /\ MapInv /\ PoolInv /\ DepInv)'
  BY EachPartRunsItsModule, GraphInvNext, MapInvNext, PoolInvNext, DepInvNext
<1> QED
  BY <1>1, <1>2, PTL DEF Spec

(* A build is refused exactly when two steps make a file or a file needs   *)
(* itself, and so is what the commands tool lists: the count of in-degrees *)
(* and the search by depth agree, and blame no graph without a cycle.      *)
THEOREM CyclesAreRefused == Spec => []RefusedIffCyclic
<1>1. GraphInv => RefusedIffCyclic
  BY DEF GraphInv, RefusedIffCyclic
<1> QED
  BY <1>1, StructuresInvariant, PTL

(* The in-degree that a step starts with is the number of times its inputs *)
(* are mentioned that steps make, which is what their ends count down.     *)
THEOREM DegreesCountMentions == Spec => []DegreesAreMentions
<1>1. GraphInv => DegreesAreMentions
  BY DegreesCount DEF DegreesAreMentions
<1> QED
  BY <1>1, StructuresInvariant, PTL

(* The commands tool lists every step after the ones that make its inputs, *)
(* and every step once.                                                    *)
THEOREM CommandsFollowInputs == Spec => []CommandsInOrder
<1>1. GraphInv => CommandsInOrder
  BY DEF GraphInv, CommandsInOrder
<1> QED
  BY <1>1, StructuresInvariant, PTL

(* Whatever collides, is displaced or moves to a larger table, find gives  *)
(* what was inserted last for the key, and nothing for other keys.         *)
THEOREM FindAnswersAsAMap == Spec => []LooksLikeMap
<1>1. MapInv => LooksLikeMap
  BY MapInvAnswers DEF LooksLikeMap
<1> QED
  BY <1>1, StructuresInvariant, PTL

(* insert returns the slot of the value it was called with, although it    *)
(* has moved other entries since it was put there.                         *)
THEOREM InsertReturnsItsEntry == Spec => []ReturnsItsEntry
<1>1. MapInv => ReturnsItsEntry
  BY MapInvAnswers DEF ReturnsItsEntry
<1> QED
  BY <1>1, StructuresInvariant, PTL

(* A reference that is saved for an input leads to the input's characters, *)
(* whether the address was known or not, and the cache of addresses keeps  *)
(* room for its searches to end.                                           *)
THEOREM ReferencesLeadBack == Spec => []ReferencesRight
<1>1. PoolInv => ReferencesRight
  BY PoolInvRight DEF ReferencesRight
<1> QED
  BY <1>1, StructuresInvariant, PTL

(* Whatever the text of a .d file is, every round of parseDepfile moves on *)
(* until it stops, so that no broken file can keep a build from starting.  *)
THEOREM DepfilesAreReadToTheEnd == Spec => []EveryRoundAdvances
<1>1. DepInv => EveryRoundAdvances
  BY DepInvAdvances DEF EveryRoundAdvances
<1> QED
  BY <1>1, StructuresInvariant, PTL

(* What parseDepfile gives of the text that a compiler has written are the *)
(* names it was written for, however many backslashes, blanks, hashes and  *)
(* dollars they have and wherever its lines are continued.                 *)
THEOREM NamesComeBack == Spec => []NamesSurvive
<1>1. DepInv => NamesSurvive
  BY DepInvSurvives DEF NamesSurvive
<1> QED
  BY <1>1, StructuresInvariant, PTL
=============================================================================
