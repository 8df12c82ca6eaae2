------------------------------ MODULE Structures -----------------------------
(***************************************************************************)
(* What a graph is made with: BuildGraph, the map that indexes it, the     *)
(* pool that saves its strings, and the reader of its depfiles.  They work *)
(* on data of their own, so each behaviour is one of one of them (part),   *)
(* and the others stay as they are at the start.                           *)
(***************************************************************************)
EXTENDS Integers, Sequences, FiniteSets

CONSTANTS
    Paths, Manifests,                                       \* BuildGraph
    Keys, Values, Hashes, Requests, Nothing, MaxCalls,      \* FlatHashMap
    Views, Multipliers, Capacities, MaxNodes, MaxInputs,    \* StringPool
    Targets, Names, Gaps, Others                            \* Depfile

(***************************************************************************)
(* What the proofs assume of the data.                                     *)
(***************************************************************************)
StepType == [output : Paths, compiles : BOOLEAN,
             depfile : Seq(Paths), parsed : Seq(Paths), opaque : Seq(Paths)]
ASSUME GraphAssumption == Manifests \subseteq Seq(StepType)

(* Nothing, the null pointer, is none of the keys and no slot's number.    *)
ASSUME MapAssumption ==
    /\ Hashes \subseteq [Keys -> Nat] /\ Requests \subseteq Nat
    /\ Nothing \notin Keys /\ Nothing \notin Nat

(* Characters do not change where they are: two views of one address and   *)
(* size are of the same characters.                                        *)
ASSUME PoolAssumption ==
    /\ \A view \in Views : view.data # 0 => \A f \in Multipliers : f[view.data] \in Nat
    /\ \A v, w \in Views :
         v.data # 0 /\ v.data = w.data /\ v.size = w.size => v.content = w.content
    /\ Capacities \subseteq Nat

VARIABLES
    part,
    manifest, tool, phase, nodes, steps, linked, degree, remaining, ready, visited,
    status, stack, order, culprit,
    hash, slots, size, queue, carry, place, result, dict, last, calls,
    index, buckets, used, pool, paths, written,
    text, names, known, ptr, found

graphState == <<manifest, tool, phase, nodes, steps, linked, degree, remaining, ready, visited,
                status, stack, order, culprit>>
mapState == <<hash, slots, size, queue, carry, place, result, dict, last, calls>>
poolState == <<index, buckets, used, pool, paths, written>>
depState == <<text, names, known, ptr, found>>
vars == <<part, graphState, mapState, poolState, depState>>

Graph == INSTANCE BuildGraph
Map == INSTANCE FlatHashMap
Pool == INSTANCE StringPool
Dep == INSTANCE Depfile

(* What a .d file is made of, whoever has written it.                      *)
ASSUME DepfileAssumption ==
    /\ Targets \subseteq Seq(Dep!Classes) /\ \A target \in Targets : Dep!IsTarget(target)
    /\ Gaps \subseteq Seq(Dep!Classes) /\ \A gap \in Gaps : Dep!IsGap(gap)
    /\ Names \subseteq Seq(Seq(Dep!Classes))
    /\ \A list \in Names : \A i \in DOMAIN list : Dep!IsName(list[i])
    /\ Others \subseteq Seq(Dep!Classes)

-----------------------------------------------------------------------------
Parts == {"graph", "map", "pool", "depfile"}
AnyOf(S) == CHOOSE x \in S : TRUE

Init ==
    /\ part \in Parts
    /\ part # "graph" => manifest = AnyOf(Manifests) /\ tool = "execute"
    /\ part # "map" => hash = AnyOf(Hashes) /\ slots = AnyOf(Map!FirstSlots)
    /\ part # "pool" => index = AnyOf(Multipliers) /\ buckets = AnyOf(Pool!FirstBuckets)
    /\ part # "depfile" => known = FALSE /\ text = AnyOf(Others)
    /\ Graph!GraphInit /\ Map!MapInit /\ Pool!PoolInit /\ Dep!DepInit

Next ==
    /\ UNCHANGED part
    /\ \/ part = "graph" /\ Graph!GraphNext /\ UNCHANGED <<mapState, poolState, depState>>
       \/ part = "map" /\ Map!MapNext /\ UNCHANGED <<graphState, poolState, depState>>
       \/ part = "pool" /\ Pool!PoolNext /\ UNCHANGED <<graphState, mapState, depState>>
       \/ part = "depfile" /\ Dep!DepNext /\ UNCHANGED <<graphState, mapState, poolState>>

Spec == Init /\ [][Next]_vars

(***************************************************************************)
(* The properties, as the modules state them.                              *)
(***************************************************************************)
(* A graph is refused exactly when a file is made twice or needs itself.   *)
RefusedIffCyclic == Graph!RefusedIffCyclic
(* In-degrees count every mention of a produced file, and nothing else.    *)
DegreesAreMentions == Graph!DegreesAreMentions
(* The commands tool lists a step after those that make its inputs.        *)
CommandsInOrder == Graph!CommandsInOrder
(* Between calls, find answers as the function that insertions have made.  *)
LooksLikeMap == Map!LooksLikeMap
(* insert returns a pointer to the value it was given.                     *)
ReturnsItsEntry == Map!ReturnsItsEntry
(* What is saved of a depfile input leads a reader to the same string, and *)
(* AddressCache's loops end.                                               *)
ReferencesRight == Pool!ReferencesRight
(* Names come back from a depfile as they were before they were quoted.    *)
NamesSurvive == Dep!NamesSurvive
(* parseDepfile moves on in every round, on any text.                      *)
EveryRoundAdvances == Dep!EveryRoundAdvances
=============================================================================
