----------------------------- MODULE SourceTimes ----------------------------
(***************************************************************************)
(* The constructor of NodeTimes: the sources' modification times, read by  *)
(* several threads that each take a range of them, and their summary for   *)
(* every produced node.  Module NodeTimes begins where this one ends.      *)
(***************************************************************************)
EXTENDS Integers, Sequences

CONSTANTS
    Graphs,         \* sequences of nodes: [out, produced], out a sequence of indices
    Times,          \* modification times, subset of Nat \ {0}
    ThreadCounts,   \* thread_count
    StatsPerThread  \* STATS_PER_THREAD

VARIABLES
    vertices,       \* graph.nodes()
    file,           \* modification time of each node's file; 0: missing
    stage,          \* "divide", "stat", "summarise", "ready"
    at, edge,       \* the node whose out_edges are looked at, and how many have been
    pending,
    ranges,         \* what each thread has still to do: <<next, end>>, positions from 0
    sources,        \* SourceSummary of each node
    producedIn      \* produced_in_nodes, from produced_in_offsets[node] on

sourceVars == <<vertices, file, stage, at, edge, pending, ranges, sources, producedIn>>

NoSummary == [newest |-> 0, missing |-> FALSE, any |-> FALSE]

SourceInit ==
    /\ vertices \in Graphs
    /\ file \in [DOMAIN vertices -> Times \cup {0}]
    /\ stage = "divide" /\ at = 1 /\ edge = 0
    /\ pending = <<>> /\ ranges = <<>>
    /\ sources = [n \in DOMAIN vertices |-> NoSummary]
    /\ producedIn = [n \in DOMAIN vertices |-> <<>>]

(***************************************************************************)
(* statSources                                                             *)
(***************************************************************************)
IsSource(n) == ~vertices[n].produced /\ vertices[n].out # <<>>
Pending ==
    LET upTo[n \in 0 .. Len(vertices)] ==
            IF n = 0 THEN <<>>
            ELSE IF IsSource(n) THEN Append(upTo[n - 1], n) ELSE upTo[n - 1]
    IN  upTo[Len(vertices)]
Smaller(a, b) == IF a < b THEN a ELSE b
ChunkSize(total, workers) == (total + workers - 1) \div workers

WholeRanges(total, workers) ==          \* mutant: a last chunk that is short is left out
    IF workers <= 1 THEN <<<<0, total>>>>
    ELSE LET chunk == ChunkSize(total, workers)
         IN  [t \in 1 .. total \div chunk |-> <<(t - 1) * chunk, t * chunk>>]

(* The first range is that of the constructor's own thread.                *)
Ranges(total, workers) ==
    IF workers <= 1 THEN <<<<0, total>>>>
    ELSE LET chunk == ChunkSize(total, workers)
         IN  [t \in 1 .. ChunkSize(total, chunk) |->
                <<(t - 1) * chunk, Smaller(t * chunk, total)>>]

Divide ==
    /\ stage = "divide"
    /\ stage' = "stat"
    /\ pending' = Pending
    /\ \E threads \in ThreadCounts :
         ranges' = Ranges(Len(Pending), Smaller(threads, Len(Pending) \div StatsPerThread))
    /\ UNCHANGED <<vertices, file, at, edge, sources, producedIn>>

StatNext(t) ==
    /\ stage = "stat"
    /\ ranges[t][1] < ranges[t][2]
    /\ LET n == pending[ranges[t][1] + 1]
       IN  sources' = [sources EXCEPT ![n].newest = file[n], ![n].missing = file[n] = 0]
    /\ ranges' = [ranges EXCEPT ![t][1] = @ + 1]
    /\ UNCHANGED <<vertices, file, stage, at, edge, pending, producedIn>>

Join ==
    /\ stage = "stat"
    /\ \A t \in DOMAIN ranges : ranges[t][1] = ranges[t][2]
    /\ stage' = "summarise"
    /\ UNCHANGED <<vertices, file, at, edge, pending, ranges, sources, producedIn>>

(***************************************************************************)
(* One pass over the nodes: a source's time goes to its consumers, and a   *)
(* produced node to the lists of its consumers.                            *)
(***************************************************************************)
AddTime(summary, time) ==
    IF time.missing THEN [summary EXCEPT !.missing = TRUE, !.any = TRUE]
    ELSE [summary EXCEPT !.newest = IF @ < time.newest THEN time.newest ELSE @, !.any = TRUE]

Summarise ==
    /\ stage = "summarise"
    /\ at \in DOMAIN vertices
    /\ edge < Len(vertices[at].out)
    /\ edge' = edge + 1
    /\ LET v == vertices[at].out[edge + 1]
       IN  IF vertices[at].produced
           THEN /\ producedIn' = [producedIn EXCEPT ![v] = Append(@, at)]
                /\ UNCHANGED sources
           ELSE /\ sources' = [sources EXCEPT ![v] = AddTime(@, sources[at])]
                /\ UNCHANGED producedIn
    /\ UNCHANGED <<vertices, file, stage, at, pending, ranges>>

NextNode ==
    /\ stage = "summarise"
    /\ at \in DOMAIN vertices
    /\ edge = Len(vertices[at].out)
    /\ at' = at + 1
    /\ edge' = 0
    /\ UNCHANGED <<vertices, file, stage, pending, ranges, sources, producedIn>>

Summarised ==
    /\ stage = "summarise"
    /\ at \notin DOMAIN vertices
    /\ stage' = "ready"
    /\ UNCHANGED <<vertices, file, at, edge, pending, ranges, sources, producedIn>>

SourceNext == \/ Divide \/ (\E t \in DOMAIN ranges : StatNext(t)) \/ Join
              \/ Summarise \/ NextNode \/ Summarised

(* inputsChangedSince, of an output that is as old as time.                *)
InputsChangedSince(n, time) ==
    \/ sources[n].any /\ (sources[n].missing \/ sources[n].newest >= time)
    \/ \E i \in DOMAIN producedIn[n] : LET u == producedIn[n][i] IN file[u] = 0 \/ file[u] >= time

-----------------------------------------------------------------------------
(* However the sources divide among the threads, the summary answers for   *)
(* each produced node what looking at all of its inputs would: whether one *)
(* is missing, or not older than the output.                               *)
SummaryAnswers ==
    stage = "ready" =>
        \A n \in DOMAIN vertices : vertices[n].produced =>
            \A time \in Times :
                InputsChangedSince(n, time)
                    <=> \E u \in DOMAIN vertices :
                          /\ \E e \in DOMAIN vertices[u].out : vertices[u].out[e] = n
                          /\ file[u] = 0 \/ file[u] >= time
=============================================================================
