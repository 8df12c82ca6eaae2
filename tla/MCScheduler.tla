----------------------------- MODULE MCScheduler -----------------------------
(* Small build graphs for the scheduler. *)
EXTENDS Scheduler, TLC

CONSTANTS a, b, c, d, t1, t2, t3

Producer(edges) == [e \in edges |-> e[1]]
Consumer(edges) == [e \in edges |-> e[2]]

\* a -> b: one object and the program linked from it.
ChainEdges == {<<a, b, 1>>}
ChainFrom == Producer(ChainEdges)
ChainTo == Consumer(ChainEdges)

\* Two objects and a program that lists the first one twice, and a library beside it.
LinkEdges == {<<a, c, 1>>, <<a, c, 2>>, <<b, c, 1>>, <<a, d, 1>>}
LinkFrom == Producer(LinkEdges)
LinkTo == Consumer(LinkEdges)

\* A generated source with two users, linked together.
DiamondEdges == {<<a, b, 1>>, <<a, c, 1>>, <<b, d, 1>>, <<c, d, 1>>}
DiamondFrom == Producer(DiamondEdges)
DiamondTo == Consumer(DiamondEdges)
=============================================================================
