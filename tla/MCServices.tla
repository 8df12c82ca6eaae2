------------------------------ MODULE MCServices -----------------------------
(* Services on small instances.                                            *)
EXTENDS Services

(* Three runs, the second of which saves less than the first.              *)
Sizes == <<2, 1, 2>>

(* Two link steps, one of which is short of the threshold in one version.  *)
LongLists == {<<"p", 1>>, <<"p", 2>>, <<"p", 3>>, <<"q", 1>>, <<"q", 3>>}
Names == [l \in Links |-> l]

(* Four to five sources for three threads: full, short and missing chunks. *)
Vertex(out, produced) == [out |-> out, produced |-> produced]
SmallGraphs ==
    {<<>>,
     <<Vertex(<<4>>, FALSE), Vertex(<<4, 5>>, FALSE), Vertex(<<5, 5>>, FALSE),
       Vertex(<<5>>, TRUE), Vertex(<<>>, TRUE), Vertex(<<5, 4>>, FALSE), Vertex(<<4>>, FALSE)>>,
     <<Vertex(<<3>>, TRUE), Vertex(<<>>, FALSE), Vertex(<<>>, TRUE), Vertex(<<1>>, FALSE)>>}
=============================================================================
