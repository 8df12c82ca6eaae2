----------------------------- MODULE MCStructures ----------------------------
(***************************************************************************)
(* Small data for what a graph is made with.                               *)
(***************************************************************************)
EXTENDS Structures

UpTo(S, n) == UNION {[1 .. k -> S] : k \in 0 .. n}

(***************************************************************************)
(* Three outputs and a source.  Every way to list few inputs for each,     *)
(* some of them repeated; and depfiles, opaque inputs and an output that   *)
(* two steps make.                                                         *)
(***************************************************************************)
GraphFiles == {"a", "b", "c", "s"}
InputLists == UpTo(GraphFiles, 1) \cup
    {<<"s", "a">>, <<"b", "c">>, <<"a", "c">>, <<"b", "b">>, <<"c", "s">>, <<"a", "a", "c">>}
Step(output, compiles, depfile, parsed, opaque) ==
    [output |-> output, compiles |-> compiles, depfile |-> depfile,
     parsed |-> parsed, opaque |-> opaque]
Plain(output, list) == Step(output, FALSE, <<>>, list, <<>>)
SmallManifests ==
    {<<>>}
    \cup {<<Plain("a", p), Plain("b", q), Plain("c", r)>> :
            p \in InputLists, q \in InputLists, r \in InputLists}
    \cup {<<Step("a", compiles, <<d>>, <<"s">>, <<>>), Step("b", FALSE, <<>>, <<p>>, <<q>>),
            Plain(last3, <<"a">>)>> :
            compiles \in BOOLEAN, d \in GraphFiles, p \in GraphFiles, q \in GraphFiles,
            last3 \in {"a", "c"}}

(***************************************************************************)
(* Hashes that put keys in one slot, in neighbours and across the end of   *)
(* the table; tables that grow from one slot on, and from a reserved size. *)
(***************************************************************************)
HashFunctions == [Keys -> {0, 1, 3, 7}]
SmallValues == {1, 2}
SmallRequests == {0, 3}

(***************************************************************************)
(* The empty string has the address of the one that follows it in a pool;  *)
(* one content is at two addresses; one view has a null pointer.           *)
(***************************************************************************)
View(data, len, content) == [data |-> data, size |-> len, content |-> content]
SmallViews == {View(0, 0, "empty"), View(1, 0, "empty"), View(1, 1, "a"), View(2, 1, "b"),
               View(3, 1, "a"), View(4, 1, "c")}
SmallMultipliers == [1 .. 4 -> {0, 1}]
SmallCapacities == {0, 1, 3}

(***************************************************************************)
(* Names with every character that is quoted, up to three characters.  One *)
(* that ends in a backslash cannot be told from one that goes on.          *)
(***************************************************************************)
Good(n) == {s \in UpTo({"x", "bs", "blank", "hash", "dollar"}, n) : s # <<>> /\ s[Len(s)] # "bs"}
NameLists == {<<>>} \cup {<<n>> : n \in Good(3)} \cup {<<m, n>> : m \in Good(2), n \in Good(2)}
SmallTargets == {<<"x">>, <<"x", "bs", "colon", "x">>, <<"x", "colon", "slash", "x">>, <<"x", "bs", "blank", "x">>}
SmallGaps == {<<"blank">>, <<"blank", "bs", "lf", "blank">>, <<"blank", "bs", "cr", "lf", "blank">>}
AnyTexts == {<<"x", "colon">> \o s : s \in UpTo({"x", "bs", "blank", "hash", "dollar", "colon", "lf", "cr"}, 4)}
            \cup UpTo({"x", "bs", "blank", "hash", "dollar", "colon", "lf", "cr"}, 3)
=============================================================================
