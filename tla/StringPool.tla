----------------------------- MODULE StringPool -----------------------------
(***************************************************************************)
(* How emitBin turns strings into references to the pool at the end of     *)
(* .catalyst.bin: StringBuffer keeps one copy of every content, and        *)
(* AddressCache remembers the references of node paths by address, so that *)
(* depfile inputs, which view the same bytes, need not be hashed.          *)
(*                                                                         *)
(* A string is a view: an address, a length, and the content it shows.     *)
(* StringBuffer's map is taken as a map (module FlatHashMap); the slots of *)
(* AddressCache are modelled.                                              *)
(***************************************************************************)
EXTENDS Sequences, FiniteSets, Rounding

CONSTANTS
    Views,          \* string views: [data, size, content]; data 0 is a null pointer
    Multipliers,    \* index(): functions from addresses to Nat, before the shift
    Capacities,     \* what AddressCache may be told to expect; emitBin says nodes.size()
    MaxNodes,       \* bound: nodes
    MaxInputs       \* bound: depfile inputs

VARIABLES
    index,          \* AddressCache::index
    buckets,        \* AddressCache::slots; size -1 is an empty slot
    used,
    pool,           \* the contents in StringBuffer::buffer_data, in order
    paths,          \* views of the nodes written so far
    written         \* what has been written for depfile inputs: views and references

poolVars == <<index, buckets, used, pool, paths, written>>

Free == [data |-> 0, size |-> -1, ref |-> 0]
Slots == Cardinality(DOMAIN buckets)

FirstBuckets == {[i \in 0 .. bitCeil[2 * n + 2] - 1 |-> Free] : n \in Capacities}

PoolInit ==
    /\ index \in Multipliers
    /\ buckets \in FirstBuckets
    /\ used = 0
    /\ pool = <<>> /\ paths = <<>> /\ written = <<>>

(* StringBuffer::add: the reference, and the pool with that content.       *)
Position(content) ==
    IF \E i \in DOMAIN pool : pool[i] = content
    THEN CHOOSE i \in DOMAIN pool : pool[i] = content
    ELSE Len(pool) + 1
PoolWith(content) == IF Position(content) <= Len(pool) THEN pool ELSE Append(pool, content)

(* The slot where a probe for this view ends: its own or an empty one.     *)
SameAddress(slot, view) == slot.data = view.data                \* mutant: the length is not compared
SameView(slot, view) == slot.data = view.data /\ slot.size = view.size
ProbeEnd(view) ==
    LET at(d) == (index[view.data] + d) % Slots
        Ends(d) == buckets[at(d)] = Free \/ SameView(buckets[at(d)], view)
    IN  at(CHOOSE d \in 0 .. Slots - 1 : Ends(d) /\ \A e \in 0 .. d - 1 : ~Ends(e))

FullCache == used + 1 >= Slots \div 2

(* AddressCache::insert                                                    *)
Remember(view, ref) ==
    IF view.data = 0 \/ FullCache \/ buckets[ProbeEnd(view)] # Free
    THEN UNCHANGED <<buckets, used>>
    ELSE /\ buckets' = [buckets EXCEPT ![ProbeEnd(view)] =
                            [data |-> view.data, size |-> view.size, ref |-> ref]]
         /\ used' = used + 1

(* AddressCache::find                                                      *)
Known(view) == view.data # 0 /\ buckets[ProbeEnd(view)] # Free

(* The nodes' paths come first; no two nodes have the same path.           *)
WriteNode(view) ==
    /\ written = <<>>
    /\ Len(paths) < MaxNodes
    /\ \A i \in DOMAIN paths : paths[i].content # view.content
    /\ paths' = Append(paths, view)
    /\ pool' = PoolWith(view.content)
    /\ Remember(view, Position(view.content))
    /\ UNCHANGED <<index, written>>

WriteInput(view) ==
    /\ Len(written) < MaxInputs
    /\ LET ref == IF Known(view) THEN buckets[ProbeEnd(view)].ref ELSE Position(view.content)
       IN  written' = Append(written, [view |-> view, ref |-> ref])
    /\ pool' = IF Known(view) THEN pool ELSE PoolWith(view.content)
    /\ UNCHANGED <<index, buckets, used, paths>>

PoolNext == \E view \in Views : WriteNode(view) \/ WriteInput(view)

-----------------------------------------------------------------------------
(* A reader of the cache sees, for every depfile input, the string that    *)
(* was meant, whether its reference came from the address cache or the     *)
(* pool; every content is in the pool once; and half of the slots stay     *)
(* empty, also if more views come than expected, because AddressCache's    *)
(* loops end only at an empty slot or the view itself.                     *)
ReferencesRight ==
    /\ \A i \in DOMAIN written : pool[written[i].ref] = written[i].view.content
    /\ \A i, j \in DOMAIN pool : pool[i] = pool[j] => i = j
    /\ 2 * Cardinality({i \in DOMAIN buckets : buckets[i] # Free}) < Slots
=============================================================================
