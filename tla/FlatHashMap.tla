---------------------------- MODULE FlatHashMap -----------------------------
(***************************************************************************)
(* FlatHashMap: the open-addressing map with Robin Hood displacement that  *)
(* the graph uses as its index of paths and the cache writer as its string *)
(* pool.  An action is one round of insertHelper's loop, so that a state   *)
(* can show an entry that has been displaced and not yet put back, and a   *)
(* rehash that has moved some of the old slots.                            *)
(***************************************************************************)
EXTENDS Sequences, FiniteSets, Rounding

CONSTANTS
    Keys, Values,
    Hashes,         \* hash functions: subset of [Keys -> Nat]
    Requests,       \* capacities asked for, of the constructor and of reserve
    Nothing,        \* no key, no value, the null pointer
    MaxCalls        \* bound: calls of insert, emplace and reserve

VARIABLES
    hash,           \* Hash_T
    slots,          \* [0 .. capacity-1 -> Slot]; probe_distance 0 is an empty slot
    size,           \* size_m
    queue,          \* what insertHelper is still to be called with; rehash skips empty slots
    carry,          \* its current_key, current_value, current_dist
    place,          \* its idx
    result,         \* its inserted_ptr
    dict,           \* history: the map that the calls should make
    last,           \* history: the entry of the last insert
    calls

table == <<slots, size>>
helper == <<queue, carry, place, result>>
mapVars == <<hash, table, helper, dict, last, calls>>

Empty == [key |-> Nothing, value |-> Nothing, dist |-> 0]
Capacity == Cardinality(DOMAIN slots)
FreeSlots(capacity) == [i \in 0 .. capacity - 1 |-> Empty]
Idle == queue = <<>> /\ carry = Empty

FirstSlots == {FreeSlots(bitCeil[IF n = 0 THEN 1 ELSE n]) : n \in Requests}

MapInit ==
    /\ hash \in Hashes
    /\ slots \in FirstSlots
    /\ size = 0
    /\ queue = <<>> /\ carry = Empty /\ place = 0 /\ result = Nothing
    /\ dict = [k \in {} |-> Nothing]
    /\ last = Empty
    /\ calls = 0

(* rehash goes through the old slots, in order, and then comes what is to  *)
(* follow.                                                                 *)
Rehash(capacity, then) ==
    /\ slots' = FreeSlots(capacity)
    /\ size' = 0
    /\ queue' = [i \in 1 .. Capacity |-> slots[i - 1]] \o then

Call ==
    /\ Idle
    /\ calls < MaxCalls
    /\ calls' = calls + 1
    /\ result' = Nothing
    /\ UNCHANGED <<hash, carry, place>>

(* insert and emplace: grow first if three quarters of the slots are used. *)
Insert(key, value) ==
    /\ Call
    /\ last' = [key |-> key, value |-> value, dist |-> 1]
    /\ dict' = [k \in DOMAIN dict \cup {key} |-> IF k = key THEN value ELSE dict[k]]
    /\ IF 4 * size >= 3 * Capacity THEN Rehash(2 * Capacity, <<last'>>)
       ELSE queue' = <<last'>> /\ UNCHANGED table

Reserve(n) ==
    /\ Call
    /\ LET needed == bitCeil[(4 * n) \div 3 + 1]
       IN  IF needed > Capacity THEN Rehash(needed, <<>>) ELSE UNCHANGED <<table, queue>>
    /\ last' = Empty
    /\ UNCHANGED dict

(***************************************************************************)
(* insertHelper                                                            *)
(***************************************************************************)
Home(key) == hash[key] % Capacity
Found == IF result = Nothing THEN place ELSE result

Skip ==
    /\ carry = Empty
    /\ queue # <<>> /\ Head(queue).dist = 0
    /\ queue' = Tail(queue)
    /\ UNCHANGED <<hash, table, carry, place, result, dict, last, calls>>

Enter ==
    /\ carry = Empty
    /\ queue # <<>> /\ Head(queue).dist # 0
    /\ carry' = [Head(queue) EXCEPT !.dist = 1]
    /\ place' = Home(Head(queue).key)
    /\ queue' = Tail(queue)
    /\ result' = Nothing
    /\ UNCHANGED <<hash, table, dict, last, calls>>

Store ==
    /\ carry # Empty
    /\ slots[place].dist = 0
    /\ slots' = [slots EXCEPT ![place] = carry]
    /\ size' = size + 1
    /\ result' = Found
    /\ carry' = Empty
    /\ UNCHANGED <<hash, queue, place, dict, last, calls>>

Overwrite ==
    /\ carry # Empty
    /\ slots[place].dist # 0 /\ slots[place].key = carry.key
    /\ slots' = [slots EXCEPT ![place].value = carry.value]
    /\ result' = Found
    /\ carry' = Empty
    /\ UNCHANGED <<hash, size, queue, place, dict, last, calls>>

Advance ==
    /\ place' = (place + 1) % Capacity
    /\ UNCHANGED <<hash, size, queue, dict, last, calls>>

OtherEntry == carry # Empty /\ slots[place].dist # 0 /\ slots[place].key # carry.key

SwapAtEqualDistance ==                  \* mutant: no longer the poorer entry first
    /\ OtherEntry
    /\ carry.dist < slots[place].dist
    /\ slots' = [slots EXCEPT ![place] = carry]
    /\ carry' = [slots[place] EXCEPT !.dist = @ + 1]
    /\ result' = Found
    /\ Advance

SwapForgettingResult ==                 \* mutant: inserted_ptr follows the displaced entry
    /\ OtherEntry
    /\ carry.dist > slots[place].dist
    /\ slots' = [slots EXCEPT ![place] = carry]
    /\ carry' = [slots[place] EXCEPT !.dist = @ + 1]
    /\ UNCHANGED result
    /\ Advance

(* The entry that is nearer to its home makes room and is carried on.      *)
Swap ==
    /\ OtherEntry
    /\ carry.dist > slots[place].dist
    /\ slots' = [slots EXCEPT ![place] = carry]
    /\ carry' = [slots[place] EXCEPT !.dist = @ + 1]
    /\ result' = Found
    /\ Advance

Pass ==
    /\ OtherEntry
    /\ carry.dist <= slots[place].dist
    /\ carry' = [carry EXCEPT !.dist = @ + 1]
    /\ UNCHANGED <<slots, result>>
    /\ Advance

(***************************************************************************)
(* find: probe until the key, an empty slot, or an entry nearer to its     *)
(* home than the probe is.                                                 *)
(***************************************************************************)
Probe(key, dist) == slots[(Home(key) + dist - 1) % Capacity]

Find(key) ==
    LET Ends(d) == d > Probe(key, d).dist \/ Probe(key, d).key = key
        end == CHOOSE d \in 1 .. Capacity + 1 : Ends(d) /\ \A e \in 1 .. d - 1 : ~Ends(e)
    IN  IF end <= Probe(key, end).dist THEN Probe(key, end).value ELSE Nothing

-----------------------------------------------------------------------------
MapNext ==
    \/ \E k \in Keys, v \in Values : Insert(k, v)
    \/ \E n \in Requests : Reserve(n)
    \/ Skip \/ Enter \/ Store \/ Overwrite \/ Swap \/ Pass

(***************************************************************************)
(* Properties.                                                             *)
(***************************************************************************)
Entries(k) == {i \in DOMAIN slots : slots[i].dist # 0 /\ slots[i].key = k}

(* Between calls, the map is the function that the insertions so far have  *)
(* made: find gives up neither too early nor on another key's entry,       *)
(* whatever was displaced or rehashed, and size_m counts the keys.         *)
LooksLikeMap ==
    Idle =>
        /\ \A k \in Keys : Find(k) = IF k \in DOMAIN dict THEN dict[k] ELSE Nothing
        /\ size = Cardinality(DOMAIN dict)

(* What insert returns points at the value it was called with, although    *)
(* entries moved after it was placed (getOrCreateNode and StringBuffer     *)
(* rely on the map, parseBin on emplace).                                  *)
ReturnsItsEntry ==
    Idle /\ last # Empty =>
        slots[result].key = last.key /\ slots[result].value = last.value
=============================================================================
