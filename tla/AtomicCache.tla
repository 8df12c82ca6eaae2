----------------------------- MODULE AtomicCache ----------------------------
(***************************************************************************)
(* What the cache file promises to the runs of cob: it holds what the last *)
(* successful save wrote, or nothing, and changes in one step.  Only the   *)
(* loss of power can bring back what an earlier run saved, or lose it.     *)
(***************************************************************************)
EXTENDS Naturals

VARIABLES
    cache,          \* the run that saved what the cache holds; 0: nothing that can be read
    loaded,         \* the run whose cache the present run read; 0: none
    run,
    cuts            \* how often the power has gone

Init == cache = 0 /\ loaded = 0 /\ run = 0 /\ cuts = 0

Start == run' = run + 1 /\ loaded' = cache /\ UNCHANGED <<cache, cuts>>

Save == cache' = run /\ UNCHANGED <<loaded, run, cuts>>

LosePower == cache' \in 0 .. run /\ cuts' = cuts + 1 /\ UNCHANGED <<loaded, run>>

Next == Start \/ Save \/ LosePower

Spec == Init /\ [][Next]_<<cache, loaded, run, cuts>>
=============================================================================
