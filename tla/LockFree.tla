------------------------------- MODULE LockFree ------------------------------
(***************************************************************************)
(* What the workers share without a lock: the slots of the time cache      *)
(* (NodeTimes) and the ring of the ready queue (MPMCQueue).  They have no  *)
(* data in common, so each behaviour is one of one of them (part), and the *)
(* other stays as it is at the start.                                      *)
(***************************************************************************)
EXTENDS NodeTimes, MPMCQueue

VARIABLE part

AnyOf(S) == CHOOSE x \in S : TRUE

PartsInit ==
    /\ part \in {"times", "ring"}
    /\ part = "ring" => manifest = AnyOf(Manifests) /\ mtime = [f \in Files |-> AnyOf(Times)]
    /\ TimesInit /\ Init

PartsNext ==
    /\ UNCHANGED part
    /\ \/ part = "times" /\ TimesNext /\ UNCHANGED vars
       \/ part = "ring" /\ Next /\ UNCHANGED timesVars

PartsSpec == PartsInit /\ [][PartsNext]_<<part, timesVars, vars>>
=============================================================================
