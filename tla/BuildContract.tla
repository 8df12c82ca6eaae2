---------------------------- MODULE BuildContract ----------------------------
(***************************************************************************)
(* What a parallel build promises, without threads, queues or counters:    *)
(* every step runs at most once, a step starts only after every step that  *)
(* produces one of its inputs has finished successfully, and a step whose  *)
(* inputs are all there does run.  Module Scheduler, the model of          *)
(* Executor::execute, workerLoop and pushReady, is shown to implement it.  *)
(***************************************************************************)

CONSTANTS
    Steps,      \* the build steps (graph nodes that have a producing step)
    Edges,      \* identities of the edges between steps
    From, To,   \* the producing and the consuming step of an edge
    Faulty      \* the steps whose command may exit with an error

VARIABLE status     \* "pending", "running", "done" or "failed", per step

Statuses == {"pending", "running", "done", "failed"}

InputsReady(s) == \A e \in Edges : To[e] = s => status[From[e]] = "done"

Init == status = [s \in Steps |-> "pending"]

Start(s) ==
    /\ status[s] = "pending"
    /\ InputsReady(s)
    /\ status' = [status EXCEPT ![s] = "running"]

Succeed(s) ==
    /\ status[s] = "running"
    /\ status' = [status EXCEPT ![s] = "done"]

Fail(s) ==
    /\ s \in Faulty
    /\ status[s] = "running"
    /\ status' = [status EXCEPT ![s] = "failed"]

Next == \E s \in Steps : Start(s) \/ Succeed(s) \/ Fail(s)

Safety == Init /\ [][Next]_status

Spec ==
    /\ Safety
    /\ \A s \in Steps : /\ WF_status(Start(s))
                        /\ WF_status(Succeed(s) \/ Fail(s))

=============================================================================
