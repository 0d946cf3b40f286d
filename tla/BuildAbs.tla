------------------------------ MODULE BuildAbs ------------------------------
(***************************************************************************)
(* What a build promises to somebody who polls GetStatus: the status of    *)
(* the build and of its steps, and the order in which they change, without *)
(* goroutines, channels, contexts or containers.                           *)
(*                                                                         *)
(* Steps may still begin and end after the build has failed: Start does    *)
(* not wait for the goroutines it cancels.                                 *)
(***************************************************************************)
EXTENDS StepGraph

CONSTANT Requests

VARIABLES req, status, stepStatus

vars == <<req, status, stepStatus>>

Steps == DOMAIN req.steps

Init ==
    /\ req \in Requests
    /\ status = "NEW"
    /\ stepStatus = [i \in Steps |-> "QUEUED"]

BuildStatuses == {"NEW", "BUILD", "PUSH", "DONE", "ERROR", "TIMEOUT", "CANCELLED"}

AllSucceeded == \A i \in Steps : stepStatus[i] = "SUCCESS"

(* The life of a build.  Nothing is pushed, and the build is not done,     *)
(* unless every step has succeeded.                                        *)
StatusStep(from, to) ==
    \/ from = "NEW" /\ to = "BUILD"
    \/ from = "BUILD" /\ to = "PUSH" /\ req.push /\ AllSucceeded
    \/ from = "BUILD" /\ to = "DONE" /\ ~ req.push /\ AllSucceeded
    \/ from = "PUSH" /\ to = "DONE"
    \/ from \in {"NEW", "BUILD", "PUSH"} /\ to \in {"ERROR", "TIMEOUT", "CANCELLED"}

ChangeStatus ==
    /\ status' \in BuildStatuses
    /\ StatusStep(status, status')
    /\ UNCHANGED <<req, stepStatus>>

(* A step begins after all it waits for have succeeded, once. *)
Begin(i) ==
    /\ status # "NEW"
    /\ stepStatus[i] = "QUEUED"
    /\ \A j \in WaitChans(req.steps, i) : stepStatus[j] = "SUCCESS"
    /\ stepStatus' = [stepStatus EXCEPT ![i] = "WORKING"]
    /\ UNCHANGED <<req, status>>

(* A step ends once, in any way. *)
End(i) ==
    /\ stepStatus[i] = "WORKING"
    /\ \E s \in {"SUCCESS", "FAILURE", "TIMEOUT", "CANCELLED"} :
          stepStatus' = [stepStatus EXCEPT ![i] = s]
    /\ UNCHANGED <<req, status>>

Next == ChangeStatus \/ \E i \in Steps : Begin(i) \/ End(i)

Spec == Init /\ [][Next]_vars
=============================================================================
