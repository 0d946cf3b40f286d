----------------------------- MODULE RunnerAbs -----------------------------
(***************************************************************************)
(* What callers of Runner.Run count on, and what BuildSteps has of it: a   *)
(* command has one process, which is started once and dies once; Run       *)
(* returns the command's own result only when the process is dead, and     *)
(* gives up on a live one only when the context is done.                   *)
(***************************************************************************)
CONSTANT Calls      \* calls of Run

VARIABLES
    ctxDone,    \* the calls whose context is done
    cli,        \* the process of each call: none, alive, dead
    result      \* what each call returned: none, exit, ctx, error

vars == <<ctxDone, cli, result>>

Init ==
    /\ ctxDone = {}
    /\ cli = [c \in Calls |-> "none"]
    /\ result = [c \in Calls |-> "none"]

Cancel(c) == ctxDone' = ctxDone \cup {c} /\ UNCHANGED <<cli, result>>

Spawn(c) ==
    /\ cli[c] = "none"
    /\ result[c] = "none"
    /\ cli' = [cli EXCEPT ![c] = "alive"]
    /\ UNCHANGED <<ctxDone, result>>

Die(c) ==
    /\ cli[c] = "alive"
    /\ cli' = [cli EXCEPT ![c] = "dead"]
    /\ UNCHANGED <<ctxDone, result>>

Return(c) ==
    /\ result[c] = "none"
    /\ \E r \in {"exit", "ctx", "error"} :
          /\ r = "exit"  => cli[c] = "dead"
          /\ r = "ctx"   => c \in ctxDone
          /\ r = "error" => cli[c] = "none"
          /\ result' = [result EXCEPT ![c] = r]
    /\ UNCHANGED <<ctxDone, cli>>

Next == \E c \in Calls : Cancel(c) \/ Spawn(c) \/ Die(c) \/ Return(c)

Spec == Init /\ [][Next]_vars
=============================================================================
