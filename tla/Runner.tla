------------------------------- MODULE Runner -------------------------------
(***************************************************************************)
(* runner.RealRunner: concurrent calls of Run, the map of processes that   *)
(* they share under a mutex, the goroutine of each call that waits for the *)
(* process, the one that kills it when the context is done, and Clean.     *)
(*                                                                         *)
(* A process is named by the call that started it.  (The code's map is     *)
(* keyed by process ids, which the system does not reuse while a Run is    *)
(* between reaping its process and forgetting it.)                         *)
(***************************************************************************)
EXTENDS Naturals, FiniteSets

CONSTANTS
    Calls,      \* calls of Run, from any goroutines
    Cleaner     \* the goroutine in Clean, as a holder of the mutex

ASSUME CleanerAssumption == Cleaner \notin Calls

VARIABLES
    pc,         \* of each call: idle, started, select, forget, returned
    proc,       \* its process: none, running, zombie, reaped
    ctxDone,    \* the calls whose context is done
    waiter,     \* the goroutine that sends cmd.Wait(): none, wait, send, gone
    killer,     \* the goroutine that kills the process: none, kill, gone
    result,     \* what Run returns: none, exit, ctx, error
    processes,  \* r.processes
    mu,         \* who holds r.mu: a set with at most one member
    clean,      \* where Clean is: idle, loop, returned
    todo,       \* what Clean's range has still to visit
    targets,    \* the processes running when Clean took the mutex
    killFailed  \* Clean returned the error of a Kill

callVars  == <<pc, waiter, killer, result>>
cleanVars == <<clean, todo, targets, killFailed>>
vars == <<callVars, proc, ctxDone, processes, mu, cleanVars>>

Init ==
    /\ pc = [c \in Calls |-> "idle"]
    /\ proc = [c \in Calls |-> "none"]
    /\ ctxDone = {}
    /\ waiter = [c \in Calls |-> "none"]
    /\ killer = [c \in Calls |-> "none"]
    /\ result = [c \in Calls |-> "none"]
    /\ processes = {}
    /\ mu = {}
    /\ clean = "idle"
    /\ todo = {}
    /\ targets = {}
    /\ killFailed = FALSE
-----------------------------------------------------------------------------
(* Run.  The context may be done at any time, before the call too. *)

CancelContext(c) ==
    /\ c \notin ctxDone
    /\ ctxDone' = ctxDone \cup {c}
    /\ UNCHANGED <<callVars, proc, processes, mu, cleanVars>>

(* cmd.Start: no look at the context. *)
StartProcess(c) ==
    /\ pc[c] = "idle"
    /\ pc' = [pc EXCEPT ![c] = "started"]
    /\ proc' = [proc EXCEPT ![c] = "running"]
    /\ UNCHANGED <<waiter, killer, result, ctxDone, processes, mu, cleanVars>>

StartFails(c) ==
    /\ pc[c] = "idle"
    /\ pc' = [pc EXCEPT ![c] = "returned"]
    /\ result' = [result EXCEPT ![c] = "error"]
    /\ UNCHANGED <<waiter, killer, proc, ctxDone, processes, mu, cleanVars>>

Register_NoUnlock(c) ==
    /\ pc[c] = "started"
    /\ mu = {}
    /\ mu' = {c}
    /\ processes' = processes \cup {c}
    /\ waiter' = [waiter EXCEPT ![c] = "wait"]
    /\ pc' = [pc EXCEPT ![c] = "select"]
    /\ UNCHANGED <<killer, result, proc, ctxDone, cleanVars>>

(* Under the mutex, then the waiting goroutine is started. *)
Register(c) ==
    /\ pc[c] = "started"
    /\ mu = {}
    /\ processes' = processes \cup {c}
    /\ waiter' = [waiter EXCEPT ![c] = "wait"]
    /\ pc' = [pc EXCEPT ![c] = "select"]
    /\ UNCHANGED <<killer, result, proc, ctxDone, mu, cleanVars>>

ReceiveResult_NoWait(c) ==
    /\ pc[c] = "select"
    /\ waiter' = [waiter EXCEPT ![c] = "gone"]
    /\ result' = [result EXCEPT ![c] = "exit"]
    /\ pc' = [pc EXCEPT ![c] = "forget"]
    /\ UNCHANGED <<killer, proc, ctxDone, processes, mu, cleanVars>>

(* The unbuffered errCh: the send and the receive are one step. *)
ReceiveResult(c) ==
    /\ pc[c] = "select"
    /\ waiter[c] = "send"
    /\ waiter' = [waiter EXCEPT ![c] = "gone"]
    /\ result' = [result EXCEPT ![c] = "exit"]
    /\ pc' = [pc EXCEPT ![c] = "forget"]
    /\ UNCHANGED <<killer, proc, ctxDone, processes, mu, cleanVars>>

GiveUp_NoKill(c) ==
    /\ pc[c] = "select"
    /\ c \in ctxDone
    /\ result' = [result EXCEPT ![c] = "ctx"]
    /\ pc' = [pc EXCEPT ![c] = "forget"]
    /\ UNCHANGED <<waiter, killer, proc, ctxDone, processes, mu, cleanVars>>

GiveUp_AnyTime(c) ==
    /\ pc[c] = "select"
    /\ killer' = [killer EXCEPT ![c] = "kill"]
    /\ result' = [result EXCEPT ![c] = "ctx"]
    /\ pc' = [pc EXCEPT ![c] = "forget"]
    /\ UNCHANGED <<waiter, proc, ctxDone, processes, mu, cleanVars>>

(* ctx.Done(): Run does not wait for the kill. *)
GiveUp(c) ==
    /\ pc[c] = "select"
    /\ c \in ctxDone
    /\ killer' = [killer EXCEPT ![c] = "kill"]
    /\ result' = [result EXCEPT ![c] = "ctx"]
    /\ pc' = [pc EXCEPT ![c] = "forget"]
    /\ UNCHANGED <<waiter, proc, ctxDone, processes, mu, cleanVars>>

(* The deferred function of Run. *)
Forget(c) ==
    /\ pc[c] = "forget"
    /\ mu = {}
    /\ processes' = processes \ {c}
    /\ pc' = [pc EXCEPT ![c] = "returned"]
    /\ UNCHANGED <<waiter, killer, result, proc, ctxDone, mu, cleanVars>>

(* Wait returns once the process has exited, and reaps it. *)
WaitReturns(c) ==
    /\ waiter[c] = "wait"
    /\ proc[c] = "zombie"
    /\ proc' = [proc EXCEPT ![c] = "reaped"]
    /\ waiter' = [waiter EXCEPT ![c] = "send"]
    /\ UNCHANGED <<pc, killer, result, ctxDone, processes, mu, cleanVars>>

(* Kill fails on a process that has been reaped. *)
Killed(c) == [proc EXCEPT ![c] = IF @ = "running" THEN "zombie" ELSE @]

KillProcess(c) ==
    /\ killer[c] = "kill"
    /\ killer' = [killer EXCEPT ![c] = "gone"]
    /\ proc' = Killed(c)
    /\ UNCHANGED <<pc, waiter, result, ctxDone, processes, mu, cleanVars>>

(* The command ends by itself. *)
Exit(c) ==
    /\ proc[c] = "running"
    /\ proc' = [proc EXCEPT ![c] = "zombie"]
    /\ UNCHANGED <<callVars, ctxDone, processes, mu, cleanVars>>
-----------------------------------------------------------------------------
(* Clean, called once by cleanBuildSteps; it holds the mutex throughout.   *)

CleanBegins ==
    /\ clean = "idle"
    /\ mu = {}
    /\ mu' = {Cleaner}
    /\ todo' = processes
    /\ targets' = {c \in processes : proc[c] = "running"}
    /\ clean' = "loop"
    /\ UNCHANGED <<callVars, proc, ctxDone, processes, killFailed>>

CleanKills_OnlyForgets(c) ==
    /\ clean = "loop"
    /\ c \in todo
    /\ proc[c] # "reaped"
    /\ proc' = proc
    /\ processes' = processes \ {c}
    /\ todo' = todo \ {c}
    /\ UNCHANGED <<callVars, ctxDone, mu, clean, targets, killFailed>>

(* A Go map is ranged over in any order. *)
CleanKills(c) ==
    /\ clean = "loop"
    /\ c \in todo
    /\ proc[c] # "reaped"
    /\ proc' = Killed(c)
    /\ processes' = processes \ {c}
    /\ todo' = todo \ {c}
    /\ UNCHANGED <<callVars, ctxDone, mu, clean, targets, killFailed>>

CleanFails(c) ==
    /\ clean = "loop"
    /\ c \in todo
    /\ proc[c] = "reaped"
    /\ killFailed' = TRUE
    /\ clean' = "returned"
    /\ mu' = {}
    /\ UNCHANGED <<callVars, proc, ctxDone, processes, todo, targets>>

CleanEnds ==
    /\ clean = "loop"
    /\ todo = {}
    /\ clean' = "returned"
    /\ mu' = {}
    /\ UNCHANGED <<callVars, proc, ctxDone, processes, todo, targets, killFailed>>

CallStep(c) ==
    \/ StartProcess(c) \/ StartFails(c) \/ Register(c) \/ ReceiveResult(c)
    \/ GiveUp(c) \/ Forget(c) \/ WaitReturns(c) \/ KillProcess(c)

CleanStep == CleanBegins \/ CleanEnds \/ \E c \in Calls : CleanKills(c) \/ CleanFails(c)

Next ==
    \/ \E c \in Calls : CallStep(c) \/ CancelContext(c) \/ Exit(c)
    \/ CleanStep

Spec == Init /\ [][Next]_vars

(* Goroutines that can run are run.  Nothing is assumed of commands, of    *)
(* contexts, or of when Clean is called.                                   *)
FairSpec ==
    /\ Spec
    /\ \A c \in Calls :
          /\ WF_vars(Register(c)) /\ WF_vars(ReceiveResult(c) \/ GiveUp(c))
          /\ SF_vars(Forget(c)) /\ SF_vars(Register(c))
          /\ WF_vars(WaitReturns(c)) /\ WF_vars(KillProcess(c))
    /\ WF_vars(clean = "loop" /\ CleanStep)
-----------------------------------------------------------------------------
TypeOK ==
    /\ pc \in [Calls -> {"idle", "started", "select", "forget", "returned"}]
    /\ proc \in [Calls -> {"none", "running", "zombie", "reaped"}]
    /\ ctxDone \subseteq Calls
    /\ waiter \in [Calls -> {"none", "wait", "send", "gone"}]
    /\ killer \in [Calls -> {"none", "kill", "gone"}]
    /\ result \in [Calls -> {"none", "exit", "ctx", "error"}]
    /\ processes \subseteq Calls
    /\ mu \in SUBSET {Cleaner}
    /\ clean \in {"idle", "loop", "returned"}
    /\ todo \subseteq Calls
    /\ targets \subseteq Calls
    /\ killFailed \in BOOLEAN

(***************************************************************************)
(* No process gets lost: one that runs on after its call has registered it *)
(* is still in the map, where Clean finds it, or the goroutine that kills  *)
(* it is on its way.                                                       *)
(***************************************************************************)
NoProcessLost ==
    \A c \in Calls :
        (proc[c] = "running" /\ pc[c] \notin {"idle", "started"}) =>
            c \in processes \/ killer[c] = "kill"

(***************************************************************************)
(* The goroutine that waits for the command is left blocked on errCh only  *)
(* by a Run that gave up with its context: one leak per cancelled command. *)
(***************************************************************************)
LeaksOnlyWhenCancelled ==
    \A c \in Calls :
        (pc[c] \in {"forget", "returned"} /\ waiter[c] = "send") =>
            result[c] = "ctx" /\ c \in ctxDone

(***************************************************************************)
(* When Clean returns without an error, whatever was running and known     *)
(* when it began has been killed, although Run calls went on meanwhile.    *)
(***************************************************************************)
CleanKillsAllOrFails ==
    (clean = "returned" /\ ~ killFailed) =>
        \A c \in targets : proc[c] # "running"

(***************************************************************************)
(* A command whose context is done while it runs dies, and its Run         *)
(* returns, whether or not the command reacts to anything.                 *)
(***************************************************************************)
CancelledCommandDies ==
    \A c \in Calls :
        (pc[c] = "started" /\ c \in ctxDone) ~>
            (pc[c] = "returned" /\ proc[c] # "running")

(* The processes as the callers of Run see them. *)
Cli == [c \in Calls |-> CASE proc[c] = "none" -> "none"
                          [] proc[c] = "running" -> "alive"
                          [] OTHER -> "dead"]

Abs == INSTANCE RunnerAbs WITH cli <- Cli

(***************************************************************************)
(* Run as its callers see it: the result of a command is returned only for *)
(* a dead process, a live one is given up only with its context.           *)
(***************************************************************************)
ImplementsAbs == Abs!Spec
=============================================================================
