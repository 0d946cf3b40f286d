--------------------------- MODULE Runner_proofs ---------------------------
(***************************************************************************)
(* Proofs about Runner, for any set of concurrent calls of Run, with Clean *)
(* at any moment among them.                                               *)
(***************************************************************************)
EXTENDS Runner, TLAPS

(***************************************************************************)
(* The inductive invariant.  Of each call: how far Run, its process and    *)
(* its two goroutines have come fits together.  A process that runs on is  *)
(* known to Clean until Run returns, or has a goroutine that will kill it. *)
(***************************************************************************)
CallInv(c) ==
    /\ pc[c] = "idle" => proc[c] = "none"
    /\ pc[c] = "started" => proc[c] # "none" /\ proc[c] # "reaped"
    /\ pc[c] \in {"idle", "started"} => waiter[c] = "none" /\ c \notin processes
    /\ pc[c] \in {"idle", "started", "select"} => result[c] = "none"
    /\ pc[c] = "select" => waiter[c] \in {"wait", "send"} /\ proc[c] # "none"
    /\ pc[c] \in {"forget", "returned"} => result[c] # "none"
    /\ waiter[c] \in {"send", "gone"} => proc[c] = "reaped"
    /\ result[c] # "ctx" => killer[c] = "none"
    /\ result[c] = "exit" => waiter[c] = "gone"
    /\ result[c] = "error" => proc[c] = "none" /\ waiter[c] = "none"
    /\ result[c] = "ctx" => /\ c \in ctxDone
                            /\ killer[c] # "none"
                            /\ proc[c] # "none"
                            /\ killer[c] = "gone" => proc[c] # "running"
    /\ proc[c] = "running" /\ pc[c] = "select" => c \in processes

(***************************************************************************)
(* Of Clean: it holds the mutex in its loop, so that the map only loses    *)
(* what it kills itself; what it was to kill is still to be visited or     *)
(* does not run any more, and none of it can be started again.             *)
(***************************************************************************)
CleanInv ==
    /\ mu = IF clean = "loop" THEN {Cleaner} ELSE {}
    /\ clean = "loop" => todo \subseteq processes
    /\ killFailed => clean = "returned"
    /\ \A c \in targets : pc[c] # "idle"
    /\ ~ killFailed => \A c \in targets : proc[c] # "running" \/ (clean = "loop" /\ c \in todo)

IInv == TypeOK /\ CleanInv /\ \A c \in Calls : CallInv(c)
(* Nothing is started yet, and the mutex is free. *)
LEMMA IInvInit == Init => IInv
  BY DEF Init, IInv, TypeOK, CleanInv, CallInv

(* Each step of a call, of a context, of a command or of Clean keeps the   *)
(* types; the mutex is held by Clean or by nobody.                         *)
LEMMA TypeOKStep == TypeOK /\ [Next]_vars => TypeOK'
<1> SUFFICES ASSUME TypeOK, [Next]_vars PROVE TypeOK'
  OBVIOUS
<1> USE DEF TypeOK, callVars, cleanVars
<1>1. ASSUME NEW c \in Calls, CallStep(c) PROVE TypeOK'
  <2>1. CASE StartProcess(c)
    BY <2>1 DEF StartProcess
  <2>2. CASE StartFails(c)
    BY <2>2 DEF StartFails
  <2>3. CASE Register(c)
    BY <2>3 DEF Register
  <2>4. CASE ReceiveResult(c)
    BY <2>4 DEF ReceiveResult
  <2>5. CASE GiveUp(c)
    BY <2>5 DEF GiveUp
  <2>6. CASE Forget(c)
    BY <2>6 DEF Forget
  <2>7. CASE WaitReturns(c)
    BY <2>7 DEF WaitReturns
  <2>8. CASE KillProcess(c)
    BY <2>8 DEF KillProcess, Killed
  <2> QED  BY <1>1, <2>1, <2>2, <2>3, <2>4, <2>5, <2>6, <2>7, <2>8 DEF CallStep
<1>2. ASSUME NEW c \in Calls, CancelContext(c) PROVE TypeOK'
  BY <1>2 DEF CancelContext
<1>3. ASSUME NEW c \in Calls, Exit(c) PROVE TypeOK'
  BY <1>3 DEF Exit
<1>4. ASSUME NEW c \in Calls, CleanKills(c) PROVE TypeOK'
  BY <1>4 DEF CleanKills, Killed
<1>5. ASSUME NEW c \in Calls, CleanFails(c) PROVE TypeOK'
  BY <1>5 DEF CleanFails
<1>6. CASE CleanBegins
  BY <1>6 DEF CleanBegins
<1>7. CASE CleanEnds
  BY <1>7 DEF CleanEnds
<1>8. CASE UNCHANGED vars
  BY <1>8 DEF vars
<1> QED  BY <1>1, <1>2, <1>3, <1>4, <1>5, <1>6, <1>7, <1>8 DEF Next, CleanStep

(* The part of each call: one case per step of a call; a step of another   *)
(* call, and Clean, touch at most its process and its entry in the map.    *)
LEMMA CallInvStep ==
    ASSUME IInv, [Next]_vars
    PROVE  \A d \in Calls : CallInv(d)'
<1> USE DEF IInv, TypeOK, callVars, cleanVars
<1>1. ASSUME NEW c \in Calls, CallStep(c) PROVE \A d \in Calls : CallInv(d)'
  <2>1. CASE StartProcess(c)
    BY <2>1 DEF StartProcess, CallInv
  <2>2. CASE StartFails(c)
    BY <2>2 DEF StartFails, CallInv
  <2>3. CASE Register(c)
    BY <2>3 DEF Register, CallInv
  <2>4. CASE ReceiveResult(c)
    BY <2>4 DEF ReceiveResult, CallInv
  <2>5. CASE GiveUp(c)
    BY <2>5 DEF GiveUp, CallInv
  <2>6. CASE Forget(c)
    BY <2>6 DEF Forget, CallInv
  <2>7. CASE WaitReturns(c)
    BY <2>7 DEF WaitReturns, CallInv
  <2>8. CASE KillProcess(c)
    BY <2>8 DEF KillProcess, Killed, CallInv
  <2> QED  BY <1>1, <2>1, <2>2, <2>3, <2>4, <2>5, <2>6, <2>7, <2>8 DEF CallStep
<1>2. ASSUME NEW c \in Calls, CancelContext(c) PROVE \A d \in Calls : CallInv(d)'
  BY <1>2 DEF CancelContext, CallInv
<1>3. ASSUME NEW c \in Calls, Exit(c) PROVE \A d \in Calls : CallInv(d)'
  BY <1>3 DEF Exit, CallInv
<1>4. ASSUME NEW c \in Calls, CleanKills(c) PROVE \A d \in Calls : CallInv(d)'
  BY <1>4 DEF CleanKills, Killed, CallInv
<1>5. ASSUME NEW c \in Calls, CleanFails(c) PROVE \A d \in Calls : CallInv(d)'
  BY <1>5 DEF CleanFails, CallInv
<1>6. CASE CleanBegins
  BY <1>6 DEF CleanBegins, CallInv
<1>7. CASE CleanEnds
  BY <1>7 DEF CleanEnds, CallInv
<1>8. CASE UNCHANGED vars
  BY <1>8 DEF vars, CallInv
<1> QED  BY <1>1, <1>2, <1>3, <1>4, <1>5, <1>6, <1>7, <1>8 DEF Next, CleanStep

(* The part of Clean.  Register and Forget need the mutex, so neither can  *)
(* change the map under its loop.                                          *)
LEMMA CleanInvStep ==
    ASSUME IInv, [Next]_vars
    PROVE  CleanInv'
<1> USE DEF IInv, TypeOK, callVars, cleanVars
<1>1. ASSUME NEW c \in Calls, CallStep(c) PROVE CleanInv'
  <2>1. CASE StartProcess(c)
    BY <2>1 DEF StartProcess, CallInv, CleanInv
  <2>2. CASE StartFails(c)
    BY <2>2 DEF StartFails, CleanInv
  <2>3. CASE Register(c)
    BY <2>3 DEF Register, CleanInv
  <2>4. CASE ReceiveResult(c)
    BY <2>4 DEF ReceiveResult, CleanInv
  <2>5. CASE GiveUp(c)
    BY <2>5 DEF GiveUp, CleanInv
  <2>6. CASE Forget(c)
    BY <2>6 DEF Forget, CleanInv
  <2>7. CASE WaitReturns(c)
    BY <2>7 DEF WaitReturns, CleanInv
  <2>8. CASE KillProcess(c)
    BY <2>8 DEF KillProcess, Killed, CleanInv
  <2> QED  BY <1>1, <2>1, <2>2, <2>3, <2>4, <2>5, <2>6, <2>7, <2>8 DEF CallStep
<1>2. ASSUME NEW c \in Calls, CancelContext(c) PROVE CleanInv'
  BY <1>2 DEF CancelContext, CleanInv
<1>3. ASSUME NEW c \in Calls, Exit(c) PROVE CleanInv'
  BY <1>3 DEF Exit, CleanInv
<1>4. ASSUME NEW c \in Calls, CleanKills(c) PROVE CleanInv'
  BY <1>4 DEF CleanKills, Killed, CleanInv
<1>5. ASSUME NEW c \in Calls, CleanFails(c) PROVE CleanInv'
  BY <1>5 DEF CleanFails, CleanInv
<1>6. CASE CleanBegins
  BY <1>6 DEF CleanBegins, CleanInv, CallInv
<1>7. CASE CleanEnds
  BY <1>7 DEF CleanEnds, CleanInv
<1>8. CASE UNCHANGED vars
  BY <1>8 DEF vars, CleanInv
<1> QED  BY <1>1, <1>2, <1>3, <1>4, <1>5, <1>6, <1>7, <1>8 DEF Next, CleanStep

(* The three parts together are inductive. *)
LEMMA IInvStep == IInv /\ [Next]_vars => IInv'
  BY TypeOKStep, CallInvStep, CleanInvStep DEF IInv

(* How far a call, its process, its goroutines and Clean have come fits    *)
(* together in every state.                                                *)
THEOREM InductiveInvariant == Spec => []IInv
  BY IInvInit, IInvStep, PTL DEF Spec

(***************************************************************************)
(* Every variable of the runner keeps its type.                            *)
(***************************************************************************)
THEOREM TypeCorrect == Spec => []TypeOK
<1>1. IInv => TypeOK
  BY DEF IInv
<1> QED  BY <1>1, InductiveInvariant, PTL

(***************************************************************************)
(* A process that runs on after Run has registered it is in the map, where *)
(* Clean finds it, or about to be killed by the goroutine of its call.     *)
(***************************************************************************)
THEOREM ProcessesAccountedFor == Spec => []NoProcessLost
<1>1. IInv => NoProcessLost
  BY DEF IInv, TypeOK, CallInv, NoProcessLost
<1> QED  BY <1>1, InductiveInvariant, PTL

(***************************************************************************)
(* The goroutine that is left blocked on errCh is that of a call whose     *)
(* context was done and which returned for that reason.                    *)
(***************************************************************************)
THEOREM LeaksAreCancellations == Spec => []LeaksOnlyWhenCancelled
<1>1. IInv => LeaksOnlyWhenCancelled
  BY DEF IInv, TypeOK, CallInv, LeaksOnlyWhenCancelled
<1> QED  BY <1>1, InductiveInvariant, PTL

(***************************************************************************)
(* Unless Clean returns an error, none of the processes that ran and were  *)
(* in the map when it took the mutex is running when it is back.           *)
(***************************************************************************)
THEOREM CleanIsThorough == Spec => []CleanKillsAllOrFails
<1>1. IInv => CleanKillsAllOrFails
  BY DEF IInv, TypeOK, CleanInv, CleanKillsAllOrFails
<1> QED  BY <1>1, InductiveInvariant, PTL
-----------------------------------------------------------------------------
(* The callers' view of one process. *)
Seen(p) == CASE p = "none" -> "none" [] p = "running" -> "alive" [] OTHER -> "dead"

(* A change of one process is a change of one entry of Cli. *)
LEMMA CliChanges ==
    ASSUME TypeOK, NEW c \in Calls, NEW p, proc' = [proc EXCEPT ![c] = p]
    PROVE  Cli' = [Cli EXCEPT ![c] = Seen(p)]
  BY DEF TypeOK, Cli, Seen

(* A running process that ends is the step Die of RunnerAbs, whoever has   *)
(* ended it; what happens to one that has ended is nothing to the callers. *)
LEMMA KilledDies ==
    ASSUME TypeOK, NEW c \in Calls, proc' = Killed(c), UNCHANGED <<ctxDone, result>>
    PROVE  [Abs!Next]_(Abs!vars)
<1>1. CASE proc[c] = "running"
  <2>1. Cli' = [Cli EXCEPT ![c] = "dead"] /\ Cli[c] = "alive"
    BY <1>1, CliChanges DEF Killed, Seen, Cli, TypeOK
  <2>2. Abs!Die(c)
    BY <2>1 DEF Abs!Die
  <2> QED  BY <2>2 DEF Abs!Next
<1>2. CASE proc[c] # "running"
  <2>1. proc' = proc
    BY <1>2 DEF Killed, TypeOK
  <2> QED  BY <2>1 DEF Cli, Abs!vars
<1> QED  BY <1>1, <1>2

(* A step of the runner is a step of RunnerAbs or changes nothing that the *)
(* callers see.                                                            *)
LEMMA RefinementStep ==
    ASSUME IInv, [Next]_vars
    PROVE  [Abs!Next]_(Abs!vars)
<1> USE DEF IInv, callVars, cleanVars
<1>0. ASSUME UNCHANGED <<ctxDone, proc, result>> PROVE [Abs!Next]_(Abs!vars)
  BY <1>0 DEF Abs!vars, Cli
<1>1. ASSUME NEW c \in Calls, CallStep(c) PROVE [Abs!Next]_(Abs!vars)
  <2>1. CASE StartProcess(c)
    <3>1. Cli' = [Cli EXCEPT ![c] = "alive"]
      BY <2>1, CliChanges DEF StartProcess, Seen
    <3>2. Cli[c] = "none" /\ result[c] = "none"
      BY <2>1 DEF StartProcess, CallInv, Cli
    <3>3. Abs!Spawn(c)
      BY <2>1, <3>1, <3>2 DEF StartProcess, Abs!Spawn
    <3> QED  BY <3>3 DEF Abs!Next
  <2>2. CASE StartFails(c)
    <3>1. Cli[c] = "none" /\ result[c] = "none" /\ Cli' = Cli
      BY <2>2 DEF StartFails, CallInv, Cli
    <3>2. Abs!Return(c)
      BY <2>2, <3>1 DEF StartFails, Abs!Return
    <3> QED  BY <3>2 DEF Abs!Next
  <2>3. CASE ReceiveResult(c)
    <3>1. Cli[c] = "dead" /\ result[c] = "none" /\ Cli' = Cli
      BY <2>3 DEF ReceiveResult, CallInv, Cli
    <3>2. Abs!Return(c)
      BY <2>3, <3>1 DEF ReceiveResult, Abs!Return
    <3> QED  BY <3>2 DEF Abs!Next
  <2>4. CASE GiveUp(c)
    <3>1. result[c] = "none" /\ Cli' = Cli
      BY <2>4 DEF GiveUp, CallInv, Cli
    <3>2. Abs!Return(c)
      BY <2>4, <3>1 DEF GiveUp, Abs!Return
    <3> QED  BY <3>2 DEF Abs!Next
  <2>5. CASE WaitReturns(c)
    <3>1. Cli' = [Cli EXCEPT ![c] = "dead"] /\ Cli[c] = "dead"
      BY <2>5, CliChanges DEF WaitReturns, Seen, Cli
    <3>2. Cli' = Cli
      BY <3>1 DEF Cli
    <3> QED  BY <2>5, <3>2 DEF WaitReturns, Abs!vars
  <2>6. CASE KillProcess(c)
    BY <2>6, KilledDies DEF KillProcess
  <2>7. CASE Register(c) \/ Forget(c)
    BY <1>0, <2>7 DEF Register, Forget
  <2> QED  BY <1>1, <2>1, <2>2, <2>3, <2>4, <2>5, <2>6, <2>7 DEF CallStep
<1>2. ASSUME NEW c \in Calls, CancelContext(c) PROVE [Abs!Next]_(Abs!vars)
  <2>1. Abs!Cancel(c)
    BY <1>2 DEF CancelContext, Abs!Cancel, Cli
  <2> QED  BY <2>1 DEF Abs!Next
<1>3. ASSUME NEW c \in Calls, Exit(c) PROVE [Abs!Next]_(Abs!vars)
  <2>1. proc' = Killed(c)
    BY <1>3 DEF Exit, Killed
  <2> QED  BY <1>3, <2>1, KilledDies DEF Exit
<1>4. ASSUME NEW c \in Calls, CleanKills(c) PROVE [Abs!Next]_(Abs!vars)
  BY <1>4, KilledDies DEF CleanKills
<1>5. ASSUME NEW c \in Calls, CleanFails(c) PROVE [Abs!Next]_(Abs!vars)
  BY <1>0, <1>5 DEF CleanFails
<1>6. CASE CleanBegins \/ CleanEnds \/ UNCHANGED vars
  BY <1>0, <1>6 DEF CleanBegins, CleanEnds, vars
<1> QED  BY <1>1, <1>2, <1>3, <1>4, <1>5, <1>6 DEF Next, CleanStep

(***************************************************************************)
(* The runner implements what BuildSteps has of it: one process per call,  *)
(* started and ended once; Run returns the command's result only when the  *)
(* process is dead and leaves a live one only with its context.            *)
(***************************************************************************)
THEOREM Refinement == Spec => ImplementsAbs
<1>1. Init => Abs!Init
  BY DEF Init, Abs!Init, Cli
<1>2. IInv /\ [Next]_vars => [Abs!Next]_(Abs!vars)
  BY RefinementStep
<1> QED  BY <1>1, <1>2, InductiveInvariant, PTL DEF Spec, ImplementsAbs, Abs!Spec
=============================================================================
