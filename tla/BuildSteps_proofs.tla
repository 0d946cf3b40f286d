-------------------------- MODULE BuildSteps_proofs --------------------------
(***************************************************************************)
(* Proofs about BuildSteps, for every set of validated requests, any       *)
(* number of steps and retries, with and without cancellation.             *)
(***************************************************************************)
EXTENDS BuildSteps, WellFoundedInduction, TLAPS

(* The shape of the request, used by every proof below. *)
LEMMA RequestShape ==
    ASSUME req \in Requests
    PROVE  /\ req.steps \in Seq(Step)
           /\ Len(req.steps) \in Nat \ {0}
           /\ Steps = 1 .. Len(req.steps)
<1>1. req \in Request /\ req.steps # <<>>
  BY RequestsAssumption
<1>2. req.steps \in Seq(Step)
  BY <1>1 DEF Request
<1>3. Len(req.steps) \in Nat \ {0} /\ Steps = 1 .. Len(req.steps)
  BY <1>1, <1>2 DEF Steps
<1> QED  BY <1>2, <1>3

(* A container mounts volumes of the build only. *)
LEMMA MountsOfBuild ==
    \A i \in Steps : Mounts(i) \subseteq {HomeVolume} \cup AllVolumes
  BY DEF AllVolumes, StepVolumes, Mounts

(* What New and Start begin with is well typed. *)
LEMMA TypeOKInit == Init => TypeOK
<1> SUFFICES ASSUME Init PROVE TypeOK
  OBVIOUS
<1>1. 1 \in Steps
  BY RequestShape DEF Init
<1> QED  BY <1>1, MaxRetriesAssumption DEF Init, TypeOK, CtxErrors, Terminal

(* Every step of main, of a goroutine, of a context or of docker keeps the *)
(* types; the retry counter stays within MaxRetries.                       *)
LEMMA TypeOKStep == TypeOK /\ [Next]_vars => TypeOK'
<1> SUFFICES ASSUME TypeOK, [Next]_vars PROVE TypeOK'
  OBVIOUS
<1> USE DEF CtxErrors, Terminal, RunErrors, FailStatus, histVars
<1>0. req \in Requests
  BY DEF TypeOK
<1>a. req' = req => AllVolumes' = AllVolumes
  BY DEF AllVolumes, StepVolumes, Steps
<1>1. CASE DeadlineExpires
  BY <1>1, <1>a DEF TypeOK, DeadlineExpires, Expire, mainVars, stepVars, dockVars, Steps
<1>2. CASE CallerCancels
  BY <1>2, <1>a DEF TypeOK, CallerCancels, Expire, mainVars, stepVars, dockVars, Steps
<1>3. CASE SetupHome
  BY <1>3, <1>a DEF TypeOK, SetupHome, ctxVars, stepVars, Steps
<1>4. CASE SetupHomeFails
  BY <1>4, <1>a DEF TypeOK, SetupHomeFails, ctxVars, stepVars, Steps
<1>5. CASE SetupVolumes
  BY <1>5, <1>a DEF TypeOK, SetupVolumes, ctxVars, stepVars, Steps
<1>6. CASE SetupVolumesFails
  BY <1>6, <1>a DEF TypeOK, SetupVolumesFails, ctxVars, stepVars, Steps
<1>7. CASE Launch
  BY <1>7, <1>a DEF TypeOK, Launch, ctxVars, dockVars, Steps
<1>8. CASE ReceiveDone
  BY <1>8, <1>a, <1>0, RequestShape DEF TypeOK, ReceiveDone, LastChannel, ctxVars, stepVars, dockVars, Steps
<1>9. CASE ReceiveCtxDone
  BY <1>9, <1>a DEF TypeOK, ReceiveCtxDone, ctxVars, stepVars, dockVars, Steps
<1>10. CASE VerifyImages
  BY <1>10, <1>a DEF TypeOK, VerifyImages, ctxVars, stepVars, dockVars, Steps
<1>11. CASE CancelSteps
  BY <1>11, <1>a DEF TypeOK, CancelSteps, stepVars, dockVars, Steps
<1>12. CASE RemoveContainers
  BY <1>12, <1>a DEF TypeOK, RemoveContainers, ctxVars, stepVars, Steps
<1>13. CASE CleanProcesses
  BY <1>13, <1>a DEF TypeOK, CleanProcesses, ctxVars, stepVars, Steps
<1>14. CASE CloseVolumes
  BY <1>14, <1>a DEF TypeOK, CloseVolumes, ctxVars, stepVars, Steps
<1>15. CASE ReturnFromSteps
  BY <1>15, <1>a DEF TypeOK, ReturnFromSteps, ctxVars, stepVars, dockVars, Steps
<1>16. CASE PushAll
  BY <1>16, <1>a DEF TypeOK, PushAll, ctxVars, stepVars, dockVars, Steps
<1>17. CASE CloseHome
  BY <1>17, <1>a DEF TypeOK, CloseHome, ctxVars, stepVars, Steps
<1>18. ASSUME NEW i \in Steps, StepNext(i) PROVE TypeOK'
  <2> USE DEF TypeOK, Goto, Steps, mainVars, ctxVars, dockVars
  <2>1. CASE BeginStep(i)
    BY <2>1, <1>a DEF BeginStep
  <2>2. CASE WaitCancelled(i)
    BY <2>2, <1>a DEF WaitCancelled
  <2>3. CASE InspectImage(i)
    BY <2>3, <1>a DEF InspectImage
  <2>4. CASE InspectCancelled(i)
    BY <2>4, <1>a DEF InspectCancelled
  <2>5. CASE PullImage(i)
    BY <2>5, <1>a DEF PullImage
  <2>6. CASE RetryPull(i)
    BY <2>6, <1>a, MaxRetriesAssumption DEF RetryPull, MayRetry
  <2>7. CASE GiveUpPull(i)
    BY <2>7, <1>a DEF GiveUpPull
  <2>8. CASE SpawnClient(i)
    BY <2>8, <1>a DEF SpawnClient
  <2>9. CASE PrepareFails(i)
    BY <2>9, <1>a DEF PrepareFails, FinishStep, StatusAfter
  <2>10. CASE ClientExits(i)
    BY <2>10, <1>a DEF ClientExits, FinishStep, StatusAfter
  <2>11. CASE RunCancelled(i)
    BY <2>11, <1>a DEF RunCancelled, StepCtxErrors, FinishStep, StatusAfter
  <2>12. CASE CloseDone(i)
    BY <2>12, <1>a DEF CloseDone
  <2>13. CASE SendError(i)
    BY <2>13, <1>a DEF SendError
  <2>14. CASE SendCancelled(i)
    BY <2>14, <1>a DEF SendCancelled
  <2> QED  BY <1>18, <2>1, <2>2, <2>3, <2>4, <2>5, <2>6, <2>7, <2>8, <2>9,
              <2>10, <2>11, <2>12, <2>13, <2>14 DEF StepNext
<1>19. ASSUME NEW i \in Steps, DockerNext(i) PROVE TypeOK'
  <2> USE DEF TypeOK, Steps, mainVars, ctxVars, stepVars
  <2>1. CASE KillClient(i)
    BY <2>1, <1>a DEF KillClient
  <2>2. CASE CreateContainer(i)
    BY <2>2, <1>a, MountsOfBuild DEF CreateContainer
  <2>3. CASE ContainerExits(i)
    BY <2>3, <1>a DEF ContainerExits
  <2> QED  BY <1>19, <2>1, <2>2, <2>3 DEF DockerNext
<1>20. CASE HomeMounted
  BY <1>20, <1>a DEF TypeOK, HomeMounted, mainVars, ctxVars, stepVars, Steps
<1>21. CASE UNCHANGED vars
  BY <1>21, <1>a DEF TypeOK, vars, mainVars, ctxVars, stepVars, dockVars, Steps
<1> QED  BY <1>1, <1>2, <1>3, <1>4, <1>5, <1>6, <1>7, <1>8, <1>9, <1>10, <1>11,
            <1>12, <1>13, <1>14, <1>15, <1>16, <1>17, <1>18, <1>19, <1>20, <1>21
         DEF Next, MainNext, Finished

(***************************************************************************)
(* Every variable of the executor keeps its type.                          *)
(***************************************************************************)
THEOREM TypeCorrect == Spec => []TypeOK
  BY TypeOKInit, TypeOKStep, PTL DEF Spec
-----------------------------------------------------------------------------
(***************************************************************************)
(* The inductive invariant.  Of each step: its status follows its          *)
(* goroutine, it leaves QUEUED only when the channels it waits for are     *)
(* closed, and a channel is closed, as a status is SUCCESS, only after the *)
(* container exited with success.                                          *)
(***************************************************************************)
StepInv(i) ==
    /\ stepPc[i] \in {"none", "wait"} => stepStatus[i] = "QUEUED"
    /\ stepPc[i] \in {"inspect", "pull", "prepare"} => cli[i] = "none"
    /\ stepPc[i] \in {"inspect", "pull", "prepare", "running"} => stepStatus[i] = "WORKING"
    /\ stepPc[i] = "running" => cli[i] # "none"
    /\ stepPc[i] = "close" => stepStatus[i] = "SUCCESS"
    /\ stepStatus[i] = "QUEUED" => cli[i] = "none"
    /\ stepStatus[i] # "QUEUED" => WaitChans(req.steps, i) \subseteq closed
    /\ cli[i] = "none" => ctr[i] = "none"
    /\ stepStatus[i] = "SUCCESS" => ctr[i] = "ok"
    /\ i \in closed => stepStatus[i] = "SUCCESS"

(* Where main is in runBuildSteps, deferred calls included. *)
Unwinding == {"cancel", "rm", "clean", "closeVolumes", "return"}

(***************************************************************************)
(* Of main: the status follows the program counter, the goroutines start   *)
(* with Launch, main has seen the channels below k, and it comes back      *)
(* without an error only when all channels are closed.                     *)
(***************************************************************************)
MainInv ==
    /\ pc = "start" => status = "NEW"
    /\ pc \in {"volumes", "launch", "select", "images"} \cup Unwinding => status = "BUILD"
    /\ pc = "push" => status = "PUSH" /\ req.push = TRUE
    /\ pc \in {"closeHome", "end"} => status \in Terminal
    /\ pc \in {"start", "volumes", "launch"} => \A i \in Steps : stepPc[i] = "none"
    /\ \A j \in Steps : j < k => j \in closed
    /\ pc = "images" => Steps \subseteq closed
    /\ pc \in Unwinding /\ result = "nil" => Steps \subseteq closed
    /\ status \in {"PUSH", "DONE"} => Steps \subseteq closed

IInv == TypeOK /\ MainInv /\ \A i \in Steps : StepInv(i)

(* The invariant holds before Start has done anything. *)
LEMMA IInvInit == Init => IInv
<1> SUFFICES ASSUME Init PROVE IInv
  OBVIOUS
<1>1. TypeOK
  BY TypeOKInit
<1>2. MainInv
  BY <1>1, RequestShape DEF Init, MainInv, Unwinding
<1>3. \A i \in Steps : StepInv(i)
  BY DEF Init, StepInv
<1> QED  BY <1>1, <1>2, <1>3 DEF IInv

(* The steps' part of the invariant: one case per action that touches a    *)
(* step; the others leave its variables alone.                             *)
LEMMA StepInvStep ==
    ASSUME IInv, [Next]_vars
    PROVE  \A j \in Steps' : StepInv(j)'
<1> USE DEF IInv, TypeOK, Steps, mainVars, ctxVars, stepVars, dockVars, histVars, Goto
<1>1. CASE UNCHANGED <<req, stepPc, stepStatus, closed, cli, ctr>>
  BY <1>1 DEF StepInv
<1>2. CASE Launch
  BY <1>2 DEF Launch, StepInv, MainInv
<1>3. CASE RemoveContainers
  BY <1>3 DEF RemoveContainers, StepInv
<1>4. CASE CleanProcesses
  BY <1>4 DEF CleanProcesses, StepInv
<1>5. ASSUME NEW i \in Steps, StepNext(i) PROVE \A j \in Steps' : StepInv(j)'
  <2>1. CASE BeginStep(i)
    BY <2>1 DEF BeginStep, StepInv, ReadyToStart
  <2>2. CASE WaitCancelled(i)
    BY <2>2 DEF WaitCancelled, StepInv
  <2>3. CASE InspectImage(i)
    BY <2>3 DEF InspectImage, StepInv
  <2>4. CASE InspectCancelled(i)
    BY <2>4 DEF InspectCancelled, StepInv
  <2>5. CASE PullImage(i)
    BY <2>5 DEF PullImage, StepInv
  <2>6. CASE RetryPull(i)
    BY <2>6 DEF RetryPull, StepInv
  <2>7. CASE GiveUpPull(i)
    BY <2>7 DEF GiveUpPull, StepInv
  <2>8. CASE SpawnClient(i)
    BY <2>8 DEF SpawnClient, StepInv
  <2>9. CASE PrepareFails(i)
    BY <2>9 DEF PrepareFails, FinishStep, StatusAfter, StepInv
  <2>10. CASE ClientExits(i)
    BY <2>10 DEF ClientExits, FinishStep, StatusAfter, StepInv
  <2>11. CASE RunCancelled(i)
    BY <2>11 DEF RunCancelled, FinishStep, StatusAfter, StepCtxErrors, CtxErrors, StepInv
  <2>12. CASE CloseDone(i)
    BY <2>12 DEF CloseDone, StepInv
  <2>13. CASE SendError(i)
    BY <2>13 DEF SendError, StepInv
  <2>14. CASE SendCancelled(i)
    BY <2>14 DEF SendCancelled, StepInv
  <2> QED  BY <1>5, <2>1, <2>2, <2>3, <2>4, <2>5, <2>6, <2>7, <2>8, <2>9, <2>10, <2>11, <2>12, <2>13, <2>14 DEF StepNext
<1>6. ASSUME NEW i \in Steps, DockerNext(i) PROVE \A j \in Steps' : StepInv(j)'
  <2>1. CASE KillClient(i)
    BY <2>1 DEF KillClient, StepInv
  <2>2. CASE CreateContainer(i)
    BY <2>2 DEF CreateContainer, StepInv
  <2>3. CASE ContainerExits(i)
    BY <2>3 DEF ContainerExits, StepInv
  <2> QED  BY <1>6, <2>1, <2>2, <2>3 DEF DockerNext
<1>7. CASE DeadlineExpires \/ CallerCancels \/ HomeMounted \/ UNCHANGED vars
  BY <1>1, <1>7 DEF DeadlineExpires, CallerCancels, Expire, HomeMounted, vars
<1>8. CASE SetupHome \/ SetupHomeFails \/ SetupVolumes \/ SetupVolumesFails
           \/ ReceiveDone \/ ReceiveCtxDone \/ VerifyImages \/ CancelSteps \/ CloseVolumes
           \/ ReturnFromSteps \/ PushAll \/ CloseHome
  BY <1>1, <1>8 DEF SetupHome, SetupHomeFails, SetupVolumes, SetupVolumesFails,
     ReceiveDone, ReceiveCtxDone, VerifyImages, CancelSteps, CloseVolumes,
     ReturnFromSteps, PushAll, CloseHome
<1> QED  BY <1>2, <1>3, <1>4, <1>5, <1>6, <1>7, <1>8 DEF Next, MainNext, Finished

(* Main's part. *)
LEMMA MainInvStep ==
    ASSUME IInv, [Next]_vars
    PROVE  MainInv'
<1> USE DEF IInv, TypeOK, Steps, mainVars, ctxVars, stepVars, dockVars, histVars, Goto, Unwinding
<1>1. CASE SetupHome
  BY <1>1 DEF SetupHome, MainInv
<1>2. CASE SetupHomeFails
  BY <1>2 DEF SetupHomeFails, RunErrors, FailStatus, Terminal, MainInv
<1>3. CASE SetupVolumes
  BY <1>3 DEF SetupVolumes, MainInv
<1>4. CASE SetupVolumesFails
  BY <1>4 DEF SetupVolumesFails, RunErrors, CtxErrors, MainInv
<1>5. CASE Launch
  BY <1>5 DEF Launch, MainInv
<1>6. CASE ReceiveDone
  <2>1. Len(req.steps) \in Nat /\ Steps = 1 .. Len(req.steps)
    BY RequestShape
  <2>2. k \in Steps /\ (\A j \in Steps : j < k => j \in closed) /\ k \in closed
    BY <1>6 DEF ReceiveDone, MainInv
  <2>3. CASE LastChannel
    <3>1. Steps \subseteq closed
      BY <2>1, <2>2, <2>3 DEF LastChannel
    <3> QED  BY <1>6, <2>3, <3>1 DEF ReceiveDone, MainInv
  <2>4. CASE ~ LastChannel
    <3>1. \A j \in Steps : j < k + 1 => j \in closed
      BY <2>1, <2>2
    <3> QED  BY <1>6, <2>4, <3>1 DEF ReceiveDone, MainInv
  <2> QED  BY <2>3, <2>4
<1>7. CASE ReceiveCtxDone
  BY <1>7 DEF ReceiveCtxDone, MainSeesCtxDone, MainInv
<1>8. CASE VerifyImages
  BY <1>8 DEF VerifyImages, MainInv
<1>9. CASE CancelSteps
  BY <1>9 DEF CancelSteps, MainInv
<1>10. CASE RemoveContainers
  BY <1>10 DEF RemoveContainers, MainInv
<1>11. CASE CleanProcesses
  BY <1>11 DEF CleanProcesses, MainInv
<1>12. CASE CloseVolumes
  BY <1>12 DEF CloseVolumes, MainInv
<1>13. CASE ReturnFromSteps
  BY <1>13 DEF ReturnFromSteps, FailStatus, Terminal, MainInv
<1>14. CASE PushAll
  BY <1>14 DEF PushAll, RunErrors, FailStatus, Terminal, MainInv
<1>15. CASE CloseHome
  BY <1>15 DEF CloseHome, MainInv
<1>16. ASSUME NEW i \in Steps, StepNext(i) PROVE MainInv'
  <2>1. CASE BeginStep(i)
    BY <2>1 DEF BeginStep, MainInv
  <2>2. CASE WaitCancelled(i)
    BY <2>2 DEF WaitCancelled, MainInv
  <2>3. CASE InspectImage(i)
    BY <2>3 DEF InspectImage, MainInv
  <2>4. CASE InspectCancelled(i)
    BY <2>4 DEF InspectCancelled, MainInv
  <2>5. CASE PullImage(i)
    BY <2>5 DEF PullImage, MainInv
  <2>6. CASE RetryPull(i)
    BY <2>6 DEF RetryPull, MainInv
  <2>7. CASE GiveUpPull(i)
    BY <2>7 DEF GiveUpPull, MainInv
  <2>8. CASE SpawnClient(i)
    BY <2>8 DEF SpawnClient, MainInv
  <2>9. CASE PrepareFails(i)
    BY <2>9 DEF PrepareFails, FinishStep, StatusAfter, MainInv
  <2>10. CASE ClientExits(i)
    BY <2>10 DEF ClientExits, FinishStep, StatusAfter, MainInv
  <2>11. CASE RunCancelled(i)
    BY <2>11 DEF RunCancelled, FinishStep, StatusAfter, StepCtxErrors, CtxErrors, MainInv
  <2>12. CASE CloseDone(i)
    BY <2>12 DEF CloseDone, MainInv
  <2>13. CASE SendError(i)
    BY <2>13 DEF SendError, MainInv, MainReceives
  <2>14. CASE SendCancelled(i)
    BY <2>14 DEF SendCancelled, MainInv
  <2> QED  BY <1>16, <2>1, <2>2, <2>3, <2>4, <2>5, <2>6, <2>7, <2>8, <2>9, <2>10, <2>11, <2>12, <2>13, <2>14 DEF StepNext
<1>17. ASSUME NEW i \in Steps, DockerNext(i) PROVE MainInv'
  BY <1>17 DEF DockerNext, KillClient, CreateContainer, ContainerExits, MainInv
<1>18. CASE DeadlineExpires \/ CallerCancels \/ HomeMounted \/ UNCHANGED vars
  BY <1>18 DEF DeadlineExpires, CallerCancels, Expire, HomeMounted, vars, MainInv
<1> QED  BY <1>1, <1>2, <1>3, <1>4, <1>5, <1>6, <1>7, <1>8, <1>9, <1>10, <1>11, <1>12, <1>13, <1>14, <1>15, <1>16, <1>17, <1>18
         DEF Next, MainNext, Finished

(* The three parts together are inductive. *)
LEMMA IInvStep == IInv /\ [Next]_vars => IInv'
  BY TypeOKStep, StepInvStep, MainInvStep DEF IInv

(* The inductive invariant: what each goroutine's place in timeAndRunStep  *)
(* says of its container and its channel, and main's place of all of them. *)
THEOREM InductiveInvariant == Spec => []IInv
  BY IInvInit, IInvStep, PTL DEF Spec

(***************************************************************************)
(* Dependencies are respected: a container exists only if those of all the *)
(* steps that timeAndRunStep waits for have exited with success.           *)
(***************************************************************************)
THEOREM DependenciesRespected == Spec => []DepsRespected
<1>1. IInv => DepsRespected
  BY DEF IInv, TypeOK, StepInv, DepsRespected
<1> QED  BY <1>1, InductiveInvariant, PTL

(***************************************************************************)
(* Start pushes and reports DONE only when all steps have succeeded.       *)
(***************************************************************************)
THEOREM PushAfterSuccess == Spec => []PushOnlyIfBuilt
<1>1. IInv => PushOnlyIfBuilt
  BY DEF IInv, TypeOK, MainInv, StepInv, PushOnlyIfBuilt
<1> QED  BY <1>1, InductiveInvariant, PTL
-----------------------------------------------------------------------------
(* BuildAbs has its own copy of the operators of StepGraph. *)
LEMMA SameWaitChans == \A i : Abs!WaitChans(req.steps, i) = WaitChans(req.steps, i)
  BY DEF WaitChans, NamedBy, NoId, StartStep,
         Abs!WaitChans, Abs!NamedBy, Abs!NoId, Abs!StartStep

(* A step of the executor is a step of BuildAbs or leaves the statuses     *)
(* alone.  The variables of BuildAbs are those of the executor.            *)
LEMMA RefinementStep ==
    ASSUME IInv, [Next]_vars
    PROVE  [Abs!Next]_(Abs!vars)
<1> USE DEF IInv, TypeOK, Steps, Abs!Steps, Abs!vars, mainVars, ctxVars, stepVars
<1>1. CASE UNCHANGED <<req, status, stepStatus>>
  BY <1>1
<1>2. ASSUME UNCHANGED <<req, stepStatus>>, status' \in Abs!BuildStatuses,
             Abs!StatusStep(status, status')
      PROVE  Abs!Next
  BY <1>2 DEF Abs!Next, Abs!ChangeStatus
<1>3. ASSUME Steps \subseteq closed PROVE Abs!AllSucceeded
  BY <1>3 DEF StepInv, Abs!AllSucceeded
<1>4. CASE SetupHome
  BY <1>2, <1>4 DEF SetupHome, MainInv, Abs!StatusStep, Abs!BuildStatuses
<1>5. CASE SetupHomeFails
  BY <1>2, <1>5 DEF SetupHomeFails, FailStatus, MainInv, Abs!StatusStep, Abs!BuildStatuses
<1>6. CASE ReturnFromSteps
  <2>1. status = "BUILD" /\ UNCHANGED <<req, stepStatus>>
    BY <1>6 DEF ReturnFromSteps, MainInv, Unwinding
  <2>2. CASE result = "nil"
    BY <1>2, <1>3, <1>6, <2>1, <2>2
       DEF ReturnFromSteps, MainInv, Unwinding, Abs!StatusStep, Abs!BuildStatuses
  <2>3. CASE result # "nil"
    BY <1>2, <1>6, <2>1, <2>3
       DEF ReturnFromSteps, FailStatus, Abs!StatusStep, Abs!BuildStatuses
  <2> QED  BY <2>2, <2>3
<1>7. CASE PushAll
  BY <1>2, <1>7 DEF PushAll, FailStatus, MainInv, Abs!StatusStep, Abs!BuildStatuses
<1>8. ASSUME NEW i \in Steps, StepNext(i) PROVE [Abs!Next]_(Abs!vars)
  <2>1. ASSUME NEW e, FinishStep(i, e), stepStatus[i] = "WORKING"
        PROVE  [Abs!Next]_(Abs!vars)
    <3>1. PICK st \in StatusAfter(i, e) : stepStatus' = [stepStatus EXCEPT ![i] = st]
      BY <2>1 DEF FinishStep
    <3>2. st \in {"WORKING", "SUCCESS", "FAILURE", "TIMEOUT", "CANCELLED"}
      BY <3>1 DEF StatusAfter
    <3>3. UNCHANGED <<req, status>>
      BY <2>1 DEF FinishStep
    <3>4. CASE st = "WORKING"
      <4>1. stepStatus' = stepStatus
        BY <2>1, <3>1, <3>4
      <4> QED  BY <3>3, <4>1
    <3>5. CASE st # "WORKING"
      <4>1. Abs!End(i)
        BY <2>1, <3>1, <3>2, <3>3, <3>5 DEF Abs!End
      <4> QED  BY <4>1 DEF Abs!Next
    <3> QED  BY <3>4, <3>5
  <2>2. CASE BeginStep(i)
    <3>1. WaitChans(req.steps, i) \subseteq closed /\ stepStatus[i] = "QUEUED"
      BY <2>2 DEF BeginStep, ReadyToStart, StepInv
    <3>2. status # "NEW"
      BY <2>2 DEF BeginStep, MainInv, Unwinding, Terminal
    <3>3. Abs!Begin(i)
      BY <2>2, <3>1, <3>2, SameWaitChans DEF BeginStep, StepInv, Abs!Begin
    <3> QED  BY <3>3 DEF Abs!Next
  <2>3. CASE PrepareFails(i)
    BY <2>1, <2>3 DEF PrepareFails, StepInv
  <2>4. CASE ClientExits(i)
    BY <2>1, <2>4 DEF ClientExits, StepInv
  <2>5. CASE RunCancelled(i)
    BY <2>1, <2>5 DEF RunCancelled, StepInv
  <2>6. CASE WaitCancelled(i) \/ InspectImage(i)
             \/ InspectCancelled(i) \/ PullImage(i)
             \/ RetryPull(i) \/ GiveUpPull(i)
             \/ SpawnClient(i) \/ CloseDone(i)
             \/ SendError(i) \/ SendCancelled(i)
    BY <1>1, <2>6 DEF WaitCancelled, InspectImage, InspectCancelled, PullImage, RetryPull, GiveUpPull,
                      SpawnClient, CloseDone, SendError, SendCancelled
  <2> QED  BY <1>8, <2>2, <2>3, <2>4, <2>5, <2>6 DEF StepNext
<1>9. ASSUME NEW i \in Steps, DockerNext(i) PROVE [Abs!Next]_(Abs!vars)
  BY <1>1, <1>9 DEF DockerNext, KillClient, CreateContainer, ContainerExits
<1>10. CASE DeadlineExpires \/ CallerCancels \/ HomeMounted \/ UNCHANGED vars
  BY <1>1, <1>10 DEF DeadlineExpires, CallerCancels, Expire, HomeMounted, vars
<1>11. CASE SetupVolumes \/ SetupVolumesFails \/ Launch \/ ReceiveDone
           \/ ReceiveCtxDone \/ VerifyImages \/ CancelSteps \/ RemoveContainers
           \/ CleanProcesses \/ CloseVolumes \/ CloseHome
  BY <1>1, <1>11 DEF SetupVolumes, SetupVolumesFails, Launch, ReceiveDone,
                     ReceiveCtxDone, VerifyImages, CancelSteps, RemoveContainers,
                     CleanProcesses, CloseVolumes, CloseHome
<1> QED  BY <1>4, <1>5, <1>6, <1>7, <1>8, <1>9, <1>10, <1>11 DEF Next, MainNext, Finished

(***************************************************************************)
(* The executor implements BuildAbs: whoever polls GetStatus sees steps    *)
(* begin after those they wait for, end once, and the build reach one      *)
(* final status, PUSH and DONE only after every step has succeeded.        *)
(***************************************************************************)
THEOREM Refinement == Spec => ImplementsAbs
<1>1. Init => Abs!Init
  BY DEF Init, Abs!Init, Steps, Abs!Steps
<1>2. IInv /\ [Next]_vars => [Abs!Next]_(Abs!vars)
  BY RefinementStep
<1> QED  BY <1>1, <1>2, InductiveInvariant, PTL DEF Spec, ImplementsAbs, Abs!Spec
-----------------------------------------------------------------------------
(* Where main is before it cancels the context of the steps. *)
BeforeCancel == {"start", "volumes", "launch", "select", "images", "cancel"}

(* The error of step i comes from itself or from the caller's context. *)
OwnFault(i) ==
    /\ stepErr[i] = "canceled" => ctxErr = "canceled"
    /\ stepErr[i] = "exit" => cli[i] = "dead" /\ ctr[i] \in {"none", "failed"}

(***************************************************************************)
(* What ReportsRootCause needs besides IInv: until main cancels the steps, *)
(* both contexts are in the same state, nobody kills a client that Run is  *)
(* waiting for and nobody removes a container.  So the error of a step is  *)
(* its own then, and that of the culprit was sent then.                    *)
(***************************************************************************)
CauseInv ==
    /\ pc \in BeforeCancel => stepsErr = ctxErr
    /\ \A i \in Steps :
          /\ stepPc[i] \in {"none", "wait", "inspect", "pull", "prepare", "running"} => stepErr[i] = "nil"
          /\ stepPc[i] = "send" => stepErr[i] # "nil"
          /\ pc \in BeforeCancel =>
                /\ stepPc[i] = "running" => cli[i] = "alive"
                /\ ctr[i] # "removed"
                /\ OwnFault(i)
    /\ culprit # 0 => stepPc[culprit] = "exit" /\ stepErr[culprit] # "nil" /\ OwnFault(culprit)

(* Every step of main, of a goroutine, of a context or of docker keeps it. *)
LEMMA CauseInvStep ==
    ASSUME IInv, CauseInv, [Next]_vars
    PROVE  CauseInv'
<1>a. Steps \subseteq Nat \ {0}
  BY RequestShape DEF IInv, TypeOK
<1> USE <1>a DEF IInv, TypeOK, CauseInv, OwnFault, BeforeCancel, StepInv, Steps, mainVars, ctxVars, stepVars,
             dockVars, histVars, Goto
<1>1. CASE SetupHome
  BY <1>1 DEF SetupHome
<1>2. CASE SetupHomeFails
  BY <1>2 DEF SetupHomeFails, RunErrors, FailStatus, Terminal
<1>3. CASE SetupVolumes
  BY <1>3 DEF SetupVolumes
<1>4. CASE SetupVolumesFails
  BY <1>4 DEF SetupVolumesFails, RunErrors, CtxErrors
<1>5. CASE Launch
  BY <1>5 DEF Launch, MainInv
<1>6. CASE ReceiveDone
  BY <1>6 DEF ReceiveDone, LastChannel
<1>7. CASE ReceiveCtxDone
  BY <1>7 DEF ReceiveCtxDone, MainSeesCtxDone
<1>8. CASE VerifyImages
  BY <1>8 DEF VerifyImages
<1>9. CASE CancelSteps
  BY <1>9 DEF CancelSteps
<1>10. CASE RemoveContainers
  BY <1>10 DEF RemoveContainers
<1>11. CASE CleanProcesses
  BY <1>11 DEF CleanProcesses
<1>12. CASE CloseVolumes
  BY <1>12 DEF CloseVolumes
<1>13. CASE ReturnFromSteps
  BY <1>13 DEF ReturnFromSteps, FailStatus, Terminal
<1>14. CASE PushAll
  BY <1>14 DEF PushAll, RunErrors, FailStatus, Terminal
<1>15. CASE CloseHome
  BY <1>15 DEF CloseHome
<1>16. ASSUME NEW i \in Steps, StepNext(i) PROVE CauseInv'
  <2>1. CASE BeginStep(i)
    BY <2>1 DEF BeginStep
  <2>2. CASE WaitCancelled(i)
    BY <2>2 DEF WaitCancelled
  <2>3. CASE InspectImage(i)
    BY <2>3 DEF InspectImage
  <2>4. CASE InspectCancelled(i)
    BY <2>4 DEF InspectCancelled, CtxErrors
  <2>5. CASE PullImage(i)
    BY <2>5 DEF PullImage
  <2>6. CASE RetryPull(i)
    BY <2>6 DEF RetryPull
  <2>7. CASE GiveUpPull(i)
    BY <2>7 DEF GiveUpPull, RunErrors, CtxErrors
  <2>8. CASE SpawnClient(i)
    BY <2>8 DEF SpawnClient
  <2>9. CASE PrepareFails(i)
    BY <2>9 DEF PrepareFails, FinishStep
  <2>10. CASE ClientExits(i)
    BY <2>10 DEF ClientExits, FinishStep
  <2>11. CASE RunCancelled(i)
    BY <2>11 DEF RunCancelled, FinishStep, StepCtxErrors, CtxErrors
  <2>12. CASE CloseDone(i)
    BY <2>12 DEF CloseDone
  <2>13. CASE SendError(i)
    BY <2>13 DEF SendError, MainReceives
  <2>14. CASE SendCancelled(i)
    BY <2>14 DEF SendCancelled
  <2> QED  BY <1>16, <2>1, <2>2, <2>3, <2>4, <2>5, <2>6, <2>7, <2>8, <2>9, <2>10, <2>11, <2>12, <2>13, <2>14
           DEF StepNext
<1>17. ASSUME NEW i \in Steps, DockerNext(i) PROVE CauseInv'
  <2>1. CASE KillClient(i)
    BY <2>1 DEF KillClient
  <2>2. CASE CreateContainer(i)
    BY <2>2 DEF CreateContainer
  <2>3. CASE ContainerExits(i)
    BY <2>3 DEF ContainerExits
  <2> QED  BY <1>17, <2>1, <2>2, <2>3 DEF DockerNext
<1>18. CASE DeadlineExpires \/ CallerCancels \/ HomeMounted
  BY <1>18 DEF DeadlineExpires, CallerCancels, Expire, HomeMounted
<1>19. CASE UNCHANGED vars
  BY <1>19 DEF vars
<1> QED  BY <1>1, <1>2, <1>3, <1>4, <1>5, <1>6, <1>7, <1>8, <1>9, <1>10, <1>11, <1>12, <1>13, <1>14, <1>15, <1>16, <1>17, <1>18, <1>19
         DEF Next, MainNext, Finished

(***************************************************************************)
(* The step whose error Start reports failed by itself.                    *)
(***************************************************************************)
THEOREM RootCauseReported == Spec => []ReportsRootCause
<1>1. Init => CauseInv
  BY RequestShape DEF Init, CauseInv, OwnFault
<1>2. IInv /\ CauseInv /\ [Next]_vars => CauseInv'
  BY CauseInvStep
<1>3. CauseInv => ReportsRootCause
  BY DEF CauseInv, OwnFault, ReportsRootCause
<1> QED  BY <1>1, <1>2, <1>3, InductiveInvariant, PTL DEF Spec
-----------------------------------------------------------------------------
(* Main is on its way to DONE, after the loop over finishedChannels. *)
Succeeding ==
    \/ pc \in {"rm", "clean", "closeVolumes", "return"} /\ result = "nil"
    \/ status \in {"PUSH", "DONE"}

(* What LeftoversExplained says of the volumes, at any time. *)
VolumesExplained == vols \ {HomeVolume} \subseteq stray \cup UNION {Mounts(i) : i \in late}

(***************************************************************************)
(* What LeftoversExplained needs besides IInv.  A step that succeeded has  *)
(* no client left.  A Close is deferred for every volume before the steps  *)
(* are launched, or for all but the stray one if a set-up failed; then     *)
(* there are no steps.  A container that is seen after docker rm is a late *)
(* one, and on the way to DONE there is none: all channels are closed.     *)
(***************************************************************************)
RestInv ==
    /\ \A i \in Steps : stepStatus[i] = "SUCCESS" => cli[i] = "dead"
    /\ closed \subseteq {i \in Steps : stepPc[i] = "exit"}
    /\ pc \in {"start", "volumes"} => vols \subseteq {HomeVolume}
    /\ pc \in {"launch", "select", "images", "cancel", "rm", "clean"} => deferred = AllVolumes
    /\ pc = "closeVolumes" =>
          \/ deferred = AllVolumes
          \/ /\ \A i \in Steps : stepPc[i] = "none"
             /\ vols \subseteq {HomeVolume} \cup deferred \cup stray
    /\ pc \in {"return", "push", "closeHome", "end"} => VolumesExplained
    /\ pc \in AfterRm => \A i \in Steps : ctr[i] = "running" => i \in late
    /\ pc # "rm" /\ Succeeding => late = {}

(* Once all channels are closed nothing of the steps is alive. *)
LEMMA AllClosedAllDead ==
    ASSUME IInv, RestInv, Steps \subseteq closed
    PROVE  \A i \in Steps : cli[i] = "dead" /\ stepPc[i] = "exit" /\ ctr[i] = "ok"
  BY DEF IInv, StepInv, RestInv

(* Every step of main, of a goroutine, of a context or of docker keeps it. *)
LEMMA RestInvStep ==
    ASSUME IInv, RestInv, [Next]_vars
    PROVE  RestInv'
<1>a. req' = req => AllVolumes' = AllVolumes
  BY DEF AllVolumes, StepVolumes, Steps
<1>b. Steps \subseteq closed => \A i \in Steps : cli[i] = "dead" /\ ctr[i] = "ok"
  BY AllClosedAllDead
<1>c. Succeeding => Steps \subseteq closed
  BY DEF IInv, MainInv, Unwinding, Succeeding
<1>d. UNCHANGED <<req, vols, stray, late>> => VolumesExplained' = VolumesExplained
  BY DEF VolumesExplained, Mounts
<1> USE <1>a, <1>d DEF IInv, TypeOK, RestInv, Succeeding, AfterRm, MainInv, StepInv, Unwinding, Steps,
             mainVars, ctxVars, stepVars, dockVars, histVars, Goto
<1>1. CASE SetupHome
  BY <1>1 DEF SetupHome
<1>2. CASE SetupHomeFails
  BY <1>2 DEF SetupHomeFails, RunErrors, FailStatus, Terminal, VolumesExplained
<1>3. CASE SetupVolumes
  BY <1>3 DEF SetupVolumes
<1>4. CASE SetupVolumesFails
  BY <1>4 DEF SetupVolumesFails, RunErrors, CtxErrors
<1>5. CASE Launch
  BY <1>5 DEF Launch
<1>6. CASE ReceiveDone
  BY <1>6 DEF ReceiveDone, LastChannel
<1>7. CASE ReceiveCtxDone
  BY <1>7 DEF ReceiveCtxDone, MainSeesCtxDone
<1>8. CASE VerifyImages
  BY <1>8 DEF VerifyImages
<1>9. CASE CancelSteps
  BY <1>9 DEF CancelSteps
<1>10. CASE RemoveContainers
  BY <1>10, <1>b, <1>c DEF RemoveContainers
<1>11. CASE CleanProcesses
  BY <1>11 DEF CleanProcesses
<1>12. CASE CloseVolumes
  BY <1>12, <1>b, <1>c DEF CloseVolumes, InUse, VolumesExplained, Mounts
<1>13. CASE ReturnFromSteps
  BY <1>13 DEF ReturnFromSteps, FailStatus, Terminal
<1>14. CASE PushAll
  BY <1>14 DEF PushAll, RunErrors, FailStatus, Terminal
<1>15. CASE CloseHome
  BY <1>15 DEF CloseHome, VolumesExplained, Mounts
<1>16. ASSUME NEW i \in Steps, StepNext(i) PROVE RestInv'
  <2>1. CASE BeginStep(i)
    BY <2>1 DEF BeginStep
  <2>2. CASE WaitCancelled(i)
    BY <2>2 DEF WaitCancelled
  <2>3. CASE InspectImage(i)
    BY <2>3 DEF InspectImage
  <2>4. CASE InspectCancelled(i)
    BY <2>4 DEF InspectCancelled
  <2>5. CASE PullImage(i)
    BY <2>5 DEF PullImage
  <2>6. CASE RetryPull(i)
    BY <2>6 DEF RetryPull
  <2>7. CASE GiveUpPull(i)
    BY <2>7 DEF GiveUpPull, RunErrors
  <2>8. CASE SpawnClient(i)
    BY <2>8 DEF SpawnClient
  <2>9. CASE PrepareFails(i)
    BY <2>9 DEF PrepareFails, FinishStep, StatusAfter
  <2>10. CASE ClientExits(i)
    BY <2>10 DEF ClientExits, FinishStep, StatusAfter
  <2>11. CASE RunCancelled(i)
    BY <2>11 DEF RunCancelled, FinishStep, StatusAfter, StepCtxErrors, CtxErrors
  <2>12. CASE CloseDone(i)
    BY <2>12 DEF CloseDone
  <2>13. CASE SendError(i)
    BY <2>13 DEF SendError, MainReceives
  <2>14. CASE SendCancelled(i)
    BY <2>14 DEF SendCancelled
  <2> QED  BY <1>16, <2>1, <2>2, <2>3, <2>4, <2>5, <2>6, <2>7, <2>8, <2>9, <2>10, <2>11, <2>12, <2>13, <2>14
           DEF StepNext
<1>17. ASSUME NEW i \in Steps, DockerNext(i) PROVE RestInv'
  <2>1. CASE KillClient(i)
    BY <2>1 DEF KillClient
  <2>2. CASE CreateContainer(i)
    BY <2>2, <1>b, <1>c DEF CreateContainer, VolumesExplained, Mounts
  <2>3. CASE ContainerExits(i)
    BY <2>3 DEF ContainerExits
  <2> QED  BY <1>17, <2>1, <2>2, <2>3 DEF DockerNext
<1>18. CASE DeadlineExpires \/ CallerCancels
  BY <1>18 DEF DeadlineExpires, CallerCancels, Expire
<1>19. CASE HomeMounted
  BY <1>19 DEF HomeMounted, VolumesExplained, Mounts
<1>20. CASE UNCHANGED vars
  BY <1>20 DEF vars
<1> QED  BY <1>1, <1>2, <1>3, <1>4, <1>5, <1>6, <1>7, <1>8, <1>9, <1>10, <1>11, <1>12, <1>13, <1>14, <1>15, <1>16, <1>17, <1>18, <1>19, <1>20
         DEF Next, MainNext, Finished

(***************************************************************************)
(* What Start leaves behind has a docker command that failed, or a late    *)
(* container, for its reason; a DONE build has no container, client or     *)
(* goroutine left.                                                         *)
(***************************************************************************)
THEOREM LeftoversHaveReasons == Spec => []LeftoversExplained
<1>1. Init => RestInv
  BY RequestShape DEF Init, RestInv, AfterRm, Succeeding
<1>2. IInv /\ RestInv /\ [Next]_vars => RestInv'
  BY RestInvStep
<1>3. IInv /\ RestInv => LeftoversExplained
  BY AllClosedAllDead DEF IInv, MainInv, RestInv, Succeeding, VolumesExplained, LeftoversExplained, done
<1> QED  BY <1>1, <1>2, <1>3, InductiveInvariant, PTL DEF Spec
-----------------------------------------------------------------------------
(* Main, and the goroutine of step i, have something to do that nobody     *)
(* else has to do first.                                                   *)
MainCanMove ==
    /\ ~ done
    /\ pc = "select" => k \in closed \/ MainSeesCtxDone

StepCanMove(i) ==
    CASE stepPc[i] = "wait"    -> ReadyToStart(i) \/ stepsErr # "nil"
      [] stepPc[i] = "send"    -> MainReceives(i) \/ SendGivesUp
      [] stepPc[i] = "running" -> StepCtxErrors(i) # {}
      [] OTHER -> stepPc[i] \in {"inspect", "pull", "prepare", "close"}

(***************************************************************************)
(* Nobody waits for somebody who waits too.  While main listens to the     *)
(* steps it can go on, or one of them can, or has a container to wait for; *)
(* once it listens no longer, and has cancelled their context, each of     *)
(* them can go on without it up to its end.                                *)
(***************************************************************************)
NobodyStuck ==
    /\ pc = "select" =>
          MainCanMove \/ \E i \in Steps : StepCanMove(i) \/ stepPc[i] = "running"
    /\ pc \notin {"select", "cancel"} =>
          \A i \in Steps : stepPc[i] \in {"none", "exit"} \/ StepCanMove(i)

(* Of the goroutines and the contexts, that an end without a closed        *)
(* channel comes with a context that is done, or with an error that main   *)
(* has received.                                                           *)
EndInv ==
    /\ \A i \in Steps : i \in closed => stepPc[i] = "exit"
    /\ pc = "select" =>
          \A i \in Steps : /\ stepPc[i] # "none"
                           /\ stepPc[i] = "exit" => i \in closed \/ stepsErr # "nil"
    /\ pc \in {"rm", "clean"} => stepsErr # "nil"
    /\ pc \in {"closeVolumes", "return", "push", "closeHome", "end"} =>
          stepsErr # "nil" \/ \A i \in Steps : stepPc[i] = "none"

(* Every step of main, of a goroutine, of a context or of docker keeps it. *)
LEMMA EndInvStep ==
    ASSUME IInv, EndInv, [Next]_vars
    PROVE  EndInv'
<1> USE DEF IInv, TypeOK, EndInv, MainInv, StepInv, Steps, mainVars, ctxVars, stepVars, dockVars, histVars, Goto
<1>1. CASE SetupHome
  BY <1>1 DEF SetupHome
<1>2. CASE SetupHomeFails
  BY <1>2 DEF SetupHomeFails, RunErrors, FailStatus, Terminal
<1>3. CASE SetupVolumes
  BY <1>3 DEF SetupVolumes
<1>4. CASE SetupVolumesFails
  BY <1>4 DEF SetupVolumesFails, RunErrors, CtxErrors
<1>5. CASE Launch
  BY <1>5 DEF Launch
<1>6. CASE ReceiveDone
  BY <1>6 DEF ReceiveDone, LastChannel
<1>7. CASE ReceiveCtxDone
  BY <1>7 DEF ReceiveCtxDone, MainSeesCtxDone
<1>8. CASE VerifyImages
  BY <1>8 DEF VerifyImages
<1>9. CASE CancelSteps
  BY <1>9 DEF CancelSteps
<1>10. CASE RemoveContainers
  BY <1>10 DEF RemoveContainers
<1>11. CASE CleanProcesses
  BY <1>11 DEF CleanProcesses
<1>12. CASE CloseVolumes
  BY <1>12 DEF CloseVolumes
<1>13. CASE ReturnFromSteps
  BY <1>13 DEF ReturnFromSteps, FailStatus, Terminal
<1>14. CASE PushAll
  BY <1>14 DEF PushAll, RunErrors, FailStatus, Terminal
<1>15. CASE CloseHome
  BY <1>15 DEF CloseHome
<1>16. ASSUME NEW i \in Steps, StepNext(i) PROVE EndInv'
  <2>1. CASE BeginStep(i)
    BY <2>1 DEF BeginStep
  <2>2. CASE WaitCancelled(i)
    BY <2>2 DEF WaitCancelled
  <2>3. CASE InspectImage(i)
    BY <2>3 DEF InspectImage
  <2>4. CASE InspectCancelled(i)
    BY <2>4 DEF InspectCancelled
  <2>5. CASE PullImage(i)
    BY <2>5 DEF PullImage
  <2>6. CASE RetryPull(i)
    BY <2>6 DEF RetryPull
  <2>7. CASE GiveUpPull(i)
    BY <2>7 DEF GiveUpPull, RunErrors
  <2>8. CASE SpawnClient(i)
    BY <2>8 DEF SpawnClient
  <2>9. CASE PrepareFails(i)
    BY <2>9 DEF PrepareFails, FinishStep, StatusAfter
  <2>10. CASE ClientExits(i)
    BY <2>10 DEF ClientExits, FinishStep, StatusAfter
  <2>11. CASE RunCancelled(i)
    BY <2>11 DEF RunCancelled, FinishStep, StatusAfter, StepCtxErrors, CtxErrors
  <2>12. CASE CloseDone(i)
    BY <2>12 DEF CloseDone
  <2>13. CASE SendError(i)
    BY <2>13 DEF SendError, MainReceives
  <2>14. CASE SendCancelled(i)
    BY <2>14 DEF SendCancelled, SendGivesUp
  <2> QED  BY <1>16, <2>1, <2>2, <2>3, <2>4, <2>5, <2>6, <2>7, <2>8, <2>9, <2>10, <2>11, <2>12, <2>13, <2>14
           DEF StepNext
<1>17. ASSUME NEW i \in Steps, DockerNext(i) PROVE EndInv'
  <2>1. CASE KillClient(i)
    BY <2>1 DEF KillClient
  <2>2. CASE CreateContainer(i)
    BY <2>2 DEF CreateContainer
  <2>3. CASE ContainerExits(i)
    BY <2>3 DEF ContainerExits
  <2> QED  BY <1>17, <2>1, <2>2, <2>3 DEF DockerNext
<1>18. CASE DeadlineExpires \/ CallerCancels \/ HomeMounted
  BY <1>18 DEF DeadlineExpires, CallerCancels, Expire, HomeMounted
<1>19. CASE UNCHANGED vars
  BY <1>19 DEF vars
<1> QED  BY <1>1, <1>2, <1>3, <1>4, <1>5, <1>6, <1>7, <1>8, <1>9, <1>10, <1>11, <1>12, <1>13, <1>14, <1>15, <1>16, <1>17, <1>18, <1>19
         DEF Next, MainNext, Finished

(* A step waits for channels of earlier steps only: ids are new.           *)
LEMMA WaitsAreEarlier ==
    ASSUME req \in Requests, NEW i \in Steps
    PROVE  \A j \in WaitChans(req.steps, i) : j \in Steps /\ j < i
<1> DEFINE s == req.steps
<1>1. Steps = 1 .. Len(s) /\ Len(s) \in Nat /\ i \in Nat /\ DOMAIN s = Steps
  BY RequestShape DEF Steps
<1>2. \A j \in Steps : DepsDefined(s, j) /\ IdIsNew(s, j)
  BY <1>1, RequestsAssumption DEF ValidGraph
<1> HIDE DEF s
<1>3. ASSUME NEW j \in NamedBy(s, i) PROVE j \in Steps /\ j < i
  <2>1. j \in Steps /\ s[j].id # NoId /\ s[j].id \in s[i].waitFor \ {StartStep}
    BY <1>1 DEF NamedBy
  <2>2. s[j].id \in IdsBefore(s, i)
    BY <1>2, <2>1 DEF DepsDefined, KnownSteps
  <2>3. PICK l \in 1 .. (i - 1) : s[l].id = s[j].id
    BY <2>2 DEF IdsBefore
  <2>4. \A m \in 1 .. (j - 1) : s[m].id # s[j].id
    BY <1>2, <2>1 DEF IdIsNew, KnownSteps, IdsBefore
  <2>5. j \in Nat /\ l \in Nat /\ 1 =< l /\ l < i
    BY <1>1, <2>1
  <2> QED  BY <1>1, <2>1, <2>3, <2>4, <2>5
<1>4. CASE s[i].waitFor = {}
  BY <1>1, <1>4 DEF WaitChans, s
<1>5. CASE s[i].waitFor # {}
  BY <1>3, <1>5 DEF WaitChans, s
<1> QED  BY <1>4, <1>5

(* A set of steps has a first one. *)
LEMMA FirstStep ==
    ASSUME req \in Requests, NEW T \in SUBSET Steps, T # {}
    PROVE  \E i \in T : \A j \in T : ~ j < i
<1> DEFINE R == OpToRel(<, Nat)
<1>1. \A x, y \in Nat : x < y => <<x, y>> \in R  BY DEF OpToRel
<1>2. IsWellFoundedOn(R, Nat)  BY NatLessThanWellFounded
<1>3. \A j \in T : j \in Nat  BY RequestShape
<1> HIDE DEF R
<1>4. PICK i \in T : \A j \in T : ~ (<<j, i>> \in R)
  BY <1>2, <1>3, WFMin
<1> QED  BY <1>1, <1>3, <1>4

(***************************************************************************)
(* The executor never deadlocks, for any valid graph of any number of      *)
(* steps: wait_for admits no cycle, no error is sent to a main that has    *)
(* gone, and nobody waits for a channel that will not be closed without    *)
(* looking at its context too.                                             *)
(***************************************************************************)
THEOREM NobodyIsStuck == Spec => []NobodyStuck
<1>1. Init => EndInv
  BY RequestShape DEF Init, EndInv
<1>2. IInv /\ EndInv /\ [Next]_vars => EndInv'
  BY EndInvStep
<1>3. ASSUME IInv, EndInv PROVE NobodyStuck
  <2>1. ASSUME pc = "select", ~ MainCanMove, \A i \in Steps : stepPc[i] # "running"
        PROVE  \E i \in Steps : StepCanMove(i)
    <3> DEFINE Waiting == {i \in Steps : stepPc[i] = "wait"}
    <3>1. req \in Requests /\ k \in Steps /\ k \notin closed /\ stepsErr = "nil"
      BY <1>3, <2>1 DEF IInv, TypeOK, MainCanMove, MainSeesCtxDone, done
    <3>2. \A i \in Steps : /\ stepPc[i] # "none"
                           /\ stepPc[i] = "exit" => i \in closed
      BY <1>3, <2>1, <3>1 DEF EndInv
    <3>3. SUFFICES ASSUME \A i \in Steps : ~ StepCanMove(i) PROVE FALSE
      OBVIOUS
    <3>4. \A i \in Steps : stepPc[i] \in {"wait", "exit"}
      BY <1>3, <2>1, <3>2, <3>3 DEF StepCanMove, MainReceives, IInv, TypeOK
    <3>5. k \in Waiting  BY <3>1, <3>2, <3>4
    <3>6. PICK i \in Waiting : \A j \in Waiting : ~ j < i
      <4> HIDE DEF Waiting
      <4>1. Waiting \in SUBSET Steps  BY DEF Waiting
      <4> QED  BY <3>1, <3>5, <4>1, FirstStep
    <3>7. \A j \in WaitChans(req.steps, i) : j \in closed
      BY <3>1, <3>2, <3>4, <3>6, WaitsAreEarlier
    <3>8. StepCanMove(i)
      BY <3>6, <3>7 DEF StepCanMove, ReadyToStart
    <3> QED  BY <3>3, <3>6, <3>8
  <2>2. ASSUME pc \notin {"select", "cancel"}, NEW i \in Steps
        PROVE  stepPc[i] \in {"none", "exit"} \/ StepCanMove(i)
    <3>1. stepPc[i] = "none" \/ stepPc[i] = "exit" \/ stepsErr # "nil"
      BY <1>3, <2>2 DEF IInv, TypeOK, MainInv, EndInv
    <3>2. stepsErr # "nil" => stepPc[i] \in {"none", "exit"} \/ StepCanMove(i)
      BY <1>3 DEF IInv, TypeOK, StepCanMove, SendGivesUp, StepCtxErrors
    <3> QED  BY <3>1, <3>2
  <2> QED  BY <2>1, <2>2 DEF NobodyStuck
<1> QED  BY <1>1, <1>2, <1>3, InductiveInvariant, PTL DEF Spec
=============================================================================
