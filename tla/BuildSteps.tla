----------------------------- MODULE BuildSteps -----------------------------
(***************************************************************************)
(* Build.Start and everything below it that runs the steps of a request:   *)
(* the goroutine of Start / runBuildSteps ("main"), one goroutine per step *)
(* (timeAndRunStep), the docker clients the runner starts, the containers  *)
(* of the docker daemon and the docker volumes.                            *)
(*                                                                         *)
(* Two contexts are modelled by their errors: ctxErr is that of the build  *)
(* (deadline from the request's timeout, or a cancel from the caller),     *)
(* stepsErr that of its child, which runBuildSteps cancels on its way out. *)
(*                                                                         *)
(* The request has passed the validator, so the error returns that the     *)
(* code marks as unreachable after validation (a duration that does not    *)
(* parse, a wait_for entry without a channel) are left out;                *)
(* CheckBuildSteps shows the second of them to be unreachable.             *)
(***************************************************************************)
EXTENDS StepGraph

CONSTANTS
    Requests,     \* the validated requests the builder may be given
    MaxRetries,   \* maxPushRetries: pulls are retried this many times
    MayCancel     \* whether the caller of Start may cancel its context

HomeVolume == "homevol"

Request == [steps : Seq(Step), timeout : Int \cup {NoTimeout},
            volumes : SUBSET STRING, push : BOOLEAN, images : BOOLEAN]

ASSUME RequestsAssumption ==
    /\ Requests \subseteq Request
    /\ \A r \in Requests : r.steps # <<>> /\ ValidGraph(r.steps)
ASSUME MaxRetriesAssumption == MaxRetries \in Nat
ASSUME MayCancelAssumption == MayCancel \in BOOLEAN

VARIABLES
    req,         \* b.Request
    pc,          \* where main is in Start and runBuildSteps
    k,           \* main's index into finishedChannels
    result,      \* the error main is returning, "nil" if none
    culprit,     \* the step whose error main received, 0 if none
    status,      \* b.status
    ctxErr,      \* Err() of the build's context
    stepsErr,    \* Err() of the context the steps run under
    stepPc,      \* where the goroutine of each step is
    stepStatus,  \* b.stepStatus
    stepErr,     \* err of timeAndRunStep
    attempt,     \* attempt of dockerPullWithRetries
    closed,      \* the steps whose finished channel is closed
    cli,         \* the process of each step's "docker run": none, alive, dead
    ctr,         \* each step's container
    vols,        \* the docker volumes that exist
    deferred,    \* the volumes runBuildSteps has deferred a Close for
    stray,       \* history: the volumes a failed docker volume command has left
    late         \* history: the steps whose container was there after docker rm

mainVars == <<pc, k, result, culprit, status>>
ctxVars  == <<ctxErr, stepsErr>>
stepVars == <<stepPc, stepStatus, stepErr, attempt, closed>>
histVars == <<stray, late>>
dockVars == <<cli, ctr, vols, histVars>>
vars == <<req, mainVars, ctxVars, stepVars, dockVars, deferred>>

Steps == DOMAIN req.steps

(* b.Done is closed by the last deferred call of Start. *)
done == pc = "end"

(* Once docker rm has run, a container is one it has missed. *)
AfterRm == {"clean", "closeVolumes", "return", "push", "closeHome", "end"}

HasDeadline == req.timeout # NoTimeout

(* runStep gives a step a context of its own unless its timeout is zero. *)
HasTimeout(i) == req.steps[i].timeout \notin {NoTimeout, 0}

StepVolumes == UNION {req.steps[i].volumes : i \in Steps}

AllVolumes_OptionsOnly == req.volumes

(* allVolumes of runBuildSteps, and what the container of step i mounts. *)
AllVolumes == req.volumes \cup StepVolumes

Mounts(i) == {HomeVolume} \cup req.volumes \cup req.steps[i].volumes

CtxErrors == {"nil", "deadline", "canceled"}
Terminal == {"DONE", "ERROR", "TIMEOUT", "CANCELLED"}

(* FailBuild: only a bare context error is a timeout or a cancellation. *)
FailStatus(e) == CASE e = "deadline" -> "TIMEOUT"
                   [] e = "canceled" -> "CANCELLED"
                   [] OTHER -> "ERROR"

(* What a command run under a context with error c may fail with. *)
RunErrors(c, other) == {other} \cup ({c} \ {"nil"})

Init ==
    /\ req \in Requests
    /\ pc = "start"
    /\ k = 1
    /\ result = "nil"
    /\ culprit = 0
    /\ status = "NEW"
    /\ ctxErr = "nil"
    /\ stepsErr = "nil"
    /\ stepPc = [i \in Steps |-> "none"]
    /\ stepStatus = [i \in Steps |-> "QUEUED"]
    /\ stepErr = [i \in Steps |-> "nil"]
    /\ attempt = [i \in Steps |-> 0]
    /\ closed = {}
    /\ cli = [i \in Steps |-> "none"]
    /\ ctr = [i \in Steps |-> "none"]
    /\ vols = {HomeVolume}   \* made when the docker credentials were set
    /\ deferred = {}
    /\ stray = {}
    /\ late = {}
-----------------------------------------------------------------------------
(* The two contexts. *)

Expire(e) ==
    /\ ctxErr = "nil"
    /\ ctxErr' = e
    /\ stepsErr' = IF stepsErr = "nil" THEN e ELSE stepsErr
    /\ UNCHANGED <<req, mainVars, stepVars, dockVars, deferred>>

(* The deadline is set once the home volume is there. *)
DeadlineExpires == HasDeadline /\ pc \notin {"start", "end"} /\ Expire("deadline")

CallerCancels == MayCancel /\ pc # "end" /\ Expire("canceled")
-----------------------------------------------------------------------------
(* Start and runBuildSteps, up to the goroutines of the steps. *)

SetupHome ==
    /\ pc = "start"
    /\ vols' = vols \cup {HomeVolume}
    /\ status' = "BUILD"
    /\ pc' = "volumes"
    /\ UNCHANGED <<req, k, result, culprit, ctxVars, stepVars, cli, ctr,
                   histVars, deferred>>

(* The volume may have been made although the command failed; no Close has *)
(* been deferred for it.                                                   *)
SetupHomeFails ==
    /\ pc = "start"
    /\ \E e \in RunErrors(ctxErr, "docker") :
          /\ result' = e
          /\ status' = FailStatus(e)
    /\ vols' \in {vols, vols \cup {HomeVolume}}
    /\ pc' = "end"
    /\ UNCHANGED <<req, k, culprit, ctxVars, stepVars, cli, ctr, histVars,
                   deferred>>

SetupVolumes ==
    /\ pc = "volumes"
    /\ vols' = vols \cup AllVolumes
    /\ deferred' = AllVolumes
    /\ pc' = "launch"
    /\ UNCHANGED <<req, k, result, culprit, status, ctxVars, stepVars,
                   cli, ctr, histVars>>

(* Setup of v fails after that of some others; those are closed again, but *)
(* v is not, should it have been made all the same.                        *)
SetupVolumesFails ==
    /\ pc = "volumes"
    /\ \E v \in AllVolumes : \E made \in SUBSET (AllVolumes \ {v}) :
          /\ deferred' = made
          /\ stray' \in {{}, {v}}
          /\ vols' = vols \cup made \cup stray'
    /\ result' \in RunErrors(ctxErr, "docker")
    /\ pc' = "closeVolumes"
    /\ UNCHANGED <<req, k, culprit, status, ctxVars, stepVars, cli, ctr,
                   late>>

(* The goroutines of the steps share nothing with main until it selects, so *)
(* starting them one by one is no different from starting them at once.     *)
Launch ==
    /\ pc = "launch"
    /\ stepPc' = [i \in Steps |-> "wait"]
    /\ pc' = "select"
    /\ UNCHANGED <<req, k, result, culprit, status, ctxVars, stepStatus,
                   stepErr, attempt, closed, dockVars, deferred>>
-----------------------------------------------------------------------------
(* The goroutine of step i: timeAndRunStep, fetchBuilder, runStep.         *)

Goto(i, l) == stepPc' = [stepPc EXCEPT ![i] = l]

ReadyToStart_AnyOutcome(i) ==
    \A j \in WaitChans(req.steps, i) : stepPc[j] = "exit"

ReadyToStart(i) == WaitChans(req.steps, i) \subseteq closed

BeginStep(i) ==
    /\ stepPc[i] = "wait"
    /\ ReadyToStart(i)
    /\ stepStatus' = [stepStatus EXCEPT ![i] = "WORKING"]
    /\ Goto(i, "inspect")
    /\ UNCHANGED <<req, mainVars, ctxVars, stepErr, attempt, closed, dockVars, deferred>>

WaitCancelled_Marks(i) ==
    /\ stepPc[i] = "wait"
    /\ WaitChans(req.steps, i) # {}
    /\ stepsErr # "nil"
    /\ stepStatus' = [stepStatus EXCEPT ![i] = "CANCELLED"]
    /\ Goto(i, "exit")
    /\ UNCHANGED <<req, mainVars, ctxVars, stepErr, attempt, closed, dockVars, deferred>>

(* Each receive of the wait loop is a select with ctx.Done(), which may win *)
(* even when the channel is closed too; without channels there is no check. *)
WaitCancelled(i) ==
    /\ stepPc[i] = "wait"
    /\ WaitChans(req.steps, i) # {}
    /\ stepsErr # "nil"
    /\ Goto(i, "exit")
    /\ UNCHANGED <<req, mainVars, ctxVars, stepStatus, stepErr, attempt, closed,
                   dockVars, deferred>>

(* fetchBuilder: docker inspect finds the image or not, ... *)
InspectImage(i) ==
    /\ stepPc[i] = "inspect"
    /\ Goto(i, "prepare") \/ Goto(i, "pull")
    /\ UNCHANGED <<req, mainVars, ctxVars, stepStatus, stepErr, attempt, closed,
                   dockVars, deferred>>

(* ... or is given up with the context.  The step's status stays WORKING.  *)
InspectCancelled(i) ==
    /\ stepPc[i] = "inspect"
    /\ stepsErr # "nil"
    /\ stepErr' = [stepErr EXCEPT ![i] = stepsErr]
    /\ Goto(i, "send")
    /\ UNCHANGED <<req, mainVars, ctxVars, stepStatus, attempt, closed, dockVars,
                   deferred>>

PullImage(i) ==
    /\ stepPc[i] = "pull"
    /\ Goto(i, "prepare")
    /\ UNCHANGED <<req, mainVars, ctxVars, stepStatus, stepErr, attempt, closed,
                   dockVars, deferred>>

MayRetry_OneMore(i) == attempt[i] <= MaxRetries

MayRetry(i) == attempt[i] < MaxRetries

(* Every failure is retried, those the context causes included. *)
RetryPull(i) ==
    /\ stepPc[i] = "pull"
    /\ MayRetry(i)
    /\ attempt' = [attempt EXCEPT ![i] = @ + 1]
    /\ UNCHANGED <<req, mainVars, ctxVars, stepPc, stepStatus, stepErr, closed,
                   dockVars, deferred>>

GiveUpPull(i) ==
    /\ stepPc[i] = "pull"
    /\ ~ MayRetry(i)
    /\ \E e \in RunErrors(stepsErr, "pull") : stepErr' = [stepErr EXCEPT ![i] = e]
    /\ Goto(i, "send")
    /\ UNCHANGED <<req, mainVars, ctxVars, stepStatus, attempt, closed, dockVars,
                   deferred>>

(* runStep up to cmd.Start(): no look at the context. *)
SpawnClient(i) ==
    /\ stepPc[i] = "prepare"
    /\ cli' = [cli EXCEPT ![i] = "alive"]
    /\ Goto(i, "running")
    /\ UNCHANGED <<req, mainVars, ctxVars, stepStatus, stepErr, attempt, closed,
                   ctr, vols, histVars, deferred>>

(* The status switch after runStep returned e.  After a build deadline a   *)
(* step with a timeout is TIMEOUT if its own time, pull included, is up.   *)
StatusAfter(i, e) ==
    CASE e = "nil" -> {"SUCCESS"}
      [] e = "deadline" -> IF ~ HasTimeout(i) THEN {"WORKING"}
                           ELSE IF stepsErr = "deadline" THEN {"WORKING", "TIMEOUT"}
                           ELSE {"TIMEOUT"}
      [] e = "canceled" -> {"CANCELLED"}
      [] OTHER -> {"FAILURE"}

FinishStep(i, e) ==
    /\ stepErr' = [stepErr EXCEPT ![i] = e]
    /\ \E s \in StatusAfter(i, e) : stepStatus' = [stepStatus EXCEPT ![i] = s]
    /\ Goto(i, IF e = "nil" THEN "close" ELSE "send")
    /\ UNCHANGED <<req, mainVars, ctxVars, attempt, closed, deferred>>

(* The output directory, the environment, its secrets or the exec failed. *)
PrepareFails(i) ==
    /\ stepPc[i] = "prepare"
    /\ FinishStep(i, "prepare")
    /\ UNCHANGED dockVars

(* The docker client exits: with the exit of the container, without ever   *)
(* having made one, or killed.  Capturing the step's output may then fail  *)
(* a step that succeeded.                                                  *)
ClientExits(i) ==
    /\ stepPc[i] = "running"
    /\ cli[i] = "dead" \/ ctr[i] # "running"
    /\ \E e \in IF cli[i] = "alive" /\ ctr[i] = "ok" THEN {"nil", "output"} ELSE {"exit"} :
          FinishStep(i, e)
    /\ cli' = [cli EXCEPT ![i] = "dead"]
    /\ UNCHANGED <<ctr, vols, histVars>>

(* The errors the context of step i's command may have by now. *)
StepCtxErrors(i) ==
    ({stepsErr} \ {"nil"}) \cup (IF HasTimeout(i) THEN {"deadline"} ELSE {})

(* Runner.Run returns when the context is done and leaves the client to a  *)
(* goroutine that kills it some time later.                                *)
RunCancelled(i) ==
    /\ stepPc[i] = "running"
    /\ \E e \in StepCtxErrors(i) : FinishStep(i, e)
    /\ UNCHANGED dockVars

KillClient(i) ==
    /\ cli[i] = "alive"
    /\ stepPc[i] # "running"
    /\ cli' = [cli EXCEPT ![i] = "dead"]
    /\ UNCHANGED <<req, mainVars, ctxVars, stepVars, ctr, vols, histVars,
                   deferred>>

CloseDone(i) ==
    /\ stepPc[i] = "close"
    /\ closed' = closed \cup {i}
    /\ Goto(i, "exit")
    /\ UNCHANGED <<req, mainVars, ctxVars, stepStatus, stepErr, attempt, dockVars,
                   deferred>>

MainReceives_Draining(i) == pc \in {"select", "cancel", "rm", "clean"}
MainReceives_InOrder(i) == pc = "select" /\ i = k

MainReceives(i) == pc = "select"

(* errors is unbuffered: the send is a rendezvous with main's select ... *)
SendError(i) ==
    /\ stepPc[i] = "send"
    /\ MainReceives(i)
    /\ result' = "step"
    /\ culprit' = i
    /\ pc' = "cancel"
    /\ Goto(i, "exit")
    /\ UNCHANGED <<req, k, status, ctxVars, stepStatus, stepErr, attempt,
                   closed, dockVars, deferred>>

SendGivesUp_Never == FALSE

SendGivesUp == stepsErr # "nil"

(* ... or is given up when the context is done. *)
SendCancelled(i) ==
    /\ stepPc[i] = "send"
    /\ SendGivesUp
    /\ Goto(i, "exit")
    /\ UNCHANGED <<req, mainVars, ctxVars, stepStatus, stepErr, attempt, closed,
                   dockVars, deferred>>
-----------------------------------------------------------------------------
(* The docker daemon.  A container's volumes are made if they are missing, *)
(* and it is removed when it exits (--rm).  It outlives its client.        *)

CreateContainer(i) ==
    /\ cli[i] = "alive"
    /\ ctr[i] = "none"
    /\ ctr' = [ctr EXCEPT ![i] = "running"]
    /\ vols' = vols \cup Mounts(i)
    /\ late' = IF pc \in AfterRm THEN late \cup {i} ELSE late
    /\ UNCHANGED <<req, mainVars, ctxVars, stepVars, cli, stray, deferred>>

ContainerExits(i) ==
    /\ ctr[i] = "running"
    /\ \E c \in {"ok", "failed"} : ctr' = [ctr EXCEPT ![i] = c]
    /\ UNCHANGED <<req, mainVars, ctxVars, stepVars, cli, vols, histVars,
                   deferred>>

(* The refresh goroutine of the local builder updates the docker           *)
(* credentials in the home volume until after Done, and a pull or push that *)
(* was given up with its context may have left its container behind; these *)
(* mount the home volume at any time.                                      *)
HomeMounted ==
    /\ HomeVolume \notin vols
    /\ vols' = vols \cup {HomeVolume}
    /\ UNCHANGED <<req, mainVars, ctxVars, stepVars, cli, ctr, histVars, deferred>>
-----------------------------------------------------------------------------
(* Main again: the loop over finishedChannels, one select per channel.     *)

LastChannel_OffByOne == k + 1 >= Len(req.steps)

LastChannel == k >= Len(req.steps)

ReceiveDone ==
    /\ pc = "select"
    /\ k \in closed
    /\ IF LastChannel
         THEN pc' = "images" /\ UNCHANGED k
         ELSE k' = k + 1 /\ UNCHANGED pc
    /\ UNCHANGED <<req, result, culprit, status, ctxVars, stepVars, dockVars,
                   deferred>>

MainSeesCtxDone_Never == FALSE

MainSeesCtxDone == stepsErr # "nil"

ReceiveCtxDone ==
    /\ pc = "select"
    /\ MainSeesCtxDone
    /\ result' = stepsErr
    /\ pc' = "cancel"
    /\ UNCHANGED <<req, k, culprit, status, ctxVars, stepVars, dockVars,
                   deferred>>

(* Are the images there?  An error of "docker images", that of the context *)
(* included, counts as a missing image.                                    *)
VerifyImages ==
    /\ pc = "images"
    /\ result' \in (IF req.images THEN {"nil", "images"} ELSE {"nil"})
    /\ pc' = "cancel"
    /\ UNCHANGED <<req, k, culprit, status, ctxVars, stepVars, dockVars,
                   deferred>>

(* The deferred calls of runBuildSteps, last one first: cancel the steps'  *)
(* context, ...                                                            *)
CancelSteps ==
    /\ pc = "cancel"
    /\ stepsErr' = IF stepsErr = "nil" THEN "canceled" ELSE stepsErr
    /\ pc' = "rm"
    /\ UNCHANGED <<req, k, result, culprit, status, ctxErr, stepVars,
                   dockVars, deferred>>

(* ... cleanBuildSteps: docker rm -f step_0 step_1 ..., whose errors are   *)
(* dropped, ...                                                            *)
RemoveContainers ==
    /\ pc = "rm"
    /\ late' \in SUBSET {i \in Steps : ctr[i] = "running"}
    /\ ctr' = [i \in Steps |-> IF ctr[i] = "running" /\ i \notin late'
                               THEN "removed" ELSE ctr[i]]
    /\ pc' = "clean"
    /\ UNCHANGED <<req, k, result, culprit, status, ctxVars, stepVars, cli,
                   vols, stray, deferred>>

(* ... then Runner.Clean, which kills the clients still registered but     *)
(* returns at the first that is already gone, ...                          *)
CleanProcesses ==
    /\ pc = "clean"
    /\ \E killed \in SUBSET {i \in Steps : stepPc[i] = "running"} :
          cli' = [i \in Steps |-> IF i \in killed THEN "dead" ELSE cli[i]]
    /\ pc' = "closeVolumes"
    /\ UNCHANGED <<req, k, result, culprit, status, ctxVars, stepVars, ctr,
                   vols, histVars, deferred>>

InUse(v) == \E i \in Steps : ctr[i] = "running" /\ v \in Mounts(i)

(* ... and the volumes.  "docker volume rm" is refused while a container   *)
(* uses the volume and may fail of itself; both are only logged.           *)
CloseVolumes ==
    /\ pc = "closeVolumes"
    /\ \E removed \in SUBSET {v \in deferred : ~ InUse(v)} :
          /\ vols' = vols \ removed
          /\ stray' = stray \cup {v \in deferred \ removed : ~ InUse(v)}
    /\ pc' = "return"
    /\ UNCHANGED <<req, k, result, culprit, status, ctxVars, stepVars, cli,
                   ctr, late, deferred>>

(* Back in Start. *)
ReturnFromSteps ==
    /\ pc = "return"
    /\ status' = IF result # "nil" THEN FailStatus(result)
                 ELSE IF req.push THEN "PUSH" ELSE "DONE"
    /\ pc' = IF result = "nil" /\ req.push THEN "push" ELSE "closeHome"
    /\ UNCHANGED <<req, k, result, culprit, ctxVars, stepVars, dockVars,
                   deferred>>

PushAll ==
    /\ pc = "push"
    /\ \E e \in {"nil"} \cup RunErrors(ctxErr, "push") :
          /\ result' = e
          /\ status' = IF e = "nil" THEN "DONE" ELSE FailStatus(e)
    /\ pc' = "closeHome"
    /\ UNCHANGED <<req, k, culprit, ctxVars, stepVars, dockVars, deferred>>

(* The deferred homeVol.Close, whose failure is only logged too, then      *)
(* close(b.Done).                                                          *)
CloseHome ==
    /\ pc = "closeHome"
    /\ \/ vols' = vols \ {HomeVolume} /\ ~ InUse(HomeVolume)
       \/ UNCHANGED vols
    /\ pc' = "end"
    /\ UNCHANGED <<req, k, result, culprit, status, ctxVars, stepVars, cli, ctr,
                   histVars, deferred>>
-----------------------------------------------------------------------------
MainNext ==
    \/ SetupHome \/ SetupHomeFails \/ SetupVolumes \/ SetupVolumesFails
    \/ Launch \/ ReceiveDone \/ ReceiveCtxDone \/ VerifyImages \/ CancelSteps
    \/ RemoveContainers \/ CleanProcesses \/ CloseVolumes \/ ReturnFromSteps
    \/ PushAll \/ CloseHome

StepNext(i) ==
    \/ BeginStep(i) \/ WaitCancelled(i) \/ InspectImage(i) \/ InspectCancelled(i)
    \/ PullImage(i) \/ RetryPull(i) \/ GiveUpPull(i) \/ SpawnClient(i)
    \/ PrepareFails(i) \/ ClientExits(i) \/ RunCancelled(i) \/ CloseDone(i)
    \/ SendError(i) \/ SendCancelled(i)

DockerNext(i) == KillClient(i) \/ CreateContainer(i) \/ ContainerExits(i)

(* The process has nothing left to do, so that any other stop is a deadlock. *)
Finished ==
    /\ pc = "end"
    /\ \A i \in Steps : /\ stepPc[i] \in {"none", "exit"}
                        /\ cli[i] # "alive"
                        /\ ctr[i] # "running"
    /\ UNCHANGED vars

Next ==
    \/ DeadlineExpires
    \/ CallerCancels
    \/ MainNext
    \/ \E i \in Steps : StepNext(i) \/ DockerNext(i)
    \/ HomeMounted
    \/ Finished

Spec == Init /\ [][Next]_vars
-----------------------------------------------------------------------------
TypeOK ==
    /\ req \in Requests
    /\ pc \in {"start", "volumes", "launch", "select", "images", "cancel", "rm",
               "clean", "closeVolumes", "return", "push", "closeHome", "end"}
    /\ k \in Steps
    /\ result \in CtxErrors \cup {"step", "images", "docker", "push"}
    /\ culprit \in Steps \cup {0}
    /\ status \in {"NEW", "BUILD", "PUSH"} \cup Terminal
    /\ ctxErr \in CtxErrors
    /\ stepsErr \in CtxErrors
    /\ stepPc \in [Steps -> {"none", "wait", "inspect", "pull", "prepare",
                             "running", "close", "send", "exit"}]
    /\ stepStatus \in [Steps -> {"QUEUED", "WORKING", "SUCCESS", "FAILURE",
                                 "TIMEOUT", "CANCELLED"}]
    /\ stepErr \in [Steps -> CtxErrors \cup {"pull", "prepare", "exit", "output"}]
    /\ attempt \in [Steps -> 0 .. MaxRetries]
    /\ closed \in SUBSET Steps
    /\ cli \in [Steps -> {"none", "alive", "dead"}]
    /\ ctr \in [Steps -> {"none", "running", "ok", "failed", "removed"}]
    /\ vols \in SUBSET ({HomeVolume} \cup AllVolumes)
    /\ deferred \in SUBSET AllVolumes
    /\ stray \in SUBSET AllVolumes
    /\ late \in SUBSET Steps

(***************************************************************************)
(* A step has a container only if the containers of all the steps it waits *)
(* for have exited with success: timeAndRunStep waits for their channels,  *)
(* and "a step is only done if it executes successfully".                  *)
(***************************************************************************)
DepsRespected ==
    \A i \in Steps : ctr[i] # "none" =>
        \A j \in WaitChans(req.steps, i) : ctr[j] = "ok" /\ stepStatus[j] = "SUCCESS"

(***************************************************************************)
(* Start pushes, or reports DONE, only when each step has run to success,  *)
(* whatever was racing with main's selects.                                *)
(***************************************************************************)
PushOnlyIfBuilt ==
    status \in {"PUSH", "DONE"} =>
        \A i \in Steps : stepStatus[i] = "SUCCESS" /\ ctr[i] = "ok"

(***************************************************************************)
(* A volume of the request outlives Start only if a docker volume command  *)
(* has failed on it, or if the container of a step that mounts it outlived *)
(* docker rm or came up after it: "Clean the build steps before trying to  *)
(* delete the volume used by the running containers".  A build that is     *)
(* DONE, though its context may be done too, has no such container, and    *)
(* neither a docker client nor a goroutine of a step.                      *)
(***************************************************************************)
LeftoversExplained ==
    done =>
        /\ vols \ {HomeVolume} \subseteq stray \cup UNION {Mounts(i) : i \in late}
        /\ status = "DONE" =>
              /\ late = {}
              /\ \A i \in Steps : /\ cli[i] = "dead"
                                  /\ ctr[i] = "ok"
                                  /\ stepPc[i] = "exit"

(***************************************************************************)
(* The step whose error main reports is one that failed by itself: it was  *)
(* neither cancelled nor killed in the course of cleaning up after another *)
(* step.                                                                   *)
(***************************************************************************)
ReportsRootCause ==
    culprit # 0 =>
        /\ stepErr[culprit] # "nil"
        /\ stepErr[culprit] = "canceled" => ctxErr = "canceled"
        /\ stepErr[culprit] = "exit" => ctr[culprit] \in {"none", "failed"}

(***************************************************************************)
(* The promises of BuildAbs to whoever polls the statuses.                 *)
(***************************************************************************)
Abs == INSTANCE BuildAbs WITH
    Requests <- Requests, req <- req, status <- status, stepStatus <- stepStatus
ImplementsAbs == Abs!Spec

-----------------------------------------------------------------------------
(***************************************************************************)
(* Fairness.  Goroutines are scheduled; docker commands of the builder's   *)
(* own (volume, inspect, pull, rm) end; timers fire.  Nothing is assumed   *)
(* of the containers: a step may run forever.                              *)
(***************************************************************************)
OwnProgress(i) ==
    \/ BeginStep(i) \/ WaitCancelled(i) \/ InspectImage(i) \/ InspectCancelled(i)
    \/ PullImage(i) \/ RetryPull(i) \/ GiveUpPull(i) \/ SpawnClient(i)
    \/ PrepareFails(i) \/ RunCancelled(i) \/ CloseDone(i) \/ SendError(i)
    \/ SendCancelled(i)

StepNumbers == UNION {DOMAIN r.steps : r \in Requests}

Fairness ==
    /\ WF_vars(MainNext)
    /\ WF_vars(DeadlineExpires)
    /\ \A i \in StepNumbers : WF_vars(i \in Steps /\ OwnProgress(i))

FairSpec == Spec /\ Fairness

(***************************************************************************)
(* A build with a timeout ends and closes Done, even if containers hang.   *)
(***************************************************************************)
TimedBuildEnds == HasDeadline ~> done

(***************************************************************************)
(* Once a step has failed the build ends, with or without a timeout: the   *)
(* error is not lost, and no one is left waiting for the step's channel.   *)
(***************************************************************************)
FailureEndsBuild == (\E i \in Steps : stepPc[i] = "send") ~> done

(***************************************************************************)
(* No goroutine of a step is left blocked after the build: "Listen for     *)
(* context cancellation so that the goroutine exits".                      *)
(***************************************************************************)
GoroutinesExit == done ~> (\A i \in Steps : stepPc[i] \in {"none", "exit"})
=============================================================================
