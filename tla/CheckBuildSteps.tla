--------------------------- MODULE CheckBuildSteps ---------------------------
(***************************************************************************)
(* validate.CheckBuild up to its check of the steps, and CheckBuildSteps:  *)
(* the build timeout is read, then one pass over the steps keeps the set   *)
(* of ids seen so far and returns at the first error.                      *)
(*                                                                         *)
(* Each action is one iteration of the loop or one of the early returns.   *)
(* The limits on the lengths of names, arguments and directories, and the  *)
(* form of environment entries, are abstracted to membership in two sets.  *)
(***************************************************************************)
EXTENDS StepGraph

CONSTANTS
    Candidates,     \* the sequences of steps offered to the validator
    BuildTimeouts,  \* the build timeouts offered
    MaxTimeout,     \* validate.MaxTimeout (24h)
    MaxNumSteps,    \* validate.maxNumSteps (100)
    Malformed,      \* steps whose name, args or dir break a limit
    BadEnv          \* steps with an env entry that is not of the form key=value

ASSUME CandidatesAssumption == Candidates \subseteq Seq(Step)
ASSUME LimitsAssumption ==
    /\ MaxTimeout \in Nat \ {0}
    /\ MaxNumSteps \in Nat \ {0}
    /\ BuildTimeouts \subseteq Int \cup {NoTimeout}

VARIABLES
    steps,         \* b.Steps
    timeout,       \* b.Timeout
    pc,            \* "timeout", "steps" or "returned"
    i,             \* the loop index
    knownSteps,    \* the map knownSteps, as the set of its keys
    verdict        \* "none" until an error or "ok" is returned

vars == <<steps, timeout, pc, i, knownSteps, verdict>>

Verdicts == {"none", "ok", "build timeout", "number of steps", "malformed",
             "dependency", "id", "step timeout"}

(* The buildTimeout CheckBuildSteps compares with: zero, which is also what *)
(* a nil timeout becomes, stands for the maximum.                           *)
BuildTimeout == IF timeout \in {NoTimeout, 0} THEN MaxTimeout ELSE timeout

TooManyOrNone == Len(steps) = 0 \/ Len(steps) > MaxNumSteps

BuildTimeoutOutOfRange ==
    timeout # NoTimeout /\ (timeout > MaxTimeout \/ timeout < 0)

StepTimeoutOutOfRange_IgnoresBuild(s) ==
    /\ s.timeout # NoTimeout
    /\ s.timeout > MaxTimeout \/ s.timeout < 0

StepTimeoutOutOfRange(s) ==
    /\ s.timeout # NoTimeout
    /\ s.timeout > MaxTimeout \/ s.timeout > BuildTimeout \/ s.timeout < 0

UnknownDependency_AnyOrder(s) ==
    ~ s.waitFor \subseteq KnownSteps(steps, Len(steps) + 1)

UnknownDependency(s) == ~ s.waitFor \subseteq knownSteps

DuplicateId(s) == s.id # NoId /\ s.id \in knownSteps

Return(v) ==
    /\ verdict' = v
    /\ pc' = "returned"
    /\ UNCHANGED <<steps, timeout, i, knownSteps>>

Init ==
    /\ steps \in Candidates
    /\ timeout \in BuildTimeouts
    /\ pc = "timeout"
    /\ i = 1
    /\ knownSteps = {StartStep}
    /\ verdict = "none"

(* CheckBuild's own test of the build timeout. *)
RejectBuildTimeout ==
    /\ pc = "timeout"
    /\ BuildTimeoutOutOfRange
    /\ Return("build timeout")

(* CheckBuildSteps before its loop. *)
RejectNumber ==
    /\ pc = "timeout"
    /\ ~ BuildTimeoutOutOfRange
    /\ TooManyOrNone
    /\ Return("number of steps")

EnterLoop ==
    /\ pc = "timeout"
    /\ ~ BuildTimeoutOutOfRange
    /\ ~ TooManyOrNone
    /\ pc' = "steps"
    /\ UNCHANGED <<steps, timeout, i, knownSteps, verdict>>

(* The loop body returns the first error it meets, in this order. *)
StepError(s) ==
    IF s \in Malformed THEN "malformed"
    ELSE IF UnknownDependency(s) THEN "dependency"
    ELSE IF DuplicateId(s) THEN "id"
    ELSE IF s \in BadEnv THEN "malformed"
    ELSE IF StepTimeoutOutOfRange(s) THEN "step timeout"
    ELSE "none"

RejectStep ==
    /\ pc = "steps"
    /\ i <= Len(steps)
    /\ StepError(steps[i]) # "none"
    /\ Return(StepError(steps[i]))

AcceptStep_Forgets ==
    /\ pc = "steps"
    /\ i <= Len(steps)
    /\ StepError(steps[i]) = "none"
    /\ knownSteps' = {StartStep} \cup ({steps[i].id} \ {NoId})
    /\ i' = i + 1
    /\ UNCHANGED <<steps, timeout, pc, verdict>>

AcceptStep_SkipsOne ==
    /\ pc = "steps"
    /\ i <= Len(steps)
    /\ StepError(steps[i]) = "none"
    /\ knownSteps' = knownSteps \cup ({steps[i].id} \ {NoId})
    /\ i' = i + 2
    /\ UNCHANGED <<steps, timeout, pc, verdict>>

(* A whole iteration: the id becomes known to the steps after this one. *)
AcceptStep ==
    /\ pc = "steps"
    /\ i <= Len(steps)
    /\ StepError(steps[i]) = "none"
    /\ knownSteps' = knownSteps \cup ({steps[i].id} \ {NoId})
    /\ i' = i + 1
    /\ UNCHANGED <<steps, timeout, pc, verdict>>

ReturnOk ==
    /\ pc = "steps"
    /\ i > Len(steps)
    /\ Return("ok")

Terminated == pc = "returned" /\ UNCHANGED vars

Next ==
    \/ RejectBuildTimeout
    \/ RejectNumber
    \/ EnterLoop
    \/ RejectStep
    \/ AcceptStep
    \/ ReturnOk
    \/ Terminated

Spec == Init /\ [][Next]_vars
-----------------------------------------------------------------------------
TypeOK ==
    /\ steps \in Candidates
    /\ timeout \in BuildTimeouts
    /\ pc \in {"timeout", "steps", "returned"}
    /\ i \in 1 .. (Len(steps) + 1)
    /\ knownSteps \subseteq {StartStep} \cup {steps[j].id : j \in DOMAIN steps}
    /\ verdict \in Verdicts

(***************************************************************************)
(* What the executor relies on: in an accepted request waitChansForStep    *)
(* finds every channel, and a step only waits for steps before it, so no   *)
(* set of steps waits on itself.                                           *)
(***************************************************************************)
AcceptedIsRunnable ==
    verdict = "ok" =>
        \A j \in DOMAIN steps : /\ ~ WaitChansError(steps, j)
                               /\ WaitChans(steps, j) \subseteq 1 .. (j - 1)

(***************************************************************************)
(* The single pass is complete: a request is only turned down for its ids  *)
(* or dependencies when some step really has an undefined dependency or an *)
(* id that is not its own.                                                 *)
(***************************************************************************)
RejectedIsInvalid ==
    verdict \in {"dependency", "id"} => ~ ValidGraph(steps)

(***************************************************************************)
(* An accepted step timeout is non-negative and within the maximum and the *)
(* (non-zero) build timeout, whichever iteration looked at it.             *)
(***************************************************************************)
AcceptedTimeoutsNest ==
    verdict = "ok" =>
        \A j \in DOMAIN steps :
            steps[j].timeout # NoTimeout =>
                /\ 0 <= steps[j].timeout
                /\ steps[j].timeout <= MaxTimeout
                /\ timeout \notin {NoTimeout, 0} => steps[j].timeout <= timeout
=============================================================================
