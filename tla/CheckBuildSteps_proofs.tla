------------------------ MODULE CheckBuildSteps_proofs ------------------------
(***************************************************************************)
(* Proofs about the validator, for any steps, timeouts and limits: what it *)
(* accepts runs without the executor's error returns and without cycles,   *)
(* and what it turns down for its graph has a bad graph.                   *)
(***************************************************************************)
EXTENDS CheckBuildSteps, TLAPS

(* Ids known before step m stay known. *)
LEMMA KnownGrows ==
    ASSUME NEW s \in Seq(Step), NEW m \in DOMAIN s, NEW n \in DOMAIN s, m < n,
           s[m].id # NoId
    PROVE  s[m].id \in KnownSteps(s, n)
  BY DEF KnownSteps, IdsBefore

(***************************************************************************)
(* A valid graph is acyclic by construction: wait_for entries name earlier *)
(* steps only, so waitChansForStep cannot fail.                            *)
(***************************************************************************)
LEMMA ValidGraphRuns ==
    ASSUME NEW s \in Seq(Step), ValidGraph(s), NEW n \in DOMAIN s
    PROVE  ~ WaitChansError(s, n) /\ WaitChans(s, n) \subseteq 1 .. (n - 1)
<1>1. /\ s[n].waitFor \subseteq {StartStep} \cup IdsBefore(s, n)
      /\ \A m \in DOMAIN s : s[m].id = NoId \/ s[m].id \notin KnownSteps(s, m)
  BY DEF ValidGraph, DepsDefined, IdIsNew, KnownSteps
<1>2. n \in Nat \ {0} /\ DOMAIN s = 1 .. Len(s) /\ Len(s) \in Nat
  OBVIOUS
<1>3. ASSUME NEW dep \in s[n].waitFor \ {StartStep}
      PROVE  \E m \in 1 .. (n - 1) : s[m].id = dep /\ dep # NoId
  BY <1>1 DEF IdsBefore
<1>4. ASSUME NEW m \in NamedBy(s, n) PROVE m < n
  <2>1. m \in DOMAIN s /\ s[m].id # NoId /\ s[m].id \in s[n].waitFor \ {StartStep}
    BY DEF NamedBy
  <2>2. PICK l \in 1 .. (n - 1) : s[l].id = s[m].id
    BY <1>3, <2>1
  <2>3. CASE m >= n
    <3>1. l \in DOMAIN s /\ l < m
      BY <1>2, <2>1, <2>2, <2>3
    <3>2. s[l].id \in KnownSteps(s, m)
      BY <2>1, <2>2, <3>1, KnownGrows
    <3> QED  BY <1>1, <2>1, <2>2, <3>2
  <2> QED  BY <1>2, <2>1, <2>3
<1>5. ~ WaitChansError(s, n)
  <2>1. ASSUME NEW dep \in s[n].waitFor \ {StartStep}
        PROVE  \E m \in DOMAIN s : s[m].id # NoId /\ s[m].id = dep
    BY <1>2, <1>3
  <2>2. \A m \in NamedBy(s, n) : m \in Int /\ m < n
    BY <1>2, <1>4 DEF NamedBy
  <2> QED  BY <1>2, <2>1, <2>2 DEF WaitChansError
<1>6. WaitChans(s, n) \subseteq 1 .. (n - 1)
  BY <1>2, <1>4 DEF WaitChans, NamedBy
<1> QED  BY <1>5, <1>6
-----------------------------------------------------------------------------
(* Step j passes the checks that the loop makes of it. *)
StepOk(j) ==
    /\ DepsDefined(steps, j)
    /\ IdIsNew(steps, j)
    /\ ~ StepTimeoutOutOfRange(steps[j])

(***************************************************************************)
(* The loop invariant: knownSteps holds the ids of the steps passed, all   *)
(* of which are in order, and a verdict about the graph is about step i.   *)
(***************************************************************************)
LoopInv ==
    /\ TypeOK
    /\ knownSteps = KnownSteps(steps, i)
    /\ \A j \in 1 .. (i - 1) : StepOk(j)
    /\ pc = "returned" <=> verdict # "none"
    /\ verdict = "ok" => i = Len(steps) + 1
    /\ verdict \in {"dependency", "id"} =>
          i \in DOMAIN steps /\ ~ (DepsDefined(steps, i) /\ IdIsNew(steps, i))

(* The steps of the request are a sequence of steps. *)
LEMMA StepsShape ==
    ASSUME steps \in Candidates
    PROVE  steps \in Seq(Step) /\ Len(steps) \in Nat /\ DOMAIN steps = 1 .. Len(steps)
  BY CandidatesAssumption

(* The loop invariant holds when CheckBuild is entered. *)
LEMMA LoopInvInit == Init => LoopInv
<1> SUFFICES ASSUME Init PROVE LoopInv
  OBVIOUS
<1>1. IdsBefore(steps, 1) = {}
  BY DEF IdsBefore
<1>2. TypeOK
  BY StepsShape DEF Init, TypeOK, Verdicts
<1> QED  BY <1>1, <1>2 DEF Init, LoopInv, KnownSteps

(* Each iteration, and each early return, preserves it. *)
LEMMA LoopInvStep == LoopInv /\ [Next]_vars => LoopInv'
<1> SUFFICES ASSUME LoopInv, [Next]_vars PROVE LoopInv'
  OBVIOUS
<1> USE DEF LoopInv
<1>0. /\ steps \in Seq(Step) /\ Len(steps) \in Nat /\ DOMAIN steps = 1 .. Len(steps)
      /\ i \in 1 .. (Len(steps) + 1)
  BY StepsShape DEF TypeOK
<1>1. CASE RejectBuildTimeout
  BY <1>1 DEF RejectBuildTimeout, Return, TypeOK, Verdicts, StepOk, StepTimeoutOutOfRange, BuildTimeout
<1>2. CASE RejectNumber
  BY <1>2 DEF RejectNumber, Return, TypeOK, Verdicts, StepOk, StepTimeoutOutOfRange, BuildTimeout
<1>3. CASE EnterLoop
  BY <1>3 DEF EnterLoop, TypeOK, StepOk, StepTimeoutOutOfRange, BuildTimeout
<1>4. CASE RejectStep
  <2>1. /\ UNCHANGED <<steps, timeout, i, knownSteps>> /\ pc' = "returned"
        /\ verdict' = StepError(steps[i]) /\ verdict' # "none" /\ i \in DOMAIN steps
    BY <1>0, <1>4 DEF RejectStep, Return
  <2>2. verdict' \in {"malformed", "dependency", "id", "step timeout"}
    BY <2>1 DEF StepError
  <2>3. verdict' = "dependency" => ~ DepsDefined(steps, i)
    BY <2>1 DEF StepError, UnknownDependency, DepsDefined
  <2>4. verdict' = "id" => ~ IdIsNew(steps, i)
    BY <2>1 DEF StepError, DuplicateId, IdIsNew
  <2> QED  BY <2>1, <2>2, <2>3, <2>4
           DEF TypeOK, Verdicts, StepOk, StepTimeoutOutOfRange, BuildTimeout
<1>5. CASE AcceptStep
  <2>1. /\ UNCHANGED <<steps, timeout, pc, verdict>> /\ i' = i + 1 /\ i \in DOMAIN steps
        /\ knownSteps' = knownSteps \cup ({steps[i].id} \ {NoId})
        /\ StepError(steps[i]) = "none" /\ pc = "steps"
    BY <1>0, <1>5 DEF AcceptStep
  <2>2. StepOk(i)
    BY <2>1 DEF StepError, UnknownDependency, DuplicateId, StepOk, DepsDefined, IdIsNew
  <2>3. IdsBefore(steps, i + 1) = IdsBefore(steps, i) \cup ({steps[i].id} \ {NoId})
    <3>1. 1 .. i = (1 .. (i - 1)) \cup {i}
      BY <1>0
    <3> QED  BY <1>0, <3>1 DEF IdsBefore
  <2>4. knownSteps' = KnownSteps(steps, i + 1)
    BY <2>1, <2>3 DEF KnownSteps
  <2>5. TypeOK'
    BY <1>0, <2>1 DEF TypeOK
  <2>6. \A j \in 1 .. i : StepOk(j)
    BY <1>0, <2>2
  <2> QED  BY <1>0, <2>1, <2>4, <2>5, <2>6
           DEF StepOk, StepTimeoutOutOfRange, BuildTimeout
<1>6. CASE ReturnOk
  BY <1>0, <1>6 DEF ReturnOk, Return, TypeOK, Verdicts, StepOk, StepTimeoutOutOfRange, BuildTimeout
<1>7. CASE UNCHANGED vars
  BY <1>7 DEF vars, TypeOK, StepOk, StepTimeoutOutOfRange, BuildTimeout
<1> QED  BY <1>1, <1>2, <1>3, <1>4, <1>5, <1>6, <1>7 DEF Next, Terminated

(* The loop invariant of CheckBuildSteps: knownSteps holds the ids of the  *)
(* steps passed so far, all of which were found in order.                  *)
THEOREM LoopInvariant == Spec => []LoopInv
  BY LoopInvInit, LoopInvStep, PTL DEF Spec

(***************************************************************************)
(* In a request that CheckBuildSteps accepts, waitChansForStep finds every *)
(* channel and steps wait for earlier steps only.                          *)
(***************************************************************************)
THEOREM AcceptedRequestsRun == Spec => []AcceptedIsRunnable
<1>1. ASSUME LoopInv PROVE AcceptedIsRunnable
  <2>1. steps \in Seq(Step) /\ Len(steps) \in Nat /\ DOMAIN steps = 1 .. Len(steps)
    BY <1>1, StepsShape DEF LoopInv, TypeOK
  <2>2. verdict = "ok" => ValidGraph(steps)
    BY <1>1, <2>1 DEF LoopInv, StepOk, ValidGraph
  <2> QED  BY <2>1, <2>2, ValidGraphRuns DEF AcceptedIsRunnable
<1> QED  BY <1>1, LoopInvariant, PTL

(***************************************************************************)
(* A request that CheckBuildSteps turns down for a dependency or an id has *)
(* a graph that is not valid.                                              *)
(***************************************************************************)
THEOREM RejectedRequestsAreInvalid == Spec => []RejectedIsInvalid
<1>1. LoopInv => RejectedIsInvalid
  BY DEF LoopInv, RejectedIsInvalid, ValidGraph
<1> QED  BY <1>1, LoopInvariant, PTL

(***************************************************************************)
(* An accepted step timeout is non-negative and within both limits.        *)
(***************************************************************************)
THEOREM AcceptedTimeoutsAreNested == Spec => []AcceptedTimeoutsNest
<1>1. ASSUME LoopInv PROVE AcceptedTimeoutsNest
  <2>1. steps \in Seq(Step) /\ Len(steps) \in Nat /\ DOMAIN steps = 1 .. Len(steps)
    BY <1>1, StepsShape DEF LoopInv, TypeOK
  <2> SUFFICES ASSUME verdict = "ok", NEW j \in DOMAIN steps, steps[j].timeout # NoTimeout
               PROVE  /\ 0 <= steps[j].timeout
                      /\ steps[j].timeout <= MaxTimeout
                      /\ timeout \notin {NoTimeout, 0} => steps[j].timeout <= timeout
    BY DEF AcceptedTimeoutsNest
  <2>2. ~ StepTimeoutOutOfRange(steps[j])
    BY <1>1, <2>1 DEF LoopInv, StepOk
  <2>3. steps[j].timeout \in Int
    <3>1. steps[j] \in Step
      BY <2>1
    <3> QED  BY <3>1 DEF Step
  <2>4. timeout \in Int \cup {NoTimeout}
    BY <1>1, LimitsAssumption DEF LoopInv, TypeOK
  <2> QED  BY <2>2, <2>3, <2>4, LimitsAssumption DEF StepTimeoutOutOfRange, BuildTimeout
<1> QED  BY <1>1, LoopInvariant, PTL

(***************************************************************************)
(* The loop over the steps of CheckBuildSteps keeps its variables typed,   *)
(* its step index within one of the number of steps.                       *)
(***************************************************************************)
THEOREM TypeCorrect == Spec => []TypeOK
<1>1. LoopInv => TypeOK  BY DEF LoopInv
<1> QED  BY <1>1, LoopInvariant, PTL
=============================================================================
