------------------------------ MODULE StepGraph ------------------------------
(***************************************************************************)
(* The dependency graph of a build request, shared by the validator        *)
(* (validate.CheckBuildSteps) and by the executor (build.runBuildSteps).    *)
(*                                                                         *)
(* A step is a record with the fields that decide ordering and timing:     *)
(*   id       the step's id, NoId when the config gives none               *)
(*   waitFor  the ids listed under wait_for (a set: neither repetition nor *)
(*            order matters to the code)                                   *)
(*   timeout  the step's timeout in some unit of time, or NoTimeout        *)
(*   volumes  the names of the volumes the step mounts                     *)
(* Steps are numbered from 1 here, from 0 in the Go code.                   *)
(***************************************************************************)
EXTENDS Integers, Sequences, FiniteSets

CONSTANT NoTimeout      \* a nil timeout, of a step or of the build

ASSUME NoTimeoutAssumption == NoTimeout \notin Int

NoId == ""

(* A wait_for entry that is always satisfied, and never a step's id. *)
StartStep == "-"

Step == [id : STRING, waitFor : SUBSET STRING, timeout : Int \cup {NoTimeout},
         volumes : SUBSET STRING]

(* The ids that the steps before the i-th define. *)
IdsBefore(steps, i) == {steps[j].id : j \in 1 .. (i - 1)} \ {NoId}

(* knownSteps as the validator holds it when it reaches step i. *)
KnownSteps(steps, i) == {StartStep} \cup IdsBefore(steps, i)

(* Step i's dependencies are defined, and its id is new and not reserved. *)
DepsDefined(steps, i) == steps[i].waitFor \subseteq KnownSteps(steps, i)
IdIsNew(steps, i)     == steps[i].id = NoId \/ steps[i].id \notin KnownSteps(steps, i)

ValidGraph(steps) ==
    \A i \in DOMAIN steps : DepsDefined(steps, i) /\ IdIsNew(steps, i)

(* The steps that idxTranslate finds for step i's wait_for entries. *)
NamedBy(steps, i) ==
    {j \in DOMAIN steps : /\ steps[j].id # NoId
                          /\ steps[j].id \in steps[i].waitFor \ {StartStep}}

(* The steps whose done channels step i waits for. *)
WaitChans(steps, i) ==
    IF steps[i].waitFor = {} THEN 1 .. (i - 1) ELSE NamedBy(steps, i)

(* waitChansForStep returns an error: an entry has no translation, or the  *)
(* channel of the step it names has not been made yet (idxChan is filled   *)
(* step by step, the current one included).                                *)
WaitChansError(steps, i) ==
    \/ \E dep \in steps[i].waitFor \ {StartStep} :
          \A j \in DOMAIN steps : steps[j].id = NoId \/ steps[j].id # dep
    \/ \E j \in NamedBy(steps, i) : j > i
=============================================================================
