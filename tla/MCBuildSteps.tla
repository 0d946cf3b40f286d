---------------------------- MODULE MCBuildSteps ----------------------------
(* The requests of the runs of BuildSteps. *)
EXTENDS BuildSteps

MkStep(id, deps, t, vs) ==
    [id |-> id, waitFor |-> deps, timeout |-> t, volumes |-> vs]

MkReq(steps, t, vs, push, images) ==
    [steps |-> steps, timeout |-> t, volumes |-> vs, push |-> push,
     images |-> images]

(* Two steps in parallel, and a third that waits for the first. *)
ForkRequest ==
    MkReq(<<MkStep("a", {}, NoTimeout, {}),
            MkStep("b", {StartStep}, NoTimeout, {}),
            MkStep("c", {"a"}, NoTimeout, {})>>, NoTimeout, {}, FALSE, FALSE)

(* Two parallel steps with a step timeout, a build timeout, a push, and    *)
(* volumes in the options and shared by the steps.                         *)
TimedRequest ==
    MkReq(<<MkStep("a", {}, NoTimeout, {"data"}),
            MkStep("b", {StartStep}, 1, {"data"})>>, 2, {"cache"}, TRUE, TRUE)

(* Two steps in a row that share a volume, and nothing to bound the build's *)
(* time.                                                                   *)
UntimedRequest ==
    MkReq(<<MkStep("", {}, NoTimeout, {"data"}),
            MkStep("", {}, NoTimeout, {"data"})>>, NoTimeout, {}, FALSE, TRUE)

MCRequests == {ForkRequest, TimedRequest, UntimedRequest}

(* The same shapes without what does not matter to progress. *)
LiveRequests ==
    {MkReq(<<MkStep("", {}, NoTimeout, {}),
             MkStep("", {}, NoTimeout, {})>>, 2, {}, FALSE, FALSE),
     MkReq(<<MkStep("a", {}, NoTimeout, {}),
             MkStep("b", {StartStep}, 1, {})>>, NoTimeout, {}, FALSE, FALSE)}
=============================================================================
