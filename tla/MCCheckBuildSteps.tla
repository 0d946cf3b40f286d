------------------------- MODULE MCCheckBuildSteps -------------------------
(* Every graph of up to three steps over two ids, and every combination of *)
(* step and build timeouts around the limits for up to two steps.          *)
EXTENDS CheckBuildSteps

MkStep(id, deps, t) == [id |-> id, waitFor |-> deps, timeout |-> t, volumes |-> {}]

GraphSteps ==
    {MkStep(id, deps, NoTimeout) :
        id \in {NoId, StartStep, "a", "b"}, deps \in SUBSET {StartStep, "a", "b"}}

MCTimeouts == {NoTimeout, -1, 0, 1, 2, 3}

TimedSteps == {MkStep(NoId, {}, t) : t \in MCTimeouts}

BadStep == MkStep("bad", {}, NoTimeout)
BadEnvStep == MkStep("env", {"a"}, NoTimeout)

MCMalformed == {BadStep}
MCBadEnv == {BadEnvStep}

MCCandidates ==
    {<<>>, <<BadStep>>, <<BadEnvStep>>, <<MkStep("a", {}, NoTimeout), BadEnvStep>>}
    \cup [1 .. 3 -> GraphSteps]
    \cup [1 .. 2 -> TimedSteps]
    \cup [1 .. 4 -> {MkStep(NoId, {}, NoTimeout)}]
=============================================================================
