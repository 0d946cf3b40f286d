---------------------- MODULE MCSubstituteAndValidate ----------------------
(***************************************************************************)
(* Families of builds for SubstituteAndValidate, each of which varies the  *)
(* fields that one group of checks is about.                               *)
(***************************************************************************)
EXTENDS SubstituteAndValidate, TLC

MCLimit == [subs |-> 2, key |-> 2, value |-> 3, images |-> 2, image |-> 4, paths |-> 2,
            name |-> 4, args |-> 2, arg |-> 5, dir |-> 3,
            envs |-> 2, env |-> 5, secrets |-> 2, secretSize |-> 1, tags |-> 3]
MCCleanPath == ("/v" :> "/v") @@ ("/v/" :> "/v") @@ ("/w" :> "/w") @@ ("w" :> "relative")
               @@ ("/workspace/" :> "/workspace")
MCReserved == {"/workspace"}

(* Texts: plain, the keys _A and _0, the branch, the project, a key that   *)
(* nobody knows, and an escaped dollar.                                    *)
X == <<"x">>
UserA == <<"$", "_", "A">>
User0 == <<"$", "{", "_", "0", "}">>
Branch == <<"$", "A">>
Project == <<"$", "A", "A">>
Unknown == <<"$", "A", "0", "0">>
Escaped == <<"$", "$", "A">>

KeyA == <<"_", "A">>
Key0 == <<"_", "0">>
NoSubs == [k \in {} |-> << >>]
Lists(S, n) == UNION {[1 .. k -> S] : k \in 0 .. n}

Step == [name |-> X, args |-> << >>, dir |-> << >>, entrypoint |-> << >>, env |-> << >>, secretEnv |-> << >>, volumes |-> << >>]
NoArtifacts == [objects |-> FALSE, images |-> << >>, location |-> << >>, paths |-> << >>]
Plain == [steps |-> <<Step>>, images |-> << >>, tags |-> << >>, logs |-> << >>,
          artifacts |-> NoArtifacts, subs |-> NoSubs, secrets |-> << >>, env |-> << >>,
          secretEnv |-> << >>, volumes |-> << >>, loose |-> FALSE,
          project |-> <<"x", "0">>, commit |-> <<"x", "0", "x">>]

(* Substitutions, in a step's name and argument and in tags. *)
SubstBuilds == {
    [Plain EXCEPT !.steps = <<[Step EXCEPT !.name = n, !.args = <<a>>]>>, !.tags = t,
                  !.subs = m, !.loose = l] :
        n \in {X, UserA, Branch, Project, Escaped}, a \in {X, User0, Unknown, Escaped},
        t \in Lists({X, UserA, Branch}, 2) \cup {<<X, X, UserA, X>>},
        m \in {NoSubs, KeyA :> X, KeyA :> << >>, BranchName :> X,
               (KeyA :> X) @@ (Key0 :> <<"0">>), KeyA :> <<"x", "x", "x", "x">>},
        l \in BOOLEAN}

StepBuilds == {
    [Plain EXCEPT !.steps = <<[Step EXCEPT !.name = n, !.args = a, !.dir = d, !.entrypoint = e]>>,
                  !.subs = KeyA :> X] :
        n \in {<< >>, X, UserA, [j \in 1 .. 5 |-> "x"]},
        a \in {<< >>, <<X, X, X>>, <<[j \in 1 .. 6 |-> "x"]>>, <<UserA>>},
        d \in {<< >>, UserA, [j \in 1 .. 4 |-> "x"]}, e \in {<< >>, UserA}}

(* Images in both places, and the logs bucket. *)
ImageBuilds == {
    [Plain EXCEPT !.images = i, !.artifacts.images = a, !.subs = m, !.logs = g] :
        i \in Lists({X, UserA, <<"x", "$", "$", "A">>, <<"A">>}, 2) \cup {<<X, X, X>>},
        a \in {<< >>, <<X>>, <<UserA>>, <<X, X>>},
        m \in {NoSubs, KeyA :> X, KeyA :> Project},
        g \in {<< >>, UserA}}

ObjectBuilds == {
    [Plain EXCEPT !.artifacts = [NoArtifacts EXCEPT !.objects = TRUE, !.location = l, !.paths = p],
                  !.subs = KeyA :> v] :
        l \in {<< >>, <<"g">>, <<"g", "/">>, <<"g", "$", "_", "A">>, X},
        p \in Lists({X, UserA, <<"x", " ">>}, 2) \cup {<<X, X, X>>},
        v \in {X, <<" ">>}}

Volumes == [name : {"v", "u"}, path : {"/v", "/v/", "/w"}]
OddVolumes == [name : {"v", "invalid"}, path : {"w", "/workspace/", "/w"}]

VolumeBuilds ==
    {[Plain EXCEPT !.steps = <<[Step EXCEPT !.volumes = v], [Step EXCEPT !.volumes = w]>>, !.volumes = g] :
        v \in Lists(Volumes, 2), w \in Lists(Volumes, 2), g \in Lists(Volumes, 1)}
    \cup
    {[Plain EXCEPT !.steps = [j \in 1 .. n |-> [Step EXCEPT !.volumes = v]], !.volumes = g] :
        n \in 1 .. 3, v \in Lists(OddVolumes, 1), g \in Lists(OddVolumes, 1) \cup Lists(Volumes, 2)}

Secret(k, names) == [kms |-> k, env |-> names, size |-> 1]
Entry(k, eq) == [key |-> k, eq |-> eq, val |-> << >>]

SecretBuilds == {
    [Plain EXCEPT !.steps = <<[Step EXCEPT !.env = e, !.secretEnv = s], [Step EXCEPT !.secretEnv = t]>>,
                  !.env = o, !.secretEnv = g, !.secrets = d, !.subs = m] :
        e \in {<< >>, <<Entry(X, TRUE)>>, <<Entry(UserA, TRUE)>>, <<Entry(X, FALSE)>>},
        o \in {<< >>, <<Entry(<<"0">>, TRUE)>>, <<Entry(X, FALSE)>>, [j \in 1 .. 3 |-> Entry(<<"A">>, TRUE)]},
        s \in {<< >>, <<X>>, <<X, X>>}, t \in {<< >>, <<X>>, <<<<"0">>>>}, g \in {<< >>, <<X>>, <<X, X>>},
        d \in {<< >>, <<[Secret("k", {X}) EXCEPT !.size = 2]>>, <<Secret("k", {X})>>, <<Secret("k", {})>>,
               <<Secret("k", {X}), Secret("l", {X, <<"0">>})>>,
               <<Secret("k", {X}), Secret("k", {<<"0">>})>>,
               <<Secret("k", {X}), Secret("l", {<<"0">>})>>},
        m \in {NoSubs, KeyA :> X}}

Pair(k, v) == [key |-> k, eq |-> TRUE, val |-> v]

MCFlags == {<< >>, <<Pair(KeyA, <<"0">>)>>, <<Pair(BranchName, X)>>, <<Pair(ProjectId, X)>>,
            <<Entry(X, FALSE)>>, <<Pair(KeyA, X), Pair(<<" ", "_", "A">>, <<"0", " ">>)>>}

(* Flags go with the families that are about substitutions. *)
MCInputs ==
    (SubstBuilds \cup StepBuilds \cup ImageBuilds) \X MCFlags
    \cup (ObjectBuilds \cup SecretBuilds \cup VolumeBuilds) \X {<< >>}

SecretInputs == SecretBuilds \X {<< >>}
=============================================================================
