------------------------------ MODULE Validate ------------------------------
(***************************************************************************)
(* The checks of validate.go besides the graph and the timeouts of the     *)
(* steps (CheckBuildSteps has those), as predicates on a build, and the    *)
(* replacements of subst.go.                                               *)
(*                                                                         *)
(* A build is a record: steps, each with name, args, dir, entrypoint, env, *)
(* secretEnv and volumes; images, tags, logs (the logs bucket), artifacts; *)
(* subs, a function from keys; secrets; the options env, secretEnv,        *)
(* volumes and loose; project and commit.  Texts are those of Template.    *)
(* An env entry, or one of the flag, is [key, eq, val]: eq tells whether   *)
(* it has an "=".                                                          *)
(***************************************************************************)
EXTENDS Template

CONSTANTS
    Limit,          \* the limits on numbers and lengths, by name
    CleanPath,      \* path.Clean, on the paths of volumes
    ReservedPaths   \* reservedVolumePaths, and what starts with /cloudbuild/

Elements(s) == {s[j] : j \in DOMAIN s}
Repeats(s) == \E j, k \in DOMAIN s : j < k /\ s[j] = s[k]

(* Built-in keys: the one of the project stands for the two that the flag  *)
(* cannot override, that of the branch for REPO_NAME and TAG_NAME too.     *)
ProjectId == <<"A", "A">>
CommitSha == <<"A", "_">>
ShortSha  == <<"A", "0">>
BranchName == <<"A">>
MaxShortShaLength == 1

Overridable == {BranchName, CommitSha, ShortSha}
ValidBuiltIns == {ProjectId} \cup Overridable

BuiltIns(b) ==
    [k \in ValidBuiltIns |->
        CASE k = ProjectId  -> b.project
          [] k = BranchName -> << >>
          [] k = CommitSha  -> b.commit
          [] k = ShortSha   -> SubSeq(b.commit, 1, Min({MaxShortShaLength, Len(b.commit)}))]

(* The values of f, and those of g for the other keys. *)
Over(f, g) == [k \in DOMAIN f \cup DOMAIN g |-> IF k \in DOMAIN f THEN f[k] ELSE g[k]]

(* validUserSubstKeyRE *)
UserKey(k) == Len(k) >= 2 /\ k[1] = "_" /\ \A j \in DOMAIN k : k[j] \in KeyChar
-----------------------------------------------------------------------------
(* ParseSubstitutionsFlag: spaces are cut off and the last entry counts.   *)
Trimmed(s) ==
    LET ink == {j \in DOMAIN s : s[j] # " "}
    IN  IF ink = {} THEN << >> ELSE SubSeq(s, Min(ink), Max(ink))

ParsedFlag_First(entries) ==
    [k \in {Trimmed(e.key) : e \in Elements(entries)} |->
        Trimmed(entries[Min({j \in DOMAIN entries : Trimmed(entries[j].key) = k})].val)]

ParsedFlag(entries) ==
    [k \in {Trimmed(e.key) : e \in Elements(entries)} |->
        Trimmed(entries[Max({j \in DOMAIN entries : Trimmed(entries[j].key) = k})].val)]

(* CheckSubstitutionsLoose *)
LooseError(subs) ==
    \/ Cardinality(DOMAIN subs) > Limit.subs
    \/ \E k \in DOMAIN subs :
          \/ Len(k) > Limit.key \/ Len(subs[k]) > Limit.value
          \/ ~ UserKey(k) /\ k \notin Overridable

(* CheckSubstitutions *)
SubstitutionsError(subs) == LooseError(subs) \/ \E k \in DOMAIN subs : ~ UserKey(k)

(* CheckArtifacts: what it turns down, and what it changes.  Both lists of *)
(* images become one slice.                                                *)
Location(b) == b.artifacts.location
Paths(b) == b.artifacts.paths
HasObjects(b) == b.artifacts.objects

AllImages(b) == IF b.images # << >> THEN b.images ELSE b.artifacts.images

ArtifactsError(b) ==
    \/ b.images # << >> /\ b.artifacts.images # << >> /\ b.artifacts.images # b.images
    \/ Len(AllImages(b)) > Limit.images
    \/ \E img \in Elements(AllImages(b)) : Len(img) > Limit.image
    \/ /\ HasObjects(b)
       /\ \/ Location(b) = << >> \/ Head(Location(b)) # "g"    \* no gs://
          \/ Paths(b) = << >> \/ Len(Paths(b)) > Limit.paths
          \/ Repeats(Paths(b))
          \/ \E p \in Elements(Paths(b)) : " " \in Elements(p)

WithSlash(s) == IF s[Len(s)] = "/" THEN s ELSE Append(s, "/")

CheckedArtifacts(b) ==
    [b EXCEPT !.images = AllImages(b), !.artifacts.images = AllImages(b),
              !.artifacts.location = IF HasObjects(b) THEN WithSlash(@) ELSE @]

(* The fields that CheckBuildSteps checks of a step. *)
StepsError(b) ==
    \E s \in Elements(b.steps) :
        \/ s.name = << >> \/ Len(s.name) > Limit.name
        \/ Len(s.args) > Limit.args \/ \E a \in Elements(s.args) : Len(a) > Limit.arg
        \/ Len(s.dir) > Limit.dir
        \/ \E e \in Elements(s.env) : ~ e.eq
-----------------------------------------------------------------------------
(* CheckSubstitutionTemplate: the texts that it looks at ...               *)
TextsOf(step) ==
    {step.name, step.dir, step.entrypoint} \cup Elements(step.args)
    \cup {e.key : e \in Elements(step.env)} \cup {e.val : e \in Elements(step.env)}

TemplateTexts(b) ==
    (UNION {TextsOf(s) : s \in Elements(b.steps)})
    \cup Elements(b.images) \cup Elements(b.tags)
    \cup (IF HasObjects(b) THEN {Location(b)} \cup Elements(Paths(b)) ELSE {})

(* ... the errors, and the warnings, which are errors unless ALLOW_LOOSE.  *)
TemplateKeys(b) == UNION {KeysIn(t) : t \in TemplateTexts(b)}

TemplateError(b) ==
    LET unknown == TemplateKeys(b) \ DOMAIN b.subs
        unused  == DOMAIN b.subs \ TemplateKeys(b)
    IN  \/ \E k \in unknown : ~ UserKey(k) /\ k \notin ValidBuiltIns
        \/ ~ b.loose /\ (unused # {} \/ \E k \in unknown : UserKey(k))
-----------------------------------------------------------------------------
CommonVolumeError_Raw(vols) ==
    \/ \E v \in Elements(vols) : CleanPath[v.path] = "relative" \/ v.path \in ReservedPaths
    \/ \E j, k \in DOMAIN vols : j < k /\ (vols[j].name = vols[k].name \/ vols[j].path = vols[k].path)

(* commonVolumeChecks; a path that is not absolute is cleaned to relative. *)
CommonVolumeError(vols) ==
    \/ \E v \in Elements(vols) :
          \/ v.name = "invalid"
          \/ CleanPath[v.path] = "relative"
          \/ CleanPath[v.path] \in ReservedPaths
    \/ \E j, k \in DOMAIN vols :
          /\ j < k
          /\ vols[j].name = vols[k].name \/ CleanPath[vols[j].path] = CleanPath[vols[k].path]

(* The places where steps name a volume. *)
Uses(b, name) ==
    UNION {{<<k, m>> : m \in {m \in DOMAIN b.steps[k].volumes : b.steps[k].volumes[m].name = name}} :
              k \in DOMAIN b.steps}

(* checkVolumes: global and local paths are compared as they are written.  *)
VolumesError(b) ==
    \/ b.volumes # << >> /\ Len(b.steps) < 2
    \/ CommonVolumeError(b.volumes)
    \/ \E j \in DOMAIN b.steps :
          LET vols == b.steps[j].volumes
          IN  \/ CommonVolumeError(vols)
              \/ \E v \in Elements(vols), g \in Elements(b.volumes) :
                    v.name = g.name \/ v.path = g.path
              \/ \E v \in Elements(vols) : Cardinality(Uses(b, v.name)) < 2

(* checkEnvVars: the number and the length of the entries. *)
EnvError(b) ==
    \E envs \in {b.env} \cup {s.env : s \in Elements(b.steps)} :
        Len(envs) > Limit.envs \/ \E e \in Elements(envs) : Len(e.key) + Len(e.val) > Limit.env
-----------------------------------------------------------------------------
(* checkSecrets.  A secret is [kms, env, size]: the names that it defines, *)
(* and the length of its longest value.                                    *)
UsedSecrets(b) == Elements(b.secretEnv) \cup UNION {Elements(s.secretEnv) : s \in Elements(b.steps)}
DefinedSecrets(b) == UNION {sec.env : sec \in Elements(b.secrets)}

SecretDefinitionError_Keys(b) ==
    \E j, k \in DOMAIN b.secrets : j < k /\ b.secrets[j].kms = b.secrets[k].kms

SecretDefinitionError(b) ==
    \/ \E sec \in Elements(b.secrets) : sec.env = {}
    \/ \E j, k \in DOMAIN b.secrets :
          /\ j < k
          /\ b.secrets[j].kms = b.secrets[k].kms \/ b.secrets[j].env \cap b.secrets[k].env # {}

SecretsDefinedAndUsedError(b) ==
    \/ Repeats(b.secretEnv)
    \/ \E s \in Elements(b.steps) :
          Repeats(s.secretEnv) \/ Elements(s.secretEnv) \cap Elements(b.secretEnv) # {}
    \/ SecretDefinitionError(b)
    \/ UsedSecrets(b) # DefinedSecrets(b)
    \/ Cardinality(DefinedSecrets(b)) > Limit.secrets
    \/ \E sec \in Elements(b.secrets) : sec.size > Limit.secretSize

(* The keys of a step's envs are cut at the "=": there must be one. *)
EnvsOf(b, s) == Elements(b.env) \cup Elements(s.env)
SecretsOf(b, s) == Elements(b.secretEnv) \cup Elements(s.secretEnv)

EnvWithoutEquals(b) == \E s \in Elements(b.steps) : \E e \in EnvsOf(b, s) : ~ e.eq

SecretsConflict(b) ==
    \E s \in Elements(b.steps) : {e.key : e \in EnvsOf(b, s)} \cap SecretsOf(b, s) # {}
-----------------------------------------------------------------------------
(* SubstituteBuildFields: user-defined keys override the built-in ones.    *)
ReplacementsOf(b) == Over(b.subs, BuiltIns(b))

Each(s, F(_)) == [j \in DOMAIN s |-> F(s[j])]

(* b.Images and b.Artifacts.Images are one slice: each image is replaced   *)
(* twice.  The options are left alone.                                     *)
SubstituteBuildFields(b) ==
    LET apply(s) == Expand(ReplacementsOf(b), s)
        twice(s) == apply(apply(s))
        entry(e) == [e EXCEPT !.key = apply(@), !.val = apply(@)]
        step(s)  == [s EXCEPT !.name = apply(@), !.dir = apply(@), !.entrypoint = apply(@),
                              !.args = Each(@, apply), !.env = Each(@, entry)]
    IN  [b EXCEPT !.steps = Each(@, step), !.images = Each(@, twice),
                  !.tags = Each(@, apply), !.logs = apply(@),
                  !.artifacts.images = Each(@, twice),
                  !.artifacts.location = IF HasObjects(b) THEN apply(@) ELSE @,
                  !.artifacts.paths = IF HasObjects(b) THEN Each(@, apply) ELSE @]

(* validImageTagRE on a text without a tag: lower-case letters and digits, *)
(* and in between separators; validBuildTagRE.                             *)
ValidImageName(s) ==
    /\ s # << >> /\ s[1] \in {"x", "0"} /\ s[Len(s)] \in {"x", "0"}
    /\ Elements(s) \subseteq {"x", "0", "_"}
    /\ \A j \in 3 .. Len(s) : {s[j - 2], s[j - 1], s[j]} # {"_"}

ValidTag(s) == s # << >> /\ Elements(s) \subseteq {"x", "0", "A", "_"}

SanitizedTags_Repeats(tags) == SelectSeq(tags, LAMBDA t : t # << >>)

(* sanitizeBuildTags: empty tags and repeated ones are dropped. *)
SanitizedTags(tags) ==
    LET keep[j \in 0 .. Len(tags)] ==
            IF j = 0 THEN << >>
            ELSE IF tags[j] = << >> \/ tags[j] \in Elements(keep[j - 1])
                 THEN keep[j - 1]
                 ELSE Append(keep[j - 1], tags[j])
    IN  keep[Len(tags)]
=============================================================================
