----------------------- MODULE SubstituteAndValidate -----------------------
(***************************************************************************)
(* ParseSubstitutionsFlag and SubstituteAndValidate of common.go: the      *)
(* substitutions of the config and of the --substitutions flag are checked *)
(* and merged, the build is checked, its fields are replaced, and it is    *)
(* checked again.  Each check sees the build as the ones before have left  *)
(* it, and is made before or after the substitution, never both.           *)
(***************************************************************************)
EXTENDS Validate

CONSTANT
    Inputs      \* pairs of a build as it is loaded and of the entries of the
                \* --substitutions flag

BuildFields == {"steps", "images", "tags", "logs", "artifacts", "subs", "secrets", "env", "secretEnv",
                "volumes", "loose", "project", "commit"}
StepFields == {"name", "args", "dir", "entrypoint", "env", "secretEnv", "volumes"}
ArtifactFields == {"objects", "images", "location", "paths"}

IsList(s) == Len(s) \in Nat /\ DOMAIN s = 1 .. Len(s)
Text == Seq(STRING)

(* The fields of a build that is loaded are there, its steps, tags,        *)
(* volumes and secrets, and the volumes of its steps, are lists, and what  *)
(* stands for a text is one.                                               *)
WellFormed(build) ==
    /\ DOMAIN build = BuildFields /\ DOMAIN build.artifacts = ArtifactFields
    /\ {build.project, build.commit, build.artifacts.location} \subseteq Text
    /\ \A img \in Elements(build.images) \cup Elements(build.artifacts.images) : img \in Text
    /\ \A k \in DOMAIN build.subs : build.subs[k] \in Text
    /\ IsList(build.steps) /\ IsList(build.tags)
    /\ IsList(build.volumes) /\ IsList(build.secrets)
    /\ \A j \in DOMAIN build.steps :
          DOMAIN build.steps[j] = StepFields /\ IsList(build.steps[j].volumes)

ASSUME InputsAssumption ==
    \A in \in Inputs :
        /\ WellFormed(in[1])
        /\ IsList(in[2]) /\ \A e \in Elements(in[2]) : e.val \in Text

VARIABLES
    pc,         \* the next check; accepted, rejected, panic
    orig,       \* the build that was loaded
    entries,    \* the value of --substitutions
    flag,       \* substMap
    b           \* the build

vars == <<pc, orig, entries, flag, b>>

Init ==
    /\ pc = "parse"
    /\ \E in \in Inputs : orig = in[1] /\ entries = in[2]
    /\ flag = [k \in {} |-> << >>]
    /\ b = orig

(* A check: the next one follows unless it fails. *)
Proceed(here, error, next) ==
    /\ pc = here
    /\ pc' = IF error THEN "rejected" ELSE next
    /\ UNCHANGED <<orig, entries>>

Check(here, error, next) == Proceed(here, error, next) /\ UNCHANGED flag

ParseFlag ==
    /\ Proceed("parse", \E e \in Elements(entries) : ~ e.eq, "config")
    /\ flag' = ParsedFlag(entries)
    /\ UNCHANGED b

CheckSubstitutions == Check("config", SubstitutionsError(b.subs), "flag") /\ UNCHANGED b

CheckFlag == Check("flag", LooseError(flag), "merge") /\ UNCHANGED b

(* The flag overrides the config. *)
Merge == Check("merge", FALSE, "merged") /\ b' = [b EXCEPT !.subs = Over(flag, @)]

CheckMerged == Check("merged", LooseError(b.subs), "artifacts") /\ UNCHANGED b

CheckArtifacts ==
    /\ Check("artifacts", ArtifactsError(b), "steps")
    /\ b' = IF ArtifactsError(b) THEN b ELSE CheckedArtifacts(b)

CheckSteps == Check("steps", StepsError(b), "template") /\ UNCHANGED b

CheckTemplate == Check("template", TemplateError(b), "volumes") /\ UNCHANGED b

CheckVolumes == Check("volumes", VolumesError(b), "envs") /\ UNCHANGED b

CheckEnvVars == Check("envs", EnvError(b), "secrets") /\ UNCHANGED b

(* e[:strings.Index(e, "=")] of an entry without one. *)
CheckSecrets ==
    /\ pc = "secrets"
    /\ pc' = CASE SecretsDefinedAndUsedError(b) -> "rejected"
               [] ~ SecretsDefinedAndUsedError(b) /\ EnvWithoutEquals(b) -> "panic"
               [] OTHER -> IF SecretsConflict(b) THEN "rejected" ELSE "substitute"
    /\ UNCHANGED <<orig, entries, flag, b>>

Substitute == Check("substitute", FALSE, "names") /\ b' = SubstituteBuildFields(b)

CheckBuildStepNames ==
    /\ Check("names", \E s \in Elements(b.steps) : ~ ValidImageName(s.name), "tags")
    /\ UNCHANGED b

SanitizeBuildTags ==
    LET tags  == SanitizedTags(b.tags)
        error == Len(b.tags) > Limit.tags \/ \E t \in Elements(tags) : ~ ValidTag(t)
    IN  /\ Check("tags", error, "images")
        /\ b' = IF error THEN b ELSE [b EXCEPT !.tags = tags]

CheckImageNames ==
    /\ Check("images", \E img \in Elements(b.images) : ~ ValidImageName(img), "accepted")
    /\ UNCHANGED b

Next ==
    \/ ParseFlag \/ CheckSubstitutions \/ CheckFlag \/ Merge \/ CheckMerged \/ CheckArtifacts \/ CheckSteps
    \/ CheckTemplate \/ CheckVolumes \/ CheckEnvVars \/ CheckSecrets \/ Substitute
    \/ CheckBuildStepNames \/ SanitizeBuildTags \/ CheckImageNames

Spec == Init /\ [][Next]_vars
-----------------------------------------------------------------------------
Accepted == pc = "accepted"

(* The keys that the user gives a value. *)
Given == {Trimmed(e.key) : e \in Elements(entries)} \cup DOMAIN orig.subs

(* What a key is replaced by, as the user sees it: the last entry of the   *)
(* flag comes before the config, and that before the built-in values.      *)
Wanted(k) ==
    LET mine == {j \in DOMAIN entries : Trimmed(entries[j].key) = k}
    IN  IF mine # {} THEN Trimmed(entries[Max(mine)].val)
        ELSE IF k \in DOMAIN orig.subs THEN orig.subs[k]
        ELSE BuiltIns(orig)[k]

Meant(text) == Expand([k \in Given \cup ValidBuiltIns |-> Wanted(k)], text)

(* The keys of all the texts of the build that was loaded. *)
OrigKeys == TemplateKeys([orig EXCEPT !.images = AllImages(orig)])

(***************************************************************************)
(* In an accepted build every step says what the user wrote: keys have the *)
(* value of the flag before that of the config, built-in values come from  *)
(* the build and are overridden by the flag only, and the project's never  *)
(* is.  Unless loose substitutions are allowed every key has a value, and  *)
(* every substitution is used.  The same is true of images, which are      *)
(* replaced twice, as long as the first time leaves no dollar in them; the *)
(* list that is verified and pushed is that of the artifacts.              *)
(***************************************************************************)
StepsSayMeant ==
    \A j \in DOMAIN orig.steps :
        LET loaded == orig.steps[j]
            step   == b.steps[j]
        IN  /\ \A f \in {"name", "dir", "entrypoint"} : step[f] = Meant(loaded[f])
            /\ step.args = Each(loaded.args, Meant)
            /\ step.env = [m \in DOMAIN loaded.env |->
                             [loaded.env[m] EXCEPT !.key = Meant(@), !.val = Meant(@)]]

ImagesSayMeant ==
    \A j \in DOMAIN AllImages(orig) :
        "$" \notin Elements(Meant(AllImages(orig)[j])) => b.images[j] = Meant(AllImages(orig)[j])

SubstitutionsFaithful ==
    Accepted =>
        /\ DOMAIN b.steps = DOMAIN orig.steps /\ StepsSayMeant
        /\ b.images = b.artifacts.images /\ ImagesSayMeant
        /\ ProjectId \notin Given /\ DOMAIN orig.subs \cap Overridable = {}
        /\ ~ orig.loose => Given \subseteq OrigKeys /\ OrigKeys \subseteq Given \cup ValidBuiltIns

(***************************************************************************)
(* Tags of an accepted build are valid, not empty and different, and no    *)
(* tag of the config has disappeared but for empty and repeated ones.      *)
(***************************************************************************)
TagsSane ==
    Accepted =>
        /\ \A t \in Elements(b.tags) : ValidTag(t)
        /\ ~ Repeats(b.tags)
        /\ Elements(b.tags) = {Meant(t) : t \in Elements(orig.tags)} \ {<< >>}

(***************************************************************************)
(* In an accepted build a volume that steps name is shared by two of them  *)
(* at least, and no step mounts two of its own volumes, or two global ones,*)
(* on the same directory or on a reserved one.                             *)
(***************************************************************************)
VolumesShared ==
    Accepted =>
        /\ \A s \in Elements(b.steps) : \A v \in Elements(s.volumes) :
              \E j, k \in DOMAIN b.steps :
                  /\ j # k
                  /\ \A m \in {j, k} : v.name \in {w.name : w \in Elements(b.steps[m].volumes)}
        /\ \A vols \in {b.volumes} \cup {s.volumes : s \in Elements(b.steps)} :
              /\ Cardinality({CleanPath[v.path] : v \in Elements(vols)}) = Len(vols)
              /\ {CleanPath[v.path] : v \in Elements(vols)} \cap ReservedPaths = {}

(***************************************************************************)
(* The executor decrypts a secret of a step with the first of the build's  *)
(* secrets that has it: in an accepted build there is exactly one, and no  *)
(* env of the step hides it, unless its name came from a substitution.     *)
(***************************************************************************)
SecretsDecryptable ==
    Accepted =>
        \A j \in DOMAIN b.steps : \A name \in SecretsOf(b, b.steps[j]) :
            /\ Cardinality({k \in DOMAIN b.secrets : name \in b.secrets[k].env}) = 1
            /\ \A e \in EnvsOf(orig, orig.steps[j]) : "$" \notin Elements(e.key) => e.key # name
-----------------------------------------------------------------------------
(***************************************************************************)
(* checkSecrets: "Previous validation ensures that envs include "="."      *)
(***************************************************************************)
EnvsIncludeEquals == pc # "panic"
=============================================================================
