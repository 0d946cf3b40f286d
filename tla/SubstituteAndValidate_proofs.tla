------------------- MODULE SubstituteAndValidate_proofs -------------------
(***************************************************************************)
(* Proofs that what the checks of SubstituteAndValidate find out about     *)
(* volumes, secrets, tags and keys is true of the build that is run,       *)
(* although the build is changed between them, and that what is run says   *)
(* what the user wrote, for every build and every flag.                    *)
(***************************************************************************)
EXTENDS SubstituteAndValidate, Substitute_proofs, FiniteSetTheorems, FunctionTheorems

(* Up to the substitution the steps are as they were loaded. *)
Early == pc \in {"parse", "config", "flag", "merge", "merged", "artifacts", "steps", "template",
                 "volumes", "envs", "secrets", "substitute"}

VolumesPassed == pc \in {"envs", "secrets", "substitute", "names", "tags", "images", "accepted"}
SecretsPassed == pc \in {"substitute", "names", "tags", "images", "accepted"}

(* What no check and no substitution ever changes. *)
Kept ==
    /\ WellFormed(orig)
    /\ DOMAIN b = BuildFields
    /\ b.volumes = orig.volumes /\ b.secrets = orig.secrets
    /\ b.env = orig.env /\ b.secretEnv = orig.secretEnv
    /\ DOMAIN b.steps = DOMAIN orig.steps
    /\ \A j \in DOMAIN orig.steps : /\ DOMAIN b.steps[j] = StepFields
                                    /\ b.steps[j].volumes = orig.steps[j].volumes
                                    /\ b.steps[j].secretEnv = orig.steps[j].secretEnv

(* The checks are made of the build as it is at that moment; what they     *)
(* have found is still true at the end.                                    *)
IInv ==
    /\ Kept
    /\ Early => b.steps = orig.steps
    /\ VolumesPassed => ~ VolumesError(orig)
    /\ SecretsPassed => ~ SecretsDefinedAndUsedError(orig) /\ ~ SecretsConflict(orig)

(* A step of SubstituteAndValidate leaves alone what the checks were of. *)
LEMMA KeptStep ==
    ASSUME Kept, [Next]_vars
    PROVE  Kept'
<1> USE DEF Kept, WellFormed
<1>1. CASE b' = b /\ orig' = orig  BY <1>1
<1>2. CASE Merge
  BY <1>2 DEF Merge, Check, Proceed, BuildFields
<1>3. CASE CheckArtifacts
  BY <1>3 DEF CheckArtifacts, Check, Proceed, CheckedArtifacts, BuildFields
<1>4. CASE Substitute
  <2>1. orig' = orig /\ b' = SubstituteBuildFields(b)
    BY <1>4 DEF Substitute, Check, Proceed
  <2>2. /\ DOMAIN b' = BuildFields
        /\ b'.volumes = b.volumes /\ b'.secrets = b.secrets
        /\ b'.env = b.env /\ b'.secretEnv = b.secretEnv
        /\ DOMAIN b'.steps = DOMAIN b.steps
    BY <2>1 DEF SubstituteBuildFields, Each, BuildFields
  <2>3. \A j \in DOMAIN b.steps : /\ DOMAIN b'.steps[j] = StepFields
                                  /\ b'.steps[j].volumes = b.steps[j].volumes
                                  /\ b'.steps[j].secretEnv = b.steps[j].secretEnv
    <3> TAKE j \in DOMAIN b.steps
    <3>1. PICK l, d, e, a, v :
             b'.steps[j] = [b.steps[j] EXCEPT !.name = l, !.dir = d, !.entrypoint = e,
                                              !.args = a, !.env = v]
      BY <2>1 DEF SubstituteBuildFields, Each, BuildFields
    <3>2. DOMAIN b.steps[j] = StepFields  OBVIOUS
    <3> HIDE DEF Kept, WellFormed
    <3> QED  BY <3>1, <3>2 DEF StepFields
  <2> QED  BY <2>1, <2>2, <2>3
<1>5. CASE SanitizeBuildTags
  BY <1>5 DEF SanitizeBuildTags, Check, Proceed, BuildFields
<1> QED
  BY <1>1, <1>2, <1>3, <1>4, <1>5 DEF Next, vars, ParseFlag, CheckSubstitutions, CheckFlag,
     CheckMerged, CheckSteps, CheckTemplate, CheckVolumes, CheckEnvVars, CheckSecrets,
     CheckBuildStepNames, CheckImageNames, Check, Proceed

(* The checks of the volumes and of the secrets are of the steps as they   *)
(* were loaded.                                                            *)
LEMMA InvStep == IInv /\ [Next]_vars => IInv'
<1> SUFFICES ASSUME IInv, [Next]_vars PROVE IInv'
  OBVIOUS
<1> USE DEF IInv
<1>1. Kept'  BY KeptStep
<1>2. orig' = orig
  BY DEF Next, vars, ParseFlag, CheckSubstitutions, CheckFlag, Merge, CheckMerged,
     CheckArtifacts, CheckSteps, CheckTemplate, CheckVolumes, CheckEnvVars, CheckSecrets,
     Substitute, CheckBuildStepNames, SanitizeBuildTags, CheckImageNames, Check, Proceed
<1>3. Early' => Early /\ b'.steps = b.steps
  <2>1. CASE b' = b
    BY <2>1 DEF Next, vars, ParseFlag, CheckSubstitutions, CheckFlag, Merge, CheckMerged,
       CheckArtifacts, CheckSteps, CheckTemplate, CheckVolumes, CheckEnvVars, CheckSecrets,
       Substitute, CheckBuildStepNames, SanitizeBuildTags, CheckImageNames, Check, Proceed,
       Early
  <2>2. CASE Merge
    BY <2>2 DEF Merge, Check, Proceed, Early, Kept, BuildFields
  <2>3. CASE CheckArtifacts
    BY <2>3 DEF CheckArtifacts, Check, Proceed, CheckedArtifacts, Early, Kept, BuildFields
  <2>4. CASE Substitute \/ SanitizeBuildTags
    BY <2>4 DEF Substitute, SanitizeBuildTags, Check, Proceed, Early
  <2> QED
    BY <2>1, <2>2, <2>3, <2>4 DEF Next, vars, ParseFlag, CheckSubstitutions, CheckFlag,
       CheckMerged, CheckSteps, CheckTemplate, CheckVolumes, CheckEnvVars, CheckSecrets,
       CheckBuildStepNames, CheckImageNames
<1>4. VolumesPassed' => VolumesPassed \/ ~ VolumesError(orig)
  <2>1. CASE CheckVolumes
    <3>1. pc = "volumes" /\ b.steps = orig.steps /\ b.volumes = orig.volumes
      BY <2>1 DEF CheckVolumes, Check, Proceed, Early, Kept
    <3>2. VolumesError(b) <=> VolumesError(orig)
      BY <3>1 DEF VolumesError, Uses
    <3> QED  BY <2>1, <3>2 DEF CheckVolumes, Check, Proceed, VolumesPassed
  <2>2. CASE ~ CheckVolumes
    BY <2>2 DEF Next, vars, ParseFlag, CheckSubstitutions, CheckFlag, Merge, CheckMerged,
       CheckArtifacts, CheckSteps, CheckTemplate, CheckEnvVars, CheckSecrets, Substitute,
       CheckBuildStepNames, SanitizeBuildTags, CheckImageNames, Check, Proceed,
       VolumesPassed
  <2> QED  BY <2>1, <2>2
<1>5. SecretsPassed' =>
         SecretsPassed \/ (~ SecretsDefinedAndUsedError(orig) /\ ~ SecretsConflict(orig))
  <2>1. CASE CheckSecrets
    <3>1. /\ b.steps = orig.steps /\ b.secrets = orig.secrets
          /\ b.env = orig.env /\ b.secretEnv = orig.secretEnv
      BY <2>1 DEF CheckSecrets, Early, Kept
    <3>2. SecretsDefinedAndUsedError(b) <=> SecretsDefinedAndUsedError(orig)
      BY <3>1 DEF SecretsDefinedAndUsedError, SecretDefinitionError, UsedSecrets,
         DefinedSecrets
    <3>3. SecretsConflict(b) <=> SecretsConflict(orig)
      BY <3>1 DEF SecretsConflict, EnvsOf, SecretsOf
    <3>4. pc' = "substitute" => ~ SecretsDefinedAndUsedError(b) /\ ~ SecretsConflict(b)
      BY <2>1 DEF CheckSecrets
    <3>5. pc' \in {"rejected", "panic", "substitute"}
      BY <2>1 DEF CheckSecrets
    <3> QED  BY <3>2, <3>3, <3>4, <3>5 DEF SecretsPassed
  <2>2. CASE ~ CheckSecrets
    BY <2>2 DEF Next, vars, ParseFlag, CheckSubstitutions, CheckFlag, Merge, CheckMerged,
       CheckArtifacts, CheckSteps, CheckTemplate, CheckVolumes, CheckEnvVars, Substitute,
       CheckBuildStepNames, SanitizeBuildTags, CheckImageNames, Check, Proceed,
       SecretsPassed
  <2> QED  BY <2>1, <2>2
<1> QED  BY <1>1, <1>2, <1>3, <1>4, <1>5

(* The inductive invariant of SubstituteAndValidate. *)
THEOREM InductiveInvariant == Spec => []IInv
<1>1. Init => IInv
  BY InputsAssumption DEF Init, IInv, Kept, WellFormed, Early, VolumesPassed, SecretsPassed
<1> QED  BY <1>1, InvStep, PTL DEF Spec
-----------------------------------------------------------------------------
(* A list of volumes that passed commonVolumeChecks has a directory for    *)
(* each of them.                                                           *)
LEMMA OwnDirectories ==
    ASSUME NEW vols, IsList(vols), ~ CommonVolumeError(vols)
    PROVE  /\ Cardinality({CleanPath[v.path] : v \in Elements(vols)}) = Len(vols)
           /\ {CleanPath[v.path] : v \in Elements(vols)} \cap ReservedPaths = {}
<1> DEFINE dirs == {CleanPath[v.path] : v \in Elements(vols)}
           f == [j \in 1 .. Len(vols) |-> CleanPath[vols[j].path]]
<1>1. dirs \cap ReservedPaths = {}
  BY DEF CommonVolumeError
<1>2. f \in Bijection(1 .. Len(vols), dirs)
  <2>1. f \in [1 .. Len(vols) -> dirs]
    BY DEF IsList, Elements
  <2>2. \A j, k \in 1 .. Len(vols) : f[j] = f[k] => j = k
    BY DEF IsList, CommonVolumeError
  <2>3. \A d \in dirs : \E j \in 1 .. Len(vols) : f[j] = d
    BY DEF IsList, Elements
  <2> HIDE DEF f, dirs
  <2> QED  BY <2>1, <2>2, <2>3, Fun_IsBij
<1>3. IsFiniteSet(1 .. Len(vols)) /\ Cardinality(1 .. Len(vols)) = Len(vols)
  <2>1. Len(vols) \in Int /\ Len(vols) >= 0 /\ 1 \in Int  BY DEF IsList
  <2>2. /\ IsFiniteSet(1 .. Len(vols))
        /\ Cardinality(1 .. Len(vols)) = IF 1 > Len(vols) THEN 0 ELSE Len(vols) - 1 + 1
    BY <2>1, FS_Interval
  <2> QED  BY <2>1, <2>2
<1> HIDE DEF f, dirs
<1>4. Cardinality(dirs) = Len(vols)
  BY <1>2, <1>3, FS_Bijection, Fun_ExistsBij
<1> QED  BY <1>1, <1>4 DEF dirs

(* A volume that is named twice, and never twice by one step, is named by  *)
(* two steps.                                                              *)
LEMMA TwoSteps ==
    ASSUME WellFormed(orig), ~ VolumesError(orig),
           NEW s \in DOMAIN orig.steps, NEW m \in DOMAIN orig.steps[s].volumes
    PROVE  \E j, k \in DOMAIN orig.steps :
              /\ j # k
              /\ \A x \in {j, k} :
                    orig.steps[s].volumes[m].name
                        \in {w.name : w \in Elements(orig.steps[x].volumes)}
<1> DEFINE name == orig.steps[s].volumes[m].name
           uses == Uses(orig, name)
<1>1. <<s, m>> \in uses
  BY DEF Uses
<1>2. ~ Cardinality(uses) < 2
  BY DEF VolumesError, Elements
<1>3. \A u \in uses : \E k \in DOMAIN orig.steps : \E l \in DOMAIN orig.steps[k].volumes :
         u = <<k, l>> /\ orig.steps[k].volumes[l].name = name
  BY DEF Uses
<1>4. \A l \in DOMAIN orig.steps[s].volumes :
         orig.steps[s].volumes[l].name = name => l = m
  <2> DEFINE vols == orig.steps[s].volumes
  <2>1. IsList(vols)  BY DEF WellFormed
  <2>2. ~ CommonVolumeError(vols)  BY DEF VolumesError
  <2> HIDE DEF vols
  <2>3. \A x, k \in DOMAIN vols : x < k => vols[x].name # vols[k].name
    BY <2>2 DEF CommonVolumeError
  <2>4. \A l \in DOMAIN vols : l \in Int  BY <2>1 DEF IsList
  <2>5. m \in DOMAIN vols  BY DEF vols
  <2>6. \A l \in DOMAIN vols : vols[l].name = vols[m].name => l = m
    BY <2>3, <2>4, <2>5
  <2> QED  BY <2>6 DEF vols
<1>5. uses # {<<s, m>>}
  <2> HIDE DEF uses
  <2>1. Cardinality({<<s, m>>}) = 1  BY FS_Singleton
  <2> QED  BY <1>2, <2>1
<1>6. PICK u \in uses : u # <<s, m>>
  <2> HIDE DEF uses
  <2>1. ~ uses \subseteq {<<s, m>>}  BY <1>1, <1>5
  <2> QED  BY <2>1
<1>7. PICK k \in DOMAIN orig.steps : \E l \in DOMAIN orig.steps[k].volumes :
         u = <<k, l>> /\ orig.steps[k].volumes[l].name = name
  BY <1>3, <1>6
<1>8. k # s
  BY <1>4, <1>6, <1>7
<1>9. /\ name \in {w.name : w \in Elements(orig.steps[s].volumes)}
      /\ name \in {w.name : w \in Elements(orig.steps[k].volumes)}
  BY <1>7 DEF Elements
<1> QED  BY <1>8, <1>9

(***************************************************************************)
(* checkVolumes sees the build before the substitution and the executor    *)
(* after it: in every accepted build the volumes of the steps are shared,  *)
(* and each has a directory of its own.                                    *)
(***************************************************************************)
THEOREM VolumesAreShared == Spec => []VolumesShared
<1>1. ASSUME IInv PROVE VolumesShared
  <2> SUFFICES ASSUME Accepted PROVE VolumesShared
    BY DEF VolumesShared
  <2>1. Kept /\ WellFormed(orig) /\ ~ VolumesError(orig)
    BY <1>1 DEF IInv, Kept, Accepted, VolumesPassed
  <2>2. \A s \in Elements(b.steps) : \A v \in Elements(s.volumes) :
           \E j, k \in DOMAIN b.steps :
              /\ j # k
              /\ \A x \in {j, k} : v.name \in {w.name : w \in Elements(b.steps[x].volumes)}
    <3>1. ASSUME NEW s \in DOMAIN orig.steps, NEW m \in DOMAIN orig.steps[s].volumes
          PROVE  \E j, k \in DOMAIN orig.steps :
                    /\ j # k
                    /\ \A x \in {j, k} :
                          orig.steps[s].volumes[m].name
                              \in {w.name : w \in Elements(orig.steps[x].volumes)}
      BY <2>1, TwoSteps
    <3>2. /\ DOMAIN b.steps = DOMAIN orig.steps
          /\ \A j \in DOMAIN orig.steps : b.steps[j].volumes = orig.steps[j].volumes
      BY <2>1 DEF Kept
    <3> TAKE s \in Elements(b.steps)
    <3> TAKE v \in Elements(s.volumes)
    <3>3. PICK x \in DOMAIN orig.steps : \E m \in DOMAIN orig.steps[x].volumes :
             v = orig.steps[x].volumes[m]
      BY <3>2 DEF Elements
    <3> QED  BY <3>1, <3>2, <3>3
  <2>3. ASSUME NEW vols \in {b.volumes} \cup {s.volumes : s \in Elements(b.steps)}
        PROVE  IsList(vols) /\ ~ CommonVolumeError(vols)
    BY <2>1, <2>3 DEF Kept, WellFormed, Elements, VolumesError
  <2>4. \A vols \in {b.volumes} \cup {s.volumes : s \in Elements(b.steps)} :
           /\ Cardinality({CleanPath[v.path] : v \in Elements(vols)}) = Len(vols)
           /\ {CleanPath[v.path] : v \in Elements(vols)} \cap ReservedPaths = {}
    BY <2>3, OwnDirectories
  <2> QED  BY <2>2, <2>4 DEF VolumesShared
<1> QED  BY <1>1, InductiveInvariant, PTL

(***************************************************************************)
(* checkSecrets compares what is used with what is defined, over all       *)
(* steps: the executor finds exactly one secret for every name of an       *)
(* accepted build, and no env of the step, as it was loaded, hides it.     *)
(***************************************************************************)
THEOREM SecretsAreDecryptable == Spec => []SecretsDecryptable
<1>1. ASSUME IInv PROVE SecretsDecryptable
  <2> SUFFICES ASSUME Accepted, NEW j \in DOMAIN b.steps,
                      NEW name \in SecretsOf(b, b.steps[j])
               PROVE  /\ Cardinality({k \in DOMAIN b.secrets : name \in b.secrets[k].env}) = 1
                      /\ \A e \in EnvsOf(orig, orig.steps[j]) : e.key # name
    BY DEF SecretsDecryptable
  <2>1. /\ Kept /\ WellFormed(orig)
        /\ ~ SecretsDefinedAndUsedError(orig) /\ ~ SecretsConflict(orig)
    BY <1>1 DEF IInv, Kept, Accepted, SecretsPassed
  <2>2. j \in DOMAIN orig.steps /\ name \in SecretsOf(orig, orig.steps[j])
    BY <2>1 DEF Kept, SecretsOf, Elements
  <2>3. \A e \in EnvsOf(orig, orig.steps[j]) : e.key # name
    BY <2>1, <2>2 DEF SecretsConflict, Elements
  <2>4. name \in DefinedSecrets(orig)
    BY <2>1, <2>2 DEF SecretsDefinedAndUsedError, UsedSecrets, SecretsOf, Elements
  <2>5. PICK k \in DOMAIN orig.secrets : name \in orig.secrets[k].env
    BY <2>4 DEF DefinedSecrets, Elements
  <2>6. \A x \in DOMAIN orig.secrets : name \in orig.secrets[x].env => x = k
    BY <2>1, <2>5 DEF SecretsDefinedAndUsedError, SecretDefinitionError, WellFormed, IsList
  <2>7. {x \in DOMAIN b.secrets : name \in b.secrets[x].env} = {k}
    BY <2>1, <2>5, <2>6 DEF Kept
  <2> QED  BY <2>3, <2>7, FS_Singleton
<1> QED  BY <1>1, InductiveInvariant, PTL
-----------------------------------------------------------------------------
(* What the keys of an accepted build are replaced by: see Meant. *)
Meaning == [k \in Given \cup ValidBuiltIns |-> Wanted(k)]

EntriesOk == IsList(entries) /\ \A e \in Elements(entries) : e.val \in Text

(* Cutting off spaces leaves a text. *)
LEMMA TrimmedType ==
    ASSUME NEW s \in Text
    PROVE  Trimmed(s) \in Text
<1> DEFINE ink == {j \in DOMAIN s : s[j] # " "}
<1>1. Len(s) \in Nat /\ DOMAIN s = 1 .. Len(s) /\ \A j \in 1 .. Len(s) : s[j] \in STRING
  BY LenProperties, ElementOfSeq DEF Text
<1>2. CASE ink = {}
  <2>1. Trimmed(s) = << >>  BY <1>2 DEF Trimmed
  <2>2. << >> \in Seq(STRING)  BY EmptySeq
  <2> QED  BY <2>1, <2>2 DEF Text
<1>3. CASE ink # {}
  <2>1. Trimmed(s) = SubSeq(s, Min(ink), Max(ink))  BY <1>3 DEF Trimmed
  <2>2. \A j \in ink : j \in 1 .. Len(s)  BY <1>1
  <2> HIDE DEF ink
  <2>3. ink \in SUBSET (1 .. Len(s))  BY <2>2
  <2>4. ink \in SUBSET Nat
    <3>1. \A j \in 1 .. Len(s) : j \in Nat  BY <1>1
    <3> QED  BY <2>2, <3>1
  <2>5. Max(ink) \in ink
    <3>1. 1 \in Int /\ Len(s) \in Int  BY <1>1
    <3> QED  BY <1>3, <2>3, <3>1, GreatestInteger
  <2>6. Min(ink) \in ink
    <3>1. \E x \in ink : \A y \in ink : x =< y  BY <1>3, <2>4, LeastNatural
    <3> QED  BY <3>1 DEF Min
  <2>7. /\ Min(ink) \in Int /\ Max(ink) \in Int
        /\ \A j \in Min(ink) .. Max(ink) : s[j] \in STRING
    <3>1. Min(ink) \in 1 .. Len(s) /\ Max(ink) \in 1 .. Len(s)  BY <2>2, <2>5, <2>6
    <3>2. \A j \in Min(ink) .. Max(ink) : j \in 1 .. Len(s)  BY <1>1, <3>1
    <3> QED  BY <1>1, <3>1, <3>2
  <2> QED  BY <2>1, <2>7, SubSeqProperties DEF Text
<1> QED  BY <1>2, <1>3

(* The flag has a value for the keys of its entries, the last one. *)
LEMMA FlagFacts ==
    ASSUME EntriesOk
    PROVE  /\ DOMAIN ParsedFlag(entries) = {Trimmed(e.key) : e \in Elements(entries)}
           /\ \A k \in DOMAIN ParsedFlag(entries) :
                 ParsedFlag(entries)[k] = Wanted(k) /\ Wanted(k) \in Text
           /\ \A k \in Given \cup ValidBuiltIns :
                 k \notin DOMAIN ParsedFlag(entries) =>
                     Wanted(k) = IF k \in DOMAIN orig.subs THEN orig.subs[k] ELSE BuiltIns(orig)[k]
<1> DEFINE keys == {Trimmed(e.key) : e \in Elements(entries)}
           mine(k) == {j \in DOMAIN entries : Trimmed(entries[j].key) = k}
<1>1. /\ DOMAIN ParsedFlag(entries) = keys
      /\ \A k \in keys : ParsedFlag(entries)[k] = Trimmed(entries[Max(mine(k))].val)
  BY DEF ParsedFlag
<1>2. \A k : k \in keys <=> mine(k) # {}
  BY DEF Elements
<1>3. \A k : Wanted(k) = IF mine(k) # {} THEN Trimmed(entries[Max(mine(k))].val)
                         ELSE IF k \in DOMAIN orig.subs THEN orig.subs[k] ELSE BuiltIns(orig)[k]
  BY DEF Wanted
<1>4. ASSUME NEW k \in keys PROVE Trimmed(entries[Max(mine(k))].val) \in Text
  <2>1. Len(entries) \in Nat /\ DOMAIN entries = 1 .. Len(entries)  BY DEF EntriesOk, IsList
  <2>2. mine(k) \in SUBSET (1 .. Len(entries)) /\ mine(k) # {}  BY <1>2, <2>1
  <2> HIDE DEF mine, keys
  <2>3. Max(mine(k)) \in mine(k)
    <3>1. 1 \in Int /\ Len(entries) \in Int  BY <2>1
    <3> QED  BY <2>2, <3>1, GreatestInteger
  <2>4. entries[Max(mine(k))].val \in Text
    BY <2>1, <2>2, <2>3 DEF EntriesOk, Elements
  <2> QED  BY <2>4, TrimmedType
<1> HIDE DEF mine, keys
<1>5. \A k \in keys : ParsedFlag(entries)[k] = Wanted(k) /\ Wanted(k) \in Text
  BY <1>1, <1>2, <1>3, <1>4
<1>6. \A k : k \notin keys =>
         Wanted(k) = IF k \in DOMAIN orig.subs THEN orig.subs[k] ELSE BuiltIns(orig)[k]
  BY <1>2, <1>3
<1> QED  BY <1>1, <1>5, <1>6 DEF keys

(* Built-in keys have texts for values. *)
LEMMA BuiltInsFacts ==
    ASSUME WellFormed(orig)
    PROVE  /\ DOMAIN BuiltIns(orig) = ValidBuiltIns
           /\ \A k \in ValidBuiltIns : BuiltIns(orig)[k] \in Text
<1> DEFINE c == orig.commit
           m == Min({MaxShortShaLength, Len(c)})
<1>1. orig.project \in Text /\ c \in Text /\ << >> \in Text
  BY DEF WellFormed, Text
<1>2. SubSeq(c, 1, m) \in Text
  <2> HIDE DEF c
  <2>1. Len(c) \in Nat /\ \A j \in 1 .. Len(c) : c[j] \in STRING
    BY <1>1, LenProperties, ElementOfSeq DEF Text
  <2>2. \E x \in {MaxShortShaLength, Len(c)} : \A y \in {MaxShortShaLength, Len(c)} : x =< y
    <3>1. {MaxShortShaLength, Len(c)} \in SUBSET Nat  BY <2>1 DEF MaxShortShaLength
    <3> QED  BY <3>1, LeastNatural
  <2>3. m \in {MaxShortShaLength, Len(c)} /\ \A y \in {MaxShortShaLength, Len(c)} : m =< y
    BY <2>2 DEF Min
  <2> HIDE DEF m
  <2>4. m \in Nat /\ m =< Len(c)  BY <2>1, <2>3 DEF MaxShortShaLength
  <2>5. 1 \in Int /\ m \in Int /\ \A j \in 1 .. m : c[j] \in STRING  BY <2>1, <2>4
  <2> QED  BY <2>5, SubSeqProperties DEF Text
<1> HIDE DEF c, m
<1>3. DOMAIN BuiltIns(orig) = ValidBuiltIns  BY DEF BuiltIns
<1>4. ASSUME NEW k \in ValidBuiltIns PROVE BuiltIns(orig)[k] \in Text
  <2>1. BuiltIns(orig)[k] = CASE k = ProjectId  -> orig.project
                              [] k = BranchName -> << >>
                              [] k = CommitSha  -> c
                              [] k = ShortSha   -> SubSeq(c, 1, m)
    BY DEF BuiltIns, c, m
  <2>2. k = ProjectId \/ k = BranchName \/ k = CommitSha \/ k = ShortSha
    BY DEF ValidBuiltIns, Overridable
  <2> DEFINE short == SubSeq(c, 1, m)
             project == orig.project
  <2>3. short \in Text /\ project \in Text  BY <1>1, <1>2
  <2> HIDE DEF short, project
  <2>4. BuiltIns(orig)[k] \in {project, << >>, c, short}
    BY <2>1, <2>2 DEF short, project
  <2> QED  BY <1>1, <2>3, <2>4
<1> QED  BY <1>3, <1>4

(* What sanitizeBuildTags has kept after each tag. *)
KeepNext(kept, t) == IF t = << >> \/ t \in Elements(kept) THEN kept ELSE Append(kept, t)

IsKeep(tags, l, keep) ==
    keep = [j \in 0 .. l |-> IF j = 0 THEN << >> ELSE KeepNext(keep[j - 1], tags[j])]

(* The recursive function of SanitizedTags exists. *)
LEMMA KeepExists ==
    ASSUME NEW tags, NEW l \in Nat
    PROVE  \E keep : IsKeep(tags, l, keep)
<1> DEFINE S == {k \in Nat : \E keep : IsKeep(tags, k, keep)}
<1>1. 0 \in S
  <2> DEFINE keep == [k \in 0 .. 0 |-> << >>]
  <2>1. IsKeep(tags, 0, keep)  BY DEF IsKeep
  <2> QED  BY <2>1
<1>2. ASSUME NEW k \in Nat, k \in S PROVE k + 1 \in S
  <2>1. PICK g : IsKeep(tags, k, g)  BY <1>2
  <2> DEFINE h == [j \in 0 .. (k + 1) |-> IF j = k + 1 THEN KeepNext(g[k], tags[j]) ELSE g[j]]
  <2>2. \A j \in 0 .. (k + 1) : h[j] = IF j = 0 THEN << >> ELSE KeepNext(h[j - 1], tags[j])
    <3> TAKE j \in 0 .. (k + 1)
    <3>1. CASE j = k + 1
      BY <3>1
    <3>2. CASE j \in 0 .. k
      <4>1. h[j] = g[j] /\ (j # 0 => h[j - 1] = g[j - 1])  BY <3>2
      <4>2. g[j] = IF j = 0 THEN << >> ELSE KeepNext(g[j - 1], tags[j])
        BY <2>1, <3>2 DEF IsKeep
      <4> HIDE DEF h
      <4> QED  BY <3>2, <4>1, <4>2
    <3> QED  BY <3>1, <3>2
  <2>3. h = [j \in 0 .. (k + 1) |-> IF j = 0 THEN << >> ELSE KeepNext(h[j - 1], tags[j])]
    <3>1. DOMAIN h = 0 .. (k + 1) /\ h = [j \in DOMAIN h |-> h[j]]  OBVIOUS
    <3> HIDE DEF h
    <3> QED  BY <2>2, <3>1
  <2> HIDE DEF h
  <2> QED  BY <2>3 DEF IsKeep
<1> HIDE DEF S
<1>3. Nat \subseteq S  BY <1>1, <1>2, NatSetInduction
<1> QED  BY <1>3 DEF S

(* One more tag: nothing is lost, and nothing is there twice. *)
LEMMA KeepNextSound ==
    ASSUME NEW V, NEW kept \in Seq(V), ~ Repeats(kept), NEW t \in V
    PROVE  /\ KeepNext(kept, t) \in Seq(V)
           /\ ~ Repeats(KeepNext(kept, t))
           /\ Elements(KeepNext(kept, t)) = (Elements(kept) \cup {t}) \ ({<< >>} \ Elements(kept))
<1>1. CASE t = << >> \/ t \in Elements(kept)
  BY <1>1 DEF KeepNext
<1>2. CASE t # << >> /\ t \notin Elements(kept)
  <2>1. KeepNext(kept, t) = Append(kept, t)  BY <1>2 DEF KeepNext
  <2> DEFINE r == Append(kept, t)
  <2>2. /\ r \in Seq(V) /\ DOMAIN r = 1 .. (Len(kept) + 1) /\ DOMAIN kept = 1 .. Len(kept)
        /\ Len(kept) \in Nat
        /\ \A j \in 1 .. Len(kept) : r[j] = kept[j]
        /\ r[Len(kept) + 1] = t
    OBVIOUS
  <2> HIDE DEF r
  <2>3. Elements(r) = Elements(kept) \cup {t}
    BY <2>2 DEF Elements
  <2>4. ~ Repeats(r)
    BY <1>2, <2>2 DEF Repeats, Elements
  <2> QED  BY <1>2, <2>1, <2>2, <2>3, <2>4 DEF r
<1> QED  BY <1>1, <1>2

(* sanitizeBuildTags drops empty and repeated tags, and nothing else. *)
LEMMA SanitizedSound ==
    ASSUME NEW tags, IsList(tags)
    PROVE  /\ ~ Repeats(SanitizedTags(tags))
           /\ Elements(SanitizedTags(tags)) = Elements(tags) \ {<< >>}
<1> DEFINE l == Len(tags)
           V == Elements(tags)
           keep == CHOOSE keep : IsKeep(tags, l, keep)
<1>1. l \in Nat /\ DOMAIN tags = 1 .. l  BY DEF IsList
<1>2. IsKeep(tags, l, keep)  BY <1>1, KeepExists
<1>3. SanitizedTags(tags) = keep[l]
  BY DEF SanitizedTags, IsKeep, KeepNext
<1> HIDE DEF keep, l
<1>4. /\ keep[0] = << >>
      /\ \A j \in 1 .. l : keep[j] = KeepNext(keep[j - 1], tags[j])
  BY <1>1, <1>2 DEF IsKeep
<1> DEFINE P(j) == /\ keep[j] \in Seq(V)
                   /\ ~ Repeats(keep[j])
                   /\ Elements(keep[j]) = {tags[k] : k \in 1 .. j} \ {<< >>}
           S == {j \in Nat : j =< l => P(j)}
<1>5. 0 \in S
  <2>1. << >> \in Seq(V) /\ DOMAIN << >> = {}  OBVIOUS
  <2>2. ~ Repeats(<< >>) /\ Elements(<< >>) = {}
    BY <2>1 DEF Repeats, Elements
  <2>3. {tags[k] : k \in 1 .. 0} = {}  OBVIOUS
  <2> HIDE DEF V
  <2>4. P(0)  BY <1>4, <2>1, <2>2, <2>3
  <2> QED  BY <2>4
<1>6. ASSUME NEW j \in Nat, j \in S PROVE j + 1 \in S
  <2> SUFFICES ASSUME j + 1 =< l PROVE P(j + 1)
    OBVIOUS
  <2>1. P(j)  BY <1>1, <1>6
  <2>2. keep[j + 1] = KeepNext(keep[j], tags[j + 1]) /\ tags[j + 1] \in V
    BY <1>1, <1>4 DEF Elements
  <2>3. /\ keep[j + 1] \in Seq(V)
        /\ ~ Repeats(keep[j + 1])
        /\ Elements(keep[j + 1]) =
              (Elements(keep[j]) \cup {tags[j + 1]}) \ ({<< >>} \ Elements(keep[j]))
    <3> HIDE DEF V
    <3> QED  BY <2>1, <2>2, KeepNextSound
  <2>4. {tags[k] : k \in 1 .. (j + 1)} = {tags[k] : k \in 1 .. j} \cup {tags[j + 1]}
    <3>1. 1 .. (j + 1) = (1 .. j) \cup {j + 1}  OBVIOUS
    <3> QED  BY <3>1
  <2>5. Elements(keep[j + 1]) = {tags[k] : k \in 1 .. (j + 1)} \ {<< >>}
    BY <2>1, <2>3, <2>4
  <2> QED  BY <2>3, <2>5
<1>7. Nat \subseteq S
  <2> HIDE DEF S
  <2> QED  BY <1>5, <1>6, NatSetInduction
<1>8. P(l)
  <2>1. l \in S  BY <1>1, <1>7
  <2> HIDE DEF P
  <2> QED  BY <1>1, <2>1
<1> QED  BY <1>1, <1>3, <1>8 DEF Elements

(* The tags are those that were loaded, then those after the substitution, *)
(* then what sanitizeBuildTags has kept of them; what replaces the keys    *)
(* does not change on the way.                                             *)
Expanded(t) == Expand(ReplacementsOf(b), t)

TagsInv ==
    /\ Early => b.tags = orig.tags
    /\ pc \in {"names", "tags"} => b.tags = [j \in DOMAIN orig.tags |-> Expanded(orig.tags[j])]
    /\ pc \in {"images", "accepted"} =>
          /\ \A t \in Elements(b.tags) : ValidTag(t)
          /\ ~ Repeats(b.tags)
          /\ Elements(b.tags) = {Expanded(t) : t \in Elements(orig.tags)} \ {<< >>}

(* Each step of SubstituteAndValidate keeps it. *)
LEMMA TagsStep == IInv /\ TagsInv /\ [Next]_vars => TagsInv'
<1> SUFFICES ASSUME IInv, TagsInv, [Next]_vars PROVE TagsInv'
  OBVIOUS
<1>1. DOMAIN b = BuildFields /\ IsList(orig.tags)
  BY DEF IInv, Kept, WellFormed
<1>2. orig' = orig
  BY DEF Next, vars, ParseFlag, CheckSubstitutions, CheckFlag, Merge, CheckMerged,
     CheckArtifacts, CheckSteps, CheckTemplate, CheckVolumes, CheckEnvVars, CheckSecrets,
     Substitute, CheckBuildStepNames, SanitizeBuildTags, CheckImageNames, Check, Proceed
<1>3. CASE Merge
  BY <1>1, <1>2, <1>3 DEF Merge, Check, Proceed, TagsInv, Early, BuildFields
<1>4. CASE CheckArtifacts
  BY <1>1, <1>2, <1>4
     DEF CheckArtifacts, CheckedArtifacts, Check, Proceed, TagsInv, Early, BuildFields
<1>5. CASE Substitute
  <2>1. b' = SubstituteBuildFields(b) /\ pc' = "names" /\ b.tags = orig.tags
    BY <1>5 DEF Substitute, Check, Proceed, TagsInv, Early
  <2>2. b'.subs = b.subs /\ b'.project = b.project /\ b'.commit = b.commit
    BY <1>1, <2>1 DEF SubstituteBuildFields, BuildFields
  <2>3. ReplacementsOf(b') = ReplacementsOf(b)
    BY <2>2 DEF ReplacementsOf, BuiltIns
  <2>4. b'.tags = [j \in DOMAIN b.tags |-> Expand(ReplacementsOf(b), b.tags[j])]
    BY <1>1, <2>1 DEF SubstituteBuildFields, Each, BuildFields
  <2> QED  BY <1>2, <2>1, <2>3, <2>4 DEF TagsInv, Early, Expanded
<1>6. CASE SanitizeBuildTags
  <2> DEFINE tags == b.tags
             kept == SanitizedTags(tags)
  <2>1. pc = "tags" /\ (pc' = "rejected" \/ pc' = "images")
    BY <1>6 DEF SanitizeBuildTags, Check, Proceed
  <2>2. CASE pc' = "rejected"
    BY <2>2 DEF TagsInv, Early
  <2>3. CASE pc' = "images"
    <3>1. (\A t \in Elements(kept) : ValidTag(t)) /\ b' = [b EXCEPT !.tags = kept]
      BY <1>6, <2>3 DEF SanitizeBuildTags, Check, Proceed
    <3>2. /\ b'.tags = kept
          /\ b'.subs = b.subs /\ b'.project = b.project /\ b'.commit = b.commit
      BY <1>1, <3>1 DEF BuildFields
    <3>3. ReplacementsOf(b') = ReplacementsOf(b)
      BY <3>2 DEF ReplacementsOf, BuiltIns
    <3>4. tags = [j \in DOMAIN orig.tags |-> Expanded(orig.tags[j])]
      BY <2>1 DEF TagsInv
    <3>5. IsList(tags) /\ Elements(tags) = {Expanded(t) : t \in Elements(orig.tags)}
      <4> DEFINE N == Len(orig.tags)
      <4>1. N \in Nat /\ DOMAIN orig.tags = 1 .. N  BY <1>1 DEF IsList
      <4>2. tags \in [1 .. N -> Elements(tags)]  BY <3>4, <4>1 DEF Elements
      <4>3. tags \in Seq(Elements(tags))  BY <4>1, <4>2, SeqDef
      <4>4. IsList(tags)  BY <4>3, LenProperties DEF IsList
      <4>5. Elements(tags) = {Expanded(t) : t \in Elements(orig.tags)}
        BY <3>4 DEF Elements
      <4> QED  BY <4>4, <4>5
    <3>6. ~ Repeats(kept) /\ Elements(kept) = Elements(tags) \ {<< >>}
      BY <3>5, SanitizedSound
    <3>7. \A t : Expanded(t)' = Expanded(t)
      BY <3>3 DEF Expanded
    <3> HIDE DEF kept
    <3> QED  BY <1>2, <2>3, <3>1, <3>2, <3>5, <3>6, <3>7 DEF TagsInv, Early
  <2> QED  BY <2>1, <2>2, <2>3
<1>7. CASE b' = b
  <2>1. \A t : Expanded(t)' = Expanded(t)  BY <1>7 DEF Expanded
  <2>2. \/ Early' => Early
        \/ Substitute \/ SanitizeBuildTags
    BY <1>7 DEF Next, vars, ParseFlag, CheckSubstitutions, CheckFlag, Merge, CheckMerged,
       CheckArtifacts, CheckSteps, CheckTemplate, CheckVolumes, CheckEnvVars, CheckSecrets,
       CheckBuildStepNames, CheckImageNames, Check, Proceed, Early
  <2>3. \/ /\ pc' \in {"names", "tags"} => pc \in {"names", "tags"}
           /\ pc' \in {"images", "accepted"} => pc \in {"images", "accepted"}
        \/ Substitute \/ SanitizeBuildTags
    BY <1>7 DEF Next, vars, ParseFlag, CheckSubstitutions, CheckFlag, Merge, CheckMerged,
       CheckArtifacts, CheckSteps, CheckTemplate, CheckVolumes, CheckEnvVars, CheckSecrets,
       CheckBuildStepNames, CheckImageNames, Check, Proceed
  <2> QED  BY <1>2, <1>5, <1>6, <1>7, <2>1, <2>2, <2>3 DEF TagsInv
<1> QED
  BY <1>3, <1>4, <1>5, <1>6, <1>7 DEF Next, vars, ParseFlag, CheckSubstitutions, CheckFlag,
     CheckMerged, CheckSteps, CheckTemplate, CheckVolumes, CheckEnvVars, CheckSecrets,
     CheckBuildStepNames, CheckImageNames

-----------------------------------------------------------------------------
(***************************************************************************)
(* The build that each call leaves, as a function of the build that was    *)
(* loaded and of the flag: of the changes that calls make to it none is    *)
(* lost, and none is made twice.                                           *)
(***************************************************************************)
MergedBuild   == [orig EXCEPT !.subs = Over(ParsedFlag(entries), @)]
CheckedBuild  == CheckedArtifacts(MergedBuild)
ReplacedBuild == SubstituteBuildFields(CheckedBuild)
CleanedBuild  == [ReplacedBuild EXCEPT !.tags = SanitizedTags(@)]

Unmerged == {"parse", "config", "flag", "merge"}
Loaded   == {"merged", "artifacts"}
Checked  == {"steps", "template", "volumes", "envs", "secrets", "substitute"}
Replaced == {"names", "tags"}
Cleaned  == {"images", "accepted"}

BuildIs ==
    /\ pc \in Unmerged => b = orig
    /\ pc \in Loaded   => b = MergedBuild
    /\ pc \in Checked  => b = CheckedBuild
    /\ pc \in Replaced => b = ReplacedBuild
    /\ pc \in Cleaned  => b = CleanedBuild

(* What the checks of the substitutions have found, from each of them on. *)
ConfigPassed   == pc \in {"flag", "merge"} \cup Loaded \cup Checked \cup Replaced \cup Cleaned
FlagPassed     == pc \in {"merge"} \cup Loaded \cup Checked \cup Replaced \cup Cleaned
TemplatePassed == pc \in (Checked \ {"steps", "template"}) \cup Replaced \cup Cleaned

CallsInv ==
    /\ WellFormed(orig) /\ EntriesOk
    /\ BuildIs
    /\ pc # "parse" => flag = ParsedFlag(entries)
    /\ ConfigPassed => ~ SubstitutionsError(orig.subs)
    /\ FlagPassed => ~ LooseError(ParsedFlag(entries))
    /\ TemplatePassed => ~ TemplateError(CheckedBuild)

(* Each call keeps it. *)
LEMMA CallsStep == CallsInv /\ [Next]_vars => CallsInv'
<1> SUFFICES ASSUME CallsInv, [Next]_vars PROVE CallsInv'
  OBVIOUS
<1> DEFINE parsed == ParsedFlag(entries)
           merged == MergedBuild
           checked == CheckedBuild
           replaced == ReplacedBuild
           cleaned == CleanedBuild
           formed == WellFormed(orig)
           ok == EntriesOk
           subsError == SubstitutionsError(orig.subs)
           looseError == LooseError(parsed)
           templateError == TemplateError(checked)
<1>1. orig' = orig /\ entries' = entries
  BY DEF Next, vars, ParseFlag, CheckSubstitutions, CheckFlag, Merge, CheckMerged,
     CheckArtifacts, CheckSteps, CheckTemplate, CheckVolumes, CheckEnvVars, CheckSecrets,
     Substitute, CheckBuildStepNames, SanitizeBuildTags, CheckImageNames, Check, Proceed
<1>2. /\ parsed' = parsed /\ merged' = merged /\ checked' = checked
      /\ replaced' = replaced /\ cleaned' = cleaned
      /\ formed' = formed /\ ok' = ok
      /\ subsError' = subsError /\ looseError' = looseError /\ templateError' = templateError
  BY <1>1 DEF MergedBuild, CheckedBuild, ReplacedBuild, CleanedBuild, EntriesOk
<1>3. /\ formed /\ ok
      /\ pc \in Unmerged => b = orig
      /\ pc \in Loaded   => b = merged
      /\ pc \in Checked  => b = checked
      /\ pc \in Replaced => b = replaced
      /\ pc \in Cleaned  => b = cleaned
      /\ pc # "parse" => flag = parsed
      /\ ConfigPassed => ~ subsError
      /\ FlagPassed => ~ looseError
      /\ TemplatePassed => ~ templateError
  BY DEF CallsInv, BuildIs
<1>4. /\ merged = [orig EXCEPT !.subs = Over(parsed, @)]
      /\ checked = CheckedArtifacts(merged)
      /\ replaced = SubstituteBuildFields(checked)
      /\ cleaned = [replaced EXCEPT !.tags = SanitizedTags(replaced.tags)]
  BY DEF MergedBuild, CheckedBuild, ReplacedBuild, CleanedBuild
<1>5. SUFFICES /\ pc' \in Unmerged => b' = orig
               /\ pc' \in Loaded   => b' = merged
               /\ pc' \in Checked  => b' = checked
               /\ pc' \in Replaced => b' = replaced
               /\ pc' \in Cleaned  => b' = cleaned
               /\ pc' # "parse" => flag' = parsed
               /\ ConfigPassed' => ~ subsError
               /\ FlagPassed' => ~ looseError
               /\ TemplatePassed' => ~ templateError
  BY <1>1, <1>2, <1>3 DEF CallsInv, BuildIs
<1> HIDE DEF parsed, merged, checked, replaced, cleaned, formed, ok, subsError, looseError, templateError
<1> USE DEF Unmerged, Loaded, Checked, Replaced, Cleaned, ConfigPassed, FlagPassed, TemplatePassed
<1>6. CASE ParseFlag
  <2>1. flag' = parsed  BY <1>6 DEF ParseFlag, parsed
  <2> QED  BY <1>3, <1>6, <2>1 DEF ParseFlag, Proceed
<1>7. CASE CheckSubstitutions
  <2>1. pc = "config" /\ b = orig  BY <1>3, <1>7 DEF CheckSubstitutions, Check, Proceed
  <2>2. pc' = IF subsError THEN "rejected" ELSE "flag"
    BY <1>7, <2>1 DEF CheckSubstitutions, Check, Proceed, subsError
  <2> QED  BY <1>3, <1>7, <2>1, <2>2 DEF CheckSubstitutions, Check
<1>8. CASE CheckFlag
  <2>1. pc = "flag" /\ flag = parsed  BY <1>3, <1>8 DEF CheckFlag, Check, Proceed
  <2>2. pc' = IF looseError THEN "rejected" ELSE "merge"
    BY <1>8, <2>1 DEF CheckFlag, Check, Proceed, looseError
  <2> QED  BY <1>3, <1>8, <2>1, <2>2 DEF CheckFlag, Check
<1>9. CASE Merge
  <2>1. pc = "merge" /\ flag = parsed /\ b = orig
    BY <1>3, <1>9 DEF Merge, Check, Proceed
  <2>2. pc' = "merged" /\ flag' = flag /\ b' = merged
    BY <1>4, <1>9, <2>1 DEF Merge, Check, Proceed
  <2> QED  BY <1>3, <2>1, <2>2
<1>10. CASE CheckMerged
  BY <1>3, <1>10 DEF CheckMerged, Check, Proceed
<1>11. CASE CheckArtifacts
  <2>1. pc = "artifacts" /\ b = merged /\ flag' = flag
    BY <1>3, <1>11 DEF CheckArtifacts, Check, Proceed
  <2>2. pc' = "rejected" \/ (pc' = "steps" /\ b' = checked)
    BY <1>4, <1>11, <2>1 DEF CheckArtifacts, Check, Proceed
  <2> QED  BY <1>3, <2>1, <2>2
<1>12. CASE CheckTemplate
  <2>1. pc = "template" /\ b = checked
    BY <1>3, <1>12 DEF CheckTemplate, Check, Proceed
  <2>2. pc' = IF templateError THEN "rejected" ELSE "volumes"
    BY <1>12, <2>1 DEF CheckTemplate, Check, Proceed, templateError, checked
  <2> QED  BY <1>3, <1>12, <2>1, <2>2 DEF CheckTemplate, Check
<1>13. CASE CheckSecrets
  <2>1. pc = "secrets" /\ pc' \in {"rejected", "panic", "substitute"} /\ b' = b /\ flag' = flag
    BY <1>13 DEF CheckSecrets
  <2> QED  BY <1>3, <2>1
<1>14. CASE Substitute
  <2>1. pc = "substitute" /\ b = checked /\ flag' = flag
    BY <1>3, <1>14 DEF Substitute, Check, Proceed
  <2>2. pc' = "names" /\ b' = replaced
    BY <1>4, <1>14, <2>1 DEF Substitute, Check, Proceed
  <2> QED  BY <1>3, <2>1, <2>2
<1>15. CASE SanitizeBuildTags
  <2>1. pc = "tags" /\ b = replaced /\ flag' = flag
    BY <1>3, <1>15 DEF SanitizeBuildTags, Check, Proceed
  <2>2. pc' = "rejected" \/ (pc' = "images" /\ b' = cleaned)
    BY <1>4, <1>15, <2>1 DEF SanitizeBuildTags, Check, Proceed
  <2> QED  BY <1>3, <2>1, <2>2
<1>16. CASE CheckSteps \/ CheckVolumes \/ CheckEnvVars \/ CheckBuildStepNames \/ CheckImageNames
  BY <1>3, <1>16
     DEF CheckSteps, CheckVolumes, CheckEnvVars, CheckBuildStepNames, CheckImageNames, Check, Proceed
<1>17. CASE UNCHANGED vars
  BY <1>3, <1>17 DEF vars
<1> QED
  BY <1>6, <1>7, <1>8, <1>9, <1>10, <1>11, <1>12, <1>13, <1>14, <1>15, <1>16, <1>17 DEF Next

(* The inductive invariant for what is replaced. *)
LEMMA CallsInvariant == Spec => []CallsInv
<1>1. Init => CallsInv
  BY InputsAssumption DEF Init, CallsInv, BuildIs, EntriesOk, ConfigPassed, FlagPassed,
     TemplatePassed, Unmerged, Loaded, Checked, Replaced, Cleaned
<1> QED  BY <1>1, CallsStep, PTL DEF Spec

-----------------------------------------------------------------------------
(* CheckArtifacts and the merge leave alone what the replacements, and the *)
(* steps and the tags, are taken from.                                     *)
LEMMA CheckedFacts ==
    ASSUME WellFormed(orig)
    PROVE  LET c == CheckedBuild
           IN  /\ DOMAIN c = BuildFields /\ DOMAIN c.artifacts = ArtifactFields
               /\ c.subs = Over(ParsedFlag(entries), orig.subs)
               /\ c.steps = orig.steps /\ c.tags = orig.tags
               /\ c.project = orig.project /\ c.commit = orig.commit /\ c.loose = orig.loose
               /\ c.images = AllImages(orig) /\ c.artifacts.images = AllImages(orig)
               /\ c.artifacts.objects = orig.artifacts.objects
               /\ c.artifacts.paths = orig.artifacts.paths
               /\ c.artifacts.location = IF HasObjects(orig) THEN WithSlash(orig.artifacts.location)
                                         ELSE orig.artifacts.location
<1> DEFINE m == MergedBuild
           c == CheckedBuild
           all == AllImages(m)
           place == IF HasObjects(m) THEN WithSlash(m.artifacts.location) ELSE m.artifacts.location
<1>1. DOMAIN orig = BuildFields /\ DOMAIN orig.artifacts = ArtifactFields
  BY DEF WellFormed
<1>2. /\ DOMAIN m = BuildFields /\ m.subs = Over(ParsedFlag(entries), orig.subs)
      /\ m.steps = orig.steps /\ m.tags = orig.tags /\ m.images = orig.images
      /\ m.artifacts = orig.artifacts
      /\ m.project = orig.project /\ m.commit = orig.commit /\ m.loose = orig.loose
  BY <1>1 DEF MergedBuild, BuildFields
<1> HIDE DEF m
<1>3. all = AllImages(orig) /\ place = IF HasObjects(orig) THEN WithSlash(orig.artifacts.location)
                                       ELSE orig.artifacts.location
  BY <1>2 DEF AllImages, HasObjects
<1>4. c = [m EXCEPT !.images = all, !.artifacts.images = all, !.artifacts.location = place]
  BY DEF CheckedBuild, CheckedArtifacts, m
<1> HIDE DEF c, all, place
<1>5. /\ DOMAIN c = BuildFields /\ DOMAIN c.artifacts = ArtifactFields
      /\ c.subs = m.subs /\ c.steps = m.steps /\ c.tags = m.tags
      /\ c.project = m.project /\ c.commit = m.commit /\ c.loose = m.loose
      /\ c.images = all /\ c.artifacts.images = all /\ c.artifacts.location = place
      /\ c.artifacts.objects = m.artifacts.objects /\ c.artifacts.paths = m.artifacts.paths
  BY <1>1, <1>2, <1>4 DEF BuildFields, ArtifactFields
<1> QED  BY <1>2, <1>3, <1>5 DEF c

(* The keys of the flag, then those of the config, then the built-in ones  *)
(* are replaced by what the user means by them.                            *)
LEMMA ReplacementsAreMeant ==
    ASSUME WellFormed(orig), EntriesOk
    PROVE  /\ ReplacementsOf(CheckedBuild) = Meaning
           /\ \A k \in DOMAIN Meaning : Meaning[k] \in Text
           /\ DOMAIN CheckedBuild.subs = Given
<1> DEFINE c == CheckedBuild
           f == ParsedFlag(entries)
           builtIns == BuiltIns(orig)
<1>1. c.subs = Over(f, orig.subs) /\ BuiltIns(c) = builtIns
  <2>1. c.subs = Over(f, orig.subs) /\ c.project = orig.project /\ c.commit = orig.commit
    BY CheckedFacts
  <2> HIDE DEF c, f
  <2> QED  BY <2>1 DEF BuiltIns
<1>2. ReplacementsOf(c) = Over(Over(f, orig.subs), builtIns)
  BY <1>1 DEF ReplacementsOf
<1>3. DOMAIN builtIns = ValidBuiltIns /\ \A k \in ValidBuiltIns : builtIns[k] \in Text
  BY BuiltInsFacts
<1>4. /\ Given = DOMAIN f \cup DOMAIN orig.subs
      /\ \A k \in DOMAIN f : f[k] = Wanted(k) /\ Wanted(k) \in Text
      /\ \A k \in Given \cup ValidBuiltIns :
            k \notin DOMAIN f =>
                Wanted(k) = IF k \in DOMAIN orig.subs THEN orig.subs[k] ELSE builtIns[k]
  BY FlagFacts DEF Given
<1>5. \A k \in DOMAIN orig.subs : orig.subs[k] \in Text
  BY DEF WellFormed
<1> HIDE DEF f, builtIns, c
<1>6. DOMAIN Over(f, orig.subs) = Given
  BY <1>4 DEF Over
<1>7. Over(Over(f, orig.subs), builtIns) = Meaning
  BY <1>3, <1>4, <1>6 DEF Over, Meaning
<1>8. \A k \in Given \cup ValidBuiltIns : Wanted(k) \in Text
  BY <1>3, <1>4, <1>5
<1> QED  BY <1>1, <1>2, <1>6, <1>7, <1>8 DEF Meaning, c

(* What the substitution makes of a step, and of an image.                 *)
EntryMeant(e) == [e EXCEPT !.key = Meant(@), !.val = Meant(@)]
StepMeant(s) == [s EXCEPT !.name = Meant(@), !.dir = Meant(@), !.entrypoint = Meant(@),
                          !.args = [j \in DOMAIN @ |-> Meant(@[j])],
                          !.env = [j \in DOMAIN @ |-> EntryMeant(@[j])]]

(* SubstituteBuildFields replaces the keys of steps once, and of the       *)
(* images, that are one slice under two names, twice.                      *)
LEMMA ReplacedFacts ==
    ASSUME WellFormed(orig), EntriesOk
    PROVE  LET r == ReplacedBuild
               all == AllImages(orig)
           IN  /\ DOMAIN r = BuildFields
               /\ r.subs = CheckedBuild.subs /\ r.project = orig.project /\ r.commit = orig.commit
               /\ r.images = [j \in DOMAIN all |-> Meant(Meant(all[j]))]
               /\ r.artifacts.images = r.images
               /\ DOMAIN r.steps = DOMAIN orig.steps
               /\ \A j \in DOMAIN orig.steps : r.steps[j] = StepMeant(orig.steps[j])
<1> DEFINE c == CheckedBuild
           r == ReplacedBuild
           R == ReplacementsOf(c)
           all == AllImages(orig)
           apply(t) == Expand(R, t)
           twice(t) == apply(apply(t))
           entry(e) == [e EXCEPT !.key = apply(@), !.val = apply(@)]
           step(s) == [s EXCEPT !.name = apply(@), !.dir = apply(@), !.entrypoint = apply(@),
                                !.args = Each(@, apply), !.env = Each(@, entry)]
           steps == Each(c.steps, step)
           images == Each(c.images, twice)
           pushed == Each(c.artifacts.images, twice)
<1>1. \E tags, logs, place, paths :
         r = [c EXCEPT !.steps = steps, !.images = images, !.tags = tags, !.logs = logs,
                       !.artifacts.images = pushed, !.artifacts.location = place,
                       !.artifacts.paths = paths]
  BY DEF ReplacedBuild, SubstituteBuildFields
<1>2. \A t : apply(t) = Meant(t)
  BY ReplacementsAreMeant DEF Meant, Meaning
<1>3. /\ DOMAIN c = BuildFields /\ DOMAIN c.artifacts = ArtifactFields
      /\ c.steps = orig.steps /\ c.images = all /\ c.artifacts.images = all
      /\ c.project = orig.project /\ c.commit = orig.commit
  BY CheckedFacts
<1>4. DOMAIN steps = DOMAIN c.steps /\ \A j \in DOMAIN c.steps : steps[j] = step(c.steps[j])
  BY DEF Each
<1>5. images = pushed /\ images = [j \in DOMAIN all |-> Meant(Meant(all[j]))]
  <2>1. images = [j \in DOMAIN all |-> twice(all[j])] /\ pushed = [j \in DOMAIN all |-> twice(all[j])]
    BY <1>3 DEF Each
  <2>2. \A t : twice(t) = Meant(Meant(t))  BY <1>2
  <2> HIDE DEF twice, all, images, pushed
  <2> QED  BY <2>1, <2>2
<1>6. \A s : step(s) = StepMeant(s)
  <2>1. \A e : entry(e) = EntryMeant(e)
    <3> TAKE e
    <3>1. apply(e.key) = Meant(e.key) /\ apply(e.val) = Meant(e.val)  BY <1>2
    <3> HIDE DEF apply
    <3> QED  BY <3>1 DEF EntryMeant
  <2>2. ASSUME NEW s PROVE step(s) = StepMeant(s)
    <3> DEFINE args == [j \in DOMAIN s.args |-> apply(s.args[j])]
               env == [j \in DOMAIN s.env |-> entry(s.env[j])]
    <3>1. args = [j \in DOMAIN s.args |-> Meant(s.args[j])]  BY <1>2
    <3>2. env = [j \in DOMAIN s.env |-> EntryMeant(s.env[j])]
      <4> HIDE DEF entry
      <4> QED  BY <2>1
    <3>3. step(s) = [s EXCEPT !.name = apply(s.name), !.dir = apply(s.dir),
                              !.entrypoint = apply(s.entrypoint), !.args = args, !.env = env]
      BY DEF Each
    <3> HIDE DEF args, env, step, entry, apply
    <3> QED  BY <1>2, <3>1, <3>2, <3>3 DEF StepMeant
  <2> QED  BY <2>2
<1> HIDE DEF c, r, all, steps, images, pushed, step
<1>7. /\ DOMAIN r = BuildFields /\ r.subs = c.subs /\ r.project = c.project /\ r.commit = c.commit
      /\ r.images = images /\ r.artifacts.images = pushed /\ r.steps = steps
  <2>1. PICK tags, logs, place, paths :
           r = [c EXCEPT !.steps = steps, !.images = images, !.tags = tags, !.logs = logs,
                         !.artifacts.images = pushed, !.artifacts.location = place,
                         !.artifacts.paths = paths]
    BY <1>1
  <2> DEFINE a == [c.artifacts EXCEPT !.images = pushed, !.location = place, !.paths = paths]
  <2>2. a.images = pushed  BY <1>3 DEF ArtifactFields
  <2>3. r = [c EXCEPT !.steps = steps, !.images = images, !.tags = tags, !.logs = logs,
                      !.artifacts = a]
    BY <1>3, <2>1 DEF BuildFields
  <2> HIDE DEF a
  <2> QED  BY <1>3, <2>2, <2>3 DEF BuildFields
<1>8. \A j \in DOMAIN orig.steps : r.steps[j] = StepMeant(orig.steps[j])
  BY <1>3, <1>4, <1>6, <1>7
<1> QED  BY <1>3, <1>4, <1>5, <1>7, <1>8 DEF c, r, all

(* The build that is accepted, and what its keys were replaced by.         *)
LEMMA AcceptedFacts ==
    ASSUME CallsInv, Accepted
    PROVE  /\ ReplacementsOf(b) = Meaning
           /\ b.images = ReplacedBuild.images /\ b.artifacts.images = b.images
           /\ b.steps = ReplacedBuild.steps
           /\ ~ SubstitutionsError(orig.subs) /\ ~ LooseError(ParsedFlag(entries))
           /\ ~ TemplateError(CheckedBuild)
<1> DEFINE c == CheckedBuild
           r == ReplacedBuild
           kept == SanitizedTags(r.tags)
<1>1. /\ WellFormed(orig) /\ EntriesOk /\ b = [r EXCEPT !.tags = kept]
      /\ ~ SubstitutionsError(orig.subs) /\ ~ LooseError(ParsedFlag(entries)) /\ ~ TemplateError(c)
  BY DEF CallsInv, BuildIs, Accepted, Cleaned, CleanedBuild, ConfigPassed, FlagPassed, TemplatePassed
<1>2. /\ DOMAIN r = BuildFields /\ r.artifacts.images = r.images
      /\ r.subs = c.subs /\ r.project = orig.project /\ r.commit = orig.commit
  BY <1>1, ReplacedFacts
<1>3. c.project = orig.project /\ c.commit = orig.commit
  BY <1>1, CheckedFacts
<1>4. ReplacementsOf(c) = Meaning  BY <1>1, ReplacementsAreMeant
<1> HIDE DEF c, r, kept
<1>5. /\ b.steps = r.steps /\ b.images = r.images /\ b.artifacts = r.artifacts
      /\ b.subs = r.subs /\ b.project = r.project /\ b.commit = r.commit
  BY <1>1, <1>2 DEF BuildFields
<1>6. ReplacementsOf(b) = ReplacementsOf(c)
  BY <1>2, <1>3, <1>5 DEF ReplacementsOf, BuiltIns
<1> QED  BY <1>1, <1>2, <1>4, <1>5, <1>6 DEF c, r

(* The provers do not know a character from a string: of texts, it is said *)
(* that their characters are strings, or those that the code looks for.    *)
Char == STRING \cup {"$", "/"}

(* Texts are sequences of characters.                                      *)
LEMMA TextOfChars ==
    ASSUME NEW s \in Text
    PROVE  s \in Seq(Char)
<1>1. Len(s) \in Nat /\ DOMAIN s = 1 .. Len(s) /\ \A j \in 1 .. Len(s) : s[j] \in STRING
  BY LenProperties, ElementOfSeq DEF Text
<1>2. s \in Seq(STRING)  BY DEF Text
<1>3. s \in [1 .. Len(s) -> Char]
  <2>1. s = [j \in 1 .. Len(s) |-> s[j]]  BY <1>1, <1>2, LenProperties
  <2>2. \A j \in 1 .. Len(s) : s[j] \in Char  BY <1>1 DEF Char
  <2> HIDE DEF Char
  <2> QED  BY <2>1, <2>2
<1> QED  BY <1>1, <1>3, SeqDef

(* The slash that CheckArtifacts adds to the location is of no key.        *)
LEMMA CheckedKeys ==
    ASSUME WellFormed(orig)
    PROVE  TemplateKeys(CheckedBuild) = OrigKeys
<1> DEFINE c == CheckedBuild
           o == [orig EXCEPT !.images = AllImages(orig)]
           place == orig.artifacts.location
           texts(steps) == UNION {TextsOf(s) : s \in Elements(steps)}
           keys(T) == UNION {KeysIn(t) : t \in T}
           rest == texts(orig.steps) \cup Elements(AllImages(orig)) \cup Elements(orig.tags)
           paths == Elements(orig.artifacts.paths)
<1>0. \A build : /\ TemplateKeys(build) = keys(TemplateTexts(build))
                 /\ TemplateTexts(build) =
                       texts(build.steps) \cup Elements(build.images) \cup Elements(build.tags)
                       \cup (IF build.artifacts.objects
                             THEN {build.artifacts.location} \cup Elements(build.artifacts.paths)
                             ELSE {})
  BY DEF TemplateKeys, TemplateTexts, HasObjects, Location, Paths
<1>1. KeysIn(WithSlash(place)) = KeysIn(place)
  <2> DEFINE slash == "/"
  <2>1. place \in Seq(Char) /\ slash \in Char  BY TextOfChars DEF WellFormed, Char
  <2>2. Plainest(slash)  BY DEF Plainest, KeyStart, KeyChar
  <2> HIDE DEF place
  <2>3. WithSlash(place) = place \/ WithSlash(place) = Append(place, slash)  BY DEF WithSlash
  <2> HIDE DEF slash
  <2>4. KeysIn(Append(place, slash)) = KeysIn(place)  BY <2>1, <2>2, SlashIsNoKey
  <2> QED  BY <2>3, <2>4
<1>2. /\ TemplateTexts(o) = rest \cup (IF HasObjects(orig) THEN {place} \cup paths ELSE {})
  <2>1. /\ o.steps = orig.steps /\ o.images = AllImages(orig) /\ o.tags = orig.tags
        /\ o.artifacts = orig.artifacts
    BY DEF WellFormed, BuildFields
  <2> HIDE DEF o, texts, place
  <2> QED  BY <1>0, <2>1 DEF HasObjects, place
<1>3. TemplateTexts(c) = rest \cup (IF HasObjects(orig) THEN {WithSlash(place)} \cup paths ELSE {})
  <2>1. /\ c.steps = orig.steps /\ c.images = AllImages(orig) /\ c.tags = orig.tags
        /\ c.artifacts.objects = orig.artifacts.objects
        /\ c.artifacts.paths = orig.artifacts.paths
        /\ HasObjects(orig) => c.artifacts.location = WithSlash(place)
    BY CheckedFacts
  <2> HIDE DEF c, texts, place
  <2> QED  BY <1>0, <2>1 DEF HasObjects
<1> HIDE DEF c, o, rest, paths, place
<1>4. keys(TemplateTexts(o)) = keys(TemplateTexts(c))
  <2>1. /\ TemplateTexts(o) = rest \cup (IF HasObjects(orig) THEN {place} \cup paths ELSE {})
        /\ TemplateTexts(c) = rest \cup (IF HasObjects(orig) THEN {WithSlash(place)} \cup paths ELSE {})
    BY <1>2, <1>3
  <2>2. ASSUME NEW k PROVE k \in keys(TemplateTexts(o)) <=> k \in keys(TemplateTexts(c))
    BY <1>1, <2>1
  <2> HIDE DEF keys
  <2> QED  BY <2>2
<1> HIDE DEF keys
<1>5. TemplateKeys(o) = keys(TemplateTexts(o)) /\ TemplateKeys(c) = keys(TemplateTexts(c))
  BY <1>0
<1> QED  BY <1>4, <1>5 DEF OrigKeys, c, o

(***************************************************************************)
(* sanitizeBuildTags runs after the substitution, which may make tags      *)
(* equal, empty or invalid: those of an accepted build are none of it, and *)
(* no other tag has got lost, for any number of tags and any texts.        *)
(***************************************************************************)
THEOREM TagsAreSane == Spec => []TagsSane
<1>1. Init => TagsInv
  BY DEF Init, TagsInv, Early
<1>2. TagsInv /\ CallsInv => TagsSane
  <2> SUFFICES ASSUME TagsInv, CallsInv, Accepted PROVE TagsSane
    BY DEF TagsSane
  <2>1. \A t : Expanded(t) = Meant(t)
    BY AcceptedFacts DEF Expanded, Meant, Meaning
  <2>2. /\ \A t \in Elements(b.tags) : ValidTag(t)
        /\ ~ Repeats(b.tags)
        /\ Elements(b.tags) = {Expanded(t) : t \in Elements(orig.tags)} \ {<< >>}
    BY DEF TagsInv, Accepted
  <2> QED  BY <2>1, <2>2 DEF TagsSane
<1> QED  BY <1>1, <1>2, TagsStep, InductiveInvariant, CallsInvariant, PTL DEF Spec
-----------------------------------------------------------------------------
(* Keys that the user may not set, and those that he may set by the flag   *)
(* only, are not of the user's own kind.                                   *)
LEMMA BuiltInsAreNotUsers ==
    \A k \in ValidBuiltIns : ~ UserKey(k)
<1>1. ProjectId[1] = "A" /\ BranchName[1] = "A" /\ CommitSha[1] = "A" /\ ShortSha[1] = "A"
  BY DEF ProjectId, BranchName, CommitSha, ShortSha
<1>2. \A k \in ValidBuiltIns : k[1] = "A"
  BY <1>1 DEF ValidBuiltIns, Overridable
<1> QED  BY <1>2 DEF UserKey

(* What the checks of the substitutions and of the template say of keys.   *)
LEMMA KeysFaithful ==
    ASSUME CallsInv, Accepted
    PROVE  /\ ProjectId \notin Given /\ DOMAIN orig.subs \cap Overridable = {}
           /\ ~ orig.loose => Given \subseteq OrigKeys /\ OrigKeys \subseteq Given \cup ValidBuiltIns
<1> DEFINE f == ParsedFlag(entries)
           c == CheckedBuild
<1>1. WellFormed(orig) /\ EntriesOk  BY DEF CallsInv
<1>2. /\ ~ SubstitutionsError(orig.subs) /\ ~ LooseError(f) /\ ~ TemplateError(c)
  BY AcceptedFacts
<1>3. /\ TemplateKeys(c) = OrigKeys /\ DOMAIN c.subs = Given /\ c.loose = orig.loose
  BY <1>1, CheckedKeys, CheckedFacts, ReplacementsAreMeant
<1>4. Given = DOMAIN f \cup DOMAIN orig.subs  BY <1>1, FlagFacts DEF Given
<1> HIDE DEF f, c
<1>5. \A k \in DOMAIN f : UserKey(k) \/ k \in Overridable  BY <1>2 DEF LooseError
<1>6. \A k \in DOMAIN orig.subs : UserKey(k)  BY <1>2 DEF SubstitutionsError
<1>7. \A k \in Overridable : ~ UserKey(k)  BY BuiltInsAreNotUsers DEF ValidBuiltIns
<1>8. ~ UserKey(ProjectId)  BY BuiltInsAreNotUsers DEF ValidBuiltIns
<1>9. ProjectId \notin Overridable
  BY DEF ProjectId, Overridable, BranchName, CommitSha, ShortSha
<1>10. ASSUME ~ orig.loose
       PROVE  Given \subseteq OrigKeys /\ OrigKeys \subseteq Given \cup ValidBuiltIns
  BY <1>2, <1>3, <1>10 DEF TemplateError
<1> QED  BY <1>4, <1>5, <1>6, <1>7, <1>8, <1>9, <1>10

(* What the substitution has made of steps and images.                     *)
LEMMA FieldsFaithful ==
    ASSUME CallsInv, Accepted
    PROVE  /\ DOMAIN b.steps = DOMAIN orig.steps /\ StepsSayMeant
           /\ b.images = b.artifacts.images /\ ImagesSayMeant
<1> DEFINE r == ReplacedBuild
           all == AllImages(orig)
<1>1. WellFormed(orig) /\ EntriesOk  BY DEF CallsInv
<1>2. b.images = r.images /\ b.artifacts.images = b.images /\ b.steps = r.steps
  BY AcceptedFacts
<1>3. /\ r.images = [j \in DOMAIN all |-> Meant(Meant(all[j]))]
      /\ DOMAIN r.steps = DOMAIN orig.steps
      /\ \A j \in DOMAIN orig.steps : r.steps[j] = StepMeant(orig.steps[j])
  BY <1>1, ReplacedFacts
<1> HIDE DEF r, all
<1>4. StepsSayMeant
  <2> SUFFICES ASSUME NEW j \in DOMAIN orig.steps
               PROVE  LET loaded == orig.steps[j]
                          step   == b.steps[j]
                      IN  /\ \A f \in {"name", "dir", "entrypoint"} : step[f] = Meant(loaded[f])
                          /\ step.args = Each(loaded.args, Meant)
                          /\ step.env = [m \in DOMAIN loaded.env |->
                                           [loaded.env[m] EXCEPT !.key = Meant(@), !.val = Meant(@)]]
    BY DEF StepsSayMeant
  <2> DEFINE loaded == orig.steps[j]
             step == b.steps[j]
             args == [m \in DOMAIN loaded.args |-> Meant(loaded.args[m])]
             env == [m \in DOMAIN loaded.env |-> EntryMeant(loaded.env[m])]
  <2>1. DOMAIN loaded = StepFields  BY <1>1 DEF WellFormed
  <2>2. step = [loaded EXCEPT !.name = Meant(loaded.name), !.dir = Meant(loaded.dir),
                              !.entrypoint = Meant(loaded.entrypoint),
                              !.args = args, !.env = env]
    BY <1>2, <1>3 DEF StepMeant
  <2>3. args = Each(loaded.args, Meant)  BY DEF Each
  <2>4. env = [m \in DOMAIN loaded.env |->
                 [loaded.env[m] EXCEPT !.key = Meant(@), !.val = Meant(@)]]
    BY DEF EntryMeant
  <2> HIDE DEF loaded, step, args, env
  <2>5. /\ step.name = Meant(loaded.name) /\ step.dir = Meant(loaded.dir)
        /\ step.entrypoint = Meant(loaded.entrypoint) /\ step.args = args /\ step.env = env
    BY <2>1, <2>2 DEF StepFields
  <2>6. \A f \in {"name", "dir", "entrypoint"} : step[f] = Meant(loaded[f])
    BY <2>5
  <2> QED  BY <2>3, <2>4, <2>5, <2>6 DEF loaded, step
<1>5. ImagesSayMeant
  <2> SUFFICES ASSUME NEW j \in DOMAIN all, "$" \notin Elements(Meant(all[j]))
               PROVE  b.images[j] = Meant(all[j])
    BY DEF ImagesSayMeant, all
  <2> DEFINE t == all[j]
             m == Meant(t)
  <2>1. b.images[j] = Meant(m)  BY <1>2, <1>3
  <2>2. t \in Seq(Char)
    <3>1. t \in Text  BY <1>1 DEF WellFormed, AllImages, Elements, all
    <3> QED  BY <3>1, TextOfChars
  <2>3. \A k \in DOMAIN Meaning : Meaning[k] \in Seq(Char)
    <3>1. \A k \in DOMAIN Meaning : Meaning[k] \in Text  BY <1>1, ReplacementsAreMeant
    <3> QED  BY <3>1, TextOfChars
  <2>4. \A x : Meant(x) = Expand(Meaning, x)  BY DEF Meant, Meaning
  <2> HIDE DEF t
  <2>5. m \in Seq(Char)
    <3>1. "$" \in Char  BY DEF Char
    <3>2. Expand(Meaning, t) \in Seq(Char)  BY <2>2, <2>3, <3>1, ExpandType
    <3> QED  BY <2>4, <3>2
  <2>6. "$" \notin Elements(m)  BY DEF t
  <2> HIDE DEF m
  <2>7. \A k \in 1 .. Len(m) : m[k] # "$"
    <3>1. DOMAIN m = 1 .. Len(m)  BY <2>5, LenProperties
    <3> QED  BY <2>6, <3>1 DEF Elements
  <2>8. Expand(Meaning, m) = m  BY <2>5, <2>7, NoDollarNoChange
  <2>9. b.images[j] = m  BY <2>1, <2>4, <2>8
  <2> QED  BY <2>9 DEF m, t
<1> QED  BY <1>2, <1>3, <1>4, <1>5

(***************************************************************************)
(* Keys are checked before they are merged, and replaced after that; the   *)
(* template is checked of a build that the substitution then changes, with *)
(* a location that has been changed before.  Whatever the build, the flag  *)
(* and the texts: a build that is accepted says what the user meant.       *)
(***************************************************************************)
THEOREM SubstitutionsAreFaithful == Spec => []SubstitutionsFaithful
<1>1. CallsInv => SubstitutionsFaithful
  BY KeysFaithful, FieldsFaithful DEF SubstitutionsFaithful
<1> QED  BY <1>1, CallsInvariant, PTL
-----------------------------------------------------------------------------
(***************************************************************************)
(* checkSecrets cuts the key of an env off at an "=" that CheckBuildSteps  *)
(* has seen to in the envs of steps: if it panics then for an env of the   *)
(* options, whatever the build, and never for one of a step.               *)
(***************************************************************************)
OnlyGlobalEnvsPanic == pc = "panic" => \E e \in Elements(orig.env) : ~ e.eq

(* From CheckBuildSteps to checkSecrets the envs of steps have an "=".     *)
PanicInv ==
    /\ pc \in {"template", "volumes", "envs", "secrets"} =>
          \A s \in Elements(orig.steps) : \A e \in Elements(s.env) : e.eq
    /\ OnlyGlobalEnvsPanic

(* Each step of SubstituteAndValidate keeps it. *)
LEMMA PanicStep == IInv /\ PanicInv /\ [Next]_vars => PanicInv'
<1> SUFFICES ASSUME IInv, PanicInv, [Next]_vars PROVE PanicInv'
  OBVIOUS
<1>1. orig' = orig
  BY DEF Next, vars, ParseFlag, CheckSubstitutions, CheckFlag, Merge, CheckMerged,
     CheckArtifacts, CheckSteps, CheckTemplate, CheckVolumes, CheckEnvVars, CheckSecrets,
     Substitute, CheckBuildStepNames, SanitizeBuildTags, CheckImageNames, Check, Proceed
<1>2. CASE CheckSteps
  <2>1. pc = "steps" /\ b.steps = orig.steps
    BY <1>2 DEF CheckSteps, Check, Proceed, IInv, Early
  <2>2. pc' = "rejected" \/ (pc' = "template" /\ ~ StepsError(b))
    BY <1>2 DEF CheckSteps, Check, Proceed
  <2>3. ~ StepsError(b) => \A s \in Elements(orig.steps) : \A e \in Elements(s.env) : e.eq
    BY <2>1 DEF StepsError
  <2> QED  BY <1>1, <2>2, <2>3 DEF PanicInv, OnlyGlobalEnvsPanic
<1>3. CASE CheckSecrets
  <2>1. pc = "secrets" /\ b.steps = orig.steps /\ b.env = orig.env
    BY <1>3 DEF CheckSecrets, IInv, Early, Kept
  <2>2. pc' \in {"rejected", "panic", "substitute"} /\ (pc' = "panic" => EnvWithoutEquals(b))
    BY <1>3 DEF CheckSecrets
  <2>3. EnvWithoutEquals(b) => \E e \in Elements(orig.env) : ~ e.eq
    BY <2>1 DEF EnvWithoutEquals, EnvsOf, PanicInv
  <2> QED  BY <1>1, <2>2, <2>3 DEF PanicInv, OnlyGlobalEnvsPanic
<1>4. CASE ~ CheckSteps /\ ~ CheckSecrets
  <2>1. /\ pc' \in {"template", "volumes", "envs", "secrets"} =>
              pc \in {"template", "volumes", "envs", "secrets"}
        /\ pc' = "panic" => pc = "panic"
    BY <1>4 DEF Next, vars, ParseFlag, CheckSubstitutions, CheckFlag, Merge, CheckMerged,
       CheckArtifacts, CheckTemplate, CheckVolumes, CheckEnvVars, Substitute,
       CheckBuildStepNames, SanitizeBuildTags, CheckImageNames, Check, Proceed
  <2> QED  BY <1>1, <2>1 DEF PanicInv, OnlyGlobalEnvsPanic
<1> QED  BY <1>2, <1>3, <1>4

(* The envs of steps never make checkSecrets panic. *)
THEOREM StepEnvsNeverPanic == Spec => []OnlyGlobalEnvsPanic
<1>1. Init => PanicInv
  BY DEF Init, PanicInv, OnlyGlobalEnvsPanic
<1>2. PanicInv => OnlyGlobalEnvsPanic
  BY DEF PanicInv
<1> QED  BY <1>1, <1>2, PanicStep, InductiveInvariant, PTL DEF Spec
=============================================================================
