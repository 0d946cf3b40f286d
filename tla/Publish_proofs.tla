--------------------------- MODULE Publish_proofs ---------------------------
(***************************************************************************)
(* Proofs that a build is DONE only when its images and artifacts are      *)
(* there, and that what is reported of them is true, for every request,    *)
(* every workspace and every number of retries.                            *)
(***************************************************************************)
EXTENDS Publish, FiniteSetTheorems, FunctionTheorems, WellFoundedInduction, TLAPS

Publishing == pc \in {"bucket", "cp", "parse", "generation", "json", "manifest"}
Uploading == Publishing /\ pc # "bucket"

(* The phases of Start: a build that is DONE has returned, only builds     *)
(* that push get as far as that, and no dry run gets past a manifest.      *)
PhaseInv ==
    /\ status = "DONE" => pc = "returned"
    /\ pc = "push" \/ Publishing => req.push
    /\ pc \in {"generation", "json", "manifest"} => Runs

(* The images pushed so far are in the registry. *)
ImagesInv ==
    /\ digests \subseteq registry
    /\ pc = "push" => /\ i \in 1 .. (Len(req.images) + 1)
                      /\ Runs => \A j \in 1 .. (i - 1) : req.images[j] \in registry
    /\ Publishing /\ Runs => Images \subseteq registry

(* At most MaxPushRetries errors for each image there was. *)
RetriesInv ==
    /\ pc = "verify" => PushErrors = 0 /\ attempt = 1
    /\ pc = "push" => PushErrors =< (i - 1) * MaxPushRetries + (attempt - 1)

(* What gsutil cp has uploaded, and its manifest until it is parsed. *)
CopyInv ==
    /\ \A o \in Objects : own[o] =< bucket[o]
    /\ pc = "bucket" => i = 1
    /\ pc \in {"parse", "generation"} => i \in 1 .. Len(req.paths)
    /\ pc \in {"json", "manifest"} => i > Len(req.paths)
    /\ pc = "parse" => \/ rows = None
                       \/ /\ Runs
                          /\ DOMAIN rows = Files
                          /\ \A o \in Files : rows[o] = "OK" => own[o] > 0

(* The paths whose files have been listed. *)
Listed == {j \in DOMAIN req.paths : j < i \/ (j = i /\ pc = "generation")}

(* Every result is about a file this build has uploaded, and has a         *)
(* generation that the object has had since.                               *)
ResultsSound ==
    /\ results \subseteq [path : Nat, object : Objects, mine : Nat, gen : Nat]
    /\ ~ Uploading /\ pc # "returned" => results = {}
    /\ \A r \in results :
          /\ r.path \in DOMAIN req.paths
          /\ r.object \in Matches[req.paths[r.path]]
          /\ own[r.object] > 0
          /\ r.mine =< bucket[r.object]
          /\ r.gen # 0 => r.gen \in r.mine .. bucket[r.object]
          /\ Uploading => r.path \in Listed

(* There is one for each file of each path listed, and not two. *)
ResultsComplete ==
    /\ \A r, s \in results : r.path = s.path /\ r.object = s.object => r = s
    /\ Uploading => \A j \in Listed : \A o \in Matches[req.paths[j]] :
                       \E r \in results : r.path = j /\ r.object = o

(* What is reported at the end. *)
ReportInv ==
    /\ pc # "returned" => artifacts = None
    /\ artifacts # None => status = "DONE" /\ uploaded /\ Images \subseteq registry
    /\ DoneMeansPublished

IInv ==
    /\ TypeOK
    /\ PhaseInv /\ ImagesInv /\ RetriesInv /\ CopyInv
    /\ ResultsSound /\ ResultsComplete /\ ReportInv

(* What RequestsAssumption says of the request that is built. *)
LEMMA RequestFacts ==
    ASSUME req \in Requests
    PROVE  /\ req.push \in BOOLEAN /\ req.dry \in BOOLEAN
           /\ Len(req.images) \in Nat /\ DOMAIN req.images = 1 .. Len(req.images)
           /\ Len(req.paths) \in Nat /\ DOMAIN req.paths = 1 .. Len(req.paths)
           /\ \A j \in DOMAIN req.paths : Matches[req.paths[j]] \subseteq Objects
BY RequestsAssumption DEF Objects

(* Files written to the bucket have one more generation, the others theirs. *)
LEMMA WrittenGrows ==
    ASSUME bucket \in [Objects -> Nat], NEW files
    PROVE  /\ Written(files) \in [Objects -> Nat]
           /\ \A o \in Objects : Written(files)[o] >= bucket[o]
           /\ \A o \in Objects : o \in files => Written(files)[o] = bucket[o] + 1
BY DEF Written

(* Another image adds at most MaxPushRetries errors. *)
LEMMA ErrorsPerImage ==
    ASSUME NEW n \in Nat, NEW m \in Nat, NEW k \in 1 .. n
    PROVE  /\ (k - 1) * m + m = k * m
           /\ k * m \in Nat /\ n * m \in Nat /\ (k - 1) * m \in Nat
           /\ k * m =< n * m
<1>1. (k - 1) * m + m = k * m  OBVIOUS
<1>2. k * m \in Nat /\ n * m \in Nat /\ (k - 1) * m \in Nat  OBVIOUS
<1>3. n * m = k * m + (n - k) * m /\ (n - k) * m >= 0  OBVIOUS
<1> QED  BY <1>1, <1>2, <1>3

(* With every path listed the results are the files expected: one each. *)
LEMMA ResultsCounted ==
    ASSUME TypeOK, ResultsSound, ResultsComplete, Uploading, i > Len(req.paths)
    PROVE  Cardinality(results) \in Nat /\ Cardinality(results) = Cardinality(Expected)
<1> DEFINE f == [r \in results |-> <<r.path, r.object>>]
<1>1. Len(req.paths) \in Nat /\ DOMAIN req.paths = 1 .. Len(req.paths) /\ i \in Nat
  BY RequestFacts DEF TypeOK
<1>2. Listed = DOMAIN req.paths
  BY <1>1 DEF Listed
<1>3. f \in [results -> Expected]
  BY DEF ResultsSound, Expected
<1>4. \A r, s \in results : f[r] = f[s] => r = s
  BY DEF ResultsComplete
<1>5. \A a \in Expected : \E r \in results : f[r] = a
  <2> TAKE a \in Expected
  <2>1. a = <<a[1], a[2]>> /\ a[1] \in Listed /\ a[2] \in Matches[req.paths[a[1]]]
    BY <1>2 DEF Expected
  <2>2. PICK r \in results : r.path = a[1] /\ r.object = a[2]
    BY <2>1 DEF ResultsComplete
  <2> QED  BY <2>1, <2>2
<1>6. f \in Bijection(results, Expected)
  BY <1>3, <1>4, <1>5 DEF Bijection, Injection, Surjection, IsInjective
<1>7. ExistsBijection(Expected, results)
  BY <1>6, Fun_ExistsBijSymmetric DEF ExistsBijection
<1>8. IsFiniteSet(Expected)
  <2>1. IsFiniteSet(DOMAIN req.paths)
    <3>1. 1 \in Int /\ Len(req.paths) \in Int  BY <1>1
    <3>2. IsFiniteSet(1 .. Len(req.paths))  BY <3>1, FS_Interval
    <3> QED  BY <1>1, <3>2
  <2>2. IsFiniteSet((DOMAIN req.paths) \X Objects)
    BY <2>1, ObjectsAssumption, FS_Product
  <2> QED  BY <2>2, FS_Subset DEF Expected
<1> QED  BY <1>7, <1>8, FS_Bijection, FS_CardinalityType

(* The parts of the type invariant. *)
StateTypes ==
    /\ req \in Requests
    /\ status \in {"BUILD", "PUSH", "DONE", "ERROR", "TIMEOUT", "CANCELLED"}
    /\ err \in {"none", "images", "push", "context", "bucket does not exist", "upload"}
    /\ ctx \in {"live", "TIMEOUT", "CANCELLED"}
    /\ pc \in {"verify", "push", "bucket", "cp", "parse", "generation", "json", "manifest", "returned"}

CountTypes ==
    /\ i \in Nat \ {0} /\ attempt \in 1 .. MaxPushRetries
    /\ PushErrors \in 0 .. Len(req.images) * MaxPushRetries

BucketTypes ==
    /\ writes \in 0 .. MaxWrites
    /\ bucket \in [Objects -> Nat] /\ own \in [Objects -> Nat]

ReportTypes == uploaded \in BOOLEAN /\ artifacts \in Nat \cup {None}

(* They make up the type invariant. *)
LEMMA TypeParts ==
    /\ TypeOK <=> StateTypes /\ CountTypes /\ BucketTypes /\ ReportTypes
    /\ TypeOK' <=> (StateTypes /\ CountTypes /\ BucketTypes /\ ReportTypes)'
BY DEF TypeOK, StateTypes, CountTypes, BucketTypes, ReportTypes

(* The invariant holds when the steps have succeeded. *)
LEMMA InvInit == Init => IInv
<1> SUFFICES ASSUME Init PROVE IInv
  OBVIOUS
<1>1. TypeOK
  <2>1. StateTypes  BY DEF Init, StateTypes
  <2>2. Len(req.images) * MaxPushRetries \in Nat
    <3>1. Len(req.images) \in Nat  BY <2>1, RequestFacts DEF StateTypes
    <3>2. MaxPushRetries \in Nat  BY MaxAssumption
    <3> QED  BY <3>1, <3>2
  <2>3. CountTypes  BY <2>2, MaxAssumption DEF Init, CountTypes
  <2>4. BucketTypes  BY MaxAssumption DEF Init, BucketTypes
  <2>5. ReportTypes  BY DEF Init, ReportTypes
  <2> QED  BY <2>1, <2>3, <2>4, <2>5, TypeParts
<1> QED
  BY <1>1 DEF Init, IInv, PhaseInv, ImagesInv, RetriesInv, CopyInv, ResultsSound,
     ResultsComplete, ReportInv, DoneMeansPublished, Publishing, Uploading

(* How a step may change what has been uploaded without being a part of    *)
(* the upload: the bucket only grows.                                      *)
BucketGrows ==
    /\ bucket' \in [Objects -> Nat]
    /\ \A o \in Objects : bucket'[o] >= bucket[o]

(* A step that fails the build, whatever it has done so far. *)
LEMMA FailStep ==
    ASSUME IInv, pc # "returned", pc' = "returned", TypeOK', status' # "DONE",
           UNCHANGED <<req, digests, results, own, artifacts>>,
           registry \subseteq registry', BucketGrows
    PROVE  IInv'
<1> USE DEF IInv
<1>1. PhaseInv' /\ RetriesInv'
  BY DEF PhaseInv, RetriesInv, Publishing
<1>2. ImagesInv'
  BY DEF ImagesInv, Publishing
<1>3. \A o \in Objects : own[o] \in Nat /\ bucket[o] \in Nat /\ bucket'[o] \in Nat
  BY DEF TypeOK, BucketGrows
<1>4. CopyInv'
  BY <1>3 DEF CopyInv, BucketGrows
<1>5. ResultsSound'
  BY <1>3 DEF ResultsSound, BucketGrows, Uploading, Publishing
<1>6. ResultsComplete'
  BY DEF ResultsComplete, Uploading, Publishing
<1>7. ReportInv'
  BY DEF ReportInv, DoneMeansPublished
<1> QED  BY <1>1, <1>2, <1>4, <1>5, <1>6, <1>7

(* The images: each is verified, and pushed until it is in the registry. *)
LEMMA ImagesStep ==
    ASSUME IInv,
           VerifyImage \/ VerifyEnds \/ PushSucceeds \/ PushImagesEnds
             \/ \E e \in Errors : PushFails(e)
    PROVE  IInv'
<1> USE DEF IInv
<1>1. /\ Len(req.images) \in Nat /\ DOMAIN req.images = 1 .. Len(req.images)
      /\ Len(req.paths) \in Nat /\ DOMAIN req.paths = 1 .. Len(req.paths)
  BY RequestFacts DEF TypeOK
<1>2. /\ pc \in {"verify", "push"} /\ pc' \in {"verify", "push", "bucket", "returned"}
      /\ UNCHANGED <<req, ctx, gcsVars>>
  BY DEF VerifyImage, VerifyEnds, PushSucceeds, PushImagesEnds, PushFails, FailBuild, Return
<1>3. results = {} /\ results' = {}
  BY <1>2 DEF ResultsSound, Uploading, Publishing, gcsVars
<1>4. ResultsSound' /\ ResultsComplete'
  BY <1>2, <1>3 DEF ResultsSound, ResultsComplete, Uploading, Publishing
<1>5. CopyInv'
  BY <1>2 DEF CopyInv, VerifyEnds, PushImagesEnds, VerifyImage, PushSucceeds, PushFails,
     FailBuild, Return, gcsVars
<1>6. BucketTypes' /\ ReportTypes' /\ StateTypes /\ CountTypes
  BY <1>2, TypeParts DEF BucketTypes, ReportTypes, gcsVars
<1>7. MaxPushRetries \in Nat \ {0} /\ i \in Nat \ {0} /\ attempt \in 1 .. MaxPushRetries
  BY MaxAssumption DEF TypeOK
<1>8. CASE \E e \in Errors : PushFails(e)
  <2> PICK e \in Errors : PushFails(e)  BY <1>8
  <2> USE DEF PushFails, FailBuild, Return, gcsVars
  <2>1. pc = "push" /\ i \in 1 .. Len(req.images)
    BY <1>1, <1>7
  <2>2. /\ (i - 1) * MaxPushRetries + MaxPushRetries = i * MaxPushRetries
        /\ i * MaxPushRetries =< Len(req.images) * MaxPushRetries
        /\ i * MaxPushRetries \in Nat /\ Len(req.images) * MaxPushRetries \in Nat
        /\ (i - 1) * MaxPushRetries \in Nat
    BY <1>1, <1>7, <2>1, ErrorsPerImage
  <2>3. CountTypes' /\ RetriesInv'
    <3>1. PushErrors \in Nat /\ PushErrors =< (i - 1) * MaxPushRetries + (attempt - 1)
      BY <1>6, <2>1, <2>2 DEF RetriesInv, CountTypes
    <3> QED  BY <1>2, <1>6, <1>7, <2>1, <2>2, <3>1 DEF CountTypes, RetriesInv
  <2>4. StateTypes' /\ status' # "DONE"
    BY <1>2, <1>6, <2>1 DEF StateTypes, Errors, PhaseInv
  <2>5. TypeOK'  BY <1>6, <2>3, <2>4, TypeParts
  <2>6. CASE pc' = "returned"
    <3>1. BucketGrows
      <4>1. bucket' = bucket /\ \A o \in Objects : bucket[o] \in Nat
        BY <1>2 DEF TypeOK
      <4> QED  BY <1>6, <4>1 DEF BucketGrows, BucketTypes
    <3>2. UNCHANGED <<req, digests, results, own, artifacts>> /\ registry \subseteq registry'
      BY <1>2
    <3> QED  BY <2>1, <2>4, <2>5, <2>6, <3>1, <3>2, FailStep
  <2>7. CASE pc' # "returned"
    <3>1. pc' = "push" /\ status' = status /\ registry \subseteq registry'
      BY <2>1, <2>7
    <3>2. PhaseInv' /\ ImagesInv' /\ ReportInv'
      BY <1>2, <2>1, <2>4, <3>1 DEF PhaseInv, ImagesInv, ReportInv, DoneMeansPublished,
         Publishing, Runs, Images
    <3> QED  BY <1>4, <1>5, <2>3, <2>5, <3>2
  <2> QED  BY <2>6, <2>7
<1>9. CASE PushSucceeds
  <2> USE DEF PushSucceeds, gcsVars
  <2>1. pc = "push" /\ i \in 1 .. Len(req.images) /\ i' = i + 1
    BY <1>1, <1>7, <1>9
  <2>2. (i - 1) * MaxPushRetries + MaxPushRetries = i * MaxPushRetries
    BY <1>1, <1>7, <2>1, ErrorsPerImage
  <2>3. StateTypes' /\ CountTypes'
    <3>1. StateTypes'  BY <1>6, <1>9 DEF StateTypes
    <3>2. CountTypes'  BY <1>6, <1>7, <1>9 DEF CountTypes
    <3> QED  BY <3>1, <3>2
  <2>4. RetriesInv'
    BY <1>2, <1>6, <1>7, <1>9, <2>1, <2>2 DEF RetriesInv, CountTypes
  <2>5. PhaseInv' /\ ReportInv'
    BY <1>2, <1>9 DEF PhaseInv, ReportInv, DoneMeansPublished, Publishing, Runs
  <2>6. ImagesInv'
    BY <1>1, <1>9, <2>1 DEF ImagesInv, Publishing, Runs
  <2> QED  BY <1>4, <1>5, <1>6, <2>3, <2>4, <2>5, <2>6, TypeParts
<1>10. CASE VerifyImage \/ VerifyEnds \/ PushImagesEnds
  <2> USE DEF VerifyImage, VerifyEnds, PushImagesEnds, Return, pushVars, gcsVars
  <2>1. StateTypes' /\ CountTypes'
    <3>1. StateTypes'  BY <1>6, <1>10 DEF StateTypes
    <3>2. CountTypes'  BY <1>2, <1>6, <1>7, <1>10 DEF CountTypes
    <3> QED  BY <3>1, <3>2
  <2>2. PhaseInv'
    BY <1>10 DEF PhaseInv, Publishing
  <2>3. RetriesInv'
    <3>1. (1 - 1) * MaxPushRetries + (1 - 1) = 0
      BY <1>7
    <3> QED  BY <1>10, <3>1 DEF RetriesInv
  <2>4. ImagesInv'
    BY <1>1, <1>10 DEF ImagesInv, Publishing, Images, Runs
  <2>5. ReportInv'
    <3>1. status' = "DONE" => \/ ~ req.push
                              \/ pc = "push" /\ i = Len(req.images) + 1 /\ ~ HasObjects
      BY <1>10 DEF PhaseInv
    <3> QED
      BY <1>1, <1>2, <1>10, <3>1 DEF ReportInv, DoneMeansPublished, Images, ImagesInv,
         HasObjects, Runs
  <2> QED  BY <1>4, <1>5, <1>6, <2>1, <2>2, <2>3, <2>4, <2>5, TypeParts
<1> QED  BY <1>8, <1>9, <1>10

(* The bucket is verified, and the files are copied to it. *)
LEMMA CopyStep ==
    ASSUME IInv,
           \/ TempFileFails \/ CopyFiles \/ VerifyBucket("nil")
           \/ \E e \in Errors : VerifyBucket(e) \/ CopyFails(e)
    PROVE  IInv'
<1> USE DEF IInv
<1>1. /\ Len(req.paths) \in Nat /\ DOMAIN req.paths = 1 .. Len(req.paths)
      /\ \A j \in DOMAIN req.paths : Matches[req.paths[j]] \subseteq Objects
      /\ i \in Nat \ {0}
  BY RequestFacts DEF TypeOK
<1>2. /\ pc \in {"bucket", "cp"} /\ pc' \in {"cp", "parse", "returned"}
      /\ UNCHANGED <<req, ctx, i, pushVars, writes, results, artifacts, uploaded>>
  BY DEF VerifyBucket, TempFileFails, CopyFiles, CopyFails, FailBuild, Return, gcsVars
<1>3. StateTypes /\ CountTypes /\ BucketTypes /\ ReportTypes /\ CountTypes' /\ ReportTypes'
  BY <1>2, TypeParts DEF CountTypes, ReportTypes, pushVars
<1>4. StateTypes' /\ status' # "DONE"
  BY <1>2, <1>3 DEF StateTypes, PhaseInv, VerifyBucket, TempFileFails, CopyFiles, CopyFails,
     FailBuild, Return, Errors
<1>5. BucketTypes' /\ BucketGrows
  <2>1. CASE CopyFiles
    <3>1. bucket' = bucket \/ \E files : bucket' = Written(files)
      BY <2>1 DEF CopyFiles
    <3>2. bucket' \in [Objects -> Nat] /\ \A o \in Objects : bucket'[o] >= bucket[o]
      BY <1>3, <3>1, WrittenGrows DEF BucketTypes
    <3>3. own' \in [Objects -> Nat]
      BY <1>3, <2>1, <3>2 DEF CopyFiles, BucketTypes
    <3> QED  BY <1>2, <1>3, <3>2, <3>3 DEF BucketTypes, BucketGrows
  <2>2. CASE \E e \in Errors : CopyFails(e)
    <3>1. own' = own /\ \E files : bucket' = Written(files)
      BY <2>2 DEF CopyFails
    <3> QED  BY <1>2, <1>3, <3>1, WrittenGrows DEF BucketTypes, BucketGrows
  <2>3. CASE bucket' = bucket /\ own' = own
    BY <1>2, <1>3, <2>3 DEF BucketTypes, BucketGrows
  <2> QED
    BY <2>1, <2>2, <2>3 DEF VerifyBucket, TempFileFails, gcsVars
<1>6. TypeOK'  BY <1>3, <1>4, <1>5, TypeParts
<1>7. CASE pc' = "returned"
  <2>1. own' = own
    BY <1>7 DEF VerifyBucket, TempFileFails, CopyFiles, CopyFails, gcsVars
  <2> QED  BY <1>2, <1>4, <1>5, <1>6, <1>7, <2>1, FailStep DEF pushVars
<1>8. CASE pc' # "returned"
  <2>1. PhaseInv' /\ RetriesInv' /\ ReportInv'
    BY <1>2, <1>4, <1>8 DEF PhaseInv, RetriesInv, ReportInv, DoneMeansPublished, Publishing,
       Runs
  <2>2. ImagesInv'
    BY <1>2, <1>8 DEF ImagesInv, Publishing, Runs, Images, pushVars
  <2>3. CASE pc' = "cp"
    <3>1. pc = "bucket" /\ UNCHANGED <<bucket, own>>
      BY <1>2, <2>3 DEF VerifyBucket, TempFileFails, CopyFiles, CopyFails, FailBuild, Return
    <3>2. results = {} /\ i = 1
      BY <3>1 DEF ResultsSound, CopyInv, Uploading, Publishing
    <3>3. Listed' = {}
      BY <1>1, <1>2, <2>3, <3>2 DEF Listed
    <3> QED
      BY <1>2, <1>6, <2>1, <2>2, <2>3, <3>1, <3>2, <3>3 DEF CopyInv, ResultsSound,
         ResultsComplete
  <2>4. CASE pc' = "parse"
    <3>1. CopyFiles
      BY <2>4 DEF VerifyBucket, TempFileFails, CopyFails, FailBuild, Return
    <3>9. pc = "cp" /\ i \in 1 .. Len(req.paths)
      BY <1>1, <3>1 DEF CopyFiles
    <3>10. \/ rows' = None /\ UNCHANGED <<bucket, own>>
           \/ \E ok \in SUBSET Files :
                 /\ Runs
                 /\ DOMAIN rows' = Files
                 /\ \A o \in Files : rows'[o] = "OK" => o \in ok
                 /\ bucket' = Written(ok)
                 /\ own' = [o \in Objects |-> IF o \in ok THEN bucket'[o] ELSE own[o]]
      BY <3>1 DEF CopyFiles
    <3>2. \A o \in Objects : /\ own'[o] \in Nat /\ own[o] \in Nat
                             /\ bucket'[o] \in Nat /\ bucket[o] \in Nat
                             /\ bucket'[o] >= bucket[o]
      BY <1>3, <1>5 DEF BucketTypes, BucketGrows
    <3>3. \A o \in Objects : own'[o] =< bucket'[o] /\ (own[o] > 0 => own'[o] > 0)
      <4>1. CASE UNCHANGED <<bucket, own>>
        BY <4>1 DEF CopyInv
      <4>2. CASE \E ok \in SUBSET Files :
                   /\ bucket' = Written(ok)
                   /\ own' = [o \in Objects |-> IF o \in ok THEN bucket'[o] ELSE own[o]]
        <5> PICK ok \in SUBSET Files :
                   /\ bucket' = Written(ok)
                   /\ own' = [o \in Objects |-> IF o \in ok THEN bucket'[o] ELSE own[o]]
          BY <4>2
        <5>1. \A o \in Objects : o \in ok => bucket'[o] = bucket[o] + 1
          BY <1>3, WrittenGrows DEF BucketTypes
        <5> QED  BY <3>2, <5>1 DEF CopyInv
      <4> QED  BY <3>10, <4>1, <4>2
    <3>4. \/ rows' = None
          \/ /\ Runs
             /\ DOMAIN rows' = Files
             /\ \A o \in Files : rows'[o] = "OK" => own'[o] > 0
      <4>1. Files \subseteq Objects
        BY <1>1, <3>9 DEF Files
      <4>2. ASSUME NEW ok \in SUBSET Files, bucket' = Written(ok),
                   own' = [o \in Objects |-> IF o \in ok THEN bucket'[o] ELSE own[o]],
                   NEW o \in ok
            PROVE  own'[o] > 0
        BY <1>3, <3>2, <4>1, <4>2, WrittenGrows DEF BucketTypes
      <4> QED  BY <3>10, <4>2
    <3>5. CopyInv'
      BY <1>2, <2>4, <3>9, <3>3, <3>4 DEF CopyInv, Runs, Files
    <3>6. Listed' = Listed
      BY <1>2, <2>4, <3>9 DEF Listed
    <3>7. ResultsSound'
      BY <1>2, <2>4, <3>9, <3>2, <3>3, <3>6 DEF ResultsSound, Uploading, Publishing
    <3>8. ResultsComplete'
      BY <1>2, <2>4, <3>9, <3>6 DEF ResultsComplete, Uploading, Publishing
    <3> QED  BY <1>6, <2>1, <2>2, <3>5, <3>7, <3>8
  <2> QED  BY <1>2, <1>8, <2>3, <2>4
<1> QED  BY <1>7, <1>8

(* A manifest without errors lists every file of the path, once. *)
LEMMA ParseStep ==
    ASSUME IInv, ParseManifest
    PROVE  IInv'
<1> USE DEF IInv
<1>1. /\ Len(req.paths) \in Nat /\ DOMAIN req.paths = 1 .. Len(req.paths)
      /\ \A j \in DOMAIN req.paths : Matches[req.paths[j]] \subseteq Objects
      /\ pc = "parse" /\ i \in 1 .. Len(req.paths)
  BY RequestFacts DEF TypeOK, ParseManifest, CopyInv
<1>2. UNCHANGED <<req, ctx, i, pushVars, bucket, writes, own, rows, uploaded, artifacts>>
  BY DEF ParseManifest
<1>3. /\ StateTypes /\ BucketTypes
      /\ CountTypes' /\ BucketTypes' /\ ReportTypes'
  BY <1>2, TypeParts DEF CountTypes, BucketTypes, ReportTypes, pushVars
<1>4. StateTypes' /\ status' # "DONE"
  BY <1>1, <1>2, <1>3 DEF ParseManifest, StateTypes, PhaseInv, FailBuild, Return
<1>5. TypeOK'  BY <1>3, <1>4, TypeParts
<1>6. CASE ManifestError
  <2>1. BucketGrows
    BY <1>2, <1>3 DEF BucketGrows, BucketTypes
  <2> QED
    BY <1>1, <1>2, <1>4, <1>5, <1>6, <2>1, FailStep DEF ParseManifest, FailBuild, Return,
       pushVars
<1>7. CASE ~ ManifestError
  <2> DEFINE New == {[path |-> i, object |-> o, mine |-> own[o], gen |-> 0] : o \in Files}
  <2>1. pc' = "generation" /\ Runs /\ DOMAIN rows = Files /\ \A o \in Files : own[o] > 0
    BY <1>1, <1>7 DEF ParseManifest, ManifestError, CopyInv
  <2>2. results' = results \cup New
    BY <1>7, <2>1 DEF ParseManifest
  <2>3. \A o \in Files : o \in Objects /\ own[o] \in Nat /\ own[o] =< bucket[o]
    BY <1>1, <1>3 DEF Files, BucketTypes, CopyInv
  <2>4. PhaseInv' /\ RetriesInv' /\ ReportInv' /\ CopyInv'
    BY <1>1, <1>2, <1>4, <2>1 DEF PhaseInv, RetriesInv, ReportInv, CopyInv,
       DoneMeansPublished, Publishing, Runs
  <2>5. ImagesInv'
    BY <1>1, <1>2, <2>1 DEF ImagesInv, Publishing, Runs, Images, pushVars
  <2>6. Listed' = Listed \cup {i} /\ i \notin Listed
    BY <1>1, <1>2, <2>1 DEF Listed
  <2>7. ResultsSound'
    <3>1. New \subseteq [path : Nat, object : Objects, mine : Nat, gen : Nat]
      BY <1>1, <2>3
    <3>2. \A r \in New : /\ r.path = i /\ r.object \in Files /\ r.gen = 0
                         /\ own[r.object] > 0 /\ r.mine =< bucket[r.object]
      BY <2>1, <2>3
    <3> HIDE DEF New
    <3>3. results' \subseteq [path : Nat, object : Objects, mine : Nat, gen : Nat]
      BY <2>2, <3>1 DEF ResultsSound
    <3>4. \A r \in results' :
             /\ r.path \in DOMAIN req.paths
             /\ r.object \in Matches[req.paths[r.path]]
             /\ own[r.object] > 0
             /\ r.mine =< bucket[r.object]
             /\ r.gen # 0 => r.gen \in r.mine .. bucket[r.object]
             /\ r.path \in Listed'
      BY <1>1, <2>2, <2>6, <3>2 DEF ResultsSound, Uploading, Publishing, Files
    <3> QED  BY <1>2, <2>1, <3>3, <3>4 DEF ResultsSound, Uploading, Publishing
  <2>8. ResultsComplete'
    <3>1. \A r \in results : r.path # i
      BY <1>1, <2>6 DEF ResultsSound, Uploading, Publishing
    <3>2. /\ \A r \in New : r.path = i
          /\ \A r, s \in New : r.object = s.object => r = s
          /\ \A o \in Files : \E r \in New : r.path = i /\ r.object = o
      <4>1. \A r \in New : r.path = i  OBVIOUS
      <4>2. \A r, s \in New : r.object = s.object => r = s  OBVIOUS
      <4>3. ASSUME NEW o \in Files PROVE \E r \in New : r.path = i /\ r.object = o
        <5> DEFINE r == [path |-> i, object |-> o, mine |-> own[o], gen |-> 0]
        <5>1. r \in New /\ r.path = i /\ r.object = o  OBVIOUS
        <5> QED  BY <5>1
      <4> QED  BY <4>1, <4>2, <4>3
    <3> HIDE DEF New
    <3>3. \A r, s \in results' : r.path = s.path /\ r.object = s.object => r = s
      BY <2>2, <3>1, <3>2 DEF ResultsComplete
    <3>4. \A j \in Listed' : \A o \in Matches[req.paths[j]] :
             \E r \in results' : r.path = j /\ r.object = o
      BY <1>1, <2>2, <2>6, <3>2 DEF ResultsComplete, Uploading, Publishing, Files
    <3> QED  BY <1>2, <3>3, <3>4 DEF ResultsComplete
  <2> QED  BY <1>5, <2>4, <2>5, <2>7, <2>8
<1> QED  BY <1>6, <1>7

(* A generation is looked up: it has been that of the object since the     *)
(* upload.                                                                 *)
LEMMA GenerationStep ==
    ASSUME IInv, NEW r \in results, GetGeneration(r)
    PROVE  IInv'
<1> USE DEF IInv
<1> DEFINE New == [r EXCEPT !.gen = bucket[r.object]]
<1>1. /\ pc = "generation" /\ results' = (results \ {r}) \cup {New}
      /\ UNCHANGED <<req, status, err, ctx, pc, i, pushVars, bucket, writes, own, uploaded,
                     artifacts>>
  BY DEF GetGeneration
<1>2. TypeOK' /\ PhaseInv' /\ RetriesInv' /\ CopyInv' /\ ReportInv'
  BY <1>1 DEF TypeOK, PhaseInv, RetriesInv, CopyInv, ReportInv, DoneMeansPublished,
     Publishing, Runs, Images, pushVars
<1>3. ImagesInv'
  BY <1>1 DEF ImagesInv, Publishing, Runs, Images, pushVars
<1>4. /\ New \in [path : Nat, object : Objects, mine : Nat, gen : Nat]
      /\ New.path = r.path /\ New.object = r.object /\ New.mine = r.mine
      /\ New.gen = bucket[r.object]
      /\ r.mine =< bucket[r.object] /\ r.mine \in Nat /\ bucket[r.object] \in Nat
  BY DEF ResultsSound, TypeOK
<1> HIDE DEF New
<1>5. Listed' = Listed
  BY <1>1 DEF Listed
<1>6. ResultsSound'
  BY <1>1, <1>4, <1>5 DEF ResultsSound, Uploading, Publishing
<1>7. ResultsComplete'
  <2>1. \A s, t \in results' : s.path = t.path /\ s.object = t.object => s = t
    BY <1>1, <1>4 DEF ResultsComplete
  <2>2. \A j \in Listed' : \A o \in Matches[req.paths[j]] :
           \E s \in results' : s.path = j /\ s.object = o
    BY <1>1, <1>4, <1>5 DEF ResultsComplete, Uploading, Publishing
  <2> QED  BY <1>1, <2>1, <2>2 DEF ResultsComplete
<1> QED  BY <1>2, <1>3, <1>6, <1>7

(* The next path, and the manifest once all of them are listed. *)
LEMMA ManifestStep ==
    ASSUME IInv,
           \/ GetGenerationFails \/ NextPath \/ WriteJson
           \/ \E e \in Errors : UploadManifestFails(e)
    PROVE  IInv'
<1> USE DEF IInv
<1>1. /\ Len(req.paths) \in Nat /\ DOMAIN req.paths = 1 .. Len(req.paths)
      /\ i \in Nat \ {0}
  BY RequestFacts DEF TypeOK
<1>2. /\ pc \in {"generation", "json", "manifest"}
      /\ pc' \in {"cp", "json", "manifest", "returned"}
      /\ UNCHANGED <<req, ctx, pushVars, bucket, writes, own, results, rows, artifacts>>
  BY DEF GetGenerationFails, NextPath, WriteJson, UploadManifestFails, FailBuild, Return,
         gcsVars
<1>3. StateTypes /\ CountTypes /\ BucketTypes /\ ReportTypes /\ BucketTypes'
  BY <1>2, TypeParts DEF BucketTypes
<1>4. StateTypes' /\ status' # "DONE"
  BY <1>2, <1>3 DEF StateTypes, PhaseInv, GetGenerationFails, NextPath, WriteJson,
     UploadManifestFails, FailBuild, Return
<1>5. CountTypes'
  <2>1. i' = i \/ i' = i + 1
    BY DEF GetGenerationFails, NextPath, WriteJson, UploadManifestFails
  <2> QED  BY <1>1, <1>2, <1>3, <2>1 DEF CountTypes, pushVars
<1>6. ReportTypes'
  BY <1>2, <1>3 DEF ReportTypes, GetGenerationFails, NextPath, WriteJson,
     UploadManifestFails, gcsVars
<1>7. TypeOK'  BY <1>3, <1>4, <1>5, <1>6, TypeParts
<1>8. CASE pc' = "returned"
  <2>1. BucketGrows
    BY <1>2, <1>3 DEF BucketGrows, BucketTypes
  <2> QED
    BY <1>2, <1>4, <1>7, <1>8, <2>1, FailStep DEF pushVars
<1>9. CASE pc' # "returned"
  <2>1. PhaseInv' /\ RetriesInv' /\ ReportInv'
    BY <1>2, <1>4, <1>9 DEF PhaseInv, RetriesInv, ReportInv, DoneMeansPublished, Publishing,
       Runs
  <2>2. ImagesInv'
    BY <1>2, <1>9 DEF ImagesInv, Publishing, Runs, Images, pushVars
  <2>3. CopyInv' /\ Listed' = Listed
    <3>1. CASE NextPath
      BY <1>1, <1>2, <3>1 DEF NextPath, CopyInv, Listed
    <3>2. CASE WriteJson
      BY <1>1, <1>2, <1>9, <3>2 DEF WriteJson, FailBuild, Return, CopyInv, Listed
    <3> QED
      BY <1>9, <3>1, <3>2 DEF GetGenerationFails, UploadManifestFails, FailBuild, Return
  <2>4. ResultsSound'
    BY <1>2, <1>9, <2>3 DEF ResultsSound, Uploading, Publishing
  <2>5. ResultsComplete'
    BY <1>2, <2>3 DEF ResultsComplete, Uploading, Publishing
  <2> QED  BY <1>7, <2>1, <2>2, <2>3, <2>4, <2>5
<1> QED  BY <1>8, <1>9

(* The manifest is uploaded: nothing is missing, and every file counted. *)
LEMMA DoneStep ==
    ASSUME IInv, UploadManifest
    PROVE  IInv'
<1> USE DEF IInv
<1>1. /\ Len(req.paths) \in Nat /\ DOMAIN req.paths = 1 .. Len(req.paths)
      /\ Len(req.images) \in Nat /\ i \in Nat
  BY RequestFacts DEF TypeOK
<1>2. /\ pc = "manifest" /\ pc' = "returned" /\ status' = "DONE" /\ err' = "none"
      /\ uploaded' = Runs /\ artifacts' = Cardinality(results)
      /\ UNCHANGED <<req, ctx, i, pushVars, bucket, writes, own, results, rows>>
  BY DEF UploadManifest, Return
<1>3. Runs /\ Publishing /\ Uploading /\ i > Len(req.paths)
  BY <1>2 DEF PhaseInv, CopyInv, Publishing, Uploading
<1>4. Cardinality(results) \in Nat /\ Cardinality(results) = Cardinality(Expected)
  BY <1>3, ResultsCounted
<1>5. TypeOK'
  <2>1. StateTypes'  BY <1>2, TypeParts DEF StateTypes
  <2>2. CountTypes' /\ BucketTypes'
    BY <1>2, TypeParts DEF CountTypes, BucketTypes, pushVars
  <2>3. ReportTypes'  BY <1>2, <1>3, <1>4 DEF ReportTypes
  <2> QED  BY <2>1, <2>2, <2>3, TypeParts
<1>6. Images \subseteq registry
  BY <1>3 DEF ImagesInv
<1>7. \A j \in DOMAIN req.paths : \A o \in Matches[req.paths[j]] : own[o] > 0
  <2> SUFFICES ASSUME NEW j \in DOMAIN req.paths, NEW o \in Matches[req.paths[j]]
               PROVE  own[o] > 0
    OBVIOUS
  <2>1. j \in Listed  BY <1>1, <1>3 DEF Listed
  <2>2. PICK r \in results : r.path = j /\ r.object = o
    BY <1>3, <2>1 DEF ResultsComplete
  <2> QED  BY <2>2 DEF ResultsSound
<1>8. ReportInv'
  BY <1>2, <1>3, <1>4, <1>6, <1>7 DEF ReportInv, DoneMeansPublished, Images, Expected,
     pushVars
<1>9. PhaseInv' /\ RetriesInv' /\ CopyInv'
  BY <1>2 DEF PhaseInv, RetriesInv, CopyInv, Publishing
<1>10. ImagesInv'
  BY <1>2 DEF ImagesInv, Publishing, pushVars
<1>11. ResultsSound' /\ ResultsComplete'
  BY <1>2 DEF ResultsSound, ResultsComplete, Uploading, Publishing
<1> QED  BY <1>5, <1>8, <1>9, <1>10, <1>11

(* The context ends, or somebody else writes to the bucket. *)
LEMMA OutsideStep ==
    ASSUME IInv, ContextEnds \/ \E o \in Objects : OtherWrites(o)
    PROVE  IInv'
<1> USE DEF IInv
<1>1. /\ pc # "returned"
      /\ UNCHANGED <<req, status, err, pc, i, pushVars, own, results, rows, uploaded,
                     artifacts>>
  BY DEF ContextEnds, OtherWrites, gcsVars
<1>2. BucketGrows /\ BucketTypes'
  <2>1. BucketTypes  BY TypeParts
  <2>2. CASE ContextEnds
    BY <2>1, <2>2 DEF ContextEnds, BucketGrows, BucketTypes, gcsVars
  <2>3. CASE \E o \in Objects : OtherWrites(o)
    BY <2>1, <2>3, MaxAssumption DEF OtherWrites, BucketGrows, BucketTypes
  <2> QED  BY <2>2, <2>3
<1>3. TypeOK'
  <2>1. StateTypes'
    BY <1>1, TypeParts DEF StateTypes, ContextEnds, OtherWrites
  <2>2. CountTypes' /\ ReportTypes'
    BY <1>1, TypeParts DEF CountTypes, ReportTypes, pushVars
  <2> QED  BY <1>2, <2>1, <2>2, TypeParts
<1>4. PhaseInv' /\ RetriesInv' /\ ReportInv'
  BY <1>1 DEF PhaseInv, RetriesInv, ReportInv, DoneMeansPublished, Publishing, Runs, pushVars
<1>5. ImagesInv'
  BY <1>1 DEF ImagesInv, Publishing, Runs, Images, pushVars
<1>6. \A o \in Objects : /\ own[o] \in Nat /\ bucket[o] \in Nat /\ bucket'[o] \in Nat
                         /\ bucket'[o] >= bucket[o]
  BY <1>2 DEF TypeOK, BucketGrows
<1>7. CopyInv' /\ Listed' = Listed
  BY <1>1, <1>6 DEF CopyInv, Listed, Runs, Files
<1>8. ResultsSound'
  BY <1>1, <1>6, <1>7 DEF ResultsSound, Uploading, Publishing
<1>9. ResultsComplete'
  BY <1>1, <1>7 DEF ResultsComplete, Uploading, Publishing
<1> QED  BY <1>3, <1>4, <1>5, <1>7, <1>8, <1>9

(* The inductive invariant: one result for each file of each path listed   *)
(* so far, and every image before this one in the registry.                *)
THEOREM InductiveInvariant == Spec => []IInv
<1>1. ASSUME IInv, UNCHANGED vars PROVE IInv'
  <2>1. TypeOK'
    BY <1>1 DEF vars, pushVars, gcsVars, IInv, TypeOK
  <2>2. PhaseInv' /\ ImagesInv' /\ RetriesInv' /\ CopyInv' /\ ReportInv'
    BY <1>1 DEF vars, pushVars, gcsVars, IInv, PhaseInv, ImagesInv, RetriesInv, CopyInv,
       ReportInv, DoneMeansPublished, Publishing, Runs, Images, Files, HasObjects, Expected
  <2>3. ResultsSound' /\ ResultsComplete'
    BY <1>1 DEF vars, pushVars, gcsVars, IInv, ResultsSound, ResultsComplete, Uploading,
       Publishing, Listed
  <2> QED  BY <2>1, <2>2, <2>3 DEF IInv
<1>2. IInv /\ [Next]_vars => IInv'
  BY <1>1, ImagesStep, CopyStep, ParseStep, GenerationStep, ManifestStep, DoneStep,
     OutsideStep DEF Next, PushStep
<1> QED  BY <1>2, InvInit, PTL DEF Spec

(***************************************************************************)
(* The variables of the push phase keep their types: no image is pushed    *)
(* more than MaxPushRetries times, so PushErrors is bounded.               *)
(***************************************************************************)
THEOREM TypeCorrect == Spec => []TypeOK
<1>1. IInv => TypeOK  BY DEF IInv
<1> QED  BY <1>1, InductiveInvariant, PTL

(***************************************************************************)
(* A build whose status is DONE after a push has every image in the        *)
(* registry, every file of every path in the bucket, and a manifest that   *)
(* counts each of them once for each path, whatever failed on the way.     *)
(***************************************************************************)
THEOREM DoneIsPublished == Spec => []DoneMeansPublished
<1>1. IInv => DoneMeansPublished  BY DEF IInv, ReportInv
<1> QED  BY <1>1, InductiveInvariant, PTL

(***************************************************************************)
(* The build summary reports only images that are in the registry, and     *)
(* generations not older than the ones uploaded, though others write the   *)
(* same objects.                                                           *)
(***************************************************************************)
THEOREM SummaryIsTruthful == Spec => []SummaryTruthful
<1>1. IInv => SummaryTruthful
  BY DEF IInv, ImagesInv, ReportInv, ResultsSound, SummaryTruthful
<1> QED  BY <1>1, InductiveInvariant, PTL
-----------------------------------------------------------------------------
(* Every set of natural numbers has a least one, and the induction that    *)
(* follows, with a set in the place of a predicate.                        *)
LEMMA LeastNatural ==
    ASSUME NEW T \in SUBSET Nat, T # {}
    PROVE  \E x \in T : \A y \in T : x =< y
<1> DEFINE R == OpToRel(<, Nat)
<1>1. \A x, y \in Nat : x < y => <<x, y>> \in R
  BY DEF OpToRel
<1>2. IsWellFoundedOn(R, Nat)  BY NatLessThanWellFounded
<1> HIDE DEF R
<1>3. PICK x \in T : \A y \in T : ~ (<<y, x>> \in R)
  BY <1>2, WFMin
<1>4. x \in Nat /\ \A y \in T : y \in Nat /\ ~ (y < x)
  BY <1>1, <1>3
<1> QED  BY <1>4

(* Induction over a set of natural numbers. *)
LEMMA NatSetInduction ==
    ASSUME NEW S, 0 \in S, \A k \in Nat : k \in S => k + 1 \in S
    PROVE  Nat \subseteq S
<1> SUFFICES ASSUME Nat \ S # {} PROVE FALSE
  OBVIOUS
<1>1. PICK x \in Nat \ S : \A y \in Nat \ S : x =< y
  BY LeastNatural
<1>2. x - 1 \in Nat /\ ~ (x =< x - 1)  BY <1>1
<1>3. x - 1 \in S  BY <1>1, <1>2
<1> QED  BY <1>1, <1>2, <1>3

(* The values of backoff in the loop of Backoff. *)
Growth(max, v) == IF v < max THEN (13 * v) \div 10 ELSE v

IsGrowth(base, max, n, g) ==
    g = [k \in 0 .. n |-> IF k = 0 THEN base ELSE Growth(max, g[k - 1])]

(* The loop has values, and as many more iterations do not change them. *)
LEMMA GrowthExists ==
    ASSUME NEW base, NEW max, NEW n \in Nat
    PROVE  \E g : IsGrowth(base, max, n, g)
<1> DEFINE S == {k \in Nat : \E g : IsGrowth(base, max, k, g)}
<1>1. 0 \in S
  <2> DEFINE g == [k \in 0 .. 0 |-> base]
  <2>1. IsGrowth(base, max, 0, g)  BY DEF IsGrowth
  <2> QED  BY <2>1
<1>2. ASSUME NEW k \in Nat, k \in S PROVE k + 1 \in S
  <2>1. PICK g : IsGrowth(base, max, k, g)  BY <1>2
  <2> DEFINE h == [j \in 0 .. (k + 1) |-> IF j = k + 1 THEN Growth(max, g[k]) ELSE g[j]]
  <2>2. \A j \in 0 .. (k + 1) : h[j] = IF j = 0 THEN base ELSE Growth(max, h[j - 1])
    <3> TAKE j \in 0 .. (k + 1)
    <3>1. CASE j = k + 1
      BY <3>1
    <3>2. CASE j \in 0 .. k
      <4>1. h[j] = g[j] /\ (j # 0 => h[j - 1] = g[j - 1])  BY <3>2
      <4>2. g[j] = IF j = 0 THEN base ELSE Growth(max, g[j - 1])
        BY <2>1, <3>2 DEF IsGrowth
      <4> HIDE DEF h
      <4> QED  BY <3>2, <4>1, <4>2
    <3> QED  BY <3>1, <3>2
  <2>3. h = [j \in 0 .. (k + 1) |-> IF j = 0 THEN base ELSE Growth(max, h[j - 1])]
    <3>1. DOMAIN h = 0 .. (k + 1) /\ h = [j \in DOMAIN h |-> h[j]]  OBVIOUS
    <3> HIDE DEF h
    <3> QED  BY <2>2, <3>1
  <2> HIDE DEF h
  <2> QED  BY <2>3 DEF IsGrowth
<1> HIDE DEF S
<1>3. Nat \subseteq S  BY <1>1, <1>2, NatSetInduction
<1> QED  BY <1>3 DEF S

(* One retry more does not change the delays before it. *)
LEMMA GrowthUnique ==
    ASSUME NEW base, NEW max, NEW n \in Nat, NEW m \in Nat, n =< m, NEW g, NEW h,
           IsGrowth(base, max, n, g), IsGrowth(base, max, m, h)
    PROVE  g[n] = h[n]
<1> DEFINE S == {k \in Nat : k =< n => g[k] = h[k]}
<1>1. \A k \in 0 .. n : /\ g[k] = IF k = 0 THEN base ELSE Growth(max, g[k - 1])
                        /\ h[k] = IF k = 0 THEN base ELSE Growth(max, h[k - 1])
  BY DEF IsGrowth
<1>2. 0 \in S
  BY <1>1
<1>3. ASSUME NEW k \in Nat, k \in S PROVE k + 1 \in S
  <2>1. CASE k + 1 =< n
    BY <1>1, <1>3, <2>1
  <2> QED  BY <2>1
<1> HIDE DEF S
<1>4. Nat \subseteq S  BY <1>2, <1>3, NatSetInduction
<1> QED  BY <1>4 DEF S

(* One more retry makes the pause grow unless it has reached the maximum. *)
LEMMA GrownStep ==
    ASSUME NEW base \in Nat, NEW max \in Nat, NEW n \in Nat
    PROVE  /\ Grown(base, max, 0) = base
           /\ Grown(base, max, n + 1) = Growth(max, Grown(base, max, n))
<1>1. ASSUME NEW m \in Nat PROVE \E g : IsGrowth(base, max, m, g) /\ Grown(base, max, m) = g[m]
  <2> DEFINE g == CHOOSE g : IsGrowth(base, max, m, g)
  <2>1. IsGrowth(base, max, m, g)  BY GrowthExists
  <2>2. Grown(base, max, m) = g[m]
    BY DEF Grown, IsGrowth, Growth
  <2> QED  BY <2>1, <2>2
<1>2. Grown(base, max, 0) = base
  <2>1. PICK g : IsGrowth(base, max, 0, g) /\ Grown(base, max, 0) = g[0]
    BY <1>1
  <2> QED  BY <2>1 DEF IsGrowth
<1>3. PICK g : IsGrowth(base, max, n, g) /\ Grown(base, max, n) = g[n]
  BY <1>1
<1>4. PICK h : IsGrowth(base, max, n + 1, h) /\ Grown(base, max, n + 1) = h[n + 1]
  BY <1>1
<1>5. h[n + 1] = Growth(max, h[n])
  BY <1>4 DEF IsGrowth
<1>6. g[n] = h[n]
  BY <1>3, <1>4, GrowthUnique
<1> QED  BY <1>2, <1>3, <1>4, <1>5, <1>6

(* The delay of Backoff is a natural number, however often it grows. *)
LEMMA GrownType ==
    ASSUME NEW base \in Nat, NEW max \in Nat, NEW n \in Nat
    PROVE  Grown(base, max, n) \in Nat
<1> DEFINE S == {k \in Nat : Grown(base, max, k) \in Nat}
<1>1. 0 \in S  BY GrownStep
<1>2. ASSUME NEW k \in Nat, k \in S PROVE k + 1 \in S
  <2>1. Grown(base, max, k) \in Nat  BY <1>2
  <2>2. Grown(base, max, k + 1) = Growth(max, Grown(base, max, k))  BY GrownStep
  <2>3. Growth(max, Grown(base, max, k)) \in Nat  BY <2>1 DEF Growth
  <2> QED  BY <2>2, <2>3
<1> HIDE DEF S
<1>3. Nat \subseteq S  BY <1>1, <1>2, NatSetInduction
<1> QED  BY <1>3 DEF S

(* What the jitter makes of a pause b. *)
Jittered(b) == {LET d == b - (b * 4 * r) \div 100 IN IF d < 0 THEN 0 ELSE d : r \in 0 .. 9}

(* The jitter of Backoff takes off at most 40%. *)
LEMMA JitterBounds ==
    ASSUME NEW b \in Nat
    PROVE  /\ b \in Jittered(b)
           /\ \A d \in Jittered(b) : d \in Nat /\ d =< b /\ 10 * d >= 6 * b
<1> DEFINE off(r) == (b * 4 * r) \div 100
<1>1. off(0) = 0  OBVIOUS
<1>2. ASSUME NEW r \in 0 .. 9
      PROVE  off(r) \in Nat /\ 10 * off(r) =< 4 * b
  <2>1. r \in {0, 1, 2, 3, 4, 5, 6, 7, 8, 9}  BY <1>2
  <2>2. b * 4 * r \in Nat /\ b * 4 * r =< 36 * b  BY <2>1
  <2>3. \A x \in Nat : x \div 100 \in Nat /\ 100 * (x \div 100) =< x  OBVIOUS
  <2> QED  BY <2>2, <2>3
<1> HIDE DEF off
<1>3. Jittered(b) = {LET d == b - off(r) IN IF d < 0 THEN 0 ELSE d : r \in 0 .. 9}
  BY DEF Jittered, off
<1>4. b \in Jittered(b)
  <2>1. b = LET d == b - off(0) IN IF d < 0 THEN 0 ELSE d  BY <1>1
  <2> QED  BY <1>3, <2>1
<1>5. \A d \in Jittered(b) : d \in Nat /\ d =< b /\ 10 * d >= 6 * b
  BY <1>2, <1>3
<1> QED  BY <1>4, <1>5

(* The longest pause of an attempt is the one without jitter. *)
LEMMA LongestPause ==
    ASSUME NEW b \in Nat
    PROVE  /\ Max(Jittered(b)) = b
           /\ Min(Jittered(b)) \in Nat /\ 10 * Min(Jittered(b)) >= 6 * b
<1>1. /\ b \in Jittered(b)
      /\ \A d \in Jittered(b) : d \in Nat /\ d =< b /\ 10 * d >= 6 * b
  BY JitterBounds
<1> DEFINE J == Jittered(b)
<1> HIDE DEF J
<1>2. /\ b \in J
      /\ \A d \in J : d \in Nat /\ d =< b /\ 10 * d >= 6 * b
  BY <1>1 DEF J
<1>3. \E x \in J : \A y \in J : x >= y  BY <1>2
<1>4. Max(J) \in J /\ \A y \in J : Max(J) >= y  BY <1>3 DEF Max
<1>5. Max(J) = b
  <2>1. Max(J) \in Nat /\ Max(J) =< b  BY <1>2, <1>4
  <2>2. Max(J) >= b  BY <1>2, <1>4
  <2> QED  BY <2>1, <2>2
<1>6. \E x \in J : \A y \in J : x =< y
  <2>1. J \in SUBSET Nat /\ J # {}  BY <1>2
  <2> QED  BY <2>1, LeastNatural
<1>7. Min(J) \in J  BY <1>6 DEF Min
<1> QED  BY <1>2, <1>5, <1>7 DEF J

(***************************************************************************)
(* Backoff keeps its promise at every attempt: the pauses are between zero *)
(* and the maximum, the longest does not shrink from one attempt to the    *)
(* next, and the jitter takes off at most 40%.                             *)
(***************************************************************************)
THEOREM PausesInRange == Spec => []BackoffInRange
<1>1. ASSUME TypeOK PROVE BackoffInRange
  <2> DEFINE grown(n) == Grown(BaseDelay, MaxDelay, n)
             capped(n) == IF grown(n) > MaxDelay THEN MaxDelay ELSE grown(n)
  <2>1. attempt \in Nat /\ BaseDelay \in Nat /\ MaxDelay \in Nat
    <3>1. attempt \in 1 .. MaxPushRetries  BY <1>1 DEF TypeOK
    <3> QED  BY <3>1, MaxAssumption
  <2>2. \A n \in Nat : Backoff(BaseDelay, MaxDelay, n) = Jittered(capped(n))
    BY DEF Backoff, Jittered
  <2>3. \A n \in Nat : grown(n) \in Nat
    BY <2>1, GrownType
  <2>4. grown(attempt + 1) >= grown(attempt)
    <3>1. grown(attempt + 1) = Growth(MaxDelay, grown(attempt))
      BY <2>1, GrownStep
    <3>2. \A v \in Nat : Growth(MaxDelay, v) \in Nat /\ Growth(MaxDelay, v) >= v
      BY <2>1 DEF Growth
    <3> HIDE DEF grown
    <3> QED  BY <2>1, <2>3, <3>1, <3>2
  <2> HIDE DEF grown
  <2>5. /\ capped(attempt) \in Nat /\ capped(attempt + 1) \in Nat
        /\ capped(attempt) =< MaxDelay
        /\ capped(attempt) =< capped(attempt + 1)
    BY <2>1, <2>3, <2>4
  <2> HIDE DEF capped
  <2>6. /\ Backoff(BaseDelay, MaxDelay, attempt) = Jittered(capped(attempt))
        /\ Backoff(BaseDelay, MaxDelay, attempt + 1) = Jittered(capped(attempt + 1))
    BY <2>1, <2>2
  <2>7. Jittered(capped(attempt)) \subseteq 0 .. MaxDelay
    BY <2>1, <2>5, JitterBounds
  <2>8. /\ Max(Jittered(capped(attempt))) = capped(attempt)
        /\ Max(Jittered(capped(attempt + 1))) = capped(attempt + 1)
        /\ 10 * Min(Jittered(capped(attempt))) >= 6 * capped(attempt)
    BY <2>5, LongestPause
  <2> QED  BY <2>5, <2>6, <2>7, <2>8 DEF BackoffInRange
<1> QED  BY <1>1, TypeCorrect, PTL
=============================================================================
