------------------------------ MODULE Publish ------------------------------
(***************************************************************************)
(* What Start does once the steps have succeeded: the check that the       *)
(* images were built, pushAll with its retries, and the upload of the      *)
(* artifacts and of their manifest by gsutil.Helper.                       *)
(*                                                                         *)
(* Every docker command may fail, with or without its effect, and is given *)
(* up with the context at any time, also when its effect is there already. *)
(***************************************************************************)
EXTENDS Naturals, Sequences, FiniteSets, FiniteSetsExt

CONSTANTS
    Requests,       \* builds: [push, dry, images, paths]; dry is --dryrun
    Matches,        \* the files of the workspace that each path stands for
    MaxPushRetries, \* maxPushRetries
    MaxWrites,      \* bound on what others write to the bucket meanwhile
    BaseDelay,      \* baseDelay and maxDelay, of the pauses between the attempts
    MaxDelay,
    None            \* nothing reported

ASSUME MaxAssumption ==
    MaxPushRetries \in Nat \ {0} /\ MaxWrites \in Nat /\ BaseDelay \in Nat /\ MaxDelay \in Nat

(* A request has lists of images and of paths. *)
ASSUME RequestsAssumption ==
    \A r \in Requests :
        /\ {r.push, r.dry} \subseteq BOOLEAN
        /\ Len(r.images) \in Nat /\ DOMAIN r.images = 1 .. Len(r.images)
        /\ Len(r.paths) \in Nat /\ DOMAIN r.paths = 1 .. Len(r.paths)
        /\ \A j \in DOMAIN r.paths : r.paths[j] \in DOMAIN Matches

INSTANCE Delays WITH Second <- 1

Objects == UNION {Matches[p] : p \in DOMAIN Matches}

ASSUME ObjectsAssumption == IsFiniteSet(Objects)

VARIABLES
    req,        \* b.Request, and b.push
    status,     \* b.status
    err,        \* b.err: none, or what has failed
    ctx,        \* live, or the status that FailBuild gives its error
    pc,         \* what Start is doing: verify, push, bucket, cp, parse, generation,
                \* json, manifest, returned
    i,          \* the index of the image or of the path
    attempt,    \* of dockerPushWithRetries
    bad,        \* the images that were not found; what went wrong in the manifest
    local,      \* the images the local docker has
    registry,   \* the images in the registry
    digests,    \* b.imageDigests: the images whose digest is reported
    PushErrors, \* b.PushErrors
    bucket,     \* how many generations of each object there are
    writes,     \* what others have written to the bucket
    own,        \* the generation that was uploaded of each object
    results,    \* the ArtifactResults, with the generation found
    rows,       \* the rows of the gsutil manifest: the result of each file
    tmp,        \* files in the temporary directory
    uploaded,   \* the manifest is in the bucket
    artifacts   \* b.artifacts: the number reported, or None

pushVars == <<attempt, bad, local, registry, digests, PushErrors>>
gcsVars  == <<bucket, writes, own, results, rows, tmp, uploaded, artifacts>>
vars == <<req, status, err, ctx, pc, i, pushVars, gcsVars>>

Init ==
    /\ req \in Requests
    /\ status = "BUILD" /\ err = "none" /\ ctx = "live" /\ pc = "verify" /\ i = 1
    /\ attempt = 1 /\ bad = {} /\ registry = {} /\ digests = {} /\ PushErrors = 0
    /\ local \in SUBSET {req.images[j] : j \in DOMAIN req.images}
    /\ bucket = [o \in Objects |-> 0] /\ writes = 0 /\ own = [o \in Objects |-> 0]
    /\ results = {} /\ rows = None /\ tmp = {} /\ uploaded = FALSE /\ artifacts = None

ContextEnds ==
    /\ ctx = "live" /\ pc # "returned"
    /\ ctx' \in {"TIMEOUT", "CANCELLED"}
    /\ UNCHANGED <<req, status, err, pc, i, pushVars, gcsVars>>

Return(s, what) == status' = s /\ err' = what /\ pc' = "returned"

(* A command that was run: dry runs do nothing and print nothing. *)
Runs  == ~ req.dry
Errors == IF req.dry THEN {} ELSE {"exit"} \cup (IF ctx = "live" THEN {} ELSE {"ctx"})

(* How Start ends: FailBuild tells the context's errors from all others. *)
FailBuild(e, what) == Return(IF e = "ctx" THEN ctx ELSE "ERROR", what)

HasObjects == req.paths # <<>>
-----------------------------------------------------------------------------
(* The end of runBuildSteps: imageIsLocal, for each image; any error means *)
(* that it is not.                                                         *)
VerifyImage ==
    /\ pc = "verify" /\ i =< Len(req.images)
    /\ \E found \in BOOLEAN :
          /\ found => Runs /\ req.images[i] \in local
          /\ ~ found => Errors # {} \/ req.dry \/ req.images[i] \notin local
          /\ bad' = IF found THEN bad ELSE bad \cup {req.images[i]}
    /\ i' = i + 1
    /\ UNCHANGED <<req, status, err, ctx, pc, attempt, local, registry, digests, PushErrors,
                   gcsVars>>

VerifyEnds ==
    /\ pc = "verify" /\ i = Len(req.images) + 1
    /\ i' = 1
    /\ \/ bad # {} /\ Return("ERROR", "images")
       \/ bad = {} /\ ~ req.push /\ Return("DONE", "none")
       \/ bad = {} /\ req.push /\ status' = "PUSH" /\ pc' = "push" /\ UNCHANGED err
    /\ UNCHANGED <<req, ctx, pushVars, gcsVars>>
-----------------------------------------------------------------------------
(* pushImages.  The output of a push may not have a digest in it: then     *)
(* nothing is recorded for the image.                                      *)
PushSucceeds ==
    /\ pc = "push" /\ i =< Len(req.images)
    /\ registry' = IF Runs THEN registry \cup {req.images[i]} ELSE registry
    /\ \/ Runs /\ digests' = digests \cup {req.images[i]}
       \/ UNCHANGED digests
    /\ i' = i + 1 /\ attempt' = 1
    /\ UNCHANGED <<req, status, err, ctx, pc, bad, local, PushErrors, gcsVars>>

PushFails_OneMore(e) ==
    /\ pc = "push" /\ i =< Len(req.images)
    /\ PushErrors' = PushErrors + 1
    /\ registry' \in {registry, registry \cup {req.images[i]}}
    /\ IF attempt =< MaxPushRetries
       THEN attempt' = attempt + 1 /\ UNCHANGED <<status, err, pc>>
       ELSE FailBuild(e, "push") /\ UNCHANGED attempt
    /\ UNCHANGED <<req, ctx, i, bad, local, digests, gcsVars>>

PushFails_StartsOver(e) ==
    /\ pc = "push" /\ i =< Len(req.images)
    /\ attempt' = IF attempt < MaxPushRetries THEN attempt + 1 ELSE 1
    /\ UNCHANGED <<req, status, err, ctx, pc, i, bad, local, registry, digests, PushErrors,
                   gcsVars>>

(* dockerPushWithRetries: whatever the error is, the context's too. *)
PushFails(e) ==
    /\ pc = "push" /\ i =< Len(req.images)
    /\ PushErrors' = PushErrors + 1
    /\ registry' \in {registry, registry \cup {req.images[i]}}
    /\ IF attempt < MaxPushRetries
       THEN attempt' = attempt + 1 /\ UNCHANGED <<status, err, pc>>
       ELSE FailBuild(e, "push") /\ UNCHANGED attempt
    /\ UNCHANGED <<req, ctx, i, bad, local, digests, gcsVars>>

PushImagesEnds ==
    /\ pc = "push" /\ i = Len(req.images) + 1
    /\ i' = 1
    /\ IF HasObjects THEN pc' = "bucket" /\ UNCHANGED <<status, err>> ELSE Return("DONE", "none")
    /\ UNCHANGED <<req, ctx, pushVars, gcsVars>>
-----------------------------------------------------------------------------
(* gsutil.VerifyBucket compares the error of ls with ctx.Err(). *)
VerifyBucket(e) ==
    /\ pc = "bucket"
    /\ \/ e = "nil" /\ ctx = "live" /\ pc' = "cp" /\ UNCHANGED <<status, err>>
       \/ e = "ctx" /\ FailBuild(e, "context")
       \/ e # "ctx" /\ ~ (e = "nil" /\ ctx = "live") /\ FailBuild(e, "bucket does not exist")
    /\ UNCHANGED <<req, ctx, i, pushVars, bucket, writes, own, results, rows, tmp, uploaded, artifacts>>

(* UploadArtifacts: a temporary file, which is closed, and gsutil cp, which *)
(* writes a row for each file it has seen.                                 *)
TempFileFails ==
    /\ pc = "cp" /\ i =< Len(req.paths)
    /\ FailBuild("exit", "upload")
    /\ UNCHANGED <<req, ctx, i, pushVars, gcsVars>>

Files == Matches[req.paths[i]]
Written(files) == [o \in Objects |-> IF o \in files THEN bucket[o] + 1 ELSE bucket[o]]

CopyFiles ==
    /\ pc = "cp" /\ i =< Len(req.paths)
    /\ tmp' = tmp \cup {"log"}
    /\ \/ \E r \in [Files -> {"OK", "error", "skip"}] :
             LET ok == {o \in Files : r[o] = "OK"}
             IN  /\ Runs
                 /\ rows' = r
                 /\ bucket' = Written(ok)
                 /\ own' = [o \in Objects |-> IF o \in ok THEN bucket'[o] ELSE own[o]]
       \/ rows' = None /\ UNCHANGED <<bucket, own>>    \* no manifest was written
    /\ pc' = "parse"
    /\ UNCHANGED <<req, status, err, ctx, i, pushVars, writes, results, uploaded, artifacts>>

(* The error of cp is wrapped by pushArtifacts, the context's too. *)
CopyFails(e) ==
    /\ pc = "cp" /\ i =< Len(req.paths)
    /\ tmp' = tmp \cup {"log"}
    /\ \E files \in SUBSET Files : bucket' = Written(files)
    /\ FailBuild("exit", "upload")
    /\ UNCHANGED <<req, ctx, i, pushVars, writes, own, results, rows, uploaded, artifacts>>

ManifestError_ErrorsOnly == rows = None \/ \E o \in DOMAIN rows : rows[o] = "error"

(* parseGsutilManifest wants a header and no error or skipped row.  (mine  *)
(* is kept for SummaryTruthful.)                                           *)
ManifestError == rows = None \/ \E o \in DOMAIN rows : rows[o] # "OK"

ParseManifest ==
    /\ pc = "parse"
    /\ IF ManifestError
       THEN FailBuild("exit", "upload") /\ UNCHANGED results
       ELSE /\ results' = results \cup {[path |-> i, object |-> o, mine |-> own[o], gen |-> 0] : o \in DOMAIN rows}
            /\ pc' = "generation" /\ UNCHANGED <<status, err>>
    /\ UNCHANGED <<req, ctx, i, pushVars, bucket, writes, own, rows, tmp, uploaded, artifacts>>

Unresolved == {r \in results : r.path = i /\ r.gen = 0}

GetGeneration_First(r) ==
    /\ pc = "generation" /\ r \in Unresolved
    /\ results' = (results \ {r}) \cup {[r EXCEPT !.gen = 1]}
    /\ UNCHANGED <<req, status, err, ctx, pc, i, pushVars, bucket, writes, own, rows, tmp,
                   uploaded, artifacts>>

(* getGeneration: the last of the generations that ls -a prints.  They     *)
(* have the same number of digits, so the largest string is the last.      *)
GetGeneration(r) ==
    /\ pc = "generation" /\ r \in Unresolved
    /\ bucket[r.object] > 0
    /\ results' = (results \ {r}) \cup {[r EXCEPT !.gen = bucket[r.object]]}
    /\ UNCHANGED <<req, status, err, ctx, pc, i, pushVars, bucket, writes, own, rows, tmp,
                   uploaded, artifacts>>

(* An error, or a list without a generation. *)
GetGenerationFails ==
    /\ pc = "generation"
    /\ \E r \in Unresolved : Errors # {} \/ bucket[r.object] = 0
    /\ FailBuild("exit", "upload")
    /\ UNCHANGED <<req, ctx, i, pushVars, gcsVars>>

NextPath ==
    /\ pc = "generation" /\ Unresolved = {}
    /\ i' = i + 1
    /\ pc' = IF i < Len(req.paths) THEN "cp" ELSE "json"
    /\ UNCHANGED <<req, status, err, ctx, pushVars, gcsVars>>

(* createArtifactsManifest: an error leaves no file, or one half written.  *)
WriteJson ==
    /\ pc = "json"
    /\ \/ tmp' = tmp \cup {"json"} /\ pc' = "manifest" /\ UNCHANGED <<status, err>>
       \/ tmp' \in {tmp, tmp \cup {"half"}} /\ FailBuild("exit", "upload")
    /\ UNCHANGED <<req, ctx, i, pushVars, bucket, writes, own, results, rows, uploaded, artifacts>>

UploadManifest ==
    /\ pc = "manifest"
    /\ uploaded' = Runs
    /\ tmp' = tmp \ {"json"}
    /\ artifacts' = Cardinality(results)
    /\ Return("DONE", "none")
    /\ UNCHANGED <<req, ctx, i, pushVars, bucket, writes, own, results, rows>>

UploadManifestFails(e) ==
    /\ pc = "manifest"
    /\ uploaded' \in BOOLEAN
    /\ tmp' = tmp \ {"json"}
    /\ FailBuild("exit", "upload")
    /\ UNCHANGED <<req, ctx, i, pushVars, bucket, writes, own, results, rows, artifacts>>

(* Somebody else writes the same object. *)
OtherWrites(o) ==
    /\ writes < MaxWrites /\ pc # "returned" /\ req.paths # <<>>
    /\ writes' = writes + 1
    /\ bucket' = [bucket EXCEPT ![o] = @ + 1]
    /\ UNCHANGED <<req, status, err, ctx, pc, i, pushVars, own, results, rows, tmp, uploaded, artifacts>>
-----------------------------------------------------------------------------
PushStep ==
    \/ VerifyImage \/ VerifyEnds \/ PushSucceeds \/ PushImagesEnds
    \/ VerifyBucket("nil") \/ TempFileFails \/ CopyFiles \/ ParseManifest \/ NextPath
    \/ (\E r \in results : GetGeneration(r)) \/ GetGenerationFails
    \/ WriteJson \/ UploadManifest
    \/ \E e \in Errors : \/ PushFails(e) \/ VerifyBucket(e) \/ CopyFails(e)
                         \/ UploadManifestFails(e)

Next == PushStep \/ ContextEnds \/ \E o \in Objects : OtherWrites(o)

Spec == Init /\ [][Next]_vars

(* Start goes on when it can; a command that hangs is ended by the context *)
(* only, so fairness is assumed from there on.                             *)
FairSpec == Spec /\ WF_vars(ctx # "live" /\ PushStep)
-----------------------------------------------------------------------------
TypeOK ==
    /\ req \in Requests
    /\ status \in {"BUILD", "PUSH", "DONE", "ERROR", "TIMEOUT", "CANCELLED"}
    /\ err \in {"none", "images", "push", "context", "bucket does not exist", "upload"}
    /\ ctx \in {"live", "TIMEOUT", "CANCELLED"}
    /\ pc \in {"verify", "push", "bucket", "cp", "parse", "generation", "json", "manifest", "returned"}
    /\ i \in Nat \ {0} /\ attempt \in 1 .. MaxPushRetries
    /\ PushErrors \in 0 .. Len(req.images) * MaxPushRetries
    /\ writes \in 0 .. MaxWrites
    /\ bucket \in [Objects -> Nat] /\ own \in [Objects -> Nat]
    /\ uploaded \in BOOLEAN /\ artifacts \in Nat \cup {None}

Images == {req.images[j] : j \in DOMAIN req.images}

(* What a manifest of the whole build lists: each file, once for each path. *)
Expected == {a \in (DOMAIN req.paths) \X Objects : a[2] \in Matches[req.paths[a[1]]]}

(***************************************************************************)
(* DONE after a push means that everything is there: every image in the    *)
(* registry, every file of every path in the bucket, the manifest too, and *)
(* the number reported counts each file once for each path.                *)
(***************************************************************************)
DoneMeansPublished ==
    (status = "DONE" /\ req.push /\ ~ req.dry) =>
        /\ Images \subseteq registry
        /\ \A j \in DOMAIN req.paths : \A o \in Matches[req.paths[j]] : own[o] > 0
        /\ HasObjects => uploaded /\ artifacts = Cardinality(Expected)

(***************************************************************************)
(* The build summary reports what was pushed and nothing else: an image    *)
(* with a digest is in the registry (none after a dry run), artifacts are  *)
(* reported with the manifest in place and only after every image, and the *)
(* generation given for a file exists and is not older than the one this   *)
(* build uploaded, though others may write the same object.                *)
(***************************************************************************)
SummaryTruthful ==
    /\ digests \subseteq registry
    /\ artifacts # None => status = "DONE" /\ uploaded /\ Images \subseteq registry
    /\ \A r \in results : r.gen # 0 => r.gen \in r.mine .. bucket[r.object]

(***************************************************************************)
(* Once the context is done Start returns, although pushes are retried.    *)
(***************************************************************************)
PushEnds == (ctx # "live") ~> (pc = "returned")

(***************************************************************************)
(* Backoff: "a value in [0, maxDelay] that increases exponentially with    *)
(* retries".  Whichever attempt of a push has failed, the pause before the *)
(* next is within the maximum, the longest possible one does not shrink    *)
(* from one attempt to the next, and the jitter takes off at most 40%.     *)
(***************************************************************************)
BackoffInRange ==
    LET delays == Backoff(BaseDelay, MaxDelay, attempt)
    IN  /\ delays \subseteq 0 .. MaxDelay
        /\ Max(delays) =< Max(Backoff(BaseDelay, MaxDelay, attempt + 1))
        /\ 10 * Min(delays) >= 6 * Max(delays)
=============================================================================
