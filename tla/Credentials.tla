---------------------------- MODULE Credentials ----------------------------
(***************************************************************************)
(* The access tokens of a local build: where the first one is put, the     *)
(* goroutine of run() that replaces it, and who reads the copies: the      *)
(* metadata server, ~/.docker/config.json in the home volume, and the KMS  *)
(* client of the build.                                                    *)
(*                                                                         *)
(* A token is the time at which it expires.  The clock only bounds how     *)
(* long one round of the goroutine may take: Latency.                      *)
(***************************************************************************)
EXTENDS Delays, FiniteSets

CONSTANTS
    Lefts,      \* how long the tokens that gcloud hands out are still valid
    Latency,    \* a round of the refresh goroutine takes at most this long
    MaxTime,    \* bound on the clock
    Scenarios,  \* what may happen besides in a build: sets of failures, and of
                \* what the steps do
    None        \* no token, no client

ASSUME LatencyAssumption ==
    /\ Latency \in Nat /\ MaxTime \in Nat /\ Lefts \subseteq Nat
    /\ \A l \in Lefts, k \in 0 .. Latency :
          RefreshDuration(l - k) + Latency =< l - k

ASSUME ScenariosAssumption ==
    UNION Scenarios \subseteq {"gcloud", "metadata", "docker", "late", "kms", "login"}

ASSUME NoneAssumption == None \notin Int

VARIABLES
    events,     \* the scenario of this build
    now,        \* the time
    main,       \* where run() is: token, set, server, spawn, building, over
    server,     \* the metadata server: none, gce, starting, up
    md,         \* the token the metadata server has
    cfg,        \* config.json: the token in it, and the logins steps have added
    prev,       \* b.prevGCRAuth
    source,     \* b.TokenSource
    kms,        \* the token of the cached KMS client b.Kms
    pc,         \* the goroutine: none, wait, gcloud, scopes, post, sed, write, gone
    wake,       \* when its timer fires, or when it was started
    refresh,    \* its local variables
    tok,
    tries,      \* attempts of getScopes that have failed
    sed,        \* config.json as the sed of the goroutine has read it
    login,      \* config.json as the docker login of a step has read it
    logins,     \* how many logins have ended
    mishaps     \* what has gone wrong: gcloud, metadata, docker, late, race

mainVars == <<main, server>>
loopVars == <<pc, wake, refresh, tok, tries, sed>>
stepVars == <<kms, login, logins>>
vars == <<events, now, mainVars, md, cfg, prev, source, loopVars, stepVars, mishaps>>

MaxTries == 3
Config(token, n) == [auth |-> token, logins |-> n]

Init ==
    /\ events \in Scenarios
    /\ now = 0 /\ main = "token" /\ server = "none"
    /\ md = None /\ cfg = Config(None, 0) /\ prev = None /\ source = None
    /\ kms = None /\ login = None /\ logins = 0
    /\ pc = "none" /\ wake = 0 /\ refresh = 0 /\ tok = None /\ tries = 0 /\ sed = None
    /\ mishaps = {}

(* Commands and requests take time, but no more than Latency in a round.   *)
Tick ==
    /\ now < MaxTime
    /\ main # "over"
    /\ now < wake + Latency
    /\ now' = now + 1
    /\ UNCHANGED <<events, mainVars, md, cfg, prev, source, loopVars, stepVars, mishaps>>

(* What gcloud prints: a token or none, an account or none, and an expiry  *)
(* that may be missing (None) or in the past.                              *)
Outputs == [token : BOOLEAN, account : BOOLEAN, left : Lefts \cup {-1, None}]

AccessTokenError(o) == ~ o.token \/ ~ o.account \/ o.left = None \/ o.left < 0
AccessToken(o) == now + o.left
-----------------------------------------------------------------------------
(* run(), from gcloud.AccessToken to Start. *)

InitialToken ==
    /\ main = "token"
    /\ \E o \in Outputs :
          IF AccessTokenError(o)
          THEN main' = "over" /\ tok' = tok
          ELSE main' = "set" /\ tok' = AccessToken(o)
    /\ UNCHANGED <<events, now, server, md, cfg, prev, source, pc, wake, refresh,
                   tries, sed, stepVars, mishaps>>

(* The whole file is written, and the build's token source is set. *)
SetDockerAccessToken ==
    /\ main = "set"
    /\ cfg' = Config(tok, 0)
    /\ prev' = tok
    /\ source' = tok
    /\ main' = "server"
    /\ UNCHANGED <<events, now, server, md, loopVars, stepVars, mishaps>>

SetupFails ==
    /\ main \in {"set", "server"}
    /\ main' = "over"
    /\ UNCHANGED <<events, now, server, md, cfg, prev, source, loopVars, stepVars, mishaps>>

(* docker run -d returns before the server listens. *)
StartServer ==
    /\ main = "server"
    /\ server' \in {"gce", "starting"}
    /\ main' = "spawn"
    /\ UNCHANGED <<events, now, md, cfg, prev, source, loopVars, stepVars, mishaps>>

ServerListens ==
    /\ server = "starting"
    /\ server' = "up"
    /\ UNCHANGED <<events, now, main, md, cfg, prev, source, loopVars, stepVars, mishaps>>

(* doRequest to the spoofed server: whether it may have answered 200. *)
CanPost == server = "up"

SpawnRefresh ==
    /\ main = "spawn"
    /\ main' = "building"
    /\ pc' = "wait"
    /\ wake' = now
    /\ tok' = None
    /\ UNCHANGED <<events, now, server, md, cfg, prev, source, refresh, tries,
                   sed, stepVars, mishaps>>

(* b.Done, then cancel(). *)
BuildEnds ==
    /\ main = "building"
    /\ main' = "over"
    /\ UNCHANGED <<events, now, server, md, cfg, prev, source, loopVars, stepVars, mishaps>>
-----------------------------------------------------------------------------
(* The refresh goroutine. *)

TimerFires ==
    /\ pc = "wait"
    /\ now >= wake
    /\ pc' = "gcloud"
    /\ UNCHANGED <<events, now, mainVars, md, cfg, prev, source, wake, refresh, tok, tries,
                   sed, stepVars, mishaps>>

LoopReturns_Never == FALSE /\ UNCHANGED vars

LoopReturns ==
    /\ pc = "wait"
    /\ main = "over"
    /\ pc' = "gone"
    /\ UNCHANGED <<events, now, mainVars, md, cfg, prev, source, wake, refresh, tok, tries,
                   sed, stepVars, mishaps>>

RefreshToken ==
    /\ pc = "gcloud"
    /\ \E o \in Outputs :
          /\ ~ AccessTokenError(o)
          /\ tok' = AccessToken(o)
    /\ pc' = IF server = "gce" THEN "sed" ELSE "scopes"
    /\ UNCHANGED <<events, now, mainVars, md, cfg, prev, source, wake, refresh, tries, sed,
                   stepVars, mishaps>>

(* continue: with the old refresh. *)
RefreshFails ==
    /\ "gcloud" \in events
    /\ pc = "gcloud"
    /\ pc' = "wait"
    /\ wake' = now + refresh
    /\ mishaps' = mishaps \cup {"gcloud"}
    /\ UNCHANGED <<events, now, mainVars, md, cfg, prev, source, refresh, tok, tries, sed, stepVars>>

GotScopes ==
    /\ pc = "scopes"
    /\ pc' = "post"
    /\ tries' = 0
    /\ UNCHANGED <<events, now, mainVars, md, cfg, prev, source, wake, refresh, tok,
                   sed, stepVars, mishaps>>

ScopesFail_CountsOn ==
    /\ "metadata" \in events
    /\ pc = "scopes"
    /\ tries' = tries + 1
    /\ IF tries < MaxTries
       THEN UNCHANGED <<pc, mishaps>>
       ELSE pc' = "sed" /\ mishaps' = mishaps \cup {"metadata"}
    /\ UNCHANGED <<events, now, mainVars, md, cfg, prev, source, wake, refresh, tok, sed, stepVars>>

(* An attempt of getScopes fails: after MaxTries SetToken returns an error *)
(* that is only logged.                                                    *)
ScopesFail ==
    /\ "metadata" \in events
    /\ pc = "scopes"
    /\ IF tries + 1 < MaxTries
       THEN tries' = tries + 1 /\ UNCHANGED <<pc, mishaps>>
       ELSE tries' = 0 /\ pc' = "sed" /\ mishaps' = mishaps \cup {"metadata"}
    /\ UNCHANGED <<events, now, mainVars, md, cfg, prev, source, wake, refresh, tok, sed, stepVars>>

PostToken ==
    /\ pc = "post"
    /\ pc' = "sed"
    /\ \/ CanPost /\ md' = tok /\ UNCHANGED mishaps
       \/ /\ ~ CanPost \/ "metadata" \in events
          /\ UNCHANGED md
          /\ mishaps' = mishaps \cup {"metadata"}
    /\ UNCHANGED <<events, now, mainVars, cfg, prev, source, wake, refresh, tok, tries, sed, stepVars>>

(* UpdateDockerAccessToken: the sed of the container reads the file ...    *)
SedReads ==
    /\ pc = "sed"
    /\ sed' = cfg
    /\ pc' = "write"
    /\ UNCHANGED <<events, now, mainVars, md, cfg, prev, source, wake, refresh, tok, tries,
                   stepVars, mishaps>>

Replaced_Rewrites(file) == Config(tok, 0)

(* ... replaces the previous token where it finds it ... *)
Replaced(file) == IF file.auth = prev THEN [file EXCEPT !.auth = tok] ELSE file

(* A file is written back that somebody else has written meanwhile. *)
Races(file) == IF cfg = file THEN {} ELSE {"race"}

(* What follows the update, whether or not it failed. *)
EndRound_AtExpiry ==
    /\ source' = tok
    /\ refresh' = RefreshDuration_Whole(tok - now)
    /\ wake' = now + refresh'
    /\ pc' = "wait" /\ tok' = None /\ sed' = None

EndRound ==
    /\ source' = tok
    /\ refresh' = RefreshDuration(tok - now)
    /\ wake' = now + refresh'
    /\ pc' = "wait" /\ tok' = None /\ sed' = None

UpdateDocker_PrevUnset ==
    /\ pc = "write"
    /\ cfg' = Replaced(sed)
    /\ EndRound
    /\ mishaps' = mishaps \cup Races(sed)
    /\ UNCHANGED <<events, now, mainVars, md, prev, tries, stepVars>>

(* ... and writes it back. *)
UpdateDocker ==
    /\ pc = "write"
    /\ cfg' = Replaced(sed)
    /\ prev' = tok
    /\ EndRound
    /\ mishaps' = mishaps \cup Races(sed)
    /\ UNCHANGED <<events, now, mainVars, md, tries, stepVars>>

(* The container fails before it writes: prevGCRAuth is kept. *)
UpdateDockerFails ==
    /\ "docker" \in events
    /\ pc \in {"sed", "write"}
    /\ EndRound
    /\ mishaps' = mishaps \cup {"docker"}
    /\ UNCHANGED <<events, now, mainVars, md, cfg, prev, tries, stepVars>>

(* docker reports an error although sed has done its work. *)
UpdateDockerFailsLate ==
    /\ "late" \in events
    /\ pc = "write"
    /\ cfg' = Replaced(sed)
    /\ EndRound
    /\ mishaps' = mishaps \cup {"late"} \cup Races(sed)
    /\ UNCHANGED <<events, now, mainVars, md, prev, tries, stepVars>>
-----------------------------------------------------------------------------
(* The build's steps. *)

(* The first step with a secret makes the client with the token source of  *)
(* that moment; the others find it.                                        *)
GetKMSClient ==
    /\ "kms" \in events
    /\ main = "building"
    /\ kms' = IF kms = None THEN source ELSE kms
    /\ UNCHANGED <<events, now, mainVars, md, cfg, prev, source, loopVars, login, logins, mishaps>>

(* A step's docker login: it reads the file, and writes it with its own    *)
(* entry added.                                                            *)
LoginReads ==
    /\ "login" \in events
    /\ main = "building" /\ login = None /\ logins = 0
    /\ login' = cfg
    /\ UNCHANGED <<events, now, mainVars, md, cfg, prev, source, loopVars, kms, logins, mishaps>>

LoginWrites ==
    /\ login # None
    /\ cfg' = [login EXCEPT !.logins = @ + 1]
    /\ login' = None
    /\ logins' = logins + 1
    /\ mishaps' = mishaps \cup Races(login)
    /\ UNCHANGED <<events, now, mainVars, md, prev, source, loopVars, kms>>
-----------------------------------------------------------------------------
RunStep ==
    \/ InitialToken \/ SetDockerAccessToken \/ SetupFails \/ StartServer \/ SpawnRefresh

LoopStep ==
    \/ TimerFires \/ LoopReturns \/ RefreshToken \/ RefreshFails
    \/ GotScopes \/ ScopesFail \/ PostToken
    \/ SedReads \/ UpdateDocker \/ UpdateDockerFails \/ UpdateDockerFailsLate

BuildStep == GetKMSClient \/ LoginReads \/ LoginWrites

Next == RunStep \/ BuildEnds \/ ServerListens \/ LoopStep \/ BuildStep \/ Tick

Spec == Init /\ [][Next]_vars

(* A goroutine that can run is run, and a select does not take the timer   *)
(* for ever when the context is done too.                                  *)
FairSpec == Spec /\ WF_vars(LoopStep) /\ SF_vars(LoopReturns)
-----------------------------------------------------------------------------
TypeOK ==
    /\ events \in Scenarios
    /\ now \in 0 .. MaxTime
    /\ main \in {"token", "set", "server", "spawn", "building", "over"}
    /\ server \in {"none", "gce", "starting", "up"}
    /\ {md, prev, source, kms, tok} \subseteq Nat \cup {None}
    /\ cfg \in [auth : Nat \cup {None}, logins : 0 .. 1]
    /\ sed = None \/ sed \in [auth : Nat \cup {None}, logins : 0 .. 1]
    /\ login = None \/ login \in [auth : Nat \cup {None}, logins : 0 .. 1]
    /\ pc \in {"none", "wait", "gcloud", "scopes", "post", "sed", "write", "gone"}
    /\ wake \in Nat /\ refresh \in Nat /\ tries \in 0 .. MaxTries - 1
    /\ logins \in 0 .. 1
    /\ mishaps \subseteq {"gcloud", "metadata", "docker", "late", "race"}

(* A token that is valid: time has not passed its expiry. *)
Valid(token) == now =< token

(***************************************************************************)
(* While the build runs no copy of the token is past its expiry, as long   *)
(* as the commands that this copy depends on have not failed and no step   *)
(* has overwritten it: RefreshDuration wakes the goroutine early enough,   *)
(* whatever part of Latency each command takes.                            *)
(***************************************************************************)
CredentialsFresh ==
    main = "building" =>
        /\ "gcloud" \notin mishaps => Valid(source)
        /\ mishaps \cap {"gcloud", "docker", "late", "race"} = {} => Valid(cfg.auth)
        /\ (mishaps \cap {"gcloud", "metadata"} = {} /\ md # None) => Valid(md)

(***************************************************************************)
(* Between rounds the docker config holds prevGCRAuth, so that the next    *)
(* sed has something to replace: failures of gcloud, of the metadata       *)
(* server and of docker before sed has written leave the chain whole, and  *)
(* so do logins of steps, unless one of them and sed write back what the   *)
(* other has changed, or docker fails after sed has written.               *)
(***************************************************************************)
ChainWhole ==
    (main = "building" /\ pc = "wait" /\ mishaps \cap {"late", "race"} = {})
    => cfg.auth = prev

(***************************************************************************)
(* UpdateDockerAccessToken: "We need to take care not to disturb anything  *)
(* else the user might have written to ~/.docker/config.json."  Refreshes, *)
(* failed ones too, keep a step's login, unless the two run at one time.   *)
(***************************************************************************)
UserLoginKept == "race" \notin mishaps => cfg.logins = logins

(***************************************************************************)
(* The refresh goroutine ends after the build, whatever it was waiting for.*)
(***************************************************************************)
RefreshEnds == (main = "over") ~> (pc \in {"none", "gone"})
-----------------------------------------------------------------------------
(***************************************************************************)
(* run(): "Keep credentials up-to-date."  The KMS client's credentials are *)
(* valid while the build runs, as long as nothing fails.                   *)
(***************************************************************************)
KmsTokenFresh ==
    (main = "building" /\ mishaps = {} /\ kms # None) => Valid(kms)
=============================================================================
