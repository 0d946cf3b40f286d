---------------------------- MODULE LocalBuilder ----------------------------
(***************************************************************************)
(* One invocation after another of the local builder on one host: run()    *)
(* of localbuilder_main.go with the docker objects it makes, common.Clean  *)
(* at its start, its deferred calls at its end, and the goroutine that     *)
(* keeps the credentials fresh.  The user may press ctrl+c at any moment,  *)
(* which skips the deferred calls; the next invocation finds what is left. *)
(*                                                                         *)
(* BuildSteps models the build itself; here it is the step containers that *)
(* come and go and the ways Start may return.  A docker command succeeds,  *)
(* fails (having done its work or not), or is refused by the daemon: a     *)
(* name that is taken, a volume or network that is in use.                 *)
(***************************************************************************)
EXTENDS Naturals, Sequences

CONSTANTS
    Commands,    \* command lines, with the host and the config they are run on
    MaxRuns      \* bound on the number of invocations

Command == [help     : BOOLEAN,   \* --help
            version  : BOOLEAN,   \* --version
            config   : BOOLEAN,   \* --config is not empty
            dryrun   : BOOLEAN,   \* --dryrun, which makes no docker object
            noSource : BOOLEAN,   \* --no-source
            args     : Nat,       \* number of arguments
            bind     : BOOLEAN,   \* --bind-mount-source
            write    : BOOLEAN,   \* --write-workspace
            gce      : BOOLEAN,   \* computeMetadata.OnGCE()
            user     : BOOLEAN]   \* the steps use a volume of their own

ASSUME CommandsAssumption == Commands \subseteq Command

(* main() checks a command line before it calls run(). *)
NbSource(cmd) == IF cmd.noSource THEN 0 ELSE 1

UsageError(cmd) ==
    \/ cmd.noSource /\ cmd.bind
    \/ cmd.args # NbSource(cmd)
    \/ ~ cmd.config

RunsBuild(cmd) == ~ cmd.help /\ ~ cmd.version /\ ~ UsageError(cmd) /\ ~ cmd.dryrun

OptionOf(cmd) == [source |-> NbSource(cmd) = 1, bind |-> cmd.bind, write |-> cmd.write,
                  gce |-> cmd.gce, user |-> cmd.user]

Options == {OptionOf(cmd) : cmd \in {c \in Commands : RunsBuild(c)}}

ASSUME MaxRunsAssumption == MaxRuns \in Nat \ {0}

VARIABLES
    run,        \* the number of this invocation
    opts,       \* its options
    pc,         \* where run() is
    item,       \* Clean's item
    listed,     \* what Clean's getCmd printed
    defers,     \* run()'s deferred calls, the last one to be run first
    helper,     \* createdHelper of the workspace volume
    outcome,    \* what run() returns
    built,      \* the status the build ended with
    exported,   \* the workspace has been written to the host
    cancelled,  \* cancel() of run() has been called
    refresh,    \* the goroutine that refreshes the credentials
    clients,    \* docker run clients a cancelled Run has left to themselves
    objects,    \* the docker objects that exist: <<kind, run that made it>>
    mishap,     \* a command of this invocation failed by itself
    refused     \* a command was refused by the daemon

runVars == <<run, opts, pc, item, listed, defers, helper, outcome, built, exported>>
vars == <<runVars, cancelled, refresh, clients, objects, mishap, refused>>

Containers == {"step", "metadata", "helper", "tool"}
Kinds == Containers \cup {"network", "work", "home", "user"}

Made(kind) == <<kind, run>>
Exists(kind) == \E o \in objects : o[1] = kind

(* What a container of each kind mounts or is connected to.  (metadata is  *)
(* connected just after it is started; taken as one.)                      *)
Uses(kind) == CASE kind = "step"     -> {"work", "home", "user", "network"}
                [] kind = "metadata" -> {"network"}
                [] kind = "helper"   -> {"work"}
                [] kind = "tool"     -> {"home"}

InUseIn(objs, o) ==
    \E c \in objs : /\ c[1] \in Containers
                    /\ o[1] \in Uses(c[1])
                    /\ o[1] = "work" => c[2] = o[2]   \* its name is unique

Removable(D) == {o \in D : ~ InUseIn(objects, o)}

(* A volume of the same name is not made twice. *)
WithVolume(objs, kind) ==
    IF \E o \in objs : o[1] = kind THEN objs ELSE objs \cup {Made(kind)}

Init ==
    /\ run = 1
    /\ opts \in Options
    /\ pc = "list"
    /\ item = 1
    /\ listed = {}
    /\ defers = <<>>
    /\ helper = FALSE
    /\ outcome = "none"
    /\ built = "none"
    /\ exported = FALSE
    /\ cancelled = FALSE
    /\ refresh = "off"
    /\ mishap = FALSE
    /\ clients = {}
    /\ objects = {}
    /\ refused = FALSE

(* run() returns e: its deferred calls are next. *)
Return(e) == outcome' = e /\ pc' = "defers"

others == <<run, opts, exported, cancelled, refresh, clients>>
-----------------------------------------------------------------------------
(* common.Clean: for each item list, then delete what was listed. *)

ItemKinds_NetworkFirst == <<{"network"}, Containers, {"work", "home"}>>
ItemKinds_NoHome == <<Containers, {"network"}, {"work"}>>

ItemKinds == <<Containers, {"network"}, {"work", "home"}>>

NextItem ==
    /\ outcome' = outcome
    /\ item' = item + 1
    /\ pc' = IF item = Len(ItemKinds) THEN "config" ELSE "list"

ListItem ==
    /\ pc = "list"
    /\ LET found == {o \in objects : o[1] \in ItemKinds[item]} IN
         \/ found = {} /\ NextItem /\ UNCHANGED <<listed, mishap>>
         \/ /\ found # {}
            /\ listed' = found
            /\ pc' = "delete"
            /\ UNCHANGED <<item, outcome, mishap>>
         \/ Return("error") /\ mishap' = TRUE /\ UNCHANGED <<item, listed>>
    /\ UNCHANGED <<defers, helper, built, objects, refused, others>>

(* A container listed may have gone by itself meanwhile; whether docker    *)
(* calls that an error depends on its version.                             *)
DeleteItem ==
    /\ pc = "delete"
    /\ objects' = objects \ Removable(listed)
    /\ refused' = (refused \/ Removable(listed) # listed)
    /\ \/ Removable(listed) = listed /\ NextItem
       \/ /\ Removable(listed) # listed \/ ~ listed \subseteq objects
          /\ Return("error") /\ UNCHANGED item
    /\ mishap' = (mishap \/ ~ listed \subseteq objects)
    /\ UNCHANGED <<listed, defers, helper, built, others>>

DeleteFails ==
    /\ pc = "delete"
    /\ \E gone \in SUBSET Removable(listed) : objects' = objects \ gone
    /\ mishap' = TRUE
    /\ Return("error")
    /\ UNCHANGED <<item, listed, defers, helper, built, refused, others>>
-----------------------------------------------------------------------------
(* run(), up to the build.  A failing command may have had its effect.     *)

Fails(added) ==
    /\ objects' \in {objects \cup a : a \in added}
    /\ mishap' = TRUE
    /\ Return("error")
    /\ UNCHANGED <<defers, helper, refused>>

Goto(l) == pc' = l /\ UNCHANGED <<outcome, mishap, refused>>

(* The docker versions, the config, the project, the substitutions, the    *)
(* validation and the check of --bind-mount-source: no docker object.      *)
LoadConfig ==
    /\ pc = "config"
    /\ \/ Goto("volume") /\ UNCHANGED <<defers, helper, objects>>
       \/ Fails({{}})
    /\ UNCHANGED <<item, listed, built, others>>

SetupVolume ==
    /\ pc = "volume"
    /\ \/ opts.bind /\ Goto("token") /\ UNCHANGED objects
       \/ ~ opts.bind /\ Goto("copy") /\ objects' = objects \cup {Made("work")}
       \/ ~ opts.bind /\ Fails({{}, {Made("work")}})
    /\ UNCHANGED <<item, listed, defers, helper, built, others>>

DeferVolume_ExportFirst == IF opts.write THEN <<"export", "close">> ELSE <<"close">>

(* The deferred calls for the workspace volume. *)
DeferVolume == IF opts.write THEN <<"close", "export">> ELSE <<"close">>

(* Copy makes the helper container.  Its errors, and that of IsDirectory,  *)
(* return before anything is deferred.                                     *)
CopySource ==
    /\ pc = "copy"
    /\ \/ /\ objects' = IF opts.source THEN objects \cup {Made("helper")} ELSE objects
          /\ helper' = opts.source
          /\ defers' = DeferVolume
          /\ Goto("token")
       \/ opts.source /\ Fails({{}, {Made("helper")}})
    /\ UNCHANGED <<item, listed, built, others>>

(* gcloud.AccessToken and SetDockerAccessToken, whose container (--rm)     *)
(* makes the home volume by mounting it.                                   *)
SetToken ==
    /\ pc = "token"
    /\ \/ objects' = WithVolume(objects, "home") /\ Goto("network")
       \/ Fails({{}, {Made("home")}, {Made("home"), Made("tool")}})
    /\ UNCHANGED <<item, listed, defers, helper, built, others>>

(* A name that is taken: docker refuses and run() returns the error. *)
Refused ==
    /\ refused' = TRUE
    /\ Return("error")
    /\ UNCHANGED <<defers, objects, mishap>>

(* CreateCloudbuildNetwork, after the pull of the metadata image off GCE. *)
CreateNetwork ==
    /\ pc = "network"
    /\ \/ Exists("network") /\ Refused
       \/ /\ ~ Exists("network")
          /\ objects' = objects \cup {Made("network")}
          /\ IF opts.gce
               THEN defers' = Append(defers, "network") /\ Goto("refresh")
               ELSE UNCHANGED defers /\ Goto("metadata")
       \/ ~ Exists("network") /\ Fails({{}, {Made("network")}})
    /\ UNCHANGED <<item, listed, helper, built, others>>

(* The rest of startServer: docker run metadata and docker network connect. *)
(* Stop is deferred only when both have succeeded.                          *)
StartMetadata ==
    /\ pc = "metadata"
    /\ \/ Exists("metadata") /\ Refused
       \/ /\ ~ Exists("metadata")
          /\ objects' = objects \cup {Made("metadata")}
          /\ defers' = Append(defers, "stop")
          /\ Goto("refresh")
       \/ ~ Exists("metadata") /\ Fails({{}, {Made("metadata")}})
    /\ UNCHANGED <<item, listed, helper, built, others>>

SpawnRefresh ==
    /\ pc = "refresh"
    /\ refresh' = "wait"
    /\ Goto("build")
    /\ UNCHANGED <<run, opts, item, listed, defers, helper, built, exported,
                   cancelled, clients, objects>>
-----------------------------------------------------------------------------
(* b.Start, as BuildSteps has it. *)

(* The volumes that exist once a step's container does: docker makes the   *)
(* ones that are missing.                                                  *)
WithMounts(objs) ==
    LET h == WithVolume(objs, "home")
        u == IF opts.user THEN WithVolume(h, "user") ELSE h
    IN  IF opts.bind THEN u ELSE u \cup {Made("work")}

OldStep == \E o \in objects : o[1] = "step" /\ o[2] # run

(* Containers are named step_0, step_1, ...: one of an earlier invocation  *)
(* would be in the way.                                                    *)
RunStep ==
    /\ pc = "build"
    /\ IF OldStep
         THEN refused' = TRUE /\ UNCHANGED objects
         ELSE objects' = WithMounts(objects) \cup {Made("step")} /\ UNCHANGED refused
    /\ UNCHANGED <<runVars, cancelled, refresh, clients, mishap>>

(* What Start's deferred calls leave of objs. *)
AfterBuild(objs) ==
    {o \in objs : \/ o[1] \notin {"home"} \cup (IF opts.user THEN {"user"} ELSE {})
                  \/ InUseIn(objs, o)}

(* A build that is not DONE removes its containers, but a cancelled step's *)
(* client may still be about to make one.                                  *)
BuildEnds ==
    /\ pc = "build"
    /\ \E s \in {"DONE", "ERROR", "TIMEOUT"} :
          /\ built' = s
          /\ s = "DONE" => ~ Exists("step")
          /\ LET objs == {o \in objects : o[1] # "step"} IN
               \/ objects' = AfterBuild(objs) /\ UNCHANGED mishap
               \/ objects' = objs /\ mishap' = TRUE   \* a removal failed
          /\ \/ UNCHANGED clients
             \/ s # "DONE" /\ clients' = clients \cup {"step"}
    /\ pc' = "cancel"
    /\ UNCHANGED <<run, opts, item, listed, defers, helper, outcome, exported,
                   cancelled, refresh, refused>>

(* run() tests for StatusError alone: a TIMEOUT is not an error to main(). *)
Outcome_Status(s) == IF s = "ERROR" THEN "error" ELSE s
Outcome(s) == IF s = "ERROR" THEN "error" ELSE "ok"

FinishRun ==
    /\ pc = "cancel"
    /\ cancelled' = TRUE
    /\ Return(Outcome(built))
    /\ UNCHANGED <<run, opts, item, listed, defers, helper, built, exported,
                   refresh, clients, objects, mishap, refused>>
-----------------------------------------------------------------------------
(* The deferred calls, last one first.  Their errors are ignored.          *)

NetworkRemoved(objs) ==
    {o \in objs : o[1] = "network" => InUseIn(objs, o)}

Stopped_NetworkFirst(objs) ==
    {o \in NetworkRemoved(objs) : o[1] # "metadata"}

(* RealUpdater.Stop: docker rm -f metadata, then docker network rm. *)
Stopped(objs) == NetworkRemoved({o \in objs : o[1] # "metadata"})

(* Volume.Close: docker rm the helper if Copy or Export made it, then      *)
(* docker volume rm.                                                       *)
HelperRemoved(objs) == IF helper THEN objs \ {Made("helper")} ELSE objs
Closed(objs) ==
    LET rest == HelperRemoved(objs) IN
      IF InUseIn(rest, Made("work")) THEN rest ELSE rest \ {Made("work")}

Pop ==
    /\ pc = "defers"
    /\ defers # <<>>
    /\ defers' = SubSeq(defers, 1, Len(defers) - 1)
    /\ UNCHANGED <<run, opts, pc, item, listed, outcome, built, cancelled,
                   refresh, clients, refused>>

Calls(d) == defers # <<>> /\ defers[Len(defers)] = d

StopMetadata ==
    /\ Calls("stop")
    /\ Pop
    /\ \/ objects' = Stopped(objects) /\ UNCHANGED mishap
       \/ /\ objects' \in {objects, {o \in objects : o[1] # "metadata"}}
          /\ mishap' = TRUE
    /\ UNCHANGED <<helper, exported>>

RemoveNetwork ==
    /\ Calls("network")
    /\ Pop
    /\ \/ objects' = NetworkRemoved(objects) /\ UNCHANGED mishap
       \/ UNCHANGED objects /\ mishap' = TRUE
    /\ UNCHANGED <<helper, exported>>

(* Volume.Export copies from the helper container, which it makes (and     *)
(* with it a volume that is missing, empty) if Copy did not.               *)
ExportWorkspace ==
    /\ Calls("export")
    /\ Pop
    /\ \/ /\ objects' = IF helper THEN objects
                        ELSE objects \cup {Made("helper"), Made("work")}
          /\ helper' = TRUE
          /\ exported' = (Made("work") \in objects)
          /\ UNCHANGED mishap
       \/ /\ objects' \in {objects, objects \cup {Made("helper")}}
          /\ mishap' = TRUE
          /\ UNCHANGED <<helper, exported>>

CloseVolume ==
    /\ Calls("close")
    /\ Pop
    /\ \/ objects' = Closed(objects) /\ UNCHANGED mishap
       \/ objects' \in {objects, HelperRemoved(objects)} /\ mishap' = TRUE
    /\ UNCHANGED <<helper, exported>>
-----------------------------------------------------------------------------
(* The goroutine that keeps the credentials up to date: wait for the timer *)
(* or the context, gcloud.AccessToken, SetToken, UpdateDockerAccessToken.  *)

RefreshStep(from, to) ==
    /\ refresh = from
    /\ refresh' = to
    /\ UNCHANGED <<runVars, cancelled, mishap, refused>>

Alive == pc \notin {"returned", "killed"}

(* Both cases of the select may be ready; refresh is zero at first. *)
RefreshTimer == Alive /\ RefreshStep("wait", "token") /\ UNCHANGED <<clients, objects>>

RefreshStops ==
    /\ Alive /\ cancelled
    /\ RefreshStep("wait", "off")
    /\ UNCHANGED <<clients, objects>>

(* Without a token the loop starts again; with one a docker run follows. *)
RefreshToken ==
    /\ Alive
    /\ RefreshStep("token", "wait") \/ RefreshStep("token", "update")
    /\ UNCHANGED <<clients, objects>>

(* The container of UpdateDockerAccessToken (--rm) mounts the home volume. *)
UpdateStarts ==
    /\ Alive
    /\ ~ Exists("tool")
    /\ objects' = WithVolume(objects, "home") \cup {Made("tool")}
    /\ RefreshStep("update", "update")
    /\ UNCHANGED clients

(* The client ends with its container, or is left to itself with the       *)
(* context.                                                                *)
UpdateEnds ==
    /\ Alive
    /\ RefreshStep("update", "wait")
    /\ \/ ~ Exists("tool") /\ UNCHANGED clients
       \/ cancelled /\ clients' = clients \cup {"tool"}
    /\ UNCHANGED objects
-----------------------------------------------------------------------------
(* The docker daemon. *)

(* Step and tool containers run with --rm. *)
ContainerExits ==
    /\ \E o \in objects : o[1] \in {"step", "tool"} /\ objects' = objects \ {o}
    /\ UNCHANGED <<runVars, cancelled, refresh, clients, mishap, refused>>

(* A client that was left to itself is killed, or still gets its container *)
(* made; a step's container needs the network, its volumes do not.         *)
ClientEnds ==
    /\ \E c \in clients :
          /\ clients' = clients \ {c}
          /\ \/ UNCHANGED objects
             \/ c = "tool" /\ objects' = WithVolume(objects, "home") \cup {Made("tool")}
             \/ /\ c = "step"
                /\ objects' = WithMounts(objects) \cup
                              (IF Exists("network") THEN {Made("step")} ELSE {})
    /\ UNCHANGED <<runVars, cancelled, refresh, mishap, refused>>
-----------------------------------------------------------------------------
(* The process ends, and with it its goroutines, but not its clients.      *)

LeaveClients ==
    /\ refresh' = "off"
    /\ clients' = clients \cup (IF refresh = "update" THEN {"tool"} ELSE {})
                          \cup (IF pc = "build" THEN {"step"} ELSE {})

ProcessExits ==
    /\ pc = "defers"
    /\ defers = <<>>
    /\ pc' = "returned"
    /\ LeaveClients
    /\ UNCHANGED <<run, opts, item, listed, defers, helper, outcome, built,
                   exported, cancelled, objects, mishap, refused>>

(* ctrl+c: no deferred call is run.  A docker run of SetDockerAccessToken  *)
(* may be under way.                                                       *)
Interrupt ==
    /\ Alive
    /\ pc' = "killed"
    /\ LeaveClients
    /\ \/ UNCHANGED objects
       \/ /\ pc = "token"
          /\ objects' = WithVolume(objects, "home") \cup {Made("tool")}
    /\ UNCHANGED <<run, opts, item, listed, defers, helper, outcome, built,
                   exported, cancelled, mishap, refused>>

(* "Only one build can be run at a time on a given host": the clients of   *)
(* the last one are gone.  Its containers may not be.                      *)
RunAgain ==
    /\ ~ Alive
    /\ clients = {}
    /\ run < MaxRuns
    /\ run' = run + 1
    /\ opts' \in Options
    /\ pc' = "list"
    /\ item' = 1
    /\ listed' = {}
    /\ defers' = <<>>
    /\ helper' = FALSE
    /\ outcome' = "none"
    /\ built' = "none"
    /\ exported' = FALSE
    /\ cancelled' = FALSE
    /\ refresh' = "off"
    /\ mishap' = FALSE
    /\ UNCHANGED <<clients, objects, refused>>

Finished == ~ Alive /\ clients = {} /\ run = MaxRuns /\ UNCHANGED vars

Next ==
    \/ ListItem \/ DeleteItem \/ DeleteFails \/ LoadConfig \/ SetupVolume
    \/ CopySource \/ SetToken \/ CreateNetwork \/ StartMetadata \/ SpawnRefresh
    \/ RunStep \/ BuildEnds \/ FinishRun
    \/ StopMetadata \/ RemoveNetwork \/ ExportWorkspace \/ CloseVolume
    \/ RefreshTimer \/ RefreshStops \/ RefreshToken \/ UpdateStarts \/ UpdateEnds
    \/ ContainerExits \/ ClientEnds
    \/ ProcessExits \/ Interrupt \/ RunAgain \/ Finished

Spec == Init /\ [][Next]_vars
-----------------------------------------------------------------------------
TypeOK ==
    /\ run \in 1 .. MaxRuns
    /\ opts \in Options
    /\ pc \in {"list", "delete", "config", "volume", "copy", "token", "network",
               "metadata", "refresh", "build", "cancel", "defers", "returned",
               "killed"}
    /\ item \in 1 .. 4
    /\ listed \in SUBSET (Kinds \X (1 .. MaxRuns))
    /\ defers \in Seq({"close", "export", "network", "stop"})
    /\ helper \in BOOLEAN
    /\ outcome \in {"none", "ok", "error"}
    /\ built \in {"none", "DONE", "ERROR", "TIMEOUT"}
    /\ exported \in BOOLEAN
    /\ cancelled \in BOOLEAN
    /\ refresh \in {"off", "wait", "token", "update"}
    /\ clients \in SUBSET {"step", "tool"}
    /\ objects \in SUBSET (Kinds \X (1 .. MaxRuns))
    /\ mishap \in BOOLEAN
    /\ refused \in BOOLEAN

Cleaned == item > Len(ItemKinds)

(***************************************************************************)
(* Whatever an earlier invocation left behind, interrupted at any point,   *)
(* docker refuses none of the commands of the next one on its account:     *)
(* Clean's own removals are in an order in which nothing is in use, and    *)
(* afterwards the names of the network and of the containers are free.     *)
(***************************************************************************)
NeverRefused == ~ refused

(***************************************************************************)
(* Once Clean has succeeded every docker object is of this invocation, but *)
(* for volumes the steps name themselves, which Clean's filters do not     *)
(* match: leftovers do not add up.                                         *)
(***************************************************************************)
LeftoversGone ==
    Cleaned => \A o \in objects : o[2] = run \/ o[1] = "user"

(***************************************************************************)
(* When a build is DONE and no command failed, run()'s deferred calls      *)
(* leave of what it made at most the home volume, and the container that   *)
(* was refreshing the credentials in it.                                   *)
(***************************************************************************)
LittleLeftWhenDone ==
    (pc = "returned" /\ built = "DONE" /\ ~ mishap) =>
        \A o \in objects : o[2] = run => o[1] \in {"home", "tool"}

(***************************************************************************)
(* With --write-workspace the workspace reaches the host however the build *)
(* ended, before its volume is removed.                                    *)
(***************************************************************************)
WorkspaceWritten ==
    (pc = "returned" /\ built # "none" /\ opts.write /\ ~ opts.bind /\ ~ mishap) =>
        exported
=============================================================================
