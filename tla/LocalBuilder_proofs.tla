------------------------- MODULE LocalBuilder_proofs -------------------------
(***************************************************************************)
(* Proofs that what an earlier invocation of the local builder has left    *)
(* behind is never in the way of the next one, and that the deferred calls *)
(* of run() undo what it has done, for every set of options and every      *)
(* number of invocations.                                                  *)
(***************************************************************************)
EXTENDS LocalBuilder, SequenceTheorems, TLAPS

Cleaning == pc \in {"list", "delete"}
BeforeNetwork == pc \in {"config", "volume", "copy", "token", "network"}
BeforeBuild == BeforeNetwork \/ pc \in {"metadata", "refresh"}

(* While Clean runs, nobody else makes docker objects, and the kinds of    *)
(* the items it is through with are gone.                                  *)
CleanInv ==
    Cleaning =>
        /\ item \in 1 .. 3
        /\ clients = {}
        /\ refresh = "off"
        /\ pc = "delete" => \A o \in listed : o[1] \in ItemKinds[item]
        /\ pc = "delete" => \A o \in objects : o[1] \in ItemKinds[item] => o \in listed
        /\ item \in {2, 3} => \A o \in objects : o[1] \notin Containers
        /\ item = 3 => \A o \in objects : o[1] # "network"

(* Up to the build the names that run() is about to use are free. *)
SetupInv ==
    /\ BeforeBuild => clients = {} /\ refresh = "off"
    /\ BeforeNetwork => ~ Exists("network")
    /\ BeforeNetwork \/ pc = "metadata" => ~ Exists("metadata")
    /\ BeforeBuild \/ pc = "build" => item = 4

(* The only types these proofs need. *)
ObjectsTyped ==
    /\ run \in Nat
    /\ item \in 1 .. 4
    /\ objects \in SUBSET (Kinds \X Nat)

RunInv == ObjectsTyped /\ CleanInv /\ SetupInv /\ LeftoversGone /\ NeverRefused

(* ItemKinds, written out. *)
LEMMA Items ==
    /\ Len(ItemKinds) = 3
    /\ ItemKinds[1] = Containers
    /\ ItemKinds[2] = {"network"}
    /\ ItemKinds[3] = {"work", "home"}
BY DEF ItemKinds

(* A docker object of some kind, made by this invocation. *)
LEMMA MadeType ==
    ASSUME ObjectsTyped, NEW kind \in Kinds
    PROVE  Made(kind) \in Kinds \X Nat /\ Made(kind)[1] = kind /\ Made(kind)[2] = run
BY DEF ObjectsTyped, Made

(* What the operators on sets of objects add is made by this invocation. *)
LEMMA VolumesAdded ==
    ASSUME NEW objs, NEW kind
    PROVE  /\ objs \subseteq WithVolume(objs, kind)
           /\ WithVolume(objs, kind) \subseteq objs \cup {Made(kind)}
BY DEF WithVolume

(* The same for the volumes a step's container mounts. *)
LEMMA MountsAdded ==
    ASSUME NEW objs
    PROVE  /\ objs \subseteq WithMounts(objs)
           /\ WithMounts(objs) \subseteq
                 objs \cup {Made("home"), Made("user"), Made("work")}
BY VolumesAdded DEF WithMounts

(* What the deferred calls do never adds an object. *)
LEMMA OnlyRemoved ==
    ASSUME NEW objs
    PROVE  /\ NetworkRemoved(objs) \subseteq objs
           /\ Stopped(objs) \subseteq objs
           /\ HelperRemoved(objs) \subseteq objs
           /\ Closed(objs) \subseteq objs
           /\ AfterBuild(objs) \subseteq objs
BY DEF NetworkRemoved, Stopped, HelperRemoved, Closed, AfterBuild

(* Every step adds only objects of the current invocation. *)
AddsOwn == objects' \subseteq objects \cup {Made(kind) : kind \in Kinds}

(* Whatever a step of run(), of the goroutine or of docker adds is of the  *)
(* current invocation.                                                     *)
LEMMA StepAddsOwn ==
    ASSUME Next
    PROVE  AddsOwn
<1> USE DEF AddsOwn, Kinds, Containers
<1>1. CASE ListItem  BY <1>1 DEF ListItem
<1>2. CASE DeleteItem  BY <1>2 DEF DeleteItem
<1>3. CASE DeleteFails  BY <1>3 DEF DeleteFails
<1>4. CASE LoadConfig  BY <1>4 DEF LoadConfig, Fails
<1>5. CASE SetupVolume  BY <1>5 DEF SetupVolume, Fails
<1>6. CASE CopySource  BY <1>6 DEF CopySource, Fails
<1>7. CASE SetToken  BY <1>7, VolumesAdded DEF SetToken, Fails
<1>8. CASE CreateNetwork  BY <1>8 DEF CreateNetwork, Fails, Refused
<1>9. CASE StartMetadata  BY <1>9 DEF StartMetadata, Fails, Refused
<1>10. CASE SpawnRefresh  BY <1>10 DEF SpawnRefresh
<1>11. CASE RunStep  BY <1>11, MountsAdded DEF RunStep
<1>12. CASE BuildEnds  BY <1>12, OnlyRemoved DEF BuildEnds
<1>13. CASE FinishRun  BY <1>13 DEF FinishRun
<1>14. CASE StopMetadata  BY <1>14, OnlyRemoved DEF StopMetadata
<1>15. CASE RemoveNetwork  BY <1>15, OnlyRemoved DEF RemoveNetwork
<1>16. CASE ExportWorkspace  BY <1>16 DEF ExportWorkspace
<1>17. CASE CloseVolume  BY <1>17, OnlyRemoved DEF CloseVolume
<1>18. CASE RefreshTimer \/ RefreshStops \/ RefreshToken \/ UpdateEnds
  BY <1>18 DEF RefreshTimer, RefreshStops, RefreshToken, UpdateEnds
<1>19. CASE UpdateStarts  BY <1>19, VolumesAdded DEF UpdateStarts
<1>20. CASE ContainerExits  BY <1>20 DEF ContainerExits
<1>21. CASE ClientEnds  BY <1>21, VolumesAdded, MountsAdded DEF ClientEnds
<1>22. CASE ProcessExits \/ RunAgain \/ Finished
  BY <1>22 DEF ProcessExits, RunAgain, Finished, vars
<1>23. CASE Interrupt  BY <1>23, VolumesAdded DEF Interrupt
<1> QED
  BY <1>1, <1>2, <1>3, <1>4, <1>5, <1>6, <1>7, <1>8, <1>9, <1>10, <1>11, <1>12,
     <1>13, <1>14, <1>15, <1>16, <1>17, <1>18, <1>19, <1>20, <1>21, <1>22, <1>23
     DEF Next

(* On a host without leftovers the invariant holds. *)
LEMMA RunInvInit == Init => RunInv
BY Items DEF Init, RunInv, ObjectsTyped, CleanInv, Cleaning, SetupInv, BeforeBuild,
          BeforeNetwork, Exists, LeftoversGone, Cleaned, NeverRefused

Later == {"cancel", "defers", "returned", "killed"}

(* Steps that stay out of Clean's way and of run()'s set-up: they change   *)
(* neither item nor run, and pc only to go on to the teardown.             *)
LEMMA LaterStep ==
    ASSUME RunInv, AddsOwn, UNCHANGED <<run, item>>, NeverRefused', pc' \in Later
    PROVE  RunInv'
<1>1. ObjectsTyped'  BY MadeType DEF RunInv, ObjectsTyped, AddsOwn
<1>2. LeftoversGone' BY MadeType DEF RunInv, LeftoversGone, Cleaned, AddsOwn, ItemKinds
<1> QED
  BY <1>1, <1>2 DEF RunInv, Later, CleanInv, SetupInv, Cleaning, BeforeBuild,
     BeforeNetwork

(* Clean: what is listed is never in use, because the items before it are  *)
(* gone, and after the last of them only volumes of the steps are left.    *)
LEMMA CleanStep ==
    ASSUME RunInv, ListItem \/ DeleteItem \/ DeleteFails
    PROVE  RunInv'
<1>1. CASE ListItem /\ pc' = "defers"
  BY <1>1, LaterStep DEF ListItem, NextItem, Later, others, AddsOwn, RunInv,
     NeverRefused
<1>2. CASE ListItem /\ pc' # "defers"
  BY <1>2, Items DEF ListItem, NextItem, Return, others, RunInv, ObjectsTyped, CleanInv,
     Cleaning, SetupInv, BeforeBuild, BeforeNetwork, Exists, LeftoversGone, Cleaned,
     NeverRefused, Containers, Kinds
<1>3. CASE DeleteFails
  BY <1>3, LaterStep DEF DeleteFails, Return, Later, others, AddsOwn, RunInv,
     NeverRefused
<1>4. CASE DeleteItem
  <2>1. Removable(listed) = listed
    BY <1>4, Items DEF DeleteItem, RunInv, ObjectsTyped, CleanInv, Cleaning, Removable,
       InUseIn, Uses, Containers, Kinds
  <2>2. /\ NeverRefused'
        /\ objects' = objects \ listed
        /\ run' = run
        /\ \/ pc' = "defers" /\ item' = item
           \/ item' = item + 1 /\ pc' = IF item = 3 THEN "config" ELSE "list"
        /\ UNCHANGED <<clients, refresh>>
    BY <1>4, <2>1, Items DEF DeleteItem, NextItem, Return, others, RunInv, NeverRefused
  <2>3. CASE pc' = "defers"
    BY <2>2, <2>3, LaterStep DEF Later, AddsOwn
  <2>4. CASE pc' # "defers"
    <3>1. \A o \in objects' : o \in objects /\ o[1] \notin ItemKinds[item]
      BY <1>4, <2>2 DEF DeleteItem, RunInv, CleanInv, Cleaning
    <3> QED
      BY <1>4, <2>2, <2>4, <3>1, Items DEF DeleteItem, RunInv, ObjectsTyped, CleanInv,
         Cleaning, SetupInv, BeforeBuild, BeforeNetwork, Exists, LeftoversGone, Cleaned,
         Containers, Kinds
  <2> QED  BY <2>3, <2>4
<1> QED  BY <1>1, <1>2, <1>3, <1>4

(* run() before its build: the names it takes were free. *)
LEMMA SetupStep ==
    ASSUME RunInv,
           LoadConfig \/ SetupVolume \/ CopySource \/ SetToken \/ CreateNetwork
             \/ StartMetadata \/ SpawnRefresh
    PROVE  RunInv'
<1>1. Next /\ AddsOwn  BY StepAddsOwn DEF Next
<1>2. /\ BeforeBuild
      /\ UNCHANGED <<run, item, clients>>
      /\ pc' # "build" => refresh' = refresh
      /\ pc' \in Later \/ BeforeBuild' \/ pc' = "build"
  BY DEF LoadConfig, SetupVolume, CopySource, SetToken, CreateNetwork, StartMetadata,
         SpawnRefresh, Fails, Goto, Refused, Return, others, Later, BeforeBuild,
         BeforeNetwork
<1>3. NeverRefused'
  BY DEF LoadConfig, SetupVolume, CopySource, SetToken, CreateNetwork, StartMetadata,
         SpawnRefresh, Fails, Goto, Refused, RunInv, SetupInv, BeforeNetwork, NeverRefused
<1>4. CASE pc' \in Later  BY <1>1, <1>2, <1>3, <1>4, LaterStep
<1>5. CASE pc' \notin Later
  <2>1. ObjectsTyped'  BY <1>1, <1>2, MadeType DEF RunInv, ObjectsTyped, AddsOwn
  <2>2. LeftoversGone'
    BY <1>1, <1>2, MadeType DEF RunInv, LeftoversGone, Cleaned, AddsOwn, ItemKinds
  <2>3. BeforeNetwork' => ~ Exists("network")'
    <3>1. ASSUME BeforeNetwork'
          PROVE  /\ BeforeNetwork
                 /\ \A o \in objects' : o \in objects \/ o[1] # "network"
      BY <3>1, VolumesAdded, MadeType DEF LoadConfig, SetupVolume, CopySource, SetToken,
         CreateNetwork, StartMetadata, SpawnRefresh, Fails, Goto, Refused, Return,
         BeforeNetwork, RunInv, Kinds, Containers
    <3> QED  BY <3>1 DEF RunInv, SetupInv, Exists
  <2>4. BeforeNetwork' \/ pc' = "metadata" => ~ Exists("metadata")'
    <3>1. ASSUME BeforeNetwork' \/ pc' = "metadata"
          PROVE  /\ BeforeNetwork
                 /\ \A o \in objects' : o \in objects \/ o[1] # "metadata"
      BY <3>1, VolumesAdded, MadeType DEF LoadConfig, SetupVolume, CopySource, SetToken,
         CreateNetwork, StartMetadata, SpawnRefresh, Fails, Goto, Refused, Return,
         BeforeNetwork, RunInv, Kinds, Containers
    <3> QED  BY <3>1 DEF RunInv, SetupInv, Exists
  <2> QED
    BY <1>2, <1>3, <1>5, <2>1, <2>2, <2>3, <2>4 DEF RunInv, Later, CleanInv, SetupInv,
       Cleaning, BeforeBuild, BeforeNetwork
<1> QED  BY <1>4, <1>5

(* The build: the only step containers there can be are its own. *)
LEMMA BuildStep ==
    ASSUME RunInv, RunStep \/ BuildEnds \/ FinishRun
    PROVE  RunInv'
<1>1. Next /\ AddsOwn  BY StepAddsOwn DEF Next
<1>2. CASE RunStep
  <2>1. ~ OldStep
    BY <1>2, Items DEF RunStep, OldStep, RunInv, SetupInv, LeftoversGone, Cleaned
  <2>2. ObjectsTyped'
    BY <1>1, <1>2, MadeType DEF RunStep, RunInv, ObjectsTyped, AddsOwn, runVars
  <2>3. LeftoversGone'
    BY <1>1, <1>2, MadeType DEF RunStep, RunInv, LeftoversGone, Cleaned, AddsOwn,
       ItemKinds, runVars
  <2> QED
    BY <1>2, <2>1, <2>2, <2>3 DEF RunStep, RunInv, CleanInv, SetupInv, Cleaning,
       BeforeBuild, BeforeNetwork, NeverRefused, runVars
<1>3. CASE BuildEnds \/ FinishRun
  BY <1>1, <1>3, LaterStep DEF BuildEnds, FinishRun, Return, Later, RunInv, NeverRefused
<1> QED  BY <1>2, <1>3

(* The deferred calls, the exit of the process and ctrl+c. *)
LEMMA TeardownStep ==
    ASSUME RunInv,
           StopMetadata \/ RemoveNetwork \/ ExportWorkspace \/ CloseVolume
             \/ ProcessExits \/ Interrupt
    PROVE  RunInv'
<1>1. Next /\ AddsOwn  BY StepAddsOwn DEF Next
<1> QED
  BY <1>1, LaterStep DEF StopMetadata, RemoveNetwork, ExportWorkspace, CloseVolume,
     ProcessExits, Interrupt, Pop, Later, RunInv, NeverRefused

(* The goroutine and the clients are only at work when Clean and the       *)
(* set-up are over; containers that exit by themselves disturb neither.    *)
LEMMA BackgroundStep ==
    ASSUME RunInv,
           RefreshTimer \/ RefreshStops \/ RefreshToken \/ UpdateStarts \/ UpdateEnds
             \/ ContainerExits \/ ClientEnds
    PROVE  RunInv'
<1>1. Next /\ AddsOwn  BY StepAddsOwn DEF Next
<1>2. UNCHANGED <<run, item, pc, listed, refused>>
  BY DEF RefreshTimer, RefreshStops, RefreshToken, UpdateStarts, UpdateEnds,
         ContainerExits, ClientEnds, RefreshStep, runVars
<1>3. ObjectsTyped'  BY <1>1, <1>2, MadeType DEF RunInv, ObjectsTyped, AddsOwn
<1>4. LeftoversGone'
  BY <1>1, <1>2, MadeType DEF RunInv, LeftoversGone, Cleaned, AddsOwn, ItemKinds
<1>5. CASE ContainerExits
  BY <1>2, <1>3, <1>4, <1>5 DEF ContainerExits, RunInv, CleanInv, SetupInv, Cleaning,
     BeforeBuild, BeforeNetwork, Exists, NeverRefused
<1>6. CASE ~ ContainerExits
  <2>1. refresh # "off" \/ clients # {}
    BY <1>6 DEF RefreshTimer, RefreshStops, RefreshToken, UpdateStarts, UpdateEnds,
       ClientEnds, RefreshStep
  <2>2. ~ Cleaning /\ ~ BeforeBuild
    BY <2>1 DEF RunInv, CleanInv, SetupInv
  <2> QED
    BY <1>2, <1>3, <1>4, <2>2 DEF RunInv, CleanInv, SetupInv, Cleaning, BeforeBuild,
       BeforeNetwork, NeverRefused
<1> QED  BY <1>5, <1>6

(* Every step preserves the invariant; a new invocation starts with Clean. *)
LEMMA RunInvStep == RunInv /\ [Next]_vars => RunInv'
<1> SUFFICES ASSUME RunInv, [Next]_vars PROVE RunInv'
  OBVIOUS
<1>1. CASE RunAgain
  BY <1>1, Items DEF RunAgain, RunInv, ObjectsTyped, CleanInv, Cleaning, SetupInv,
     BeforeBuild, BeforeNetwork, LeftoversGone, Cleaned, NeverRefused
<1>2. CASE UNCHANGED vars
  BY <1>2 DEF vars, runVars, RunInv, ObjectsTyped, CleanInv, Cleaning, SetupInv,
     BeforeBuild, BeforeNetwork, Exists, LeftoversGone, Cleaned, NeverRefused, ItemKinds
<1> QED
  BY <1>1, <1>2, CleanStep, SetupStep, BuildStep, TeardownStep, BackgroundStep
     DEF Next, Finished

(* The inductive invariant holds in every state of every sequence of       *)
(* invocations, interrupted anywhere.                                      *)
THEOREM RunInvariant == Spec => []RunInv
BY RunInvInit, RunInvStep, PTL DEF Spec

(***************************************************************************)
(* Docker refuses no command of common.Clean or of run()'s set-up because  *)
(* of what an earlier invocation left behind.                              *)
(***************************************************************************)
THEOREM CommandsNeverRefused == Spec => []NeverRefused
<1>1. RunInv => NeverRefused  BY DEF RunInv
<1> QED  BY <1>1, RunInvariant, PTL

(***************************************************************************)
(* After common.Clean no object of an earlier invocation is left but for   *)
(* the volumes that steps name themselves.                                 *)
(***************************************************************************)
THEOREM LeftoversAreGone == Spec => []LeftoversGone
<1>1. RunInv => LeftoversGone  BY DEF RunInv
<1> QED  BY <1>1, RunInvariant, PTL

(* What the options of a command line are. *)
LEMMA OptionTypes ==
    ASSUME NEW o \in Options
    PROVE  /\ o.source \in BOOLEAN /\ o.bind \in BOOLEAN /\ o.write \in BOOLEAN
           /\ o.gce \in BOOLEAN /\ o.user \in BOOLEAN
<1>1. PICK cmd \in Commands : o = OptionOf(cmd)  BY DEF Options
<1>2. cmd \in Command  BY CommandsAssumption
<1>3. /\ cmd.bind \in BOOLEAN /\ cmd.write \in BOOLEAN
      /\ cmd.gce \in BOOLEAN /\ cmd.user \in BOOLEAN
  BY <1>2 DEF Command
<1>4. /\ o.source = (NbSource(cmd) = 1)
      /\ o.bind = cmd.bind /\ o.write = cmd.write /\ o.gce = cmd.gce /\ o.user = cmd.user
  BY <1>1 DEF OptionOf
<1> QED  BY <1>3, <1>4, Zenon

(* The stack of deferred calls, taken one call off. *)
LEMMA Popped ==
    ASSUME TypeOK, defers # <<>>, defers' = SubSeq(defers, 1, Len(defers) - 1)
    PROVE  /\ Len(defers) \in Nat \ {0}
           /\ defers' \in Seq({"close", "export", "network", "stop"})
           /\ Len(defers') = Len(defers) - 1
           /\ \A j \in 1 .. Len(defers') : defers'[j] = defers[j]
<1> DEFINE D == {"close", "export", "network", "stop"}
           n == Len(defers) - 1
<1>1. defers \in Seq(D)  BY DEF TypeOK
<1>2. Len(defers) \in Nat \ {0}  BY <1>1, EmptySeq, LenProperties
<1> HIDE DEF D
<1>3. n \in Int /\ 1 \in Int  BY <1>2
<1>4. n >= 0  BY <1>2
<1>5. \A j \in 1 .. n : defers[j] \in D  BY <1>1, <1>2, ElementOfSeq
<1>6. defers' = SubSeq(defers, 1, n)  OBVIOUS
<1> HIDE DEF n
<1>7. defers' \in Seq(D)
  BY <1>3, <1>5, <1>6, SubSeqProperties
<1>8. Len(defers') = IF 1 <= n THEN n - 1 + 1 ELSE 0
  BY <1>3, <1>5, <1>6, SubSeqProperties
<1>9. \A j \in 1 .. (n - 1 + 1) : defers'[j] = defers[1 + j - 1]
  BY <1>3, <1>5, <1>6, SubSeqProperties
<1>10. Len(defers') = n /\ \A j \in 1 .. n : defers'[j] = defers[j]
  BY <1>3, <1>4, <1>8, <1>9
<1> QED  BY <1>2, <1>7, <1>10 DEF D, n

(* The parts of the type invariant. *)
FlagTypes ==
    {helper, exported, cancelled, mishap, refused} \subseteq BOOLEAN

ProgressTypes ==
    /\ pc \in {"list", "delete", "config", "volume", "copy", "token", "network",
               "metadata", "refresh", "build", "cancel", "defers", "returned",
               "killed"}
    /\ outcome \in {"none", "ok", "error"}
    /\ built \in {"none", "DONE", "ERROR", "TIMEOUT"}
    /\ refresh \in {"off", "wait", "token", "update"}
    /\ clients \in SUBSET {"step", "tool"}

DataTypes ==
    /\ run \in 1 .. MaxRuns
    /\ opts \in Options
    /\ item \in 1 .. 4
    /\ listed \in SUBSET (Kinds \X (1 .. MaxRuns))
    /\ objects \in SUBSET (Kinds \X (1 .. MaxRuns))

StackType == defers \in Seq({"close", "export", "network", "stop"})

(* They make up the type invariant. *)
LEMMA TypeParts ==
    /\ TypeOK <=> FlagTypes /\ ProgressTypes /\ DataTypes /\ StackType
    /\ TypeOK' <=> (FlagTypes /\ ProgressTypes /\ DataTypes /\ StackType)'
BY DEF FlagTypes, ProgressTypes, DataTypes, StackType, TypeOK

(* Every step keeps the variables typed: Clean is never past its last      *)
(* item, and what is added to objects is of this invocation.               *)
LEMMA TypeStep ==
    ASSUME TypeOK, RunInv, Next, ~ RunAgain, ~ Finished
    PROVE  TypeOK' /\ run' = run /\ opts' = opts
<1> FlagTypes /\ ProgressTypes /\ DataTypes /\ StackType  BY TypeParts
<1>1. run' = run /\ opts' = opts
  BY DEF Next, ListItem, DeleteItem, DeleteFails, LoadConfig, SetupVolume,
     CopySource, SetToken, CreateNetwork, StartMetadata, SpawnRefresh, RunStep,
     BuildEnds, FinishRun, StopMetadata, RemoveNetwork, ExportWorkspace, CloseVolume,
     RefreshTimer, RefreshStops, RefreshToken, UpdateStarts, UpdateEnds, RefreshStep,
     ContainerExits, ClientEnds, ProcessExits, Interrupt, Pop, runVars, others
<1>2. objects' \in SUBSET (Kinds \X (1 .. MaxRuns))
  BY <1>1, StepAddsOwn DEF AddsOwn, Made, DataTypes
<1>3. CASE ListItem \/ DeleteItem \/ DeleteFails
  <2> USE DEF ListItem, DeleteItem, DeleteFails, NextItem, Return, others
  <2>1. FlagTypes'  BY <1>3 DEF FlagTypes
  <2>2. ProgressTypes'  BY <1>3 DEF ProgressTypes
  <2>3. DataTypes'  BY <1>1, <1>2, <1>3, Items DEF DataTypes, RunInv, CleanInv, Cleaning
  <2>4. StackType'  BY <1>3 DEF StackType
  <2> QED  BY <1>1, <2>1, <2>2, <2>3, <2>4, TypeParts
<1>4. CASE LoadConfig \/ SetupVolume \/ SetToken \/ SpawnRefresh
  <2> USE DEF LoadConfig, SetupVolume, SetToken, SpawnRefresh, Fails, Goto, Return, others
  <2>1. FlagTypes'  BY <1>4 DEF FlagTypes
  <2>2. ProgressTypes'  BY <1>4 DEF ProgressTypes
  <2>3. DataTypes'  BY <1>1, <1>2, <1>4 DEF DataTypes
  <2>4. StackType'  BY <1>4 DEF StackType
  <2> QED  BY <1>1, <2>1, <2>2, <2>3, <2>4, TypeParts
<1>5. CASE CopySource \/ CreateNetwork \/ StartMetadata
  <2> USE DEF CopySource, CreateNetwork, StartMetadata, Fails, Refused, Goto, Return, others
  <2>1. FlagTypes'  BY <1>5, OptionTypes DEF FlagTypes, DataTypes
  <2>2. ProgressTypes'  BY <1>5 DEF ProgressTypes
  <2>3. DataTypes'  BY <1>1, <1>2, <1>5 DEF DataTypes
  <2>4. StackType'
    <3>1. DeferVolume \in Seq({"close", "export", "network", "stop"})
      BY DEF DeferVolume
    <3>2. CASE CopySource  BY <3>1, <3>2 DEF StackType
    <3>3. CASE CreateNetwork  BY <3>3, AppendProperties DEF StackType
    <3>4. CASE StartMetadata  BY <3>4, AppendProperties DEF StackType
    <3> QED  BY <1>5, <3>2, <3>3, <3>4
  <2> QED  BY <1>1, <2>1, <2>2, <2>3, <2>4, TypeParts
<1>6. CASE RunStep \/ BuildEnds \/ FinishRun
  <2> USE DEF RunStep, BuildEnds, FinishRun, Outcome, Return, runVars
  <2>1. FlagTypes'  BY <1>6 DEF FlagTypes
  <2>2. ProgressTypes'  BY <1>6 DEF ProgressTypes
  <2>3. DataTypes'  BY <1>1, <1>2, <1>6 DEF DataTypes
  <2>4. StackType'  BY <1>6 DEF StackType
  <2> QED  BY <1>1, <2>1, <2>2, <2>3, <2>4, TypeParts
<1>7. CASE StopMetadata \/ RemoveNetwork \/ ExportWorkspace \/ CloseVolume
  <2> USE DEF StopMetadata, RemoveNetwork, ExportWorkspace, CloseVolume, Pop
  <2>1. FlagTypes'
    <3>1. CASE ExportWorkspace
      <4>1. (Made("work") \in objects) \in BOOLEAN  OBVIOUS
      <4>2. exported' \in {exported, Made("work") \in objects}  BY <3>1
      <4>3. exported' \in BOOLEAN  BY <4>1, <4>2 DEF FlagTypes
      <4>4. {helper, cancelled, mishap, refused}' \subseteq BOOLEAN
        BY <3>1 DEF FlagTypes
      <4> QED  BY <4>3, <4>4 DEF FlagTypes
    <3>2. CASE ~ ExportWorkspace  BY <1>7, <3>2 DEF FlagTypes
    <3> QED  BY <3>1, <3>2
  <2>2. ProgressTypes'  BY <1>7 DEF ProgressTypes
  <2>3. DataTypes'  BY <1>1, <1>2, <1>7 DEF DataTypes
  <2>4. StackType'  BY <1>7, Popped DEF StackType
  <2> QED  BY <1>1, <2>1, <2>2, <2>3, <2>4, TypeParts
<1>8. CASE RefreshTimer \/ RefreshStops \/ RefreshToken \/ UpdateStarts \/ UpdateEnds
             \/ ContainerExits \/ ClientEnds
  <2> USE DEF RefreshTimer, RefreshStops, RefreshToken, UpdateStarts, UpdateEnds,
              RefreshStep, ContainerExits, ClientEnds, runVars
  <2>1. FlagTypes'  BY <1>8 DEF FlagTypes
  <2>2. ProgressTypes'
    <3>1. CASE ContainerExits \/ ClientEnds  BY <3>1 DEF ProgressTypes
    <3>2. CASE UpdateEnds  BY <3>2 DEF ProgressTypes
    <3> QED  BY <1>8, <3>1, <3>2 DEF ProgressTypes
  <2>3. DataTypes'  BY <1>1, <1>2, <1>8 DEF DataTypes
  <2>4. StackType'  BY <1>8 DEF StackType
  <2> QED  BY <1>1, <2>1, <2>2, <2>3, <2>4, TypeParts
<1>9. CASE ProcessExits \/ Interrupt
  <2> USE DEF ProcessExits, Interrupt, LeaveClients
  <2>1. FlagTypes'  BY <1>9 DEF FlagTypes
  <2>2. ProgressTypes'  BY <1>9 DEF ProgressTypes
  <2>3. DataTypes'  BY <1>1, <1>2, <1>9 DEF DataTypes
  <2>4. StackType'  BY <1>9 DEF StackType
  <2> QED  BY <1>1, <2>1, <2>2, <2>3, <2>4, TypeParts
<1> QED  BY <1>3, <1>4, <1>5, <1>6, <1>7, <1>8, <1>9 DEF Next

(* They hold at first, and when another invocation begins. *)
LEMMA TypeInit == (Init => TypeOK) /\ (TypeOK /\ RunAgain => TypeOK')
<1>1. ASSUME Init PROVE TypeOK
  <2>1. FlagTypes  BY <1>1 DEF Init, FlagTypes
  <2>2. ProgressTypes  BY <1>1 DEF Init, ProgressTypes
  <2>3. DataTypes  BY <1>1, MaxRunsAssumption DEF Init, DataTypes
  <2>4. StackType  BY <1>1 DEF Init, StackType
  <2> QED  BY <2>1, <2>2, <2>3, <2>4, TypeParts
<1>2. ASSUME TypeOK, RunAgain PROVE TypeOK'
  <2>1. FlagTypes'  BY <1>2, TypeParts DEF RunAgain, FlagTypes
  <2>2. ProgressTypes'  BY <1>2, TypeParts DEF RunAgain, ProgressTypes
  <2>3. DataTypes'  BY <1>2, MaxRunsAssumption, TypeParts DEF RunAgain, DataTypes
  <2>4. StackType'  BY <1>2 DEF RunAgain, StackType
  <2> QED  BY <2>1, <2>2, <2>3, <2>4, TypeParts
<1> QED  BY <1>1, <1>2

(***************************************************************************)
(* The variables of run(), of the docker daemon and of the goroutine keep  *)
(* their types, whatever fails and whenever the user presses ctrl+c.       *)
(***************************************************************************)
THEOREM TypeCorrect == Spec => []TypeOK
<1>1. TypeOK /\ UNCHANGED vars => TypeOK'
  BY DEF TypeOK, vars, runVars
<1>2. TypeOK /\ RunInv /\ [Next]_vars => TypeOK'
  BY <1>1, TypeInit, TypeStep DEF Finished
<1> QED  BY <1>2, TypeInit, RunInvariant, PTL DEF Spec
-----------------------------------------------------------------------------
(* The teardown: what is deferred, against what exists.                    *)

Deferred(d) == \E j \in 1 .. Len(defers) : defers[j] = d

SettingUp == pc \in {"token", "network", "metadata", "refresh", "build"}
Over == pc \in {"cancel", "defers", "returned"}
Tidy == Over /\ built = "DONE" /\ ~ mishap

(* Close is the last of the deferred calls, and whoever exports closes. *)
StackInv ==
    /\ \A j \in 1 .. Len(defers) : defers[j] = "close" => j = 1
    /\ Deferred("export") => Deferred("close")
    /\ Deferred("close") => ~ opts.bind
    /\ Cleaning \/ pc \in {"config", "volume", "copy", "returned"} => defers = <<>>
    /\ pc = "copy" => ~ opts.bind
    /\ SettingUp /\ ~ opts.bind => Deferred("close")
    /\ Cleaning \/ BeforeBuild \/ pc = "build" => built = "none"

(* A build that is DONE has no step left, and no client about to make one. *)
StepInv ==
    /\ pc = "build" => "step" \notin clients
    /\ built = "DONE" => ~ Exists("step") /\ "step" \notin clients

(* A volume the steps name themselves is there only while they run. *)
UserInv == ~ opts.user \/ Tidy => Made("user") \notin objects

(* The workspace volume and its helper container are there only with Close *)
(* deferred, which knows of the helper.                                    *)
VolumeInv ==
    /\ \A o \in objects : o[2] =< run
    /\ Cleaning \/ pc \in {"config", "volume"} => \A o \in objects : o[2] # run
    /\ pc = "copy" => Made("helper") \notin objects
    /\ opts.bind => Made("work") \notin objects /\ Made("helper") \notin objects
    /\ SettingUp \/ Tidy =>
         /\ Made("work") \in objects \/ Made("helper") \in objects => Deferred("close")
         /\ Made("helper") \in objects => helper

(* So are the network and the metadata server, whose removal is deferred   *)
(* in the one order that works.                                            *)
NetworkInv ==
    pc \in {"refresh", "build"} \/ Tidy =>
        /\ Exists("metadata") => Deferred("stop")
        /\ Exists("network") => Deferred("stop") \/ (Deferred("network") /\ ~ Exists("metadata"))

(* Until the workspace is exported its volume exists. *)
ExportInv ==
    opts.write /\ ~ opts.bind =>
        /\ pc = "copy" => Made("work") \in objects
        /\ SettingUp => Deferred("export") /\ Made("work") \in objects
        /\ Over /\ built # "none" /\ ~ mishap =>
              /\ exported \/ Deferred("export")
              /\ Deferred("export") => Made("work") \in objects

TeardownInv ==
    StackInv /\ StepInv /\ UserInv /\ VolumeInv /\ NetworkInv /\ ExportInv

DoneInv == TypeOK /\ RunInv /\ TeardownInv

(* What is deferred is a matter of the stack alone. *)
LEMMA StackBasics ==
    /\ defers = <<>> => \A d : ~ Deferred(d)
    /\ defers' = <<>> => \A d : ~ Deferred(d)'
    /\ defers' = defers => \A d : Deferred(d)' <=> Deferred(d)
BY DEF Deferred

(* CopySource defers the calls for the workspace volume, Close first. *)
LEMMA VolumeDeferred ==
    ASSUME defers' = DeferVolume
    PROVE  /\ Deferred("close")'
           /\ opts.write => Deferred("export")'
           /\ \A j \in 1 .. Len(defers') : defers'[j] = "close" => j = 1
<1>1. CASE opts.write
  <2>1. defers' = <<"close", "export">>  BY <1>1 DEF DeferVolume
  <2> QED  BY <2>1 DEF Deferred
<1>2. CASE ~ opts.write
  <2>1. defers' = <<"close">>  BY <1>2 DEF DeferVolume
  <2> QED  BY <1>2, <2>1 DEF Deferred
<1> QED  BY <1>1, <1>2

(* One more deferred call. *)
LEMMA OneDeferred ==
    ASSUME TypeOK, NEW d \in {"network", "stop"}, defers' = Append(defers, d)
    PROVE  /\ Deferred(d)'
           /\ \A x : Deferred(x) => Deferred(x)'
           /\ \A x : Deferred(x)' => Deferred(x) \/ x = d
           /\ \A j \in 1 .. Len(defers') :
                 defers'[j] = "close" => j \in 1 .. Len(defers) /\ defers[j] = "close"
<1>1. defers \in Seq({"close", "export", "network", "stop"}) /\ Len(defers) \in Nat
  BY LenProperties DEF TypeOK
<1>2. /\ Len(defers') = Len(defers) + 1
      /\ defers'[Len(defers) + 1] = d
      /\ \A j \in 1 .. Len(defers) : defers'[j] = defers[j]
  BY <1>1, AppendProperties
<1> QED  BY <1>1, <1>2 DEF Deferred

(* One deferred call less: what is not called stays, and Close is called   *)
(* with nothing left.                                                      *)
LEMMA OneCalled ==
    ASSUME TypeOK, StackInv, Pop
    PROVE  /\ \A x : Deferred(x)' => Deferred(x)
           /\ \A x : Deferred(x) /\ ~ Calls(x) => Deferred(x)'
           /\ Calls("close") => \A x : ~ Deferred(x)'
           /\ StackInv'
<1>1. /\ Len(defers) \in Nat \ {0}
      /\ Len(defers') = Len(defers) - 1
      /\ \A j \in 1 .. Len(defers') : defers'[j] = defers[j]
  BY Popped DEF Pop
<1>2. \A x : Deferred(x)' => Deferred(x)
  BY <1>1 DEF Deferred
<1>3. \A x : Deferred(x) /\ ~ Calls(x) => Deferred(x)'
  BY <1>1 DEF Deferred, Calls, Pop
<1>4. Calls("close") => Len(defers') = 0
  BY <1>1 DEF Calls, StackInv
<1>5. Calls("close") => \A x : ~ Deferred(x)'
  <2>1. ASSUME Len(defers') = 0, NEW x PROVE ~ Deferred(x)'
    BY <2>1 DEF Deferred
  <2> QED  BY <1>4, <2>1
<1>6. Deferred("export")' => Deferred("close")'
  BY <1>2, <1>3, <1>5 DEF StackInv
<1> QED
  BY <1>1, <1>2, <1>3, <1>5, <1>6 DEF StackInv, Pop, Cleaning, SettingUp, BeforeBuild,
     BeforeNetwork

(* A set-up that ends early, with an error or without: nothing was built.  *)
LEMMA SetupEnds ==
    ASSUME DoneInv, AddsOwn, pc' = "defers", built = "none",
           UNCHANGED <<run, opts, defers, built>>,
           opts.bind => Made("work") \notin objects' /\ Made("helper") \notin objects',
           Made("user") \in objects' => Made("user") \in objects
    PROVE  TeardownInv'
<1>1. StackInv'
  BY StackBasics DEF DoneInv, TeardownInv, StackInv, Cleaning, SettingUp, BeforeBuild,
     BeforeNetwork
<1>2. StepInv' /\ UserInv'
  BY DEF DoneInv, TeardownInv, StepInv, UserInv, Tidy, Made
<1>3. \A o \in objects' : o[2] =< run'
  BY MadeType DEF DoneInv, RunInv, ObjectsTyped, TeardownInv, VolumeInv, AddsOwn
<1>4. VolumeInv'
  BY <1>3 DEF DoneInv, TeardownInv, VolumeInv, SettingUp, Tidy, Cleaning, Made
<1>5. NetworkInv' /\ ExportInv'
  BY DEF NetworkInv, ExportInv, SettingUp, Tidy
<1> QED  BY <1>1, <1>2, <1>4, <1>5 DEF TeardownInv

(* Clean makes nothing, and nothing is deferred yet. *)
LEMMA TearClean ==
    ASSUME DoneInv, ListItem \/ DeleteItem \/ DeleteFails \/ LoadConfig
    PROVE  TeardownInv'
<1>1. /\ Cleaning \/ pc = "config"
      /\ Cleaning' \/ pc' \in {"config", "volume", "defers"}
      /\ UNCHANGED <<run, opts, defers, built, clients>>
      /\ objects' \subseteq objects
  BY DEF ListItem, DeleteItem, DeleteFails, LoadConfig, NextItem, Return, Fails, Goto,
         others, Cleaning
<1>2. built = "none" /\ defers = <<>>
  BY <1>1 DEF DoneInv, TeardownInv, StackInv, BeforeBuild, BeforeNetwork
<1>3. CASE pc' = "defers"
  BY <1>1, <1>2, <1>3, SetupEnds DEF AddsOwn, DoneInv, TeardownInv, VolumeInv
<1>4. CASE Cleaning' \/ pc' \in {"config", "volume"}
  <2>1. StackInv' /\ StepInv'
    BY <1>1, <1>2, <1>4, StackBasics DEF DoneInv, TeardownInv, StackInv, StepInv, Cleaning,
       SettingUp
  <2>2. UserInv' /\ VolumeInv'
    BY <1>1, <1>2, <1>4 DEF DoneInv, TeardownInv, UserInv, VolumeInv, SettingUp, Tidy,
       Over, Cleaning, Made
  <2>3. NetworkInv' /\ ExportInv'
    BY <1>2, <1>4 DEF NetworkInv, ExportInv, SettingUp, Tidy, Over, Cleaning
  <2> QED  BY <2>1, <2>2, <2>3 DEF TeardownInv
<1> QED  BY <1>1, <1>3, <1>4

(* The set-up of the volume, the copy of the source and the credentials.   *)
LEMMA TearVolume ==
    ASSUME DoneInv, SetupVolume \/ CopySource \/ SetToken
    PROVE  TeardownInv'
<1> USE DEF DoneInv, TeardownInv
<1>1. Next /\ AddsOwn /\ BeforeBuild
  BY StepAddsOwn DEF Next, SetupVolume, CopySource, SetToken, BeforeBuild, BeforeNetwork
<1>2. built = "none" /\ UNCHANGED <<run, opts, built, clients>>
  BY <1>1 DEF SetupVolume, CopySource, SetToken, others, StackInv
<1>3. Made("user") \in objects' => Made("user") \in objects
  BY VolumesAdded DEF SetupVolume, CopySource, SetToken, Fails, Made
<1>4. opts.bind => Made("work") \notin objects' /\ Made("helper") \notin objects'
  BY VolumesAdded DEF SetupVolume, CopySource, SetToken, Fails, Made, VolumeInv, StackInv
<1>5. \A o \in objects' : o[2] =< run'
  BY <1>1, <1>2, MadeType DEF RunInv, ObjectsTyped, VolumeInv, AddsOwn
<1>6. CASE pc' = "defers"
  BY <1>1, <1>2, <1>3, <1>4, <1>6, SetupEnds DEF SetupVolume, CopySource, SetToken,
     Fails, Goto
<1>7. CASE pc' # "defers"
  <2>1. StepInv' /\ UserInv' /\ NetworkInv'
    BY <1>2, <1>3, <1>7 DEF SetupVolume, CopySource, SetToken, Fails, Return, Goto, StepInv,
       UserInv, NetworkInv, Tidy, Over, Made
  <2>2. CASE SetupVolume
    <3>1. StackInv'
      BY <1>2, <1>7, <2>2, StackBasics DEF SetupVolume, Fails, Return, Goto, StackInv,
         Cleaning, SettingUp, BeforeBuild, BeforeNetwork
    <3>2. VolumeInv'
      BY <1>2, <1>4, <1>5, <1>7, <2>2 DEF SetupVolume, Fails, Return, Goto, VolumeInv,
         Cleaning, SettingUp, Tidy, Over, Made
    <3>3. ExportInv'
      BY <1>2, <1>7, <2>2 DEF SetupVolume, Fails, Return, Goto, ExportInv, SettingUp,
         Over, Made
    <3> QED  BY <2>1, <3>1, <3>2, <3>3
  <2>3. CASE CopySource
    <3>1. defers' = DeferVolume /\ pc' = "token"
      BY <1>7, <2>3 DEF CopySource, Fails, Return, Goto
    <3>2. StackInv'
      BY <1>2, <2>3, <3>1, VolumeDeferred DEF CopySource, StackInv, Cleaning
    <3>3. Made("helper") \in objects' => helper'
      BY <1>2, <2>3, <3>1 DEF CopySource, Fails, Return, VolumeInv, Made
    <3>5. VolumeInv'
      BY <1>2, <1>4, <1>5, <3>1, <3>3, VolumeDeferred DEF VolumeInv, Cleaning, Made
    <3>4. ExportInv'
      BY <1>2, <2>3, <3>1, VolumeDeferred DEF CopySource, Fails, ExportInv, SettingUp,
         Over, Made
    <3> QED  BY <2>1, <3>2, <3>5, <3>4
  <2>4. CASE SetToken
    <3>1. /\ defers' = defers /\ helper' = helper /\ pc = "token" /\ pc' = "network"
          /\ objects \subseteq objects' /\ objects' \subseteq objects \cup {Made("home")}
      BY <1>7, <2>4, VolumesAdded DEF SetToken, Fails, Return, Goto
    <3>2. StackInv'
      BY <1>2, <3>1, StackBasics DEF StackInv, Cleaning, SettingUp
    <3>3. VolumeInv'
      BY <1>2, <1>4, <1>5, <3>1, StackBasics DEF VolumeInv, Cleaning, SettingUp, Tidy,
         Over, Made
    <3>4. ExportInv'
      BY <1>2, <3>1, StackBasics DEF ExportInv, SettingUp, Over, Made
    <3> QED  BY <2>1, <3>2, <3>3, <3>4
  <2> QED  BY <2>2, <2>3, <2>4
<1> QED  BY <1>6, <1>7

(* The network and the metadata server, with the calls that remove them;   *)
(* the goroutine.                                                          *)
LEMMA TearNetwork ==
    ASSUME DoneInv, CreateNetwork \/ StartMetadata \/ SpawnRefresh
    PROVE  TeardownInv'
<1> USE DEF DoneInv, TeardownInv
<1>1. Next /\ AddsOwn /\ BeforeBuild /\ SettingUp
  BY StepAddsOwn DEF Next, CreateNetwork, StartMetadata, SpawnRefresh, BeforeBuild,
     BeforeNetwork, SettingUp
<1>2. /\ built = "none" /\ UNCHANGED <<run, opts, built, clients, helper>>
      /\ objects \subseteq objects'
      /\ objects' \subseteq objects \cup {Made("network"), Made("metadata")}
  BY <1>1 DEF CreateNetwork, StartMetadata, SpawnRefresh, Fails, Refused, Goto, others,
     StackInv
<1>3. \A kind \in {"work", "helper", "user"} :
         Made(kind) \in objects' <=> Made(kind) \in objects
  BY <1>2 DEF Made
<1>4. \A o \in objects' : o[2] =< run'
  BY <1>1, <1>2, MadeType DEF RunInv, ObjectsTyped, VolumeInv, AddsOwn
<1>5. CASE pc' = "defers"
  BY <1>1, <1>2, <1>3, <1>5, SetupEnds DEF CreateNetwork, StartMetadata, SpawnRefresh,
     Fails, Refused, Goto, VolumeInv
<1>6. CASE pc' # "defers"
  <2>1. /\ pc' \in {"metadata", "refresh", "build"}
        /\ \/ defers' = defers
           \/ \E d \in {"network", "stop"} : defers' = Append(defers, d)
    BY <1>6 DEF CreateNetwork, StartMetadata, SpawnRefresh, Fails, Refused, Return, Goto
  <2>2. /\ \A x : Deferred(x) => Deferred(x)'
        /\ \A x : Deferred(x)' => Deferred(x) \/ x \in {"network", "stop"}
        /\ \A j \in 1 .. Len(defers') :
              defers'[j] = "close" => j \in 1 .. Len(defers) /\ defers[j] = "close"
    BY <2>1, OneDeferred, StackBasics
  <2>3. StackInv'
    BY <1>1, <1>2, <2>1, <2>2 DEF StackInv, Cleaning
  <2>4. StepInv' /\ UserInv'
    BY <1>1, <1>2, <1>3, <2>1 DEF StepInv, UserInv, Tidy, RunInv, SetupInv, Made
  <2>5. VolumeInv'
    BY <1>1, <1>2, <1>3, <1>4, <2>1, <2>2 DEF VolumeInv, Cleaning, Made
  <2>6. ExportInv'
    BY <1>1, <1>2, <1>3, <2>1, <2>2 DEF ExportInv, SettingUp, Over, Made
  <2>7. NetworkInv'
    <3>1. CASE CreateNetwork /\ pc' = "refresh"
      <4>1. Deferred("network")'
        BY <3>1, OneDeferred DEF CreateNetwork, Fails, Refused, Return, Goto
      <4>2. ~ Exists("metadata")'
        BY <3>1, MadeType DEF CreateNetwork, Fails, Refused, Return, RunInv, SetupInv,
           BeforeNetwork, Exists, Made
      <4> QED  BY <4>1, <4>2 DEF NetworkInv
    <3>2. CASE StartMetadata
      <4>1. Deferred("stop")'
        BY <1>6, <3>2, OneDeferred DEF StartMetadata, Fails, Refused, Return
      <4> QED  BY <4>1 DEF NetworkInv
    <3>3. CASE SpawnRefresh
      BY <1>2, <3>3, StackBasics DEF SpawnRefresh, Goto, NetworkInv, Exists
    <3>4. CASE CreateNetwork /\ pc' = "metadata"
      BY <1>2, <3>4 DEF NetworkInv, Tidy
    <3> QED  BY <1>6, <2>1, <3>1, <3>2, <3>3, <3>4 DEF CreateNetwork, Fails, Refused,
                Return, Goto
  <2> QED  BY <2>3, <2>4, <2>5, <2>6, <2>7
<1> QED  BY <1>5, <1>6

(* The build: Start's deferred calls take the steps' own volumes with them. *)
LEMMA TearBuild ==
    ASSUME DoneInv, RunStep \/ BuildEnds \/ FinishRun
    PROVE  TeardownInv'
<1> USE DEF DoneInv, TeardownInv
<1>1. Next /\ AddsOwn
  BY StepAddsOwn DEF Next
<1>2. UNCHANGED <<run, opts, defers, helper, exported>>
  BY DEF RunStep, BuildEnds, FinishRun, runVars
<1>3. \A o \in objects' : o[2] =< run'
  BY <1>1, <1>2, MadeType DEF RunInv, ObjectsTyped, VolumeInv, AddsOwn
<1>4. StackInv'
  BY <1>2, StackBasics DEF RunStep, BuildEnds, FinishRun, Return, runVars, StackInv,
     Cleaning, SettingUp, BeforeBuild, BeforeNetwork
<1>5. CASE RunStep
  <2>1. /\ pc = "build" /\ built = "none" /\ UNCHANGED <<pc, built, mishap, clients>>
        /\ objects \subseteq objects'
        /\ objects' \subseteq WithMounts(objects) \cup {Made("step")}
    BY <1>5, MountsAdded DEF RunStep, runVars, StackInv
  <2>2. /\ opts.bind => Made("work") \notin objects'
        /\ ~ opts.user => Made("user") \notin objects'
        /\ Made("helper") \in objects' => Made("helper") \in objects
    BY <2>1 DEF WithMounts, WithVolume, Made, VolumeInv, UserInv
  <2>3. /\ Made("work") \in objects' \/ Made("helper") \in objects' => Deferred("close")'
        /\ Made("helper") \in objects' => helper'
    BY <1>2, <2>1, <2>2, StackBasics DEF StackInv, VolumeInv, SettingUp, Made
  <2>4. StepInv' /\ UserInv'
    BY <1>2, <2>1, <2>2 DEF StepInv, UserInv, Tidy, Over, Made
  <2>5. VolumeInv'
    BY <1>2, <1>3, <2>1, <2>2, <2>3 DEF VolumeInv, Cleaning, Made
  <2>6. \A kind \in {"metadata", "network"} : Exists(kind)' => Exists(kind)
    BY <2>1 DEF WithMounts, WithVolume, Made, Exists
  <2>7. NetworkInv'
    BY <1>2, <2>1, <2>6, StackBasics DEF NetworkInv, Tidy, Over
  <2>8. ExportInv'
    BY <1>2, <2>1, StackBasics DEF ExportInv, SettingUp, Over, Made
  <2> QED  BY <1>4, <2>4, <2>5, <2>7, <2>8
<1>6. CASE BuildEnds
  <2>1. /\ pc = "build" /\ pc' = "cancel"
        /\ objects' \subseteq objects
        /\ \A o \in objects' : o[1] # "step"
        /\ \A o \in objects : o[1] \in {"work", "metadata", "network"} => o \in objects'
        /\ built' = "DONE" => clients' = clients
    BY <1>6 DEF BuildEnds, AfterBuild
  <2>2. StepInv'
    BY <2>1 DEF StepInv, Exists
  <2>3. UserInv'
    <3>1. CASE ~ opts.user
      BY <1>2, <2>1, <3>1 DEF UserInv, Made
    <3>2. CASE opts.user /\ Tidy'
      <4>1. objects' = AfterBuild({o \in objects : o[1] # "step"})
        BY <1>6, <3>2 DEF BuildEnds, Tidy
      <4>2. \A o \in objects' : o[1] # "user"
        BY <3>2, <4>1 DEF AfterBuild, InUseIn, Uses, Containers
      <4> QED  BY <4>2 DEF UserInv, Made
    <3> QED  BY <1>2, <3>1, <3>2 DEF UserInv
  <2>4. VolumeInv'
    BY <1>2, <1>3, <2>1, StackBasics DEF VolumeInv, Cleaning, SettingUp, Made
  <2>5. NetworkInv'
    BY <1>2, <2>1, StackBasics DEF NetworkInv, Exists
  <2>6. ExportInv'
    BY <1>2, <2>1, StackBasics DEF ExportInv, SettingUp, Made
  <2> QED  BY <1>4, <2>2, <2>3, <2>4, <2>5, <2>6
<1>7. CASE FinishRun
  <2>1. pc = "cancel" /\ pc' = "defers" /\ UNCHANGED <<built, clients, objects, mishap>>
    BY <1>7 DEF FinishRun, Return
  <2>2. StepInv' /\ UserInv' /\ VolumeInv'
    BY <1>2, <2>1, StackBasics DEF StepInv, UserInv, VolumeInv, SettingUp, Tidy, Over,
       Cleaning, Exists, Made
  <2>3. NetworkInv' /\ ExportInv'
    BY <1>2, <2>1, StackBasics DEF NetworkInv, ExportInv, SettingUp, Tidy, Over, Exists,
       Made
  <2> QED  BY <1>4, <2>2, <2>3
<1> QED  BY <1>5, <1>6, <1>7

(* The deferred calls.  Stop removes the server before the network it is   *)
(* connected to, Export may make the helper anew, and Close comes last.    *)
LEMMA TearDeferred ==
    ASSUME DoneInv, StopMetadata \/ RemoveNetwork \/ ExportWorkspace \/ CloseVolume
    PROVE  TeardownInv'
<1> USE DEF DoneInv, TeardownInv
<1>1. Next /\ AddsOwn /\ Pop
  BY StepAddsOwn DEF Next, StopMetadata, RemoveNetwork, ExportWorkspace, CloseVolume
<1>2. pc = "defers" /\ UNCHANGED <<pc, run, opts, built, clients>> /\ StackInv'
  BY <1>1, OneCalled DEF Pop
<1>3. /\ mishap' = mishap \/ mishap' = TRUE
      /\ Tidy' => Tidy
  BY <1>2 DEF StopMetadata, RemoveNetwork, ExportWorkspace, CloseVolume, Tidy, Over
<1>4. \A o \in objects' : o[2] =< run'
  BY <1>1, <1>2, MadeType DEF RunInv, ObjectsTyped, VolumeInv, AddsOwn
<1>5. objects' \subseteq objects \cup {Made("helper"), Made("work")}
  BY OnlyRemoved DEF StopMetadata, RemoveNetwork, ExportWorkspace, CloseVolume
<1>6. ~ ExportWorkspace => objects' \subseteq objects /\ helper' = helper
  BY OnlyRemoved DEF StopMetadata, RemoveNetwork, ExportWorkspace, CloseVolume
<1>7. StepInv' /\ UserInv'
  BY <1>2, <1>3, <1>5 DEF StepInv, UserInv, Exists, Made
<1>8. ASSUME ExportWorkspace
      PROVE  Deferred("export") /\ Deferred("close") /\ Deferred("close")' /\ ~ opts.bind
  <2>1. Deferred("export")
    BY <1>1, <1>8, Popped DEF ExportWorkspace, Calls, Deferred, Pop
  <2>2. ~ Calls("close")
    BY <1>8 DEF ExportWorkspace, Calls
  <2> QED  BY <1>1, <2>1, <2>2, OneCalled DEF StackInv
<1>9. VolumeInv'
  <2>1. opts.bind => Made("work") \notin objects' /\ Made("helper") \notin objects'
    BY <1>6, <1>8 DEF ExportWorkspace, VolumeInv
  <2>2. ASSUME Tidy'
        PROVE  /\ Made("work") \in objects' \/ Made("helper") \in objects' => Deferred("close")'
               /\ Made("helper") \in objects' => helper'
    <3>1. CASE CloseVolume
      <4>1. objects' = Closed(objects) /\ helper' = helper
        BY <2>2, <3>1 DEF CloseVolume, Tidy
      <4>2. Made("helper") \notin HelperRemoved(objects)
        BY <1>3, <2>2 DEF HelperRemoved, VolumeInv
      <4>3. ~ InUseIn(HelperRemoved(objects), Made("work"))
        BY <1>3, <2>2, <4>2, OnlyRemoved DEF InUseIn, Uses, Containers, Tidy, StepInv,
           Exists, Made, RunInv, ObjectsTyped
      <4> QED  BY <4>1, <4>2, <4>3 DEF Closed
    <3>2. CASE ExportWorkspace
      <4>1. Deferred("close")' /\ helper'
        BY <1>8, <2>2, <3>2 DEF ExportWorkspace, Tidy
      <4> QED  BY <4>1
    <3>3. CASE StopMetadata \/ RemoveNetwork
      <4>1. ~ Calls("close") /\ ~ ExportWorkspace
        BY <3>3 DEF StopMetadata, RemoveNetwork, ExportWorkspace, Calls
      <4> QED
        BY <1>1, <1>2, <1>3, <1>6, <2>2, <4>1, OneCalled DEF VolumeInv, Made
    <3> QED  BY <3>1, <3>2, <3>3
  <2> QED  BY <1>2, <1>4, <2>1, <2>2 DEF VolumeInv, Cleaning, SettingUp, Made
<1>10. NetworkInv'
  <2> SUFFICES ASSUME Tidy'
               PROVE  /\ Exists("metadata")' => Deferred("stop")'
                      /\ Exists("network")' => \/ Deferred("stop")'
                                               \/ Deferred("network")' /\ ~ Exists("metadata")'
    BY <1>2 DEF NetworkInv
  <2>1. \A kind \in {"metadata", "network"} : Exists(kind)' => Exists(kind)
    BY <1>5 DEF Exists, Made
  <2>2. CASE StopMetadata
    <3>1. objects' = Stopped(objects)  BY <2>2 DEF StopMetadata, Tidy
    <3>2. ~ Exists("metadata")' /\ ~ Exists("network")'
      BY <1>3, <3>1 DEF Stopped, NetworkRemoved, InUseIn, Uses, Containers, Exists, StepInv,
         Tidy
    <3> QED  BY <3>2
  <2>3. CASE RemoveNetwork
    <3>1. objects' = NetworkRemoved(objects)  BY <2>3 DEF RemoveNetwork, Tidy
    <3>2. Deferred("stop") => Deferred("stop")'
      BY <1>1, <2>3, OneCalled DEF RemoveNetwork, Calls
    <3>3. Exists("network")' => Exists("metadata")
      BY <1>3, <3>1 DEF NetworkRemoved, InUseIn, Uses, Containers, Exists, StepInv, Tidy
    <3> QED  BY <1>3, <2>1, <3>2, <3>3 DEF NetworkInv
  <2>4. CASE ExportWorkspace \/ CloseVolume
    <3>1. ~ Calls("stop") /\ ~ Calls("network")
      BY <2>4 DEF ExportWorkspace, CloseVolume, Calls
    <3> QED  BY <1>1, <1>3, <2>1, <3>1, OneCalled DEF NetworkInv
  <2> QED  BY <2>2, <2>3, <2>4
<1>11. ExportInv'
  <2> SUFFICES ASSUME opts.write, ~ opts.bind, built # "none", ~ mishap'
               PROVE  /\ exported' \/ Deferred("export")'
                      /\ Deferred("export")' => Made("work")' \in objects'
    BY <1>2 DEF ExportInv, SettingUp
  <2>1. /\ exported \/ Deferred("export")
        /\ Deferred("export") => Made("work") \in objects
    BY <1>2, <1>3 DEF ExportInv, Over
  <2>2. CASE ExportWorkspace
    BY <1>2, <1>8, <2>1, <2>2 DEF ExportWorkspace, Made
  <2>3. CASE CloseVolume
    <3>1. Calls("close") /\ ~ Calls("export") /\ exported' = exported
      BY <2>3 DEF CloseVolume, Calls
    <3> QED  BY <1>1, <2>1, <3>1, OneCalled
  <2>4. CASE StopMetadata \/ RemoveNetwork
    <3>1. ~ Calls("export") /\ exported' = exported
      BY <2>4 DEF StopMetadata, RemoveNetwork, Calls
    <3>2. Made("work") \in objects => Made("work") \in objects'
      BY <2>4 DEF StopMetadata, RemoveNetwork, Stopped, NetworkRemoved, Made
    <3> QED  BY <1>1, <1>2, <2>1, <3>1, <3>2, OneCalled DEF Made
  <2> QED  BY <2>2, <2>3, <2>4
<1> QED  BY <1>2, <1>7, <1>9, <1>10, <1>11

(* The goroutine, the daemon and the clients left to themselves. *)
LEMMA TearBackground ==
    ASSUME DoneInv,
           RefreshTimer \/ RefreshStops \/ RefreshToken \/ UpdateStarts \/ UpdateEnds
             \/ ContainerExits \/ ClientEnds
    PROVE  TeardownInv'
<1> USE DEF DoneInv, TeardownInv
<1>1. Next /\ AddsOwn
  BY StepAddsOwn DEF Next
<1>2. UNCHANGED <<run, opts, pc, defers, helper, built, exported, mishap>>
  BY DEF RefreshTimer, RefreshStops, RefreshToken, UpdateStarts, UpdateEnds, RefreshStep,
         ContainerExits, ClientEnds, runVars
<1>3. clients' \subseteq clients \cup {"tool"}
  BY DEF RefreshTimer, RefreshStops, RefreshToken, UpdateStarts, UpdateEnds, RefreshStep,
         ContainerExits, ClientEnds
<1>4. /\ objects' \subseteq WithMounts(objects) \cup {Made("home"), Made("tool"), Made("step")}
      /\ "step" \notin clients => objects' \subseteq objects \cup {Made("home"), Made("tool")}
      /\ \A o \in objects : o[1] \notin {"step", "tool"} => o \in objects'
  BY MountsAdded, VolumesAdded DEF RefreshTimer, RefreshStops, RefreshToken, UpdateStarts,
     UpdateEnds, RefreshStep, ContainerExits, ClientEnds
<1>5. ~ opts.bind \/ Made("work") \notin objects'
  BY <1>4 DEF WithMounts, WithVolume, Made, VolumeInv
<1>6. ~ opts.user => Made("user") \notin objects'
  BY <1>4 DEF WithMounts, WithVolume, Made, UserInv
<1>7. \A kind \in {"helper", "metadata", "network"} :
         /\ Made(kind) \in objects' => Made(kind) \in objects
         /\ Exists(kind)' => Exists(kind)
  BY <1>4, MountsAdded DEF Made, Exists
<1>8. \A o \in objects' : o[2] =< run'
  BY <1>1, <1>2, MadeType DEF RunInv, ObjectsTyped, VolumeInv, AddsOwn
<1>9. StackInv'
  BY <1>2, StackBasics DEF StackInv, Cleaning, SettingUp, BeforeBuild, BeforeNetwork
<1>10. StepInv'
  BY <1>2, <1>3, <1>4 DEF StepInv, Exists, Made
<1>11. ASSUME SettingUp \/ Tidy
       PROVE  "step" \notin clients
  BY <1>11 DEF SettingUp, Tidy, StepInv, RunInv, SetupInv, BeforeBuild, BeforeNetwork
<1>12. UserInv'
  BY <1>2, <1>4, <1>6, <1>11 DEF UserInv, Tidy, Over, Made
<1>13. VolumeInv'
  <2>1. Cleaning \/ pc \in {"config", "volume"} => \A o \in objects' : o \in objects
    <3>1. ASSUME Cleaning \/ pc \in {"config", "volume"}
          PROVE  clients = {} /\ refresh = "off"
      BY <3>1 DEF RunInv, CleanInv, SetupInv, BeforeBuild, BeforeNetwork
    <3> QED
      BY <3>1 DEF RefreshTimer, RefreshStops, RefreshToken, UpdateStarts, UpdateEnds,
         RefreshStep, ContainerExits, ClientEnds
  <2>2. SettingUp \/ Tidy => (Made("work") \in objects' => Made("work") \in objects)
    BY <1>4, <1>11 DEF Made
  <2> QED
    BY <1>2, <1>5, <1>7, <1>8, <2>1, <2>2, StackBasics DEF VolumeInv, Cleaning, SettingUp,
       Tidy, Over, Made
<1>14. NetworkInv'
  BY <1>2, <1>4, <1>7, StackBasics DEF NetworkInv, Tidy, Over, Exists
<1>15. ExportInv'
  BY <1>2, <1>4, StackBasics DEF ExportInv, SettingUp, Over, Made
<1> QED  BY <1>9, <1>10, <1>12, <1>13, <1>14, <1>15

(* The process ends, or is killed, and another invocation begins. *)
LEMMA TearExit ==
    ASSUME DoneInv, ProcessExits \/ Interrupt \/ RunAgain
    PROVE  TeardownInv'
<1> USE DEF DoneInv, TeardownInv
<1>1. CASE ProcessExits
  <2>1. /\ pc = "defers" /\ pc' = "returned" /\ defers = <<>>
        /\ UNCHANGED <<run, opts, defers, helper, built, exported, mishap, objects>>
        /\ clients' \subseteq clients \cup {"tool"}
    BY <1>1 DEF ProcessExits, LeaveClients
  <2>2. StackInv' /\ StepInv' /\ UserInv'
    BY <2>1, StackBasics DEF StackInv, StepInv, UserInv, Tidy, Over, Cleaning, SettingUp,
       BeforeBuild, BeforeNetwork, Exists, Made
  <2>3. VolumeInv'
    BY <2>1, StackBasics DEF VolumeInv, Tidy, Over, Cleaning, SettingUp, Made
  <2>4. NetworkInv' /\ ExportInv'
    BY <2>1, StackBasics DEF NetworkInv, ExportInv, Tidy, Over, SettingUp, Exists, Made
  <2> QED  BY <2>2, <2>3, <2>4
<1>2. CASE Interrupt
  <2>1. /\ pc' = "killed" /\ UNCHANGED <<run, opts, defers, built>>
        /\ objects' \subseteq objects \cup {Made("home"), Made("tool")}
        /\ clients' \subseteq clients \cup {"tool"} \cup (IF pc = "build" THEN {"step"} ELSE {})
    BY <1>2, VolumesAdded DEF Interrupt, LeaveClients
  <2>2. StackInv' /\ UserInv'
    BY <2>1, StackBasics DEF StackInv, UserInv, Tidy, Over, Cleaning, SettingUp,
       BeforeBuild, BeforeNetwork, Made
  <2>3. StepInv'
    BY <2>1 DEF StepInv, StackInv, Exists, Made
  <2>4. \A o \in objects' : o[2] =< run'
    BY <2>1, MadeType DEF RunInv, ObjectsTyped, VolumeInv, Kinds, Containers
  <2>5. VolumeInv'
    BY <2>1, <2>4 DEF VolumeInv, Tidy, Over, Cleaning, SettingUp, Made
  <2>6. NetworkInv' /\ ExportInv'
    BY <2>1 DEF NetworkInv, ExportInv, Tidy, Over, SettingUp
  <2> QED  BY <2>2, <2>3, <2>5, <2>6
<1>3. CASE RunAgain
  <2>1. /\ pc' = "list" /\ defers' = <<>> /\ built' = "none" /\ run' = run + 1
        /\ objects' = objects
    BY <1>3 DEF RunAgain
  <2>2. \A o \in objects : o[2] \in Nat /\ o[2] < run'
    BY <2>1 DEF VolumeInv, RunInv, ObjectsTyped
  <2>3. \A kind : Made(kind)' \notin objects'
    BY <2>1, <2>2 DEF Made
  <2>4. StackInv' /\ StepInv' /\ UserInv'
    BY <2>1, <2>3, StackBasics DEF StackInv, StepInv, UserInv, SettingUp
  <2>5. VolumeInv'
    BY <2>1, <2>2, <2>3 DEF VolumeInv, RunInv, ObjectsTyped, SettingUp, Tidy, Over
  <2>6. NetworkInv' /\ ExportInv'
    BY <2>1 DEF NetworkInv, ExportInv, SettingUp, Tidy, Over
  <2> QED  BY <2>4, <2>5, <2>6
<1> QED  BY <1>1, <1>2, <1>3

(* On a host without leftovers the invariant holds. *)
LEMMA TearInit == Init => TeardownInv
<1> SUFFICES ASSUME Init PROVE TeardownInv
  OBVIOUS
<1>1. pc = "list" /\ defers = <<>> /\ built = "none" /\ objects = {} /\ clients = {}
  BY DEF Init
<1>2. StackInv  BY <1>1, StackBasics DEF StackInv, SettingUp
<1> QED
  BY <1>1, <1>2 DEF TeardownInv, StepInv, UserInv, VolumeInv, NetworkInv, ExportInv,
     SettingUp, Tidy, Over, Exists

(* Every step preserves it. *)
LEMMA TearStep == DoneInv /\ [Next]_vars => TeardownInv'
<1> SUFFICES ASSUME DoneInv, [Next]_vars PROVE TeardownInv'
  OBVIOUS
<1>1. CASE UNCHANGED vars
  BY <1>1, StackBasics DEF vars, runVars, DoneInv, TeardownInv, StackInv, StepInv, UserInv,
     VolumeInv, NetworkInv, ExportInv, SettingUp, Tidy, Over, Cleaning, BeforeBuild,
     BeforeNetwork, Exists, Made
<1> QED
  BY <1>1, TearClean, TearVolume, TearNetwork, TearBuild, TearDeferred, TearBackground,
     TearExit DEF Next, Finished

(* What is deferred accounts for what exists, in every state of every      *)
(* sequence of invocations.                                                *)
THEOREM TeardownInvariant == Spec => []TeardownInv
<1>1. TypeOK /\ RunInv /\ TeardownInv /\ [Next]_vars => TeardownInv'
  BY TearStep DEF DoneInv
<1> QED  BY <1>1, TearInit, TypeCorrect, RunInvariant, PTL DEF Spec

(***************************************************************************)
(* When a build is DONE and nothing failed, run()'s deferred calls, in the *)
(* order they are in, leave of what it made at most the home volume and    *)
(* the container that was refreshing the credentials in it.                *)
(***************************************************************************)
THEOREM DoneLeavesLittle == Spec => []LittleLeftWhenDone
<1>1. ASSUME TypeOK, TeardownInv PROVE LittleLeftWhenDone
  <2> SUFFICES ASSUME pc = "returned", built = "DONE", ~ mishap,
                      NEW o \in objects, o[2] = run
               PROVE  o[1] \in {"home", "tool"}
    BY DEF LittleLeftWhenDone
  <2>1. o[1] \in Kinds /\ o = Made(o[1])
    BY <1>1 DEF TypeOK, Made
  <2>2. Tidy /\ \A d : ~ Deferred(d)
    BY <1>1, StackBasics DEF TeardownInv, StackInv, Tidy, Over
  <2>3. o[1] \notin {"work", "helper", "user"}
    BY <1>1, <2>1, <2>2 DEF TeardownInv, UserInv, VolumeInv
  <2>4. o[1] \notin {"step", "metadata", "network"}
    BY <1>1, <2>2 DEF TeardownInv, StepInv, NetworkInv, Exists
  <2> QED  BY <2>1, <2>3, <2>4 DEF Kinds, Containers
<1> QED  BY <1>1, TypeCorrect, TeardownInvariant, PTL

(***************************************************************************)
(* With --write-workspace the workspace reaches the host however the build *)
(* ended: Export is called while the volume still exists.                  *)
(***************************************************************************)
THEOREM WorkspaceReachesHost == Spec => []WorkspaceWritten
<1>1. TeardownInv => WorkspaceWritten
  BY StackBasics DEF TeardownInv, StackInv, ExportInv, Over, WorkspaceWritten
<1> QED  BY <1>1, TeardownInvariant, PTL
=============================================================================
