--------------------------- MODULE Workload_proofs ---------------------------
(***************************************************************************)
(* Proofs about Workload, for any configurations, namespaces and bounds.   *)
(***************************************************************************)
EXTENDS Workload, TLAPS

Rows == [status : Statuses, target : Targets \cup {Nowhere},
         namespace : Namespaces \cup {Nowhere},
         ref : {"none", "local", "tag", "digest"},
         pushed : {"none", "succeeded", "skipped"}]
Pipes == [at : PipeSteps, cfg : Configs \cup {Nowhere}, left : Nat]
Images == [local : Contents, tag : Contents, digest : Contents]
Workloads == [parts : SUBSET (ManifestParts \cup {"container"}), runs : Contents]
Watches == [at : {"idle", "looking", "demoting", "cleaning"},
            status : Statuses, place : Places \cup {Nowhere}]
Budgets == [configs : Nat, losses : Nat, outages : Nat, vanished : Nat]
Commands == [at : {"none", "pending", "claimed", "removed"},
             type : {"stop", "cleanup"}, place : Places \cup {Nowhere}]

-----------------------------------------------------------------------------
(* Places *)

LEMMA PlacesAreNamed ==
    /\ \A t \in Targets, n \in Namespaces : PlaceOf(t, n) \in Places
    /\ Nowhere \notin Places /\ "local-docker" \notin Namespaces /\ Nowhere \notin Targets
    /\ Nowhere \notin Namespaces
  BY WorkloadAssumption DEF PlaceOf, Places, Targets

LEMMA ConfigsHaveFields ==
    \A c \in Configs : c.target \in Targets /\ c.namespace \in Namespaces /\ c.registry \in BOOLEAN
  BY WorkloadAssumption

LEMMA LocatedIsPlace ==
    \A r \in Rows, c \in Configs : Located(r, c) \in Places
  BY PlacesAreNamed, ConfigsHaveFields DEF Located, Rows

LEMMA AttemptsAreNat == \A step : Attempts(step) \in Nat
  BY WorkloadAssumption DEF Attempts

LEMMA OneLess == \A n \in Nat : n > 1 => n - 1 \in Nat
  OBVIOUS

-----------------------------------------------------------------------------
(* Types *)

\* WorkloadTypeOK, in groups.  A pipeline under way has an executor, and a
\* command that is worked on has a place.
RowTyped == row \in Rows
PipeTyped == pipe \in Pipes /\ (pipe.at # "idle" => pipe.cfg \in Configs)
CommandTyped == command \in Commands /\ (command.at \in {"claimed", "removed"} => command.place \in Places)
WatchTyped == watch \in Watches /\ (watch.at # "idle" => watch.place \in Places)
ImageTyped == image \in Images /\ repo \in Contents
RuntimeTyped == runtime \in [Places -> Workloads] /\ loose \in Effects \cup {Nowhere}
RestTyped == config \in Configs /\ claim \in {"free", "live", "dead"} /\ budget \in Budgets

Typed == /\ RowTyped /\ PipeTyped /\ CommandTyped /\ WatchTyped /\ ImageTyped
         /\ RuntimeTyped /\ RestTyped /\ reachable \in BOOLEAN

LEMMA TypedIsTypeOK == Typed => WorkloadTypeOK
  BY DEF WorkloadTypeOK, Typed, RowTyped, PipeTyped, CommandTyped, WatchTyped, ImageTyped,
         RuntimeTyped, RestTyped, Rows, Pipes, Images, Workloads, Watches, Budgets, Commands

LEMMA InitTyped == WorkloadInit => Typed
  BY DEF WorkloadInit, Typed, RowTyped, PipeTyped, CommandTyped, WatchTyped, ImageTyped,
         RuntimeTyped, RestTyped, Rows, Pipes, Images, Workloads, Watches, Budgets, Commands,
         NoPipe, NoCommand, NotWatching, NoWorkload, Statuses, PipeSteps, Contents

\* The deployment's row.
LEMMA RowKept ==
    ASSUME Typed, WorkloadNext
    PROVE  RowTyped'
<1> USE ConfigsHaveFields DEF Typed, RowTyped, PipeTyped, Rows, Statuses
<1>1. CASE WorkloadStep
  <2>1. CASE CloneBegins \/ Checkout \/ TestsPass \/ VerifyImage
    BY <2>1 DEF CloneBegins, Checkout, TestsPass, VerifyImage, Begins
  <2>2. CASE BuildImage \/ PushSucceeds
    BY <2>2 DEF BuildImage, PushSucceeds
  <2>3. CASE RecordTarget
    BY <2>3 DEF RecordTarget, Identified
  <2>4. CASE BecomesRunning \/ FailureRecorded
    BY <2>4 DEF BecomesRunning, FailureRecorded
  <2>5. QED
    BY <1>1, <2>1, <2>2, <2>3, <2>4
    DEF WorkloadStep, PipelineClaims, CloneSucceeds, CloneFails, TagImage, PushFails, StepFailsOnce,
        PreflightPasses, ReplaceContainer, RunContainer, PortTaken, DeployCommandFails,
        ApplyManifest, RolloutCompletes, RolloutFails, HealthPasses, HealthFails, Abandons
<1>2. CASE CommandStep \/ WatchStep
  BY <1>2
  DEF CommandStep, CommandRequested, CommandClaimed, CommandRemoves, CommandFailsToRemove,
      CommandSucceeded, CommandInterrupted, WatchStep, StaleClaimRecovered, WatchStarts,
      WatchLooks, WatchBreaksOff, WatchDemotes, WatchCleans, Targets
<1>3. CASE Outside
  BY <1>3
  DEF Outside, PipelineCrashes, PipelineStalls, LateEffect, Reconfigure, Retagged, Vanishes,
      OutageBegins, OutageEnds
<1>4. QED
  BY <1>1, <1>2, <1>3 DEF WorkloadNext

\* The pipeline's place in the code and its executor.
LEMMA MoveTyped ==
    ASSUME PipeTyped, pipe.at # "idle",
           \/ \E step \in PipeSteps, n \in Nat : pipe' = [pipe EXCEPT !.at = step, !.left = n]
           \/ \E step \in PipeSteps : Goto(step)
           \/ TriesAgain
           \/ GivesUp
    PROVE  PipeTyped'
<1>1. pipe \in Pipes /\ pipe.cfg \in Configs
  BY DEF PipeTyped
<1>2. CASE TriesAgain
  <2>1. pipe.left \in Nat /\ pipe.left > 1
    BY <1>1, <1>2 DEF TriesAgain, Pipes
  <2>2. pipe' = [at |-> pipe.at, cfg |-> pipe.cfg, left |-> pipe.left - 1]
    BY <1>1, <1>2 DEF TriesAgain, Pipes
  <2>3. pipe.left - 1 \in Nat
    BY <2>1, OneLess
  <2>4. QED
    BY <1>1, <2>2, <2>3 DEF PipeTyped, Pipes
<1>3. CASE ~TriesAgain
  <2>1. "failing" \in PipeSteps /\ 0 \in Nat
    BY DEF PipeSteps
  <2>2. PICK step \in PipeSteps, n \in Nat : pipe' = [pipe EXCEPT !.at = step, !.left = n]
    BY <1>3, <2>1, AttemptsAreNat DEF Goto, GivesUp
  <2>3. QED
    BY <1>1, <2>2 DEF PipeTyped, Pipes
<1>4. QED
  BY <1>2, <1>3

LEMMA PipeKept ==
    ASSUME Typed, WorkloadNext
    PROVE  PipeTyped'
<1>1. CASE PipelineClaims
  BY <1>1 DEF PipelineClaims, Typed, PipeTyped, RestTyped, Pipes, PipeSteps, NoPipe
<1>2. CASE CloneBegins \/ CloneSucceeds \/ CloneFails \/ Checkout
  BY <1>2, MoveTyped DEF CloneBegins, CloneSucceeds, CloneFails, Checkout, Begins, PipeSteps, Typed
<1>3. CASE BuildImage \/ TestsPass \/ TagImage \/ PushSucceeds \/ PushFails \/ VerifyImage
  BY <1>3, MoveTyped
  DEF BuildImage, TestsPass, TagImage, PushSucceeds, PushFails, VerifyImage, Begins, PipeSteps, Typed
<1>4. CASE StepFailsOnce \/ RecordTarget
  BY <1>4, MoveTyped DEF StepFailsOnce, RecordTarget, PipeSteps, Typed
<1>5. CASE PreflightPasses \/ RunContainer
  BY <1>5, MoveTyped DEF PreflightPasses, RunContainer, PipeSteps, Typed
<1>6. CASE PortTaken \/ DeployCommandFails
  BY <1>6, MoveTyped DEF PortTaken, DeployCommandFails, Typed
<1>7. CASE ReplaceContainer \/ ApplyManifest
  BY <1>7, MoveTyped DEF ReplaceContainer, ApplyManifest, PipeSteps, Typed
<1>8. CASE RolloutCompletes \/ RolloutFails \/ HealthPasses \/ HealthFails
  BY <1>8, MoveTyped DEF RolloutCompletes, RolloutFails, HealthPasses, HealthFails, PipeSteps, Typed
<1>9. CASE BecomesRunning \/ FailureRecorded \/ Abandons \/ PipelineCrashes
  BY <1>9
  DEF BecomesRunning, FailureRecorded, Abandons, PipelineCrashes, NoPipe, PipeTyped, Pipes, PipeSteps
<1>10. CASE CommandStep \/ WatchStep
  BY <1>10
  DEF CommandStep, CommandRequested, CommandClaimed, CommandRemoves, CommandFailsToRemove,
      CommandSucceeded, CommandInterrupted, WatchStep, StaleClaimRecovered, WatchStarts,
      WatchLooks, WatchBreaksOff, WatchDemotes, WatchCleans, Typed, PipeTyped
<1>11. CASE Outside /\ ~PipelineCrashes
  BY <1>11
  DEF Outside, PipelineStalls, LateEffect, Reconfigure, Retagged, Vanishes,
      OutageBegins, OutageEnds, Typed, PipeTyped
<1>12. QED
  BY <1>1, <1>2, <1>3, <1>4, <1>5, <1>6, <1>7, <1>8, <1>9, <1>10, <1>11
  DEF WorkloadNext, WorkloadStep, Outside

\* Commands and the reconciler.
LEMMA CommandKept ==
    ASSUME Typed, WorkloadNext
    PROVE  CommandTyped'
<1> USE DEF Typed, CommandTyped
<1>1. CASE CommandStep
  <2>1. CASE CommandRequested \/ CommandInterrupted
    <3>1. \E t \in {"stop", "cleanup"} : command' = [at |-> "pending", type |-> t, place |-> Nowhere]
      <4>1. CASE CommandRequested
        BY <4>1 DEF CommandRequested
      <4>2. CASE CommandInterrupted
        <5>1. command.type \in {"stop", "cleanup"}
          BY DEF Commands
        <5>2. command' = [at |-> "pending", type |-> command.type, place |-> Nowhere]
          BY <4>2 DEF CommandInterrupted, Commands
        <5>3. QED
          BY <5>1, <5>2
      <4>3. QED
        BY <2>1, <4>1, <4>2
    <3>2. QED
      BY <3>1 DEF Commands
  <2>2. CASE CommandClaimed
    BY <2>2, LocatedIsPlace DEF CommandClaimed, Commands, RowTyped, RestTyped
  <2>3. CASE CommandRemoves \/ CommandFailsToRemove \/ CommandSucceeded
    BY <2>3 DEF CommandRemoves, CommandFailsToRemove, CommandSucceeded, NoCommand, Commands
  <2>4. QED
    BY <1>1, <2>1, <2>2, <2>3 DEF CommandStep
<1>2. CASE WorkloadStep \/ WatchStep \/ Outside
  <2>1. UNCHANGED command
    BY <1>2
    DEF WorkloadStep, PipelineClaims, CloneBegins, CloneSucceeds, CloneFails, Checkout,
        BuildImage, TestsPass, TagImage, PushSucceeds, PushFails, VerifyImage, StepFailsOnce,
        RecordTarget, PreflightPasses, ReplaceContainer, RunContainer, PortTaken,
        DeployCommandFails, ApplyManifest, RolloutCompletes, RolloutFails, HealthPasses,
        HealthFails, BecomesRunning, FailureRecorded, Abandons, WatchStep, StaleClaimRecovered,
        WatchStarts, WatchLooks, WatchBreaksOff, WatchDemotes, WatchCleans, Outside,
        PipelineCrashes, PipelineStalls, LateEffect, Reconfigure, Retagged, Vanishes,
        OutageBegins, OutageEnds
  <2>2. QED
    BY <2>1
<1>3. QED
  BY <1>1, <1>2 DEF WorkloadNext

LEMMA WatchKept ==
    ASSUME Typed, WorkloadNext
    PROVE  WatchTyped'
<1> USE DEF Typed, WatchTyped
<1>1. CASE WatchStep
  <2>1. CASE WatchStarts
    BY <2>1, LocatedIsPlace DEF WatchStarts, Watches, RowTyped, RestTyped, Rows
  <2>2. CASE WatchLooks
    BY <2>2 DEF WatchLooks, NotWatching, Watches, Statuses
  <2>3. CASE WatchBreaksOff \/ WatchDemotes \/ WatchCleans \/ StaleClaimRecovered
    BY <2>3
    DEF WatchBreaksOff, WatchDemotes, WatchCleans, StaleClaimRecovered, NotWatching, Watches, Statuses
  <2>4. QED
    BY <1>1, <2>1, <2>2, <2>3 DEF WatchStep
<1>2. CASE WorkloadStep \/ CommandStep \/ Outside
  <2>1. UNCHANGED watch
    BY <1>2
    DEF WorkloadStep, PipelineClaims, CloneBegins, CloneSucceeds, CloneFails, Checkout,
        BuildImage, TestsPass, TagImage, PushSucceeds, PushFails, VerifyImage, StepFailsOnce,
        RecordTarget, PreflightPasses, ReplaceContainer, RunContainer, PortTaken,
        DeployCommandFails, ApplyManifest, RolloutCompletes, RolloutFails, HealthPasses,
        HealthFails, BecomesRunning, FailureRecorded, Abandons, CommandStep, CommandRequested,
        CommandClaimed, CommandRemoves, CommandFailsToRemove, CommandSucceeded,
        CommandInterrupted, Outside, PipelineCrashes, PipelineStalls, LateEffect, Reconfigure,
        Retagged, Vanishes, OutageBegins, OutageEnds
  <2>2. QED
    BY <2>1
<1>3. QED
  BY <1>1, <1>2 DEF WorkloadNext

\* The rest.
LEMMA RestKept ==
    ASSUME Typed, WorkloadNext
    PROVE  RestTyped' /\ reachable' \in BOOLEAN
<1> USE DEF Typed, RestTyped, Budgets
<1>1. CASE WorkloadStep
  <2>1. claim' \in {"free", "live", "dead"}
    BY <1>1
    DEF WorkloadStep, PipelineClaims, CloneBegins, CloneSucceeds, CloneFails, Checkout,
        BuildImage, TestsPass, TagImage, PushSucceeds, PushFails, VerifyImage, StepFailsOnce,
        RecordTarget, PreflightPasses, ReplaceContainer, RunContainer, PortTaken,
        DeployCommandFails, ApplyManifest, RolloutCompletes, RolloutFails, HealthPasses,
        HealthFails, BecomesRunning, FailureRecorded, Abandons
  <2>2. UNCHANGED <<config, reachable, budget>>
    BY <1>1
    DEF WorkloadStep, PipelineClaims, CloneBegins, CloneSucceeds, CloneFails, Checkout,
        BuildImage, TestsPass, TagImage, PushSucceeds, PushFails, VerifyImage, StepFailsOnce,
        RecordTarget, PreflightPasses, ReplaceContainer, RunContainer, PortTaken,
        DeployCommandFails, ApplyManifest, RolloutCompletes, RolloutFails, HealthPasses,
        HealthFails, BecomesRunning, FailureRecorded, Abandons
  <2>3. QED
    BY <2>1, <2>2
<1>2. CASE CommandStep
  BY <1>2
  DEF CommandStep, CommandRequested, CommandClaimed, CommandRemoves, CommandFailsToRemove,
      CommandSucceeded, CommandInterrupted
<1>3. CASE WatchStep
  BY <1>3
  DEF WatchStep, StaleClaimRecovered, WatchStarts, WatchLooks, WatchBreaksOff, WatchDemotes, WatchCleans
<1>4. CASE Outside
  <2>1. config' \in Configs /\ claim' \in {"free", "live", "dead"} /\ reachable' \in BOOLEAN
    BY <1>4
    DEF Outside, PipelineCrashes, PipelineStalls, LateEffect, Reconfigure, Retagged, Vanishes,
        OutageBegins, OutageEnds
  <2>2. CASE UNCHANGED budget
    BY <2>1, <2>2
  <2>3. CASE budget' # budget
    <3>1. \/ budget' = [budget EXCEPT !.losses = @ + 1]
          \/ budget' = [budget EXCEPT !.configs = @ + 1]
          \/ budget' = [budget EXCEPT !.vanished = @ + 1]
          \/ budget' = [budget EXCEPT !.outages = @ + 1]
      BY <1>4, <2>3
      DEF Outside, PipelineCrashes, PipelineStalls, LateEffect, Reconfigure, Retagged, Vanishes,
          OutageBegins, OutageEnds
    <3>2. budget' \in Budgets
      BY <3>1
    <3>3. QED
      BY <2>1, <3>2
  <2>4. QED
    BY <2>2, <2>3
<1>5. QED
  BY <1>1, <1>2, <1>3, <1>4 DEF WorkloadNext

LEMMA ImageKept ==
    ASSUME Typed, WorkloadNext
    PROVE  ImageTyped'
<1> USE DEF Typed, ImageTyped, Contents
<1>1. CASE UNCHANGED <<repo, image>>
  BY <1>1
<1>2. CASE CloneBegins \/ CloneSucceeds \/ CloneFails \/ Checkout
  BY <1>2 DEF CloneBegins, CloneSucceeds, CloneFails, Checkout
<1>3. CASE BuildImage \/ PushSucceeds \/ PushFails \/ Retagged
  BY <1>3 DEF BuildImage, PushSucceeds, PushFails, Retagged, Uploaded, Images
<1>4. CASE WorkloadStep
  BY <1>1, <1>2, <1>3, <1>4
  DEF WorkloadStep, PipelineClaims, TestsPass, TagImage, VerifyImage, StepFailsOnce,
      RecordTarget, PreflightPasses, ReplaceContainer, RunContainer, PortTaken,
      DeployCommandFails, ApplyManifest, RolloutCompletes, RolloutFails, HealthPasses,
      HealthFails, BecomesRunning, FailureRecorded, Abandons
<1>5. CASE CommandStep \/ WatchStep \/ Outside
  BY <1>1, <1>3, <1>5
  DEF CommandStep, CommandRequested, CommandClaimed, CommandRemoves, CommandFailsToRemove,
      CommandSucceeded, CommandInterrupted, WatchStep, StaleClaimRecovered, WatchStarts,
      WatchLooks, WatchBreaksOff, WatchDemotes, WatchCleans, Outside, PipelineCrashes,
      PipelineStalls, LateEffect, Reconfigure, Vanishes, OutageBegins, OutageEnds
<1>6. QED
  BY <1>4, <1>5 DEF WorkloadNext

-----------------------------------------------------------------------------
(* What a step does to the runtimes *)

\* Parts disappear, or nothing happens.
Shrinks ==
    /\ runtime' \in [Places -> Workloads]
    /\ \A p \in Places : /\ runtime'[p].parts \subseteq runtime[p].parts
                         /\ runtime'[p].runs \in {"nothing", runtime[p].runs}

\* Content c is put to work at p.
Spreads(p, c) ==
    /\ runtime' \in [Places -> Workloads]
    /\ \A q \in Places : q # p => runtime'[q] = runtime[q]
    /\ runtime'[p].runs = c

LEMMA SameShrinks ==
    ASSUME Typed, UNCHANGED runtime PROVE Shrinks
  BY DEF Typed, RuntimeTyped, Shrinks

LEMMA ReducedShrinks ==
    ASSUME Typed, NEW p \in Places, NEW rest, rest \subseteq runtime[p].parts, Reduced(p, rest)
    PROVE  Shrinks /\ runtime'[p].parts = rest
<1> DEFINE now == IF rest = {} THEN NoWorkload ELSE [parts |-> rest, runs |-> runtime[p].runs]
<1>1. runtime \in [Places -> Workloads] /\ runtime[p] \in Workloads
  BY DEF Typed, RuntimeTyped
<1>2. now \in Workloads /\ now.parts = rest /\ now.runs \in {"nothing", runtime[p].runs}
  BY <1>1 DEF NoWorkload, Workloads, Contents
<1>3. runtime' = [runtime EXCEPT ![p] = now]
  BY DEF Reduced
<1> HIDE DEF now
<1>4. QED
  BY <1>1, <1>2, <1>3 DEF Shrinks

LEMMA RemovedShrinks ==
    ASSUME Typed, NEW p \in Places, Removed(p)
    PROVE  Shrinks /\ runtime'[p].parts = {}
  BY ReducedShrinks DEF Removed

LEMMA RemovedInPartShrinks ==
    ASSUME Typed, NEW p \in Places, RemovedInPart(p)
    PROVE  Shrinks
<1>1. CASE reachable
  <2>1. PICK rest \in SUBSET runtime[p].parts : Reduced(p, rest)
    BY <1>1 DEF RemovedInPart
  <2>2. QED
    BY <2>1, ReducedShrinks
<1>2. CASE ~reachable
  BY <1>2, SameShrinks DEF RemovedInPart
<1>3. QED
  BY <1>1, <1>2

LEMMA HereIsPlace ==
    ASSUME Typed, pipe.at # "idle" PROVE Here \in Places
  BY PlacesAreNamed, ConfigsHaveFields DEF Typed, PipeTyped, Here

LEMMA ImageToRunIsContent ==
    ASSUME Typed PROVE ImageToRun \in Contents
  BY DEF Typed, ImageTyped, Images, ImageToRun

LEMMA PutSpreads ==
    ASSUME Typed, NEW p \in Places, NEW c \in Contents,
           NEW parts \in SUBSET (ManifestParts \cup {"container"}),
           runtime' = [runtime EXCEPT ![p] = [parts |-> parts, runs |-> c]]
    PROVE  Spreads(p, c)
<1> DEFINE now == [parts |-> parts, runs |-> c]
<1>1. now \in Workloads /\ now.runs = c
  BY DEF Workloads
<1>2. runtime \in [Places -> Workloads] /\ runtime' = [runtime EXCEPT ![p] = now]
  BY DEF Typed, RuntimeTyped
<1> HIDE DEF now
<1>3. QED
  BY <1>1, <1>2 DEF Spreads

\* What a pipeline step may do: remove, or put its image where it works.
Puts == pipe.at \in {"run", "apply"} /\ Spreads(Here, ImageToRun) /\ UNCHANGED loose
Lets == /\ pipe.at \in {"run", "apply"} /\ Shrinks
        /\ loose' = [place |-> Here, runs |-> ImageToRun]
Quiet == Shrinks /\ (UNCHANGED loose \/ loose' = Nowhere)
Late == loose # Nowhere /\ Spreads(loose.place, loose.runs) /\ loose' = Nowhere


LEMMA PipelinePuts ==
    ASSUME Typed, RunContainer \/ PortTaken \/ ApplyManifest \/ DeployCommandFails
    PROVE  Puts \/ Lets \/ Quiet
<1>0. pipe.at \in {"run", "apply"}
  BY DEF RunContainer, PortTaken, ApplyManifest, DeployCommandFails
<1>1. PICK p \in Places : p = Here
  BY <1>0, HereIsPlace
<1>2. PICK c \in Contents : c = ImageToRun
  BY ImageToRunIsContent
<1> DEFINE all == ManifestParts \cup {"container"}
<1>3. CASE \E parts \in SUBSET all : runtime' = [runtime EXCEPT ![Here] = [parts |-> parts, runs |-> ImageToRun]]
  <2>1. PICK parts \in SUBSET all : runtime' = [runtime EXCEPT ![p] = [parts |-> parts, runs |-> c]]
    BY <1>1, <1>2, <1>3
  <2>2. Spreads(p, c)
    BY <2>1, PutSpreads
  <2>3. CASE UNCHANGED loose
    BY <1>0, <1>1, <1>2, <2>2, <2>3 DEF Puts
  <2>4. CASE ~UNCHANGED loose
    <3>1. DeployCommandFails /\ MayOutlive /\ UNCHANGED runtime
      BY <2>4 DEF RunContainer, PortTaken, ApplyManifest, DeployCommandFails
    <3>2. QED
      BY <1>0, <2>4, <3>1, SameShrinks DEF MayOutlive, Lets, Quiet
  <2>5. QED
    BY <2>3, <2>4
<1>4. CASE UNCHANGED runtime
  <2>1. Shrinks
    BY <1>4, SameShrinks
  <2>2. UNCHANGED loose \/ MayOutlive
    BY DEF RunContainer, PortTaken, ApplyManifest, DeployCommandFails
  <2>3. QED
    BY <1>0, <2>1, <2>2 DEF MayOutlive, Lets, Quiet
<1>5. QED
  <2>1. ManifestParts \in SUBSET all /\ ManifestParts \ {"ingress"} \in SUBSET all /\ {"container"} \in SUBSET all
    BY DEF ManifestParts
  <2>2. CASE RunContainer
    BY <1>3, <2>1, <2>2 DEF RunContainer, Container
  <2>3. CASE PortTaken
    BY <1>3, <1>4, <2>1, <2>3 DEF PortTaken, Container
  <2>4. CASE ApplyManifest
    BY <1>3, <2>1, <2>4 DEF ApplyManifest
  <2>5. CASE DeployCommandFails
    BY <1>3, <1>4, <2>1, <2>5 DEF DeployCommandFails
  <2>6. QED
    BY <2>2, <2>3, <2>4, <2>5

LEMMA PipelineRemoves ==
    ASSUME Typed, ReplaceContainer \/ HealthFails
    PROVE  Quiet
<1>1. pipe.at # "idle" /\ UNCHANGED loose
  BY DEF ReplaceContainer, HealthFails
<1>2. PICK p \in Places : p = Here
  BY <1>1, HereIsPlace
<1>3. Removed(p) \/ UNCHANGED runtime
  BY <1>2 DEF ReplaceContainer, HealthFails
<1>4. QED
  BY <1>1, <1>3, RemovedShrinks, SameShrinks DEF Quiet

LEMMA OthersRemove ==
    ASSUME Typed, CommandRemoves \/ CommandFailsToRemove \/ WatchCleans \/ Vanishes
    PROVE  Quiet
<1>1. UNCHANGED loose
  BY DEF CommandRemoves, CommandFailsToRemove, WatchCleans, Vanishes
<1>2. CASE CommandRemoves \/ CommandFailsToRemove
  <2>1. PICK p \in Places : p = command.place
    BY <1>2 DEF CommandRemoves, CommandFailsToRemove, Typed, CommandTyped
  <2>2. Removed(p) \/ RemovedInPart(p)
    BY <1>2, <2>1 DEF CommandRemoves, CommandFailsToRemove
  <2>3. QED
    BY <1>1, <2>2, RemovedShrinks, RemovedInPartShrinks DEF Quiet
<1>3. CASE WatchCleans
  <2>1. PICK p \in Places : p = watch.place
    BY <1>3 DEF WatchCleans, Typed, WatchTyped
  <2>2. Removed(p) \/ UNCHANGED runtime
    BY <1>3, <2>1 DEF WatchCleans
  <2>3. QED
    BY <1>1, <2>2, RemovedShrinks, SameShrinks DEF Quiet
<1>4. CASE Vanishes
  <2>1. PICK p \in Places : \E part \in runtime[p].parts : Reduced(p, runtime[p].parts \ {part})
    BY <1>4 DEF Vanishes
  <2>2. PICK rest : rest \subseteq runtime[p].parts /\ Reduced(p, rest)
    BY <2>1
  <2>3. QED
    BY <1>1, <2>2, ReducedShrinks DEF Quiet
<1>5. QED
  BY <1>2, <1>3, <1>4

LEMMA LateEffectSpreads ==
    ASSUME Typed, LateEffect
    PROVE  Quiet \/ Late
<1>1. PICK p \in Places, c \in Contents : p = loose.place /\ c = loose.runs
  BY DEF LateEffect, Typed, RuntimeTyped, Effects
<1>2. CASE UNCHANGED runtime
  BY <1>2, SameShrinks DEF LateEffect, Quiet
<1>3. CASE ~UNCHANGED runtime
  <2>1. runtime' = [runtime EXCEPT ![p] = [parts |-> PartsAt(p), runs |-> c]]
    BY <1>1, <1>3 DEF LateEffect
  <2>2. PartsAt(p) \in SUBSET (ManifestParts \cup {"container"})
    BY DEF PartsAt
  <2>3. Spreads(p, c)
    BY <2>1, <2>2, PutSpreads
  <2>4. QED
    BY <1>1, <2>3 DEF LateEffect, Late
<1>4. QED
  BY <1>2, <1>3

LEMMA RuntimeSteps ==
    ASSUME Typed, WorkloadNext
    PROVE  Puts \/ Lets \/ Quiet \/ Late
<1>1. CASE UNCHANGED runtime /\ (UNCHANGED loose \/ MayOutlive)
  <2>1. CASE pipe.at \in {"run", "apply"} /\ loose' = [place |-> Here, runs |-> ImageToRun]
    BY <1>1, <2>1, SameShrinks DEF Lets
  <2>2. CASE UNCHANGED loose \/ loose' = Nowhere
    BY <1>1, <2>2, SameShrinks DEF Quiet
  <2>3. QED
    BY <1>1, <2>1, <2>2 DEF MayOutlive
<1>2. CASE WorkloadStep
  <2>1. CASE RunContainer \/ PortTaken \/ ApplyManifest \/ DeployCommandFails
    BY <2>1, PipelinePuts
  <2>2. CASE ReplaceContainer \/ HealthFails
    BY <2>2, PipelineRemoves
  <2>3. QED
    BY <1>1, <1>2, <2>1, <2>2
    DEF WorkloadStep, PipelineClaims, CloneBegins, CloneSucceeds, CloneFails, Checkout,
        BuildImage, TestsPass, TagImage, PushSucceeds, PushFails, VerifyImage, StepFailsOnce,
        RecordTarget, PreflightPasses, RolloutCompletes, RolloutFails, HealthPasses,
        BecomesRunning, FailureRecorded, Abandons
<1>3. CASE CommandStep \/ WatchStep
  BY <1>1, <1>3, OthersRemove
  DEF CommandStep, CommandRequested, CommandClaimed, CommandSucceeded, CommandInterrupted,
      WatchStep, StaleClaimRecovered, WatchStarts, WatchLooks, WatchBreaksOff, WatchDemotes
<1>4. CASE Outside
  BY <1>1, <1>4, OthersRemove, LateEffectSpreads
  DEF Outside, PipelineCrashes, PipelineStalls, Reconfigure, Retagged, OutageBegins, OutageEnds
<1>5. QED
  BY <1>2, <1>3, <1>4 DEF WorkloadNext

LEMMA RuntimeKept ==
    ASSUME Typed, WorkloadNext
    PROVE  RuntimeTyped'
<1>1. runtime' \in [Places -> Workloads]
  BY RuntimeSteps DEF Puts, Lets, Quiet, Late, Shrinks, Spreads
<1>2. loose' \in Effects \cup {Nowhere}
  <2>1. CASE Lets
    <3>1. pipe.at # "idle"
      BY <2>1 DEF Lets
    <3>2. QED
      BY <2>1, <3>1, HereIsPlace, ImageToRunIsContent DEF Lets, Effects
  <2>2. CASE ~Lets
    BY <2>2, RuntimeSteps DEF Puts, Quiet, Late, Typed, RuntimeTyped
  <2>3. QED
    BY <2>1, <2>2
<1>3. QED
  BY <1>1, <1>2 DEF RuntimeTyped

LEMMA TypedKept == Typed /\ [WorkloadNext]_workloadVars => Typed'
<1>1. ASSUME Typed, WorkloadNext PROVE Typed'
  BY <1>1, RowKept, PipeKept, CommandKept, WatchKept, ImageKept, RuntimeKept, RestKept DEF Typed
<1>2. ASSUME Typed, UNCHANGED workloadVars PROVE Typed'
  BY <1>2
  DEF workloadVars, Typed, RowTyped, PipeTyped, CommandTyped, WatchTyped, ImageTyped,
      RuntimeTyped, RestTyped
<1>3. QED
  BY <1>1, <1>2


-----------------------------------------------------------------------------
(* Where the workload is *)

EarlySteps == {"clone", "checkout", "build", "tests", "tag", "push", "verify", "target"}
LateSteps == {"preflight", "replace", "run", "apply", "rollout", "health", "finish"}
Working == command.at \in {"claimed", "removed"}

\* The runtime's identity is recorded once, before the pipeline's late steps...
RecordedOnce ==
    /\ row.status = "pending" => row.target = Nowhere
    /\ row.target = Nowhere => row.namespace = Nowhere
    /\ pipe.at \in EarlySteps /\ claim = "live" => row.target = Nowhere
    /\ pipe.at \in LateSteps => Home = Here

\* ... and commands look for the workload there.
LooksAtHome == Working /\ Home \in Places => command.place = Home

\* No command is worked on beside a pipeline that holds its claim and has begun.
Apart ==
    /\ claim = "live" /\ pipe.at \notin {"idle", "claimed"} => ~Working
    /\ command.at # "none" /\ command.type = "cleanup" => row.target # Nowhere
    /\ pipe.at = "claimed" => row.status \in {"pending", "failed", "stopped"}
    /\ pipe.at \notin {"idle", "claimed"} => row.status # "pending"

OrderInv == RecordedOnce /\ LooksAtHome /\ Apart

LEMMA HomeIsPlace ==
    ASSUME Typed
    PROVE  /\ Home \in Places <=> \/ row.target = "local-docker"
                                  \/ row.target = "kubernetes" /\ row.namespace # Nowhere
           /\ row.target = Nowhere => Home = Nowhere
           /\ row.target = "local-docker" => Home = "local-docker"
           /\ row.target = "kubernetes" => Home = row.namespace
           /\ row.target \in {"local-docker", "kubernetes", Nowhere}
           /\ row.namespace \in Namespaces \cup {Nowhere}
  BY PlacesAreNamed DEF Typed, RowTyped, Rows, Home, PlaceOf, Places, Targets

\* Where a command's executor works is where the row says, if it says.
LEMMA LocatedAtHome ==
    ASSUME Typed, Home \in Places PROVE Located(row, config) = Home
  BY HomeIsPlace, PlacesAreNamed DEF Located, PlaceOf, Home

\* Steps that write a status at most do not move the workload's home.
LEMMA StatusOnly ==
    ASSUME row'.target = row.target, row'.namespace = row.namespace
    PROVE  Home' = Home
  BY DEF Home, PlaceOf

LEMMA RecordTargetKeepsOrder ==
    ASSUME Typed, OrderInv, RecordTarget
    PROVE  OrderInv' /\ Home \notin Places
<1>1. /\ pipe.at = "target" /\ claim = "live" /\ pipe' = [pipe EXCEPT !.at = "preflight", !.left = Attempts("preflight")]
      /\ row' = Identified(row, pipe.cfg) /\ UNCHANGED <<command, claim>>
  BY DEF RecordTarget, Proceeds, Goto
<1>2. row.target = Nowhere /\ row.namespace = Nowhere /\ ~Working /\ row.status # "pending"
  BY <1>1 DEF OrderInv, RecordedOnce, Apart, EarlySteps
<1>3. pipe.cfg \in Configs /\ pipe \in Pipes /\ row \in Rows
  BY <1>1 DEF Typed, PipeTyped, RowTyped
<1>4. /\ row'.target = pipe.cfg.target /\ row'.status = row.status
      /\ row'.namespace = IF pipe.cfg.target = "kubernetes" THEN pipe.cfg.namespace ELSE Nowhere
  BY <1>1, <1>2, <1>3 DEF Identified, Rows
<1>5. pipe'.at = "preflight" /\ pipe'.cfg = pipe.cfg
  BY <1>1, <1>3 DEF Pipes
<1>6. Home' = Here'
  BY <1>4, <1>5 DEF Home, Here, PlaceOf
<1>7. row'.target # Nowhere
  BY <1>3, <1>4, ConfigsHaveFields, PlacesAreNamed
<1>8. ~Working'
  BY <1>1, <1>2 DEF Working
<1>9. Home \notin Places
  BY <1>2, HomeIsPlace, PlacesAreNamed
<1>10. QED
  BY <1>1, <1>2, <1>4, <1>5, <1>6, <1>7, <1>8, <1>9
  DEF OrderInv, RecordedOnce, LooksAtHome, Apart, EarlySteps

LEMMA CommandSucceededKeepsOrder ==
    ASSUME Typed, OrderInv, CommandSucceeded
    PROVE  OrderInv' /\ (Home \in Places => Home' = Home)
<1>1. /\ Working /\ command' = NoCommand /\ UNCHANGED <<pipe, claim>>
      /\ row' = [row EXCEPT !.status = "stopped",
                            !.target = IF command.place = "local-docker" THEN "local-docker"
                                                                         ELSE "kubernetes"]
  BY DEF CommandSucceeded, Working
<1>2. row \in Rows
  BY DEF Typed, RowTyped
<1>3. /\ row'.status = "stopped" /\ row'.namespace = row.namespace
      /\ row'.target = IF command.place = "local-docker" THEN "local-docker" ELSE "kubernetes"
  BY <1>1, <1>2 DEF Rows
<1>4. Home \in Places => row'.target = row.target
  <2>1. Home \in Places => command.place = Home
    BY <1>1 DEF OrderInv, LooksAtHome
  <2>2. QED
    BY <1>3, <2>1, HomeIsPlace, PlacesAreNamed
<1>5. Home \in Places => Home' = Home
  BY <1>3, <1>4, StatusOnly
<1>6. ~Working' /\ command'.at = "none"
  BY <1>1 DEF Working, NoCommand
<1>7. pipe.at \in LateSteps => Home \in Places /\ Home' = Here'
  <2>1. pipe.at \in LateSteps => Home = Here /\ pipe.at # "idle"
    BY DEF OrderInv, RecordedOnce, LateSteps
  <2>2. Here' = Here
    BY <1>1 DEF Here, PlaceOf
  <2>3. QED
    BY <2>1, <2>2, <1>5, HereIsPlace
<1>8. ~(claim = "live" /\ pipe.at \in EarlySteps)
  BY <1>1 DEF OrderInv, Apart, EarlySteps
<1>9. row'.target # Nowhere
  BY <1>3, PlacesAreNamed DEF Targets
<1>10. QED
  BY <1>1, <1>3, <1>5, <1>6, <1>7, <1>8, <1>9
  DEF OrderInv, RecordedOnce, LooksAtHome, Apart


\* A pipeline step that goes on, or fails.
LEMMA MovingKeepsOrder ==
    ASSUME Typed, OrderInv, UNCHANGED <<claim, command>>, pipe'.cfg = pipe.cfg,
           row'.target = row.target, row'.namespace = row.namespace, row'.status # "pending",
           \/ pipe.at \in EarlySteps /\ pipe'.at \in EarlySteps \cup {"failing"}
           \/ pipe.at \in LateSteps /\ pipe'.at \in LateSteps \cup {"failing"}
    PROVE  OrderInv' /\ Home' = Home
<1>1. Home' = Home /\ Here' = Here
  BY StatusOnly DEF Here, PlaceOf
<1>2. Working' = Working
  BY DEF Working
<1>3. RecordedOnce'
  BY <1>1 DEF OrderInv, RecordedOnce, EarlySteps, LateSteps
<1>4. LooksAtHome' /\ Apart'
  BY <1>1, <1>2 DEF OrderInv, LooksAtHome, Apart, EarlySteps, LateSteps
<1>5. QED
  BY <1>1, <1>3, <1>4 DEF OrderInv

\* The pipeline is over, or its worker gone.
LEMMA EndingKeepsOrder ==
    ASSUME Typed, OrderInv, UNCHANGED command, pipe' = NoPipe,
           row'.target = row.target, row'.namespace = row.namespace,
           row'.status = "pending" => row.status = "pending"
    PROVE  OrderInv' /\ Home' = Home
<1>1. Home' = Home /\ pipe'.at = "idle" /\ Working' = Working
  BY StatusOnly DEF NoPipe, Working
<1>2. QED
  BY <1>1 DEF OrderInv, RecordedOnce, LooksAtHome, Apart, EarlySteps, LateSteps

\* A step that leaves the pipeline and the commands alone.
LEMMA LeavingAloneKeepsOrder ==
    ASSUME Typed, OrderInv, UNCHANGED <<pipe, command>>, claim' = claim \/ claim' # "live",
           row'.target = row.target, row'.namespace = row.namespace,
           row'.status = "pending" => row.status = "pending",
           row'.status = row.status \/ row'.status \in {"failed", "stopped"}
    PROVE  OrderInv' /\ Home' = Home
<1>1. Home' = Home /\ Here' = Here /\ Working' = Working
  BY StatusOnly DEF Here, PlaceOf, Working
<1>2. QED
  BY <1>1 DEF OrderInv, RecordedOnce, LooksAtHome, Apart

\* A command is requested, claimed, worked on, given up or interrupted.
LEMMA CommandingKeepsOrder ==
    ASSUME Typed, OrderInv, CommandStep, ~CommandSucceeded
    PROVE  OrderInv' /\ Home' = Home
<1>1. UNCHANGED <<row, claim, pipe>>
  BY DEF CommandStep, CommandRequested, CommandClaimed, CommandRemoves, CommandFailsToRemove,
         CommandInterrupted
<1>2. Home' = Home /\ Here' = Here
  BY <1>1 DEF Home, Here, PlaceOf
<1>3. RecordedOnce'
  BY <1>1, <1>2 DEF OrderInv, RecordedOnce
<1>4. command \in Commands
  BY DEF Typed, CommandTyped
<1>5. CASE CommandRequested
  <2>1. command'.at = "pending" /\ (command'.type = "cleanup" => row.target = "kubernetes")
    BY <1>5 DEF CommandRequested
  <2>2. ~Working'
    BY <2>1 DEF Working
  <2>3. "kubernetes" # Nowhere
    BY PlacesAreNamed DEF Targets
  <2>4. QED
    BY <1>1, <1>2, <1>3, <2>1, <2>2, <2>3 DEF OrderInv, LooksAtHome, Apart
<1>6. CASE CommandClaimed
  <2>1. /\ command.at = "pending" /\ command'.at = "claimed" /\ command'.type = command.type
        /\ command'.place = Located(row, config) /\ claim # "live"
    BY <1>4, <1>6 DEF CommandClaimed, Commands
  <2>2. QED
    BY <1>1, <1>2, <1>3, <2>1, LocatedAtHome DEF OrderInv, LooksAtHome, Apart
<1>7. CASE CommandRemoves
  <2>1. /\ command.at = "claimed" /\ command'.at = "removed" /\ command'.type = command.type
        /\ command'.place = command.place
    BY <1>4, <1>7 DEF CommandRemoves, Commands
  <2>2. QED
    BY <1>1, <1>2, <1>3, <2>1 DEF OrderInv, LooksAtHome, Apart, Working
<1>8. CASE CommandFailsToRemove
  <2>1. command'.at = "none" /\ ~Working'
    BY <1>8 DEF CommandFailsToRemove, NoCommand, Working
  <2>2. QED
    BY <1>1, <1>2, <1>3, <2>1 DEF OrderInv, LooksAtHome, Apart
<1>9. CASE CommandInterrupted
  <2>1. /\ command.at # "none" /\ command'.at = "pending" /\ command'.type = command.type
    BY <1>4, <1>9 DEF CommandInterrupted, Commands
  <2>2. ~Working'
    BY <2>1 DEF Working
  <2>3. QED
    BY <1>1, <1>2, <1>3, <2>1, <2>2 DEF OrderInv, LooksAtHome, Apart
<1>10. QED
  BY <1>5, <1>6, <1>7, <1>8, <1>9 DEF CommandStep

\* The pipeline starts: the deployment is still pending, so nothing is recorded
\* and no cleanup can be under way; a stop would have turned it away.
LEMMA StartingKeepsOrder ==
    ASSUME Typed, OrderInv, PipelineClaims \/ CloneBegins
    PROVE  OrderInv' /\ Home' = Home
<1>0. command \in Commands /\ row \in Rows /\ pipe \in Pipes
  BY DEF Typed, CommandTyped, RowTyped, PipeTyped
<1>1. CASE PipelineClaims
  <2>1. /\ row.status = "pending" /\ pipe'.at = "claimed" /\ UNCHANGED <<row, command>>
    BY <1>1 DEF PipelineClaims
  <2>2. Home' = Home /\ Working' = Working
    BY <2>1 DEF Home, PlaceOf, Working
  <2>3. QED
    BY <2>1, <2>2 DEF OrderInv, RecordedOnce, LooksAtHome, Apart, EarlySteps, LateSteps
<1>2. CASE CloneBegins
  <2>1. /\ pipe.at = "claimed" /\ claim = "live" /\ ~StopActive /\ UNCHANGED <<claim, command>>
        /\ CanTransition(row.status, "cloning")
        /\ row' = [row EXCEPT !.status = "cloning"]
        /\ pipe' = [pipe EXCEPT !.at = "clone", !.left = Attempts("clone")]
    BY <1>2 DEF CloneBegins, Begins, Proceeds, Goto
  <2>2. row.status = "pending" /\ row.target = Nowhere
    BY <2>1 DEF OrderInv, RecordedOnce, Apart, CanTransition, StatusEdge
  <2>3. command.at = "none"
    BY <1>0, <2>1, <2>2 DEF OrderInv, Apart, StopActive, Commands
  <2>4. /\ row'.status = "cloning" /\ row'.target = row.target /\ row'.namespace = row.namespace
        /\ pipe'.at = "clone" /\ ~Working'
    BY <1>0, <2>1, <2>3 DEF Rows, Pipes, Working
  <2>5. Home' = Home
    BY <2>4, StatusOnly
  <2>6. QED
    BY <2>1, <2>2, <2>3, <2>4, <2>5
    DEF OrderInv, RecordedOnce, LooksAtHome, Apart, EarlySteps, LateSteps
<1>3. QED
  BY <1>1, <1>2


LEMMA MoveFields ==
    ASSUME PipeTyped
    PROVE  /\ \A step \in PipeSteps : Goto(step) => pipe'.at = step /\ pipe'.cfg = pipe.cfg
           /\ TriesAgain => pipe'.at = pipe.at /\ pipe'.cfg = pipe.cfg
           /\ GivesUp => pipe'.at = "failing" /\ pipe'.cfg = pipe.cfg
  BY DEF PipeTyped, Pipes, Goto, TriesAgain, GivesUp

LEMMA BeginsFields ==
    ASSUME RowTyped, PipeTyped, NEW s \in Statuses, NEW step \in PipeSteps, Begins(s, step)
    PROVE  /\ row'.status = s /\ row'.target = row.target /\ row'.namespace = row.namespace
           /\ pipe'.at = step /\ pipe'.cfg = pipe.cfg
  BY MoveFields DEF Begins, RowTyped, Rows

\* The early steps of the pipeline.
LEMMA EarlyKeepsOrder ==
    ASSUME Typed, OrderInv,
           \/ CloneSucceeds \/ CloneFails \/ Checkout \/ BuildImage \/ TestsPass
           \/ TagImage \/ PushSucceeds \/ PushFails \/ VerifyImage \/ StepFailsOnce
    PROVE  OrderInv' /\ Home' = Home
<1>0. RowTyped /\ PipeTyped
  BY DEF Typed
<1>1. CASE CloneSucceeds \/ CloneFails \/ TagImage \/ PushFails \/ StepFailsOnce
  <2>1. UNCHANGED <<row, claim, command>> /\ pipe.at \notin {"idle", "claimed"}
    BY <1>1 DEF CloneSucceeds, CloneFails, TagImage, PushFails, StepFailsOnce
  <2>2. row.status # "pending"
    BY <2>1 DEF OrderInv, Apart
  <2>3. /\ pipe'.cfg = pipe.cfg
        /\ \/ pipe.at \in EarlySteps /\ pipe'.at \in EarlySteps \cup {"failing"}
           \/ pipe.at \in LateSteps /\ pipe'.at \in LateSteps \cup {"failing"}
    BY <1>0, <1>1, MoveFields
    DEF CloneSucceeds, CloneFails, TagImage, PushFails, StepFailsOnce, EarlySteps, LateSteps, PipeSteps
  <2>4. QED
    BY <2>1, <2>2, <2>3, MovingKeepsOrder
<1>2. CASE Checkout \/ TestsPass \/ VerifyImage
  <2>1. UNCHANGED <<claim, command>> /\ pipe.at \in EarlySteps
    BY <1>2 DEF Checkout, TestsPass, VerifyImage, EarlySteps
  <2>2. /\ row'.status # "pending" /\ row'.target = row.target /\ row'.namespace = row.namespace
        /\ pipe'.at \in EarlySteps /\ pipe'.cfg = pipe.cfg
    BY <1>0, <1>2, BeginsFields DEF Checkout, TestsPass, VerifyImage, EarlySteps, PipeSteps, Statuses
  <2>3. QED
    BY <2>1, <2>2, MovingKeepsOrder
<1>3. CASE BuildImage \/ PushSucceeds
  <2>1. UNCHANGED <<claim, command>> /\ pipe.at \in {"build", "push"}
    BY <1>3 DEF BuildImage, PushSucceeds
  <2>2. row.status # "pending"
    BY <2>1 DEF OrderInv, Apart
  <2>3. row'.status # "pending" /\ row'.target = row.target /\ row'.namespace = row.namespace
    BY <1>0, <1>3, <2>2 DEF BuildImage, PushSucceeds, RowTyped, Rows
  <2>4. pipe'.at \in EarlySteps /\ pipe'.cfg = pipe.cfg
    BY <1>0, <1>3, MoveFields DEF BuildImage, PushSucceeds, EarlySteps, PipeSteps
  <2>5. QED
    BY <2>1, <2>3, <2>4, MovingKeepsOrder DEF EarlySteps
<1>4. QED
  BY <1>1, <1>2, <1>3

\* The late ones.
LEMMA LateKeepsOrder ==
    ASSUME Typed, OrderInv,
           \/ PreflightPasses \/ ReplaceContainer \/ RunContainer \/ PortTaken
           \/ DeployCommandFails \/ ApplyManifest \/ RolloutCompletes \/ RolloutFails
           \/ HealthPasses \/ HealthFails
    PROVE  OrderInv' /\ Home' = Home
<1>0. PipeTyped
  BY DEF Typed
<1>1. UNCHANGED <<row, claim, command>> /\ pipe.at \in LateSteps
  BY DEF PreflightPasses, ReplaceContainer, RunContainer, PortTaken, DeployCommandFails,
         ApplyManifest, RolloutCompletes, RolloutFails, HealthPasses, HealthFails, LateSteps
<1>2. row.status # "pending"
  BY <1>1 DEF OrderInv, Apart, LateSteps
<1>3. CASE ReplaceContainer \/ ApplyManifest
  <2>1. pipe'.at \in LateSteps /\ pipe'.cfg = pipe.cfg
    BY <1>0, <1>3 DEF ReplaceContainer, ApplyManifest, PipeTyped, Pipes, LateSteps
  <2>2. QED
    BY <1>1, <1>2, <2>1, MovingKeepsOrder
<1>4. CASE ~(ReplaceContainer \/ ApplyManifest)
  <2>1. pipe'.at \in LateSteps \cup {"failing"} /\ pipe'.cfg = pipe.cfg
    BY <1>0, <1>1, <1>4, MoveFields
    DEF PreflightPasses, RunContainer, PortTaken, DeployCommandFails, RolloutCompletes,
        RolloutFails, HealthPasses, HealthFails, LateSteps, PipeSteps
  <2>2. QED
    BY <1>1, <1>2, <2>1, MovingKeepsOrder
<1>5. QED
  BY <1>3, <1>4

\* The ends.
LEMMA EndsKeepOrder ==
    ASSUME Typed, OrderInv, BecomesRunning \/ FailureRecorded \/ Abandons \/ PipelineCrashes
    PROVE  OrderInv' /\ Home' = Home
<1>0. row \in Rows /\ UNCHANGED command /\ pipe' = NoPipe
  BY DEF Typed, RowTyped, BecomesRunning, FailureRecorded, Abandons, PipelineCrashes
<1>1. CASE BecomesRunning
  <2>1. /\ pipe.at = "finish" /\ row' = [row EXCEPT !.status = "running", !.target = pipe.cfg.target]
    BY <1>1 DEF BecomesRunning
  <2>2. Home = Here /\ pipe.cfg \in Configs
    BY <2>1 DEF OrderInv, RecordedOnce, LateSteps, Typed, PipeTyped
  <2>3. row.target = pipe.cfg.target
    BY <2>1, <2>2, HomeIsPlace, HereIsPlace, ConfigsHaveFields, PlacesAreNamed
    DEF Here, PlaceOf, Targets
  <2>4. row'.target = row.target /\ row'.namespace = row.namespace /\ row'.status = "running"
    BY <1>0, <2>1, <2>3 DEF Rows
  <2>5. QED
    BY <1>0, <2>4, EndingKeepsOrder
<1>2. CASE FailureRecorded \/ Abandons \/ PipelineCrashes
  <2>1. /\ row'.target = row.target /\ row'.namespace = row.namespace
        /\ row'.status = "pending" => row.status = "pending"
    BY <1>0, <1>2 DEF FailureRecorded, Abandons, PipelineCrashes, Rows
  <2>2. QED
    BY <1>0, <2>1, EndingKeepsOrder
<1>3. QED
  BY <1>1, <1>2

LEMMA OthersKeepOrder ==
    ASSUME Typed, OrderInv, WatchStep \/ (Outside /\ ~PipelineCrashes)
    PROVE  OrderInv' /\ Home' = Home
<1>1. UNCHANGED <<pipe, command>> /\ (claim' = claim \/ claim' # "live")
  BY DEF WatchStep, StaleClaimRecovered, WatchStarts, WatchLooks, WatchBreaksOff, WatchDemotes,
         WatchCleans, Outside, PipelineStalls, LateEffect, Reconfigure, Retagged, Vanishes,
         OutageBegins, OutageEnds
<1>2. CASE UNCHANGED row
  BY <1>1, <1>2, LeavingAloneKeepsOrder
<1>3. CASE StaleClaimRecovered
  <2>1. /\ row'.target = row.target /\ row'.namespace = row.namespace
        /\ row'.status = IF row.status \in InProgress THEN "failed" ELSE row.status
    BY <1>3 DEF StaleClaimRecovered, Typed, RowTyped, Rows
  <2>2. QED
    BY <1>1, <2>1, LeavingAloneKeepsOrder DEF InProgress
<1>4. CASE WatchDemotes
  <2>1. row'.target = row.target /\ row'.namespace = row.namespace /\ row'.status = "failed"
    BY <1>4 DEF WatchDemotes, Typed, RowTyped, Rows
  <2>2. QED
    BY <1>1, <2>1, LeavingAloneKeepsOrder
<1>5. QED
  BY <1>2, <1>3, <1>4
  DEF WatchStep, WatchStarts, WatchLooks, WatchBreaksOff, WatchCleans, Outside, PipelineStalls,
      LateEffect, Reconfigure, Retagged, Vanishes, OutageBegins, OutageEnds

\* The home moves only where there is nothing yet.
LEMMA OrderKept ==
    ASSUME Typed, OrderInv, WorkloadNext
    PROVE  OrderInv' /\ (Home' = Home \/ (Home \notin Places /\ UNCHANGED <<runtime, loose>>))
<1>1. CASE RecordTarget
  BY <1>1, RecordTargetKeepsOrder DEF RecordTarget
<1>2. CASE CommandSucceeded
  BY <1>2, CommandSucceededKeepsOrder DEF CommandSucceeded
<1>3. CASE PipelineClaims \/ CloneBegins
  BY <1>3, StartingKeepsOrder
<1>4. CASE \/ CloneSucceeds \/ CloneFails \/ Checkout \/ BuildImage \/ TestsPass
           \/ TagImage \/ PushSucceeds \/ PushFails \/ VerifyImage \/ StepFailsOnce
  BY <1>4, EarlyKeepsOrder
<1>5. CASE \/ PreflightPasses \/ ReplaceContainer \/ RunContainer \/ PortTaken
           \/ DeployCommandFails \/ ApplyManifest \/ RolloutCompletes \/ RolloutFails
           \/ HealthPasses \/ HealthFails
  BY <1>5, LateKeepsOrder
<1>6. CASE BecomesRunning \/ FailureRecorded \/ Abandons \/ PipelineCrashes
  BY <1>6, EndsKeepOrder
<1>7. CASE CommandStep /\ ~CommandSucceeded
  BY <1>7, CommandingKeepsOrder
<1>8. CASE WatchStep \/ (Outside /\ ~PipelineCrashes)
  BY <1>8, OthersKeepOrder
<1>9. QED
  BY <1>1, <1>2, <1>3, <1>4, <1>5, <1>6, <1>7, <1>8 DEF WorkloadNext, WorkloadStep


-----------------------------------------------------------------------------
(* What runs *)

Built == {"tests", "tag", "push", "verify"}
Verified == {"target"} \cup LateSteps

\* From the checkout on, source and image are those of the commit; from the
\* verification on, the row names the image by digest, or without a registry
\* by its local tag.
ContentInv ==
    /\ pipe.at = "build" => repo = "commit"
    /\ pipe.at \in Built \cup Verified => image.local = "commit"
    /\ pipe.at \in Built /\ ~pipe.cfg.registry => row.ref = "local"
    /\ pipe.at \in Verified => row.ref \in {"digest", "local"}
    /\ row.ref = "digest" => image.digest = "commit"

LEMMA RunsTheCommit ==
    ASSUME Typed, ContentInv, pipe.at \in {"run", "apply"}
    PROVE  ImageToRun = "commit"
  BY DEF ContentInv, Verified, LateSteps, ImageToRun

\* A step that writes neither source nor image nor the row's image_ref.
LEMMA SameContentKept ==
    ASSUME ContentInv, UNCHANGED <<repo, image>>, row'.ref = row.ref, pipe'.cfg = pipe.cfg,
           \/ pipe'.at = pipe.at \/ pipe'.at = "failing"
           \/ pipe.at \in Built /\ pipe'.at \in Built
           \/ pipe.at \in Verified /\ pipe'.at \in Verified
    PROVE  ContentInv'
  BY DEF ContentInv, Built, Verified, LateSteps

LEMMA EndedContentKept ==
    ASSUME ContentInv, UNCHANGED image, row'.ref = row.ref,
           pipe'.at \in {"idle", "claimed", "clone", "checkout"}
    PROVE  ContentInv'
  BY DEF ContentInv, Built, Verified, LateSteps

LEMMA ContentKept ==
    ASSUME Typed, ContentInv, WorkloadNext
    PROVE  ContentInv'
<1>0. row \in Rows /\ pipe \in Pipes /\ image \in Images /\ PipeTyped
  BY DEF Typed, RowTyped, PipeTyped, ImageTyped
<1>1. CASE PipelineClaims \/ CloneBegins \/ CloneSucceeds \/ BecomesRunning \/ FailureRecorded
           \/ Abandons \/ PipelineCrashes
  <2>1. UNCHANGED image /\ row'.ref = row.ref
    BY <1>0, <1>1
    DEF PipelineClaims, CloneBegins, CloneSucceeds, BecomesRunning, FailureRecorded, Abandons,
        PipelineCrashes, Begins, Rows
  <2>2. pipe'.at \in {"idle", "claimed", "clone", "checkout"}
    BY <1>0, <1>1, MoveFields
    DEF PipelineClaims, CloneBegins, CloneSucceeds, BecomesRunning, FailureRecorded, Abandons,
        PipelineCrashes, Begins, NoPipe, PipeSteps
  <2>3. QED
    BY <2>1, <2>2, EndedContentKept
<1>2. CASE CloneFails
  <2>1. UNCHANGED image /\ row'.ref = row.ref /\ pipe'.at \in {"clone", "failing"}
    BY <1>0, <1>2, MoveFields DEF CloneFails
  <2>2. QED
    BY <2>1 DEF ContentInv, Built, Verified, LateSteps
<1>3. CASE Checkout
  <2>1. /\ UNCHANGED image /\ repo' = "commit" /\ row'.ref = row.ref /\ pipe'.at = "build"
    BY <1>0, <1>3, MoveFields DEF Checkout, Begins, Rows, PipeSteps
  <2>2. QED
    BY <2>1 DEF ContentInv, Built, Verified, LateSteps
<1>4. CASE BuildImage
  <2>1. /\ image' = [image EXCEPT !.local = "commit"]
        /\ row'.ref = IF pipe.cfg.registry THEN "tag" ELSE "local"
        /\ pipe'.at \in {"tests", "tag"} /\ pipe'.cfg = pipe.cfg
    BY <1>0, <1>4, MoveFields DEF BuildImage, Rows, PipeSteps, ContentInv
  <2>2. QED
    BY <1>0, <2>1 DEF ContentInv, Built, Verified, LateSteps, Images
<1>5. CASE PushSucceeds
  <2>0. pipe.at = "push" /\ pipe'.at = "verify" /\ pipe'.cfg = pipe.cfg
    BY <1>0, <1>5, MoveFields DEF PushSucceeds, PipeSteps
  <2>1. CASE pipe.cfg.registry
    <3>1. image' = Uploaded /\ row'.ref = "digest"
      BY <1>0, <1>5, <2>1 DEF PushSucceeds, Rows
    <3>2. image'.local = image.local /\ image'.digest = image.local
      BY <1>0, <3>1 DEF Uploaded, Images
    <3>3. QED
      BY <2>0, <2>1, <3>1, <3>2 DEF ContentInv, Built, Verified, LateSteps
  <2>2. CASE ~pipe.cfg.registry
    <3>1. UNCHANGED <<image, repo>> /\ row'.ref = row.ref
      BY <1>0, <1>5, <2>2 DEF PushSucceeds, Rows
    <3>2. QED
      BY <2>0, <3>1, SameContentKept DEF Built
  <2>3. QED
    BY <2>1, <2>2
<1>6. CASE PushFails
  <2>1. /\ pipe.at = "push" /\ pipe'.at \in {"push", "failing"} /\ pipe'.cfg = pipe.cfg
        /\ row' = row /\ image' \in {image, Uploaded}
    BY <1>0, <1>6, MoveFields DEF PushFails
  <2>2. image'.local = image.local /\ image'.digest \in {image.digest, image.local}
    BY <1>0, <2>1 DEF Uploaded, Images
  <2>3. QED
    BY <2>1, <2>2 DEF ContentInv, Built, Verified, LateSteps
<1>7. CASE Retagged
  <2>1. image'.local = image.local /\ image'.digest = image.digest /\ UNCHANGED <<row, pipe, repo>>
    BY <1>0, <1>7 DEF Retagged, Images
  <2>2. QED
    BY <2>1 DEF ContentInv
<1>8. CASE VerifyImage
  <2>1. /\ UNCHANGED <<image, repo>> /\ row'.ref = row.ref /\ pipe.at = "verify"
        /\ pipe'.at = "target" /\ pipe'.cfg = pipe.cfg
    BY <1>0, <1>8, MoveFields DEF VerifyImage, Begins, Rows, PipeSteps
  <2>2. pipe.cfg.registry => row.ref = "digest"
    BY <1>8 DEF VerifyImage
  <2>3. QED
    BY <2>1, <2>2 DEF ContentInv, Built, Verified, LateSteps
<1>9. CASE TestsPass \/ TagImage \/ StepFailsOnce
  <2>1. UNCHANGED <<image, repo>> /\ row'.ref = row.ref
    BY <1>0, <1>9 DEF TestsPass, TagImage, StepFailsOnce, Begins, Rows
  <2>2. /\ pipe'.cfg = pipe.cfg
        /\ \/ pipe'.at = pipe.at \/ pipe'.at = "failing"
           \/ pipe.at \in Built /\ pipe'.at \in Built
    BY <1>0, <1>9, MoveFields DEF TestsPass, TagImage, StepFailsOnce, Begins, Built, PipeSteps
  <2>3. QED
    BY <2>1, <2>2, SameContentKept
<1>10. CASE RecordTarget \/ ReplaceContainer \/ ApplyManifest
  <2>1. UNCHANGED <<image, repo>> /\ row'.ref = row.ref
    BY <1>0, <1>10 DEF RecordTarget, ReplaceContainer, ApplyManifest, Identified, Rows
  <2>2. pipe'.cfg = pipe.cfg /\ pipe.at \in Verified /\ pipe'.at \in Verified
    BY <1>0, <1>10, MoveFields
    DEF RecordTarget, ReplaceContainer, ApplyManifest, Verified, LateSteps, PipeSteps, Pipes
  <2>3. QED
    BY <2>1, <2>2, SameContentKept
<1>11. CASE \/ PreflightPasses \/ RunContainer \/ PortTaken \/ DeployCommandFails
            \/ RolloutCompletes \/ RolloutFails \/ HealthPasses \/ HealthFails
  <2>1. UNCHANGED <<image, repo>> /\ row'.ref = row.ref
    BY <1>11
    DEF PreflightPasses, RunContainer, PortTaken, DeployCommandFails, RolloutCompletes,
        RolloutFails, HealthPasses, HealthFails
  <2>2. /\ pipe'.cfg = pipe.cfg
        /\ \/ pipe'.at = pipe.at \/ pipe'.at = "failing"
           \/ pipe.at \in Verified /\ pipe'.at \in Verified
    BY <1>0, <1>11, MoveFields
    DEF PreflightPasses, RunContainer, PortTaken, DeployCommandFails, RolloutCompletes,
        RolloutFails, HealthPasses, HealthFails, Verified, LateSteps, PipeSteps
  <2>3. QED
    BY <2>1, <2>2, SameContentKept
<1>12. CASE CommandStep \/ WatchStep \/ (Outside /\ ~PipelineCrashes /\ ~Retagged)
  <2>1. UNCHANGED <<image, repo, pipe>> /\ row'.ref = row.ref
    BY <1>0, <1>12
    DEF CommandStep, CommandRequested, CommandClaimed, CommandRemoves, CommandFailsToRemove,
        CommandSucceeded, CommandInterrupted, WatchStep, StaleClaimRecovered, WatchStarts,
        WatchLooks, WatchBreaksOff, WatchDemotes, WatchCleans, Outside, PipelineStalls,
        LateEffect, Reconfigure, Vanishes, OutageBegins, OutageEnds, Rows
  <2>2. QED
    BY <2>1, SameContentKept
<1>13. QED
  BY <1>1, <1>2, <1>3, <1>4, <1>5, <1>6, <1>7, <1>8, <1>9, <1>10, <1>11, <1>12
  DEF WorkloadNext, WorkloadStep, Outside


-----------------------------------------------------------------------------
(* What the reconciler has read *)

Over == {"failed", "stopped"}

WatchInv ==
    /\ watch.at = "looking" => watch.status \in Over \cup {"running"}
    /\ watch.at = "cleaning" => watch.status \in Over
    /\ watch.at # "idle" /\ watch.status \in Over => row.status \in Over

\* What is over stays so.
LEMMA OverStays ==
    ASSUME Typed, WorkloadNext, row.status \in Over
    PROVE  row'.status \in Over
<1>0. row \in Rows
  BY DEF Typed, RowTyped
<1>a. \A s \in Statuses : s \notin Over => ~CanTransition(row.status, s)
  BY DEF Over, Statuses, CanTransition, StatusEdge
<1>1. CASE WorkloadStep
  <2>1. CASE CloneBegins \/ Checkout \/ TestsPass \/ VerifyImage \/ BuildImage \/ BecomesRunning
    BY <1>a, <2>1
    DEF CloneBegins, Checkout, TestsPass, VerifyImage, BuildImage, BecomesRunning, Begins, Over, Statuses
  <2>2. CASE PushSucceeds \/ RecordTarget \/ FailureRecorded
    BY <1>0, <2>2 DEF PushSucceeds, RecordTarget, FailureRecorded, Identified, Rows, Over
  <2>3. QED
    BY <1>1, <2>1, <2>2
    DEF WorkloadStep, PipelineClaims, CloneSucceeds, CloneFails, TagImage, PushFails,
        StepFailsOnce, PreflightPasses, ReplaceContainer, RunContainer, PortTaken,
        DeployCommandFails, ApplyManifest, RolloutCompletes, RolloutFails, HealthPasses,
        HealthFails, Abandons
<1>2. CASE CommandStep \/ WatchStep
  BY <1>0, <1>2
  DEF CommandStep, CommandRequested, CommandClaimed, CommandRemoves, CommandFailsToRemove,
      CommandSucceeded, CommandInterrupted, WatchStep, StaleClaimRecovered, WatchStarts,
      WatchLooks, WatchBreaksOff, WatchDemotes, WatchCleans, Rows, Over, InProgress
<1>3. CASE Outside
  BY <1>3
  DEF Outside, PipelineCrashes, PipelineStalls, LateEffect, Reconfigure, Retagged, Vanishes,
      OutageBegins, OutageEnds
<1>4. QED
  BY <1>1, <1>2, <1>3 DEF WorkloadNext

LEMMA WatchInvKept ==
    ASSUME Typed, WatchInv, WorkloadNext
    PROVE  WatchInv'
<1>0. watch \in Watches
  BY DEF Typed, WatchTyped
<1>a. row.status \in Over => row'.status \in Over
  BY OverStays
<1>1. CASE WatchStarts
  <2>1. /\ watch'.at = "looking" /\ watch'.status = row.status /\ UNCHANGED row
        /\ row.status \in Over \cup {"running"}
    BY <1>1 DEF WatchStarts, Over
  <2>2. QED
    BY <2>1 DEF WatchInv, Over
<1>2. CASE WatchLooks
  <2>1. /\ watch.at = "looking" /\ UNCHANGED row
        /\ \/ watch' = [watch EXCEPT !.at = "demoting"]
           \/ watch' = [watch EXCEPT !.at = "cleaning"] /\ watch.status # "running"
           \/ watch' = NotWatching
    BY <1>2 DEF WatchLooks, Leftover
  <2>2. QED
    BY <1>0, <2>1 DEF WatchInv, Watches, NotWatching, Over
<1>3. CASE WatchBreaksOff \/ WatchDemotes \/ WatchCleans
  BY <1>3 DEF WatchBreaksOff, WatchDemotes, WatchCleans, NotWatching, WatchInv
<1>4. CASE StaleClaimRecovered \/ WorkloadStep \/ CommandStep \/ Outside
  <2>1. UNCHANGED watch
    BY <1>4
    DEF WorkloadStep, PipelineClaims, CloneBegins, CloneSucceeds, CloneFails, Checkout,
        BuildImage, TestsPass, TagImage, PushSucceeds, PushFails, VerifyImage, StepFailsOnce,
        RecordTarget, PreflightPasses, ReplaceContainer, RunContainer, PortTaken,
        DeployCommandFails, ApplyManifest, RolloutCompletes, RolloutFails, HealthPasses,
        HealthFails, BecomesRunning, FailureRecorded, Abandons, CommandStep, CommandRequested,
        CommandClaimed, CommandRemoves, CommandFailsToRemove, CommandSucceeded,
        CommandInterrupted, Outside, PipelineCrashes, PipelineStalls, LateEffect, Reconfigure,
        Retagged, Vanishes, OutageBegins, OutageEnds, StaleClaimRecovered
  <2>2. QED
    BY <1>a, <2>1 DEF WatchInv
<1>5. QED
  BY <1>1, <1>2, <1>3, <1>4 DEF WorkloadNext, WatchStep

-----------------------------------------------------------------------------
(* The invariant *)

WorkloadInv ==
    /\ Typed /\ OrderInv /\ ContentInv /\ WatchInv
    /\ InstalledIsLocated /\ ServesWhatWasBuilt

LEMMA InstalledKept ==
    ASSUME WorkloadInv, WorkloadNext
    PROVE  InstalledIsLocated'
<1>0. /\ Typed /\ OrderInv
      /\ \A p \in Places : runtime[p].parts # {} => Home = p
      /\ loose # Nowhere => Home = loose.place
  BY DEF WorkloadInv, InstalledIsLocated, Home
<1>1. SUFFICES /\ \A p \in Places : runtime'[p].parts # {} => Home' = p
               /\ loose' # Nowhere => Home' = loose'.place
  BY DEF InstalledIsLocated, Home
<1>2. loose # Nowhere => loose.place \in Places
  BY <1>0 DEF Typed, RuntimeTyped, Effects
<1>3. CASE Home \notin Places /\ UNCHANGED <<runtime, loose>>
  BY <1>0, <1>2, <1>3
<1>4. CASE Home' = Home
  <2>1. pipe.at \in {"run", "apply"} => Home = Here
    BY <1>0 DEF OrderInv, RecordedOnce, LateSteps
  <2>2. CASE Puts
    BY <1>0, <1>4, <2>1, <2>2 DEF Puts, Spreads
  <2>3. CASE Lets
    BY <1>0, <1>4, <2>1, <2>3 DEF Lets, Shrinks
  <2>4. CASE Quiet
    BY <1>0, <1>4, <2>4 DEF Quiet, Shrinks
  <2>5. CASE Late
    BY <1>0, <1>4, <2>5 DEF Late, Spreads
  <2>6. QED
    BY <1>0, <2>2, <2>3, <2>4, <2>5, RuntimeSteps
<1>5. QED
  BY <1>0, <1>3, <1>4, OrderKept

LEMMA ServesKept ==
    ASSUME WorkloadInv, WorkloadNext
    PROVE  ServesWhatWasBuilt'
<1>0. /\ Typed /\ ContentInv
      /\ \A p \in Places : runtime[p].runs \in {"nothing", "commit"}
      /\ loose # Nowhere => loose.runs = "commit"
  BY DEF WorkloadInv, ServesWhatWasBuilt
<1>1. pipe.at \in {"run", "apply"} => ImageToRun = "commit"
  BY <1>0, RunsTheCommit
<1>2. CASE Puts
  BY <1>0, <1>1, <1>2 DEF Puts, Spreads, ServesWhatWasBuilt
<1>3. CASE Lets
  BY <1>0, <1>1, <1>3 DEF Lets, Shrinks, ServesWhatWasBuilt
<1>4. CASE Quiet
  BY <1>0, <1>4 DEF Quiet, Shrinks, ServesWhatWasBuilt
<1>5. CASE Late
  BY <1>0, <1>5 DEF Late, Spreads, ServesWhatWasBuilt
<1>6. QED
  BY <1>0, <1>2, <1>3, <1>4, <1>5, RuntimeSteps

LEMMA WorkloadInvAlways == WorkloadSpec => []WorkloadInv
<1>1. WorkloadInit => WorkloadInv
  <2> SUFFICES ASSUME WorkloadInit PROVE WorkloadInv
    OBVIOUS
  <2>1. Typed
    BY InitTyped
  <2>2. /\ row.status = "pending" /\ row.target = Nowhere /\ row.namespace = Nowhere
        /\ row.ref = "none" /\ command.at = "none" /\ pipe.at = "idle" /\ watch.at = "idle"
        /\ loose = Nowhere
        /\ \A p \in Places : runtime[p].parts = {} /\ runtime[p].runs = "nothing"
    BY DEF WorkloadInit, NoCommand, NoPipe, NotWatching, NoWorkload
  <2>3. OrderInv
    BY <2>2 DEF OrderInv, RecordedOnce, LooksAtHome, Apart, Working, EarlySteps, LateSteps
  <2>4. ContentInv /\ WatchInv
    BY <2>2 DEF ContentInv, Built, Verified, LateSteps, WatchInv
  <2>5. InstalledIsLocated /\ ServesWhatWasBuilt
    BY <2>2 DEF InstalledIsLocated, ServesWhatWasBuilt
  <2>6. QED
    BY <2>1, <2>3, <2>4, <2>5 DEF WorkloadInv
<1>2. ASSUME WorkloadInv, WorkloadNext PROVE WorkloadInv'
  <2>1. Typed /\ OrderInv /\ ContentInv /\ WatchInv
    BY <1>2 DEF WorkloadInv
  <2>2. Typed' /\ OrderInv' /\ ContentInv' /\ WatchInv'
    BY <1>2, <2>1, TypedKept, OrderKept, ContentKept, WatchInvKept
  <2>3. InstalledIsLocated' /\ ServesWhatWasBuilt'
    BY <1>2, InstalledKept, ServesKept
  <2>4. QED
    BY <2>2, <2>3 DEF WorkloadInv
<1>3. ASSUME WorkloadInv, UNCHANGED workloadVars PROVE WorkloadInv'
  <2>1. Typed'
    BY <1>3, TypedKept DEF WorkloadInv
  <2>2. OrderInv' /\ ContentInv' /\ WatchInv'
    BY <1>3
    DEF WorkloadInv, workloadVars, OrderInv, RecordedOnce, LooksAtHome, Apart, Working, Home,
        Here, PlaceOf, ContentInv, WatchInv
  <2>3. InstalledIsLocated' /\ ServesWhatWasBuilt'
    BY <1>3 DEF WorkloadInv, workloadVars, InstalledIsLocated, ServesWhatWasBuilt, PlaceOf
  <2>4. QED
    BY <2>1, <2>2, <2>3 DEF WorkloadInv
<1>4. QED
  BY <1>1, <1>2, <1>3, PTL DEF WorkloadSpec

-----------------------------------------------------------------------------
(* Theorems *)

\* Rows, processes and runtimes keep the shapes of WorkloadTypeOK.
THEOREM TypeCorrect == WorkloadSpec => []WorkloadTypeOK
<1>1. WorkloadInv => WorkloadTypeOK
  BY TypedIsTypeOK DEF WorkloadInv
<1>2. QED
  BY <1>1, WorkloadInvAlways, PTL

\* Whatever an attempt has put into a runtime, also by a command that outlived
\* its worker, is where persist_kubernetes_runtime_identity and _mark_step have
\* recorded it, however often the configuration changes.
THEOREM InstalledIsLocatedAlways == WorkloadSpec => []InstalledIsLocated
<1>1. WorkloadInv => InstalledIsLocated
  BY DEF WorkloadInv
<1>2. QED
  BY <1>1, WorkloadInvAlways, PTL

\* A runtime only ever gets the image that was built from the requested commit,
\* whatever happens to branches and tags meanwhile.
THEOREM ServesWhatWasBuiltAlways == WorkloadSpec => []ServesWhatWasBuilt
<1>1. WorkloadInv => ServesWhatWasBuilt
  BY DEF WorkloadInv
<1>2. QED
  BY <1>1, WorkloadInvAlways, PTL

\* The reconciler that has found leftovers is about to remove what a failed or
\* stopped deployment left, however long ago it read the row.
THEOREM CleansOnlyEndedAlways == WorkloadSpec => []CleansOnlyEnded
<1>1. WorkloadInv => CleansOnlyEnded
  BY DEF WorkloadInv, WatchInv, CleansOnlyEnded, Over
<1>2. QED
  BY <1>1, WorkloadInvAlways, PTL

\* A stop or cleanup that reports success has removed all that the attempt had
\* in any runtime, whatever the configuration of the worker that ran it.
THEOREM StopFindsItAlways == WorkloadSpec => StopFindsIt
<1>1. ASSUME WorkloadInv, WorkloadNext, command.at = "claimed", command'.at = "removed"
      PROVE  \A p \in Places : runtime'[p].parts = {}
  <2>0. /\ Typed /\ OrderInv /\ command.place \in Places
        /\ \A p \in Places : runtime[p].parts # {} => Home = p
    BY <1>1 DEF WorkloadInv, InstalledIsLocated, Home, Typed, CommandTyped
  <2>1. CommandRemoves
    <3>1. command' # command
      BY <1>1
    <3>2. command' # NoCommand
      BY <1>1 DEF NoCommand
    <3>3. ~CommandClaimed /\ ~CommandRequested
      BY <1>1 DEF CommandClaimed, CommandRequested
    <3>4. ASSUME CommandInterrupted PROVE FALSE
      <4>1. command \in Commands
        BY <1>1 DEF WorkloadInv, Typed, CommandTyped
      <4>2. command'.at = "pending"
        BY <3>4, <4>1 DEF CommandInterrupted, Commands
      <4>3. QED
        BY <1>1, <4>2
    <3>5. QED
      BY <1>1, <3>1, <3>2, <3>3, <3>4
      DEF WorkloadNext, WorkloadStep, PipelineClaims, CloneBegins, CloneSucceeds, CloneFails,
          Checkout, BuildImage, TestsPass, TagImage, PushSucceeds, PushFails, VerifyImage,
          StepFailsOnce, RecordTarget, PreflightPasses, ReplaceContainer, RunContainer,
          PortTaken, DeployCommandFails, ApplyManifest, RolloutCompletes, RolloutFails,
          HealthPasses, HealthFails, BecomesRunning, FailureRecorded, Abandons, CommandStep,
          CommandFailsToRemove, CommandSucceeded, WatchStep, StaleClaimRecovered, WatchStarts,
          WatchLooks, WatchBreaksOff, WatchDemotes, WatchCleans, Outside, PipelineCrashes,
          PipelineStalls, LateEffect, Reconfigure, Retagged, Vanishes, OutageBegins, OutageEnds
  <2>2. PICK q \in Places : q = command.place
    BY <2>0
  <2>3. Shrinks /\ runtime'[q].parts = {}
    BY <2>0, <2>1, <2>2, RemovedShrinks DEF CommandRemoves
  <2>4. Home \in Places => Home = q
    BY <1>1, <2>0, <2>2 DEF OrderInv, LooksAtHome, Working
  <2>5. QED
    BY <2>0, <2>3, <2>4 DEF Shrinks
<1>2. WorkloadInv /\ [WorkloadNext]_workloadVars
        => [command.at = "claimed" /\ command'.at = "removed"
              => \A p \in Places : runtime'[p].parts = {}]_workloadVars
  BY <1>1
<1>3. QED
  BY <1>2, WorkloadInvAlways, PTL DEF WorkloadSpec, StopFindsIt

-----------------------------------------------------------------------------
(* Without outages *)

\* A row that changes its status is over, or belongs to a pipeline that goes on.
LEMMA StatusSteps ==
    ASSUME Typed, WorkloadNext
    PROVE  \/ row'.status = row.status
           \/ row'.status \in Over
           \/ /\ pipe.at \notin {"idle", "failing"}
              /\ row'.status \notin {"pending", "running"}
           \/ BecomesRunning
<1>0. row \in Rows
  BY DEF Typed, RowTyped
<1>1. CASE WorkloadStep
  <2>1. CASE CloneBegins \/ Checkout \/ TestsPass \/ VerifyImage \/ BuildImage
    BY <1>0, <2>1 DEF CloneBegins, Checkout, TestsPass, VerifyImage, BuildImage, Begins, Rows
  <2>2. CASE PushSucceeds \/ RecordTarget \/ FailureRecorded
    BY <1>0, <2>2 DEF PushSucceeds, RecordTarget, FailureRecorded, Identified, Rows, Over
  <2>3. QED
    BY <1>1, <2>1, <2>2
    DEF WorkloadStep, PipelineClaims, CloneSucceeds, CloneFails, TagImage, PushFails,
        StepFailsOnce, PreflightPasses, ReplaceContainer, RunContainer, PortTaken,
        DeployCommandFails, ApplyManifest, RolloutCompletes, RolloutFails, HealthPasses,
        HealthFails, Abandons
<1>2. CASE CommandStep \/ WatchStep
  BY <1>0, <1>2
  DEF CommandStep, CommandRequested, CommandClaimed, CommandRemoves, CommandFailsToRemove,
      CommandSucceeded, CommandInterrupted, WatchStep, StaleClaimRecovered, WatchStarts,
      WatchLooks, WatchBreaksOff, WatchDemotes, WatchCleans, Rows, Over, InProgress
<1>3. CASE Outside
  BY <1>3
  DEF Outside, PipelineCrashes, PipelineStalls, LateEffect, Reconfigure, Retagged, Vanishes,
      OutageBegins, OutageEnds
<1>4. QED
  BY <1>1, <1>2, <1>3 DEF WorkloadNext

\* A pipeline that is over, or about to record its failure, does not go on.
LEMMA OverForGood ==
    ASSUME Typed, WorkloadNext, pipe.at \in {"idle", "failing"}, row.status # "pending"
    PROVE  pipe'.at \in {"idle", "failing"}
<1>1. CASE WorkloadStep
  BY <1>1
  DEF WorkloadStep, PipelineClaims, CloneBegins, CloneSucceeds, CloneFails, Checkout,
      BuildImage, TestsPass, TagImage, PushSucceeds, PushFails, VerifyImage, StepFailsOnce,
      RecordTarget, PreflightPasses, ReplaceContainer, RunContainer, PortTaken,
      DeployCommandFails, ApplyManifest, RolloutCompletes, RolloutFails, HealthPasses,
      HealthFails, BecomesRunning, FailureRecorded, Abandons, NoPipe
<1>2. CASE CommandStep \/ WatchStep
  BY <1>2
  DEF CommandStep, CommandRequested, CommandClaimed, CommandRemoves, CommandFailsToRemove,
      CommandSucceeded, CommandInterrupted, WatchStep, StaleClaimRecovered, WatchStarts,
      WatchLooks, WatchBreaksOff, WatchDemotes, WatchCleans
<1>3. CASE Outside
  BY <1>3
  DEF Outside, PipelineCrashes, PipelineStalls, LateEffect, Reconfigure, Retagged, Vanishes,
      OutageBegins, OutageEnds, NoPipe
<1>4. QED
  BY <1>1, <1>2, <1>3 DEF WorkloadNext

\* Only a command whose pipeline ends with it can outlive it.
LEMMA Outlives ==
    ASSUME Typed, WorkloadNext, loose' # Nowhere, loose' # loose
    PROVE  /\ pipe.at \in {"run", "apply"} /\ pipe'.at \in {"idle", "failing"}
           /\ UNCHANGED row
<1>0. PipeTyped
  BY DEF Typed
<1>1. DeployCommandFails \/ Abandons \/ PipelineCrashes
  <2>1. CASE WorkloadStep
    BY <2>1
    DEF WorkloadStep, PipelineClaims, CloneBegins, CloneSucceeds, CloneFails, Checkout,
        BuildImage, TestsPass, TagImage, PushSucceeds, PushFails, VerifyImage, StepFailsOnce,
        RecordTarget, PreflightPasses, ReplaceContainer, RunContainer, PortTaken,
        ApplyManifest, RolloutCompletes, RolloutFails, HealthPasses, HealthFails,
        BecomesRunning, FailureRecorded
  <2>2. CASE CommandStep \/ WatchStep
    BY <2>2
    DEF CommandStep, CommandRequested, CommandClaimed, CommandRemoves, CommandFailsToRemove,
        CommandSucceeded, CommandInterrupted, WatchStep, StaleClaimRecovered, WatchStarts,
        WatchLooks, WatchBreaksOff, WatchDemotes, WatchCleans
  <2>3. CASE Outside
    BY <2>3
    DEF Outside, PipelineStalls, LateEffect, Reconfigure, Retagged, Vanishes, OutageBegins,
        OutageEnds
  <2>4. QED
    BY <2>1, <2>2, <2>3 DEF WorkloadNext
<1>2. MayOutlive /\ UNCHANGED row
  BY <1>1 DEF DeployCommandFails, Abandons, PipelineCrashes
<1>3. pipe'.at \in {"idle", "failing"}
  BY <1>0, <1>1, MoveFields DEF DeployCommandFails, Abandons, PipelineCrashes, NoPipe
<1>4. QED
  BY <1>2, <1>3 DEF MayOutlive

\* Without a pipeline none fails.
LEMMA IdleStays ==
    ASSUME Typed, WorkloadNext, pipe.at = "idle"
    PROVE  pipe'.at # "failing"
<1>1. CASE WorkloadStep
  BY <1>1
  DEF WorkloadStep, PipelineClaims, CloneBegins, CloneSucceeds, CloneFails, Checkout,
      BuildImage, TestsPass, TagImage, PushSucceeds, PushFails, VerifyImage, StepFailsOnce,
      RecordTarget, PreflightPasses, ReplaceContainer, RunContainer, PortTaken,
      DeployCommandFails, ApplyManifest, RolloutCompletes, RolloutFails, HealthPasses,
      HealthFails, BecomesRunning, FailureRecorded, Abandons
<1>2. CASE CommandStep \/ WatchStep
  BY <1>2
  DEF CommandStep, CommandRequested, CommandClaimed, CommandRemoves, CommandFailsToRemove,
      CommandSucceeded, CommandInterrupted, WatchStep, StaleClaimRecovered, WatchStarts,
      WatchLooks, WatchBreaksOff, WatchDemotes, WatchCleans
<1>3. CASE Outside
  BY <1>3
  DEF Outside, PipelineCrashes, PipelineStalls, LateEffect, Reconfigure, Retagged, Vanishes,
      OutageBegins, OutageEnds, NoPipe
<1>4. QED
  BY <1>1, <1>2, <1>3 DEF WorkloadNext

\* Nobody but the reconciler ends a deployment that runs as failed.
LEMMA DemotedByWatch ==
    ASSUME Typed, WorkloadNext, pipe.at = "idle", row.status = "running", row'.status = "failed"
    PROVE  WatchDemotes
<1>0. row \in Rows
  BY DEF Typed, RowTyped
<1>1. CASE WorkloadStep
  BY <1>1
  DEF WorkloadStep, PipelineClaims, CloneBegins, CloneSucceeds, CloneFails, Checkout,
      BuildImage, TestsPass, TagImage, PushSucceeds, PushFails, VerifyImage, StepFailsOnce,
      RecordTarget, PreflightPasses, ReplaceContainer, RunContainer, PortTaken,
      DeployCommandFails, ApplyManifest, RolloutCompletes, RolloutFails, HealthPasses,
      HealthFails, BecomesRunning, FailureRecorded, Abandons
<1>2. CASE CommandStep \/ WatchStep
  BY <1>0, <1>2
  DEF CommandStep, CommandRequested, CommandClaimed, CommandRemoves, CommandFailsToRemove,
      CommandSucceeded, CommandInterrupted, WatchStep, StaleClaimRecovered, WatchStarts,
      WatchLooks, WatchBreaksOff, WatchCleans, Rows, InProgress
<1>3. CASE Outside
  BY <1>3
  DEF Outside, PipelineCrashes, PipelineStalls, LateEffect, Reconfigure, Retagged, Vanishes,
      OutageBegins, OutageEnds
<1>4. QED
  BY <1>1, <1>2, <1>3 DEF WorkloadNext

\* What the reconciler has read of a running deployment...
Reads == watch.at # "idle" /\ watch.status = "running"

\* ... while the runtime always answers: nothing may still be put to work for a
\* deployment that runs, so that what was seen to be missing stays away.
SeenInv ==
    /\ reachable
    /\ loose # Nowhere => pipe.at \in {"idle", "failing"} /\ row.status \notin {"pending", "running"}
    /\ row.status = "running" => pipe.at = "idle" /\ Home \in Places
    /\ Reads => row.status \in Over \cup {"running"}
    /\ Reads /\ row.status = "running" => watch.place = Home
    /\ watch.at = "demoting" => Reads /\ (row.status = "running" => ~AllThere(Home))

LEMMA AnswersAlways ==
    ASSUME MaxOutages = 0, Typed, WorkloadNext, reachable
    PROVE  reachable'
<1>1. ~OutageBegins
  <2>1. budget.outages \in Nat
    BY DEF Typed, RestTyped, Budgets
  <2>2. ~(budget.outages < MaxOutages)
    BY <2>1
  <2>3. QED
    BY <2>2 DEF OutageBegins
<1>2. CASE WorkloadStep
  BY <1>2
  DEF WorkloadStep, PipelineClaims, CloneBegins, CloneSucceeds, CloneFails, Checkout,
      BuildImage, TestsPass, TagImage, PushSucceeds, PushFails, VerifyImage, StepFailsOnce,
      RecordTarget, PreflightPasses, ReplaceContainer, RunContainer, PortTaken,
      DeployCommandFails, ApplyManifest, RolloutCompletes, RolloutFails, HealthPasses,
      HealthFails, BecomesRunning, FailureRecorded, Abandons
<1>3. CASE CommandStep \/ WatchStep
  BY <1>3
  DEF CommandStep, CommandRequested, CommandClaimed, CommandRemoves, CommandFailsToRemove,
      CommandSucceeded, CommandInterrupted, WatchStep, StaleClaimRecovered, WatchStarts,
      WatchLooks, WatchBreaksOff, WatchDemotes, WatchCleans
<1>4. CASE Outside
  BY <1>1, <1>4
  DEF Outside, PipelineCrashes, PipelineStalls, LateEffect, Reconfigure, Retagged, Vanishes,
      OutageEnds
<1>5. QED
  BY <1>2, <1>3, <1>4 DEF WorkloadNext

\* How a deployment comes to run, and what it has then.
LEMMA RunsAtHome ==
    ASSUME Typed, OrderInv, BecomesRunning
    PROVE  /\ row.status \notin Over
           /\ pipe.at = "finish" /\ pipe'.at = "idle" /\ Home \in Places
           /\ UNCHANGED <<watch, loose>>
<1>1. /\ pipe.at = "finish" /\ pipe' = NoPipe /\ UNCHANGED <<watch, loose>>
      /\ CanTransition(row.status, "running")
  BY DEF BecomesRunning
<1>2. row.status \notin Over
  BY <1>1 DEF CanTransition, StatusEdge, Over
<1>3. Home = Here /\ Here \in Places
  BY <1>1, HereIsPlace DEF OrderInv, RecordedOnce, LateSteps
<1>4. QED
  BY <1>1, <1>2, <1>3 DEF NoPipe

\* The steps the reconciler's knowledge comes from.
LEMMA ReadsSteps ==
    ASSUME Typed, WorkloadNext
    PROVE  \/ UNCHANGED watch
           \/ watch'.at = "idle"
           \/ WatchStarts
           \/ WatchLooks
<1>1. CASE WatchStep
  BY <1>1
  DEF WatchStep, StaleClaimRecovered, WatchBreaksOff, WatchDemotes, WatchCleans, NotWatching
<1>2. CASE WorkloadStep
  BY <1>2
  DEF WorkloadStep, PipelineClaims, CloneBegins, CloneSucceeds, CloneFails, Checkout,
      BuildImage, TestsPass, TagImage, PushSucceeds, PushFails, VerifyImage, StepFailsOnce,
      RecordTarget, PreflightPasses, ReplaceContainer, RunContainer, PortTaken,
      DeployCommandFails, ApplyManifest, RolloutCompletes, RolloutFails, HealthPasses,
      HealthFails, BecomesRunning, FailureRecorded, Abandons
<1>3. CASE CommandStep \/ Outside
  BY <1>3
  DEF CommandStep, CommandRequested, CommandClaimed, CommandRemoves, CommandFailsToRemove,
      CommandSucceeded, CommandInterrupted, Outside, PipelineCrashes, PipelineStalls,
      LateEffect, Reconfigure, Retagged, Vanishes, OutageBegins, OutageEnds
<1>4. QED
  BY <1>1, <1>2, <1>3 DEF WorkloadNext

LEMMA SeenKept ==
    ASSUME MaxOutages = 0, WorkloadInv, SeenInv, WorkloadNext
    PROVE  SeenInv'
<1>0. /\ Typed /\ OrderInv /\ watch \in Watches
      /\ Typed' /\ OrderInv'
  BY TypedKept, OrderKept DEF WorkloadInv, Typed, WatchTyped
<1>1. reachable'
  BY <1>0, AnswersAlways DEF SeenInv
<1>2. (loose # Nowhere => pipe.at \in {"idle", "failing"} /\ row.status \notin {"pending", "running"})'
  <2>1. SUFFICES ASSUME loose' # Nowhere
                 PROVE  pipe'.at \in {"idle", "failing"} /\ row'.status \notin {"pending", "running"}
    OBVIOUS
  <2>2. CASE loose' = loose
    <3>1. pipe.at \in {"idle", "failing"} /\ row.status \notin {"pending", "running"}
      BY <2>1, <2>2 DEF SeenInv
    <3>2. pipe'.at \in {"idle", "failing"}
      BY <1>0, <3>1, OverForGood
    <3>3. row'.status \notin {"pending", "running"}
      BY <1>0, <3>1, StatusSteps, RunsAtHome DEF Over
    <3>4. QED
      BY <3>2, <3>3
  <2>3. CASE loose' # loose
    <3>1. pipe.at \in {"run", "apply"} /\ pipe'.at \in {"idle", "failing"} /\ UNCHANGED row
      BY <1>0, <2>1, <2>3, Outlives
    <3>2. row.status \notin {"pending", "running"}
      BY <1>0, <3>1 DEF OrderInv, Apart, SeenInv
    <3>3. QED
      BY <3>1, <3>2
  <2>4. QED
    BY <2>2, <2>3
<1>3. row.status = "running" =>
        /\ Home' = Home /\ Home \in Places /\ ~BecomesRunning
        /\ pipe.at = "idle" /\ pipe'.at = "idle"
        /\ row'.status \in Over \cup {"running"}
  <2>1. SUFFICES ASSUME row.status = "running"
                 PROVE  /\ Home' = Home /\ Home \in Places /\ ~BecomesRunning
                        /\ pipe.at = "idle" /\ pipe'.at = "idle"
                        /\ row'.status \in Over \cup {"running"}
    OBVIOUS
  <2>2. pipe.at = "idle" /\ Home \in Places
    BY <2>1 DEF SeenInv
  <2>3. Home' = Home
    BY <1>0, <2>2, OrderKept
  <2>4. ~BecomesRunning
    BY <1>0, <2>2, RunsAtHome
  <2>5. row'.status \in Over \cup {"running"}
    BY <1>0, <2>1, <2>2, <2>4, StatusSteps
  <2>6. pipe'.at = "idle"
    <3>1. pipe'.at # "failing"
      BY <1>0, <2>2, IdleStays
    <3>2. QED
      BY <1>0, <2>1, <2>2, <3>1, OverForGood
  <2>7. QED
    BY <2>2, <2>3, <2>4, <2>5, <2>6
<1>4. row'.status = "running" => row.status = "running" \/ BecomesRunning
  BY <1>0, StatusSteps DEF Over
<1>5. (row.status = "running" => pipe.at = "idle" /\ Home \in Places)'
  <2>1. CASE row.status = "running"
    BY <1>3, <2>1
  <2>2. CASE BecomesRunning
    <3>1. Home' = Home
      BY <1>0, <2>2, OrderKept, RunsAtHome
    <3>2. QED
      BY <1>0, <2>2, <3>1, RunsAtHome
  <2>3. QED
    BY <1>4, <2>1, <2>2
<1>6. (Reads => row.status \in Over \cup {"running"})'
  <2>1. row.status \in Over \cup {"running"} => row'.status \in Over \cup {"running"}
    BY <1>0, <1>3, OverStays
  <2>2. CASE UNCHANGED watch
    BY <2>1, <2>2 DEF SeenInv, Reads
  <2>3. CASE WatchStarts
    BY <1>0, <2>3 DEF WatchStarts, Reads, Over
  <2>4. CASE WatchLooks
    <3>1. Reads' => Reads
      BY <1>0, <2>4 DEF WatchLooks, Reads, Watches, NotWatching
    <3>2. QED
      BY <2>1, <3>1 DEF SeenInv
  <2>5. CASE watch'.at = "idle"
    BY <2>5 DEF Reads
  <2>6. QED
    BY <1>0, <2>2, <2>3, <2>4, <2>5, ReadsSteps
\* Somebody who has read that the deployment runs does not see it start to run.
<1>7. Reads /\ row'.status = "running" => row.status = "running" /\ Home' = Home
  <2>1. Reads => ~BecomesRunning
    BY <1>0, <1>3, RunsAtHome DEF SeenInv
  <2>2. QED
    BY <1>3, <1>4, <2>1
<1>8. (Reads /\ row.status = "running" => watch.place = Home)'
  <2>1. SUFFICES ASSUME Reads', row'.status = "running" PROVE watch'.place = Home'
    OBVIOUS
  <2>2. CASE UNCHANGED watch
    BY <1>7, <2>1, <2>2 DEF SeenInv, Reads
  <2>3. CASE WatchStarts
    <3>1. row.status = "running" /\ watch'.place = Located(row, config)
      BY <2>1, <2>3 DEF WatchStarts
    <3>2. QED
      BY <1>0, <1>3, <3>1, LocatedAtHome
  <2>4. CASE WatchLooks
    <3>1. Reads /\ watch'.place = watch.place
      BY <1>0, <2>1, <2>4 DEF WatchLooks, Reads, Watches, NotWatching
    <3>2. QED
      BY <1>7, <2>1, <3>1 DEF SeenInv
  <2>5. QED
    BY <1>0, <2>1, <2>2, <2>3, <2>4, ReadsSteps DEF Reads
<1>9. (watch.at = "demoting" => Reads /\ (row.status = "running" => ~AllThere(Home)))'
  <2>1. SUFFICES ASSUME watch'.at = "demoting"
                 PROVE  Reads' /\ (row'.status = "running" => ~AllThere(Home)')
    OBVIOUS
  <2>2. CASE UNCHANGED watch
    <3>1. Reads /\ Reads' /\ (row.status = "running" => ~AllThere(Home))
      BY <2>1, <2>2 DEF SeenInv, Reads
    <3>2. ASSUME row'.status = "running" PROVE ~AllThere(Home)'
      <4>1. row.status = "running" /\ Home' = Home /\ Home \in Places
        BY <1>3, <1>7, <3>1, <3>2
      <4>2. pipe.at = "idle" /\ loose = Nowhere
        BY <4>1 DEF SeenInv
      <4>3. Shrinks
        BY <1>0, <4>2, RuntimeSteps DEF Puts, Lets, Quiet, Late
      <4>4. runtime'[Home].parts \subseteq runtime[Home].parts
        BY <4>1, <4>3 DEF Shrinks
      <4>5. QED
        BY <3>1, <4>1, <4>4 DEF AllThere
    <3>3. QED
      BY <3>1, <3>2
  <2>3. CASE WatchStarts
    BY <2>1, <2>3 DEF WatchStarts
  <2>4. CASE WatchLooks
    <3>1. /\ watch.status = "running" /\ Missing /\ watch.at = "looking"
          /\ watch' = [watch EXCEPT !.at = "demoting"] /\ UNCHANGED <<row, runtime>>
      BY <1>0, <2>1, <2>4 DEF WatchLooks, Watches, NotWatching
    <3>2. Reads /\ Reads'
      BY <1>0, <3>1 DEF Reads, Watches
    <3>3. row.status = "running" => watch.place = Home /\ Home' = Home
      BY <1>3, <3>2 DEF SeenInv
    <3>4. row.status = "running" => ~AllThere(Home)
      BY <3>1, <3>3 DEF SeenInv, Missing, Required, Seen, AllThere
    <3>5. row.status = "running" => ~AllThere(Home)'
      BY <3>1, <3>3, <3>4 DEF AllThere
    <3>6. QED
      BY <3>1, <3>2, <3>5
  <2>5. QED
    BY <1>0, <2>1, <2>2, <2>3, <2>4, ReadsSteps
<1>10. QED
  BY <1>1, <1>2, <1>5, <1>6, <1>8, <1>9 DEF SeenInv

\* docs/deployment.md:64 holds as long as the runtime always answers: a running
\* deployment becomes failed only while a part of its workload is missing.  The
\* reconciler may act on what it saw long ago; nobody puts the part back.
THEOREM FailedOnlyIfMissingWithoutOutages ==
    ASSUME MaxOutages = 0
    PROVE  WorkloadSpec => FailedOnlyIfMissing
<1>1. WorkloadInit => SeenInv
  BY DEF WorkloadInit, SeenInv, Reads, NotWatching
<1>2. WorkloadInv /\ SeenInv /\ [WorkloadNext]_workloadVars => SeenInv'
  <2>1. ASSUME WorkloadInv, SeenInv, UNCHANGED workloadVars PROVE SeenInv'
    BY <2>1 DEF workloadVars, SeenInv, Reads, Home, PlaceOf, AllThere
  <2>2. QED
    BY <2>1, SeenKept
<1>3. ASSUME WorkloadInv, SeenInv, WorkloadNext, row.status = "running", row'.status = "failed"
      PROVE  ~AllThere(Home)
  <2>1. Typed /\ pipe.at = "idle" /\ row \in Rows
    BY <1>3 DEF WorkloadInv, SeenInv, Typed, RowTyped
  <2>2. WatchDemotes
    BY <1>3, <2>1, DemotedByWatch
  <2>3. QED
    BY <1>3, <2>2 DEF WatchDemotes, SeenInv
<1>4. WorkloadInv /\ SeenInv /\ [WorkloadNext]_workloadVars
        => [row.status = "running" /\ row'.status = "failed" => ~AllThere(Home)]_workloadVars
  BY <1>3
<1>5. QED
  BY <1>1, <1>2, <1>4, WorkloadInvAlways, PTL DEF WorkloadSpec, FailedOnlyIfMissing

=============================================================================
