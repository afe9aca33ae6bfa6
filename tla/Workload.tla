------------------------------ MODULE Workload ------------------------------
(***************************************************************************)
(* One deployment attempt and the workload it leaves in a runtime: source, *)
(* image, registry, a local container or the manifest resources of a       *)
(* Kubernetes namespace.  The pipeline makes the workload, stop and        *)
(* cleanup commands and the reconciler remove it, each with an executor it *)
(* builds for itself, while the platform's configuration may change.       *)
(*                                                                         *)
(* Names in a runtime belong to one attempt (_container_name,              *)
(* manifest_deployment_name), so one attempt is the whole story; the Helm  *)
(* release that attempts share is HelmRelease.  Claims are those of        *)
(* WorkQueue, seen from one deployment: free, kept alive, or dead.         *)
(***************************************************************************)
EXTENDS Naturals, Lifecycle

CONSTANTS
    Namespaces,     \* Kubernetes namespaces
    Configs,        \* configurations the platform's processes may start with
    RetryCount,     \* CONTROL_PLANE_COMMAND_RETRY_COUNT
    MaxReconfigs,   \* bound on changes of the configuration
    MaxLosses,      \* bound on crashed and stalled workers
    MaxOutages,     \* bound on outages of the runtime
    MaxVanished,    \* bound on removals by somebody else
    Nowhere         \* no namespace, no place, nothing under way

Targets == {"local-docker", "kubernetes"}

ASSUME WorkloadAssumption ==
    /\ Configs \subseteq [target : Targets, namespace : Namespaces, registry : BOOLEAN]
    /\ RetryCount \in Nat
    /\ {MaxReconfigs, MaxLosses, MaxOutages, MaxVanished} \subseteq Nat
    /\ Nowhere \notin Namespaces \cup Targets
    /\ "local-docker" \notin Namespaces

VARIABLES
    config,     \* the configuration a process started now has
    row,        \* the deployment's row, and its build's image columns
    claim,      \* the deployment's claim
    command,    \* the active command and where its executor works
    pipe,       \* the pipeline: next external call, its executor's settings, attempts left
    repo,       \* what is in the workspace's repository directory
    image,      \* what the attempt's tag names here, its tag and its digest in the registry
    runtime,    \* per place: the parts of the workload there, and what they run
    loose,      \* a command that outlived its worker and may still take effect
    watch,      \* the reconciler: what it read of the row, where it looks
    reachable,  \* does the runtime answer?
    budget

workloadVars == <<config, row, claim, command, pipe, repo, image, runtime,
                  loose, watch, reachable, budget>>

-----------------------------------------------------------------------------
(* Places, contents, rows *)

Places == {"local-docker"} \cup Namespaces

\* Source trees and images, by the revision they come from: the commit of the
\* request, wherever the branch is by now, or something foreign.
Contents == {"nothing", "commit", "branch", "foreign"}

NoWorkload == [parts |-> {}, runs |-> "nothing"]
ManifestParts == {"deployment", "service", "ingress"}
PartsAt(p) == IF p = "local-docker" THEN {"container"} ELSE ManifestParts

\* Where an executor works that was built for target t and namespace n.
PlaceOf(t, n) == IF t = "kubernetes" THEN n ELSE t

Slip_Configured(r, c) == PlaceOf(c.target, c.namespace)

\* create_executor_for_deployment: what the row recorded, and the configuration
\* only for what it did not.
Located(r, c) ==
    PlaceOf(IF r.target = Nowhere THEN c.target ELSE r.target,
            IF r.namespace = Nowhere THEN c.namespace ELSE r.namespace)

StopActive == command.at # "none" /\ command.type = "stop"
NoPipe == [at |-> "idle", cfg |-> Nowhere, left |-> 0]
NoCommand == [at |-> "none", type |-> "stop", place |-> Nowhere]
NotWatching == [at |-> "idle", status |-> "pending", place |-> Nowhere]

\* ensure_claim_owned before every write of the pipeline.
Proceeds == claim = "live" /\ ~StopActive

\* A command of a step is tried again, if the step is one of retryable_steps.
Attempts(step) == IF step \in {"clone", "build", "tests", "push", "verify"}
                  THEN 1 + RetryCount ELSE 1

Goto(step) == pipe' = [pipe EXCEPT !.at = step, !.left = Attempts(step)]
Slip_KeepTrying == pipe' = [pipe EXCEPT !.left = @ - 1]
TriesAgain == pipe.left > 1 /\ pipe' = [pipe EXCEPT !.left = @ - 1]
GivesUp == pipe' = [pipe EXCEPT !.at = "failing", !.left = 0]

Reduced(p, rest) ==
    runtime' = [runtime EXCEPT ![p] =
                   IF rest = {} THEN NoWorkload ELSE [parts |-> rest, runs |-> @.runs]]
Removed(p) == Reduced(p, {})

\* A removal that fails: a part of a manifest may be gone all the same.
RemovedInPart(p) ==
    IF reachable THEN \E rest \in SUBSET runtime[p].parts : Reduced(p, rest)
                 ELSE UNCHANGED runtime

-----------------------------------------------------------------------------
WorkloadInit ==
    /\ config \in Configs
    /\ row = [status |-> "pending", target |-> Nowhere, namespace |-> Nowhere,
              ref |-> "none", pushed |-> "none"]
    /\ claim = "free"
    /\ command = NoCommand
    /\ pipe = NoPipe
    /\ repo = "nothing"
    /\ image = [local |-> "nothing", tag |-> "nothing", digest |-> "nothing"]
    /\ runtime = [p \in Places |-> NoWorkload]
    /\ loose = Nowhere
    /\ watch = NotWatching
    /\ reachable = TRUE
    /\ budget = [configs |-> 0, losses |-> 0, outages |-> 0, vanished |-> 0]

-----------------------------------------------------------------------------
(* The pipeline: source and image *)

\* A worker takes the deployment, and builds its executor from the
\* configuration it runs with.
PipelineClaims ==
    /\ row.status = "pending" /\ claim # "live" /\ pipe = NoPipe
    /\ claim' = "live"
    /\ pipe' = [at |-> "claimed", cfg |-> config, left |-> 1]
    /\ UNCHANGED <<config, row, command, repo, image, runtime, loose, watch, reachable, budget>>

\* The next status is committed before the step's external call.
Begins(status, step) ==
    /\ Proceeds
    /\ CanTransition(row.status, status)
    /\ row' = [row EXCEPT !.status = status]
    /\ Goto(step)

\* clone_repo removes what an earlier attempt left, once, before git is tried.
CloneBegins ==
    /\ pipe.at = "claimed"
    /\ Begins("cloning", "clone")
    /\ repo' = "nothing"
    /\ UNCHANGED <<config, claim, command, image, runtime, loose, watch, reachable, budget>>

\* git clone refuses a directory that a killed attempt left filled.
CloneSucceeds ==
    /\ pipe.at = "clone" /\ repo = "nothing"
    /\ repo' = "branch"
    /\ Goto("checkout")
    /\ UNCHANGED <<config, row, claim, command, image, runtime, loose, watch, reachable, budget>>

\* A clone that fails removes its directory; one that is killed cannot.
CloneFails ==
    /\ pipe.at = "clone"
    /\ repo' \in {repo, "foreign"}
    /\ TriesAgain \/ GivesUp
    /\ UNCHANGED <<config, row, claim, command, image, runtime, loose, watch, reachable, budget>>

\* git checkout --detach of the commit the deployment was requested with.
Checkout ==
    /\ pipe.at = "checkout"
    /\ repo' = "commit"
    /\ Begins("building", "build")
    /\ UNCHANGED <<config, claim, command, image, runtime, loose, watch, reachable, budget>>

\* A fresh tag, so that nothing built earlier or beside it has the name.
BuildImage ==
    /\ pipe.at = "build"
    /\ image' = [image EXCEPT !.local = repo]
    /\ \/ /\ Proceeds
          /\ CanTransition(row.status, "testing")
          /\ row' = [row EXCEPT !.status = "testing", !.ref = IF pipe.cfg.registry THEN "tag" ELSE "local"]
          /\ Goto("tests")
       \/ /\ Proceeds
          /\ CanTransition(row.status, "pushing_image")
          /\ row' = [row EXCEPT !.status = "pushing_image", !.ref = IF pipe.cfg.registry THEN "tag" ELSE "local"]
          /\ Goto("tag")
    /\ UNCHANGED <<config, claim, command, repo, runtime, loose, watch, reachable, budget>>

TestsPass ==
    /\ pipe.at = "tests"
    /\ Begins("pushing_image", "tag")
    /\ UNCHANGED <<config, claim, command, repo, image, runtime, loose, watch, reachable, budget>>

TagImage ==
    /\ pipe.at = "tag" /\ Proceeds
    /\ Goto("push")
    /\ UNCHANGED <<config, row, claim, command, repo, image, runtime, loose, watch, reachable, budget>>

\* What docker push uploads, under the tag and under the digest it reports.
Uploaded == [image EXCEPT !.tag = image.local, !.digest = image.local]

\* The build's image_ref becomes the digest; without a registry it stays.
PushSucceeds ==
    /\ pipe.at = "push" /\ Proceeds
    /\ IF pipe.cfg.registry
       THEN /\ image' = Uploaded
            /\ row' = [row EXCEPT !.ref = "digest", !.pushed = "succeeded"]
       ELSE /\ row' = [row EXCEPT !.pushed = "skipped"]
            /\ UNCHANGED image
    /\ Goto("verify")
    /\ UNCHANGED <<config, claim, command, repo, runtime, loose, watch, reachable, budget>>

\* A push that fails, or reports no single digest, may have uploaded the image.
PushFails ==
    /\ pipe.at = "push" /\ pipe.cfg.registry
    /\ image' \in {image, Uploaded}
    /\ TriesAgain \/ GivesUp
    /\ UNCHANGED <<config, row, claim, command, repo, runtime, loose, watch, reachable, budget>>

\* With a registry, only a digest is accepted.
VerifyImage ==
    /\ pipe.at = "verify"
    /\ pipe.cfg.registry => row.ref = "digest"
    /\ Begins("deploying", "target")
    /\ UNCHANGED <<config, claim, command, repo, image, runtime, loose, watch, reachable, budget>>

\* Any other call of the pipeline that fails.
StepFailsOnce ==
    /\ pipe.at \in {"checkout", "build", "tests", "tag", "verify", "preflight"}
    /\ TriesAgain \/ GivesUp
    /\ UNCHANGED <<config, row, claim, command, repo, image, runtime, loose, watch, reachable, budget>>

-----------------------------------------------------------------------------
(* The pipeline: deployment *)

Slip_TargetOnly(r, c) == [r EXCEPT !.target = c.target]

\* persist_kubernetes_runtime_identity keeps what is recorded already.
Identified(r, c) ==
    [r EXCEPT !.target = c.target,
              !.namespace = IF c.target = "kubernetes" /\ @ = Nowhere THEN c.namespace ELSE @]

\* The runtime's identity is committed before the first effect on it.
RecordTarget ==
    /\ pipe.at = "target" /\ Proceeds
    /\ row' = Identified(row, pipe.cfg)
    /\ Goto("preflight")
    /\ UNCHANGED <<config, claim, command, repo, image, runtime, loose, watch, reachable, budget>>

\* preflight_deploy: Kubernetes wants an image pushed to a registry, and the
\* resources the workload refers to (their absence, or a cluster that does not
\* answer, is StepFailsOnce).  The cluster is not asked if there are none.
PreflightPasses ==
    /\ pipe.at = "preflight" /\ Proceeds
    /\ pipe.cfg.target = "kubernetes" =>
         /\ pipe.cfg.registry /\ row.pushed = "succeeded" /\ row.ref # "local"
    /\ Goto(IF pipe.cfg.target = "kubernetes" THEN "apply" ELSE "replace")
    /\ UNCHANGED <<config, row, claim, command, repo, image, runtime, loose, watch, reachable, budget>>

Here == PlaceOf(pipe.cfg.target, pipe.cfg.namespace)

Slip_RunTag == IF row.ref = "local" THEN image.local ELSE image.tag

\* The image a runtime gets when it is given the build's image_ref (a local
\* container without a registry is given image_tag).
ImageToRun == CASE row.ref = "digest" -> image.digest
                [] row.ref = "tag" -> image.tag
                [] OTHER -> image.local

\* A command that is killed, or loses its worker, may still take effect later.
MayOutlive ==
    loose' \in IF pipe.at \in {"run", "apply"}
               THEN {Nowhere, [place |-> Here, runs |-> ImageToRun]} ELSE {loose}

\* docker rm --force before docker run; its failure is ignored.
ReplaceContainer ==
    /\ pipe.at = "replace"
    /\ IF reachable THEN Removed(Here) ELSE UNCHANGED runtime
    /\ pipe' = [pipe EXCEPT !.at = "run", !.left = 3]
    /\ UNCHANGED <<config, row, claim, command, repo, image, loose, watch, reachable, budget>>

NameIsFree == runtime["local-docker"].parts = {}
Container == [parts |-> {"container"}, runs |-> ImageToRun]

RunContainer ==
    /\ pipe.at = "run" /\ reachable /\ NameIsFree
    /\ runtime' = [runtime EXCEPT ![Here] = Container]
    /\ Goto("health")
    /\ UNCHANGED <<config, row, claim, command, repo, image, loose, watch, reachable, budget>>

\* A port that was taken meanwhile leaves a container behind that never
\* started: removed before another port is tried, not after the third.
PortTaken ==
    /\ pipe.at = "run" /\ reachable /\ NameIsFree
    /\ \/ TriesAgain /\ UNCHANGED runtime
       \/ pipe.left = 1 /\ GivesUp /\ runtime' = [runtime EXCEPT ![Here] = Container]
    /\ UNCHANGED <<config, row, claim, command, repo, image, loose, watch, reachable, budget>>

\* Any other failure of docker run or kubectl apply, a timeout among them.  Of
\* a manifest, any part may have been applied.
DeployCommandFails ==
    /\ pipe.at \in {"run", "apply"}
    /\ GivesUp
    /\ \/ MayOutlive /\ UNCHANGED runtime
       \/ /\ pipe.at = "apply" /\ reachable
          /\ \E parts \in SUBSET ManifestParts \ {{}} :
                runtime' = [runtime EXCEPT ![Here] = [parts |-> parts, runs |-> ImageToRun]]
          /\ UNCHANGED loose
    /\ UNCHANGED <<config, row, claim, command, repo, image, watch, reachable, budget>>

\* The ingress is applied if the executor has ingress enabled.
ApplyManifest ==
    /\ pipe.at = "apply" /\ reachable
    /\ \E parts \in {ManifestParts, ManifestParts \ {"ingress"}} :
          runtime' = [runtime EXCEPT ![Here] = [parts |-> parts, runs |-> ImageToRun]]
    /\ pipe' = [pipe EXCEPT !.at = "rollout", !.left = 2]
    /\ UNCHANGED <<config, row, claim, command, repo, image, loose, watch, reachable, budget>>

RolloutCompletes ==
    /\ pipe.at = "rollout" /\ reachable /\ "deployment" \in runtime[Here].parts
    /\ Goto("health")
    /\ UNCHANGED <<config, row, claim, command, repo, image, runtime, loose, watch, reachable, budget>>

\* Only a rollout that timed out waiting is looked at once more.
RolloutFails ==
    /\ pipe.at = "rollout"
    /\ TriesAgain \/ GivesUp
    /\ UNCHANGED <<config, row, claim, command, repo, image, runtime, loose, watch, reachable, budget>>

HealthPasses ==
    /\ pipe.at = "health" /\ reachable /\ runtime[Here].parts # {}
    /\ Proceeds
    /\ Goto("finish")
    /\ UNCHANGED <<config, row, claim, command, repo, image, runtime, loose, watch, reachable, budget>>

\* An unhealthy container is removed at once, as far as that works; manifest
\* resources are left to the reconciler.
HealthFails ==
    /\ pipe.at = "health"
    /\ IF Here = "local-docker" /\ reachable THEN Removed(Here) ELSE UNCHANGED runtime
    /\ GivesUp
    /\ UNCHANGED <<config, row, claim, command, repo, image, loose, watch, reachable, budget>>

BecomesRunning ==
    /\ pipe.at = "finish" /\ Proceeds
    /\ CanTransition(row.status, "running")
    /\ row' = [row EXCEPT !.status = "running", !.target = pipe.cfg.target]
    /\ claim' = "free"
    /\ pipe' = NoPipe
    /\ UNCHANGED <<config, command, repo, image, runtime, loose, watch, reachable, budget>>

FailureRecorded ==
    /\ pipe.at = "failing" /\ Proceeds
    /\ CanTransition(row.status, "failed")
    /\ row' = [row EXCEPT !.status = "failed"]
    /\ claim' = "free"
    /\ pipe' = NoPipe
    /\ UNCHANGED <<config, command, repo, image, runtime, loose, watch, reachable, budget>>

\* ClaimLostError leaves the row alone, DeploymentCancellationRequested
\* releases the claim; either may come from a heartbeat and kill a command.
Abandons ==
    /\ pipe.at # "idle" /\ ~Proceeds
    /\ claim' = IF claim = "live" THEN "free" ELSE claim
    /\ pipe' = NoPipe
    /\ MayOutlive
    /\ UNCHANGED <<config, row, command, repo, image, runtime, watch, reachable, budget>>

-----------------------------------------------------------------------------
(* Lost workers, late effects, the world outside *)

\* The process dies; its child may not.  It also dies by itself when the
\* deployment was stopped between claim and first step: neither beginning nor
\* failing is legal then, and both raise.
PipelineCrashes ==
    /\ pipe.at # "idle"
    /\ \/ /\ budget.losses < MaxLosses
          /\ budget' = [budget EXCEPT !.losses = @ + 1]
       \/ /\ pipe.at = "claimed" /\ Proceeds /\ row.status # "pending"
          /\ UNCHANGED budget
    /\ claim' = "dead"
    /\ pipe' = NoPipe
    /\ MayOutlive
    /\ UNCHANGED <<config, row, command, repo, image, runtime, watch, reachable>>

\* A worker that stalls past the TTL goes on until it looks at its claim.
PipelineStalls ==
    /\ claim = "live" /\ budget.losses < MaxLosses
    /\ claim' = "dead"
    /\ budget' = [budget EXCEPT !.losses = @ + 1]
    /\ UNCHANGED <<config, row, command, pipe, repo, image, runtime, loose, watch, reachable>>

LateEffect ==
    /\ loose # Nowhere
    /\ loose' = Nowhere
    /\ \/ UNCHANGED runtime
       \/ /\ reachable
          /\ loose.place = "local-docker" => NameIsFree
          /\ runtime' = [runtime EXCEPT ![loose.place] =
                            [parts |-> PartsAt(loose.place), runs |-> loose.runs]]
    /\ UNCHANGED <<config, row, claim, command, pipe, repo, image, watch, reachable, budget>>

Reconfigure ==
    /\ budget.configs < MaxReconfigs
    /\ config' \in Configs \ {config}
    /\ budget' = [budget EXCEPT !.configs = @ + 1]
    /\ UNCHANGED <<row, claim, command, pipe, repo, image, runtime, loose, watch, reachable>>

\* Somebody pushes another image under the attempt's tag.
Retagged ==
    /\ image.tag \notin {"nothing", "foreign"}
    /\ image' = [image EXCEPT !.tag = "foreign"]
    /\ UNCHANGED <<config, row, claim, command, pipe, repo, runtime, loose, watch, reachable, budget>>

\* Somebody removes a part of the workload.
Vanishes ==
    /\ budget.vanished < MaxVanished
    /\ \E p \in Places : \E part \in runtime[p].parts : Reduced(p, runtime[p].parts \ {part})
    /\ budget' = [budget EXCEPT !.vanished = @ + 1]
    /\ UNCHANGED <<config, row, claim, command, pipe, repo, image, loose, watch, reachable>>

\* The Docker daemon or the API server does not answer.
OutageBegins ==
    /\ reachable /\ budget.outages < MaxOutages
    /\ reachable' = FALSE
    /\ budget' = [budget EXCEPT !.outages = @ + 1]
    /\ UNCHANGED <<config, row, claim, command, pipe, repo, image, runtime, loose, watch>>

OutageEnds ==
    /\ ~reachable
    /\ reachable' = TRUE
    /\ UNCHANGED <<config, row, claim, command, pipe, repo, image, runtime, loose, watch, budget>>

-----------------------------------------------------------------------------
(* Stop and cleanup commands *)

\* Stop is accepted in every status, cleanup on Kubernetes only.
CommandRequested ==
    /\ command.at = "none"
    /\ \E t \in {"stop", "cleanup"} :
          /\ t = "stop" => CanTransition(row.status, "stopped")
          /\ t = "cleanup" => row.target = "kubernetes"
          /\ command' = [at |-> "pending", type |-> t, place |-> Nowhere]
    /\ UNCHANGED <<config, row, claim, pipe, repo, image, runtime, loose, watch, reachable, budget>>

\* Not beside a pipeline whose claim is kept alive.
CommandClaimed ==
    /\ command.at = "pending" /\ claim # "live"
    /\ command' = [command EXCEPT !.at = "claimed", !.place = Located(row, config)]
    /\ UNCHANGED <<config, row, claim, pipe, repo, image, runtime, loose, watch, reachable, budget>>

\* executor.stop: docker rm --force, or kubectl delete of all three kinds.
CommandRemoves ==
    /\ command.at = "claimed" /\ reachable
    /\ Removed(command.place)
    /\ command' = [command EXCEPT !.at = "removed"]
    /\ UNCHANGED <<config, row, claim, pipe, repo, image, loose, watch, reachable, budget>>

CommandFailsToRemove ==
    /\ command.at = "claimed"
    /\ RemovedInPart(command.place)
    /\ command' = NoCommand
    /\ UNCHANGED <<config, row, claim, pipe, repo, image, loose, watch, reachable, budget>>

\* The executor's target is written over the row's.
CommandSucceeded ==
    /\ command.at = "removed"
    /\ CanTransition(row.status, "stopped")
    /\ row' = [row EXCEPT !.status = "stopped",
                          !.target = IF command.place = "local-docker" THEN "local-docker"
                                                                       ELSE "kubernetes"]
    /\ command' = NoCommand
    /\ UNCHANGED <<config, claim, pipe, repo, image, runtime, loose, watch, reachable, budget>>

\* The worker dies; the command is taken again when its claim is stale.
CommandInterrupted ==
    /\ command.at \in {"claimed", "removed"} /\ budget.losses < MaxLosses
    /\ command' = [command EXCEPT !.at = "pending", !.place = Nowhere]
    /\ budget' = [budget EXCEPT !.losses = @ + 1]
    /\ UNCHANGED <<config, row, claim, pipe, repo, image, runtime, loose, watch, reachable>>

-----------------------------------------------------------------------------
(* The reconciler *)

\* reconcile_stale_claim
StaleClaimRecovered ==
    /\ claim = "dead" /\ watch.at = "idle"
    /\ claim' = "free"
    /\ row' = [row EXCEPT !.status = IF @ \in InProgress THEN "failed" ELSE @]
    /\ UNCHANGED <<config, command, pipe, repo, image, runtime, loose, watch, reachable, budget>>

\* The handlers' guards: a running workload is looked for wherever it runs;
\* what a failed attempt left is looked for too, what a stopped one left on
\* Kubernetes only.
WatchStarts ==
    /\ watch.at = "idle"
    /\ \/ row.status = "running"
       \/ row.status = "failed" /\ row.target # Nowhere
       \/ row.status = "stopped" /\ row.target = "kubernetes"
    /\ watch' = [at |-> "looking", status |-> row.status, place |-> Located(row, config)]
    /\ UNCHANGED <<config, row, claim, command, pipe, repo, image, runtime, loose, reachable, budget>>

\* container_exists and _kubectl_resource_exists: an exit status other than 0
\* means absent.
Seen == IF reachable THEN runtime[watch.place].parts ELSE {}
Required == IF watch.place = "local-docker" THEN {"container"} ELSE {"deployment", "service"}
Slip_AllGone == Seen = {}
Missing == ~(Required \subseteq Seen)

Slip_WholeOnly == watch.status # "running" /\ Seen = PartsAt(watch.place)
Slip_AnyRow == Seen # {}
Leftover == watch.status # "running" /\ Seen # {}

WatchLooks ==
    /\ watch.at = "looking"
    /\ watch' = CASE watch.status = "running" /\ Missing -> [watch EXCEPT !.at = "demoting"]
                  [] Leftover -> [watch EXCEPT !.at = "cleaning"]
                  [] OTHER -> NotWatching
    /\ UNCHANGED <<config, row, claim, command, pipe, repo, image, runtime, loose, reachable, budget>>

\* A command that times out while looking, and the end of the process, leave
\* everything as it is.
WatchBreaksOff ==
    /\ watch.at # "idle" /\ (~reachable \/ budget.losses < MaxLosses)
    /\ watch' = NotWatching
    /\ budget' = IF reachable THEN [budget EXCEPT !.losses = @ + 1] ELSE budget
    /\ UNCHANGED <<config, row, claim, command, pipe, repo, image, runtime, loose, reachable>>

\* The transition is checked against the status that was read, and written by
\* primary key.
WatchDemotes ==
    /\ watch.at = "demoting"
    /\ row' = [row EXCEPT !.status = "failed"]
    /\ watch' = NotWatching
    /\ UNCHANGED <<config, claim, command, pipe, repo, image, runtime, loose, reachable, budget>>

WatchCleans ==
    /\ watch.at = "cleaning"
    /\ \/ reachable /\ Removed(watch.place)
       \/ ~reachable /\ UNCHANGED runtime
    /\ watch' = NotWatching
    /\ UNCHANGED <<config, row, claim, command, pipe, repo, image, loose, reachable, budget>>

-----------------------------------------------------------------------------
(* Specification *)

WorkloadStep ==
    \/ PipelineClaims \/ CloneBegins \/ CloneSucceeds \/ CloneFails \/ Checkout
    \/ BuildImage \/ TestsPass \/ TagImage \/ PushSucceeds \/ PushFails \/ VerifyImage
    \/ StepFailsOnce \/ RecordTarget \/ PreflightPasses
    \/ ReplaceContainer \/ RunContainer \/ PortTaken \/ DeployCommandFails
    \/ ApplyManifest \/ RolloutCompletes \/ RolloutFails \/ HealthPasses \/ HealthFails
    \/ BecomesRunning \/ FailureRecorded \/ Abandons

CommandStep ==
    \/ CommandRequested \/ CommandClaimed \/ CommandRemoves \/ CommandFailsToRemove
    \/ CommandSucceeded \/ CommandInterrupted

WatchStep == \/ StaleClaimRecovered \/ WatchStarts \/ WatchLooks \/ WatchBreaksOff
             \/ WatchDemotes \/ WatchCleans

Outside == \/ PipelineCrashes \/ PipelineStalls \/ LateEffect \/ Reconfigure \/ Retagged
           \/ Vanishes \/ OutageBegins \/ OutageEnds

WorkloadNext == WorkloadStep \/ CommandStep \/ WatchStep \/ Outside

\* The reconciler's process runs, an abandoned command ends one way or the
\* other, an outage is over some day.  Nobody has to make a request.
WatchSteps == WatchStarts \/ WatchLooks \/ WatchDemotes \/ WatchCleans

WorkloadSpec ==
    /\ WorkloadInit /\ [][WorkloadNext]_workloadVars
    /\ WF_workloadVars(WatchSteps)
    /\ WF_workloadVars(LateEffect)
    /\ WF_workloadVars(OutageEnds)

-----------------------------------------------------------------------------
(* Properties *)

Effects == [place : Places, runs : Contents]
PipeSteps == {"idle", "claimed", "clone", "checkout", "build", "tests", "tag", "push", "verify",
              "target", "preflight", "replace", "run", "apply", "rollout", "health",
              "finish", "failing"}

\* Rows, processes and runtimes have the shapes described above.
WorkloadTypeOK ==
    /\ config \in Configs
    /\ row \in [status : Statuses, target : Targets \cup {Nowhere},
                namespace : Namespaces \cup {Nowhere},
                ref : {"none", "local", "tag", "digest"},
                pushed : {"none", "succeeded", "skipped"}]
    /\ claim \in {"free", "live", "dead"}
    /\ command \in [at : {"none", "pending", "claimed", "removed"},
                    type : {"stop", "cleanup"}, place : Places \cup {Nowhere}]
    /\ pipe \in [at : PipeSteps, cfg : Configs \cup {Nowhere}, left : Nat]
    /\ repo \in Contents
    /\ image \in [local : Contents, tag : Contents, digest : Contents]
    /\ runtime \in [Places -> [parts : SUBSET (ManifestParts \cup {"container"}), runs : Contents]]
    /\ loose \in Effects \cup {Nowhere}
    /\ watch \in [at : {"idle", "looking", "demoting", "cleaning"},
                  status : Statuses, place : Places \cup {Nowhere}]
    /\ reachable \in BOOLEAN
    /\ budget \in [configs : Nat, losses : Nat, outages : Nat, vanished : Nat]

\* Whatever runs, or may still start to run, does so where the row says: the
\* target and the namespace are recorded before the first effect and never
\* change afterwards, whatever the configuration becomes.
InstalledIsLocated ==
    /\ \A p \in Places : runtime[p].parts # {} => PlaceOf(row.target, row.namespace) = p
    /\ loose # Nowhere => PlaceOf(row.target, row.namespace) = loose.place

\* Tags may be moved and branches may move: what is deployed is the image
\* that was built from the requested commit.
ServesWhatWasBuilt ==
    /\ \A p \in Places : runtime[p].runs \in {"nothing", "commit"}
    /\ loose # Nowhere => loose.runs = "commit"

\* A stop or cleanup that reports that it removed the workload has removed all
\* of it, under whatever configuration it runs.
StopFindsIt ==
    [][command.at = "claimed" /\ command'.at = "removed"
         => \A p \in Places : runtime'[p].parts = {}]_workloadVars

\* The reconciler never goes on to remove the workload of a deployment that is
\* running, being deployed, or still to be deployed.
CleansOnlyEnded == watch.at = "cleaning" => row.status \in {"failed", "stopped"}

AllThere(p) == (IF p = "local-docker" THEN {"container"} ELSE {"deployment", "service"})
                  \subseteq runtime[p].parts
Home == PlaceOf(row.target, row.namespace)

\* A deployment that is said to run and does not is not said to run for ever.
GoneIsNoticed ==
    (row.status = "running" /\ ~AllThere(Home)) ~> row.status # "running"

\* What a failed deployment left behind is removed, and on Kubernetes also what
\* a stopped one left.
LeftOnCluster == row.status \in {"failed", "stopped"} /\ row.target = "kubernetes"
                 /\ \E n \in Namespaces : runtime[n].parts # {}
LeftOnDocker == row.status = "failed" /\ runtime["local-docker"].parts # {}

LeftoversAreRemoved ==
    /\ LeftOnCluster ~> \A n \in Namespaces : runtime[n].parts = {}
    /\ LeftOnDocker ~> (runtime["local-docker"].parts = {} \/ row.status # "failed")

\* docs/deployment.md:64: a running deployment may become failed "when
\* reconciliation detects that its runtime workload is missing".
FailedOnlyIfMissing ==
    [][row.status = "running" /\ row'.status = "failed" => ~AllThere(Home)]_workloadVars

=============================================================================
