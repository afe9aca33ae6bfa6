------------------------------ MODULE HelmRelease ------------------------------
(***************************************************************************)
(* The Helm release that all deployments of one project and environment    *)
(* share.  Pipelines upgrade it, stop and cleanup commands and the         *)
(* reconciler uninstall it, each from its own database row; the only       *)
(* coordination is the question "does a newer deployment exist?".          *)
(*                                                                         *)
(* Leases and snapshots are the subject of WorkQueue and are abstracted    *)
(* here: one worker at a time runs a deployment's pipeline, and none beside *)
(* a command that has started; a deployment has one active command.        *)
(***************************************************************************)
EXTENDS Naturals

CONSTANTS
    Deployments,        \* ids of the deployments of one project and environment
    Workers,
    StopsBeforeTarget,  \* do operators stop deployments without a recorded target?
    MaxCrashes,         \* bound on worker crashes
    None                \* no deployment, no release

ASSUME HelmReleaseAssumption ==
    /\ Deployments \subseteq Nat
    /\ StopsBeforeTarget \in BOOLEAN
    /\ MaxCrashes \in Nat
    /\ None \notin Deployments

VARIABLES
    status,    \* platform_deployments.status, "absent" before the row is inserted
    target,    \* are deploy_target and the Helm mode persisted?
    command,   \* the type of the active command, or "none"
    lost,      \* deployments whose claim was left behind by a crash
    worker,    \* what each worker is doing, and for which deployment
    rec,       \* what the reconciler is doing, and for which deployment
    release,   \* the deployment whose upgrade last reached the release
    crashes

vars == <<status, target, command, lost, worker, rec, release, crashes>>

Statuses == {"absent", "pending", "building", "deploying", "running", "failed", "stopped"}
CommandTypes == {"stop", "cleanup"}
InProgress == {"building", "deploying"}
Pipeline == {"claimed", "build", "target", "preflight", "upgrade", "healthcheck", "failing"}
Commanding == {"command", "removing", "removed"}
Idle == [at |-> "idle", on |-> None]

\* The rows a process works on.
On(w) == worker[w].on
InPipeline(w) == worker[w].at \in Pipeline
InCommand(w) == worker[w].at \in Commanding
Moves(w, stage) == worker' = [worker EXCEPT ![w] = [at |-> stage, on |-> On(w)]]
Leaves(w) == worker' = [worker EXCEPT ![w] = Idle]

-----------------------------------------------------------------------------
(* Ownership *)

Slip_NewerRunning(d) == \E e \in Deployments : e > d /\ status[e] = "running"

\* newer_helm_workload_owner_id, in a fresh read view.
NewerExists(d) == \E e \in Deployments : e > d /\ status[e] # "absent"

\* skip_historical_helm_command: a deployment without a recorded target is not
\* asked about.
Historical(d) == target[d] /\ NewerExists(d)

\* Someone has decided to uninstall the release on behalf of d.
Removing(d) ==
    \/ \E w \in Workers : worker[w] = [at |-> "removing", on |-> d]
    \/ rec = [at |-> "removing", on |-> d]

-----------------------------------------------------------------------------
Init ==
    /\ status = [d \in Deployments |-> "absent"]
    /\ target = [d \in Deployments |-> FALSE]
    /\ command = [d \in Deployments |-> "none"]
    /\ lost = {}
    /\ worker = [w \in Workers |-> Idle]
    /\ rec = Idle
    /\ release = None
    /\ crashes = 0

-----------------------------------------------------------------------------
(* The API *)

\* Deploy, retry, redeploy: a new row, with the next id.
RequestDeployment(d) ==
    /\ status[d] = "absent"
    /\ \A e \in Deployments : e < d => status[e] # "absent"
    /\ status' = [status EXCEPT ![d] = "pending"]
    /\ UNCHANGED <<target, command, lost, worker, rec, release, crashes>>

\* Stop is legal from every status; cleanup needs a recorded target.
RequestCommand(d, t) ==
    /\ status[d] # "absent"
    /\ target[d] \/ (t = "stop" /\ StopsBeforeTarget)
    /\ command[d] = "none"
    /\ command' = [command EXCEPT ![d] = t]
    /\ UNCHANGED <<status, target, lost, worker, rec, release, crashes>>

-----------------------------------------------------------------------------
(* The pipeline *)

Claimable(d) ==
    /\ status[d] = "pending"
    /\ \A w \in Workers : On(w) = d => ~InPipeline(w)

\* Oldest first; a claim that a crash left behind blocks its deployment until
\* it is stale.
ClaimDeployment(w, d) ==
    /\ worker[w] = Idle
    /\ Claimable(d)
    /\ \A e \in Deployments : e < d => ~Claimable(e) \/ e \in lost
    /\ worker' = [worker EXCEPT ![w] = [at |-> "claimed", on |-> d]]
    /\ lost' = lost \ {d}
    /\ UNCHANGED <<status, target, command, rec, release, crashes>>

\* A worker that sees an active stop command goes no further.
Proceeds(w, stage) == worker[w].at = stage /\ command[On(w)] # "stop"

Begin(w) ==
    /\ Proceeds(w, "claimed")
    /\ status[On(w)] = "pending"
    /\ status' = [status EXCEPT ![On(w)] = "building"]
    /\ Moves(w, "build")
    /\ UNCHANGED <<target, command, lost, rec, release, crashes>>

Slip_PersistLater(stage) == IF stage = "build" THEN "preflight" ELSE "target"

\* The stage after the image is built: the runtime identity is persisted before
\* the first side effect on the cluster.
AfterStage(stage) == IF stage = "build" THEN "target" ELSE "preflight"

Built(w) ==
    /\ Proceeds(w, "build")
    /\ status' = [status EXCEPT ![On(w)] = "deploying"]
    /\ Moves(w, AfterStage("build"))
    /\ UNCHANGED <<target, command, lost, rec, release, crashes>>

PersistTarget(w) ==
    /\ Proceeds(w, "target")
    /\ target' = [target EXCEPT ![On(w)] = TRUE]
    /\ Moves(w, AfterStage("target"))
    /\ UNCHANGED <<status, command, lost, rec, release, crashes>>

Preflight(w) ==
    /\ Proceeds(w, "preflight")
    /\ Moves(w, "upgrade")
    /\ UNCHANGED <<status, target, command, lost, rec, release, crashes>>

\* helm upgrade --install reaches the cluster; it may still fail, or be killed
\* by a heartbeat that sees a stop.
Upgrade(w) ==
    /\ worker[w].at = "upgrade"
    /\ release' = On(w)
    /\ \/ Moves(w, "healthcheck")
       \/ Moves(w, "failing")
    /\ UNCHANGED <<status, target, command, lost, rec, crashes>>

GoRunning(w) ==
    /\ Proceeds(w, "healthcheck")
    /\ status' = [status EXCEPT ![On(w)] = "running"]
    /\ Leaves(w)
    /\ UNCHANGED <<target, command, lost, rec, release, crashes>>

StepFails(w) ==
    /\ InPipeline(w) /\ worker[w].at # "failing"
    /\ Moves(w, "failing")
    /\ UNCHANGED <<status, target, command, lost, rec, release, crashes>>

\* On a row that was stopped meanwhile recording raises, and the worker is gone.
MarkFailed(w) ==
    /\ Proceeds(w, "failing")
    /\ status[On(w)] # "stopped"
    /\ status' = [status EXCEPT ![On(w)] = "failed"]
    /\ Leaves(w)
    /\ UNCHANGED <<target, command, lost, rec, release, crashes>>

Acknowledge(w) ==
    /\ InPipeline(w)
    /\ command[On(w)] = "stop"
    /\ Leaves(w)
    /\ UNCHANGED <<status, target, command, lost, rec, release, crashes>>

-----------------------------------------------------------------------------
(* Commands *)

\* A command waits for the deployment's claim and for its own; a claim left by a
\* crash grows stale.
ClaimCommand(w, d) ==
    /\ worker[w] = Idle
    /\ command[d] # "none"
    /\ \A v \in Workers : On(v) # d
    /\ worker' = [worker EXCEPT ![w] = [at |-> "command", on |-> d]]
    /\ UNCHANGED <<status, target, command, lost, rec, release, crashes>>

SkipCommand(w) ==
    /\ worker[w].at = "command"
    /\ Historical(On(w))
    /\ command' = [command EXCEPT ![On(w)] = "none"]
    /\ Leaves(w)
    /\ UNCHANGED <<status, target, lost, rec, release, crashes>>

DecideToRemove(w) ==
    /\ worker[w].at = "command"
    /\ ~Historical(On(w))
    /\ Moves(w, "removing")
    /\ UNCHANGED <<status, target, command, lost, rec, release, crashes>>

\* helm uninstall; an absent release counts as removed.
Uninstall(w) ==
    /\ worker[w].at = "removing"
    /\ release' = None
    /\ Moves(w, "removed")
    /\ UNCHANGED <<status, target, command, lost, rec, crashes>>

Slip_BuildStatus == "cancelled"

\* The status a finished command gives its deployment.
AfterCommand == "stopped"

CommandSucceeds(w) ==
    /\ worker[w].at = "removed"
    /\ status' = [status EXCEPT ![On(w)] = AfterCommand]
    /\ target' = [target EXCEPT ![On(w)] = TRUE]
    /\ command' = [command EXCEPT ![On(w)] = "none"]
    /\ Leaves(w)
    /\ UNCHANGED <<lost, rec, release, crashes>>

CommandFails(w) ==
    /\ InCommand(w)
    /\ command' = [command EXCEPT ![On(w)] = "none"]
    /\ Leaves(w)
    /\ UNCHANGED <<status, target, lost, rec, release, crashes>>

-----------------------------------------------------------------------------
(* Crashes and the reconciler *)

\* The claim stays behind until it is stale; a command's claim likewise.
Crash(w) ==
    /\ worker[w] # Idle
    /\ crashes < MaxCrashes
    /\ crashes' = crashes + 1
    /\ lost' = IF InPipeline(w) THEN lost \cup {On(w)} ELSE lost
    /\ Leaves(w)
    /\ UNCHANGED <<status, target, command, rec, release>>

ReconcileStaleClaim(d) ==
    /\ rec = Idle
    /\ d \in lost
    /\ lost' = lost \ {d}
    /\ status' = IF status[d] \in InProgress
                 THEN [status EXCEPT ![d] = "failed"] ELSE status
    /\ UNCHANGED <<target, command, worker, rec, release, crashes>>

Slip_NewestOnly(d) ==
    /\ status[d] = "running" /\ target[d] /\ release = None
    /\ ~NewerExists(d)

\* A deployment shown as running whose release helm status does not find.
Missing(d) == status[d] = "running" /\ target[d] /\ release = None

\* reconcile_running_missing_helm_release: helm status finds no release ...
SeeMissing(d) ==
    /\ rec = Idle
    /\ Missing(d)
    /\ rec' = [at |-> "missing", on |-> d]
    /\ UNCHANGED <<status, target, command, lost, worker, release, crashes>>

\* ... and the row, read before, is written.
MarkMissing(d) ==
    /\ rec = [at |-> "missing", on |-> d]
    /\ status' = [status EXCEPT ![d] = "failed"]
    /\ rec' = Idle
    /\ UNCHANGED <<target, command, lost, worker, release, crashes>>

Slip_StoppedOnly(d) == status[d] = "stopped" /\ target[d]

Leftover(d) == status[d] \in {"failed", "stopped"} /\ target[d]

\* reconcile_helm_nonrunning_release: no newer owner, and helm status finds a
\* release ...
DecideToClean(d) ==
    /\ rec = Idle
    /\ Leftover(d)
    /\ ~NewerExists(d)
    /\ release # None
    /\ rec' = [at |-> "removing", on |-> d]
    /\ UNCHANGED <<status, target, command, lost, worker, release, crashes>>

\* ... which is uninstalled, whatever it serves by then.
Clean(d) ==
    /\ rec = [at |-> "removing", on |-> d]
    /\ release' = None
    /\ rec' = Idle
    /\ UNCHANGED <<status, target, command, lost, worker, crashes>>

\* Inspecting or uninstalling failed.
CleaningFails ==
    /\ rec # Idle
    /\ rec' = Idle
    /\ UNCHANGED <<status, target, command, lost, worker, release, crashes>>

-----------------------------------------------------------------------------
API == \E d \in Deployments :
          RequestDeployment(d) \/ \E t \in CommandTypes : RequestCommand(d, t)

Work(w) == \/ \E d \in Deployments : ClaimDeployment(w, d) \/ ClaimCommand(w, d)
           \/ Begin(w) \/ Built(w) \/ PersistTarget(w) \/ Preflight(w) \/ Upgrade(w)
           \/ GoRunning(w) \/ StepFails(w) \/ MarkFailed(w) \/ Acknowledge(w)
           \/ SkipCommand(w) \/ DecideToRemove(w) \/ Uninstall(w)
           \/ CommandSucceeds(w) \/ CommandFails(w)

Reconciler == \/ CleaningFails
              \/ \E d \in Deployments : \/ ReconcileStaleClaim(d)
                                        \/ SeeMissing(d) \/ MarkMissing(d)
                                        \/ DecideToClean(d) \/ Clean(d)

Next == API \/ Reconciler \/ \E w \in Workers : Work(w) \/ Crash(w)

Spec == Init /\ [][Next]_vars

\* The reconciler's passes examine every row again and again, and what they do
\* about it, repeated for ever, does not fail for ever.
Examine(d) == SeeMissing(d) \/ DecideToClean(d)
Repair == \E d \in Deployments : MarkMissing(d) \/ Clean(d)

FairSpec ==
    /\ Spec
    /\ \A w \in Workers : WF_vars(Work(w))
    /\ WF_vars(Reconciler)
    /\ \A d \in Deployments : SF_vars(Examine(d))
    /\ SF_vars(Repair)

-----------------------------------------------------------------------------
(* Properties *)

TypeOK ==
    /\ status \in [Deployments -> Statuses]
    /\ target \in [Deployments -> BOOLEAN]
    /\ command \in [Deployments -> CommandTypes \cup {"none"}]
    /\ lost \subseteq Deployments
    /\ worker \in [Workers -> [at : Pipeline \cup Commanding \cup {"idle"},
                               on : Deployments \cup {None}]]
    /\ rec \in [at : {"idle", "missing", "removing"}, on : Deployments \cup {None}]
    /\ release \in Deployments \cup {None}
    /\ crashes \in 0..MaxCrashes

\* Nobody decides to uninstall the release on behalf of a deployment when a newer
\* one is what it serves (helm/ownership.py; deployment-contract.md).
NobodyRemovesNewer ==
    [][\A d \in Deployments :
          ~Removing(d) /\ Removing(d)' => release = None \/ release <= d]_vars

\* Whatever is installed can be found again: its deployment knows its target, so
\* cleanup and reconciliation can reach it even if the worker died right after.
InstalledIsKnown == release # None => target[release]

\* A deployment whose release disappeared does not stay "running".
MissingIsNoticed ==
    \A d \in Deployments :
        status[d] = "running" /\ release = None ~> ~(status[d] = "running" /\ release = None)

\* What a finished newest deployment leaves in the cluster is removed.
LeftoversGo ==
    \A d \in Deployments :
        status[d] \in {"failed", "stopped"} /\ release = d /\ ~NewerExists(d)
            ~> release = None \/ NewerExists(d)

=============================================================================
