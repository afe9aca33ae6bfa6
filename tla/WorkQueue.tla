------------------------------ MODULE WorkQueue ------------------------------
(***************************************************************************)
(* The database-backed work queue: worker processes that claim pending     *)
(* deployments and run the pipeline, the same processes running operator   *)
(* commands (stop, cleanup), and the reconciler that recovers stale        *)
(* claims.  Everything they share is rows of the database.                 *)
(*                                                                         *)
(* A database transaction reads one snapshot (repeatable read) and the ORM *)
(* writes back, by primary key, only the attributes it changed relative to *)
(* that snapshot; the guarded UPDATEs of the claim functions read the      *)
(* current row instead.  view[w] is the snapshot a process is working      *)
(* from, NoView when its last commit expired it and the next read will     *)
(* open a new one.                                                         *)
(***************************************************************************)
EXTENDS Lifecycle, Integers

CONSTANTS
    Workers,        \* worker identities (CONTROL_PLANE_WORKER_ID)
    Deployments,    \* deployment ids, in creation order
    Tested,         \* the deployments whose build has a test command
    Stallable,      \* workers that may go a whole TTL without refreshing a claim
    OldReads,       \* may the reconciler act on rows it read some time ago?
    Requestable,    \* the command types operators use
    PatchStatuses,  \* deployment statuses an administrator may PATCH
    PatchBuilds,    \* build statuses an administrator may PATCH
    MaxCrashes,     \* bound on worker process crashes
    None,           \* the NULL of claimed_by
    NoView          \* no snapshot is open

CommandTypes == {"stop", "cleanup"}

ASSUME WorkQueueAssumption ==
    /\ Deployments \subseteq Nat
    /\ Tested \subseteq Deployments
    /\ Stallable \subseteq Workers
    /\ OldReads \in BOOLEAN
    /\ Requestable \subseteq CommandTypes
    /\ PatchStatuses \subseteq Statuses \ {"stopped"}
    /\ PatchBuilds \subseteq BuildStatuses
    /\ MaxCrashes \in Nat
    /\ None \notin Workers
    /\ None \notin Deployments

VARIABLES
    status,    \* platform_deployments.status
    build,     \* builds.status of the deployment's build
    claim,     \* claimed_by, and whether claimed_at is older than the TTL
    target,    \* is deploy_target persisted?
    cmd,       \* the latest command of each deployment and type
    pc,        \* what each worker process is doing
    job,       \* the deployment it is doing it for
    task,      \* the pipeline step or the command type
    view,      \* the worker's open snapshot of that deployment
    rview,     \* the rows in the read view of the reconciler's transaction
    crashes    \* worker crashes so far

rows    == <<status, build, claim, target, cmd>>
process == <<pc, job, task, view>>
vars    == <<rows, process, rview, crashes>>

-----------------------------------------------------------------------------
(* Values *)

\* The executor calls of process_deployment, in order ("target" persists the
\* runtime identity before preflight, "finish" records `running`).
Tasks == {"clone", "build", "test", "tag", "push", "verify", "target",
          "preflight", "deploy", "finish"}

Pipeline == {"begin", "work", "failing"}
Commanding == {"command", "started", "stopping"}
PCs == {"idle", "polled", "down"} \cup Pipeline \cup Commanding

Claims == [by : Workers \cup {None}, stale : BOOLEAN]
NoClaim == [by |-> None, stale |-> FALSE]
FreshClaim(w) == [by |-> w, stale |-> FALSE]

CommandStatuses == {"none", "pending", "claimed", "succeeded", "failed", "skipped"}
Commands == [status : CommandStatuses, active : BOOLEAN,
             by : Workers \cup {None}, stale : BOOLEAN]
Active == {"pending", "claimed"}

Rows == [status : Statuses, build : BuildStatuses, by : Workers \cup {None}, stop : BOOLEAN]
ReconcilerRows == [status : Statuses, build : BuildStatuses, by : Workers \cup {None}, stale : BOOLEAN]

\* begin_step's status for the steps that open one.
Opens(t) ==
    CASE t = "clone" -> "cloning"
      [] t = "build" -> "building"
      [] t = "test" -> "testing"
      [] t = "tag" -> "pushing_image"
      [] t = "target" -> "deploying"
      [] OTHER -> "running"

\* The step after t, and whether it opens a status of its own.
After(d, t) ==
    CASE t = "clone" -> "build"
      [] t = "build" -> IF d \in Tested THEN "test" ELSE "tag"
      [] t = "test" -> "tag"
      [] t = "tag" -> "push"
      [] t = "push" -> "verify"
      [] t = "verify" -> "target"
      [] t = "target" -> "preflight"
      [] t = "preflight" -> "deploy"
      [] OTHER -> "finish"
BeginsAt(t) == IF t \in {"push", "verify", "preflight", "deploy"} THEN "work" ELSE "begin"

\* worker/reconciliation/claims.py: the statuses a lost worker leaves behind.
Slip_ForgetDeploying == InProgress \ {"deploying"}
IN_PROGRESS_STATUSES == InProgress

\* The ORM writes an attribute only when it differs from the snapshot.
Written(seen, new, current) == IF seen = new THEN current ELSE new

-----------------------------------------------------------------------------
(* What a process sees of its deployment *)

StopRequested(d) == cmd[d]["stop"].active /\ cmd[d]["stop"].status \in Active

Row(d) == [status |-> status[d], build |-> build[d], by |-> claim[d].by, stop |-> StopRequested(d)]

Seen(w) == IF view[w] = NoView THEN Row(job[w]) ELSE view[w]

Slip_SnapshotOnly(w) == LET r == Seen(w) IN r.by = w /\ ~r.stop

\* ensure_claim_owned on the snapshot, then refresh_claim's guarded UPDATE on
\* the current row.
Owns(w) == LET r == Seen(w) IN r.by = w /\ ~r.stop /\ claim[job[w]].by = w

\* The three outcomes that stop the pipeline instead.
LostClaim(w) == LET r == Seen(w) IN r.by # w \/ (~r.stop /\ claim[job[w]].by # w)
Cancelled(w) == LET r == Seen(w) IN r.by = w /\ r.stop

OwnsCommand(w) ==
    LET c == cmd[job[w]][task[w]] IN c.status = "claimed" /\ c.by = w

Slip_NeverExpires(c) == c.by = None

Free(c) == c.by = None \/ c.stale

\* claimed_at is now older than the TTL.
Aged(c) == [c EXCEPT !.stale = TRUE]

Become(w, p) ==
    /\ pc' = [pc EXCEPT ![w] = p]
    /\ job' = [job EXCEPT ![w] = None]
    /\ task' = [task EXCEPT ![w] = "none"]
    /\ view' = [view EXCEPT ![w] = NoView]

Proceed(w, p, t) ==
    /\ pc' = [pc EXCEPT ![w] = p]
    /\ task' = [task EXCEPT ![w] = t]
    /\ view' = [view EXCEPT ![w] = NoView]
    /\ UNCHANGED job

Refresh(w) == claim' = [claim EXCEPT ![job[w]] = FreshClaim(w)]

-----------------------------------------------------------------------------
Init ==
    /\ status = [d \in Deployments |-> "pending"]
    /\ build = [d \in Deployments |-> "pending"]
    /\ claim = [d \in Deployments |-> NoClaim]
    /\ target = [d \in Deployments |-> FALSE]
    /\ cmd = [d \in Deployments |-> [t \in CommandTypes |->
                 [status |-> "none", active |-> FALSE, by |-> None, stale |-> FALSE]]]
    /\ pc = [w \in Workers |-> "idle"]
    /\ job = [w \in Workers |-> None]
    /\ task = [w \in Workers |-> "none"]
    /\ view = [w \in Workers |-> NoView]
    /\ rview = [d \in Deployments |-> NoView]
    /\ crashes = 0

-----------------------------------------------------------------------------
(* The API *)

\* POST .../stop, .../cleanup and PATCH {status: stopped}: reuse the active
\* command of that type or insert one.
RequestCommand(d, t) ==
    /\ t = "stop" => CanTransition(status[d], "stopped")
    /\ t = "cleanup" => target[d]
    /\ cmd[d][t].status \notin Active
    /\ cmd' = [cmd EXCEPT ![d][t] =
                 [status |-> "pending", active |-> TRUE, by |-> None, stale |-> FALSE]]
    /\ UNCHANGED <<status, build, claim, target, process, rview, crashes>>

\* PATCH of a deployment by an administrator: validated against the graphs,
\* never against the claim.
PatchStatus(d, s) ==
    /\ CanTransition(status[d], s)
    /\ status' = [status EXCEPT ![d] = s]
    /\ UNCHANGED <<build, claim, target, cmd, process, rview, crashes>>

PatchBuild(d, b) ==
    /\ CanTransitionBuild(build[d], b)
    /\ build' = [build EXCEPT ![d] = b]
    /\ UNCHANGED <<status, claim, target, cmd, process, rview, crashes>>

-----------------------------------------------------------------------------
(* The worker loop: commands first, then the oldest pending deployment *)

Slip_IgnoreDeploymentClaim(d, t) == cmd[d][t].status \in Active /\ Free(cmd[d][t])

ClaimableCommand(d, t) ==
    /\ cmd[d][t].status \in Active
    /\ Free(cmd[d][t])
    /\ Free(claim[d])

ClaimCommand(w, d, t) ==
    /\ pc[w] = "idle"
    /\ ClaimableCommand(d, t)
    /\ cmd' = [cmd EXCEPT ![d][t] =
                 [status |-> "claimed", active |-> @.active, by |-> w, stale |-> FALSE]]
    /\ pc' = [pc EXCEPT ![w] = "command"]
    /\ job' = [job EXCEPT ![w] = d]
    /\ task' = [task EXCEPT ![w] = t]
    /\ UNCHANGED <<status, build, claim, target, view, rview, crashes>>

NoCommandToRun(w) ==
    /\ pc[w] = "idle"
    /\ \A d \in Deployments, t \in CommandTypes : ~ClaimableCommand(d, t)
    /\ pc' = [pc EXCEPT ![w] = "polled"]
    /\ UNCHANGED <<rows, job, task, view, rview, crashes>>

Slip_ResumeCloning(d) == status[d] \in {"pending", "cloning"} /\ Free(claim[d])

ClaimableDeployment(d) == status[d] = "pending" /\ Free(claim[d])

ClaimDeployment(w, d) ==
    /\ pc[w] = "polled"
    /\ ClaimableDeployment(d)
    /\ \A e \in Deployments : e < d => ~ClaimableDeployment(e)
    /\ claim' = [claim EXCEPT ![d] = FreshClaim(w)]
    /\ pc' = [pc EXCEPT ![w] = "begin"]
    /\ job' = [job EXCEPT ![w] = d]
    /\ task' = [task EXCEPT ![w] = "clone"]
    /\ UNCHANGED <<status, build, target, cmd, view, rview, crashes>>

NothingPending(w) ==
    /\ pc[w] = "polled"
    /\ \A d \in Deployments : ~ClaimableDeployment(d)
    /\ Become(w, "idle")
    /\ UNCHANGED <<rows, rview, crashes>>

-----------------------------------------------------------------------------
(* The pipeline *)

\* A read opens the transaction's snapshot (the executor reads the deployment
\* before it starts a command; commands then run inside that transaction).
ReadRow(w) ==
    /\ pc[w] \in Pipeline \cup {"stopping"}
    /\ view[w] = NoView
    /\ view' = [view EXCEPT ![w] = Row(job[w])]
    /\ UNCHANGED <<rows, pc, job, task, rview, crashes>>

\* begin_step: set_deployment_status moves the deployment and, up to
\* pushing_image, its build.
BeginStep(w) ==
    LET d == job[w]
        r == Seen(w)
        s == Opens(task[w])
    IN /\ pc[w] = "begin"
       /\ task[w] # "finish"
       /\ Owns(w)
       /\ CanTransition(r.status, s)
       /\ status' = [status EXCEPT ![d] = Written(r.status, s, @)]
       /\ IF task[w] = "target"
          THEN UNCHANGED build
          ELSE /\ CanTransitionBuild(r.build, s)
               /\ build' = [build EXCEPT ![d] = Written(r.build, s, @)]
       /\ Refresh(w)
       /\ Proceed(w, "work", task[w])
       /\ UNCHANGED <<target, cmd, rview, crashes>>

\* The external call returns and commit_step_result records it; a successful
\* push also ends the build.
StepSucceeds(w) ==
    LET d == job[w]
        r == Seen(w)
        n == After(d, task[w])
    IN /\ pc[w] = "work"
       /\ task[w] # "target"
       /\ Owns(w)
       /\ IF task[w] = "push"
          THEN /\ CanTransitionBuild(r.build, "succeeded")
               /\ build' = [build EXCEPT ![d] = Written(r.build, "succeeded", @)]
          ELSE UNCHANGED build
       /\ Refresh(w)
       /\ Proceed(w, BeginsAt(n), n)
       /\ UNCHANGED <<status, target, cmd, rview, crashes>>

\* Persisting deploy_target and the runtime identity: ownership is checked but
\* the claim is not refreshed.
PersistTarget(w) ==
    LET r == Seen(w) IN
    /\ pc[w] = "work"
    /\ task[w] = "target"
    /\ r.by = w /\ ~r.stop
    /\ target' = [target EXCEPT ![job[w]] = TRUE]
    /\ Proceed(w, "work", "preflight")
    /\ UNCHANGED <<status, build, claim, cmd, rview, crashes>>

Heartbeat(w) ==
    /\ pc[w] = "work"
    /\ task[w] # "target"
    /\ Owns(w)
    /\ Refresh(w)
    /\ Proceed(w, "work", task[w])
    /\ UNCHANGED <<status, build, target, cmd, rview, crashes>>

GoRunning(w) ==
    LET d == job[w]
        r == Seen(w)
    IN /\ pc[w] = "begin"
       /\ task[w] = "finish"
       /\ Owns(w)
       /\ CanTransition(r.status, "running")
       /\ status' = [status EXCEPT ![d] = Written(r.status, "running", @)]
       /\ claim' = [claim EXCEPT ![d] = NoClaim]
       /\ Become(w, "idle")
       /\ UNCHANGED <<build, target, cmd, rview, crashes>>

\* WorkerExecutionError: the session keeps its snapshot while the failure is
\* recorded.
StepFails(w) ==
    /\ pc[w] = "work"
    /\ pc' = [pc EXCEPT ![w] = "failing"]
    /\ UNCHANGED <<rows, job, task, view, rview, crashes>>

\* Any other exception, an illegal transition among them: rolled back first.
StepRaises(w) ==
    /\ pc[w] \in {"begin", "work"}
    /\ Proceed(w, "failing", task[w])
    /\ UNCHANGED <<rows, rview, crashes>>

Slip_UncheckedFailure(r) == r.status \in Statuses

CanFail(r) == CanTransition(r.status, "failed") /\ CanTransitionBuild(r.build, "failed")

MarkFailed(w) ==
    LET d == job[w]
        r == Seen(w)
    IN /\ pc[w] = "failing"
       /\ Owns(w)
       /\ CanFail(r)
       /\ status' = [status EXCEPT ![d] = Written(r.status, "failed", @)]
       /\ build' = [build EXCEPT ![d] = Written(r.build, "failed", @)]
       /\ claim' = [claim EXCEPT ![d] = NoClaim]
       /\ Become(w, "idle")
       /\ UNCHANGED <<target, cmd, rview, crashes>>

\* mark_failed raises inside the handler of the first error: nothing catches
\* it and the worker process ends.
WorkerDies(w) ==
    /\ pc[w] = "failing"
    /\ Owns(w)
    /\ ~CanFail(Seen(w))
    /\ Become(w, "down")
    /\ UNCHANGED <<rows, rview, crashes>>

LoseClaim(w) ==
    /\ pc[w] \in Pipeline
    /\ IF pc[w] = "work" /\ task[w] = "target" THEN Seen(w).by # w ELSE LostClaim(w)
    /\ Become(w, "idle")
    /\ UNCHANGED <<rows, rview, crashes>>

\* persist_cancellation_acknowledgement clears the claim whoever holds it.
AcknowledgeCancellation(w) ==
    /\ pc[w] \in Pipeline
    /\ Cancelled(w)
    /\ claim' = [claim EXCEPT ![job[w]] = NoClaim]
    /\ Become(w, "idle")
    /\ UNCHANGED <<status, build, target, cmd, rview, crashes>>

-----------------------------------------------------------------------------
(* Commands *)

Slip_KeepActiveKey(w, s) ==
    cmd' = [cmd EXCEPT ![job[w]][task[w]] =
              [status |-> s, active |-> TRUE, by |-> None, stale |-> FALSE]]

SetCommand(w, s) ==
    cmd' = [cmd EXCEPT ![job[w]][task[w]] =
              [status |-> s, active |-> FALSE, by |-> None, stale |-> FALSE]]

RefreshCommand(w) == cmd' = [cmd EXCEPT ![job[w]][task[w]] = [@ EXCEPT !.stale = FALSE]]

\* The started event is committed under a refreshed command claim.
StartCommand(w) ==
    /\ pc[w] = "command"
    /\ OwnsCommand(w)
    /\ RefreshCommand(w)
    /\ Proceed(w, "started", task[w])
    /\ UNCHANGED <<status, build, claim, target, rview, crashes>>

\* skip_historical_helm_command: a newer deployment, perhaps outside this
\* model's Deployments, may own the shared release, or it may not.
SkipCommand(w) ==
    /\ pc[w] = "started"
    /\ target[job[w]]
    /\ OwnsCommand(w)
    /\ SetCommand(w, "skipped")
    /\ Become(w, "idle")
    /\ UNCHANGED <<status, build, claim, target, rview, crashes>>

\* executor.stop begins: it reads the deployment first.
BeginStop(w) ==
    /\ pc[w] = "started"
    /\ pc' = [pc EXCEPT ![w] = "stopping"]
    /\ view' = [view EXCEPT ![w] = Row(job[w])]
    /\ UNCHANGED <<rows, job, task, rview, crashes>>

CommandHeartbeat(w) ==
    /\ pc[w] = "stopping"
    /\ OwnsCommand(w)
    /\ RefreshCommand(w)
    /\ Proceed(w, "stopping", task[w])
    /\ UNCHANGED <<status, build, claim, target, rview, crashes>>

Slip_DeploymentStatus(t, b) == IF t = "stop" /\ b \notin BuildTerminal THEN "stopped" ELSE b
Slip_CancelQueuedOnly(t, b) == IF t = "stop" /\ b = "pending" THEN "cancelled" ELSE b

\* A stop cancels the build it interrupts.
BuildAfterCommand(t, b) == IF t = "stop" /\ b \notin BuildTerminal THEN "cancelled" ELSE b

CommandSucceeds(w) ==
    LET d == job[w]
        r == Seen(w)
    IN /\ pc[w] = "stopping"
       /\ OwnsCommand(w)
       /\ CanTransition(r.status, "stopped")
       /\ status' = [status EXCEPT ![d] = Written(r.status, "stopped", @)]
       /\ build' = [build EXCEPT ![d] = Written(r.build, BuildAfterCommand(task[w], r.build), @)]
       /\ target' = [target EXCEPT ![d] = TRUE]
       /\ SetCommand(w, "succeeded")
       /\ Become(w, "idle")
       /\ UNCHANGED <<claim, rview, crashes>>

\* executor.stop fails, or anything else raises: the command fails and the
\* deployment is left as it is.
CommandFails(w) ==
    /\ pc[w] \in Commanding
    /\ OwnsCommand(w)
    /\ SetCommand(w, "failed")
    /\ Become(w, "idle")
    /\ UNCHANGED <<status, build, claim, target, rview, crashes>>

CommandClaimLost(w) ==
    /\ pc[w] \in Commanding
    /\ ~OwnsCommand(w)
    /\ Become(w, "idle")
    /\ UNCHANGED <<rows, rview, crashes>>

-----------------------------------------------------------------------------
(* Time, crashes and restarts *)

Holds(w, d) == pc[w] \in Pipeline /\ job[w] = d
Runs(w, d, t) == pc[w] \in Commanding /\ job[w] = d /\ task[w] = t

\* More than the TTL passes without a refresh: the holder is gone, or stalls.
ClaimExpires(d) ==
    /\ claim[d].by # None /\ ~claim[d].stale
    /\ claim[d].by \in Stallable \/ ~Holds(claim[d].by, d)
    /\ claim' = [claim EXCEPT ![d] = Aged(@)]
    /\ UNCHANGED <<status, build, target, cmd, process, rview, crashes>>

CommandClaimExpires(d, t) ==
    /\ cmd[d][t].by # None /\ ~cmd[d][t].stale
    /\ cmd[d][t].by \in Stallable \/ ~Runs(cmd[d][t].by, d, t)
    /\ cmd' = [cmd EXCEPT ![d][t] = Aged(@)]
    /\ UNCHANGED <<status, build, claim, target, process, rview, crashes>>

Crash(w) ==
    /\ pc[w] \in Pipeline \cup Commanding
    /\ crashes < MaxCrashes
    /\ crashes' = crashes + 1
    /\ Become(w, "down")
    /\ UNCHANGED <<rows, rview>>

Restart(w) ==
    /\ pc[w] = "down"
    /\ Become(w, "idle")
    /\ UNCHANGED <<rows, rview, crashes>>

-----------------------------------------------------------------------------
(* The reconciler *)

ReconcilerRow(d) == [status |-> status[d], build |-> build[d],
                     by |-> claim[d].by, stale |-> claim[d].stale]

ReconcilerSees(d) == IF rview[d] = NoView THEN ReconcilerRow(d) ELSE rview[d]

\* A commit, or the rollback after an error: the next read opens a new view.
EndReadView == rview' = [d \in Deployments |-> NoView]

\* A pass reads the whole table in one transaction.  Nothing ends that
\* transaction but a commit or an error: not the rest of the pass, and not the
\* next pass of run_reconciler_loop.
OpenReadView ==
    /\ OldReads
    /\ \A d \in Deployments : rview[d] = NoView
    /\ rview' = [d \in Deployments |-> ReconcilerRow(d)]
    /\ UNCHANGED <<rows, process, crashes>>

\* More than the TTL passes before d is examined with the claimed_at that was
\* read: the runtime of other deployments is inspected first, or d was
\* examined before and this is a later pass in the same transaction.
ReadClaimAges(d) ==
    /\ rview[d] # NoView
    /\ rview[d].by # None /\ ~rview[d].stale
    /\ rview' = [rview EXCEPT ![d] = Aged(@)]
    /\ UNCHANGED <<rows, process, crashes>>

\* A handler commits (or fails) for some other deployment, or for one of these
\* without touching a column modelled here.
HandlerCommits ==
    /\ \E d \in Deployments : rview[d] # NoView
    /\ EndReadView
    /\ UNCHANGED <<rows, process, crashes>>

Slip_AnyClaim(r) == r.by # None
Slip_SkipFinished(r) == r.by # None /\ r.stale /\ r.status \in InProgress \cup {"pending"}

StaleClaim(r) == r.by # None /\ r.stale

ReconcileStaleClaim(d) ==
    LET r == ReconcilerSees(d) IN
    /\ StaleClaim(r)
    /\ IF r.status \in IN_PROGRESS_STATUSES
       THEN /\ CanTransitionBuild(r.build, "failed")
            /\ status' = [status EXCEPT ![d] = "failed"]
            /\ build' = [build EXCEPT ![d] = Written(r.build, "failed", @)]
       ELSE UNCHANGED <<status, build>>
    /\ claim' = [claim EXCEPT ![d] = NoClaim]
    /\ EndReadView
    /\ UNCHANGED <<target, cmd, process, crashes>>

\* The container, release or Kubernetes workload of a running deployment is
\* gone.
ReconcileMissingWorkload(d) ==
    LET r == ReconcilerSees(d) IN
    /\ r.status = "running"
    /\ CanTransitionBuild(r.build, "failed")
    /\ status' = [status EXCEPT ![d] = "failed"]
    /\ build' = [build EXCEPT ![d] = Written(r.build, "failed", @)]
    /\ claim' = [claim EXCEPT ![d] = IF r.by = None THEN @ ELSE NoClaim]
    /\ EndReadView
    /\ UNCHANGED <<target, cmd, process, crashes>>

-----------------------------------------------------------------------------
API == \E d \in Deployments :
          \/ \E t \in Requestable : RequestCommand(d, t)
          \/ \E s \in PatchStatuses : PatchStatus(d, s)
          \/ \E b \in PatchBuilds : PatchBuild(d, b)

Poll(w) == \/ NoCommandToRun(w)
           \/ NothingPending(w)
           \/ \E d \in Deployments : ClaimDeployment(w, d)
           \/ \E d \in Deployments, t \in CommandTypes : ClaimCommand(w, d, t)

PipelineOutcome(w) == \/ BeginStep(w) \/ StepSucceeds(w) \/ PersistTarget(w) \/ GoRunning(w)
                      \/ StepFails(w) \/ StepRaises(w) \/ MarkFailed(w) \/ WorkerDies(w)
                      \/ LoseClaim(w) \/ AcknowledgeCancellation(w)

CommandOutcome(w) == \/ StartCommand(w) \/ SkipCommand(w) \/ BeginStop(w)
                     \/ CommandSucceeds(w) \/ CommandFails(w) \/ CommandClaimLost(w)

Worker(w) == \/ Poll(w) \/ PipelineOutcome(w) \/ CommandOutcome(w)
             \/ ReadRow(w) \/ Heartbeat(w) \/ CommandHeartbeat(w)
             \/ Crash(w) \/ Restart(w)

TimePasses(d) == ClaimExpires(d) \/ \E t \in CommandTypes : CommandClaimExpires(d, t)

Reconciler == \/ OpenReadView \/ HandlerCommits
              \/ \E d \in Deployments :
                    ReadClaimAges(d) \/ ReconcileStaleClaim(d) \/ ReconcileMissingWorkload(d)

Next == \/ API
        \/ \E w \in Workers : Worker(w)
        \/ \E d \in Deployments : TimePasses(d)
        \/ Reconciler

Spec == Init /\ [][Next]_vars

-----------------------------------------------------------------------------
(* Fairness: a worker process keeps polling and every external call ends (it *)
(* has a timeout), an abandoned claim grows old, a pod is restarted, and the *)
(* reconciler's loop comes back to every row.  Operators, crashes and        *)
(* heartbeats are never required to happen.                                  *)

Steps(w) == Poll(w) \/ PipelineOutcome(w) \/ CommandOutcome(w) \/ Restart(w)

WorkersProceed == \A w \in Workers : WF_vars(Steps(w))
TimeProceeds == \A d \in Deployments :
    WF_vars(ClaimExpires(d)) /\ \A t \in CommandTypes : WF_vars(CommandClaimExpires(d, t))
ReconcilerProceeds == \A d \in Deployments :
    WF_vars(ReadClaimAges(d)) /\ WF_vars(ReconcileStaleClaim(d))

\* The polls of two workers drift: a command that is free again and again is
\* found free by one of them.
PollsDrift == \A d \in Deployments, t \in CommandTypes :
    SF_vars(\E w \in Workers : ClaimCommand(w, d, t))

WorkerFairSpec == Spec /\ WorkersProceed /\ TimeProceeds /\ PollsDrift
FairSpec == WorkerFairSpec /\ ReconcilerProceeds

-----------------------------------------------------------------------------
(* Safety *)

\* Every column, claim and process state is one the code can write.
TypeOK ==
    /\ status \in [Deployments -> Statuses]
    /\ build \in [Deployments -> BuildStatuses]
    /\ claim \in [Deployments -> Claims]
    /\ target \in [Deployments -> BOOLEAN]
    /\ cmd \in [Deployments -> [CommandTypes -> Commands]]
    /\ pc \in [Workers -> PCs]
    /\ job \in [Workers -> Deployments \cup {None}]
    /\ task \in [Workers -> Tasks \cup CommandTypes \cup {"none"}]
    /\ view \in [Workers -> Rows \cup {NoView}]
    /\ rview \in [Deployments -> ReconcilerRows \cup {NoView}]
    /\ crashes \in 0..MaxCrashes

\* Two workers never run external pipeline steps of one deployment, whatever
\* stalls, loses its claim, is reclaimed, cancelled or patched in between: a
\* worker that lost the race to begin can never begin (claims.py).
OnePipeline ==
    \A w, v \in Workers :
        w # v /\ pc[w] = "work" /\ pc[v] = "work" => job[w] # job[v]

\* While a worker runs a pipeline step of a deployment, no worker runs
\* executor.stop for it: the runtime has one writer (command_processor.py).
Exclusive ==
    \A w, v \in Workers :
        pc[w] = "work" /\ pc[v] = "stopping" => job[w] # job[v]

\* Deployment and build statuses describe one attempt: only a built image is
\* deployed or serves, both fail together, and a stopped attempt leaves no
\* build behind that looks active (lifecycle.py, command_processor.py,
\* reconciliation/claims.py each write both).
StatusesAgree ==
    \A d \in Deployments :
        /\ status[d] \in {"deploying", "running"} => build[d] = "succeeded"
        /\ status[d] = "failed" => build[d] = "failed"
        /\ status[d] = "stopped" => build[d] \in BuildTerminal
        /\ build[d] = "failed" => status[d] \in {"failed", "stopped"}
        /\ build[d] = "cancelled" => status[d] = "stopped"
        /\ build[d] \in InProgress => status[d] = build[d]
        /\ build[d] = "succeeded" =>
              status[d] \in {"pushing_image", "deploying", "running", "failed", "stopped"}

\* The uniqueness key is set exactly while the command is unfinished, and a
\* claim exactly while it is claimed: otherwise an operator's next request is
\* rejected for ever or duplicated (models/deployment_command.py).
CommandKeys ==
    \A d \in Deployments, t \in CommandTypes :
        /\ cmd[d][t].active <=> cmd[d][t].status \in Active
        /\ cmd[d][t].by # None <=> cmd[d][t].status = "claimed"

\* A deployment enters a pipeline status only by a worker that held its claim
\* at that moment: a fenced-off worker's result is never written.
FencedWrites ==
    [][\A d \in Deployments :
          status'[d] # status[d] /\ status'[d] \in InProgress \cup {"running"}
            => \E w \in Workers : pc[w] = "begin" /\ job[w] = d /\ claim[d].by = w]_vars

\* A deployment moves only along the transition graph from the status its row
\* really has, not the one some process once read: nothing leaves `stopped`
\* (processes check the transition on a snapshot and write by primary key).
StatusGraph == [][\A d \in Deployments : CanTransition(status[d], status'[d])]_vars

\* A worker that is running a step of a deployment, and never stalls, still
\* holds its claim.
HealthyWorkersKeepClaims ==
    \A w \in Workers \ Stallable : pc[w] = "work" => claim[job[w]].by = w

\* Work in progress can always be recovered: a worker or an expiring claim
\* accounts for it, or a stop command is still to come.
InterruptedWorkIsRecoverable ==
    \A d \in Deployments :
        status[d] \in InProgress => claim[d].by # None \/ StopRequested(d)

\* A worker process ends only when it is killed: processing a deployment never
\* ends it with the claim left behind (pipeline.py's handlers).
WorkersSurvive ==
    [][\A w \in Workers : pc[w] # "down" /\ pc'[w] = "down" => crashes' # crashes]_vars

-----------------------------------------------------------------------------
(* Liveness *)

\* Every accepted stop is answered: the command ends and frees its key.
StopIsServed == \A d \in Deployments : StopRequested(d) ~> ~StopRequested(d)

\* A queued deployment does not wait for ever, with no help of a reconciler.
QueueDrains ==
    \A d \in Deployments : status[d] = "pending" ~> (status[d] # "pending" \/ StopRequested(d))

\* Work whose worker disappeared becomes an explicit result.
InterruptedWorkEnds ==
    \A d \in Deployments : status[d] \in InProgress ~> status[d] \notin InProgress

\* A claim nobody refreshes is released or taken over, whatever state its
\* holder left: until then it blocks every command of the deployment.
StaleClaimsEnd == \A d \in Deployments : claim[d].stale ~> ~claim[d].stale

-----------------------------------------------------------------------------
(* The abstract attempt: begun at most once, by one worker, and never resumed. *)

Started(w, d) ==
    job[w] = d /\ (pc[w] = "work" \/ (pc[w] = "begin" /\ task[w] # "clone"))

Attempt == INSTANCE Attempt WITH
    phase <- [d \in Deployments |->
                IF status[d] = "pending" THEN "queued"
                ELSE IF \E w \in Workers : Started(w, d) THEN "running" ELSE "ended"],
    runner <- [d \in Deployments |->
                IF \E w \in Workers : Started(w, d)
                THEN CHOOSE w \in Workers : Started(w, d) ELSE None]

AttemptSpec == Attempt!Spec

=============================================================================
