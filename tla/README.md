# Verification of the autodeploy control plane

TLA+ models of the deployment platform in `control_plane/`, `worker/` and
`frontend/`, the TLC runs that check them on small instances, and TLAPS proofs
for every instance.  `PROJECT.json` maps each definition to the lines it
translates.

## 1. The system

An API (Flask) and any number of worker and reconciler processes share a MySQL
database; nothing else connects them.  A deployment is a row that workers claim
and drive through an external pipeline (git, docker, registry, kubectl or Helm).

| Component | State it keeps | Operations | Interacts through |
|---|---|---|---|
| Status graphs (`models/platform_deployment.py`, `models/build.py`) | `status` of deployment and build | `can_transition_to`, `transition_to` | called by every writer |
| Deployment worker (`worker/processing/claims, lifecycle, pipeline`) | claim (`claimed_by`, `claimed_at`), statuses, `deploy_target` | claim oldest pending, begin/commit step, heartbeat, finish, fail, acknowledge cancellation, lose claim | rows; external commands |
| Command worker (`command_processor.py`) | `deployment_commands` row: status, `active_key`, claim | claim, started event, skip, stop/cleanup, fail | rows; `executor.stop` |
| Reconciler (`worker/reconciliation`) | none of its own, a database transaction | fail stale claims, demote running deployments whose workload is gone, clean up leftovers | rows; read of the runtime |
| Command requests (`command_requests.py`) | active command per deployment and type | request (idempotent) | rows |
| Administrator's PATCH (`deployments/service.py`) | statuses | validated update | rows |
| Intake (`orchestration.py`, `deployment_spec.py`, `webhooks.py`) | deployment + build + snapshot, webhook deliveries | deploy, retry, redeploy, push delivery | inserts rows |
| Helm ownership (`helm/ownership.py`, `reconciliation/helm.py`, `executors/kubernetes/helm.py`) | one release shared by all attempts of a project and environment | upgrade, uninstall, skip of historical commands | cluster; rows of other attempts |
| Source, image, registry services (`worker/services`, `execution/source_build.py`) | workspace directory, local image, tag and digest in a registry | clone, checkout, build, test, push, verify, probe | called by the deployment worker |
| Executors (`executors/local_docker.py`, `docker_runtime.py`, `executors/kubernetes/*`, `execution/factory.py`) | a container, or the Deployment, Service and Ingress of one attempt | preflight, deploy, wait, probe, stop, look | called by workers and by the reconciler, each with an executor built from row and configuration |
| Command runner (`execution/command_runner.py`) | a child process, deadline, last heartbeat | attempts, pauses, timeout, kill | heartbeat callback to claims |
| Frontend (`useDeployments.js`, `App.vue`) | selection, what is shown, polling timer | select, poll, load artifacts | API reads |
| Read models, auth, audit, metrics, health, validation, retention, manifest rendering, diagnostics, charts, migrations | none that a property below is about | sequential code | - |

### What is hard

* *Interleaving*: several workers, several processes of each kind, and an API
  that writes the same rows.  There are no row locks; safety rests on guarded
  `UPDATE`s and on the order of the commits.
* *Stale reads*: transactions are repeatable-read and the executor reads the
  deployment before a command that lasts minutes, so the ownership check after
  it looks at an old snapshot; the ORM then writes, by primary key, the
  attributes it changed.
* *Timeouts and retries*: claims expire after a TTL (300 s) and are refreshed
  by heartbeats (30 s) that some commands do not send.
* *Crashes*: a worker can disappear between any two commits, and the command it
  had started may still take effect.
* *Configuration*: executor, namespace and registry are read by each process when
  it starts, so the process that removes a workload may be configured unlike the
  one that made it.
* *Outages*: a container runtime that does not answer looks, to a command's exit
  status, like one without the workload.
* *Partial failure*: a stop command fails after the pipeline has yielded to it;
  recording a failure fails.
* *Liveness*: stops, queued deployments and interrupted work must end.

`PROJECT.json` "hazards" lists each at the line where it bites.

### What makes each component correct

* Queue: one pipeline per deployment at any time; at most one attempt per
  deployment row ever; a worker that lost its claim writes no pipeline status; a
  live worker keeps its claim; the queue drains.
* Commands: pipeline and runtime cleanup never overlap; a command's claim and
  uniqueness key match its status; an accepted stop is answered.
* Statuses: moves follow the graph from the row's real value; deployment and
  build describe the same attempt.
* Recovery: interrupted work becomes an explicit result; stale claims go.
* Intake: one deployment per matching project and delivery id, made with the
  answer or not at all; the settings and a commit of the branch that was asked
  for; a retry repeats its source; at most one active command per type, and no
  request answered by an old one; every request ends.
* Helm: what a newer attempt installed is not removed on behalf of an older one;
  whatever is installed can be found again; a vanished release is noticed and a
  leftover one removed.
* Workload: what is deployed was built from the requested commit; whatever an
  attempt put anywhere is where its row says; a stop that reports success has
  removed it; leftovers are removed, of ended deployments only; a vanished
  workload is noticed.
* Runner: attempts are bounded; no child outlives its call; a claim's
  silence is bounded through failures, timeouts and retries.
* Frontend: what is shown belongs to the selected deployment; no interval leaks;
  the end of the polled deployment comes on display.

## 2. The modules

| Module | Contents |
|---|---|
| `Lifecycle` | the two transition graphs and `can_transition_to` |
| `WorkQueue` | workers, commands, reconciler, administrator, time, crashes over the shared rows; properties; fairness |
| `Attempt` | abstract specification: an attempt waits, is begun at most once by one worker, and ends for good |
| `WorkQueue_proofs` | theorems about `WorkQueue` that need no assumption on timing |
| `WorkQueueHealthy_proofs` | command keys, and theorems about workers that keep their TTL |
| `WorkQueueStatuses_proofs` | that the statuses agree, the refinement of `Attempt`, and what holds where nobody stops |
| `MCWorkQueue` | instances for TLC: two workers (symmetric), one deployment |
| `HelmRelease` | the release that all attempts of a project and environment share: pipelines, commands, reconciler, crashes |
| `HelmRelease_proofs` | theorems about `HelmRelease` |
| `MCHelmRelease` | instance for TLC: two workers, two attempts |
| `Intake` | concurrent request handlers: pushes, deploy, redeploy, retry, stop and cleanup, project edits and deletion |
| `Inbox` | abstract specification: a delivery is answered once, and makes all its deployments in the step that accepts it |
| `Intake_proofs` | theorems about `Intake`, among them that it implements `Inbox` |
| `MCIntake` | instances for TLC |
| `Workload` | one attempt's source, image and workload in Docker or a Kubernetes namespace: pipeline, commands, reconciler, reconfiguration, outages, late effects |
| `Workload_proofs` | theorems about `Workload` |
| `CommandRunner` | the external calls of a step against the clock: deadline, heartbeat, retries, and how long the claim goes without a refresh |
| `CommandRunner_proofs` | theorems about `CommandRunner` |
| `Dashboard` | the console's selection, display and polling, with answers in any order |
| `Dashboard_proofs` | theorems about `Dashboard` |
| `MCParts` | instance for TLC of the last three components, which share no variable |
| `MCOutage` | instance for TLC of `Workload` with an outage of the runtime |

The models meet where one assumes what another shows.  `HelmRelease` and
`Workload` reduce the lease to "held until finished, crashed or stalled", which
`WorkQueue` shows of workers that heartbeat in time (`HealthyWorkersKeepClaims`,
`OnePipeline`).  What their calls allow is in `CommandRunner`: `SilenceIsBounded`
bounds the time between two refreshes by the number of calls, and by
`FreshWhileCallsFit` workers do heartbeat in time while no call is given input and
the calls between two commits fit into the TTL.  No setting guarantees either,
hence `Stallable`.  `Intake` produces the rows all of
them start from, with the commit that `ServesWhatWasBuilt` is about.

### How WorkQueue corresponds to the code

| Model | Code |
|---|---|
| `status`, `build`, `claim`, `target` | `platform_deployments.status`, `builds.status`, `claimed_by`/`claimed_at`, `deploy_target` not null |
| `cmd[d][t]` | the latest `deployment_commands` row of that type: status, `active_key`, claim |
| `pc`, `job`, `task` | the point of `process_deployment` or `process_deployment_command` a process is at |
| `view[w]` | the worker's open snapshot of its deployment; `NoView` after a commit |
| `rview` | the rows in the read view of the reconciler's open transaction |
| `ClaimDeployment`, `ClaimCommand` | `claim_next_pending_deployment`, `claim_next_pending_command`: select, then guarded `UPDATE` |
| `BeginStep`, `StepSucceeds`, `PersistTarget`, `GoRunning` | the step calls of `pipeline.py`: ownership check, transition, refresh, commit |
| `StepFails`, `StepRaises`, `MarkFailed`, `WorkerDies` | the `except` clauses of `process_deployment`; `WorkerDies` is `mark_failed` raising inside one |
| `LoseClaim`, `AcknowledgeCancellation` | `persist_claim_loss`, `persist_cancellation_acknowledgement` |
| `StartCommand` ... `CommandClaimLost` | `process_deployment_command` |
| `OpenReadView`, `HandlerCommits`, `ReadClaimAges`, `ReconcileStaleClaim`, `ReconcileMissingWorkload` | a reconciler pass |

A step of a worker is one database transaction with the reads it rests on.  The
reads are taken from `view`, so that everything between "read" and "write" can
interleave: `ReadRow` may open the snapshot at any moment before the commit, and
`Written` writes only what differs from it.  A guarded `UPDATE`
(`refresh_claim`) is evaluated on the current row, as in MySQL.

Abstractions, each chosen so that the properties cannot tell:

* Timestamps are two values, fresh and stale.  `ClaimExpires` makes a claim
  stale when its holder is no longer working on it, or is in `Stallable`.  A
  worker stalls when its process is paused, or when it runs a command with
  stdin, which sends no heartbeat (`command_runner.py:172-181`; the timeout is
  600 s, the TTL 300 s).
* `OldReads` says whether the reconciler may act on rows it read before other
  statements ran.  FALSE: each row is examined in the transaction that has just
  read it, with no statement of another process in between (a short table and
  a quick runtime: the CronJob's `run-reconciler-once`).  TRUE: the view lasts
  until a commit, across rows and across passes of `run-reconciler-loop`
  (`docker-compose.yml`).
* API handlers are atomic; their own races are in `Intake`.
* The executor is Kubernetes (the one that persists a runtime identity before
  preflight).  Which command of the pipeline runs outside is left to `task`;
  its outcome is a choice.
* The order in which pending commands are picked is free (the code takes the
  oldest first).  Deployments are taken oldest first.
* Events, logs, metadata, results and the deletion of projects are left out.
* `SkipCommand` may or may not happen: a newer attempt may exist outside the
  instance.

### How HelmRelease corresponds to the code

`WorkQueue` asks what happens to one attempt; `HelmRelease` asks what several
attempts do to the one thing they share, so it keeps the order of side effects
on the cluster and drops leases and snapshots (a worker here holds its claim
until it finishes or crashes, which `HealthyWorkersKeepClaims` justifies for
workers that heartbeat).

| Model | Code |
|---|---|
| `status`, `target`, `command` | the row's status; `deploy_target` and Kubernetes mode recorded; type of the active command |
| `release` | the attempt whose `helm upgrade --install` reached the cluster last, `None` after `helm uninstall` |
| `worker[w].at` | `claimed`, `build` (clone to verify, one status `building`), `target`, `preflight`, `upgrade`, `healthcheck`, `failing`; `command`, `removing`, `removed` |
| `rec` | the reconciler between a look at the cluster and the write or uninstall that follows |
| `NewerExists`, `Historical` | `newer_helm_workload_owner_id`, the conditions of `skip_historical_helm_command` |
| `SeeMissing`/`MarkMissing`, `DecideToClean`/`Clean` | the two handlers of `reconciliation/helm.py`, split at the external call |

The helm client has no rollback flag (`helm/runner.py`), so a failed upgrade may
leave the new revision: `Upgrade` reaches the cluster and then succeeds or
fails, `StepFails` covers failing before.  `StopsBeforeTarget` says whether
operators stop attempts that have no recorded target.

### How Intake corresponds to the code

`Intake` is the other side of the queue: what inserts the rows that `WorkQueue`
and `HelmRelease` start from.  It ends where the row is committed; of the
workers only `EndCommand` is left.

| Model | Code |
|---|---|
| `project`, `rows`, `inbox`, `commands` | committed `projects`, `platform_deployments` with `builds`, `webhook_deliveries`, `deployment_commands` |
| `r.spec`, `r.commit` | `spec_snapshot_json` (settings abstracted to a version, and the branch), `builds.commit_sha` |
| `r.delivery`, `r.from` | metadata of the `deployment.created` event |
| `head`, `pushed` | the repository, and the pushes that GitHub reports |
| `pc[h]`, `job[h]` | where a handler is, what it read, what its open transaction has inserted |
| `PushArrives` | `github_webhook` up to the lookup in `reserve_delivery_id` |
| `Reserve`, `Duplicate` | the rest of `reserve_delivery_id`, for accepted and ignored deliveries |
| `Ignore`, `Create`, `Accept` | `persist_ignored_delivery` and the platform check; one turn of the loop over the matches; the commit |
| `DeployArrives`, `RedeployArrives`, `Resolve`, `InsertRow` | `deploy_project`, `redeploy_project`, `resolve_project_commit_sha`, `create_requested_deployment` |
| `RetryArrives` | `create_historical_retry` |
| `CommandArrives`, `Post`, `CommitCommand`, `PostConflicts`, `Reread` | `request_deployment_command` and `_queue_deployment_command` |
| `DeleteProject`, `Linked` | `delete_project`, with the foreign key that keeps a linked deployment |
| `RequestFails` | any exception or the death of the process: the session is rolled back |

A handler runs in a transaction that reads one snapshot, taken on arrival; the
unique keys and foreign keys are checked against the rows as they are, and an
insert waits for the transaction that holds the key (`KeyFree`, `KeyHeld`).
Abstractions: a project whose repository or trigger does not match a push is one
on another branch; the reason a delivery is ignored is not recorded; requests
rejected before they touch the database change nothing and are left out; which
statuses accept a stop is in `WorkQueue`; creating a project is left out, and so
is `POST /deployments`, by which an administrator inserts a record with a commit
and statuses of his own choosing.

### How Workload corresponds to the code

`Workload` follows one attempt through the outside world.  The names that the
manifest and the local executor give (`_container_name`,
`manifest_deployment_name`) contain the deployment's id, so no two attempts
share a workload and one attempt is the whole story.

| Model | Code |
|---|---|
| `row` | `status`, `deploy_target`, `kubernetes_namespace`, and the build's image columns: what `image_ref` is (`ref`) and `registry_push_status` (`pushed`) |
| `claim` | the lease, seen from one deployment: free, kept alive, or dead |
| `config`, `pipe.cfg` | the configuration a process started now reads; the one the pipeline's process was started with |
| `pipe.at`, `pipe.left` | the next external call of `process_deployment`, and its attempts (`retryable_steps`, ports, rollout rechecks) |
| `repo`, `image` | the workspace's repository; what the attempt's tag names locally and in the registry, and the pushed digest |
| `runtime[p]` | the parts of the workload at a place (Docker, or a namespace) and what they run |
| `loose` | a `docker run` or `kubectl apply` that outlived its worker |
| `Located` | `create_executor_for_deployment`: the row, and the configuration for what the row lacks |
| `CloneBegins` ... `VerifyImage` | `source_build.py`, `repository.py`, `image_build.py`, `registry.py` within the steps of `pipeline.py` |
| `RecordTarget` | `persist_kubernetes_runtime_identity` and the commit of `deploy_target`, before preflight |
| `PreflightPasses` ... `HealthFails` | `preflight_deploy`, `deploy` of both executors |
| `CommandClaimed` ... `CommandSucceeded` | `process_deployment_command` with `executor.stop` |
| `WatchStarts` ... `WatchCleans` | the handlers of `reconciliation/docker.py` and `reconciliation/kubernetes.py`, split at each external call |

Abstractions:

* A tree or an image is named by its origin (`Contents`): the requested commit,
  the branch's head, or something foreign.  A tag may be moved by anybody
  (`Retagged`), a branch always differs from the commit.
* The row is written in full view of every actor; what stale snapshots do to it
  is the subject of `WorkQueue`.  Kept is the reconciler's own window: the
  status it read against the status when it acts (`watch.status`).
* A command that is killed, or whose worker died, may still take effect once
  (`LateEffect`).  A failed `kubectl apply` may have applied any part.
* An outage makes each command fail, including those that only look.  A command
  that times out while looking raises instead (`WatchBreaksOff`).
* `MaxLosses` counts crashes, stalls and broken-off passes together.

### How CommandRunner corresponds to the code

| Model | Code |
|---|---|
| `kind` | `_run_command` without and with `input_text`, and the probe loop of `services/healthcheck.py` (on Kubernetes through a port-forward, `executors/kubernetes/healthcheck.py`) |
| `at = "look"` | the top of the loop: exit, deadline, heartbeat, in the code's order |
| `since`, `beat` | `deadline` and `last_heartbeat`, which count anew in every attempt |
| `silence`, `calls` | the age of `claimed_at`; external calls since `begin_step` or `commit_step_result` refreshed it |
| `AttemptFails` | the end of an iteration of the retry loop: `min(attempt, 3)` seconds of `sleep`, or the end |
| `HeartbeatRaises` | `ClaimLostError`, a cancellation or a database error out of the heartbeat, after `process.kill()` |

Time is counted in polls of half a second.  Output capture and redaction are left
out.  `SIGKILL` is immediate: after a heartbeat error the code waits up to five
seconds for the killed child, and a child that needed longer would turn the error
into a timeout, which is retried.  A runner injected by tests is left out.

`RunnerAssumption` is what `validate_numeric_config` accepts at start
(`Interval < TTL`), and no property of the module has a further condition on them.

### How Dashboard corresponds to the code

| Model | Code |
|---|---|
| `selected`, `summary`, `artifacts` | `selectedDeployment`; `deploymentSummary` with the events; logs and diagnostics, with the deployment they belong to |
| `timer`, `intervals` | `pollingTimer`; the intervals the browser really runs, so that a lost handle would show |
| `loads`, `poll`, `inFlight` | calls of `selectDeployment` between their two waits, the call of `pollSelectedDeployment`, `pollingRequestInFlight` |
| `LoadServed`, `PollServed` | the API reads the database: the answer is as old as that moment |
| `LoadRefreshed`, `LoadEnds` | the continuations of `selectDeployment` after its first and second `await` |
| `Tick`, `PollRefreshed`, `PollEnds`, `PollFails` | `pollSelectedDeployment` |

A deployment is active or ended.  Forms, project lists and the polling of live
health are left out; a request is answered or fails (the browser's own timeouts
included).

## 3. The runs

| Run | Instance | Shows |
|---|---|---|
| `workqueue_healthy` | `WorkerFairSpec` (the reconciler unfair), 2 workers, 1 deployment with tests, 2 crashes, stop and cleanup, nobody stalls, short passes | `TypeOK`, `Exclusive`, `CommandKeys`, `HealthyWorkersKeepClaims`, `StatusGraph`, the refinement `AttemptSpec`, and `StopIsServed`, `QueueDrains` |
| `workqueue_adverse` | both workers may stall, the reconciler acts on old rows, stops | `OnePipeline`, `StatusesAgree`, `FencedWrites` |
| `workqueue_recovery` | `FairSpec`, 2 crashes, cleanups, PATCHes of either status to `failed` | `InterruptedWorkEnds`, `StaleClaimsEnd` |
| `workqueue_orphan` (violation) | no crash, no stall, short passes | `InterruptedWorkIsRecoverable` fails |
| `workqueue_worker_dies` (violation) | same | `WorkersSurvive` fails |
| `workqueue_loop` (violation) | `FairSpec`, 1 crash, old reads | `StaleClaimsEnd` fails |
| `helm_shared` | 2 workers, 2 attempts, 1 crash, `FairSpec`, stops only of attempts with a target | `TypeOK`, `InstalledIsKnown`, `NobodyRemovesNewer`, `MissingIsNoticed`, `LeftoversGo` |
| `helm_stop` (violation) | same without crash, any attempt may be stopped | `NobodyRemovesNewer` fails |
| `intake_create` | 2 handlers, 2 projects, 2 branches, 1 push delivered any number of times, 1 edit of each project, 2 deployment ids, no commands; handlers, projects and branches symmetric | `TypeOK`, `CommitOnBranch`, `RetryReproduces`, and the refinement `InboxSpec` |
| `intake_answer` | `FairSpec`, 2 handlers, 1 project, 1 branch, 1 delivery, 2 deployment ids, 2 command ids, stops | `OneActiveCommand`, `AnswersWithItsOwn`, `Answered` |
| `parts`, of `Workload` | 3 configurations (Docker; Kubernetes in either of 2 namespaces), 1 retry, 1 reconfiguration, 1 crash or stall, 1 outage, 1 part removed by somebody else | `WorkloadTypeOK`, `InstalledIsLocated`, `ServesWhatWasBuilt`, `CleansOnlyEnded`, `StopFindsIt`, `GoneIsNoticed`, `LeftoversAreRemoved` |
| `parts`, of `CommandRunner` | interval 3, timeout 10, health timeout 6, TTL 54 polls, 2 retries, 2 polls a second, probes of up to 3 polls, 2 calls | `RunnerTypeOK`, `SilenceIsBounded`, `NoChildOutlives`, `CallIsBounded` |
| `parts`, of `Dashboard` | 2 deployments, 2 overlapping selections | `DashboardTypeOK`, `ShowsSelected`, `NoStrayInterval`, `EndIsShown` |
| `workload_outage` (violation) | Kubernetes, 1 outage, nothing else goes wrong | `FailedOnlyIfMissing` fails |

In `WorkQueue`, two workers and one deployment are the smallest instance in which each race of
the hazard list can happen: every hazard is about two processes and one row, as
no code path of a worker reads another deployment's row except the choice of
the oldest pending one (and Helm ownership, the subject of `HelmRelease`, where two attempts are the
fewest with an older and a newer one).  Two crashes allow the
worker that repeats interrupted work to be interrupted itself.  What these
bounds might hide from `OnePipeline` and `TypeOK` the proofs cover.

`MaxCrashes` is the only bound on its behaviours; commands may be requested again
without limit, which is why the state space is finite but the behaviours are
not.

For `Intake` two handlers are what each race needs.  `intake_create` has two
projects so that one push makes several deployments and can fail half-way, and
two branches so that a request, a project and a push can differ in theirs;
`intake_answer` leaves both out and adds the commands.  `MaxRows` and
`MaxCommands` bound the ids: an insert beyond them fails like one the database
refuses, so no request waits for the bound.  Two deployment ids are a source and
its retry, or the two deployments of one push.  The theorems hold for any bounds.

`parts` is one run of three components that share no variable: each of its
behaviours is one of one component, while the other two rest in their initial
states, so the state space is the sum of the three and not their product.

In `Workload` each bound is one because each hazard is one event at the wrong
moment: a reconfiguration between deploying and removing, a crash with a command
under way, an outage during a look.  Three configurations let target and namespace
change independently.  The safety properties are proved for all bounds.  In
`CommandRunner` a call has three attempts and there are two calls, so that the
clocks start anew within a call and across calls; `SilenceIsBounded`
then allows 2 * 3 * (3 + 6) polls, a simple bound and not the least: pauses are
counted at their longest.  The TTL only has to exceed the interval.  In `Dashboard`
two deployments and two loads are what an answer for an older selection needs.

### What the violations mean

* `workqueue_orphan`: the pipeline releases its claim when it sees a stop
  (`claims.py:184`) and leaves the deployment, say, `building`; the stop then
  fails.  No claim can grow stale and no command is active, so nothing ever
  touches the row (`docs/reliability.md:12` promises an explicit failed record).
  An operator can repeat the stop.
* `workqueue_worker_dies`: a queued deployment stays claimable while its stop
  runs.  If the stop completes between claim and first step, `begin_step` raises
  on `stopped -> cloning`, `mark_failed` raises on `stopped -> failed` in the
  handler, and the process ends.  The claim goes stale and is cleaned up later.
* `workqueue_loop`: `run_reconciler_loop` keeps one transaction open between
  passes that change nothing, and under repeatable read each later pass sees the
  rows of the first.

* `helm_stop`: `skip_historical_helm_command` returns early for an attempt
  without `deploy_target` (`command_processor.py:144`); the executor then falls
  back to the configured mode and uninstalls the shared release
  (`executors/kubernetes/executor.py:139`), although a newer attempt owns it.

* `workload_outage`: `kubectl get` and `docker inspect` that fail are read as
  "not found" (`executors/kubernetes/preflight.py:220`,
  `executors/docker_runtime.py:154`).  One pass of the reconciler while the API
  server does not answer turns a healthy running deployment to `failed`, although
  `docs/deployment.md:64` promises that for a missing workload, and a later pass
  removes the workload as a leftover.

Further behaviours the models reproduce, each found by TLC and explained by the
lines named; they are not runs of their own but follow by changing one constant
of a run above:

* `Exclusive` fails in `healthy` with `Stallable = {w1}` and cleanups only: a
  cleanup is no cancellation signal (`claims.py:111` looks for `stop`), so a
  worker that outlived its TTL resumes beside it.
* `StatusGraph` fails with `OldReads = TRUE`: the reconciler checks the
  transition on the row it read and writes `failed` over `stopped`
  (`reconciliation/claims.py:52`).  `StatusesAgree` holds even then.
* `StatusesAgree` fails with `Stallable = {w1, w2}` and *both* commands.  A worker
  reads its row before a stop is requested and stalls past its TTL; the stop
  completes (`stopped`, `cancelled`); the worker writes `building` over both, from
  its snapshot; its claim is stale again, a cleanup finds a deployment that is
  `building` and writes `stopped` beside a build that it does not touch.
* `AttemptSpec` fails with `Stallable = {w1, w2}` and stops: the same worker begins
  an attempt that the stop has ended.
* `InterruptedWorkIsRecoverable` fails also without any command, with `OldReads =
  TRUE`: a row read as `pending` with a stale claim lets the reconciler clear the
  claim, by primary key, of work that another worker has begun since.
* `WorkersSurvive` fails also without stops, with cleanups and `Stallable = {w1,
  w2}`: the cleanup writes `stopped` beside a worker that outlived its TTL.
* `HealthyWorkersKeepClaims` fails with `OldReads = TRUE`: the cutoff is
  computed now, `claimed_at` was read earlier (`reconciliation/claims.py:29`).
  The worker then loses its claim, safely.  So does it with `Stallable = {w2}`: w2
  outlives its TTL, w1 takes the deployment, and w2 acknowledges a stop that is
  over by clearing the claim of w1 (`claims.py:184`, by primary key).
* `InterruptedWorkEnds` fails with `PatchBuilds = {"cancelled"}`: each recovery
  raises at `build.transition_to("failed")` (`reconciliation/claims.py:55`).
* A stop finishing with the build status it read before the reconciler failed
  that build writes `cancelled` over `failed` (`command_processor.py:215`);
  the build's graph has no such edge, so only the deployment's graph is stated.
* `QueueDrains` fails with two deployments if an operator repeats the stop of
  one for ever: commands are always served before deployments
  (`work_items.py`).

* In `helm_shared`, "a running attempt is never newer than what is served"
  fails: attempts of a project are not serialised, and the older upgrade may
  reach the cluster last.
* "The release of a running attempt is not cleaned up" fails: an attempt that
  fails in preflight is the newest and has a target, so the reconciler takes
  the release an older attempt is serving from for its leftover
  (`reconciliation/helm.py:68`).
* `NobodyRemovesNewer` speaks of the decision.  A pipeline that runs entirely
  between the reconciler's ownership check and its `helm uninstall` installs
  what is then removed (`docs/reliability.md:18` says "cannot").

Two behaviours of `Intake` that its properties allow:

* A push that arrives while the platform is not ready is recorded as ignored
  (`webhooks.py:297-302`); when GitHub delivers it again it is a duplicate, so
  the push is never deployed.  `Inbox!Ignore` is final for that reason.
* `DeleteProject` needs `Linked(p) = {}`: once a push has made a deployment for
  one project alone, `webhook_deliveries.deployment_id` names it, nothing clears
  that column, and MySQL refuses the delete (`docs/api-reference.md:53` does not
  mention it).

And of `Workload`, `CommandRunner` and `Dashboard`:

* What a *stopped* deployment left in Docker is never removed: only the
  Kubernetes handler looks at stopped rows, so `LeftOnDocker` speaks of failed
  ones.  It takes a `docker run` that takes effect after the stop.
* `Interval < TTL` does not keep a claim fresh: a heartbeat's clock starts anew
  with each command (`command_runner.py:194`), so a preflight of many
  `kubectl get`s of just under 30 s each sends none, and after more than ten of
  them the claim is stale although the worker never stopped working.  At the
  defaults (interval 30 s, one retry, probes of up to 5 + 1 s) a call adds at most
  2 * (30 + 6) = 72 s, so that four calls between two commits are sure to fit into
  the 300 s of the TTL.
* `allow_heartbeat=False` has no effect: `_heartbeat_if_due` replaces `None` by the
  executor's own heartbeat (`command_runner.py:227`).  `SilenceIsBounded` holds
  for these calls because of that.
* A command with input sends no heartbeat at all (`blind`).
* Logs, diagnostics and the timer are set after a second wait without asking
  what is selected by then (`useDeployments.js:65`).  If A is selected, then B,
  and A's artifacts arrive last, A's logs are shown beside B, and
  `startDeploymentPolling(A)` replaces B's interval by one that finds A not
  selected each time it fires: B is not polled although it is active
  (`docs/architecture.md:94` says it is).  `EndIsShown` therefore speaks of the
  deployment that the interval is for.

Not part of a model, but met on the way:

* `selectDeployment` of `App.vue:274` reads `summary.service_url` where the
  composable has returned null because another deployment was selected meanwhile;
  the resulting TypeError is shown as an error.
* Retention removes directories one after the other and commits once, at the end
  (`retention.py:117`).  A crash in between leaves directories gone without the
  `observability.artifacts_removed` marker that clients are told to go by
  (`docs/architecture.md:115`); the next run skips them, since they do not exist.

## 4. Fairness

`WorkerFairSpec` assumes:

* `WorkersProceed`: a worker process keeps taking its own steps
  (`run_worker_loop` polls for ever, every external call has a timeout, and a
  killed process is restarted: `restart: unless-stopped`, or the Deployment's
  pods).  Not that it heartbeats, nor that a step succeeds: success, failure and
  exception stay choices.
* `TimeProceeds`: a claim nobody refreshes grows stale.
* `PollsDrift` (strong fairness of claiming a command): two workers can
  otherwise alternate so exactly that a queued deployment whose stop is
  pending is always claimed when a poll looks for commands, then released at
  once.  With poll intervals and commands of varying length the polls drift.

`FairSpec` adds `ReconcilerProceeds`: passes come back to each row.  Ending the
transaction (`HandlerCommits`) is *not* assumed, since the code does not ensure
it; `workqueue_loop` is exactly that.  `workqueue_recovery` therefore uses short
passes.  Operators, administrators, crashes and heartbeats are never fair.

`HelmRelease!FairSpec`: workers keep stepping; passes examine every row again
and again (`iter_reconcilable_deployments`), so `Examine(d)` is strongly fair
per row; and a repair repeated for ever succeeds in the end (`Repair` is
strongly fair, `CleaningFails` always possible).  API calls and crashes are not
fair.

`Intake!FairSpec`: strong fairness of each handler's steps.  A request thread
runs on, and InnoDB grants a released lock to a transaction that waits for it;
weak fairness would let an endless series of failing requests pass the key
around a waiting one.  No request, edit, worker or failure is fair.

`WorkloadSpec`: weak fairness of the reconciler's looking and acting
(`WatchSteps`; `run-reconciler-loop`, or the CronJob), of `LateEffect` (a command
without a worker ends, with or without effect) and of `OutageEnds`.  No request,
worker, reconfiguration or recovery of stale claims is fair.  Breaking off a pass
is bounded by `MaxLosses` and by the outages, as both liveness properties need.

`DashboardSpec`: the browser's intervals fire (`Tick`, weakly fair per deployment),
and a request of a poll is answered or fails.  The answers of `selectDeployment`
need not come.  `RunnerSpec` states no fairness: its properties are bounds.

## 5. What is proved

For all sets of workers and deployments, any `MaxCrashes`, every `Stallable`,
`OldReads`, `Requestable`, `PatchStatuses` and `PatchBuilds`, from
`WorkQueueAssumption` alone:

* `TypeCorrect`: `Spec => []TypeOK`.  `TypeOK` is strengthened with `JobOK` (a
  busy process has a deployment and a step).  The one step that is not routine is
  `BeginStep`: `Opens` has values that are no build status, and only the check of
  the build's graph keeps them out.
* `OnePipelineAlways`: `Spec => []OnePipeline`.  `OnePipeline` is not inductive:
  a worker about to begin may hold a claim that others lost.  `PipelineInv` adds
  1. `SnapshotsAge`: a snapshot that is no longer pending was taken of a
     deployment that is no longer pending (statuses never go back);
  2. `IdleHasNoSnapshot`;
  3. `BegunIsNotPending`: once begun, a deployment cannot be claimed again;
  4. `BeginningTakesTheClaim`: whoever claimed a deployment before another
     worker began it no longer holds its claim, so the guarded `UPDATE` of
     `refresh_claim` stops it;
  5. `BegunAreApart`.

  `CalmStep` shows that a step preserves all five if it makes nothing pending,
  gives no claim to a new holder and lets nobody begin; only `ClaimDeployment`
  and `BeginStep` need their own argument.

* `FencedWritesAlways`: `Spec => FencedWrites` if no PATCH may write a pipeline
  status.  `StatusWriter` lists who changes a status at all; the two operations
  that can write a pipeline status both pass `refresh_claim` on the current row.
* `CommandKeysAlways`: `Spec => []CommandKeys`.  `CommandSteps` describes what any
  step but a claim does to one command (nothing, a new request, ageing, a refresh
  or an end by its holder), and each keeps the key.

With one more assumption, `Healthy` (`Stallable = {}`, `~OldReads`, and no PATCH
to `running`), still for any number of workers, crashes and requests:

* `ExclusiveAlways`: `Spec => []Exclusive`,
* `HealthyClaimsAlways`: `Spec => []HealthyWorkersKeepClaims`,
* `StatusGraphAlways`: `Spec => StatusGraph`, if moreover `PatchStatuses = {}`.

Each part of `Healthy` is needed: section 3 names the behaviour that violates
the property without it.  `HealthyInv` strengthens `PipelineInv` by

  1. `WorkersHoldClaims`: a worker in the pipeline holds a fresh claim, hence
     nobody can claim the deployment or a command of it;
  2. `WorkPrecedesRunning`, so that the missing-workload check never concerns
     it (this is where a PATCH to `running` would break the argument);
  3. `CommandersHoldCommands`: a worker that runs a command holds that command;
  4. `TargetIsNotPending`, `CleanupHasTarget`: a deployment that is claimed
     from the queue has no cleanup;
  5. `PipelineYields`: hence a worker that claimed a deployment beside a running
     command is beside a *stop*, has not begun, and its snapshot or the row
     shows the stop, so every ownership check turns it away.

`StatusGraphAlways` adds `SnapshotsCurrent`: a snapshot without a stop shows the
row's present status.

`WorkQueueStatuses_proofs` needs none of `Healthy` as a whole.  For any number of
workers and crashes, any `OldReads` and, where not excluded, any `Stallable`:

* `StatusesAgreeAlways`: `Spec => []StatusesAgree`, if nobody PATCHes and, should
  operators use both commands, nobody stalls (`Orderly`);
* `AttemptRefined`: `Spec => AttemptSpec`, if nobody PATCHes and, should operators
  stop deployments, nobody stalls (`StopsInTime`).

Section 3 gives the counterexamples of TLC for what the two exclude.  A PATCH may
write a pair of statuses of the administrator's choosing, so it has no place here.
`AgreeInv` strengthens `PipelineInv` and `CommandKeys` by

  1. `RowsPaired`, `ViewsPaired`, `ReadsPaired`: a row, a worker's snapshot and the
     reconciler's old row each hold a pair of statuses that belong together;
  2. `OwnerSees`: what the owner of a claim saw before any stop is still so, unless
     a stop ended it; the attributes it writes therefore complete the pair it saw;
  3. `LateIsBuilt`: an owner past its push has a succeeded build, or a stop is
     ahead of it;
  4. `FinishedIsFree`: a deployment that runs or failed has lost its claim for good,
     also when only the reconciler remembers it so;
  5. `StopperSees`, `SameRow`: a build that a stop saw ended does not resume, and a
     stop beside an owner that overlooked it saw the row the owner saw, so that
     whichever writes last leaves a pair;
  6. `CleanupIsLate`, which carries cleanups (what can be cleaned up has no active
     build, and nobody is about to give it one), and `InTime`, which carries
     `Stallable = {}` (an owner's claim is fresh, and it overlooks no command).

The refinement adds `QueuedIsPending`: a deployment whose claim holder has not begun
it was not begun by anybody; it is `pending`, or a stop ended it.  `AttemptSteps` then maps each
action: `BeginStep` of such a worker is the abstract begin (`StartStep`,
`OneAtATime`: it is the only one), a terminal status is the abstract end, and the
rest stutters, because the mapped runner is the worker that began the attempt
(`TheRunner`, `TheNextRunner`).

Two theorems isolate the cause of a violation of section 3, by proving the
violated property without it:

* `RecoverableWithoutStops`: `Spec => []InterruptedWorkIsRecoverable` if nobody
  stops or PATCHes and `~OldReads`, whatever stalls and crashes.  Work in progress
  then always has a claim (`WorkIsClaimed`): only an acknowledged stop, or an old
  row, clears one and leaves the work.
* `SurviveWithoutStops`: `Spec => WorkersSurvive` if nobody stops or PATCHes and
  no worker stalls beside cleanups.  An owner's deployment is then never stopped
  under it (`OwnersGoOn`), so `mark_failed` has a legal transition.

About `HelmRelease`, for all sets of attempts and workers, from
`HelmReleaseAssumption`: `TypeCorrect`; `InstalledIsKnownAlways`; and
`NobodyRemovesNewerAlways` if `~StopsBeforeTarget` (`helm_stop` shows why that
is needed).  All three follow from one inductive invariant, `IInv`: a worker at
`preflight` or `upgrade` has persisted its target (`ReachedCluster`), so what is
installed has a row and a target (`InstalledHasRow`); commands and busy workers
belong to existing rows; and commands have targets (`CommandsHaveTarget`).
`DecisionCases` then reduces the action property to two steps, each of which
has just asked `NewerExists`.

About `Intake`, for all sets of handlers, projects, branches, deliveries and
command types, and any bounds, from `BoundsAssumption` and `NoneAssumption`
(`None` is no delivery and no answer): `TypeCorrect`, `OneActiveCommandAlways`,
`AnswersWithItsOwnAlways`, `CommitOnBranchAlways`, `RetryReproducesAlways`, and
`DeliveredOnce`, that `Intake` implements `Inbox`: `Spec => InboxSpec`.  One
inductive invariant carries all six; each part says what an open transaction
may rely on:

  1. `CommandIds`: a command being posted has an id and a key of its own;
  2. `OverStaysOver`: ids that were over on arrival stay so, and nobody is about
     to commit one of them;
  3. `CommitsReached`: what a push reported, or a branch resolved to, was reached
     by that branch, in rows and in jobs;
  4. `RetrySources`: a retry's source is there, or its project is gone and the
     insert will fail;
  5. `OneAtATime`: a delivery is held by one transaction, only while it is not on
     record, and has at most one deployment per project so far.

In the refinement `Accept` maps to `Inbox!Accept` with the projects made so far,
`Ignore` to `Ignore`, `DeleteProject` to `Forget`, and everything else stutters;
`OneAtATime` is what makes the mapped `Accept` enabled and its deployments the
only ones.

About `Workload`, for all sets of namespaces and configurations, any number of
retries, reconfigurations, losses, outages and removals, from
`WorkloadAssumption`: `TypeCorrect`, `InstalledIsLocatedAlways`,
`ServesWhatWasBuiltAlways`, `CleansOnlyEndedAlways` and `StopFindsItAlways`.
`WorkloadInv` carries all five and adds

  1. `RecordedOnce`: a pipeline that holds its claim has no recorded target before
     the recording step, and works where the row says (`Home = Here`) after it;
  2. `LooksAtHome`: a command that has been claimed works there too;
  3. `Apart`: no command is claimed while a pipeline that has begun holds its
     claim, which is why a command cannot have chosen its place too early;
  4. `ContentInv`: source and image are those of the commit from checkout and
     build on, and the row names a digest, or the local image if there is no
     registry, from verification on;
  5. `WatchInv`: a deployment that was read as failed or stopped still is one
     of the two, since both only lead to `stopped`.

`RuntimeSteps` says what any step does to the runtimes: the pipeline puts
something at its own place, somebody lets parts go, a late command arrives, or
nothing happens.  `OrderKept` shows that the recorded place changes only while
nothing is installed or under way; both properties about places follow from the two.

`FailedOnlyIfMissingWithoutOutages` proves what `workload_outage` violates, if
`MaxOutages = 0`: an outage is the only way in which a deployment whose workload is
there becomes failed, although the reconciler acts on what it saw earlier.
`SeenInv` says why that knowledge keeps: a deployment that runs has no pipeline and
no late command, so that nobody puts anything to work and what was missing stays
missing (`Shrinks`); one that was read as running either still runs, at the place
that was looked at, or has ended.

About `CommandRunner`, for any settings that `RunnerAssumption` accepts:
`TypeCorrect`, `NoChildOutlivesAlways`, `CallIsBoundedAlways`,
`SilenceIsBoundedAlways`.  `TimeInv` says that the time spent is at most a whole
attempt (`Whole`) for each earlier attempt and the present one's own clock.
`FreshInv` says that the silence is at most a lapse (interval and pause) for each
earlier attempt of each call and the present attempt's heartbeat clock; hence
`Share` per call.  `FreshWhileCallsFit` is its consequence for the TTL, and carries
its condition in its statement.  The arithmetic is in a few lemmas about
multiples (`NextMultiple`, `MultiplesGrow`).

About `Dashboard`, for any deployments and any number of selections in progress,
from `DashboardAssumption`: `TypeCorrect`, `ShowsSelectedAlways`,
`NoStrayIntervalAlways`.  `TimerInv`, that the intervals are exactly the one the
timer names, is `NoStrayInterval` as an equation between functions: each handler
either cancels all and schedules one, or touches neither.

Every invariant, action property and refinement of the passing runs is proved,
under the hypotheses named above.
Only model-checked is liveness, since fairness is beyond TLAPS here: `StopIsServed`,
`QueueDrains`, `InterruptedWorkEnds`, `StaleClaimsEnd`, `MissingIsNoticed`,
`LeftoversGo`, `Answered`, `GoneIsNoticed`, `LeftoversAreRemoved`, `EndIsShown`.

## 6. Plan, and what is not modelled

1. *Composition*: `Workload` against the lease of `WorkQueue` in full, rather than
   by what `WorkQueue` shows of it.  Its runs would need a smaller pipeline.

Not modelled: rendering of manifests and Helm values, diagnostics, read models,
validation of payloads, authentication, audit, metrics, health reports,
migrations and charts; they are sequential, hold no state between calls, or are
data.  The fake executor has no effect outside its process.  Worker events are
an append-only history; what reads them is in `HelmRelease`.  Retention is one
sequential command of an operator, whose one hazard is described in section 3.
Of the partly modelled components, `PROJECT.json` names what is left out.
