------------------------ MODULE WorkQueueHealthy_proofs ------------------------
(***************************************************************************)
(* What holds while workers refresh their claims in time and the           *)
(* reconciler examines rows as it reads them: a worker in the pipeline     *)
(* keeps its claim, and no stop or cleanup runs beside it.                 *)
(***************************************************************************)
EXTENDS WorkQueue_proofs

Healthy == Stallable = {} /\ ~OldReads /\ "running" \notin PatchStatuses

InPipeline(w) == pc[w] \in Pipeline
InCommand(w) == pc[w] \in Commanding

\* A worker in the pipeline holds a fresh claim ...
WorkersHoldClaims == \A w \in Workers : InPipeline(w) => claim[job[w]] = FreshClaim(w)
\* ... its deployment does not run yet, and it begins only steps with a status.
WorkPrecedesRunning == \A w \in Workers : InPipeline(w) => status[job[w]] # "running"
BeginningSteps ==
    \A w \in Workers : pc[w] = "begin" => task[w] \in {"clone", "build", "test", "tag", "target", "finish"}
ReconcilerIsCurrent == \A d \in Deployments : rview[d] = NoView

\* A worker running a command holds the command.
CommandersHoldCommands ==
    \A v \in Workers : InCommand(v) =>
        LET c == cmd[job[v]][task[v]]
        IN  c.status = "claimed" /\ c.active = TRUE /\ c.by = v /\ c.stale = FALSE
\* A deployment with a target is no longer pending, and only such deployments
\* are cleaned up.
TargetIsNotPending == \A d \in Deployments : target[d] => status[d] # "pending"
CleanupHasTarget == \A d \in Deployments : cmd[d]["cleanup"].status \in Active => target[d]

\* A worker beside a running command has not begun, and sees the stop.
PipelineYields ==
    \A w, v \in Workers :
        InPipeline(w) /\ InCommand(v) /\ job[w] = job[v] =>
            /\ ~Begun(w)
            /\ task[v] = "stop"
            /\ view[w] = NoView \/ view[w].stop

HealthyInv ==
    /\ PipelineInv
    /\ CommandKeys
    /\ WorkersHoldClaims
    /\ WorkPrecedesRunning
    /\ BeginningSteps
    /\ ReconcilerIsCurrent
    /\ CommandersHoldCommands
    /\ TargetIsNotPending
    /\ CleanupHasTarget
    /\ PipelineYields

USE DEF Statuses, BuildStatuses, Claims, Commands, CommandStatuses, Rows,
        ReconcilerRows, PCs, Pipeline, Commanding, Tasks,
        InPipeline, InCommand

-----------------------------------------------------------------------------
(* Claims *)

\* A worker in the pipeline holds its deployment's claim, fresh.
LEMMA HolderOf ==
    ASSUME HealthyInv, NEW w \in Workers, InPipeline(w)
    PROVE  /\ job[w] \in Deployments
           /\ claim[job[w]].by = w
           /\ claim[job[w]].stale = FALSE
<1>1. job[w] \in Deployments
  BY DEF HealthyInv, PipelineInv, TypeInv, JobOK
<1>2. claim[job[w]] = [by |-> w, stale |-> FALSE]
  BY DEF HealthyInv, WorkersHoldClaims, FreshClaim
<1> QED BY <1>1, <1>2

\* Two workers in the pipeline work on different deployments.
LEMMA OneHolder ==
    ASSUME HealthyInv, NEW w \in Workers, NEW u \in Workers, w # u,
           InPipeline(w), InPipeline(u)
    PROVE  job[w] # job[u]
<1>1. claim[job[w]].by = w /\ claim[job[u]].by = u
  BY HolderOf
<1> QED BY <1>1

\* The deployment of a worker in the pipeline cannot be claimed by anybody else.
LEMMA HeldIsNotFree ==
    ASSUME HealthyInv, NEW w \in Workers, InPipeline(w)
    PROVE  ~Free(claim[job[w]]) /\ job[w] \in Deployments
<1>1. job[w] \in Deployments /\ claim[job[w]].by = w /\ claim[job[w]].stale = FALSE
  BY HolderOf
<1> QED BY <1>1, WorkQueueAssumption DEF Free

\* What all steps but the claiming of a deployment do to claims.
ClaimsKept ==
    \A u \in Workers : InPipeline(u)' =>
        /\ InPipeline(u) /\ job'[u] = job[u]
        /\ claim'[job[u]] \in {claim[job[u]], FreshClaim(u)}

\* A worker's own step, ending its work or keeping its claim fresh, leaves the
\* claims of the others alone.
LEMMA OwnClaimStep ==
    ASSUME HealthyInv, NEW w \in Workers, InPipeline(w),
           \A u \in Workers \ {w} : pc'[u] = pc[u] /\ job'[u] = job[u],
           \/ InPipeline(w)' /\ job'[w] = job[w] /\ Refresh(w)
           \/ InPipeline(w)' /\ job'[w] = job[w] /\ claim' = claim
           \/ ~InPipeline(w)' /\ claim' = [claim EXCEPT ![job[w]] = NoClaim]
           \/ ~InPipeline(w)' /\ claim' = claim
    PROVE  ClaimsKept
<1> SUFFICES ASSUME NEW u \in Workers, InPipeline(u)'
             PROVE  /\ InPipeline(u) /\ job'[u] = job[u]
                    /\ claim'[job[u]] \in {claim[job[u]], FreshClaim(u)}
  BY DEF ClaimsKept
<1>1. claim \in [Deployments -> Claims] /\ job[w] \in Deployments
  BY HeldIsNotFree DEF HealthyInv, PipelineInv, TypeInv, TypeOK
<1>2. CASE u = w
  BY <1>1, <1>2 DEF Refresh
<1>3. CASE u # w
  <2>1. InPipeline(u) /\ job'[u] = job[u] /\ job[u] # job[w] /\ job[u] \in Deployments
    BY <1>3, OneHolder, HeldIsNotFree
  <2> QED BY <1>1, <2>1 DEF Refresh
<1> QED BY <1>2, <1>3

\* Every pipeline step refreshes, keeps or gives up the worker's own claim only.
LEMMA PipelineKeepsClaims ==
    ASSUME HealthyInv, NEW w \in Workers, PipelineOutcome(w) \/ ReadRow(w) \/ Heartbeat(w)
    PROVE  ClaimsKept
<1> USE DEF HealthyInv, PipelineInv, TypeInv, TypeOK, JobOK, Become, Proceed, rows
<1>1. CASE ReadRow(w)
  BY <1>1 DEF ReadRow, ClaimsKept
<1>2. CASE BeginStep(w)
  BY <1>2, OwnClaimStep DEF BeginStep
<1>3. CASE StepSucceeds(w)
  <2>1. BeginsAt(After(job[w], task[w])) \in Pipeline
    BY DEF BeginsAt
  <2> QED BY <1>3, <2>1, OwnClaimStep DEF StepSucceeds
<1>4. CASE PersistTarget(w)
  BY <1>4, OwnClaimStep DEF PersistTarget
<1>5. CASE Heartbeat(w)
  BY <1>5, OwnClaimStep DEF Heartbeat
<1>6. CASE GoRunning(w)
  BY <1>6, OwnClaimStep DEF GoRunning
<1>7. CASE MarkFailed(w)
  BY <1>7, OwnClaimStep DEF MarkFailed
<1>8. CASE StepFails(w)
  BY <1>8, OwnClaimStep DEF StepFails
<1>9. CASE StepRaises(w)
  BY <1>9, OwnClaimStep DEF StepRaises
<1>10. CASE WorkerDies(w)
  BY <1>10, OwnClaimStep DEF WorkerDies
<1>11. CASE LoseClaim(w)
  BY <1>11, OwnClaimStep DEF LoseClaim
<1>12. CASE AcknowledgeCancellation(w)
  BY <1>12, OwnClaimStep DEF AcknowledgeCancellation
<1> QED
  BY <1>1, <1>2, <1>3, <1>4, <1>5, <1>6, <1>7, <1>8, <1>9, <1>10, <1>11, <1>12
  DEF PipelineOutcome

\* Operators, commands, time and the reconciler take no claim from a worker in
\* the pipeline.
LEMMA OthersKeepClaims ==
    ASSUME HealthyInv, Healthy,
           \/ API
           \/ Reconciler
           \/ \E d \in Deployments : TimePasses(d)
           \/ \E w \in Workers :
                 \/ NoCommandToRun(w) \/ NothingPending(w)
                 \/ \E d \in Deployments, t \in CommandTypes : ClaimCommand(w, d, t)
                 \/ CommandOutcome(w) \/ CommandHeartbeat(w) \/ Crash(w) \/ Restart(w)
    PROVE  ClaimsKept
<1> USE DEF HealthyInv, PipelineInv, TypeInv, TypeOK, JobOK
<1>1. ASSUME process' = process, claim' = claim
      PROVE  ClaimsKept
  BY <1>1 DEF process, ClaimsKept
<1>2. CASE API
  BY <1>1, <1>2 DEF API, RequestCommand, PatchStatus, PatchBuild
<1>3. ASSUME NEW d \in Deployments, process' = process,
             claim' \in {claim, [claim EXCEPT ![d] = NoClaim], [claim EXCEPT ![d] = Aged(@)]},
             \A u \in Workers : InPipeline(u) => job[u] # d
      PROVE  ClaimsKept
  BY <1>3 DEF process, ClaimsKept
<1>4. ASSUME NEW d \in Deployments, ReconcileStaleClaim(d)
      PROVE  ClaimsKept
  <2>1. claim[d].stale
    BY <1>4 DEF ReconcileStaleClaim, StaleClaim, ReconcilerSees, ReconcilerRow, ReconcilerIsCurrent
  <2>2. \A u \in Workers : InPipeline(u) => job[u] # d
    BY <2>1, HolderOf
  <2> QED BY <1>3, <1>4, <2>2 DEF ReconcileStaleClaim
<1>5. ASSUME NEW d \in Deployments, ReconcileMissingWorkload(d)
      PROVE  ClaimsKept
  <2>1. status[d] = "running"
    BY <1>5 DEF ReconcileMissingWorkload, ReconcilerSees, ReconcilerRow, ReconcilerIsCurrent
  <2>2. \A u \in Workers : InPipeline(u) => job[u] # d
    BY <2>1 DEF WorkPrecedesRunning
  <2>3. claim' \in {claim, [claim EXCEPT ![d] = NoClaim]}
    BY <1>5 DEF ReconcileMissingWorkload
  <2> QED BY <1>3, <1>5, <2>2, <2>3 DEF ReconcileMissingWorkload
<1>6. ASSUME NEW d \in Deployments, ClaimExpires(d)
      PROVE  ClaimsKept
  <2>1. \A u \in Workers : InPipeline(u) => job[u] # d
    BY <1>6, HolderOf DEF ClaimExpires, Holds, Healthy
  <2> QED BY <1>3, <1>6, <2>1 DEF ClaimExpires
<1>7. ASSUME NEW d \in Deployments, NEW t \in CommandTypes, CommandClaimExpires(d, t)
      PROVE  ClaimsKept
  BY <1>1, <1>7 DEF CommandClaimExpires
<1>8. CASE Reconciler
  BY <1>1, <1>4, <1>5, <1>8 DEF Reconciler, OpenReadView, ReadClaimAges, HandlerCommits, rows
<1>9. ASSUME NEW w \in Workers,
             \/ NoCommandToRun(w) \/ NothingPending(w)
             \/ \E d \in Deployments, t \in CommandTypes : ClaimCommand(w, d, t)
             \/ CommandOutcome(w) \/ CommandHeartbeat(w) \/ Crash(w) \/ Restart(w)
      PROVE  ClaimsKept
  <2>1. claim' = claim
    BY <1>9 DEF NoCommandToRun, NothingPending, ClaimCommand, CommandOutcome, StartCommand,
       SkipCommand, BeginStop, CommandSucceeds, CommandFails, CommandClaimLost, CommandHeartbeat,
       Crash, Restart, rows
  <2>2. \A u \in Workers : InPipeline(u)' => InPipeline(u) /\ job'[u] = job[u]
    BY <1>9 DEF NoCommandToRun, NothingPending, ClaimCommand, CommandOutcome, StartCommand,
       SkipCommand, BeginStop, CommandSucceeds, CommandFails, CommandClaimLost, CommandHeartbeat,
       Crash, Restart, Become, Proceed
  <2> QED BY <2>1, <2>2 DEF ClaimsKept
<1> QED BY <1>2, <1>6, <1>7, <1>8, <1>9 DEF TimePasses

\* Only a worker that ends its pipeline makes a deployment run.
NoNewRunning == \A d \in Deployments : status'[d] = "running" => status[d] = "running"

\* Opening a step never makes a deployment run.
LEMMA BeginIsNotRunning ==
    ASSUME HealthyInv, NEW w \in Workers, BeginStep(w)
    PROVE  NoNewRunning
<1> USE DEF HealthyInv, PipelineInv, TypeInv, TypeOK, JobOK
<1>1. Opens(task[w]) # "running"
  BY DEF BeginStep, BeginningSteps, Opens
<1>2. /\ job[w] \in Deployments
      /\ status' = [status EXCEPT ![job[w]] = Written(Seen(w).status, Opens(task[w]), @)]
  BY DEF BeginStep
<1> QED BY <1>1, <1>2 DEF NoNewRunning, Written

\* Only GoRunning makes a deployment run.
LEMMA RunningIsReached ==
    ASSUME HealthyInv, Healthy, Next
    PROVE  NoNewRunning \/ \E w \in Workers : GoRunning(w)
<1> USE DEF HealthyInv, PipelineInv, TypeInv, TypeOK, JobOK
<1>1. ASSUME status' = status
      PROVE  NoNewRunning
  BY <1>1 DEF NoNewRunning
<1>2. CASE API
  <2>1. ASSUME NEW d \in Deployments, NEW s \in PatchStatuses, PatchStatus(d, s)
        PROVE  NoNewRunning
    BY <2>1 DEF PatchStatus, NoNewRunning, Healthy
  <2> QED BY <1>1, <1>2, <2>1 DEF API, RequestCommand, PatchBuild
<1>3. CASE Reconciler \/ \E d \in Deployments : TimePasses(d)
  <2>1. ASSUME NEW d \in Deployments,
               status' \in {status, [status EXCEPT ![d] = "failed"]}
        PROVE  NoNewRunning
    BY <2>1 DEF NoNewRunning
  <2>2. ASSUME NEW d \in Deployments, ReconcileStaleClaim(d)
        PROVE  NoNewRunning
    BY <2>1, <2>2 DEF ReconcileStaleClaim
  <2>3. ASSUME NEW d \in Deployments, ReconcileMissingWorkload(d)
        PROVE  NoNewRunning
    BY <2>1, <2>3 DEF ReconcileMissingWorkload
  <2> QED
    BY <1>1, <1>3, <2>2, <2>3 DEF Reconciler, TimePasses, ClaimExpires, CommandClaimExpires,
       OpenReadView, ReadClaimAges, HandlerCommits, rows
<1>4. ASSUME NEW w \in Workers, Worker(w), ~GoRunning(w)
      PROVE  NoNewRunning
  <2>1. ASSUME NEW s \in {"failed", "stopped"}, job[w] \in Deployments,
               status' = [status EXCEPT ![job[w]] = Written(Seen(w).status, s, @)]
        PROVE  NoNewRunning
    BY <2>1 DEF NoNewRunning, Written
  <2>2. CASE CommandSucceeds(w)
    BY <2>1, <2>2 DEF CommandSucceeds
  <2>3. CASE MarkFailed(w)
    BY <2>1, <2>3 DEF MarkFailed
  <2>4. CASE BeginStep(w)
    BY <2>4, BeginIsNotRunning
  <2>5. CASE status' = status
    BY <1>1, <2>5
  <2> QED
    BY <1>4, <2>2, <2>3, <2>4, <2>5 DEF Worker, Poll, NoCommandToRun, NothingPending,
       ClaimDeployment, ClaimCommand, PipelineOutcome, StepSucceeds, PersistTarget, StepFails,
       StepRaises, WorkerDies, LoseClaim, AcknowledgeCancellation, CommandOutcome, StartCommand,
       SkipCommand, BeginStop, CommandFails, CommandClaimLost, ReadRow, Heartbeat,
       CommandHeartbeat, Crash, Restart, rows
<1> QED BY <1>2, <1>3, <1>4 DEF Next

\* Workers in the pipeline go on holding fresh claims of deployments that do not
\* run yet.
LEMMA ClaimsPreserved ==
    ASSUME HealthyInv, Healthy, TypeInv', Next
    PROVE  WorkersHoldClaims' /\ WorkPrecedesRunning'
<1> USE DEF HealthyInv, PipelineInv, TypeInv, TypeOK, JobOK
<1>1. CASE ClaimsKept
  <2>1. WorkersHoldClaims'
    BY <1>1 DEF ClaimsKept, WorkersHoldClaims, FreshClaim
  <2>2. WorkPrecedesRunning'
    <3> SUFFICES ASSUME NEW u \in Workers, InPipeline(u)'
                 PROVE  status'[job'[u]] # "running"
      BY DEF WorkPrecedesRunning
    <3>1. InPipeline(u) /\ job'[u] = job[u] /\ job[u] \in Deployments /\ status[job[u]] # "running"
      BY <1>1 DEF ClaimsKept, WorkPrecedesRunning
    <3>2. CASE NoNewRunning
      BY <3>1, <3>2 DEF NoNewRunning
    <3>3. ASSUME NEW w \in Workers, GoRunning(w)
          PROVE  status'[job[u]] # "running"
      <4>1. w # u /\ InPipeline(w) /\ job[w] \in Deployments
        BY <3>3 DEF GoRunning, Become
      <4>2. job[w] # job[u]
        BY <3>1, <4>1, OneHolder
      <4> QED BY <3>1, <3>3, <4>1, <4>2 DEF GoRunning
    <3> QED BY <3>1, <3>2, <3>3, RunningIsReached
  <2> QED BY <2>1, <2>2
<1>2. ASSUME NEW w \in Workers, NEW d \in Deployments, ClaimDeployment(w, d)
      PROVE  WorkersHoldClaims' /\ WorkPrecedesRunning'
  <2>1. ASSUME NEW u \in Workers, InPipeline(u)', u # w
        PROVE  /\ InPipeline(u) /\ job'[u] = job[u] /\ job[u] # d /\ job[u] \in Deployments
               /\ claim'[job[u]] = claim[job[u]]
    BY <1>2, <2>1, HeldIsNotFree DEF ClaimDeployment, ClaimableDeployment
  <2>2. /\ job'[w] = d /\ claim'[d] = FreshClaim(w) /\ status' = status /\ status[d] = "pending"
    BY <1>2 DEF ClaimDeployment, ClaimableDeployment
  <2>3. WorkersHoldClaims'
    BY <2>1, <2>2 DEF WorkersHoldClaims, FreshClaim
  <2>4. ASSUME NEW u \in Workers, InPipeline(u)'
        PROVE  status'[job'[u]] # "running"
    <3>1. CASE u = w
      BY <2>2, <3>1
    <3>2. CASE u # w
      BY <2>1, <2>2, <2>4, <3>2 DEF WorkPrecedesRunning
    <3> QED BY <3>1, <3>2
  <2> QED BY <2>3, <2>4 DEF WorkPrecedesRunning
<1> QED BY <1>1, <1>2, PipelineKeepsClaims, OthersKeepClaims DEF Next, Worker, Poll

\* A worker about to begin is always at a step that opens a status.
LEMMA BeginningPreserved ==
    ASSUME HealthyInv, TypeInv', Next
    PROVE  BeginningSteps'
<1> USE DEF HealthyInv, PipelineInv, TypeInv, TypeOK, JobOK, BeginningSteps
<1>1. ASSUME UNCHANGED <<pc, task>>
      PROVE  BeginningSteps'
  BY <1>1
<1>2. ASSUME NEW w \in Workers, \A u \in Workers \ {w} : pc'[u] = pc[u] /\ task'[u] = task[u],
             pc'[w] = "begin" => pc[w] = "begin" /\ task'[w] = task[w]
      PROVE  BeginningSteps'
  BY <1>2
<1>3. ASSUME NEW w \in Workers, NEW d \in Deployments, ClaimDeployment(w, d)
      PROVE  BeginningSteps'
  BY <1>3 DEF ClaimDeployment
<1>4. ASSUME NEW w \in Workers, StepSucceeds(w)
      PROVE  BeginningSteps'
  <2>1. LET n == After(job[w], task[w]) IN
          /\ pc' = [pc EXCEPT ![w] = BeginsAt(n)]
          /\ task' = [task EXCEPT ![w] = n]
          /\ BeginsAt(n) = "begin" => n \in {"clone", "build", "test", "tag", "target", "finish"}
    BY <1>4 DEF StepSucceeds, Proceed, BeginsAt, After
  <2> QED BY <2>1
<1>5. ASSUME NEW w \in Workers, Worker(w), ~StepSucceeds(w),
             ~\E d \in Deployments : ClaimDeployment(w, d)
      PROVE  BeginningSteps'
  BY <1>2, <1>5 DEF Worker, Poll, NoCommandToRun, NothingPending, ClaimCommand, PipelineOutcome,
     BeginStep, PersistTarget, GoRunning, MarkFailed, StepFails, StepRaises, WorkerDies, LoseClaim,
     AcknowledgeCancellation, CommandOutcome, StartCommand, SkipCommand, BeginStop, CommandSucceeds,
     CommandFails, CommandClaimLost, ReadRow, Heartbeat, CommandHeartbeat, Crash, Restart, rows,
     Become, Proceed
<1>6. CASE API \/ Reconciler \/ \E d \in Deployments : TimePasses(d)
  BY <1>1, <1>6 DEF API, RequestCommand, PatchStatus, PatchBuild, Reconciler, TimePasses,
     ClaimExpires, CommandClaimExpires, OpenReadView, ReadClaimAges, HandlerCommits,
     ReconcileStaleClaim, ReconcileMissingWorkload, process
<1> QED BY <1>3, <1>4, <1>5, <1>6 DEF Next

\* A reconciler that examines rows as it reads them never keeps a read view.
LEMMA ReconcilerPreserved ==
    ASSUME HealthyInv, Healthy, Next
    PROVE  ReconcilerIsCurrent'
<1>1. CASE rview' = rview
  BY <1>1 DEF HealthyInv, ReconcilerIsCurrent
<1>2. CASE EndReadView
  BY <1>2 DEF EndReadView, ReconcilerIsCurrent
<1>3. CASE API \/ Reconciler \/ \E d \in Deployments : TimePasses(d)
  BY <1>1, <1>2, <1>3 DEF API, RequestCommand, PatchStatus, PatchBuild, Reconciler, TimePasses,
     ClaimExpires, CommandClaimExpires, OpenReadView, ReadClaimAges, HandlerCommits,
     ReconcileStaleClaim, ReconcileMissingWorkload, HealthyInv, ReconcilerIsCurrent, Healthy
<1>4. ASSUME NEW w \in Workers, Worker(w)
      PROVE  rview' = rview
  BY <1>4 DEF Worker, Poll, NoCommandToRun, NothingPending, ClaimDeployment, ClaimCommand,
     PipelineOutcome, BeginStep, StepSucceeds, PersistTarget, GoRunning, MarkFailed, StepFails,
     StepRaises, WorkerDies, LoseClaim, AcknowledgeCancellation, CommandOutcome, StartCommand,
     SkipCommand, BeginStop, CommandSucceeds, CommandFails, CommandClaimLost, ReadRow, Heartbeat,
     CommandHeartbeat, Crash, Restart
<1> QED BY <1>1, <1>3, <1>4 DEF Next

-----------------------------------------------------------------------------
(* Commands *)

\* Refreshing a command, and ending one, as its fields.
Refreshed(e, u) ==
    /\ cmd'[e][u].status = cmd[e][u].status
    /\ cmd'[e][u].active = cmd[e][u].active
    /\ cmd'[e][u].by = cmd[e][u].by
    /\ cmd'[e][u].stale = FALSE
Ended(e, u) ==
    /\ cmd'[e][u].status \in {"succeeded", "failed", "skipped"}
    /\ cmd'[e][u].active = FALSE
    /\ cmd'[e][u].by = None
OthersUnchanged(d, t) ==
    \A e \in Deployments, u \in CommandTypes : ~(e = d /\ u = t) => cmd'[e][u] = cmd[e][u]

\* Writing one command leaves every other command alone.
LEMMA CommandWritten ==
    ASSUME TypeOK, NEW d \in Deployments, NEW t \in CommandTypes, NEW c,
           cmd' = [cmd EXCEPT ![d][t] = c]
    PROVE  cmd'[d][t] = c /\ OthersUnchanged(d, t)
BY DEF TypeOK, OthersUnchanged

\* RefreshCommand and SetCommand write the fields they should, and no other
\* command.
LEMMA RefreshWritten ==
    ASSUME TypeInv, NEW w \in Workers, InCommand(w), RefreshCommand(w)
    PROVE  Refreshed(job[w], task[w]) /\ OthersUnchanged(job[w], task[w])
<1> DEFINE n == [cmd[job[w]][task[w]] EXCEPT !.stale = FALSE]
<1>1. TypeOK /\ job[w] \in Deployments /\ task[w] \in CommandTypes
  BY DEF TypeInv, JobOK
<1>2. cmd[job[w]][task[w]] \in Commands
  BY <1>1 DEF TypeOK
<1>3. /\ n.status = cmd[job[w]][task[w]].status /\ n.active = cmd[job[w]][task[w]].active
      /\ n.by = cmd[job[w]][task[w]].by /\ n.stale = FALSE
  BY <1>2
<1>4. cmd' = [cmd EXCEPT ![job[w]][task[w]] = n]
  BY DEF RefreshCommand
<1> HIDE DEF n
<1>5. cmd'[job[w]][task[w]] = n /\ OthersUnchanged(job[w], task[w])
  BY <1>1, <1>4 DEF TypeOK, OthersUnchanged
<1> QED BY <1>3, <1>5 DEF Refreshed

\* SetCommand ends the command, frees its key and touches no other command.
LEMMA EndWritten ==
    ASSUME TypeInv, NEW w \in Workers, InCommand(w),
           NEW s \in {"succeeded", "failed", "skipped"}, SetCommand(w, s)
    PROVE  Ended(job[w], task[w]) /\ OthersUnchanged(job[w], task[w])
<1> DEFINE n == [status |-> s, active |-> FALSE, by |-> None, stale |-> FALSE]
<1>1. TypeOK /\ job[w] \in Deployments /\ task[w] \in CommandTypes
  BY DEF TypeInv, JobOK
<1>2. n.status = s /\ n.active = FALSE /\ n.by = None
  OBVIOUS
<1>3. cmd' = [cmd EXCEPT ![job[w]][task[w]] = n]
  BY DEF SetCommand
<1> HIDE DEF n
<1>4. cmd'[job[w]][task[w]] = n /\ OthersUnchanged(job[w], task[w])
  BY <1>1, <1>3, CommandWritten
<1> QED BY <1>2, <1>4 DEF Ended

\* What all steps but claiming do to a command: nothing, or they request a
\* finished one anew, or let it age, or its holder refreshes or ends it.
RequestedAnew(e, u) ==
    /\ u \in Requestable
    /\ cmd[e][u].status \notin Active
    /\ cmd'[e][u].status = "pending" /\ cmd'[e][u].active = TRUE /\ cmd'[e][u].by = None
    /\ u = "cleanup" => target[e]
Ages(e, u) ==
    /\ cmd'[e][u] = Aged(cmd[e][u])
    /\ cmd[e][u].by # None
    /\ cmd[e][u].by \in Stallable \/ ~Runs(cmd[e][u].by, e, u)
Held(e, u, w) ==
    /\ InCommand(w) /\ job[w] = e /\ task[w] = u
    /\ cmd[e][u].status = "claimed" /\ cmd[e][u].by = w
CommandStep(e, u) ==
    \/ cmd'[e][u] = cmd[e][u]
    \/ RequestedAnew(e, u)
    \/ Ages(e, u)
    \/ \E w \in Workers : Held(e, u, w) /\ Refreshed(e, u)
    \/ \E w \in Workers : Held(e, u, w) /\ Ended(e, u) /\ ~InCommand(w)'

Claiming == \E w \in Workers, d \in Deployments, t \in CommandTypes : ClaimCommand(w, d, t)

\* Every step but claiming a command does one of these to each command.
LEMMA CommandSteps ==
    ASSUME TypeInv, Next
    PROVE  Claiming \/ \A e \in Deployments, u \in CommandTypes : CommandStep(e, u)
<1>1. ASSUME cmd' = cmd
      PROVE  \A e \in Deployments, u \in CommandTypes : CommandStep(e, u)
  BY <1>1 DEF CommandStep
<1>2. ASSUME NEW d \in Deployments, NEW t \in Requestable, RequestCommand(d, t)
      PROVE  \A e \in Deployments, u \in CommandTypes : CommandStep(e, u)
  <2> t \in CommandTypes
    BY WorkQueueAssumption
  <2> DEFINE n == [status |-> "pending", active |-> TRUE, by |-> None, stale |-> FALSE]
  <2>1. n.status = "pending" /\ n.active = TRUE /\ n.by = None
    OBVIOUS
  <2>2. cmd' = [cmd EXCEPT ![d][t] = n]
    BY <1>2 DEF RequestCommand
  <2> HIDE DEF n
  <2>3. cmd'[d][t] = n /\ OthersUnchanged(d, t)
    BY <2>2, CommandWritten DEF TypeInv
  <2>4. RequestedAnew(d, t)
    BY <1>2, <2>1, <2>3 DEF RequestCommand, RequestedAnew
  <2> QED BY <2>3, <2>4 DEF CommandStep, OthersUnchanged
<1>3. ASSUME NEW d \in Deployments, NEW t \in CommandTypes, CommandClaimExpires(d, t)
      PROVE  \A e \in Deployments, u \in CommandTypes : CommandStep(e, u)
  <2> DEFINE n == Aged(cmd[d][t])
  <2>1. cmd' = [cmd EXCEPT ![d][t] = n]
    BY <1>3 DEF CommandClaimExpires
  <2> HIDE DEF n
  <2>2. cmd'[d][t] = n /\ OthersUnchanged(d, t)
    BY <2>1, CommandWritten DEF TypeInv
  <2> USE DEF n
  <2>3. Ages(d, t)
    BY <1>3, <2>2 DEF CommandClaimExpires, Ages
  <2> QED BY <2>2, <2>3 DEF CommandStep, OthersUnchanged
<1>4. ASSUME NEW w \in Workers, StartCommand(w) \/ CommandHeartbeat(w)
      PROVE  \A e \in Deployments, u \in CommandTypes : CommandStep(e, u)
  <2>1. InCommand(w) /\ OwnsCommand(w) /\ RefreshCommand(w)
    BY <1>4 DEF StartCommand, CommandHeartbeat
  <2>2. job[w] \in Deployments /\ task[w] \in CommandTypes
    BY <2>1 DEF TypeInv, JobOK
  <2>3. Refreshed(job[w], task[w]) /\ OthersUnchanged(job[w], task[w])
    BY <2>1, RefreshWritten
  <2>4. Held(job[w], task[w], w)
    BY <2>1 DEF Held, OwnsCommand
  <2> QED BY <2>2, <2>3, <2>4 DEF CommandStep, OthersUnchanged
<1>5. ASSUME NEW w \in Workers, SkipCommand(w) \/ CommandSucceeds(w) \/ CommandFails(w)
      PROVE  \A e \in Deployments, u \in CommandTypes : CommandStep(e, u)
  <2>1. InCommand(w) /\ OwnsCommand(w) /\ ~InCommand(w)'
    BY <1>5 DEF SkipCommand, CommandSucceeds, CommandFails, Become, TypeInv, TypeOK
  <2>2. job[w] \in Deployments /\ task[w] \in CommandTypes
    BY <2>1 DEF TypeInv, JobOK
  <2>3. PICK s \in {"succeeded", "failed", "skipped"} : SetCommand(w, s)
    BY <1>5 DEF SkipCommand, CommandSucceeds, CommandFails
  <2>4. Ended(job[w], task[w]) /\ OthersUnchanged(job[w], task[w])
    BY <2>1, <2>3, EndWritten
  <2>5. Held(job[w], task[w], w)
    BY <2>1 DEF Held, OwnsCommand
  <2> QED BY <2>1, <2>2, <2>4, <2>5 DEF CommandStep, OthersUnchanged
<1>6. ASSUME NEW w \in Workers, Worker(w), cmd' # cmd,
             ~\E d \in Deployments, t \in CommandTypes : ClaimCommand(w, d, t)
      PROVE  \/ StartCommand(w) \/ CommandHeartbeat(w)
             \/ SkipCommand(w) \/ CommandSucceeds(w) \/ CommandFails(w)
  BY <1>6 DEF Worker, Poll, NoCommandToRun, NothingPending, ClaimDeployment,
     PipelineOutcome, BeginStep, StepSucceeds, PersistTarget, GoRunning, MarkFailed, StepFails,
     StepRaises, WorkerDies, LoseClaim, AcknowledgeCancellation, CommandOutcome,
     BeginStop, CommandClaimLost, ReadRow, Heartbeat, Crash, Restart, rows
<1>7. CASE API \/ Reconciler \/ \E d \in Deployments : TimePasses(d)
  <2>1. \/ cmd' = cmd
        \/ \E d \in Deployments, t \in Requestable : RequestCommand(d, t)
        \/ \E d \in Deployments, t \in CommandTypes : CommandClaimExpires(d, t)
    BY <1>7 DEF API, PatchStatus, PatchBuild, Reconciler, TimePasses,
       ClaimExpires, OpenReadView, ReadClaimAges, HandlerCommits,
       ReconcileStaleClaim, ReconcileMissingWorkload, rows
  <2> QED BY <1>1, <1>2, <1>3, <2>1, WorkQueueAssumption
<1> QED BY <1>1, <1>4, <1>5, <1>6, <1>7 DEF Next, Claiming

\* Ageing changes nothing but the age.
LEMMA AgedFields ==
    ASSUME NEW c \in Commands
    PROVE  Aged(c).status = c.status /\ Aged(c).active = c.active /\ Aged(c).by = c.by
BY DEF Aged

ClaimedBy(e, u, w) ==
    /\ cmd'[e][u].status = "claimed"
    /\ cmd'[e][u].active = cmd[e][u].active
    /\ cmd'[e][u].by = w
    /\ cmd'[e][u].stale = FALSE

\* Claiming a command writes the claim and keeps the uniqueness key.
LEMMA ClaimWritten ==
    ASSUME TypeInv, NEW w \in Workers, NEW d \in Deployments, NEW t \in CommandTypes,
           ClaimCommand(w, d, t)
    PROVE  OthersUnchanged(d, t) /\ ClaimedBy(d, t, w)
<1> DEFINE n == [status |-> "claimed", active |-> cmd[d][t].active, by |-> w, stale |-> FALSE]
<1>1. n.status = "claimed" /\ n.active = cmd[d][t].active /\ n.by = w /\ n.stale = FALSE
  OBVIOUS
<1>2. cmd' = [cmd EXCEPT ![d][t] = n]
  BY DEF ClaimCommand
<1> HIDE DEF n
<1>3. cmd'[d][t] = n /\ OthersUnchanged(d, t)
  BY <1>2 DEF TypeInv, TypeOK, OthersUnchanged
<1> QED BY <1>1, <1>3 DEF ClaimedBy

\* Every step keeps uniqueness keys and claims in line with command statuses.
LEMMA KeysPreserved ==
    ASSUME TypeInv, CommandKeys, Next
    PROVE  CommandKeys'
<1> SUFFICES ASSUME NEW e \in Deployments, NEW u \in CommandTypes
             PROVE  /\ cmd'[e][u].active <=> cmd'[e][u].status \in Active
                    /\ cmd'[e][u].by # None <=> cmd'[e][u].status = "claimed"
  BY DEF CommandKeys
<1>1. /\ cmd[e][u] \in Commands
      /\ cmd[e][u].active <=> cmd[e][u].status \in Active
      /\ cmd[e][u].by # None <=> cmd[e][u].status = "claimed"
  BY DEF CommandKeys, TypeInv, TypeOK
<1>2. ASSUME NEW w \in Workers, NEW d \in Deployments, NEW t \in CommandTypes, ClaimCommand(w, d, t)
      PROVE  /\ cmd'[e][u].active <=> cmd'[e][u].status \in Active
             /\ cmd'[e][u].by # None <=> cmd'[e][u].status = "claimed"
  <2>1. CASE e = d /\ u = t
    <3>1. ClaimedBy(d, t, w)
      BY <1>2, ClaimWritten
    <3>2. cmd[d][t].status \in Active
      BY <1>2 DEF ClaimCommand, ClaimableCommand
    <3> QED BY <1>1, <2>1, <3>1, <3>2, WorkQueueAssumption DEF ClaimedBy, Active
  <2>2. CASE ~(e = d /\ u = t)
    <3>1. OthersUnchanged(d, t)
      BY <1>2, ClaimWritten
    <3> QED BY <1>1, <2>2, <3>1 DEF OthersUnchanged
  <2> QED BY <2>1, <2>2
<1>3. CASE CommandStep(e, u)
  <2>1. CASE cmd'[e][u] = cmd[e][u]
    BY <1>1, <2>1
  <2>2. CASE RequestedAnew(e, u)
    BY <2>2 DEF RequestedAnew, Active
  <2>3. CASE Ages(e, u)
    BY <1>1, <2>3, AgedFields DEF Ages
  <2>4. CASE Refreshed(e, u)
    BY <1>1, <2>4 DEF Refreshed
  <2>5. CASE Ended(e, u)
    BY <2>5 DEF Ended, Active
  <2> QED BY <1>3, <2>1, <2>2, <2>3, <2>4, <2>5 DEF CommandStep
<1> QED BY <1>2, <1>3, CommandSteps DEF Claiming

\* A command's uniqueness key and claim always match its status, so that an
\* operator's next request is neither rejected for ever nor duplicated: for any
\* number of workers, stalls, crashes and requests.
THEOREM CommandKeysAlways == Spec => []CommandKeys
<1> DEFINE KeysInv == TypeInv /\ CommandKeys
<1>1. Init => KeysInv
  BY InitType DEF Init, CommandKeys, Active
<1>2. KeysInv /\ [Next]_vars => KeysInv'
  <2>1. CASE UNCHANGED vars
    BY <2>1, TypeStep DEF vars, rows, CommandKeys
  <2> QED BY <2>1, TypeStep, KeysPreserved
<1>3. KeysInv => CommandKeys
  OBVIOUS
<1> QED BY <1>1, <1>2, <1>3, PTL DEF Spec

-----------------------------------------------------------------------------
(* Pipeline beside commands *)

\* A process changes only by a step of its own.
LEMMA OwnStep ==
    ASSUME TypeInv, Next, NEW u \in Workers
    PROVE  \/ pc'[u] = pc[u] /\ job'[u] = job[u] /\ task'[u] = task[u] /\ view'[u] = view[u]
           \/ Worker(u)
<1>1. CASE API \/ Reconciler \/ \E d \in Deployments : TimePasses(d)
  BY <1>1 DEF API, RequestCommand, PatchStatus, PatchBuild, Reconciler, TimePasses,
     ClaimExpires, CommandClaimExpires, OpenReadView, ReadClaimAges, HandlerCommits,
     ReconcileStaleClaim, ReconcileMissingWorkload, process
<1>2. ASSUME NEW w \in Workers, Worker(w), w # u
      PROVE  pc'[u] = pc[u] /\ job'[u] = job[u] /\ task'[u] = task[u] /\ view'[u] = view[u]
  BY <1>2 DEF Worker, Poll, NoCommandToRun, NothingPending, ClaimDeployment, ClaimCommand,
     PipelineOutcome, BeginStep, StepSucceeds, PersistTarget, GoRunning, MarkFailed, StepFails,
     StepRaises, WorkerDies, LoseClaim, AcknowledgeCancellation, CommandOutcome, StartCommand,
     SkipCommand, BeginStop, CommandSucceeds, CommandFails, CommandClaimLost, ReadRow, Heartbeat,
     CommandHeartbeat, Crash, Restart, Become, Proceed, TypeInv, TypeOK
<1> QED BY <1>1, <1>2 DEF Next

\* Only claiming starts a command, and it goes on as the command it was.
LEMMA CommandContinues ==
    ASSUME TypeInv, Next, NEW v \in Workers, InCommand(v)'
    PROVE  \/ InCommand(v) /\ job'[v] = job[v] /\ task'[v] = task[v]
           \/ \E d \in Deployments, t \in CommandTypes : ClaimCommand(v, d, t)
<1>1. BeginsAt(After(job[v], task[v])) \in Pipeline
  BY DEF BeginsAt
<1>2. ASSUME Worker(v), ~\E d \in Deployments, t \in CommandTypes : ClaimCommand(v, d, t)
      PROVE  InCommand(v) /\ job'[v] = job[v] /\ task'[v] = task[v]
  BY <1>1, <1>2 DEF Worker, Poll, NoCommandToRun, NothingPending, ClaimDeployment,
     PipelineOutcome, BeginStep, StepSucceeds, PersistTarget, GoRunning, MarkFailed, StepFails,
     StepRaises, WorkerDies, LoseClaim, AcknowledgeCancellation, CommandOutcome, StartCommand,
     SkipCommand, BeginStop, CommandSucceeds, CommandFails, CommandClaimLost, ReadRow, Heartbeat,
     CommandHeartbeat, Crash, Restart, Become, Proceed, TypeInv, TypeOK
<1> QED BY <1>2, OwnStep

\* Only claiming starts a pipeline.
LEMMA PipelineContinues ==
    ASSUME TypeInv, Next, NEW w \in Workers, InPipeline(w)'
    PROVE  \/ InPipeline(w) /\ job'[w] = job[w]
           \/ \E d \in Deployments : ClaimDeployment(w, d)
<1>1. ASSUME Worker(w), ~\E d \in Deployments : ClaimDeployment(w, d)
      PROVE  InPipeline(w) /\ job'[w] = job[w]
  BY <1>1 DEF Worker, Poll, NoCommandToRun, NothingPending, ClaimCommand,
     PipelineOutcome, BeginStep, StepSucceeds, PersistTarget, GoRunning, MarkFailed, StepFails,
     StepRaises, WorkerDies, LoseClaim, AcknowledgeCancellation, CommandOutcome, StartCommand,
     SkipCommand, BeginStop, CommandSucceeds, CommandFails, CommandClaimLost, ReadRow, Heartbeat,
     CommandHeartbeat, Crash, Restart, Become, Proceed, TypeInv, TypeOK
<1> QED BY <1>1, OwnStep

\* Nothing becomes pending again: the graph has no such edge and no process
\* writes that status.
LEMMA NeverBack ==
    ASSUME PipelineInv, Next
    PROVE  NeverPendingAgain
<1> USE DEF PipelineInv, TypeInv, TypeOK, JobOK
<1>1. ASSUME status' = status
      PROVE  NeverPendingAgain
  BY <1>1 DEF NeverPendingAgain
<1>2. CASE API
  <2>1. ASSUME NEW d \in Deployments, NEW s \in PatchStatuses, PatchStatus(d, s)
        PROVE  NeverPendingAgain
    BY <2>1 DEF PatchStatus, NeverPendingAgain, CanTransition, StatusEdge
  <2> QED BY <1>1, <1>2, <2>1 DEF API, RequestCommand, PatchBuild
<1>3. CASE Reconciler \/ \E d \in Deployments : TimePasses(d)
  BY <1>3 DEF Reconciler, TimePasses, ClaimExpires, CommandClaimExpires, OpenReadView,
     ReadClaimAges, HandlerCommits, ReconcileStaleClaim, ReconcileMissingWorkload, rows,
     NeverPendingAgain
<1>4. ASSUME NEW w \in Workers, Worker(w)
      PROVE  NeverPendingAgain
  <2>1. ASSUME NEW s, s # "pending", job[w] \in Deployments,
               status' = [status EXCEPT ![job[w]] = Written(Seen(w).status, s, @)]
        PROVE  NeverPendingAgain
    BY <2>1, WrittenNotPending
  <2>2. CASE CommandSucceeds(w)
    BY <2>1, <2>2 DEF CommandSucceeds
  <2>3. CASE MarkFailed(w)
    BY <2>1, <2>3 DEF MarkFailed
  <2>4. CASE BeginStep(w)
    <3>1. Opens(task[w]) # "pending"
      BY DEF Opens
    <3> QED BY <2>1, <2>4, <3>1 DEF BeginStep
  <2>5. CASE GoRunning(w)
    BY <2>1, <2>5 DEF GoRunning
  <2>6. CASE status' = status
    BY <1>1, <2>6
  <2> QED
    BY <1>4, <2>2, <2>3, <2>4, <2>5, <2>6 DEF Worker, Poll, NoCommandToRun, NothingPending,
       ClaimDeployment, ClaimCommand, PipelineOutcome, StepSucceeds, PersistTarget, StepFails,
       StepRaises, WorkerDies, LoseClaim, AcknowledgeCancellation, CommandOutcome, StartCommand,
       SkipCommand, BeginStop, CommandFails, CommandClaimLost, ReadRow, Heartbeat,
       CommandHeartbeat, Crash, Restart, rows
<1> QED BY <1>2, <1>3, <1>4 DEF Next

\* A target is persisted only by a pipeline that has begun or by a command that
\* ends the deployment, and never taken back.
LEMMA TargetPreserved ==
    ASSUME PipelineInv, TargetIsNotPending, Next
    PROVE  TargetIsNotPending' /\ \A d \in Deployments : target[d] => target'[d]
<1> USE DEF PipelineInv, TypeInv, TypeOK, JobOK
<1>1. NeverPendingAgain
  BY NeverBack
<1>2. CASE target' = target
  BY <1>1, <1>2 DEF TargetIsNotPending, NeverPendingAgain
<1>3. ASSUME NEW w \in Workers, PersistTarget(w)
      PROVE  TargetIsNotPending' /\ \A d \in Deployments : target[d] => target'[d]
  <2>1. job[w] \in Deployments /\ status[job[w]] # "pending"
    BY <1>3 DEF PersistTarget, BegunIsNotPending, Begun
  <2> QED BY <1>1, <1>3, <2>1 DEF PersistTarget, TargetIsNotPending, NeverPendingAgain
<1>4. ASSUME NEW w \in Workers, CommandSucceeds(w)
      PROVE  TargetIsNotPending' /\ \A d \in Deployments : target[d] => target'[d]
  <2>1. /\ job[w] \in Deployments
        /\ status' = [status EXCEPT ![job[w]] = Written(Seen(w).status, "stopped", @)]
        /\ target' = [target EXCEPT ![job[w]] = TRUE]
    BY <1>4 DEF CommandSucceeds
  <2>2. status'[job[w]] # "pending"
    BY <2>1, WrittenNotPending
  <2> QED BY <1>1, <2>1, <2>2 DEF TargetIsNotPending, NeverPendingAgain
<1>5. \/ target' = target
      \/ \E w \in Workers : PersistTarget(w) \/ CommandSucceeds(w)
  BY DEF Next, API, RequestCommand, PatchStatus, PatchBuild, Reconciler, TimePasses,
     ClaimExpires, CommandClaimExpires, OpenReadView, ReadClaimAges, HandlerCommits,
     ReconcileStaleClaim, ReconcileMissingWorkload,
     Worker, Poll, NoCommandToRun, NothingPending, ClaimDeployment, ClaimCommand,
     PipelineOutcome, BeginStep, StepSucceeds, GoRunning, MarkFailed, StepFails,
     StepRaises, WorkerDies, LoseClaim, AcknowledgeCancellation, CommandOutcome, StartCommand,
     SkipCommand, BeginStop, CommandFails, CommandClaimLost, ReadRow, Heartbeat,
     CommandHeartbeat, Crash, Restart, rows
<1> QED BY <1>2, <1>3, <1>4, <1>5

\* Only deployments with a persisted target are ever asked to be cleaned up.
LEMMA CleanupPreserved ==
    ASSUME PipelineInv, TargetIsNotPending, CleanupHasTarget, Next
    PROVE  CleanupHasTarget'
<1> USE DEF PipelineInv, TypeInv
<1> SUFFICES ASSUME NEW e \in Deployments, cmd'[e]["cleanup"].status \in Active
             PROVE  target[e]
  BY TargetPreserved DEF CleanupHasTarget
<1>1. "cleanup" \in CommandTypes /\ cmd[e]["cleanup"] \in Commands
  BY DEF TypeOK, CommandTypes
<1>2. ASSUME NEW w \in Workers, NEW d \in Deployments, NEW t \in CommandTypes, ClaimCommand(w, d, t)
      PROVE  cmd[e]["cleanup"].status \in Active
  <2>1. CASE e = d /\ t = "cleanup"
    BY <1>2, <2>1 DEF ClaimCommand, ClaimableCommand
  <2>2. CASE ~(e = d /\ t = "cleanup")
    <3>1. OthersUnchanged(d, t)
      BY <1>2, ClaimWritten
    <3> QED BY <1>1, <2>2, <3>1 DEF OthersUnchanged
  <2> QED BY <2>1, <2>2
<1>3. ASSUME CommandStep(e, "cleanup")
      PROVE  target[e] \/ cmd[e]["cleanup"].status \in Active
  BY <1>1, <1>3, AgedFields DEF CommandStep, RequestedAnew, Ages, Refreshed, Ended, Active
<1> QED BY <1>1, <1>2, <1>3, CommandSteps DEF CleanupHasTarget, Claiming

\* A worker that runs a command keeps holding it to the end.
LEMMA CommandersPreserved ==
    ASSUME PipelineInv, CommandKeys, CommandersHoldCommands, Stallable = {}, Next
    PROVE  CommandersHoldCommands'
<1> USE DEF PipelineInv, TypeInv
<1> SUFFICES ASSUME NEW v \in Workers, InCommand(v)'
             PROVE  LET c == cmd'[job'[v]][task'[v]]
                    IN  c.status = "claimed" /\ c.active = TRUE /\ c.by = v /\ c.stale = FALSE
  BY DEF CommandersHoldCommands
<1>1. ASSUME NEW d \in Deployments, NEW t \in CommandTypes, ClaimCommand(v, d, t)
      PROVE  LET c == cmd'[job'[v]][task'[v]]
             IN  c.status = "claimed" /\ c.active = TRUE /\ c.by = v /\ c.stale = FALSE
  <2>1. job'[v] = d /\ task'[v] = t
    BY <1>1 DEF ClaimCommand, TypeOK
  <2>2. cmd[d][t].active = TRUE
    BY <1>1 DEF ClaimCommand, ClaimableCommand, CommandKeys, TypeOK
  <2>3. ClaimedBy(d, t, v)
    BY <1>1, ClaimWritten
  <2> QED BY <2>1, <2>2, <2>3 DEF ClaimedBy
<1>2. ASSUME InCommand(v), job'[v] = job[v], task'[v] = task[v]
      PROVE  LET c == cmd'[job[v]][task[v]]
             IN  c.status = "claimed" /\ c.active = TRUE /\ c.by = v /\ c.stale = FALSE
  <2>1. job[v] \in Deployments /\ task[v] \in CommandTypes
    BY <1>2 DEF JobOK
  <2>2. PICK e \in Deployments, u \in CommandTypes : job[v] = e /\ task[v] = u
    BY <2>1
  <2>3. /\ cmd[e][u].status = "claimed" /\ cmd[e][u].active = TRUE
        /\ cmd[e][u].by = v /\ cmd[e][u].stale = FALSE
    BY <1>2, <2>2 DEF CommandersHoldCommands
  <2>4. ASSUME NEW w \in Workers, NEW d \in Deployments, NEW t \in CommandTypes, ClaimCommand(w, d, t)
        PROVE  cmd'[e][u] = cmd[e][u]
    <3>1. Free(cmd[d][t]) /\ OthersUnchanged(d, t)
      BY <2>4, ClaimWritten DEF ClaimCommand, ClaimableCommand
    <3>2. ~(e = d /\ u = t)
      BY <2>3, <3>1, WorkQueueAssumption DEF Free
    <3> QED BY <3>1, <3>2 DEF OthersUnchanged
  <2>5. CASE CommandStep(e, u)
    <3>1. ~RequestedAnew(e, u)
      BY <2>3 DEF RequestedAnew, Active
    <3>2. ~Ages(e, u)
      BY <1>2, <2>2, <2>3 DEF Ages, Runs
    <3>3. \A w \in Workers : Held(e, u, w) => w = v
      BY <2>3 DEF Held
    <3>4. \/ cmd'[e][u] = cmd[e][u] \/ Refreshed(e, u)
      BY <2>5, <3>1, <3>2, <3>3 DEF CommandStep
    <3>5. /\ cmd'[e][u].status = "claimed" /\ cmd'[e][u].active = TRUE
          /\ cmd'[e][u].by = v /\ cmd'[e][u].stale = FALSE
      BY <2>3, <3>4 DEF Refreshed
    <3> QED BY <2>2, <3>5
  <2>6. CASE cmd'[e][u] = cmd[e][u]
    BY <2>2, <2>3, <2>6
  <2> QED BY <2>4, <2>5, <2>6, CommandSteps DEF Claiming
<1> QED BY <1>1, <1>2, CommandContinues

\* A worker beside a running command sees the stop, in its snapshot or in the row.
LEMMA StopIsSeen ==
    ASSUME HealthyInv, NEW w \in Workers, NEW v \in Workers,
           InPipeline(w), InCommand(v), job[w] = job[v]
    PROVE  Seen(w).stop = TRUE
<1>1. CASE view[w] = NoView
  <2>1. cmd[job[v]]["stop"].status = "claimed" /\ cmd[job[v]]["stop"].active = TRUE
    BY DEF HealthyInv, PipelineYields, CommandersHoldCommands
  <2>2. StopRequested(job[w]) = TRUE
    BY <2>1 DEF StopRequested, Active
  <2> QED BY <1>1, <2>2 DEF Seen, Row
<1>2. CASE view[w] # NoView
  <2>1. view[w] \in Rows /\ view[w].stop
    BY <1>2 DEF HealthyInv, PipelineYields, PipelineInv, TypeInv, TypeOK
  <2> QED BY <1>2, <2>1 DEF Seen
<1> QED BY <1>1, <1>2

\* Such a worker never begins: it acknowledges the stop or gives up.
LEMMA PipelineGivesWay ==
    ASSUME HealthyInv, Next, NEW w \in Workers, NEW v \in Workers,
           InPipeline(w), InCommand(v), job[w] = job[v], InPipeline(w)'
    PROVE  ~Begun(w)' /\ (view'[w] = NoView \/ view'[w].stop)
<1> USE DEF HealthyInv, PipelineInv, TypeInv, TypeOK
<1>1. /\ ~Begun(w)
      /\ view[w] = NoView \/ view[w].stop
      /\ Seen(w).stop = TRUE
  BY StopIsSeen DEF PipelineYields
<1>2. CASE pc'[w] = pc[w] /\ job'[w] = job[w] /\ task'[w] = task[w] /\ view'[w] = view[w]
  BY <1>1, <1>2 DEF Begun
<1>3. CASE ReadRow(w)
  <2>1. view'[w].stop
    BY <1>1, <1>3 DEF ReadRow, Seen
  <2> QED BY <1>1, <1>3, <2>1 DEF ReadRow, Begun
<1>4. CASE StepRaises(w)
  BY <1>4 DEF StepRaises, Proceed, Begun
<1>5. ~BeginStep(w)
  BY <1>1 DEF BeginStep, Owns
<1>6. pc[w] # "work"
  BY <1>1 DEF Begun
<1>7. ASSUME Worker(w), ~ReadRow(w), ~StepRaises(w)
      PROVE  FALSE
  BY <1>5, <1>6, <1>7 DEF Worker, Poll, NoCommandToRun, NothingPending, ClaimDeployment,
     ClaimCommand, PipelineOutcome, StepSucceeds, PersistTarget, GoRunning, MarkFailed, StepFails,
     WorkerDies, LoseClaim, AcknowledgeCancellation, CommandOutcome, StartCommand,
     SkipCommand, BeginStop, CommandSucceeds, CommandFails, CommandClaimLost, Heartbeat,
     CommandHeartbeat, Crash, Restart, Become, Proceed
<1> QED BY <1>2, <1>3, <1>4, <1>7, OwnStep

\* The pipeline goes on yielding to commands.
LEMMA YieldPreserved ==
    ASSUME HealthyInv, Next
    PROVE  PipelineYields'
<1> USE DEF HealthyInv, PipelineInv, TypeInv
<1> SUFFICES ASSUME NEW w \in Workers, NEW v \in Workers,
                    InPipeline(w)', InCommand(v)', job'[w] = job'[v]
             PROVE  ~Begun(w)' /\ task'[v] = "stop" /\ (view'[w] = NoView \/ view'[w].stop)
  BY DEF PipelineYields
<1>1. ASSUME NEW d \in Deployments, ClaimDeployment(w, d)
      PROVE  ~Begun(w)' /\ task'[v] = "stop" /\ (view'[w] = NoView \/ view'[w].stop)
  <2>1. /\ pc'[w] = "begin" /\ task'[w] = "clone" /\ job'[w] = d
        /\ view'[w] = NoView /\ status[d] = "pending"
    BY <1>1 DEF ClaimDeployment, ClaimableDeployment, IdleHasNoSnapshot, TypeOK
  <2>2. v # w /\ pc'[v] = pc[v] /\ task'[v] = task[v] /\ job'[v] = job[v]
    BY <1>1, <2>1 DEF ClaimDeployment, TypeOK
  <2>3. InCommand(v) /\ job[v] = d
    BY <2>1, <2>2
  <2>4. task[v] \in CommandTypes /\ cmd[d][task[v]].status = "claimed"
    BY <2>3 DEF JobOK, CommandersHoldCommands
  <2>5. task[v] = "stop"
    BY <2>1, <2>4 DEF CommandTypes, CleanupHasTarget, TargetIsNotPending, Active
  <2> QED BY <2>1, <2>2, <2>5 DEF Begun
<1>2. CASE InPipeline(w) /\ job'[w] = job[w]
  <2>1. ASSUME NEW d \in Deployments, NEW t \in CommandTypes, ClaimCommand(v, d, t)
        PROVE  FALSE
    <3>1. job'[v] = d /\ Free(claim[d])
      BY <2>1 DEF ClaimCommand, ClaimableCommand, TypeOK
    <3> QED BY <1>2, <3>1, HeldIsNotFree
  <2>2. InCommand(v) /\ job'[v] = job[v] /\ task'[v] = task[v]
    BY <2>1, CommandContinues
  <2>3. task[v] = "stop"
    BY <1>2, <2>2 DEF PipelineYields
  <2> QED BY <1>2, <2>2, <2>3, PipelineGivesWay
<1> QED BY <1>1, <1>2, PipelineContinues

-----------------------------------------------------------------------------
(* The invariant *)

\* A fresh database satisfies the invariant.
LEMMA HealthyInit == Init => HealthyInv
<1> SUFFICES ASSUME Init PROVE HealthyInv
  OBVIOUS
<1>1. PipelineInv
  BY PipelineInit
<1>2. CommandKeys /\ CleanupHasTarget
  BY DEF Init, CommandKeys, CleanupHasTarget, Active, CommandTypes
<1> QED
  BY <1>1, <1>2 DEF Init, HealthyInv, WorkersHoldClaims, WorkPrecedesRunning, BeginningSteps,
     ReconcilerIsCurrent, CommandersHoldCommands, TargetIsNotPending, PipelineYields

\* With healthy workers and a reconciler that reads current rows every step
\* keeps the invariant.
LEMMA HealthyStep == ASSUME Healthy PROVE HealthyInv /\ [Next]_vars => HealthyInv'
<1> SUFFICES ASSUME HealthyInv, [Next]_vars PROVE HealthyInv'
  OBVIOUS
<1>1. PipelineInv'
  BY PipelineStep DEF HealthyInv
<1>2. CASE UNCHANGED vars
  BY <1>1, <1>2 DEF vars, rows, process, HealthyInv, CommandKeys, WorkersHoldClaims,
     WorkPrecedesRunning, BeginningSteps, ReconcilerIsCurrent, CommandersHoldCommands,
     TargetIsNotPending, CleanupHasTarget, PipelineYields, Begun
<1>3. CASE Next
  <2>1. TypeInv /\ TypeInv' /\ CommandKeys
    BY <1>1 DEF HealthyInv, PipelineInv
  <2>2. CommandKeys'
    BY <1>3, <2>1, KeysPreserved
  <2>3. WorkersHoldClaims' /\ WorkPrecedesRunning'
    BY <1>3, <2>1, ClaimsPreserved
  <2>4. BeginningSteps' /\ ReconcilerIsCurrent'
    BY <1>3, <2>1, BeginningPreserved, ReconcilerPreserved
  <2>5. CommandersHoldCommands' /\ TargetIsNotPending' /\ CleanupHasTarget' /\ PipelineYields'
    <3>1. PipelineInv /\ CommandersHoldCommands /\ TargetIsNotPending /\ CleanupHasTarget /\ Stallable = {}
      BY DEF HealthyInv, Healthy
    <3> QED
      BY <1>3, <2>1, <3>1, CommandersPreserved, TargetPreserved, CleanupPreserved, YieldPreserved
  <2> QED BY <1>1, <2>2, <2>3, <2>4, <2>5 DEF HealthyInv
<1> QED BY <1>2, <1>3

\* The invariant holds of every behaviour of healthy workers.
LEMMA HealthyAlways == ASSUME Healthy PROVE Spec => []HealthyInv
<1>1. Init => HealthyInv
  BY HealthyInit
<1>2. HealthyInv /\ [Next]_vars => HealthyInv'
  BY HealthyStep
<1> QED BY <1>1, <1>2, PTL DEF Spec

\* As long as no worker stalls for a whole TTL, nobody runs executor.stop
\* beside a pipeline step of the same deployment, whatever crashes, operators'
\* requests and administrators' PATCHes (none of them to `running`) occur.
THEOREM ExclusiveAlways == ASSUME Healthy PROVE Spec => []Exclusive
<1>1. HealthyInv => Exclusive
  BY DEF HealthyInv, PipelineYields, Begun, Exclusive
<1> QED BY <1>1, HealthyAlways, PTL

\* Under the same conditions a worker that runs a step still holds its claim:
\* neither the reconciler nor another worker takes it.
THEOREM HealthyClaimsAlways == ASSUME Healthy PROVE Spec => []HealthyWorkersKeepClaims
<1>1. HealthyInv => HealthyWorkersKeepClaims
  BY HolderOf DEF HealthyWorkersKeepClaims
<1> QED BY <1>1, HealthyAlways, PTL

-----------------------------------------------------------------------------
(* The status graph *)

\* Without PATCHes, a snapshot of a worker in the pipeline that shows no stop
\* shows the status the row still has.
SnapshotsCurrent ==
    \A w \in Workers :
        InPipeline(w) /\ view[w] # NoView /\ ~view[w].stop => view[w].status = status[job[w]]

GraphInv == HealthyInv /\ SnapshotsCurrent

\* A pipeline step that may write sees the current status.
LEMMA WriterIsCurrent ==
    ASSUME GraphInv, NEW w \in Workers, InPipeline(w), Owns(w)
    PROVE  Seen(w).status = status[job[w]]
<1>1. CASE view[w] = NoView
  BY <1>1 DEF Seen, Row
<1>2. CASE view[w] # NoView
  BY <1>2 DEF GraphInv, SnapshotsCurrent, Seen, Owns
<1> QED BY <1>1, <1>2

\* Nobody but the worker itself writes the status of a deployment in its
\* pipeline, unless its snapshot shows the stop that ends the deployment.
LEMMA StatusIsKept ==
    ASSUME HealthyInv, Healthy, PatchStatuses = {}, Next,
           NEW w \in Workers, InPipeline(w), view[w] # NoView, ~view[w].stop,
           ~BeginStep(w), ~GoRunning(w), ~MarkFailed(w)
    PROVE  status'[job[w]] = status[job[w]]
<1>1. TypeInv /\ job[w] \in Deployments /\ claim[job[w]].stale = FALSE /\ status[job[w]] # "running"
  BY HolderOf DEF HealthyInv, PipelineInv, WorkPrecedesRunning
<1>2. PICK d \in Deployments : job[w] = d
  BY <1>1
<1>3. ~ReconcileStaleClaim(d) /\ ~ReconcileMissingWorkload(d)
  BY <1>1, <1>2 DEF ReconcileStaleClaim, ReconcileMissingWorkload, StaleClaim, ReconcilerSees,
     ReconcilerRow, ReconcilerIsCurrent, HealthyInv
<1>4. ASSUME NEW u \in Workers, job[u] = d, u # w,
             BeginStep(u) \/ GoRunning(u) \/ MarkFailed(u)
      PROVE  FALSE
  <2>1. InPipeline(u)
    BY <1>4 DEF BeginStep, GoRunning, MarkFailed
  <2> QED BY <1>2, <1>4, <2>1, OneHolder
<1>5. ASSUME NEW u \in Workers, job[u] = d, CommandSucceeds(u)
      PROVE  FALSE
  <2>1. InCommand(u)
    BY <1>5 DEF CommandSucceeds
  <2> QED BY <1>2, <1>5, <2>1 DEF HealthyInv, PipelineYields
<1>6. ASSUME status'[d] # status[d]
      PROVE  FALSE
  BY <1>1, <1>2, <1>3, <1>4, <1>5, <1>6, StatusWriter
<1> QED BY <1>2, <1>6

\* Snapshots stay current.
LEMMA SnapshotsPreserved ==
    ASSUME GraphInv, Healthy, PatchStatuses = {}, Next
    PROVE  SnapshotsCurrent'
<1> USE DEF GraphInv, HealthyInv, PipelineInv, TypeInv
<1> SUFFICES ASSUME NEW w \in Workers, InPipeline(w)', view'[w] # NoView, ~view'[w].stop
             PROVE  view'[w].status = status'[job'[w]]
  BY DEF SnapshotsCurrent
<1>1. ASSUME NEW d \in Deployments, ClaimDeployment(w, d)
      PROVE  FALSE
  BY <1>1 DEF ClaimDeployment, IdleHasNoSnapshot
<1>2. InPipeline(w) /\ job'[w] = job[w]
  BY <1>1, PipelineContinues
<1>3. CASE ReadRow(w)
  BY <1>2, <1>3 DEF ReadRow, Row, rows, TypeOK
<1>4. ASSUME ~ReadRow(w)
      PROVE  view'[w] = view[w] /\ ~BeginStep(w) /\ ~GoRunning(w) /\ ~MarkFailed(w)
  <2>1. ~BeginStep(w) /\ ~GoRunning(w) /\ ~MarkFailed(w)
    BY DEF BeginStep, GoRunning, MarkFailed, Become, Proceed, TypeOK
  <2>2. ASSUME Worker(w)
        PROVE  view'[w] = view[w]
    BY <1>2, <1>4, <2>1, <2>2 DEF Worker, Poll, NoCommandToRun, NothingPending, ClaimDeployment,
       ClaimCommand, PipelineOutcome, StepSucceeds, PersistTarget, StepFails, StepRaises,
       WorkerDies, LoseClaim, AcknowledgeCancellation, CommandOutcome, StartCommand,
       SkipCommand, BeginStop, CommandSucceeds, CommandFails, CommandClaimLost, Heartbeat,
       CommandHeartbeat, Crash, Restart, Become, Proceed, TypeOK
  <2> QED BY <2>1, <2>2, OwnStep
<1>5. CASE ~ReadRow(w)
  <2>1. status'[job[w]] = status[job[w]]
    BY <1>2, <1>4, <1>5, StatusIsKept
  <2> QED BY <1>2, <1>4, <1>5, <2>1 DEF SnapshotsCurrent
<1> QED BY <1>3, <1>5

\* Every status write follows the graph from the row's real status.
LEMMA GraphStep ==
    ASSUME GraphInv, PatchStatuses = {}, Next, NEW d \in Deployments
    PROVE  CanTransition(status[d], status'[d])
<1> USE DEF GraphInv, HealthyInv, PipelineInv, TypeInv
<1> SUFFICES ASSUME status'[d] # status[d]
             PROVE  CanTransition(status[d], status'[d])
  BY DEF CanTransition
<1>1. CASE ReconcileStaleClaim(d)
  BY <1>1 DEF ReconcileStaleClaim, ReconcilerSees, ReconcilerRow, ReconcilerIsCurrent,
     IN_PROGRESS_STATUSES, InProgress, CanTransition, StatusEdge, TypeOK
<1>2. CASE ReconcileMissingWorkload(d)
  BY <1>2 DEF ReconcileMissingWorkload, ReconcilerSees, ReconcilerRow, ReconcilerIsCurrent,
     CanTransition, StatusEdge, TypeOK
<1>3. ASSUME NEW w \in Workers, job[w] = d, BeginStep(w) \/ GoRunning(w) \/ MarkFailed(w)
      PROVE  CanTransition(status[d], status'[d])
  <2>1. InPipeline(w) /\ Owns(w)
    BY <1>3 DEF BeginStep, GoRunning, MarkFailed
  <2>2. Seen(w).status = status[d]
    BY <1>3, <2>1, WriterIsCurrent
  <2>3. PICK s : /\ status' = [status EXCEPT ![job[w]] = Written(Seen(w).status, s, @)]
                 /\ CanTransition(Seen(w).status, s)
    BY <1>3 DEF BeginStep, GoRunning, MarkFailed, CanFail
  <2> QED BY <1>3, <2>2, <2>3 DEF Written, TypeOK
<1>4. ASSUME NEW w \in Workers, job[w] = d, CommandSucceeds(w)
      PROVE  CanTransition(status[d], status'[d])
  <2>1. status'[d] = "stopped"
    BY <1>4 DEF CommandSucceeds, Written, TypeOK
  <2> QED BY <2>1 DEF CanTransition, StatusEdge, TypeOK
<1> QED BY <1>1, <1>2, <1>3, <1>4, StatusWriter

\* If moreover nobody PATCHes statuses, a deployment moves only along the
\* transition graph, although workers check the transition on a snapshot and
\* write by primary key: nothing leaves `stopped`.
THEOREM StatusGraphAlways == ASSUME Healthy, PatchStatuses = {} PROVE Spec => StatusGraph
<1> DEFINE Moves == \A d \in Deployments : CanTransition(status[d], status'[d])
<1>1. Init => GraphInv
  BY HealthyInit DEF Init, GraphInv, SnapshotsCurrent
<1>2. GraphInv /\ [Next]_vars => GraphInv'
  <2> SUFFICES ASSUME GraphInv, [Next]_vars PROVE GraphInv'
    OBVIOUS
  <2>1. HealthyInv'
    BY HealthyStep DEF GraphInv
  <2>2. CASE UNCHANGED vars
    BY <2>1, <2>2 DEF GraphInv, SnapshotsCurrent, vars, rows, process
  <2>3. CASE Next
    BY <2>1, <2>3, SnapshotsPreserved DEF GraphInv
  <2> QED BY <2>2, <2>3
<1>3. GraphInv /\ [Next]_vars => [Moves]_vars
  BY GraphStep
<1>4. [][Moves]_vars => StatusGraph
  BY PTL DEF StatusGraph
<1> QED BY <1>1, <1>2, <1>3, <1>4, PTL DEF Spec

================================================================================
