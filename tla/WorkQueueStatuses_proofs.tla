------------------------ MODULE WorkQueueStatuses_proofs ------------------------
(***************************************************************************)
(* The statuses of a deployment and of its build describe one attempt,     *)
(* although the pipeline, stop commands and the reconciler each check the  *)
(* pair on a snapshot and write back the attributes that differ from it.   *)
(* Workers may crash and the reconciler may act on old rows; stalls are    *)
(* excluded where TLC finds that a property needs it.                      *)
(*                                                                         *)
(* From the same invariant: WorkQueue implements Attempt, and the two      *)
(* properties that a stop can violate hold where nobody stops.             *)
(***************************************************************************)
EXTENDS WorkQueueHealthy_proofs

\* Nobody PATCHes, and workers refresh their claims in time or operators use only
\* one of the two commands.
Orderly ==
    /\ PatchStatuses = {} /\ PatchBuilds = {}
    /\ CommandTypes \subseteq Requestable => Stallable = {}

Late == {"verify", "target", "preflight", "deploy", "finish"}

\* A pair of statuses some process may have read or written.
Paired(s, b) ==
    \/ s = b /\ s \in {"pending", "cloning", "building", "testing", "pushing_image", "failed"}
    \/ s \in {"pushing_image", "deploying", "running"} /\ b = "succeeded"
    \/ s = "stopped" /\ b \in BuildTerminal

Owner(w) == InPipeline(w) /\ claim[job[w]].by = w
\* It opened its snapshot before any stop was requested.
Clear(w) == view[w] # NoView /\ ~view[w].stop
\* It runs a stop it still holds, on a snapshot that was not stopped yet.
Stopper(v) ==
    /\ InCommand(v) /\ task[v] = "stop" /\ OwnsCommand(v)
    /\ view[v] # NoView /\ view[v].status # "stopped"

\* Every row, and every row somebody remembers, is such a pair.
RowsPaired == \A d \in Deployments : Paired(status[d], build[d])
ViewsPaired == \A w \in Workers : view[w] # NoView => Paired(view[w].status, view[w].build)
ReadsPaired == \A d \in Deployments : rview[d] # NoView => Paired(rview[d].status, rview[d].build)

\* A deployment that runs or failed has lost its claim for good, also when only
\* the reconciler remembers it so.
FinishedIsFree ==
    \A d \in Deployments :
        /\ status[d] \in {"running", "failed"} => claim[d].by = None
        /\ rview[d] # NoView /\ rview[d].status \in {"running", "failed"} =>
              status[d] # "pending" /\ claim[d].by = None

\* What the owner of a claim saw is still so, unless a stop overtook it.
OwnerSees ==
    \A w \in Workers : Owner(w) /\ Clear(w) =>
        \/ status[job[w]] = "stopped"
        \/ status[job[w]] = view[w].status /\ build[job[w]] = view[w].build

\* An owner past its push has a built image, unless a stop overtook the push.
LateIsBuilt ==
    \A w \in Workers : Owner(w) /\ task[w] \in Late =>
        /\ status[job[w]] = "stopped" \/ build[job[w]] = "succeeded"
        /\ Clear(w) /\ view[w].status # "stopped" => build[job[w]] = "succeeded"

\* No build that a stop saw ended resumes.
StopperSees ==
    \A v \in Workers :
        Stopper(v) /\ view[v].build \in BuildTerminal => build[job[v]] \in BuildTerminal

\* A stop and the pipeline it interrupts, if that did not see it, saw one row,
\* and nobody else stops it.
SameRow ==
    \A v, w \in Workers :
        Stopper(v) /\ Owner(w) /\ Clear(w) /\ job[v] = job[w] =>
            /\ view[v].status = view[w].status /\ view[v].build = view[w].build
            /\ status[job[v]] # "stopped"

\* Only the commands operators request ever run.
OnlyRequested ==
    /\ \A d \in Deployments, t \in CommandTypes : cmd[d][t].status \in Active => t \in Requestable
    /\ \A v \in Workers : InCommand(v) => task[v] \in Requestable

\* While nobody stalls, an owner's claim is fresh, a command that runs beside it
\* is a stop it has not overlooked, and no build a command saw ended resumes.
OwnersFresh == \A w \in Workers : Owner(w) => ~claim[job[w]].stale
OwnersYield ==
    \A w, v \in Workers :
        Owner(w) /\ InCommand(v) /\ job[w] = job[v] => task[v] = "stop" /\ ~Clear(w)
CommandersEnd ==
    \A v \in Workers :
        InCommand(v) /\ view[v] # NoView /\ view[v].build \in BuildTerminal =>
            build[job[v]] \in BuildTerminal

InTime == CommandersHoldCommands /\ OwnersFresh /\ OwnersYield /\ CommandersEnd

\* A deployment that can be cleaned up has no active build, and nobody is about
\* to give it one.
TargetIsBuilt == \A d \in Deployments : target[d] => build[d] \in BuildTerminal
UnbuiltHasNoTarget ==
    \A w \in Workers :
        Owner(w) /\ Clear(w) /\ view[w].build \notin BuildTerminal => ~target[job[w]]
LateIsEnded ==
    \A w \in Workers : Begun(w) /\ task[w] \in Late => build[job[w]] \in BuildTerminal

CleanupIsLate == TargetIsBuilt /\ UnbuiltHasNoTarget /\ LateIsEnded

AgreeInv ==
    /\ PipelineInv
    /\ CommandKeys
    /\ OnlyRequested
    /\ TargetIsNotPending /\ CleanupHasTarget
    /\ RowsPaired /\ ViewsPaired /\ ReadsPaired
    /\ FinishedIsFree
    /\ OwnerSees
    /\ LateIsBuilt
    /\ StopperSees
    /\ SameRow
    /\ Stallable = {} => InTime
    /\ "cleanup" \in Requestable => CleanupIsLate

USE DEF Statuses, BuildStatuses, Claims, Commands, CommandStatuses, Rows,
        ReconcilerRows, PCs, Pipeline, Commanding, Tasks,
        InPipeline, InCommand

-----------------------------------------------------------------------------
(* What one step does to claims, snapshots and ownership *)

\* A claim gets a new holder only by the claiming of a pending deployment.
LEMMA HolderStep ==
    ASSUME PipelineInv, Next, NEW d \in Deployments
    PROVE  \/ claim'[d].by \in {claim[d].by, None}
           \/ \E w \in Workers : ClaimDeployment(w, d) /\ claim'[d].by = w
<1> USE DEF PipelineInv, TypeInv, TypeOK, JobOK
<1>1. CASE claim' = claim
  BY <1>1
<1>2. ASSUME NEW e \in Deployments,
             \/ claim' = [claim EXCEPT ![e] = NoClaim]
             \/ claim' = [claim EXCEPT ![e] = Aged(@)]
             \/ claim' = [claim EXCEPT ![e] = FreshClaim(claim[e].by)]
      PROVE  claim'[d].by \in {claim[d].by, None}
  BY <1>2, ClaimHolders DEF NoNewHolder
<1>3. CASE API \/ Reconciler \/ \E e \in Deployments : TimePasses(e)
  <2>1. ASSUME NEW e \in Deployments, ClaimExpires(e) \/ ReconcileStaleClaim(e)
        PROVE  claim'[d].by \in {claim[d].by, None}
    BY <1>2, <2>1 DEF ClaimExpires, ReconcileStaleClaim
  <2>2. ASSUME NEW e \in Deployments, ReconcileMissingWorkload(e)
        PROVE  claim'[d].by \in {claim[d].by, None}
    BY <2>2 DEF ReconcileMissingWorkload, NoClaim
  <2> QED
    BY <1>1, <1>3, <2>1, <2>2 DEF API, RequestCommand, PatchStatus, PatchBuild, Reconciler,
       TimePasses, CommandClaimExpires, OpenReadView, ReadClaimAges, HandlerCommits, rows
<1>4. ASSUME NEW w \in Workers, PipelineOutcome(w) \/ Heartbeat(w) \/ ReadRow(w)
      PROVE  claim'[d].by \in {claim[d].by, None}
  <2>1. job[w] \in Deployments
    BY <1>4 DEF PipelineOutcome, BeginStep, StepSucceeds, PersistTarget, GoRunning, MarkFailed,
       StepFails, StepRaises, WorkerDies, LoseClaim, AcknowledgeCancellation, Heartbeat, ReadRow
  <2>2. PICK e \in Deployments : job[w] = e
    BY <2>1
  <2>3. CASE Refresh(w) /\ Owns(w)
    BY <1>2, <2>2, <2>3 DEF Refresh, Owns
  <2>4. CASE claim' = [claim EXCEPT ![e] = NoClaim]
    BY <1>2, <2>4
  <2> QED
    BY <1>1, <1>4, <2>2, <2>3, <2>4 DEF PipelineOutcome, BeginStep, StepSucceeds, PersistTarget,
       GoRunning, MarkFailed, StepFails, StepRaises, WorkerDies, LoseClaim,
       AcknowledgeCancellation, Heartbeat, ReadRow, rows
<1>5. ASSUME NEW w \in Workers, Worker(w), ~(PipelineOutcome(w) \/ Heartbeat(w) \/ ReadRow(w))
      PROVE  \/ claim' = claim
             \/ \E e \in Deployments : ClaimDeployment(w, e)
  BY <1>5 DEF Worker, Poll, NoCommandToRun, NothingPending, ClaimCommand, CommandOutcome,
     StartCommand, SkipCommand, BeginStop, CommandSucceeds, CommandFails, CommandClaimLost,
     CommandHeartbeat, Crash, Restart, rows
<1>6. ASSUME NEW w \in Workers, NEW e \in Deployments, ClaimDeployment(w, e)
      PROVE  \/ claim'[d].by \in {claim[d].by, None}
             \/ ClaimDeployment(w, d) /\ claim'[d].by = w
  BY <1>6 DEF ClaimDeployment, FreshClaim
<1> QED BY <1>1, <1>3, <1>4, <1>5, <1>6 DEF Next

\* A snapshot is dropped, kept by a worker that stays with its work, or opened
\* now on the current row.
LEMMA ViewStep ==
    ASSUME PipelineInv, Next, NEW w \in Workers, view'[w] # NoView
    PROVE  \/ view'[w] = view[w] /\ job'[w] = job[w] /\ (InPipeline(w) <=> InPipeline(w)')
              /\ ~ReadRow(w) /\ ~BeginStop(w)
           \/ ReadRow(w) \/ BeginStop(w)
<1> USE DEF PipelineInv, TypeInv, TypeOK
<1>1. CASE pc'[w] = pc[w] /\ job'[w] = job[w] /\ task'[w] = task[w] /\ view'[w] = view[w]
  BY <1>1
<1>2. CASE Worker(w)
  BY <1>2 DEF IdleHasNoSnapshot, Worker, Poll, NoCommandToRun, NothingPending, ClaimDeployment,
     ClaimCommand, PipelineOutcome, BeginStep, StepSucceeds, PersistTarget, GoRunning, MarkFailed,
     StepFails, StepRaises, WorkerDies, LoseClaim, AcknowledgeCancellation, CommandOutcome,
     StartCommand, SkipCommand, CommandSucceeds, CommandFails, CommandClaimLost, Heartbeat,
     CommandHeartbeat, Crash, Restart, Become, Proceed
<1> QED BY <1>1, <1>2, OwnStep

\* Opening a snapshot shows the row as it is and changes no row.
LEMMA ViewOpened ==
    ASSUME TypeInv, NEW w \in Workers, ReadRow(w) \/ BeginStop(w)
    PROVE  /\ view'[w].status = status[job[w]] /\ view'[w].build = build[job[w]]
           /\ view'[w].stop = StopRequested(job[w])
           /\ job'[w] = job[w] /\ job[w] \in Deployments
           /\ \A u \in Workers : job'[u] = job[u] /\ task'[u] = task[u]
           /\ \A u \in Workers \ {w} : view'[u] = view[u]
           /\ UNCHANGED rows
<1> USE DEF TypeInv, TypeOK, JobOK
<1>1. view'[w] = Row(job[w])
  BY DEF ReadRow, BeginStop
<1>2. /\ view'[w].status = status[job[w]] /\ view'[w].build = build[job[w]]
      /\ view'[w].stop = StopRequested(job[w])
  BY <1>1 DEF Row
<1> QED BY <1>2 DEF ReadRow, BeginStop

\* The reconciler forgets a row, remembers it, lets it age, or reads it now.
LEMMA ReadStep ==
    ASSUME TypeInv, Next, NEW d \in Deployments, rview'[d] # NoView
    PROVE  \/ rview'[d] = rview[d]
           \/ rview[d] # NoView /\ rview'[d] = Aged(rview[d])
           \/ rview'[d] = ReconcilerRow(d)
<1> USE DEF TypeInv, TypeOK
<1>1. CASE API \/ Reconciler \/ \E e \in Deployments : TimePasses(e)
  <2>1. ASSUME NEW e \in Deployments, ReadClaimAges(e)
        PROVE  rview'[d] = rview[d] \/ (rview[d] # NoView /\ rview'[d] = Aged(rview[d]))
    BY <2>1 DEF ReadClaimAges
  <2> QED
    BY <1>1, <2>1 DEF API, RequestCommand, PatchStatus, PatchBuild, Reconciler, TimePasses,
       ClaimExpires, CommandClaimExpires, OpenReadView, HandlerCommits, ReconcileStaleClaim,
       ReconcileMissingWorkload, EndReadView
<1>2. ASSUME NEW w \in Workers, Worker(w)
      PROVE  rview' = rview
  BY <1>2 DEF Worker, Poll, NoCommandToRun, NothingPending, ClaimDeployment, ClaimCommand,
     PipelineOutcome, BeginStep, StepSucceeds, PersistTarget, GoRunning, MarkFailed, StepFails,
     StepRaises, WorkerDies, LoseClaim, AcknowledgeCancellation, CommandOutcome, StartCommand,
     SkipCommand, BeginStop, CommandSucceeds, CommandFails, CommandClaimLost, ReadRow, Heartbeat,
     CommandHeartbeat, Crash, Restart
<1> QED BY <1>1, <1>2 DEF Next

\* An owner was one before, or claims its deployment now.
LEMMA OwnerStep ==
    ASSUME PipelineInv, Next, NEW w \in Workers, Owner(w)'
    PROVE  \/ Owner(w) /\ job'[w] = job[w] /\ job[w] \in Deployments
           \/ \E d \in Deployments : ClaimDeployment(w, d)
<1> USE DEF PipelineInv, TypeInv, TypeOK, JobOK
<1>1. CASE InPipeline(w) /\ job'[w] = job[w]
  <2>1. PICK d \in Deployments : job[w] = d
    BY <1>1
  <2>2. claim'[d].by = w
    BY <1>1, <2>1 DEF Owner
  <2>3. ASSUME NEW u \in Workers, ClaimDeployment(u, d), claim'[d].by = u
        PROVE  FALSE
    BY <1>1, <2>2, <2>3 DEF ClaimDeployment
  <2>4. claim[d].by = w
    BY <2>2, <2>3, HolderStep, WorkQueueAssumption
  <2> QED BY <1>1, <2>1, <2>4 DEF Owner
<1> QED BY <1>1, PipelineContinues DEF Owner

\* Whoever holds the command it runs has held it since it claimed it.
LEMMA HeldSinceClaimed ==
    ASSUME TypeInv, Next, NEW v \in Workers,
           InCommand(v), job'[v] = job[v], task'[v] = task[v], OwnsCommand(v)'
    PROVE  OwnsCommand(v)
<1>1. job[v] \in Deployments /\ task[v] \in CommandTypes
  BY DEF TypeInv, JobOK
<1>2. PICK e \in Deployments, u \in CommandTypes : job[v] = e /\ task[v] = u
  BY <1>1
<1>3. cmd'[e][u].status = "claimed" /\ cmd'[e][u].by = v
  BY <1>2 DEF OwnsCommand
<1>4. ASSUME NEW w \in Workers, NEW d \in Deployments, NEW t \in CommandTypes, ClaimCommand(w, d, t)
      PROVE  cmd'[e][u] = cmd[e][u]
  <2>1. OthersUnchanged(d, t) /\ ClaimedBy(d, t, w)
    BY <1>4, ClaimWritten
  <2>2. w # v
    BY <1>4 DEF ClaimCommand
  <2>3. ~(e = d /\ u = t)
    BY <1>3, <2>1, <2>2 DEF ClaimedBy
  <2> QED BY <2>1, <2>3 DEF OthersUnchanged
<1>5. cmd[e][u] \in Commands
  BY DEF TypeInv, TypeOK
<1>6. CASE CommandStep(e, u)
  BY <1>2, <1>3, <1>5, <1>6, AgedFields
  DEF CommandStep, RequestedAnew, Ages, Refreshed, Ended, OwnsCommand
<1>7. CASE cmd'[e][u] = cmd[e][u]
  BY <1>2, <1>3, <1>7 DEF OwnsCommand
<1> QED BY <1>4, <1>6, <1>7, CommandSteps DEF Claiming

-----------------------------------------------------------------------------
(* What one step does to the two statuses of a deployment *)

RowKept(d) == status'[d] = status[d] /\ build'[d] = build[d]
RowFailed(d) == status'[d] = "failed" /\ build'[d] = "failed" /\ claim'[d].by = None
RowStopped(d, v) ==
    /\ job[v] = d /\ InCommand(v) /\ ~InCommand(v)' /\ OwnsCommand(v)
    /\ status'[d] = "stopped" /\ build'[d] \in BuildTerminal
    /\ build'[d] # build[d] => task[v] = "stop" /\ Seen(v).build \notin BuildTerminal
RowAdvanced(d, w) ==
    /\ job[w] = d /\ Owner(w) /\ ~Seen(w).stop /\ view'[w] = NoView
    /\ Paired(status'[d], build'[d])
    /\ status'[d] # "failed"
    /\ status'[d] = "running" => claim'[d].by = None
    /\ status'[d] = "stopped" => status[d] = "stopped"
    /\ build'[d] \in BuildTerminal \/ Seen(w).build \notin BuildTerminal
    /\ task[w] \in Late => build'[d] = "succeeded"

RowStep(d) ==
    \/ RowKept(d) \/ RowFailed(d)
    \/ \E v \in Workers : RowStopped(d, v)
    \/ \E w \in Workers : RowAdvanced(d, w)

\* What a busy worker sees is a pair.
LEMMA SeenPaired ==
    ASSUME AgreeInv, NEW w \in Workers, InPipeline(w) \/ InCommand(w)
    PROVE  Seen(w) \in Rows /\ Paired(Seen(w).status, Seen(w).build)
<1>1. TypeInv /\ job[w] \in Deployments
  BY DEF AgreeInv, PipelineInv, TypeInv, JobOK
<1>2. CASE view[w] = NoView
  BY <1>1, <1>2, SeenType DEF Seen, Row, AgreeInv, RowsPaired
<1>3. CASE view[w] # NoView
  BY <1>1, <1>3, SeenType DEF Seen, AgreeInv, ViewsPaired
<1> QED BY <1>2, <1>3

\* An owner that sees no stop sees the row as it is, or stopped meanwhile.
LEMMA OwnerSeesRow ==
    ASSUME AgreeInv, NEW w \in Workers, Owner(w), ~Seen(w).stop
    PROVE  \/ status[job[w]] = "stopped" /\ view[w] # NoView
           \/ status[job[w]] = Seen(w).status /\ build[job[w]] = Seen(w).build
<1>1. CASE view[w] = NoView
  BY <1>1 DEF Seen, Row
<1>2. CASE view[w] # NoView
  BY <1>2 DEF AgreeInv, OwnerSees, Clear, Seen
<1> QED BY <1>1, <1>2

\* Past its push it deploys a built image: had a stop overtaken it, it would see
\* that.
LEMMA LateSeesBuilt ==
    ASSUME AgreeInv, NEW w \in Workers, Owner(w), ~Seen(w).stop, task[w] \in Late,
           Seen(w).status # "stopped"
    PROVE  build[job[w]] = "succeeded"
<1>1. CASE view[w] = NoView
  BY <1>1 DEF AgreeInv, LateIsBuilt, Seen, Row
<1>2. CASE view[w] # NoView
  BY <1>2 DEF AgreeInv, LateIsBuilt, Clear, Seen
<1> QED BY <1>1, <1>2

\* begin_step moves both statuses together until the image is pushed.
LEMMA BeginAdvances ==
    ASSUME AgreeInv, NEW w \in Workers, BeginStep(w)
    PROVE  RowKept(job[w]) \/ RowAdvanced(job[w], w)
<1> DEFINE r == Seen(w)
           s == Opens(task[w])
<1>1. PICK d \in Deployments : job[w] = d
  BY DEF BeginStep, AgreeInv, PipelineInv, TypeInv, JobOK
<1>2. /\ Owner(w) /\ ~r.stop /\ view'[w] = NoView
      /\ CanTransition(r.status, s)
      /\ status' = [status EXCEPT ![d] = Written(r.status, s, @)]
  BY <1>1 DEF BeginStep, Owns, Owner, Proceed, AgreeInv, PipelineInv, TypeInv, TypeOK
<1>3. r \in Rows /\ Paired(r.status, r.build)
  BY <1>2, SeenPaired DEF Owner
<1>4. /\ status'[d] = Written(r.status, s, status[d])
      /\ status \in [Deployments -> Statuses] /\ build \in [Deployments -> BuildStatuses]
  BY <1>2 DEF AgreeInv, PipelineInv, TypeInv, TypeOK
<1>5. CASE task[w] = "target"
  <2>1. s = "deploying" /\ build'[d] = build[d]
    BY <1>1, <1>5 DEF BeginStep, Opens
  <2>2. r.status \in {"pushing_image", "deploying"}
    BY <1>2, <1>3, <2>1 DEF CanTransition, StatusEdge
  <2>3. build[d] = "succeeded"
    BY <1>1, <1>2, <1>5, <2>2, LateSeesBuilt DEF Late
  <2>4. CASE r.status = "deploying"
    BY <1>1, <1>4, <2>1, <2>4 DEF Written, RowKept
  <2>5. CASE r.status # "deploying"
    <3>1. status'[d] = "deploying" /\ build'[d] = "succeeded"
      BY <1>4, <2>1, <2>3, <2>5 DEF Written
    <3> QED BY <1>1, <1>2, <3>1 DEF RowAdvanced, Paired, BuildTerminal
  <2> QED BY <2>4, <2>5
<1>6. CASE task[w] # "target"
  <2>1. /\ CanTransitionBuild(r.build, s)
        /\ build' = [build EXCEPT ![d] = Written(r.build, s, @)]
    BY <1>1, <1>6 DEF BeginStep
  <2>2. s \in {"cloning", "building", "testing", "pushing_image"} /\ task[w] \notin Late
    BY <1>3, <1>6, <2>1 DEF Opens, CanTransitionBuild, BuildEdge, Late
  <2>3. r.status = r.build /\ r.build \notin BuildTerminal
    BY <1>2, <1>3, <2>1, <2>2
    DEF CanTransition, StatusEdge, CanTransitionBuild, BuildEdge, Paired, BuildTerminal
  <2>4. build'[d] = Written(r.build, s, build[d])
    BY <1>4, <2>1
  <2>5. CASE r.build = s
    BY <1>1, <1>4, <2>3, <2>4, <2>5 DEF Written, RowKept
  <2>6. CASE r.build # s
    <3>1. status'[d] = s /\ build'[d] = s
      BY <1>4, <2>3, <2>4, <2>6 DEF Written
    <3>2. Paired(status'[d], build'[d]) /\ status'[d] \notin {"failed", "running", "stopped"}
      BY <2>2, <3>1 DEF Paired
    <3> QED BY <1>1, <1>2, <2>2, <2>3, <3>2 DEF RowAdvanced
  <2> QED BY <2>5, <2>6
<1> QED BY <1>5, <1>6

\* A push ends the build of a deployment that is still there, or stopped.
LEMMA StepAdvances ==
    ASSUME AgreeInv, NEW w \in Workers, StepSucceeds(w)
    PROVE  /\ RowKept(job[w]) \/ RowAdvanced(job[w], w)
           /\ task[w] = "push" => status'[job[w]] = "stopped" \/ build'[job[w]] = "succeeded"
<1> DEFINE r == Seen(w)
<1>1. PICK d \in Deployments : job[w] = d
  BY DEF StepSucceeds, AgreeInv, PipelineInv, TypeInv, JobOK
<1>2. /\ Owner(w) /\ ~r.stop /\ view'[w] = NoView /\ status' = status
  BY <1>1 DEF StepSucceeds, Owns, Owner, Proceed, AgreeInv, PipelineInv, TypeInv, TypeOK
<1>3. r \in Rows /\ Paired(r.status, r.build)
  BY <1>2, SeenPaired DEF Owner
<1>4. CASE task[w] # "push"
  BY <1>1, <1>2, <1>4 DEF StepSucceeds, RowKept
<1>5. CASE task[w] = "push"
  <2>1. /\ CanTransitionBuild(r.build, "succeeded")
        /\ build' = [build EXCEPT ![d] = Written(r.build, "succeeded", @)]
    BY <1>1, <1>5 DEF StepSucceeds
  <2>2. build'[d] = Written(r.build, "succeeded", build[d])
    BY <2>1 DEF AgreeInv, PipelineInv, TypeInv, TypeOK
  <2>3. r.build \in {"pushing_image", "succeeded"}
    BY <1>3, <2>1 DEF CanTransitionBuild, BuildEdge
  <2>4. \/ status[d] = "stopped"
        \/ status[d] = r.status /\ build[d] = r.build
    BY <1>1, <1>2, OwnerSeesRow
  <2>5. CASE r.build = "succeeded"
    BY <1>1, <1>2, <2>2, <2>4, <2>5 DEF Written, RowKept
  <2>6. CASE r.build = "pushing_image"
    <3>1. build'[d] = "succeeded" /\ status'[d] = status[d]
      BY <1>2, <2>2, <2>6 DEF Written
    <3>2. status[d] \in {"pushing_image", "stopped"}
      BY <1>3, <2>4, <2>6 DEF Paired
    <3> QED BY <1>1, <1>2, <1>5, <3>1, <3>2 DEF RowAdvanced, Paired, BuildTerminal, Late
  <2> QED BY <2>3, <2>5, <2>6
<1> QED BY <1>4, <1>5

\* Only what was built goes live.
LEMMA GoAdvances ==
    ASSUME AgreeInv, NEW w \in Workers, GoRunning(w)
    PROVE  RowKept(job[w]) \/ RowAdvanced(job[w], w)
<1> DEFINE r == Seen(w)
<1>1. PICK d \in Deployments : job[w] = d
  BY DEF GoRunning, AgreeInv, PipelineInv, TypeInv, JobOK
<1>2. /\ Owner(w) /\ ~r.stop /\ view'[w] = NoView /\ build' = build
      /\ task[w] \in Late /\ claim'[d].by = None
      /\ CanTransition(r.status, "running")
      /\ status'[d] = Written(r.status, "running", status[d])
  BY <1>1 DEF GoRunning, Owns, Owner, Become, Late, NoClaim, AgreeInv, PipelineInv, TypeInv, TypeOK
<1>3. r \in Rows
  BY <1>2, SeenPaired DEF Owner
<1>4. r.status \in {"deploying", "running"}
  BY <1>2, <1>3 DEF CanTransition, StatusEdge
<1>5. build[d] = "succeeded"
  BY <1>1, <1>2, <1>4, LateSeesBuilt
<1>6. CASE r.status = "running"
  BY <1>1, <1>2, <1>6 DEF Written, RowKept
<1>7. CASE r.status = "deploying"
  BY <1>1, <1>2, <1>5, <1>7 DEF Written, RowAdvanced, Paired, BuildTerminal
<1> QED BY <1>4, <1>6, <1>7

\* A failure is recorded in both, or was already.
LEMMA FailureFails ==
    ASSUME AgreeInv, NEW w \in Workers, MarkFailed(w)
    PROVE  RowKept(job[w]) \/ RowFailed(job[w])
<1> DEFINE r == Seen(w)
<1>1. PICK d \in Deployments : job[w] = d
  BY DEF MarkFailed, AgreeInv, PipelineInv, TypeInv, JobOK
<1>2. r \in Rows /\ Paired(r.status, r.build)
  BY SeenPaired DEF MarkFailed
<1>3. /\ CanTransition(r.status, "failed") /\ CanTransitionBuild(r.build, "failed")
      /\ status'[d] = Written(r.status, "failed", status[d])
      /\ build'[d] = Written(r.build, "failed", build[d])
      /\ claim'[d].by = None
  BY <1>1 DEF MarkFailed, CanFail, NoClaim, AgreeInv, PipelineInv, TypeInv, TypeOK
<1>4. r.status = "failed" <=> r.build = "failed"
  BY <1>2, <1>3 DEF CanTransition, StatusEdge, Paired, BuildTerminal
<1> QED BY <1>1, <1>3, <1>4 DEF Written, RowKept, RowFailed

\* So is a failure the reconciler finds, however old the row it read.
LEMMA ReconcilerFails ==
    ASSUME AgreeInv, NEW d \in Deployments,
           ReconcileStaleClaim(d) \/ ReconcileMissingWorkload(d)
    PROVE  RowKept(d) \/ RowFailed(d)
<1> DEFINE r == ReconcilerSees(d)
<1> USE DEF AgreeInv, PipelineInv, TypeInv, TypeOK
<1>1. /\ r \in ReconcilerRows
      /\ Paired(r.status, r.build)
      /\ r.status = "running" => claim[d].by = None
  BY DEF ReconcilerSees, ReconcilerRow, RowsPaired, ReadsPaired, FinishedIsFree
<1>2. CASE ReconcileStaleClaim(d)
  <2>1. CASE r.status \in IN_PROGRESS_STATUSES
    <3>1. /\ status'[d] = "failed"
          /\ build'[d] = Written(r.build, "failed", build[d])
          /\ claim'[d].by = None
      BY <1>2, <2>1 DEF ReconcileStaleClaim, NoClaim
    <3>2. r.build # "failed"
      BY <1>1, <2>1 DEF Paired, IN_PROGRESS_STATUSES, InProgress
    <3> QED BY <3>1, <3>2 DEF Written, RowFailed
  <2>2. CASE r.status \notin IN_PROGRESS_STATUSES
    BY <1>2, <2>2 DEF ReconcileStaleClaim, RowKept
  <2> QED BY <2>1, <2>2
<1>3. CASE ReconcileMissingWorkload(d)
  <2>1. /\ r.status = "running"
        /\ status'[d] = "failed"
        /\ build'[d] = Written(r.build, "failed", build[d])
        /\ claim'[d] = IF r.by = None THEN claim[d] ELSE NoClaim
    BY <1>3 DEF ReconcileMissingWorkload
  <2>2. r.build # "failed" /\ claim'[d].by = None
    BY <1>1, <2>1 DEF Paired, NoClaim
  <2> QED BY <2>1, <2>2 DEF Written, RowFailed
<1> QED BY <1>2, <1>3

\* A command that owns its claim is requested and, for a cleanup, has a target.
LEMMA OwnedCommand ==
    ASSUME AgreeInv, NEW v \in Workers, InCommand(v), OwnsCommand(v)
    PROVE  /\ job[v] \in Deployments /\ task[v] \in CommandTypes /\ task[v] \in Requestable
           /\ task[v] = "stop" => StopRequested(job[v])
           /\ task[v] = "cleanup" => target[job[v]]
<1>1. /\ job[v] \in Deployments /\ task[v] \in CommandTypes /\ task[v] \in Requestable
      /\ cmd[job[v]][task[v]].status = "claimed"
  BY DEF AgreeInv, PipelineInv, TypeInv, JobOK, OnlyRequested, OwnsCommand
<1>2. cmd[job[v]][task[v]].active
  BY <1>1 DEF AgreeInv, CommandKeys, Active
<1>3. task[v] = "stop" => StopRequested(job[v])
  BY <1>1, <1>2 DEF StopRequested, Active
<1>4. task[v] = "cleanup" => target[job[v]]
  BY <1>1 DEF AgreeInv, CleanupHasTarget, Active
<1> QED BY <1>1, <1>3, <1>4

\* A command leaves alone a build it saw ended; only a stop meets another.
LEMMA CommandStops ==
    ASSUME AgreeInv, NEW v \in Workers, CommandSucceeds(v)
    PROVE  \/ RowKept(job[v]) /\ (task[v] = "stop" => Seen(v).build \in BuildTerminal)
           \/ RowStopped(job[v], v)
<1> DEFINE r == Seen(v)
<1>1. PICK d \in Deployments : job[v] = d
  BY DEF CommandSucceeds, AgreeInv, PipelineInv, TypeInv, JobOK
<1>2. r \in Rows /\ Paired(r.status, r.build)
  BY SeenPaired DEF CommandSucceeds
<1>3. /\ InCommand(v) /\ ~InCommand(v)' /\ OwnsCommand(v) /\ task[v] \in CommandTypes
      /\ status'[d] = Written(r.status, "stopped", status[d])
      /\ build'[d] = Written(r.build, BuildAfterCommand(task[v], r.build), build[d])
      /\ status[d] \in Statuses /\ build[d] \in BuildStatuses
  BY <1>1 DEF CommandSucceeds, Become, AgreeInv, PipelineInv, TypeInv, TypeOK, JobOK
<1>4. r.build \in BuildTerminal \/ task[v] # "stop" => build'[d] = build[d]
  BY <1>3 DEF Written, BuildAfterCommand
<1>5. CASE r.status = "stopped"
  <2>1. r.build \in BuildTerminal
    BY <1>2, <1>5 DEF Paired
  <2> QED BY <1>1, <1>3, <1>4, <1>5, <2>1 DEF Written, RowKept
<1>6. CASE r.status # "stopped"
  <2>1. status'[d] = "stopped"
    BY <1>3, <1>6 DEF Written
  <2>2. CASE task[v] = "stop" /\ r.build \notin BuildTerminal
    <3>1. build'[d] = "cancelled"
      BY <1>3, <2>2 DEF Written, BuildAfterCommand, BuildTerminal
    <3> QED BY <1>1, <1>3, <2>1, <2>2, <3>1 DEF RowStopped, BuildTerminal
  <2>3. CASE task[v] = "stop" /\ r.build \in BuildTerminal
    <3>1. build[d] \in BuildTerminal
      <4>1. CASE view[v] = NoView
        BY <1>1, <2>3, <4>1 DEF Seen, Row
      <4>2. CASE view[v] # NoView
        <5>1. Stopper(v) /\ view[v].build \in BuildTerminal
          BY <1>3, <1>6, <2>3, <4>2 DEF Stopper, Seen
        <5> QED BY <1>1, <5>1 DEF AgreeInv, StopperSees
      <4> QED BY <4>1, <4>2
    <3> QED BY <1>1, <1>3, <1>4, <2>1, <2>3, <3>1 DEF RowStopped
  <2>4. CASE task[v] # "stop"
    <3>1. task[v] = "cleanup"
      BY <1>3, <2>4 DEF CommandTypes
    <3>2. build[d] \in BuildTerminal
      BY <1>1, <1>3, <3>1, OwnedCommand DEF AgreeInv, CleanupIsLate, TargetIsBuilt
    <3> QED BY <1>1, <1>3, <1>4, <2>1, <2>4, <3>2 DEF RowStopped
  <2> QED BY <2>2, <2>3, <2>4
<1> QED BY <1>5, <1>6

\* Every step keeps, fails, stops or advances the row of a deployment.
LEMMA RowSteps ==
    ASSUME AgreeInv, Orderly, Next, NEW d \in Deployments
    PROVE  RowStep(d)
<1> USE DEF AgreeInv, PipelineInv, TypeInv, TypeOK, JobOK
<1>1. CASE status' = status /\ build' = build
  BY <1>1 DEF RowStep, RowKept
<1>2. CASE API \/ Reconciler \/ \E e \in Deployments : TimePasses(e)
  <2>1. ASSUME NEW e \in Deployments, ReconcileStaleClaim(e) \/ ReconcileMissingWorkload(e)
        PROVE  RowStep(d)
    <3>1. CASE e = d
      BY <2>1, <3>1, ReconcilerFails DEF RowStep
    <3>2. CASE e # d
      BY <2>1, <3>2 DEF ReconcileStaleClaim, ReconcileMissingWorkload, RowStep, RowKept
    <3> QED BY <3>1, <3>2
  <2> QED
    BY <1>1, <1>2, <2>1 DEF API, RequestCommand, Orderly, Reconciler, TimePasses, ClaimExpires,
       CommandClaimExpires, OpenReadView, ReadClaimAges, HandlerCommits, rows
<1>3. ASSUME NEW w \in Workers,
             BeginStep(w) \/ StepSucceeds(w) \/ GoRunning(w) \/ MarkFailed(w) \/ CommandSucceeds(w)
      PROVE  RowStep(d)
  <2>1. CASE job[w] = d
    BY <1>3, <2>1, BeginAdvances, StepAdvances, GoAdvances, FailureFails, CommandStops DEF RowStep
  <2>2. CASE job[w] # d
    BY <1>3, <2>2 DEF BeginStep, StepSucceeds, GoRunning, MarkFailed, CommandSucceeds, RowStep, RowKept
  <2> QED BY <2>1, <2>2
<1>4. ASSUME NEW w \in Workers, Worker(w),
             ~(BeginStep(w) \/ StepSucceeds(w) \/ GoRunning(w) \/ MarkFailed(w) \/ CommandSucceeds(w))
      PROVE  status' = status /\ build' = build
  BY <1>4 DEF Worker, Poll, NoCommandToRun, NothingPending, ClaimDeployment, ClaimCommand,
     PipelineOutcome, PersistTarget, StepFails, StepRaises, WorkerDies, LoseClaim,
     AcknowledgeCancellation, CommandOutcome, StartCommand, SkipCommand, BeginStop, CommandFails,
     CommandClaimLost, ReadRow, Heartbeat, CommandHeartbeat, Crash, Restart, rows
<1> QED BY <1>1, <1>2, <1>3, <1>4 DEF Next

-----------------------------------------------------------------------------
(* The parts of the invariant, one by one *)

\* What runs was claimed, and what was claimed was requested.
LEMMA RequestedPreserved ==
    ASSUME AgreeInv, Next
    PROVE  OnlyRequested'
<1> USE DEF AgreeInv, PipelineInv, TypeInv, TypeOK
<1>1. ASSUME NEW w \in Workers, NEW d \in Deployments, NEW t \in CommandTypes, ClaimCommand(w, d, t)
      PROVE  t \in Requestable /\ OthersUnchanged(d, t) /\ task'[w] = t
  BY <1>1, ClaimWritten DEF ClaimCommand, ClaimableCommand, OnlyRequested
<1>2. ASSUME NEW e \in Deployments, NEW u \in CommandTypes, cmd'[e][u].status \in Active
      PROVE  u \in Requestable
  <2>1. cmd[e][u] \in Commands /\ (cmd[e][u].status \in Active => u \in Requestable)
    BY DEF OnlyRequested
  <2>2. CASE Claiming
    <3>1. PICK w \in Workers, d \in Deployments, t \in CommandTypes : ClaimCommand(w, d, t)
      BY <2>2 DEF Claiming
    <3>2. t \in Requestable /\ OthersUnchanged(d, t)
      BY <1>1, <3>1
    <3> QED BY <1>2, <2>1, <3>2 DEF OthersUnchanged
  <2>3. CASE CommandStep(e, u)
    BY <1>2, <2>1, <2>3, AgedFields DEF CommandStep, RequestedAnew, Ages, Refreshed, Ended, Active
  <2> QED BY <2>2, <2>3, CommandSteps
<1>3. ASSUME NEW v \in Workers, InCommand(v)'
      PROVE  task'[v] \in Requestable
  BY <1>1, <1>3, CommandContinues DEF OnlyRequested
<1> QED BY <1>2, <1>3 DEF OnlyRequested

\* The rows, and what processes and the reconciler remember of them, stay pairs.
LEMMA PairsPreserved ==
    ASSUME AgreeInv, Orderly, Next
    PROVE  RowsPaired' /\ ViewsPaired' /\ ReadsPaired'
<1> USE DEF AgreeInv, PipelineInv, TypeInv, TypeOK
<1>1. RowsPaired'
  <2> SUFFICES ASSUME NEW d \in Deployments PROVE Paired(status'[d], build'[d])
    BY DEF RowsPaired, Paired
  <2> QED BY RowSteps DEF RowStep, RowKept, RowFailed, RowStopped, RowAdvanced, RowsPaired, Paired
<1>2. ViewsPaired'
  <2> SUFFICES ASSUME NEW w \in Workers, view'[w] # NoView
               PROVE  Paired(view'[w].status, view'[w].build)
    BY DEF ViewsPaired, Paired
  <2>1. CASE view'[w] = view[w]
    BY <2>1 DEF ViewsPaired
  <2>2. CASE ReadRow(w) \/ BeginStop(w)
    BY <2>2, ViewOpened DEF RowsPaired
  <2> QED BY <2>1, <2>2, ViewStep
<1>3. ReadsPaired'
  <2> SUFFICES ASSUME NEW d \in Deployments, rview'[d] # NoView
               PROVE  Paired(rview'[d].status, rview'[d].build)
    BY DEF ReadsPaired, Paired
  <2>1. \/ rview'[d] = rview[d]
        \/ rview[d] # NoView /\ rview'[d] = Aged(rview[d])
        \/ rview'[d] = ReconcilerRow(d)
    BY ReadStep
  <2>2. rview[d] # NoView => Aged(rview[d]).status = rview[d].status /\ Aged(rview[d]).build = rview[d].build
    BY DEF Aged
  <2> QED BY <2>1, <2>2 DEF ReadsPaired, RowsPaired, ReconcilerRow
<1> QED BY <1>1, <1>2, <1>3

\* What runs or failed has given up its claim, and nobody can take it again.
LEMMA FinishedPreserved ==
    ASSUME AgreeInv, Orderly, Next
    PROVE  FinishedIsFree'
<1> USE DEF AgreeInv, PipelineInv, TypeInv, TypeOK
<1> SUFFICES ASSUME NEW d \in Deployments
             PROVE  /\ status'[d] \in {"running", "failed"} => claim'[d].by = None
                    /\ rview'[d] # NoView /\ rview'[d].status \in {"running", "failed"} =>
                          status'[d] # "pending" /\ claim'[d].by = None
  BY DEF FinishedIsFree
<1>1. ASSUME status[d] # "pending", claim[d].by = None
      PROVE  status'[d] # "pending" /\ claim'[d].by = None
  <2>1. ~\E w \in Workers : ClaimDeployment(w, d)
    BY <1>1 DEF ClaimDeployment, ClaimableDeployment
  <2> QED BY <1>1, <2>1, HolderStep, NeverBack DEF NeverPendingAgain
<1>2. ASSUME status'[d] \in {"running", "failed"}
      PROVE  claim'[d].by = None
  <2>1. CASE RowKept(d)
    BY <1>1, <1>2, <2>1 DEF RowKept, FinishedIsFree
  <2>2. ~RowKept(d) => claim'[d].by = None
    BY <1>2, RowSteps DEF RowStep, RowFailed, RowStopped, RowAdvanced
  <2> QED BY <2>1, <2>2
<1>3. ASSUME rview'[d] # NoView, rview'[d].status \in {"running", "failed"}
      PROVE  status'[d] # "pending" /\ claim'[d].by = None
  <2>1. CASE rview'[d] = ReconcilerRow(d)
    BY <1>1, <1>3, <2>1 DEF ReconcilerRow, FinishedIsFree
  <2>2. rview[d] # NoView => Aged(rview[d]).status = rview[d].status
    BY DEF Aged
  <2> QED BY <1>1, <1>3, <2>1, <2>2, ReadStep DEF FinishedIsFree
<1> QED BY <1>2, <1>3

\* Nobody else moves the row of an owner, except a stop.
LEMMA OwnerPreserved ==
    ASSUME AgreeInv, Orderly, Next
    PROVE  OwnerSees'
<1> USE DEF AgreeInv, PipelineInv, TypeInv, TypeOK
<1> SUFFICES ASSUME NEW w \in Workers, Owner(w)', Clear(w)'
             PROVE  \/ status'[job'[w]] = "stopped"
                    \/ status'[job'[w]] = view'[w].status /\ build'[job'[w]] = view'[w].build
  BY DEF OwnerSees
<1>1. view'[w] # NoView
  BY DEF Clear
<1>2. Owner(w) /\ job'[w] = job[w] /\ job[w] \in Deployments
  BY <1>1, OwnerStep DEF ClaimDeployment, IdleHasNoSnapshot
<1>3. PICK d \in Deployments : job[w] = d
  BY <1>2
<1>4. CASE ReadRow(w) \/ BeginStop(w)
  BY <1>2, <1>4, ViewOpened DEF rows
<1>5. CASE view'[w] = view[w]
  <2>1. Clear(w) /\ claim'[d].by = w
    BY <1>2, <1>3, <1>5 DEF Clear, Owner
  <2>2. status[d] = "stopped" \/ (status[d] = view[w].status /\ build[d] = view[w].build)
    BY <1>2, <1>3, <2>1 DEF OwnerSees
  <2>3. ~RowFailed(d)
    BY <2>1, WorkQueueAssumption DEF RowFailed
  <2>4. ASSUME NEW u \in Workers, RowAdvanced(d, u)
        PROVE  FALSE
    BY <1>1, <1>2, <1>3, <1>5, <2>4 DEF RowAdvanced, Owner
  <2>5. RowKept(d) \/ status'[d] = "stopped"
    BY <2>3, <2>4, RowSteps DEF RowStep, RowStopped
  <2> QED BY <1>2, <1>3, <1>5, <2>2, <2>5 DEF RowKept
<1> QED BY <1>1, <1>4, <1>5, ViewStep

\* A step past the push follows the push.
LEMMA LateStep ==
    ASSUME PipelineInv, Next, NEW w \in Workers, InPipeline(w), InPipeline(w)',
           job'[w] = job[w], task'[w] \in Late
    PROVE  \/ task[w] \in Late
           \/ StepSucceeds(w) /\ task[w] = "push" /\ view'[w] = NoView
<1> USE DEF PipelineInv, TypeInv, TypeOK
<1>1. CASE StepSucceeds(w)
  <2>1. task'[w] = After(job[w], task[w]) /\ view'[w] = NoView
    BY <1>1 DEF StepSucceeds, Proceed
  <2>2. After(job[w], task[w]) \in Late => task[w] \in Late \cup {"push"}
    BY <1>1 DEF After, Late, StepSucceeds, JobOK
  <2> QED BY <1>1, <2>1, <2>2
<1>2. ASSUME Worker(w), ~StepSucceeds(w)
      PROVE  task'[w] = task[w] \/ PersistTarget(w)
  BY <1>2 DEF Worker, Poll, NoCommandToRun, NothingPending, ClaimDeployment, ClaimCommand,
     PipelineOutcome, BeginStep, PersistTarget, GoRunning, MarkFailed, StepFails,
     StepRaises, WorkerDies, LoseClaim, AcknowledgeCancellation, CommandOutcome, StartCommand,
     SkipCommand, BeginStop, CommandSucceeds, CommandFails, CommandClaimLost, ReadRow, Heartbeat,
     CommandHeartbeat, Crash, Restart, Become, Proceed
<1>3. CASE PersistTarget(w)
  BY <1>3 DEF PersistTarget, Late
<1> QED BY <1>1, <1>2, <1>3, OwnStep

\* A stop that overtakes a pushed image leaves the build alone, if the owner has
\* not seen the stop.
LEMMA StopSparesBuilt ==
    ASSUME AgreeInv, NEW v \in Workers, NEW d \in Deployments, RowStopped(d, v),
           NEW w \in Workers, job[w] = d, Owner(w), Clear(w), build[d] = "succeeded"
    PROVE  build'[d] = "succeeded"
<1> SUFFICES ASSUME task[v] = "stop", Seen(v).build \notin BuildTerminal PROVE FALSE
  BY DEF RowStopped
<1>1. job[v] = d /\ InCommand(v) /\ OwnsCommand(v)
  BY DEF RowStopped
<1>2. view[v] # NoView
  BY <1>1 DEF Seen, Row, BuildTerminal
<1>3. Stopper(v)
  <2>1. Paired(view[v].status, view[v].build) /\ view[v].build \notin BuildTerminal
    BY <1>2 DEF AgreeInv, ViewsPaired, Seen
  <2> QED BY <1>1, <1>2, <2>1 DEF Stopper, Paired
<1>4. view[v].build = view[w].build /\ status[d] # "stopped"
  BY <1>1, <1>3 DEF AgreeInv, SameRow, StopperSees
<1>5. build[d] = view[w].build
  BY <1>4 DEF AgreeInv, OwnerSees
<1> QED BY <1>2, <1>4, <1>5 DEF Seen, BuildTerminal

\* An owner past its push keeps its built image.
LEMMA LatePreserved ==
    ASSUME AgreeInv, Orderly, Next
    PROVE  LateIsBuilt'
<1> USE DEF AgreeInv, PipelineInv, TypeInv, TypeOK
<1> SUFFICES ASSUME NEW w \in Workers, Owner(w)', task'[w] \in Late
             PROVE  /\ status'[job'[w]] = "stopped" \/ build'[job'[w]] = "succeeded"
                    /\ Clear(w)' /\ view'[w].status # "stopped" => build'[job'[w]] = "succeeded"
  BY DEF LateIsBuilt
<1>1. Owner(w) /\ job'[w] = job[w] /\ job[w] \in Deployments
  BY OwnerStep DEF ClaimDeployment, Late
<1>2. PICK d \in Deployments : job[w] = d
  BY <1>1
<1>3. claim'[d].by = w
  BY <1>1, <1>2 DEF Owner
<1>4. CASE StepSucceeds(w) /\ task[w] = "push" /\ view'[w] = NoView
  BY <1>1, <1>2, <1>4, StepAdvances DEF Clear
<1>5. CASE task[w] \in Late
  <2>1. status[d] = "stopped" \/ build[d] = "succeeded"
    BY <1>1, <1>2, <1>5 DEF LateIsBuilt
  <2>2. ~RowFailed(d)
    BY <1>3, WorkQueueAssumption DEF RowFailed
  <2>3. ASSUME NEW u \in Workers, RowAdvanced(d, u)
        PROVE  u = w /\ build'[d] = "succeeded"
    BY <1>1, <1>2, <1>5, <2>3 DEF RowAdvanced, Owner
  <2>4. status'[d] = "stopped" \/ build'[d] = "succeeded"
    BY <2>1, <2>2, <2>3, RowSteps DEF RowStep, RowKept, RowStopped
  <2>5. ASSUME Clear(w)', view'[w].status # "stopped"
        PROVE  build'[d] = "succeeded"
    <3>1. view'[w] # NoView
      BY <2>5 DEF Clear
    <3>2. CASE ReadRow(w) \/ BeginStop(w)
      BY <1>2, <2>1, <2>5, <3>2, ViewOpened DEF rows
    <3>3. CASE view'[w] = view[w]
      <4>1. Clear(w) /\ build[d] = "succeeded"
        BY <1>1, <1>2, <1>5, <2>5, <3>3 DEF Clear, LateIsBuilt
      <4>2. \A v \in Workers : RowStopped(d, v) => build'[d] = "succeeded"
        BY <1>1, <1>2, <4>1, StopSparesBuilt
      <4> QED BY <2>2, <2>3, <4>1, <4>2, RowSteps DEF RowStep, RowKept
    <3> QED BY <3>1, <3>2, <3>3, ViewStep
  <2> QED BY <1>1, <1>2, <2>4, <2>5
<1> QED BY <1>1, <1>4, <1>5, LateStep DEF Owner

\* A stop that goes on was held before and, unless it opens its snapshot now,
\* goes on with the same one.
LEMMA StopperStep ==
    ASSUME AgreeInv, Next, NEW v \in Workers, Stopper(v)'
    PROVE  /\ InCommand(v) /\ OwnsCommand(v) /\ task[v] = "stop"
           /\ job'[v] = job[v] /\ job[v] \in Deployments /\ StopRequested(job[v])
           /\ \/ Stopper(v) /\ view'[v] = view[v]
              \/ ReadRow(v) \/ BeginStop(v)
<1> USE DEF AgreeInv, PipelineInv, TypeInv, TypeOK
<1>1. InCommand(v)' /\ OwnsCommand(v)' /\ view'[v] # NoView /\ view'[v].status # "stopped"
  BY DEF Stopper
<1>2. InCommand(v) /\ job'[v] = job[v] /\ task'[v] = task[v]
  BY <1>1, CommandContinues DEF ClaimCommand, IdleHasNoSnapshot
<1>3. OwnsCommand(v)
  BY <1>1, <1>2, HeldSinceClaimed
<1>4. task[v] = "stop"
  BY <1>2 DEF Stopper
<1>5. job[v] \in Deployments /\ StopRequested(job[v])
  BY <1>2, <1>3, <1>4, OwnedCommand
<1>6. view'[v] = view[v] => Stopper(v)
  BY <1>1, <1>2, <1>3, <1>4 DEF Stopper
<1> QED BY <1>1, <1>2, <1>3, <1>4, <1>5, <1>6, ViewStep

\* Two workers never hold one command.
LEMMA OneCommander ==
    ASSUME AgreeInv, NEW u \in Workers, NEW v \in Workers, InCommand(u), InCommand(v),
           OwnsCommand(u), OwnsCommand(v), job[u] = job[v], task[u] = task[v]
    PROVE  u = v
BY DEF AgreeInv, OwnsCommand

\* An owner about to write beside a held stop works from a snapshot older than it.
LEMMA WriterIsClear ==
    ASSUME AgreeInv, NEW w \in Workers, ~Seen(w).stop, StopRequested(job[w])
    PROVE  Clear(w) /\ Seen(w) = view[w]
BY DEF Seen, Row, Clear

\* No build that a stop saw ended resumes while the stop runs.
LEMMA StopperPreserved ==
    ASSUME AgreeInv, Orderly, Next
    PROVE  StopperSees'
<1> USE DEF AgreeInv, PipelineInv, TypeInv, TypeOK
<1> SUFFICES ASSUME NEW v \in Workers, Stopper(v)', view'[v].build \in BuildTerminal
             PROVE  build'[job'[v]] \in BuildTerminal
  BY DEF StopperSees
<1>1. job'[v] = job[v] /\ job[v] \in Deployments /\ StopRequested(job[v])
  BY StopperStep
<1>2. PICK d \in Deployments : job[v] = d
  BY <1>1
<1>3. CASE ReadRow(v) \/ BeginStop(v)
  BY <1>1, <1>3, ViewOpened DEF rows
<1>4. CASE Stopper(v) /\ view'[v] = view[v]
  <2>1. build[d] \in BuildTerminal
    BY <1>2, <1>4 DEF StopperSees
  <2>2. ASSUME NEW w \in Workers, RowAdvanced(d, w)
        PROVE  build'[d] \in BuildTerminal
    <3>1. job[w] = d /\ Owner(w) /\ Clear(w) /\ Seen(w) = view[w]
      BY <1>1, <1>2, <2>2, WriterIsClear DEF RowAdvanced
    <3>2. view[v].build = view[w].build
      BY <1>2, <1>4, <3>1 DEF SameRow
    <3> QED BY <1>4, <2>2, <3>1, <3>2 DEF RowAdvanced
  <2>3. build'[d] \in BuildTerminal
    BY <2>1, <2>2, RowSteps DEF RowStep, RowKept, RowFailed, RowStopped, BuildTerminal
  <2> QED BY <1>1, <1>2, <2>3
<1> QED BY <1>3, <1>4, StopperStep

\* A pipeline that opens its snapshot beside a stop sees the stop, so the two
\* share a row only when the pipeline read it first; a cleanup that could stop the
\* deployment between them never overtakes a pipeline that refreshes its claim.
LEMMA SameRowPreserved ==
    ASSUME AgreeInv, Orderly, Next
    PROVE  SameRow'
<1> USE DEF AgreeInv, PipelineInv, TypeInv, TypeOK
<1> SUFFICES ASSUME NEW v \in Workers, NEW w \in Workers,
                    Stopper(v)', Owner(w)', Clear(w)', job'[v] = job'[w]
             PROVE  /\ view'[v].status = view'[w].status /\ view'[v].build = view'[w].build
                    /\ status'[job'[v]] # "stopped"
  BY DEF SameRow
<1>1. /\ InCommand(v) /\ OwnsCommand(v) /\ task[v] = "stop"
      /\ job'[v] = job[v] /\ job[v] \in Deployments /\ StopRequested(job[v])
      /\ InCommand(v)' /\ view'[v].status # "stopped"
  BY StopperStep DEF Stopper
<1>2. view'[w] # NoView /\ ~view'[w].stop
  BY DEF Clear
<1>3. Owner(w) /\ job'[w] = job[w] /\ job[w] = job[v]
  BY <1>1, <1>2, OwnerStep DEF ClaimDeployment, IdleHasNoSnapshot
<1>4. view'[w] = view[w] /\ Clear(w)
  <2>1. ReadRow(w) \/ BeginStop(w) => view'[w].stop = StopRequested(job[v])
    BY <1>3, ViewOpened
  <2>2. ~(ReadRow(w) \/ BeginStop(w))
    BY <1>1, <1>2, <2>1
  <2>3. view'[w] = view[w]
    BY <1>2, <2>2, ViewStep
  <2> QED BY <1>2, <2>3 DEF Clear
<1>5. CASE Stopper(v) /\ view'[v] = view[v]
  <2>1. PICK d \in Deployments : job[v] = d
    BY <1>1
  <2>2. view[v].status = view[w].status /\ view[v].build = view[w].build /\ status[d] # "stopped"
    BY <1>3, <1>4, <1>5, <2>1 DEF SameRow
  <2>3. ASSUME NEW u \in Workers, RowStopped(d, u)
        PROVE  FALSE
    <3>1. task[u] \in CommandTypes /\ task[u] \in Requestable /\ task[v] \in Requestable
      BY <1>1, <2>3, OwnedCommand DEF RowStopped
    <3>2. task[u] # "stop"
      BY <1>1, <2>1, <2>3, OneCommander DEF RowStopped
    <3>3. Stallable = {}
      BY <1>1, <3>1, <3>2 DEF Orderly, CommandTypes
    <3> QED BY <1>1, <1>3, <1>4, <3>3 DEF InTime, OwnersYield
  <2>4. status'[d] # "stopped"
    BY <2>2, <2>3, RowSteps DEF RowStep, RowKept, RowFailed, RowAdvanced
  <2> QED BY <1>1, <1>4, <1>5, <2>1, <2>2, <2>4
<1>6. CASE ReadRow(v) \/ BeginStop(v)
  <2>1. /\ view'[v].status = status[job[v]] /\ view'[v].build = build[job[v]]
        /\ status' = status
    BY <1>6, ViewOpened DEF rows
  <2> QED BY <1>1, <1>3, <1>4, <2>1 DEF OwnerSees
<1> QED BY <1>5, <1>6, StopperStep

-----------------------------------------------------------------------------
(* Workers in time *)

\* Only the passing of time makes a claim stale.
LEMMA StaleStep ==
    ASSUME TypeInv, Next, NEW d \in Deployments, claim'[d].stale
    PROVE  claim[d].stale \/ ClaimExpires(d)
<1> USE DEF TypeInv, TypeOK
<1>1. ASSUME NEW e, claim' = [claim EXCEPT ![e] = NoClaim]
      PROVE  claim[d].stale
  BY <1>1 DEF NoClaim
<1>2. ASSUME NEW w \in Workers, NEW e, claim' = [claim EXCEPT ![e] = FreshClaim(w)]
      PROVE  claim[d].stale
  BY <1>2 DEF FreshClaim
<1>3. CASE API \/ Reconciler \/ \E e \in Deployments : TimePasses(e)
  <2>1. ASSUME NEW e \in Deployments, ClaimExpires(e), e # d
        PROVE  claim[d].stale
    BY <2>1 DEF ClaimExpires
  <2>2. ASSUME NEW e \in Deployments, ReconcileStaleClaim(e)
        PROVE  claim[d].stale
    BY <1>1, <2>2 DEF ReconcileStaleClaim
  <2>3. ASSUME NEW e \in Deployments, ReconcileMissingWorkload(e)
        PROVE  claim[d].stale
    BY <2>3 DEF ReconcileMissingWorkload, NoClaim
  <2> QED
    BY <1>3, <2>1, <2>2, <2>3 DEF API, RequestCommand, PatchStatus, PatchBuild, Reconciler,
       TimePasses, CommandClaimExpires, OpenReadView, ReadClaimAges, HandlerCommits, rows
<1>4. ASSUME NEW w \in Workers, Worker(w)
      PROVE  claim[d].stale
  BY <1>1, <1>2, <1>4 DEF Worker, Poll, NoCommandToRun, NothingPending, ClaimDeployment, ClaimCommand,
     PipelineOutcome, BeginStep, StepSucceeds, PersistTarget, GoRunning, MarkFailed, StepFails,
     StepRaises, WorkerDies, LoseClaim, AcknowledgeCancellation, CommandOutcome, StartCommand,
     SkipCommand, BeginStop, CommandSucceeds, CommandFails, CommandClaimLost, ReadRow, Heartbeat,
     CommandHeartbeat, Crash, Restart, rows, Refresh
<1> QED BY <1>3, <1>4 DEF Next

\* An owner that never stalls is never overtaken.
LEMMA FreshPreserved ==
    ASSUME AgreeInv, Stallable = {}, Next
    PROVE  OwnersFresh'
<1> USE DEF AgreeInv, PipelineInv, TypeInv, TypeOK
<1> SUFFICES ASSUME NEW w \in Workers, Owner(w)', claim'[job'[w]].stale
             PROVE  FALSE
  BY DEF OwnersFresh
<1>1. ASSUME NEW d \in Deployments, ClaimDeployment(w, d)
      PROVE  FALSE
  BY <1>1 DEF ClaimDeployment, FreshClaim
<1>2. Owner(w) /\ job'[w] = job[w] /\ job[w] \in Deployments
  BY <1>1, OwnerStep
<1>3. PICK d \in Deployments : job[w] = d
  BY <1>2
<1>4. ~claim[d].stale /\ ~ClaimExpires(d)
  BY <1>2, <1>3 DEF InTime, OwnersFresh, Owner, ClaimExpires, Holds
<1> QED BY <1>2, <1>3, <1>4, StaleStep

\* It sees the stop that runs beside it, and no cleanup does.
LEMMA OwnersYieldPreserved ==
    ASSUME AgreeInv, Stallable = {}, Next
    PROVE  OwnersYield'
<1> USE DEF AgreeInv, PipelineInv, TypeInv, TypeOK
<1> SUFFICES ASSUME NEW w \in Workers, NEW v \in Workers,
                    Owner(w)', InCommand(v)', job'[w] = job'[v]
             PROVE  task'[v] = "stop" /\ ~Clear(w)'
  BY DEF OwnersYield
<1>1. ASSUME NEW d \in Deployments, ClaimDeployment(w, d)
      PROVE  task'[v] = "stop" /\ ~Clear(w)'
  <2>1. v # w /\ pc'[v] = pc[v] /\ job'[v] = job[v] /\ task'[v] = task[v] /\ job'[w] = d
    BY <1>1 DEF ClaimDeployment
  <2>2. InCommand(v) /\ job[v] = d /\ task[v] \in CommandTypes
    BY <2>1 DEF JobOK
  <2>3. cmd[d][task[v]].status = "claimed"
    BY <2>2 DEF InTime, CommandersHoldCommands
  <2>4. task[v] # "cleanup"
    BY <1>1, <2>3 DEF ClaimDeployment, ClaimableDeployment, CleanupHasTarget, TargetIsNotPending, Active
  <2>5. view'[w] = NoView
    BY <1>1 DEF ClaimDeployment, IdleHasNoSnapshot
  <2> QED BY <2>1, <2>2, <2>4, <2>5 DEF Clear, CommandTypes
<1>2. CASE Owner(w) /\ job'[w] = job[w] /\ job[w] \in Deployments
  <2>1. ASSUME NEW d \in Deployments, NEW t \in CommandTypes, ClaimCommand(v, d, t)
        PROVE  FALSE
    <3>1. job'[v] = d /\ Free(claim[d])
      BY <2>1 DEF ClaimCommand, ClaimableCommand
    <3>2. job[w] = d /\ claim[d].by = w
      BY <1>2, <3>1 DEF Owner
    <3>3. ~claim[d].stale
      BY <1>2, <3>2 DEF InTime, OwnersFresh
    <3> QED BY <3>1, <3>2, <3>3, WorkQueueAssumption DEF Free
  <2>2. InCommand(v) /\ job'[v] = job[v] /\ task'[v] = task[v]
    BY <2>1, CommandContinues
  <2>3. task[v] = "stop" /\ ~Clear(w)
    BY <1>2, <2>2 DEF InTime, OwnersYield
  <2>4. OwnsCommand(v) /\ StopRequested(job[w])
    <3>1. OwnsCommand(v)
      BY <2>2 DEF InTime, CommandersHoldCommands, OwnsCommand
    <3> QED BY <1>2, <2>2, <2>3, <3>1, OwnedCommand
  <2>5. view'[w] = NoView \/ view'[w] = view[w] \/ view'[w].stop
    BY <2>4, ViewStep, ViewOpened
  <2> QED BY <2>2, <2>3, <2>5 DEF Clear
<1> QED BY <1>1, <1>2, OwnerStep

\* So nobody writes the row of a deployment beside its command.
LEMMA NobodyWritesBeside ==
    ASSUME AgreeInv, Stallable = {}, NEW v \in Workers, InCommand(v),
           NEW w \in Workers, Owner(w), job[w] = job[v], ~Seen(w).stop
    PROVE  FALSE
<1>1. task[v] = "stop" /\ ~Clear(w) /\ OwnsCommand(v)
  BY DEF AgreeInv, InTime, OwnersYield, CommandersHoldCommands, OwnsCommand
<1>2. StopRequested(job[w])
  BY <1>1, OwnedCommand
<1> QED BY <1>1, <1>2, WriterIsClear

\* No build a command saw ended resumes.
LEMMA CommandersEndPreserved ==
    ASSUME AgreeInv, Orderly, Stallable = {}, Next
    PROVE  CommandersEnd'
<1> USE DEF AgreeInv, PipelineInv, TypeInv, TypeOK
<1> SUFFICES ASSUME NEW v \in Workers, InCommand(v)', view'[v] # NoView,
                    view'[v].build \in BuildTerminal
             PROVE  build'[job'[v]] \in BuildTerminal
  BY DEF CommandersEnd
<1>1. InCommand(v) /\ job'[v] = job[v]
  BY CommandContinues DEF ClaimCommand, IdleHasNoSnapshot
<1>2. PICK d \in Deployments : job[v] = d
  BY <1>1 DEF JobOK
<1>3. CASE ReadRow(v) \/ BeginStop(v)
  BY <1>1, <1>3, ViewOpened DEF rows
<1>4. CASE view'[v] = view[v]
  <2>1. build[d] \in BuildTerminal
    BY <1>1, <1>2, <1>4 DEF InTime, CommandersEnd
  <2>2. ASSUME NEW w \in Workers, RowAdvanced(d, w)
        PROVE  FALSE
    BY <1>1, <1>2, <2>2, NobodyWritesBeside DEF RowAdvanced
  <2>3. build'[d] \in BuildTerminal
    BY <2>1, <2>2, RowSteps DEF RowStep, RowKept, RowFailed, RowStopped, BuildTerminal
  <2> QED BY <1>1, <1>2, <2>3
<1> QED BY <1>3, <1>4, ViewStep

-----------------------------------------------------------------------------
(* Cleanups *)

\* A deployment gets its target from the pipeline or from a command that stopped it.
LEMMA TargetStep ==
    ASSUME TypeInv, Next, NEW d \in Deployments, target'[d], ~target[d]
    PROVE  \E w \in Workers : job[w] = d /\ (PersistTarget(w) \/ CommandSucceeds(w))
<1> USE DEF TypeInv, TypeOK, JobOK
<1>1. CASE API \/ Reconciler \/ \E e \in Deployments : TimePasses(e)
  BY <1>1 DEF API, RequestCommand, PatchStatus, PatchBuild, Reconciler, TimePasses, ClaimExpires,
     CommandClaimExpires, OpenReadView, ReadClaimAges, HandlerCommits, ReconcileStaleClaim,
     ReconcileMissingWorkload, rows
<1>2. ASSUME NEW w \in Workers, Worker(w)
      PROVE  job[w] = d /\ (PersistTarget(w) \/ CommandSucceeds(w))
  <2>1. PersistTarget(w) \/ CommandSucceeds(w)
    BY <1>2 DEF Worker, Poll, NoCommandToRun, NothingPending, ClaimDeployment, ClaimCommand,
       PipelineOutcome, BeginStep, StepSucceeds, GoRunning, MarkFailed, StepFails, StepRaises,
       WorkerDies, LoseClaim, AcknowledgeCancellation, CommandOutcome, StartCommand, SkipCommand,
       BeginStop, CommandFails, CommandClaimLost, ReadRow, Heartbeat, CommandHeartbeat, Crash,
       Restart, rows
  <2>2. target' = [target EXCEPT ![job[w]] = TRUE]
    BY <2>1 DEF PersistTarget, CommandSucceeds
  <2> QED BY <2>1, <2>2
<1> QED BY <1>1, <1>2 DEF Next

\* A worker that persists the target has a built image.
LEMMA PersisterIsLate ==
    ASSUME AgreeInv, "cleanup" \in Requestable, NEW w \in Workers, PersistTarget(w)
    PROVE  /\ Begun(w) /\ view'[w] = NoView
           /\ build'[job[w]] \in BuildTerminal
BY DEF AgreeInv, PipelineInv, TypeInv, TypeOK, CleanupIsLate, LateIsEnded, PersistTarget, Begun,
   Late, Proceed

\* Only a pipeline that saw an active build gives one, and it has no target.
LEMMA BuiltPreserved ==
    ASSUME AgreeInv, Orderly, "cleanup" \in Requestable, Next
    PROVE  TargetIsBuilt'
<1> USE DEF AgreeInv, PipelineInv, TypeInv, TypeOK
<1> SUFFICES ASSUME NEW d \in Deployments, target'[d] PROVE build'[d] \in BuildTerminal
  BY DEF TargetIsBuilt
<1>1. CASE target[d]
  <2>1. build[d] \in BuildTerminal
    BY <1>1 DEF CleanupIsLate, TargetIsBuilt
  <2>2. ASSUME NEW w \in Workers, RowAdvanced(d, w)
        PROVE  build'[d] \in BuildTerminal
    <3> SUFFICES ASSUME Seen(w).build \notin BuildTerminal PROVE FALSE
      BY <2>2 DEF RowAdvanced
    <3>1. job[w] = d /\ Owner(w) /\ ~Seen(w).stop
      BY <2>2 DEF RowAdvanced
    <3>2. view[w] # NoView
      BY <2>1, <3>1 DEF Seen, Row
    <3>3. Clear(w) /\ view[w].build \notin BuildTerminal
      BY <3>1, <3>2 DEF Seen, Clear
    <3> QED BY <1>1, <3>1, <3>3 DEF CleanupIsLate, UnbuiltHasNoTarget
  <2> QED
    BY <2>1, <2>2, RowSteps DEF RowStep, RowKept, RowFailed, RowStopped, BuildTerminal
<1>2. CASE ~target[d]
  <2>1. PICK w \in Workers : job[w] = d /\ (PersistTarget(w) \/ CommandSucceeds(w))
    BY <1>2, TargetStep
  <2>2. CASE PersistTarget(w)
    BY <2>1, <2>2, PersisterIsLate
  <2>3. CASE CommandSucceeds(w)
    <3>1. InCommand(w) /\ OwnsCommand(w)
      BY <2>3 DEF CommandSucceeds
    <3>2. task[w] = "stop" /\ Stallable = {}
      BY <1>2, <2>1, <3>1, OwnedCommand DEF Orderly, CommandTypes
    <3>3. CASE RowKept(d) /\ Seen(w).build \in BuildTerminal
      <4>1. build[d] \in BuildTerminal
        BY <2>1, <3>1, <3>2, <3>3 DEF Seen, Row, InTime, CommandersEnd
      <4> QED BY <3>3, <4>1 DEF RowKept
    <3>4. CASE RowStopped(d, w)
      BY <3>4 DEF RowStopped
    <3> QED BY <2>1, <2>3, <3>2, <3>3, <3>4, CommandStops
  <2> QED BY <2>1, <2>2, <2>3
<1> QED BY <1>1, <1>2

\* A pipeline that saw an active build is the only one to give its deployment a
\* target, and commits before it does; no command overtakes it.
LEMMA UnbuiltPreserved ==
    ASSUME AgreeInv, Orderly, "cleanup" \in Requestable, Next
    PROVE  UnbuiltHasNoTarget'
<1> USE DEF AgreeInv, PipelineInv, TypeInv, TypeOK
<1> SUFFICES ASSUME NEW w \in Workers, Owner(w)', Clear(w)', view'[w].build \notin BuildTerminal,
                    target'[job'[w]]
             PROVE  FALSE
  BY DEF UnbuiltHasNoTarget
<1>1. view'[w] # NoView /\ ~view'[w].stop
  BY DEF Clear
<1>2. Owner(w) /\ job'[w] = job[w] /\ job[w] \in Deployments
  BY <1>1, OwnerStep DEF ClaimDeployment, IdleHasNoSnapshot
<1>3. PICK d \in Deployments : job[w] = d
  BY <1>2
<1>4. CASE ReadRow(w) \/ BeginStop(w)
  BY <1>2, <1>3, <1>4, ViewOpened DEF rows, CleanupIsLate, TargetIsBuilt
<1>5. CASE view'[w] = view[w]
  <2>1. Clear(w) /\ ~target[d]
    BY <1>1, <1>2, <1>3, <1>5 DEF Clear, CleanupIsLate, UnbuiltHasNoTarget
  <2>2. PICK u \in Workers : job[u] = d /\ (PersistTarget(u) \/ CommandSucceeds(u))
    BY <1>2, <1>3, <2>1, TargetStep
  <2>3. CASE PersistTarget(u)
    <3>1. Begun(u) /\ u # w
      BY <1>1, <2>3, PersisterIsLate
    <3> QED BY <1>2, <1>3, <2>2, <3>1 DEF BeginningTakesTheClaim, Owner
  <2>4. CASE CommandSucceeds(u)
    <3>1. InCommand(u) /\ OwnsCommand(u)
      BY <2>4 DEF CommandSucceeds
    <3>2. Stallable = {}
      BY <2>1, <2>2, <3>1, OwnedCommand DEF Orderly, CommandTypes
    <3> QED BY <1>2, <1>3, <2>1, <2>2, <3>1, <3>2 DEF InTime, OwnersYield
  <2> QED BY <2>2, <2>3, <2>4
<1> QED BY <1>1, <1>4, <1>5, ViewStep

\* A worker that is past its push, and not failing, was so or pushes now.
LEMMA BegunStep ==
    ASSUME PipelineInv, Next, NEW w \in Workers, Begun(w)', task[w] \in Late
    PROVE  Begun(w)
<1> USE DEF PipelineInv, TypeInv, TypeOK
<1>1. CASE Worker(w)
  BY <1>1 DEF Begun, Late, JobOK, Worker, Poll, NoCommandToRun, NothingPending, ClaimDeployment,
     ClaimCommand, PipelineOutcome, BeginStep, StepSucceeds, PersistTarget, GoRunning, MarkFailed,
     StepFails, StepRaises, WorkerDies, LoseClaim, AcknowledgeCancellation, CommandOutcome,
     StartCommand, SkipCommand, BeginStop, CommandSucceeds, CommandFails, CommandClaimLost, ReadRow,
     Heartbeat, CommandHeartbeat, Crash, Restart, Become, Proceed
<1> QED BY <1>1, OwnStep DEF Begun

\* Nobody else moves the row of a worker past its push back to an active build.
LEMMA EndedPreserved ==
    ASSUME AgreeInv, Orderly, "cleanup" \in Requestable, Next
    PROVE  LateIsEnded'
<1> USE DEF AgreeInv, PipelineInv, TypeInv, TypeOK
<1> SUFFICES ASSUME NEW w \in Workers, Begun(w)', task'[w] \in Late
             PROVE  build'[job'[w]] \in BuildTerminal
  BY DEF LateIsEnded
<1>1. InPipeline(w)'
  BY DEF Begun
<1>2. InPipeline(w) /\ job'[w] = job[w]
  BY <1>1, PipelineContinues DEF ClaimDeployment, Late
<1>3. PICK d \in Deployments : job[w] = d
  BY <1>2 DEF JobOK
<1>4. CASE StepSucceeds(w) /\ task[w] = "push"
  <2>1. status'[d] = "stopped" \/ build'[d] = "succeeded"
    BY <1>3, <1>4, StepAdvances
  <2>2. Paired(status'[d], build'[d])
    BY PairsPreserved DEF RowsPaired, Paired
  <2> QED BY <1>2, <1>3, <2>1, <2>2 DEF Paired, BuildTerminal
<1>5. CASE task[w] \in Late
  <2>1. Begun(w) /\ build[d] \in BuildTerminal
    BY <1>3, <1>5, BegunStep DEF CleanupIsLate, LateIsEnded
  <2>2. ASSUME NEW u \in Workers, RowAdvanced(d, u)
        PROVE  build'[d] = "succeeded"
    <3>1. job[u] = d /\ Owner(u)
      BY <2>2 DEF RowAdvanced
    <3>2. u = w
      BY <1>3, <2>1, <3>1 DEF BeginningTakesTheClaim, Owner
    <3> QED BY <1>5, <2>2, <3>2 DEF RowAdvanced
  <2>3. build'[d] \in BuildTerminal
    BY <2>1, <2>2, RowSteps DEF RowStep, RowKept, RowFailed, RowStopped, BuildTerminal
  <2> QED BY <1>2, <1>3, <2>3
<1> QED BY <1>1, <1>2, <1>4, <1>5, LateStep

-----------------------------------------------------------------------------
(* The invariant *)

\* A fresh database satisfies the invariant.
LEMMA AgreeInit == Init => AgreeInv
<1> SUFFICES ASSUME Init PROVE AgreeInv
  OBVIOUS
<1>1. PipelineInv
  BY PipelineInit
<1>2. CommandKeys /\ OnlyRequested /\ TargetIsNotPending /\ CleanupHasTarget
  BY DEF Init, CommandKeys, OnlyRequested, TargetIsNotPending, CleanupHasTarget, Active, CommandTypes
<1>3. \A w \in Workers : ~Owner(w) /\ ~Stopper(w) /\ ~InCommand(w) /\ ~Begun(w)
  BY DEF Init, Owner, Stopper, Begun
<1>4. InTime /\ CleanupIsLate
  BY <1>3 DEF Init, InTime, CommandersHoldCommands, OwnersFresh, OwnersYield, CommandersEnd,
     CleanupIsLate, TargetIsBuilt, UnbuiltHasNoTarget, LateIsEnded
<1>5. RowsPaired /\ ViewsPaired /\ ReadsPaired /\ FinishedIsFree
  BY DEF Init, RowsPaired, ViewsPaired, ReadsPaired, Paired, FinishedIsFree
<1> QED
  BY <1>1, <1>2, <1>3, <1>4, <1>5 DEF AgreeInv, OwnerSees, LateIsBuilt, StopperSees, SameRow

\* Without PATCHes, and unless cleanups and stops meet workers that stall, every
\* step keeps it.
LEMMA AgreeStep == ASSUME Orderly PROVE AgreeInv /\ [Next]_vars => AgreeInv'
<1> SUFFICES ASSUME AgreeInv, [Next]_vars PROVE AgreeInv'
  OBVIOUS
<1>1. PipelineInv'
  BY PipelineStep DEF AgreeInv
<1>2. CASE UNCHANGED vars
  <2>1. UNCHANGED <<status, build, claim, target, cmd, pc, job, task, view, rview>>
    BY <1>2 DEF vars, rows, process
  <2>2. (CommandKeys /\ OnlyRequested /\ TargetIsNotPending /\ CleanupHasTarget)'
    BY <2>1 DEF AgreeInv, CommandKeys, OnlyRequested, TargetIsNotPending, CleanupHasTarget
  <2>3. (RowsPaired /\ ViewsPaired /\ ReadsPaired /\ FinishedIsFree)'
    BY <2>1 DEF AgreeInv, RowsPaired, ViewsPaired, ReadsPaired, Paired, FinishedIsFree
  <2>4. (OwnerSees /\ LateIsBuilt /\ StopperSees /\ SameRow)'
    BY <2>1 DEF AgreeInv, OwnerSees, LateIsBuilt, StopperSees, SameRow, Owner, Clear, Stopper,
       OwnsCommand
  <2>5. Stallable = {} => InTime'
    BY <2>1 DEF AgreeInv, InTime, CommandersHoldCommands, OwnersFresh, OwnersYield, CommandersEnd,
       Owner, Clear
  <2>6. "cleanup" \in Requestable => CleanupIsLate'
    BY <2>1 DEF AgreeInv, CleanupIsLate, TargetIsBuilt, UnbuiltHasNoTarget, LateIsEnded, Owner,
       Clear, Begun
  <2> QED BY <1>1, <2>2, <2>3, <2>4, <2>5, <2>6 DEF AgreeInv
<1>3. CASE Next
  <2>1. CommandKeys' /\ OnlyRequested'
    BY <1>3, KeysPreserved, RequestedPreserved DEF AgreeInv, PipelineInv
  <2>2. TargetIsNotPending' /\ CleanupHasTarget'
    BY <1>3, TargetPreserved, CleanupPreserved DEF AgreeInv
  <2>3. RowsPaired' /\ ViewsPaired' /\ ReadsPaired' /\ FinishedIsFree'
    BY <1>3, PairsPreserved, FinishedPreserved
  <2>4. OwnerSees' /\ LateIsBuilt' /\ StopperSees' /\ SameRow'
    BY <1>3, OwnerPreserved, LatePreserved, StopperPreserved, SameRowPreserved
  <2>5. ASSUME Stallable = {} PROVE InTime'
    <3>1. CommandersHoldCommands'
      BY <1>3, <2>5, CommandersPreserved DEF AgreeInv, InTime
    <3> QED
      BY <1>3, <2>5, <3>1, FreshPreserved, OwnersYieldPreserved, CommandersEndPreserved DEF InTime
  <2>6. ASSUME "cleanup" \in Requestable PROVE CleanupIsLate'
    BY <1>3, <2>6, BuiltPreserved, UnbuiltPreserved, EndedPreserved DEF CleanupIsLate
  <2> QED BY <1>1, <2>1, <2>2, <2>3, <2>4, <2>5, <2>6 DEF AgreeInv
<1> QED BY <1>2, <1>3

\* A deployment and its build never tell different stories, for any number of
\* workers and deployments, whoever crashes, however old the rows the reconciler
\* acts on, and although the pipeline, commands and the reconciler check the two
\* on snapshots: while workers refresh their claims in time, or one of the two
\* commands is not used.  A worker that outlives its TTL can resume its build
\* after a stop, and a cleanup then leaves that build active; a PATCH moves the
\* two apart by itself.
THEOREM StatusesAgreeAlways == ASSUME Orderly PROVE Spec => []StatusesAgree
<1>1. Init => AgreeInv
  BY AgreeInit
<1>2. AgreeInv /\ [Next]_vars => AgreeInv'
  BY AgreeStep
<1>3. AgreeInv => StatusesAgree
  BY DEF AgreeInv, RowsPaired, Paired, StatusesAgree, InProgress, BuildTerminal
<1> QED BY <1>1, <1>2, <1>3, PTL DEF Spec

-----------------------------------------------------------------------------
(* The queue implements the abstract attempt *)

\* Nobody PATCHes, and workers refresh their claims in time or nobody stops what
\* they run.
StopsInTime ==
    /\ PatchStatuses = {} /\ PatchBuilds = {}
    /\ "stop" \in Requestable => Stallable = {}

\* It claimed its deployment and has not begun it.
Queued(w) == pc[w] = "begin" /\ task[w] = "clone"

\* A deployment whose claim holder has not begun it was not begun by anybody: it
\* is pending or was stopped, and the holder sees that, or a stop request.
QueuedIsPending ==
    \A w \in Workers : Owner(w) /\ Queued(w) =>
        /\ status[job[w]] \in {"pending", "stopped"}
        /\ Clear(w) => view[w].status = status[job[w]]

AttemptInv == AgreeInv /\ QueuedIsPending

LEMMA StopsInTimeOrderly == StopsInTime => Orderly
BY DEF StopsInTime, Orderly, CommandTypes

\* A worker that has not begun was so before, or claims its deployment now.
LEMMA QueuedStep ==
    ASSUME PipelineInv, Next, NEW w \in Workers, InPipeline(w), job'[w] = job[w], Queued(w)'
    PROVE  Queued(w) /\ ~BeginStep(w)
<1> USE DEF PipelineInv, TypeInv, TypeOK
<1>1. CASE Worker(w)
  <2>1. CASE StepSucceeds(w)
    <3>1. task'[w] = After(job[w], task[w])
      BY <2>1 DEF StepSucceeds, Proceed
    <3> QED BY <3>1 DEF After, Queued
  <2>2. CASE ~StepSucceeds(w)
    BY <1>1, <2>2 DEF Queued, Worker, Poll, NoCommandToRun, NothingPending, ClaimDeployment,
       ClaimCommand, PipelineOutcome, BeginStep, PersistTarget, GoRunning, MarkFailed, StepFails,
       StepRaises, WorkerDies, LoseClaim, AcknowledgeCancellation, CommandOutcome, StartCommand,
       SkipCommand, BeginStop, CommandSucceeds, CommandFails, CommandClaimLost, ReadRow, Heartbeat,
       CommandHeartbeat, Crash, Restart, Become, Proceed
  <2> QED BY <2>1, <2>2
<1>2. CASE pc'[w] = pc[w] /\ task'[w] = task[w]
  BY <1>2 DEF Queued, BeginStep, Proceed
<1> QED BY <1>1, <1>2, OwnStep

\* Only a failure, which takes the claim, or a command ends what is not begun.
LEMMA QueuedRow ==
    ASSUME AgreeInv, StopsInTime, Next, NEW w \in Workers, NEW d \in Deployments,
           Owner(w), job[w] = d, Queued(w), ~BeginStep(w), claim'[d].by = w
    PROVE  \/ status'[d] = status[d]
           \/ \E v \in Workers : RowStopped(d, v)
<1> USE DEF AgreeInv, PipelineInv, TypeInv, TypeOK
<1> SUFFICES ASSUME status'[d] # status[d] PROVE \E v \in Workers : RowStopped(d, v)
  OBVIOUS
<1>1. ~RowFailed(d)
  BY WorkQueueAssumption DEF RowFailed
<1>2. ~ReconcileStaleClaim(d) /\ ~ReconcileMissingWorkload(d)
  BY <1>1, ReconcilerFails DEF RowKept
<1>3. PICK v \in Workers :
        job[v] = d /\ (BeginStep(v) \/ GoRunning(v) \/ MarkFailed(v) \/ CommandSucceeds(v))
  BY <1>2, StatusWriter DEF StopsInTime
<1>4. CASE BeginStep(v) \/ GoRunning(v) \/ MarkFailed(v)
  <2>1. v = w
    BY <1>3, <1>4 DEF Owner, BeginStep, GoRunning, MarkFailed, Owns
  <2> QED BY <1>4, <2>1 DEF Queued, GoRunning, MarkFailed
<1>5. CASE CommandSucceeds(v)
  BY <1>3, <1>5, CommandStops DEF RowKept
<1> QED BY <1>3, <1>4, <1>5

\* No command ends a pending deployment beside a holder that did not see it.
LEMMA QueuedPreserved ==
    ASSUME AttemptInv, StopsInTime, Next
    PROVE  QueuedIsPending'
<1> USE DEF AttemptInv, AgreeInv, PipelineInv, TypeInv, TypeOK
<1> SUFFICES ASSUME NEW w \in Workers, Owner(w)', Queued(w)'
             PROVE  /\ status'[job'[w]] \in {"pending", "stopped"}
                    /\ Clear(w)' => view'[w].status = status'[job'[w]]
  BY DEF QueuedIsPending
<1>1. ASSUME NEW d \in Deployments, ClaimDeployment(w, d)
      PROVE  status'[job'[w]] = "pending" /\ view'[w] = NoView
  BY <1>1 DEF ClaimDeployment, ClaimableDeployment, IdleHasNoSnapshot
<1>2. CASE Owner(w) /\ job'[w] = job[w] /\ job[w] \in Deployments
  <2>1. PICK d \in Deployments : job[w] = d
    BY <1>2
  <2>2. Queued(w) /\ ~BeginStep(w)
    BY <1>2, QueuedStep DEF Owner
  <2>3. claim'[d].by = w
    BY <1>2, <2>1 DEF Owner
  <2>4. status[d] \in {"pending", "stopped"}
    BY <1>2, <2>1, <2>2 DEF QueuedIsPending
  <2>5. status'[d] = status[d] \/ \E v \in Workers : RowStopped(d, v)
    BY <1>2, <2>1, <2>2, <2>3, QueuedRow
  <2>6. status'[d] \in {"pending", "stopped"}
    BY <2>4, <2>5 DEF RowStopped
  <2>7. ASSUME Clear(w)'
        PROVE  view'[w].status = status'[d]
    <3>1. view'[w] # NoView
      BY <2>7 DEF Clear
    <3>2. CASE ReadRow(w) \/ BeginStop(w)
      BY <2>1, <3>2, ViewOpened DEF rows
    <3>3. CASE view'[w] = view[w]
      <4>1. Clear(w) /\ view[w].status = status[d]
        BY <1>2, <2>1, <2>2, <2>7, <3>3 DEF Clear, QueuedIsPending
      <4>2. ASSUME NEW v \in Workers, RowStopped(d, v), status[d] = "pending"
            PROVE  FALSE
        <5>1. job[v] = d /\ InCommand(v) /\ OwnsCommand(v)
          BY <4>2 DEF RowStopped
        <5>2. task[v] # "cleanup"
          BY <4>2, <5>1, OwnedCommand DEF TargetIsNotPending
        <5>3. Stallable = {}
          BY <5>1, <5>2, OwnedCommand DEF StopsInTime, CommandTypes
        <5> QED BY <1>2, <2>1, <4>1, <5>1, <5>3 DEF InTime, OwnersYield
      <4> QED BY <2>4, <2>5, <3>3, <4>1, <4>2 DEF RowStopped
    <3> QED BY <3>1, <3>2, <3>3, ViewStep
  <2> QED BY <1>2, <2>1, <2>6, <2>7
<1> QED BY <1>1, <1>2, OwnerStep DEF Clear

\* So only a pending deployment is begun.
LEMMA BeginsPending ==
    ASSUME AttemptInv, NEW w \in Workers, BeginStep(w), task[w] = "clone"
    PROVE  /\ job[w] \in Deployments /\ status[job[w]] = "pending"
           /\ status'[job[w]] = "cloning"
<1> DEFINE r == Seen(w)
<1> USE DEF AttemptInv, AgreeInv, PipelineInv, TypeInv, TypeOK
<1>1. PICK d \in Deployments : job[w] = d
  BY DEF BeginStep, JobOK
<1>2. /\ Owner(w) /\ Queued(w) /\ ~r.stop
      /\ CanTransition(r.status, "cloning")
      /\ status'[d] = Written(r.status, "cloning", status[d])
  BY <1>1 DEF BeginStep, Owns, Owner, Queued, Opens
<1>3. r.status \in {"pending", "cloning"}
  BY <1>2, SeenPaired DEF Owner, CanTransition, StatusEdge
<1>4. status[d] \in {"pending", "stopped"}
  BY <1>1, <1>2 DEF QueuedIsPending
<1>5. CASE view[w] = NoView
  BY <1>1, <1>2, <1>3, <1>4, <1>5 DEF Seen, Row, Written
<1>6. CASE view[w] # NoView
  <2>1. Clear(w) /\ r = view[w]
    BY <1>2, <1>6 DEF Clear, Seen
  <2>2. status[d] = r.status
    BY <1>1, <1>2, <2>1 DEF QueuedIsPending
  <2> QED BY <1>1, <1>2, <1>3, <1>4, <2>2 DEF Written
<1> QED BY <1>5, <1>6


-----------------------------------------------------------------------------
(* The mapping: one step changes one attempt *)

Running(d) == \E w \in Workers : Started(w, d)
Phase(d) == IF status[d] = "pending" THEN "queued" ELSE IF Running(d) THEN "running" ELSE "ended"
Runner(d) == IF Running(d) THEN CHOOSE w \in Workers : Started(w, d) ELSE None

SameStarts(d) == \A w \in Workers : Started(w, d)' <=> Started(w, d)
Untouched(d) == status'[d] = status[d] /\ SameStarts(d)
OthersUntouched(d) == \A e \in Deployments : e # d => Untouched(e)

\* No step touches two deployments.
LEMMA OneAtATime ==
    ASSUME PipelineInv, Next
    PROVE  \E d \in Deployments \cup {None} : OthersUntouched(d)
<1> USE DEF PipelineInv, TypeInv, TypeOK
<1>1. CASE API \/ Reconciler \/ \E e \in Deployments : TimePasses(e)
  <2>1. pc' = pc /\ job' = job /\ task' = task
    BY <1>1 DEF API, RequestCommand, PatchStatus, PatchBuild, Reconciler, TimePasses,
       ClaimExpires, CommandClaimExpires, OpenReadView, ReadClaimAges, HandlerCommits,
       ReconcileStaleClaim, ReconcileMissingWorkload, process
  <2>2. \A e \in Deployments : SameStarts(e)
    BY <2>1 DEF SameStarts, Started
  <2>3. CASE status' = status
    BY <2>2, <2>3 DEF OthersUntouched, Untouched
  <2>4. ASSUME NEW d \in Deployments, NEW s, status' = [status EXCEPT ![d] = s]
        PROVE  OthersUntouched(d)
    BY <2>2, <2>4 DEF OthersUntouched, Untouched
  <2>5. ASSUME NEW d \in Deployments, PatchStatus(d, status'[d]) \/ \E s \in PatchStatuses : PatchStatus(d, s)
        PROVE  OthersUntouched(d)
    BY <2>4, <2>5 DEF PatchStatus
  <2>6. ASSUME NEW d \in Deployments, ReconcileStaleClaim(d) \/ ReconcileMissingWorkload(d)
        PROVE  OthersUntouched(d)
    BY <2>2, <2>4, <2>6 DEF ReconcileStaleClaim, ReconcileMissingWorkload, OthersUntouched, Untouched
  <2> QED
    BY <1>1, <2>3, <2>5, <2>6 DEF API, RequestCommand, PatchBuild, Reconciler, TimePasses,
       ClaimExpires, CommandClaimExpires, OpenReadView, ReadClaimAges, HandlerCommits, rows
<1>2. ASSUME NEW w \in Workers, Worker(w)
      PROVE  OthersUntouched(job[w])
  <2>1. ASSUME NEW u \in Workers \ {w}
        PROVE  pc'[u] = pc[u] /\ job'[u] = job[u] /\ task'[u] = task[u]
    BY <1>2, <2>1 DEF Worker, Poll, NoCommandToRun, NothingPending, ClaimDeployment, ClaimCommand,
       PipelineOutcome, BeginStep, StepSucceeds, PersistTarget, GoRunning, MarkFailed, StepFails,
       StepRaises, WorkerDies, LoseClaim, AcknowledgeCancellation, CommandOutcome, StartCommand,
       SkipCommand, BeginStop, CommandSucceeds, CommandFails, CommandClaimLost, ReadRow, Heartbeat,
       CommandHeartbeat, Crash, Restart, Become, Proceed
  <2>2. \/ job'[w] \in {job[w], None}
        \/ pc'[w] = "begin" /\ task'[w] = "clone"
        \/ pc'[w] = "command"
    BY <1>2 DEF Worker, Poll, NoCommandToRun, NothingPending, ClaimDeployment, ClaimCommand,
       PipelineOutcome, BeginStep, StepSucceeds, PersistTarget, GoRunning, MarkFailed, StepFails,
       StepRaises, WorkerDies, LoseClaim, AcknowledgeCancellation, CommandOutcome, StartCommand,
       SkipCommand, BeginStop, CommandSucceeds, CommandFails, CommandClaimLost, ReadRow, Heartbeat,
       CommandHeartbeat, Crash, Restart, Become, Proceed
  <2>3. status' = status \/ \E s : status' = [status EXCEPT ![job[w]] = s]
    BY <1>2 DEF Worker, Poll, NoCommandToRun, NothingPending, ClaimDeployment, ClaimCommand,
       PipelineOutcome, BeginStep, StepSucceeds, PersistTarget, GoRunning, MarkFailed, StepFails,
       StepRaises, WorkerDies, LoseClaim, AcknowledgeCancellation, CommandOutcome, StartCommand,
       SkipCommand, BeginStop, CommandSucceeds, CommandFails, CommandClaimLost, ReadRow, Heartbeat,
       CommandHeartbeat, Crash, Restart, rows
  <2>4. ASSUME NEW e \in Deployments, e # job[w]
        PROVE  status'[e] = status[e] /\ ~Started(w, e) /\ ~Started(w, e)'
    <3>1. status'[e] = status[e]
      BY <2>3, <2>4
    <3>2. e # None
      BY WorkQueueAssumption
    <3> QED BY <2>2, <2>4, <3>1, <3>2 DEF Started
  <2>5. ASSUME NEW e \in Deployments, e # job[w]
        PROVE  SameStarts(e)
    BY <2>1, <2>4, <2>5 DEF SameStarts, Started
  <2> QED BY <2>4, <2>5 DEF OthersUntouched, Untouched
<1>3. \A w \in Workers : job[w] \in Deployments \cup {None}
  OBVIOUS
<1> QED BY <1>1, <1>2, <1>3 DEF Next

\* A pipeline starts only by its first status change.
LEMMA StartStep ==
    ASSUME PipelineInv, Next, NEW w \in Workers, NEW d \in Deployments,
           Started(w, d)', ~Started(w, d)
    PROVE  BeginStep(w) /\ task[w] = "clone" /\ job[w] = d
<1> USE DEF PipelineInv, TypeInv, TypeOK
<1>1. Worker(w)
  BY OwnStep DEF Started
<1>2. InPipeline(w) /\ job'[w] = job[w]
  BY PipelineContinues DEF Started, ClaimDeployment
<1>3. job[w] = d /\ ~Begun(w) /\ Begun(w)'
  BY <1>2 DEF Started, Begun
<1>4. BeginStep(w)
  BY <1>1, <1>2, <1>3 DEF Begun, Worker, Poll, NoCommandToRun, NothingPending, ClaimDeployment,
     ClaimCommand, PipelineOutcome, StepSucceeds, PersistTarget, GoRunning, MarkFailed, StepFails,
     StepRaises, WorkerDies, LoseClaim, AcknowledgeCancellation, CommandOutcome, StartCommand,
     SkipCommand, BeginStop, CommandSucceeds, CommandFails, CommandClaimLost, ReadRow, Heartbeat,
     CommandHeartbeat, Crash, Restart, Become, Proceed
<1> QED BY <1>3, <1>4 DEF Begun, BeginStep

\* Whoever runs a deployment is its runner.
LEMMA TheRunner ==
    ASSUME PipelineInv, NEW w \in Workers, NEW d \in Deployments, Started(w, d)
    PROVE  Running(d) /\ Runner(d) = w /\ status[d] # "pending" /\ \A u \in Workers : Started(u, d) => u = w
<1>1. \A u \in Workers : Started(u, d) => Begun(u) /\ job[u] = d
  BY DEF Started, Begun
<1>2. \A u \in Workers : Started(u, d) => u = w
  BY <1>1 DEF PipelineInv, BegunAreApart
<1>3. (CHOOSE u \in Workers : Started(u, d)) = w
  BY <1>2
<1>4. status[d] # "pending"
  BY <1>1 DEF PipelineInv, BegunIsNotPending
<1> QED BY <1>2, <1>3, <1>4 DEF Running, Runner

\* Also after a step.
LEMMA TheNextRunner ==
    ASSUME PipelineInv', NEW w \in Workers, NEW d \in Deployments, Started(w, d)'
    PROVE  Running(d)' /\ Runner(d)' = w /\ status'[d] # "pending"
<1>1. \A u \in Workers : Started(u, d)' => Begun(u)' /\ job'[u] = d
  BY DEF Started, Begun
<1>2. \A u \in Workers : Started(u, d)' => u = w
  BY <1>1 DEF PipelineInv, BegunAreApart
<1>3. (CHOOSE u \in Workers : Started(u, d)') = w
  BY <1>2
<1>4. status'[d] # "pending"
  BY <1>1 DEF PipelineInv, BegunIsNotPending
<1> QED BY <1>3, <1>4 DEF Running, Runner

\* An untouched deployment keeps its attempt.
LEMMA UntouchedMaps ==
    ASSUME PipelineInv, PipelineInv', NEW d \in Deployments, Untouched(d)
    PROVE  Phase(d)' = Phase(d) /\ Runner(d)' = Runner(d)
<1>1. ASSUME NEW w \in Workers, Started(w, d)
      PROVE  Phase(d)' = Phase(d) /\ Runner(d)' = Runner(d)
  <2>1. Started(w, d)'
    BY <1>1 DEF Untouched, SameStarts
  <2> QED BY <1>1, <2>1, TheRunner, TheNextRunner DEF Phase
<1>2. CASE ~Running(d)
  <2>1. ~Running(d)'
    BY <1>2 DEF Running, Untouched, SameStarts
  <2> QED BY <1>2, <2>1 DEF Phase, Runner, Untouched
<1> QED BY <1>1, <1>2 DEF Running

\* What the touched deployment does is begin, end, be abandoned, or nothing.
LEMMA TouchedMaps ==
    ASSUME AttemptInv, AttemptInv', StopsInTime, Next, NEW d \in Deployments
    PROVE  \/ Phase(d)' = Phase(d) /\ Runner(d)' = Runner(d)
           \/ Phase(d) = "running" /\ Phase(d)' = "ended" /\ Runner(d)' = None
           \/ Phase(d) = "queued" /\ Phase(d)' = "ended" /\ Runner(d)' = Runner(d)
           \/ \E w \in Workers : Phase(d) = "queued" /\ Phase(d)' = "running" /\ Runner(d)' = w
<1> USE DEF AttemptInv, AgreeInv
<1>1. status[d] = "pending" => ~Running(d)
  BY TheRunner DEF Running
<1>2. ASSUME NEW w \in Workers, Started(w, d)'
      PROVE  Running(d)' /\ Runner(d)' = w /\ status'[d] # "pending"
  BY <1>2, TheNextRunner
<1>3. CASE \E w \in Workers : Started(w, d)' /\ ~Started(w, d)
  <2>1. PICK w \in Workers : Started(w, d)' /\ ~Started(w, d)
    BY <1>3
  <2>2. status[d] = "pending"
    BY <2>1, StartStep, BeginsPending
  <2> QED BY <1>2, <2>1, <2>2 DEF Phase
<1>4. CASE \A w \in Workers : Started(w, d)' => Started(w, d)
  <2>1. CASE status[d] = "pending"
    <3>1. ~Running(d) /\ ~Running(d)'
      BY <1>1, <1>4, <2>1 DEF Running
    <3> QED BY <2>1, <3>1 DEF Phase, Runner
  <2>2. CASE status[d] # "pending"
    <3>1. status'[d] # "pending"
      BY <2>2, NeverBack DEF PipelineInv, NeverPendingAgain
    <3>2. ASSUME NEW w \in Workers, Started(w, d)'
          PROVE  Phase(d)' = Phase(d) /\ Runner(d)' = Runner(d)
      BY <1>2, <1>4, <2>2, <3>1, <3>2, TheRunner DEF Phase
    <3>3. CASE ~Running(d)'
      BY <2>2, <3>1, <3>3 DEF Phase, Runner
    <3> QED BY <3>2, <3>3 DEF Running
  <2> QED BY <2>1, <2>2
<1> QED BY <1>3, <1>4

phase == [d \in Deployments |-> Phase(d)]
runner == [d \in Deployments |-> Runner(d)]

AttemptSame == phase' = phase /\ runner' = runner
AttemptEnds(d) ==
    /\ phase[d] = "running"
    /\ phase' = [phase EXCEPT ![d] = "ended"]
    /\ runner' = [runner EXCEPT ![d] = None]
AttemptAbandoned(d) ==
    /\ phase[d] = "queued"
    /\ phase' = [phase EXCEPT ![d] = "ended"]
    /\ runner' = runner
AttemptBegins(d, w) ==
    /\ phase[d] = "queued"
    /\ phase' = [phase EXCEPT ![d] = "running"]
    /\ runner' = [runner EXCEPT ![d] = w]

\* Every step ends, abandons or begins one attempt, or changes none.
LEMMA AttemptSteps ==
    ASSUME AttemptInv, AttemptInv', StopsInTime, Next
    PROVE  \/ AttemptSame
           \/ \E d \in Deployments :
                AttemptEnds(d) \/ AttemptAbandoned(d) \/ \E w \in Workers : AttemptBegins(d, w)
<1>1. PipelineInv /\ PipelineInv'
  BY DEF AttemptInv, AgreeInv
<1>2. PICK d \in Deployments \cup {None} : OthersUntouched(d)
  BY <1>1, OneAtATime
<1>3. \A e \in Deployments : e # d => Phase(e)' = Phase(e) /\ Runner(e)' = Runner(e)
  BY <1>1, <1>2, UntouchedMaps DEF OthersUntouched
<1>4. CASE d \notin Deployments
  BY <1>3, <1>4 DEF AttemptSame, phase, runner
<1>5. CASE d \in Deployments
  <2>1. CASE Phase(d)' = Phase(d) /\ Runner(d)' = Runner(d)
    BY <1>3, <2>1 DEF AttemptSame, phase, runner
  <2>2. CASE Phase(d) = "running" /\ Phase(d)' = "ended" /\ Runner(d)' = None
    BY <1>3, <1>5, <2>2 DEF AttemptEnds, phase, runner
  <2>3. CASE Phase(d) = "queued" /\ Phase(d)' = "ended" /\ Runner(d)' = Runner(d)
    BY <1>3, <1>5, <2>3 DEF AttemptAbandoned, phase, runner
  <2>4. ASSUME NEW w \in Workers, Phase(d) = "queued", Phase(d)' = "running", Runner(d)' = w
        PROVE  AttemptBegins(d, w)
    BY <1>3, <1>5, <2>4 DEF AttemptBegins, phase, runner
  <2> QED BY <1>5, <2>1, <2>2, <2>3, <2>4, TouchedMaps
<1> QED BY <1>4, <1>5

\* These are the steps of Attempt.
LEMMA AttemptNext ==
    ASSUME AttemptInv, AttemptInv', StopsInTime, Next
    PROVE  Attempt!Next \/ AttemptSame
<1>1. ASSUME NEW d \in Deployments, AttemptEnds(d)
      PROVE  Attempt!End(d)
  BY <1>1 DEF AttemptEnds, Attempt!End, phase, runner, Phase, Runner, Running
<1>2. ASSUME NEW d \in Deployments, AttemptAbandoned(d)
      PROVE  Attempt!Abandon(d)
  BY <1>2 DEF AttemptAbandoned, Attempt!Abandon, phase, runner, Phase, Runner, Running
<1>3. ASSUME NEW d \in Deployments, NEW w \in Workers, AttemptBegins(d, w)
      PROVE  Attempt!Begin(d, w)
  BY <1>3 DEF AttemptBegins, Attempt!Begin, phase, runner, Phase, Runner, Running
<1> QED BY <1>1, <1>2, <1>3, AttemptSteps DEF Attempt!Next

\* Initially every attempt is queued.
LEMMA AttemptInit == Init => AttemptInv /\ Attempt!Init
<1> SUFFICES ASSUME Init PROVE AttemptInv /\ Attempt!Init
  OBVIOUS
<1>1. AttemptInv
  BY AgreeInit DEF Init, AttemptInv, QueuedIsPending, Queued
<1>2. ASSUME NEW d \in Deployments
      PROVE  status[d] = "pending" /\ ~\E w \in Workers : Started(w, d)
  BY DEF Init, Started
<1>3. Attempt!Init
  BY <1>2 DEF Attempt!Init
<1> QED BY <1>1, <1>3

\* Without PATCHes, and while workers refresh their claims in time or nobody stops
\* what they run, a deployment is begun at most once, by one worker, and never
\* resumed, for any number of workers and deployments, whoever crashes and however
\* old the rows the reconciler acts on (claims.py, pipeline.py): the work queue
\* implements Attempt.  A worker that outlives its TTL can begin a deployment that
\* a stop ended meanwhile.
THEOREM AttemptRefined == ASSUME StopsInTime PROVE Spec => AttemptSpec
<1>1. Init => AttemptInv /\ Attempt!Init
  BY AttemptInit
<1>2. AttemptInv /\ [Next]_vars => AttemptInv'
  <2>1. AttemptInv /\ [Next]_vars => AgreeInv'
    BY AgreeStep, StopsInTimeOrderly DEF AttemptInv
  <2>2. AttemptInv /\ Next => QueuedIsPending'
    BY QueuedPreserved
  <2>3. AttemptInv /\ UNCHANGED vars => QueuedIsPending'
    BY DEF vars, rows, process, AttemptInv, QueuedIsPending, Owner, Queued, Clear
  <2> QED BY <2>1, <2>2, <2>3 DEF AttemptInv
<1>3. AttemptInv /\ AttemptInv' /\ [Next]_vars => Attempt!Next \/ AttemptSame
  <2>1. UNCHANGED vars => AttemptSame
    BY DEF vars, rows, process, AttemptSame, phase, runner, Phase, Runner, Running, Started
  <2> QED BY <2>1, AttemptNext
<1>4. AttemptSame => UNCHANGED <<phase, runner>>
  BY DEF AttemptSame
<1>5. Attempt!Next \/ AttemptSame => [Attempt!Next]_(<<phase, runner>>)
  BY <1>4
<1> QED BY <1>1, <1>2, <1>3, <1>5, PTL DEF Spec, AttemptSpec, Attempt!Spec, phase, runner, Phase, Runner, Running

-----------------------------------------------------------------------------
(* What only a stop can do: interrupted work without a claim *)

\* Nobody PATCHes or stops, and the reconciler acts on the rows as they are.
NobodyStops == PatchStatuses = {} /\ PatchBuilds = {} /\ "stop" \notin Requestable

NoOldRows == \A d \in Deployments : rview[d] = NoView
NoStopSeen == \A w \in Workers : view[w] # NoView => ~view[w].stop
WorkIsClaimed == \A d \in Deployments : status[d] \in InProgress => claim[d].by # None

RecoverableInv == AgreeInv /\ NoOldRows /\ NoStopSeen /\ WorkIsClaimed

LEMMA NobodyStopsOrderly == NobodyStops => Orderly
BY DEF NobodyStops, Orderly, CommandTypes

\* A claim is released by the end of a pipeline or by the reconciler.
LEMMA ReleaseStep ==
    ASSUME TypeInv, Next, NEW d \in Deployments, claim[d].by # None, claim'[d].by = None
    PROVE  \/ ReconcileStaleClaim(d) \/ ReconcileMissingWorkload(d)
           \/ \E w \in Workers :
                 /\ job[w] = d
                 /\ GoRunning(w) \/ MarkFailed(w) \/ AcknowledgeCancellation(w)
<1> USE DEF TypeInv, TypeOK, JobOK
<1>1. CASE API \/ Reconciler \/ \E e \in Deployments : TimePasses(e)
  <2>1. ASSUME NEW e \in Deployments, ClaimExpires(e)
        PROVE  FALSE
    BY <2>1 DEF ClaimExpires, Aged
  <2>2. ASSUME NEW e \in Deployments, ReconcileStaleClaim(e) \/ ReconcileMissingWorkload(e)
        PROVE  e = d
    BY <2>2 DEF ReconcileStaleClaim, ReconcileMissingWorkload
  <2> QED
    BY <1>1, <2>1, <2>2 DEF API, RequestCommand, PatchStatus, PatchBuild, Reconciler, TimePasses,
       CommandClaimExpires, OpenReadView, ReadClaimAges, HandlerCommits, rows
<1>2. ASSUME NEW w \in Workers, Worker(w)
      PROVE  job[w] = d /\ (GoRunning(w) \/ MarkFailed(w) \/ AcknowledgeCancellation(w))
  <2>1. ASSUME NEW e, claim' = [claim EXCEPT ![e] = FreshClaim(w)]
        PROVE  FALSE
    BY <2>1, WorkQueueAssumption DEF FreshClaim
  <2>2. GoRunning(w) \/ MarkFailed(w) \/ AcknowledgeCancellation(w)
    BY <1>2, <2>1 DEF Worker, Poll, NoCommandToRun, NothingPending, ClaimDeployment, ClaimCommand,
       PipelineOutcome, BeginStep, StepSucceeds, PersistTarget, StepFails, StepRaises, WorkerDies,
       LoseClaim, CommandOutcome, StartCommand, SkipCommand, BeginStop, CommandSucceeds,
       CommandFails, CommandClaimLost, ReadRow, Heartbeat, CommandHeartbeat, Crash, Restart, rows,
       Refresh
  <2>3. claim' = [claim EXCEPT ![job[w]] = NoClaim]
    BY <2>2 DEF GoRunning, MarkFailed, AcknowledgeCancellation
  <2> QED BY <2>2, <2>3
<1> QED BY <1>1, <1>2 DEF Next

\* Where nobody requests a stop, nobody sees one.
LEMMA NoStopPreserved ==
    ASSUME AgreeInv, NobodyStops, NoStopSeen, Next
    PROVE  NoStopSeen' /\ \A w \in Workers : InPipeline(w) => ~Seen(w).stop
<1> USE DEF AgreeInv, PipelineInv, TypeInv, TypeOK
<1>1. \A d \in Deployments : ~StopRequested(d)
  BY DEF OnlyRequested, NobodyStops, StopRequested, CommandTypes
<1>2. ASSUME NEW w \in Workers, view'[w] # NoView
      PROVE  ~view'[w].stop
  <2>1. CASE view'[w] = view[w]
    BY <1>2, <2>1 DEF NoStopSeen
  <2>2. CASE ReadRow(w) \/ BeginStop(w)
    BY <1>1, <2>2, ViewOpened
  <2> QED BY <1>2, <2>1, <2>2, ViewStep
<1>3. ASSUME NEW w \in Workers, InPipeline(w)
      PROVE  ~Seen(w).stop
  BY <1>1, <1>3 DEF Seen, Row, NoStopSeen, JobOK
<1> QED BY <1>2, <1>3 DEF NoStopSeen

\* Work in progress keeps its claim: whoever releases it also ends the work.
LEMMA ClaimedPreserved ==
    ASSUME RecoverableInv, NobodyStops, Next
    PROVE  WorkIsClaimed'
<1> USE DEF RecoverableInv, AgreeInv, PipelineInv, TypeInv, TypeOK
<1> SUFFICES ASSUME NEW d \in Deployments, status'[d] \in InProgress, claim'[d].by = None
             PROVE  FALSE
  BY DEF WorkIsClaimed
<1>1. CASE status'[d] # status[d]
  <2>1. CASE ReconcileStaleClaim(d) \/ ReconcileMissingWorkload(d)
    BY <1>1, <2>1, ReconcilerFails DEF RowKept, RowFailed, InProgress
  <2>2. ASSUME NEW w \in Workers, job[w] = d, BeginStep(w)
        PROVE  FALSE
    BY <2>2, WorkQueueAssumption DEF BeginStep, Refresh, FreshClaim
  <2>3. ASSUME NEW w \in Workers, job[w] = d, GoRunning(w) \/ MarkFailed(w) \/ CommandSucceeds(w)
        PROVE  FALSE
    BY <1>1, <2>3 DEF GoRunning, MarkFailed, CommandSucceeds, Written, InProgress
  <2> QED BY <1>1, <2>1, <2>2, <2>3, StatusWriter DEF NobodyStops
<1>2. CASE status'[d] = status[d]
  <2>1. claim[d].by # None
    BY <1>2 DEF WorkIsClaimed
  <2>2. CASE ReconcileStaleClaim(d) \/ ReconcileMissingWorkload(d)
    <3>1. ReconcilerSees(d).status = status[d]
      BY DEF ReconcilerSees, ReconcilerRow, NoOldRows
    <3>2. status'[d] = "failed"
      BY <1>2, <2>2, <3>1 DEF ReconcileStaleClaim, ReconcileMissingWorkload, IN_PROGRESS_STATUSES,
         InProgress
    <3> QED BY <3>2 DEF InProgress
  <2>3. ASSUME NEW w \in Workers, job[w] = d, GoRunning(w) \/ MarkFailed(w)
        PROVE  FALSE
    <3>1. Owner(w) /\ ~Seen(w).stop
      BY <2>3 DEF GoRunning, MarkFailed, Owns, Owner
    <3>2. status[d] = "stopped" \/ status[d] = Seen(w).status
      BY <2>3, <3>1, OwnerSeesRow
    <3>3. status[d] \notin {"stopped", "running", "failed"}
      BY <1>2 DEF InProgress
    <3> QED BY <1>2, <2>3, <3>2, <3>3 DEF GoRunning, MarkFailed, Written
  <2>4. ASSUME NEW w \in Workers, AcknowledgeCancellation(w)
        PROVE  FALSE
    BY <2>4, NoStopPreserved DEF AcknowledgeCancellation, Cancelled
  <2> QED BY <2>1, <2>2, <2>3, <2>4, ReleaseStep
<1> QED BY <1>1, <1>2

\* The finding about InterruptedWorkIsRecoverable needs a stop or an old row: where
\* nobody stops or PATCHes and the reconciler acts on the rows as they are, work in
\* progress always has a claim by which it can be recovered, for any number of
\* workers and deployments, whoever stalls or crashes (claims.py, pipeline.py).
THEOREM RecoverableWithoutStops ==
    ASSUME NobodyStops, ~OldReads
    PROVE  Spec => []InterruptedWorkIsRecoverable
<1>1. Init => RecoverableInv
  BY AgreeInit DEF Init, RecoverableInv, NoOldRows, NoStopSeen, WorkIsClaimed, InProgress
<1>2. RecoverableInv /\ [Next]_vars => RecoverableInv'
  <2> SUFFICES ASSUME RecoverableInv, [Next]_vars PROVE RecoverableInv'
    OBVIOUS
  <2>1. AgreeInv'
    BY AgreeStep, NobodyStopsOrderly DEF RecoverableInv
  <2>2. CASE UNCHANGED vars
    BY <2>1, <2>2 DEF vars, rows, process, RecoverableInv, NoOldRows, NoStopSeen, WorkIsClaimed
  <2>3. CASE Next
    <3>1. NoOldRows'
      <4>1. ASSUME NEW d \in Deployments
            PROVE  rview'[d] = NoView
        <5>1. CASE EndReadView \/ rview' = rview
          BY <5>1 DEF EndReadView, RecoverableInv, NoOldRows
        <5>2. ASSUME NEW w \in Workers, Worker(w)
              PROVE  rview' = rview
          BY <5>2 DEF Worker, Poll, NoCommandToRun, NothingPending, ClaimDeployment, ClaimCommand,
             PipelineOutcome, BeginStep, StepSucceeds, PersistTarget, GoRunning, MarkFailed,
             StepFails, StepRaises, WorkerDies, LoseClaim, AcknowledgeCancellation, CommandOutcome,
             StartCommand, SkipCommand, BeginStop, CommandSucceeds, CommandFails, CommandClaimLost,
             ReadRow, Heartbeat, CommandHeartbeat, Crash, Restart
        <5> QED
          BY <2>3, <5>1, <5>2 DEF Next, API, RequestCommand, PatchStatus, PatchBuild, Reconciler,
             TimePasses, ClaimExpires, CommandClaimExpires, OpenReadView, ReadClaimAges,
             HandlerCommits, ReconcileStaleClaim, ReconcileMissingWorkload, RecoverableInv, NoOldRows
      <4> QED BY <4>1 DEF NoOldRows
    <3>2. NoStopSeen' /\ WorkIsClaimed'
      BY <2>3, NoStopPreserved, ClaimedPreserved DEF RecoverableInv
    <3> QED BY <2>1, <3>1, <3>2 DEF RecoverableInv
  <2> QED BY <2>2, <2>3
<1>3. RecoverableInv => InterruptedWorkIsRecoverable
  BY DEF RecoverableInv, WorkIsClaimed, InterruptedWorkIsRecoverable
<1> QED BY <1>1, <1>2, <1>3, PTL DEF Spec

-----------------------------------------------------------------------------
(* ... and a worker that cannot record a failure *)

\* Cleanups never overtake a pipeline, or are not used.
NoneStopped == NobodyStops /\ ("cleanup" \in Requestable => Stallable = {})

\* What an owner works on was never stopped.
OwnersGoOn ==
    \A w \in Workers : Owner(w) =>
        /\ status[job[w]] # "stopped"
        /\ view[w] # NoView => view[w].status # "stopped"

LEMMA GoOnPreserved ==
    ASSUME AgreeInv, NoneStopped, OwnersGoOn, Next
    PROVE  OwnersGoOn'
<1> USE DEF AgreeInv, PipelineInv, TypeInv, TypeOK
<1> SUFFICES ASSUME NEW w \in Workers, Owner(w)'
             PROVE  /\ status'[job'[w]] # "stopped"
                    /\ view'[w] # NoView => view'[w].status # "stopped"
  BY DEF OwnersGoOn
<1>1. ASSUME NEW d \in Deployments, ClaimDeployment(w, d)
      PROVE  status'[job'[w]] = "pending" /\ view'[w] = NoView
  BY <1>1 DEF ClaimDeployment, ClaimableDeployment, IdleHasNoSnapshot
<1>2. CASE Owner(w) /\ job'[w] = job[w] /\ job[w] \in Deployments
  <2>1. PICK d \in Deployments : job[w] = d
    BY <1>2
  <2>2. status[d] # "stopped"
    BY <1>2, <2>1 DEF OwnersGoOn
  <2>3. ASSUME NEW v \in Workers, RowStopped(d, v)
        PROVE  FALSE
    <3>1. job[v] = d /\ InCommand(v) /\ OwnsCommand(v)
      BY <2>3 DEF RowStopped
    <3>2. task[v] = "cleanup" /\ "cleanup" \in Requestable
      BY <3>1, OwnedCommand DEF NoneStopped, NobodyStops, CommandTypes
    <3> QED BY <1>2, <2>1, <3>1, <3>2 DEF NoneStopped, InTime, OwnersYield
  <2>4. status'[d] # "stopped"
    BY <2>2, <2>3, RowSteps, NobodyStopsOrderly DEF NoneStopped, RowStep, RowKept, RowFailed,
       RowAdvanced
  <2>5. CASE view'[w] = view[w]
    BY <1>2, <2>1, <2>4, <2>5 DEF OwnersGoOn
  <2>6. CASE ReadRow(w) \/ BeginStop(w)
    BY <2>1, <2>4, <2>6, ViewOpened DEF rows
  <2> QED BY <1>2, <2>1, <2>4, <2>5, <2>6, ViewStep
<1> QED BY <1>1, <1>2, OwnerStep

\* The finding about WorkersSurvive needs a stop, a PATCH, or a cleanup of what a
\* worker that outlived its TTL still runs: without them a failure can always be
\* recorded, and a worker process ends only when it is killed, for any number of
\* workers and deployments and however old the rows the reconciler acts on
\* (pipeline.py's handlers).
THEOREM SurviveWithoutStops == ASSUME NoneStopped PROVE Spec => WorkersSurvive
<1> DEFINE Survive == \A w \in Workers : pc[w] # "down" /\ pc'[w] = "down" => crashes' # crashes
<1>1. Init => AgreeInv /\ OwnersGoOn
  BY AgreeInit DEF Init, OwnersGoOn, Owner
<1>2. AgreeInv /\ OwnersGoOn /\ [Next]_vars => (AgreeInv /\ OwnersGoOn)'
  <2>1. AgreeInv /\ [Next]_vars => AgreeInv'
    BY AgreeStep, NobodyStopsOrderly DEF NoneStopped
  <2>2. AgreeInv /\ OwnersGoOn /\ Next => OwnersGoOn'
    BY GoOnPreserved
  <2>3. OwnersGoOn /\ UNCHANGED vars => OwnersGoOn'
    BY DEF vars, rows, process, OwnersGoOn, Owner
  <2> QED BY <2>1, <2>2, <2>3
<1>3. AgreeInv /\ OwnersGoOn /\ [Next]_vars => [Survive]_vars
  <2> SUFFICES ASSUME AgreeInv, OwnersGoOn, Next, NEW w \in Workers,
                      pc[w] # "down", pc'[w] = "down", crashes' = crashes
               PROVE  FALSE
    OBVIOUS
  <2> USE DEF AgreeInv, PipelineInv, TypeInv, TypeOK
  <2>1. Worker(w)
    BY OwnStep
  <2>2. WorkerDies(w)
    BY <2>1 DEF Worker, Poll, NoCommandToRun, NothingPending, ClaimDeployment, ClaimCommand,
       PipelineOutcome, BeginStep, StepSucceeds, PersistTarget, GoRunning, MarkFailed, StepFails,
       StepRaises, LoseClaim, AcknowledgeCancellation, CommandOutcome, StartCommand, SkipCommand,
       BeginStop, CommandSucceeds, CommandFails, CommandClaimLost, ReadRow, Heartbeat,
       CommandHeartbeat, Crash, Restart, Become, Proceed, BeginsAt
  <2>3. Owner(w) /\ Seen(w) \in Rows /\ Paired(Seen(w).status, Seen(w).build)
    BY <2>2, SeenPaired DEF WorkerDies, Owns, Owner
  <2>4. Seen(w).status # "stopped"
    BY <2>3 DEF OwnersGoOn, Seen, Row
  <2>5. CanFail(Seen(w))
    BY <2>3, <2>4 DEF Paired, CanFail, CanTransition, StatusEdge, CanTransitionBuild, BuildEdge
  <2> QED BY <2>2, <2>5 DEF WorkerDies
<1>4. [][Survive]_vars => WorkersSurvive
  BY PTL DEF WorkersSurvive
<1> QED BY <1>1, <1>2, <1>3, <1>4, PTL DEF Spec

================================================================================
