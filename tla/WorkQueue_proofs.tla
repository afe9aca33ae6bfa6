--------------------------- MODULE WorkQueue_proofs ---------------------------
EXTENDS WorkQueue, TLAPS

JobOK ==
    \A w \in Workers :
        /\ pc[w] \in Pipeline \cup Commanding => job[w] \in Deployments
        /\ pc[w] \in Pipeline => task[w] \in Tasks
        /\ pc[w] \in Commanding => task[w] \in CommandTypes

TypeInv == TypeOK /\ JobOK

USE DEF Statuses, BuildStatuses, Claims, Commands, CommandStatuses, Rows,
        ReconcilerRows, PCs, Pipeline, Commanding, Tasks, CommandTypes

\* What a busy worker sees of its deployment is a row, read now or earlier.
LEMMA SeenType ==
    ASSUME TypeInv, NEW w \in Workers, pc[w] \in Pipeline \cup Commanding
    PROVE  Seen(w) \in Rows
BY DEF TypeInv, TypeOK, JobOK, Seen, Row, StopRequested, Active

\* Ageing or refreshing a claim keeps it a claim.
LEMMA AgedType ==
    /\ \A c \in Claims : Aged(c) \in Claims
    /\ \A c \in Commands : Aged(c) \in Commands
    /\ \A c \in ReconcilerRows : Aged(c) \in ReconcilerRows
    /\ \A c \in Commands : [c EXCEPT !.stale = FALSE] \in Commands
BY DEF Aged

\* Writing a build status through the ORM leaves a build status.
LEMMA WrittenType ==
    ASSUME NEW seen, NEW new \in BuildStatuses, NEW current \in BuildStatuses
    PROVE  Written(seen, new, current) \in BuildStatuses
BY DEF Written

\* A fresh database and idle workers are well typed.
LEMMA InitType == Init => TypeInv
BY WorkQueueAssumption DEF Init, TypeInv, TypeOK, JobOK, NoClaim

\* Requests and PATCHes keep the rows well typed.
LEMMA ApiType == ASSUME TypeInv, API PROVE TypeInv'
<1>1. ASSUME NEW d \in Deployments, NEW t \in Requestable, RequestCommand(d, t)
      PROVE TypeInv'
  BY <1>1, WorkQueueAssumption DEF RequestCommand, TypeInv, TypeOK, JobOK, process
<1>2. ASSUME NEW d \in Deployments, NEW s \in PatchStatuses, PatchStatus(d, s)
      PROVE TypeInv'
  BY <1>2, WorkQueueAssumption DEF PatchStatus, TypeInv, TypeOK, JobOK, process
<1>3. ASSUME NEW d \in Deployments, NEW b \in PatchBuilds, PatchBuild(d, b)
      PROVE TypeInv'
  BY <1>3, WorkQueueAssumption DEF PatchBuild, TypeInv, TypeOK, JobOK, process
<1> QED BY <1>1, <1>2, <1>3 DEF API

\* Polling and claiming, by either queue, keeps the types.
LEMMA PollType ==
    ASSUME TypeInv, NEW w \in Workers, Poll(w)
    PROVE  TypeInv'
<1>1. CASE NoCommandToRun(w)
  BY <1>1 DEF NoCommandToRun, TypeInv, TypeOK, JobOK, rows
<1>2. CASE NothingPending(w)
  BY <1>2 DEF NothingPending, Become, TypeInv, TypeOK, JobOK, rows
<1>3. ASSUME NEW d \in Deployments, ClaimDeployment(w, d)
      PROVE  TypeInv'
  BY <1>3 DEF ClaimDeployment, FreshClaim, TypeInv, TypeOK, JobOK
<1>4. ASSUME NEW d \in Deployments, NEW t \in CommandTypes, ClaimCommand(w, d, t)
      PROVE  TypeInv'
  BY <1>4 DEF ClaimCommand, TypeInv, TypeOK, JobOK
<1> QED BY <1>1, <1>2, <1>3, <1>4 DEF Poll

\* Every outcome of a pipeline step keeps the types: begin_step needs the
\* graph's check, since only it keeps `deploying` and `running` out of a build.
LEMMA PipelineType ==
    ASSUME TypeInv, NEW w \in Workers,
           PipelineOutcome(w) \/ ReadRow(w) \/ Heartbeat(w)
    PROVE  TypeInv'
<1> USE DEF TypeInv, TypeOK, JobOK, Become, Proceed, rows, process
<1>1. CASE BeginStep(w)
  <2>1. status' \in [Deployments -> Statuses]
    BY <1>1 DEF BeginStep, Written, Opens
  <2>2. build' \in [Deployments -> BuildStatuses]
    <3>1. Seen(w).build \in BuildStatuses
      BY <1>1, SeenType DEF BeginStep
    <3>2. CanTransitionBuild(Seen(w).build, Opens(task[w]))
            => Written(Seen(w).build, Opens(task[w]), build[job[w]]) \in BuildStatuses
      <4>1. job[w] \in Deployments /\ build[job[w]] \in BuildStatuses
        BY <1>1 DEF BeginStep
      <4>2. ASSUME CanTransitionBuild(Seen(w).build, Opens(task[w]))
            PROVE  Opens(task[w]) \in BuildStatuses
        BY <3>1, <4>2 DEF CanTransitionBuild, BuildEdge
      <4> QED BY <4>1, <4>2, WrittenType
    <3> QED BY <1>1, <3>2 DEF BeginStep
  <2>3. claim' \in [Deployments -> Claims]
    BY <1>1 DEF BeginStep, Refresh, FreshClaim
  <2> QED BY <1>1, <2>1, <2>2, <2>3 DEF BeginStep
<1>2. CASE StepSucceeds(w)
  <2>1. build' \in [Deployments -> BuildStatuses]
    <3>1. job[w] \in Deployments /\ build[job[w]] \in BuildStatuses
      BY <1>2 DEF StepSucceeds
    <3>2. Written(Seen(w).build, "succeeded", build[job[w]]) \in BuildStatuses
      BY <3>1, WrittenType
    <3> QED BY <1>2, <3>1, <3>2 DEF StepSucceeds
  <2>2. claim' \in [Deployments -> Claims]
    BY <1>2 DEF StepSucceeds, Refresh, FreshClaim
  <2>3. /\ After(job[w], task[w]) \in Tasks
        /\ BeginsAt(After(job[w], task[w])) \in Pipeline
    BY DEF After, BeginsAt
  <2> QED BY <1>2, <2>1, <2>2, <2>3 DEF StepSucceeds
<1>3. CASE PersistTarget(w)
  BY <1>3 DEF PersistTarget
<1>4. CASE GoRunning(w)
  BY <1>4 DEF GoRunning, NoClaim, Written
<1>5. CASE StepFails(w)
  BY <1>5 DEF StepFails
<1>6. CASE StepRaises(w)
  BY <1>6 DEF StepRaises
<1>7. CASE MarkFailed(w)
  BY <1>7 DEF MarkFailed, NoClaim, Written
<1>8. CASE WorkerDies(w)
  BY <1>8 DEF WorkerDies
<1>9. CASE LoseClaim(w)
  BY <1>9 DEF LoseClaim
<1>10. CASE AcknowledgeCancellation(w)
  BY <1>10 DEF AcknowledgeCancellation, NoClaim
<1>11. CASE ReadRow(w)
  BY <1>11 DEF ReadRow, Row, StopRequested, Active
<1>12. CASE Heartbeat(w)
  BY <1>12 DEF Heartbeat, Refresh, FreshClaim
<1> QED
  BY <1>1, <1>2, <1>3, <1>4, <1>5, <1>6, <1>7, <1>8, <1>9, <1>10, <1>11, <1>12
  DEF PipelineOutcome

\* Every outcome of a command, a crash and a restart keep the types.
LEMMA CommandType ==
    ASSUME TypeInv, NEW w \in Workers,
           CommandOutcome(w) \/ CommandHeartbeat(w) \/ Crash(w) \/ Restart(w)
    PROVE  TypeInv'
<1> USE DEF TypeInv, TypeOK, JobOK, Become, Proceed, SetCommand, RefreshCommand, rows
<1>1. CASE StartCommand(w)
  BY <1>1, AgedType DEF StartCommand
<1>2. CASE SkipCommand(w)
  BY <1>2 DEF SkipCommand
<1>3. CASE BeginStop(w)
  BY <1>3 DEF BeginStop, Row, StopRequested, Active
<1>4. CASE CommandSucceeds(w)
  BY <1>4, SeenType DEF CommandSucceeds, Written, BuildAfterCommand
<1>5. CASE CommandFails(w)
  BY <1>5 DEF CommandFails
<1>6. CASE CommandClaimLost(w)
  BY <1>6 DEF CommandClaimLost
<1>7. CASE CommandHeartbeat(w)
  BY <1>7, AgedType DEF CommandHeartbeat
<1>8. CASE Crash(w)
  BY <1>8, WorkQueueAssumption DEF Crash
<1>9. CASE Restart(w)
  BY <1>9 DEF Restart
<1> QED BY <1>1, <1>2, <1>3, <1>4, <1>5, <1>6, <1>7, <1>8, <1>9 DEF CommandOutcome

\* The reconciler and the passing of time keep the types.
LEMMA ReconcilerType ==
    ASSUME TypeInv,
           Reconciler \/ \E d \in Deployments : TimePasses(d)
    PROVE  TypeInv'
<1> USE DEF TypeInv, TypeOK, JobOK, rows, process
<1>1. ASSUME NEW d \in Deployments, ClaimExpires(d)
      PROVE  TypeInv'
  BY <1>1, AgedType DEF ClaimExpires
<1>2. ASSUME NEW d \in Deployments, NEW t \in CommandTypes, CommandClaimExpires(d, t)
      PROVE  TypeInv'
  BY <1>2, AgedType DEF CommandClaimExpires
<1>3. CASE OpenReadView
  BY <1>3 DEF OpenReadView, ReconcilerRow
<1>4. ASSUME NEW d \in Deployments, ReadClaimAges(d)
      PROVE  TypeInv'
  BY <1>4, AgedType DEF ReadClaimAges
<1>5. CASE HandlerCommits
  BY <1>5 DEF HandlerCommits, EndReadView
<1>6. ASSUME NEW d \in Deployments, ReconcileStaleClaim(d)
      PROVE  TypeInv'
  <2>1. /\ status' \in [Deployments -> Statuses]
        /\ build' \in [Deployments -> BuildStatuses]
    <3>1. /\ build[d] \in BuildStatuses
          /\ Written(ReconcilerSees(d).build, "failed", build[d]) \in BuildStatuses
      BY WrittenType
    <3>2. CASE ReconcilerSees(d).status \in IN_PROGRESS_STATUSES
      <4>1. /\ status' = [status EXCEPT ![d] = "failed"]
            /\ build' = [build EXCEPT ![d] = Written(ReconcilerSees(d).build, "failed", @)]
        BY <1>6, <3>2 DEF ReconcileStaleClaim
      <4> QED BY <3>1, <4>1
    <3>3. CASE ReconcilerSees(d).status \notin IN_PROGRESS_STATUSES
      BY <1>6, <3>3 DEF ReconcileStaleClaim
    <3> QED BY <3>2, <3>3
  <2>2. claim' \in [Deployments -> Claims]
    BY <1>6 DEF ReconcileStaleClaim, NoClaim
  <2>3. rview' \in [Deployments -> ReconcilerRows \cup {NoView}]
    BY <1>6 DEF ReconcileStaleClaim, EndReadView
  <2> QED BY <1>6, <2>1, <2>2, <2>3 DEF ReconcileStaleClaim
<1>7. ASSUME NEW d \in Deployments, ReconcileMissingWorkload(d)
      PROVE  TypeInv'
  BY <1>7 DEF ReconcileMissingWorkload, EndReadView, NoClaim, Written
<1> QED BY <1>1, <1>2, <1>3, <1>4, <1>5, <1>6, <1>7 DEF Reconciler, TimePasses

\* No step of the system breaks the types.
LEMMA TypeStep == TypeInv /\ [Next]_vars => TypeInv'
<1> SUFFICES ASSUME TypeInv, [Next]_vars PROVE TypeInv'
  OBVIOUS
<1>1. CASE UNCHANGED vars
  BY <1>1 DEF vars, rows, process, TypeInv, TypeOK, JobOK
<1>2. CASE Next
  BY <1>2, ApiType, PollType, PipelineType, CommandType, ReconcilerType DEF Next, Worker
<1> QED BY <1>1, <1>2

\* Every reachable state is well typed, whatever the workers, deployments and
\* bounds are.
THEOREM TypeCorrect == Spec => []TypeOK
<1>1. Init => TypeInv
  BY InitType
<1>2. TypeInv /\ [Next]_vars => TypeInv'
  BY TypeStep
<1>3. TypeInv => TypeOK
  BY DEF TypeInv
<1> QED BY <1>1, <1>2, <1>3, PTL DEF Spec

-----------------------------------------------------------------------------
(* One pipeline per deployment.  A worker that has begun a deployment proves  *)
(* that the deployment is no longer pending, so nobody can claim it again,   *)
(* and beginning it takes the claim, so nobody who claimed it earlier can    *)
(* follow.                                                                   *)

Begun(w) == pc[w] = "work" \/ (pc[w] = "begin" /\ task[w] # "clone")

SnapshotsAge ==
    \A w \in Workers : view[w] # NoView /\ view[w].status # "pending" => status[job[w]] # "pending"
IdleHasNoSnapshot ==
    \A w \in Workers : pc[w] \notin Pipeline \cup Commanding => view[w] = NoView
BegunIsNotPending ==
    \A w \in Workers : Begun(w) => status[job[w]] # "pending"
BeginningTakesTheClaim ==
    \A w, v \in Workers :
        w # v /\ pc[w] \in Pipeline /\ Begun(v) /\ job[w] = job[v] => claim[job[v]].by # w
BegunAreApart ==
    \A w, v \in Workers : w # v /\ Begun(w) /\ Begun(v) => job[w] # job[v]

PipelineInv ==
    /\ TypeInv
    /\ SnapshotsAge
    /\ IdleHasNoSnapshot
    /\ BegunIsNotPending
    /\ BeginningTakesTheClaim
    /\ BegunAreApart

\* What most steps do: no deployment becomes pending again, no claim gets a new
\* holder, and no worker begins a deployment or takes one up.
NeverPendingAgain == \A d \in Deployments : status[d] # "pending" => status'[d] # "pending"
NoNewHolder == \A d \in Deployments : claim'[d].by \in {claim[d].by, None}
NobodyBegins ==
    \A w \in Workers :
        /\ pc'[w] \in Pipeline => pc[w] \in Pipeline /\ job'[w] = job[w]
        /\ Begun(w)' => Begun(w)
SnapshotsKept ==
    \A w \in Workers :
        \/ view'[w] = NoView
        \/ view'[w] = view[w] /\ job'[w] = job[w] /\ pc'[w] \in Pipeline \cup Commanding
        \/ view'[w] = Row(job[w]) /\ job'[w] = job[w] /\ pc'[w] \in Pipeline \cup Commanding

\* A step that makes nothing pending again, gives no claim to a new holder and
\* lets nobody begin preserves the whole pipeline invariant: only claiming a
\* deployment and beginning it need an argument of their own.
LEMMA CalmStep ==
    ASSUME PipelineInv, TypeInv', NeverPendingAgain, NoNewHolder, NobodyBegins, SnapshotsKept
    PROVE  PipelineInv'
<1> USE DEF PipelineInv
<1>1. SnapshotsAge'
  <2> SUFFICES ASSUME NEW w \in Workers, view'[w] # NoView, view'[w].status # "pending"
               PROVE  status'[job'[w]] # "pending"
    BY DEF SnapshotsAge
  <2>1. job'[w] = job[w] /\ job[w] \in Deployments
    BY DEF SnapshotsKept, TypeInv, JobOK
  <2>2. status[job[w]] # "pending"
    <3>1. CASE view'[w] = view[w]
      BY <3>1 DEF SnapshotsAge
    <3>2. CASE view'[w] = Row(job[w])
      BY <3>2 DEF Row
    <3> QED BY <3>1, <3>2 DEF SnapshotsKept
  <2> QED BY <2>1, <2>2 DEF NeverPendingAgain
<1>2. IdleHasNoSnapshot'
  BY DEF IdleHasNoSnapshot, SnapshotsKept
<1>3. BegunIsNotPending'
  <2> SUFFICES ASSUME NEW w \in Workers, Begun(w)'
               PROVE  status'[job'[w]] # "pending"
    BY DEF BegunIsNotPending
  <2>1. Begun(w) /\ job'[w] = job[w] /\ job[w] \in Deployments
    BY DEF NobodyBegins, Begun, TypeInv, JobOK
  <2> QED BY <2>1 DEF BegunIsNotPending, NeverPendingAgain
<1>4. BeginningTakesTheClaim'
  <2> SUFFICES ASSUME NEW w \in Workers, NEW v \in Workers, w # v,
                      pc'[w] \in Pipeline, Begun(v)', job'[w] = job'[v]
               PROVE  claim'[job'[v]].by # w
    BY DEF BeginningTakesTheClaim
  <2>1. /\ pc[w] \in Pipeline /\ Begun(v)
        /\ job'[w] = job[w] /\ job'[v] = job[v] /\ job[v] \in Deployments
    BY DEF NobodyBegins, Begun, TypeInv, JobOK
  <2>2. claim[job[v]].by # w
    BY <2>1 DEF BeginningTakesTheClaim
  <2> QED BY <2>1, <2>2, WorkQueueAssumption DEF NoNewHolder
<1>5. BegunAreApart'
  <2> SUFFICES ASSUME NEW w \in Workers, NEW v \in Workers, w # v, Begun(w)', Begun(v)'
               PROVE  job'[w] # job'[v]
    BY DEF BegunAreApart
  <2>1. /\ Begun(w) /\ job'[w] = job[w]
        /\ Begun(v) /\ job'[v] = job[v]
    BY DEF NobodyBegins, Begun
  <2> QED BY <2>1 DEF BegunAreApart
<1> QED BY <1>1, <1>2, <1>3, <1>4, <1>5

\* The reads of one worker agree with its deployment's history.
LEMMA SeenPending ==
    ASSUME PipelineInv, NEW w \in Workers, Seen(w).status # "pending"
    PROVE  status[job[w]] # "pending"
<1>1. CASE view[w] = NoView
  BY <1>1 DEF Seen, Row
<1>2. CASE view[w] # NoView
  BY <1>2 DEF Seen, PipelineInv, SnapshotsAge
<1> QED BY <1>1, <1>2

\* A status written over a snapshot is never `pending`.
LEMMA WrittenNotPending ==
    ASSUME PipelineInv, NEW w \in Workers, NEW s, s # "pending",
           job[w] \in Deployments,
           status' = [status EXCEPT ![job[w]] = Written(Seen(w).status, s, @)]
    PROVE  NeverPendingAgain /\ status'[job[w]] # "pending"
<1>1. status'[job[w]] = Written(Seen(w).status, s, status[job[w]])
  BY DEF PipelineInv, TypeInv, TypeOK
<1>2. Written(Seen(w).status, s, status[job[w]]) # "pending"
  BY SeenPending DEF Written
<1> QED BY <1>1, <1>2 DEF NeverPendingAgain, PipelineInv, TypeInv, TypeOK

\* Refreshing an owned claim, and dropping one, make no new holder.
LEMMA ClaimHolders ==
    ASSUME PipelineInv, NEW d \in Deployments,
           \/ claim' = claim
           \/ claim' = [claim EXCEPT ![d] = NoClaim]
           \/ claim' = [claim EXCEPT ![d] = Aged(@)]
           \/ claim' = [claim EXCEPT ![d] = FreshClaim(claim[d].by)]
    PROVE  NoNewHolder
<1> USE DEF PipelineInv, TypeInv, TypeOK, NoNewHolder
<1>1. CASE claim' = claim
  BY <1>1
<1>2. CASE claim' = [claim EXCEPT ![d] = NoClaim]
  BY <1>2 DEF NoClaim
<1>3. CASE claim' = [claim EXCEPT ![d] = Aged(@)]
  BY <1>3 DEF Aged
<1>4. CASE claim' = [claim EXCEPT ![d] = FreshClaim(claim[d].by)]
  BY <1>4 DEF FreshClaim
<1> QED BY <1>1, <1>2, <1>3, <1>4

\* Steps of the API, of time and of the reconciler leave every process alone.
LEMMA ProcessesUntouched ==
    ASSUME PipelineInv, process' = process
    PROVE  NobodyBegins /\ SnapshotsKept
BY DEF PipelineInv, IdleHasNoSnapshot, process, NobodyBegins, Begun, SnapshotsKept

\* A worker that gives up its job, or stays with it, begins nothing.
LEMMA WorkerGivesUp ==
    ASSUME PipelineInv, NEW w \in Workers, NEW p \in PCs \ Pipeline, Become(w, p)
    PROVE  NobodyBegins /\ SnapshotsKept
BY DEF PipelineInv, TypeInv, TypeOK, IdleHasNoSnapshot, Become, NobodyBegins, Begun, SnapshotsKept

\* A worker that has begun may go on with its next step, or turn to recording
\* a failure.
LEMMA WorkerProceeds ==
    ASSUME PipelineInv, NEW w \in Workers, NEW p \in Pipeline, NEW t,
           Proceed(w, p, t), pc[w] \in Pipeline, Begun(w) \/ p = "failing"
    PROVE  NobodyBegins /\ SnapshotsKept
BY DEF PipelineInv, TypeInv, TypeOK, IdleHasNoSnapshot, Proceed, NobodyBegins, Begun, SnapshotsKept

\* A worker that runs a command begins no pipeline.
LEMMA CommandProceeds ==
    ASSUME PipelineInv, NEW w \in Workers, NEW p \in Commanding, NEW t, Proceed(w, p, t)
    PROVE  NobodyBegins /\ SnapshotsKept
BY DEF PipelineInv, TypeInv, TypeOK, IdleHasNoSnapshot, Proceed, NobodyBegins, Begun, SnapshotsKept

\* The API changes neither claims nor processes, and the graph has no edge back
\* to pending.
LEMMA ApiKeepsPipeline ==
    ASSUME PipelineInv, TypeInv', API
    PROVE  PipelineInv'
<1>1. process' = process
  BY DEF API, RequestCommand, PatchStatus, PatchBuild, process
<1>2. NoNewHolder
  BY DEF API, RequestCommand, PatchStatus, PatchBuild, NoNewHolder
<1>3. NeverPendingAgain
  <2>1. ASSUME NEW d \in Deployments, NEW s \in PatchStatuses, PatchStatus(d, s)
        PROVE  NeverPendingAgain
    BY <2>1 DEF PatchStatus, NeverPendingAgain, CanTransition, StatusEdge,
                PipelineInv, TypeInv, TypeOK
  <2>2. ASSUME status' = status
        PROVE  NeverPendingAgain
    BY <2>2 DEF NeverPendingAgain
  <2> QED BY <2>1, <2>2 DEF API, RequestCommand, PatchBuild
<1> QED BY <1>1, <1>2, <1>3, ProcessesUntouched, CalmStep

\* The reconciler and time only age or drop claims, and write only `failed`,
\* however old the row they act on.
LEMMA ReconcilerKeepsPipeline ==
    ASSUME PipelineInv, TypeInv', Reconciler \/ \E d \in Deployments : TimePasses(d)
    PROVE  PipelineInv'
<1> USE DEF PipelineInv, TypeInv, TypeOK
<1>1. process' = process
  BY DEF Reconciler, TimePasses, ClaimExpires, CommandClaimExpires, OpenReadView, ReadClaimAges,
         HandlerCommits, ReconcileStaleClaim, ReconcileMissingWorkload, process
<1>2. NoNewHolder
  <2>1. ASSUME NEW d \in Deployments, ClaimExpires(d)
        PROVE  NoNewHolder
    BY <2>1, ClaimHolders DEF ClaimExpires
  <2>2. ASSUME NEW d \in Deployments, ReconcileStaleClaim(d)
        PROVE  NoNewHolder
    BY <2>2, ClaimHolders DEF ReconcileStaleClaim
  <2>3. ASSUME NEW d \in Deployments, ReconcileMissingWorkload(d)
        PROVE  NoNewHolder
    BY <2>3 DEF ReconcileMissingWorkload, NoNewHolder, NoClaim
  <2>4. ASSUME claim' = claim
        PROVE  NoNewHolder
    BY <2>4 DEF NoNewHolder
  <2> QED
    BY <2>1, <2>2, <2>3, <2>4
    DEF Reconciler, TimePasses, CommandClaimExpires, OpenReadView, ReadClaimAges, HandlerCommits, rows
<1>3. NeverPendingAgain
  BY DEF Reconciler, TimePasses, ClaimExpires, CommandClaimExpires, OpenReadView, ReadClaimAges,
         HandlerCommits, ReconcileStaleClaim, ReconcileMissingWorkload, rows, NeverPendingAgain
<1> QED BY <1>1, <1>2, <1>3, ProcessesUntouched, CalmStep

\* Commands never touch the deployment's claim, and write only `stopped`.
LEMMA CommandKeepsPipeline ==
    ASSUME PipelineInv, TypeInv', NEW w \in Workers,
           CommandOutcome(w) \/ CommandHeartbeat(w) \/ Crash(w) \/ Restart(w)
    PROVE  PipelineInv'
<1>1. claim' = claim
  BY DEF CommandOutcome, StartCommand, SkipCommand, BeginStop, CommandSucceeds, CommandFails,
         CommandClaimLost, CommandHeartbeat, Crash, Restart, rows
<1>2. NeverPendingAgain
  <2>1. CASE CommandSucceeds(w)
    <3>1. job[w] \in Deployments
      BY <2>1 DEF CommandSucceeds, PipelineInv, TypeInv, JobOK
    <3> QED BY <2>1, <3>1, WrittenNotPending DEF CommandSucceeds
  <2>2. ASSUME status' = status
        PROVE  NeverPendingAgain
    BY <2>2 DEF NeverPendingAgain
  <2> QED
    BY <2>1, <2>2 DEF CommandOutcome, StartCommand, SkipCommand, BeginStop, CommandFails,
         CommandClaimLost, CommandHeartbeat, Crash, Restart, rows
<1>3. NobodyBegins /\ SnapshotsKept
  <2>1. CASE BeginStop(w)
    BY <2>1 DEF BeginStop, PipelineInv, TypeInv, TypeOK, IdleHasNoSnapshot,
                NobodyBegins, Begun, SnapshotsKept
  <2>2. CASE \E p \in PCs \ Pipeline : Become(w, p)
    BY <2>2, WorkerGivesUp
  <2>3. CASE \E p \in Commanding : Proceed(w, p, task[w])
    BY <2>3, CommandProceeds
  <2> QED
    BY <2>1, <2>2, <2>3 DEF CommandOutcome, StartCommand, SkipCommand, CommandSucceeds, CommandFails,
         CommandClaimLost, CommandHeartbeat, Crash, Restart
<1>4. NoNewHolder
  BY <1>1 DEF NoNewHolder
<1> QED BY <1>2, <1>3, <1>4, CalmStep

\* A claimed deployment is pending, so no worker has begun it; its new claim
\* cannot disturb a worker that has begun another.
LEMMA PollKeepsPipeline ==
    ASSUME PipelineInv, TypeInv', NEW w \in Workers, Poll(w)
    PROVE  PipelineInv'
<1> USE DEF PipelineInv, TypeInv, TypeOK
<1>1. CASE NoCommandToRun(w) \/ NothingPending(w)
      \/ \E d \in Deployments, t \in CommandTypes : ClaimCommand(w, d, t)
  <2>1. NeverPendingAgain /\ NoNewHolder
    BY <1>1 DEF NoCommandToRun, NothingPending, ClaimCommand, rows, NeverPendingAgain, NoNewHolder
  <2>2. NobodyBegins /\ SnapshotsKept
    <3>1. CASE NoCommandToRun(w)
      BY <3>1 DEF NoCommandToRun, IdleHasNoSnapshot, NobodyBegins, Begun, SnapshotsKept
    <3>2. CASE NothingPending(w)
      BY <3>2, WorkerGivesUp DEF NothingPending
    <3>3. ASSUME NEW d \in Deployments, NEW t \in CommandTypes, ClaimCommand(w, d, t)
          PROVE  NobodyBegins /\ SnapshotsKept
      BY <3>3 DEF ClaimCommand, IdleHasNoSnapshot, NobodyBegins, Begun, SnapshotsKept
    <3> QED BY <1>1, <3>1, <3>2, <3>3
  <2> QED BY <2>1, <2>2, CalmStep
<1>2. ASSUME NEW d \in Deployments, ClaimDeployment(w, d)
      PROVE  PipelineInv'
  <2> USE <1>2 DEF ClaimDeployment, ClaimableDeployment
  <2>1. /\ pc[w] = "polled" /\ view[w] = NoView /\ status[d] = "pending"
        /\ view' = view /\ status' = status
        /\ pc' = [pc EXCEPT ![w] = "begin"]
        /\ job' = [job EXCEPT ![w] = d]
        /\ task' = [task EXCEPT ![w] = "clone"]
        /\ claim' = [claim EXCEPT ![d] = FreshClaim(w)]
    BY DEF IdleHasNoSnapshot
  <2>2. SnapshotsAge'
    BY <2>1 DEF SnapshotsAge
  <2>3. IdleHasNoSnapshot'
    BY <2>1 DEF IdleHasNoSnapshot
  <2>4. ASSUME NEW v \in Workers, Begun(v)'
        PROVE  v # w /\ Begun(v) /\ job'[v] = job[v] /\ job[v] # d
    BY <2>1, <2>4 DEF Begun, BegunIsNotPending
  <2>5. BegunIsNotPending'
    BY <2>1, <2>4 DEF BegunIsNotPending
  <2>6. BeginningTakesTheClaim'
    <3> SUFFICES ASSUME NEW u \in Workers, NEW v \in Workers, u # v,
                        pc'[u] \in Pipeline, Begun(v)', job'[u] = job'[v]
                 PROVE  claim'[job'[v]].by # u
      BY DEF BeginningTakesTheClaim
    <3>1. u # w /\ pc[u] \in Pipeline /\ job[u] = job[v]
      BY <2>1, <2>4
    <3>2. claim'[job[v]] = claim[job[v]]
      BY <2>1, <2>4
    <3> QED BY <2>4, <3>1, <3>2 DEF BeginningTakesTheClaim
  <2>7. BegunAreApart'
    BY <2>4 DEF BegunAreApart
  <2> QED BY <2>2, <2>3, <2>5, <2>6, <2>7
<1> QED BY <1>1, <1>2 DEF Poll

\* Beginning a step: the guarded update of refresh_claim means the claim was
\* this worker's, so no other worker had begun.
LEMMA BeginKeepsPipeline ==
    ASSUME PipelineInv, TypeInv', NEW w \in Workers, BeginStep(w)
    PROVE  PipelineInv'
<1> USE DEF PipelineInv, TypeInv, TypeOK
<1> DEFINE d == job[w]
<1>1. /\ pc[w] = "begin" /\ d \in Deployments
      /\ claim[d].by = w
      /\ status' = [status EXCEPT ![d] = Written(Seen(w).status, Opens(task[w]), @)]
      /\ claim' = [claim EXCEPT ![d] = FreshClaim(w)]
      /\ pc' = [pc EXCEPT ![w] = "work"] /\ job' = job
      /\ view' = [view EXCEPT ![w] = NoView]
      /\ task' = [task EXCEPT ![w] = task[w]]
  BY DEF BeginStep, Owns, Refresh, Proceed, JobOK
<1>2. Opens(task[w]) # "pending"
  BY DEF Opens
<1>3. NeverPendingAgain /\ status'[d] # "pending"
  BY <1>1, <1>2, WrittenNotPending
<1>4. SnapshotsAge'
  BY <1>1, <1>3 DEF SnapshotsAge, NeverPendingAgain, IdleHasNoSnapshot, JobOK
<1>5. IdleHasNoSnapshot'
  BY <1>1 DEF IdleHasNoSnapshot
<1>6. ASSUME NEW v \in Workers, Begun(v)', v # w
      PROVE  Begun(v)
  BY <1>1, <1>6 DEF Begun
<1>7. BegunIsNotPending'
  BY <1>1, <1>3, <1>6 DEF BegunIsNotPending, NeverPendingAgain, JobOK, Begun
<1>8. BeginningTakesTheClaim'
  <2> SUFFICES ASSUME NEW u \in Workers, NEW v \in Workers, u # v,
                      pc'[u] \in Pipeline, Begun(v)', job[u] = job[v]
               PROVE  claim'[job[v]].by # u
    BY <1>1 DEF BeginningTakesTheClaim
  <2>1. pc[u] \in Pipeline
    BY <1>1
  <2>2. CASE v = w
    BY <1>1, <2>2 DEF FreshClaim
  <2>3. CASE v # w
    <3>1. Begun(v) /\ claim[job[v]].by # u
      BY <1>6, <2>1, <2>3 DEF BeginningTakesTheClaim
    <3>2. job[v] # d
      BY <1>1, <2>3, <3>1 DEF BeginningTakesTheClaim
    <3> QED BY <1>1, <3>1, <3>2
  <2> QED BY <2>2, <2>3
<1>9. BegunAreApart'
  <2>1. ASSUME NEW v \in Workers, v # w, Begun(v)
        PROVE  job[v] # d
    BY <1>1, <2>1 DEF BeginningTakesTheClaim
  <2> QED BY <1>1, <1>6, <2>1 DEF BegunAreApart
<1> QED BY <1>4, <1>5, <1>7, <1>8, <1>9

\* No other pipeline step begins a deployment, and each keeps or drops its own
\* claim.
LEMMA OutcomeKeepsPipeline ==
    ASSUME PipelineInv, TypeInv', NEW w \in Workers,
           PipelineOutcome(w) \/ ReadRow(w) \/ Heartbeat(w)
    PROVE  PipelineInv'
<1>1. CASE BeginStep(w)
  BY <1>1, BeginKeepsPipeline
<1>2. ASSUME pc[w] \in Pipeline, status' = status
      PROVE  job[w] \in Deployments /\ NeverPendingAgain
  BY <1>2 DEF PipelineInv, TypeInv, JobOK, NeverPendingAgain
<1>3. ASSUME pc[w] \in Pipeline, Owns(w), Refresh(w)
      PROVE  NoNewHolder
  BY <1>3, ClaimHolders DEF Owns, Refresh, PipelineInv, TypeInv, JobOK
<1>4. CASE StepSucceeds(w)
  <2>1. /\ Begun(w)
        /\ BeginsAt(After(job[w], task[w])) \in Pipeline
        /\ Proceed(w, BeginsAt(After(job[w], task[w])), After(job[w], task[w]))
    BY <1>4 DEF StepSucceeds, Begun, BeginsAt
  <2> QED BY <1>2, <1>3, <1>4, <2>1, WorkerProceeds, CalmStep DEF StepSucceeds
<1>5. CASE PersistTarget(w)
  <2>1. Begun(w) /\ NoNewHolder
    BY <1>5 DEF PersistTarget, Begun, NoNewHolder
  <2> QED BY <1>2, <1>5, <2>1, WorkerProceeds, CalmStep DEF PersistTarget
<1>6. CASE Heartbeat(w)
  <2>1. Begun(w)
    BY <1>6 DEF Heartbeat, Begun
  <2> QED BY <1>2, <1>3, <1>6, <2>1, WorkerProceeds, CalmStep DEF Heartbeat
<1>7. CASE GoRunning(w)
  <2>1. job[w] \in Deployments
    BY <1>7 DEF GoRunning, PipelineInv, TypeInv, JobOK
  <2>2. NeverPendingAgain
    BY <1>7, <2>1, WrittenNotPending DEF GoRunning
  <2>3. NoNewHolder
    BY <1>7, <2>1, ClaimHolders DEF GoRunning
  <2> QED BY <1>7, <2>2, <2>3, WorkerGivesUp, CalmStep DEF GoRunning
<1>8. CASE MarkFailed(w)
  <2>1. job[w] \in Deployments
    BY <1>8 DEF MarkFailed, PipelineInv, TypeInv, JobOK
  <2>2. NeverPendingAgain
    BY <1>8, <2>1, WrittenNotPending DEF MarkFailed
  <2>3. NoNewHolder
    BY <1>8, <2>1, ClaimHolders DEF MarkFailed
  <2> QED BY <1>8, <2>2, <2>3, WorkerGivesUp, CalmStep DEF MarkFailed
<1>9. CASE AcknowledgeCancellation(w)
  <2>1. NoNewHolder
    BY <1>2, <1>9, ClaimHolders DEF AcknowledgeCancellation
  <2> QED BY <1>2, <1>9, <2>1, WorkerGivesUp, CalmStep DEF AcknowledgeCancellation
<1>10. CASE WorkerDies(w) \/ LoseClaim(w)
  <2>1. NoNewHolder
    BY <1>10 DEF WorkerDies, LoseClaim, rows, NoNewHolder
  <2> QED BY <1>2, <1>10, <2>1, WorkerGivesUp, CalmStep DEF WorkerDies, LoseClaim, rows
<1>11. CASE StepFails(w)
  <2>1. NoNewHolder
    BY <1>11 DEF StepFails, rows, NoNewHolder
  <2>2. NobodyBegins /\ SnapshotsKept
    BY <1>11 DEF StepFails, PipelineInv, TypeInv, TypeOK, IdleHasNoSnapshot,
                 NobodyBegins, Begun, SnapshotsKept
  <2> QED BY <1>2, <1>11, <2>1, <2>2, CalmStep DEF StepFails, rows
<1>12. CASE StepRaises(w)
  <2>1. NoNewHolder
    BY <1>12 DEF StepRaises, rows, NoNewHolder
  <2> QED BY <1>2, <1>12, <2>1, WorkerProceeds, CalmStep DEF StepRaises, rows
<1>13. CASE ReadRow(w)
  <2>1. NoNewHolder /\ NeverPendingAgain
    BY <1>13 DEF ReadRow, rows, NoNewHolder, NeverPendingAgain
  <2>2. NobodyBegins /\ SnapshotsKept
    BY <1>13 DEF ReadRow, PipelineInv, TypeInv, TypeOK, IdleHasNoSnapshot,
                 NobodyBegins, Begun, SnapshotsKept
  <2> QED BY <2>1, <2>2, CalmStep
<1> QED
  BY <1>1, <1>4, <1>5, <1>6, <1>7, <1>8, <1>9, <1>10, <1>11, <1>12, <1>13 DEF PipelineOutcome

\* Initially no worker has begun anything.
LEMMA PipelineInit == Init => PipelineInv
<1> SUFFICES ASSUME Init PROVE PipelineInv
  OBVIOUS
<1>1. TypeInv
  BY InitType
<1> QED
  BY <1>1 DEF Init, PipelineInv, SnapshotsAge, IdleHasNoSnapshot, BegunIsNotPending, Begun,
              BeginningTakesTheClaim, BegunAreApart

\* The pipeline invariant is inductive.
LEMMA PipelineStep == PipelineInv /\ [Next]_vars => PipelineInv'
<1> SUFFICES ASSUME PipelineInv, [Next]_vars PROVE PipelineInv'
  OBVIOUS
<1>1. TypeInv'
  BY TypeStep DEF PipelineInv
<1>2. CASE UNCHANGED vars
  <2>1. process' = process /\ status' = status /\ claim' = claim
    BY <1>2 DEF vars, rows
  <2>2. NoNewHolder /\ NeverPendingAgain
    BY <2>1 DEF NoNewHolder, NeverPendingAgain
  <2> QED BY <1>1, <2>1, <2>2, ProcessesUntouched, CalmStep
<1>3. CASE Next
  BY <1>1, <1>3, ApiKeepsPipeline, ReconcilerKeepsPipeline, CommandKeepsPipeline,
     PollKeepsPipeline, OutcomeKeepsPipeline DEF Next, Worker
<1> QED BY <1>2, <1>3

\* Two workers never run pipeline steps of one deployment, with any number of
\* workers and deployments, whoever stalls, crashes or patches, and whatever
\* old rows the reconciler acts on.
THEOREM OnePipelineAlways == Spec => []OnePipeline
<1>1. Init => PipelineInv
  BY PipelineInit
<1>2. PipelineInv /\ [Next]_vars => PipelineInv'
  BY PipelineStep
<1>3. PipelineInv => OnePipeline
  BY DEF PipelineInv, BegunAreApart, Begun, OnePipeline
<1> QED BY <1>1, <1>2, <1>3, PTL DEF Spec

-----------------------------------------------------------------------------
(* Who writes a status *)

\* A deployment's status changes only by these operations on that deployment.
LEMMA StatusWriter ==
    ASSUME TypeInv, Next, NEW d \in Deployments, status'[d] # status[d]
    PROVE  \/ \E s \in PatchStatuses : PatchStatus(d, s)
           \/ ReconcileStaleClaim(d) \/ ReconcileMissingWorkload(d)
           \/ \E w \in Workers :
                 /\ job[w] = d
                 /\ BeginStep(w) \/ GoRunning(w) \/ MarkFailed(w) \/ CommandSucceeds(w)
<1> USE DEF TypeInv, TypeOK, JobOK
<1>1. CASE API
  <2>1. ASSUME NEW e \in Deployments, NEW s \in PatchStatuses, PatchStatus(e, s)
        PROVE  e = d
    BY <2>1 DEF PatchStatus
  <2> QED BY <1>1, <2>1 DEF API, RequestCommand, PatchBuild
<1>2. CASE Reconciler \/ \E e \in Deployments : TimePasses(e)
  <2>1. ASSUME NEW e \in Deployments, ReconcileStaleClaim(e) \/ ReconcileMissingWorkload(e)
        PROVE  e = d
    BY <2>1 DEF ReconcileStaleClaim, ReconcileMissingWorkload
  <2> QED
    BY <1>2, <2>1 DEF Reconciler, TimePasses, ClaimExpires, CommandClaimExpires, OpenReadView,
       ReadClaimAges, HandlerCommits, rows
<1>3. ASSUME NEW w \in Workers, Worker(w)
      PROVE  job[w] = d /\ (BeginStep(w) \/ GoRunning(w) \/ MarkFailed(w) \/ CommandSucceeds(w))
  <2>1. BeginStep(w) \/ GoRunning(w) \/ MarkFailed(w) \/ CommandSucceeds(w)
    BY <1>3 DEF Worker, Poll, NoCommandToRun, NothingPending, ClaimDeployment, ClaimCommand,
       PipelineOutcome, StepSucceeds, PersistTarget, StepFails, StepRaises, WorkerDies, LoseClaim,
       AcknowledgeCancellation, CommandOutcome, StartCommand, SkipCommand, BeginStop, CommandFails,
       CommandClaimLost, ReadRow, Heartbeat, CommandHeartbeat, Crash, Restart, rows
  <2>2. \E s : status' = [status EXCEPT ![job[w]] = s]
    BY <2>1 DEF BeginStep, GoRunning, MarkFailed, CommandSucceeds
  <2> QED BY <2>1, <2>2
<1> QED BY <1>1, <1>2, <1>3 DEF Next

\* A deployment enters a pipeline status only by a worker holding its claim at
\* that moment, whatever stalls, crashes and old reads occur: a fenced-off
\* worker writes nothing.  Only a PATCH could do it without a claim.
THEOREM FencedWritesAlways ==
    ASSUME PatchStatuses \cap (InProgress \cup {"running"}) = {}
    PROVE  Spec => FencedWrites
<1> DEFINE Fenced == \A d \in Deployments :
             status'[d] # status[d] /\ status'[d] \in InProgress \cup {"running"}
               => \E w \in Workers : pc[w] = "begin" /\ job[w] = d /\ claim[d].by = w
<1>1. Init => TypeInv
  BY InitType
<1>2. TypeInv /\ [Next]_vars => TypeInv'
  BY TypeStep
<1>3. TypeInv /\ [Next]_vars => [Fenced]_vars
  <2> SUFFICES ASSUME TypeInv, Next, NEW d \in Deployments,
                      status'[d] # status[d], status'[d] \in InProgress \cup {"running"}
               PROVE  \E w \in Workers : pc[w] = "begin" /\ job[w] = d /\ claim[d].by = w
    OBVIOUS
  <2>1. ASSUME NEW s \in PatchStatuses, PatchStatus(d, s)
        PROVE  FALSE
    BY <2>1 DEF PatchStatus, TypeInv, TypeOK
  <2>2. CASE ReconcileStaleClaim(d) \/ ReconcileMissingWorkload(d)
    BY <2>2 DEF ReconcileStaleClaim, ReconcileMissingWorkload, InProgress, TypeInv, TypeOK
  <2>3. ASSUME NEW w \in Workers, job[w] = d, MarkFailed(w) \/ CommandSucceeds(w)
        PROVE  FALSE
    BY <2>3 DEF MarkFailed, CommandSucceeds, Written, InProgress, TypeInv, TypeOK
  <2>4. ASSUME NEW w \in Workers, job[w] = d, BeginStep(w) \/ GoRunning(w)
        PROVE  pc[w] = "begin" /\ claim[d].by = w
    BY <2>4 DEF BeginStep, GoRunning, Owns
  <2> QED BY <2>1, <2>2, <2>3, <2>4, StatusWriter
<1>4. [][Fenced]_vars => FencedWrites
  BY PTL DEF FencedWrites
<1> QED BY <1>1, <1>2, <1>3, <1>4, PTL DEF Spec

===============================================================================
