--------------------------- MODULE HelmRelease_proofs ---------------------------
(***************************************************************************)
(* Proofs about HelmRelease, for any number of attempts and workers.       *)
(*                                                                         *)
(* Both results rest on one inductive invariant: what a worker has reached *)
(* tells what is already persisted, and so does what is installed.         *)
(***************************************************************************)
EXTENDS HelmRelease, TLAPS

\* A worker that is busy works on a deployment whose row exists.
BusyOnRow ==
    \A w \in Workers :
        worker[w].at # "idle" => On(w) \in Deployments /\ status[On(w)] # "absent"

\* Past the stage that persists the target, the target is persisted.
ReachedCluster ==
    \A w \in Workers : worker[w].at \in {"preflight", "upgrade"} => target[On(w)]

\* Commands belong to existing rows.
CommandsOnRows == \A d \in Deployments : command[d] # "none" => status[d] # "absent"

\* What is installed belongs to an existing row with a target.
InstalledHasRow == release # None => target[release] /\ status[release] # "absent"

\* If operators stop only deployments with a target, every command that waits or
\* is executed has one.
CommandsHaveTarget ==
    ~StopsBeforeTarget =>
        /\ \A d \in Deployments : command[d] # "none" => target[d]
        /\ \A w \in Workers : InCommand(w) => target[On(w)]

IInv ==
    /\ TypeOK
    /\ BusyOnRow
    /\ ReachedCluster
    /\ CommandsOnRows
    /\ InstalledHasRow
    /\ CommandsHaveTarget

-----------------------------------------------------------------------------
\* The next-state relation, one named case per operation.
WorkerStep(w) ==
    \/ \E d \in Deployments : ClaimDeployment(w, d)
    \/ \E d \in Deployments : ClaimCommand(w, d)
    \/ Begin(w) \/ Built(w) \/ PersistTarget(w) \/ Preflight(w) \/ Upgrade(w)
    \/ GoRunning(w) \/ StepFails(w) \/ MarkFailed(w) \/ Acknowledge(w)
    \/ SkipCommand(w) \/ DecideToRemove(w) \/ Uninstall(w)
    \/ CommandSucceeds(w) \/ CommandFails(w) \/ Crash(w)

OtherStep ==
    \/ \E d \in Deployments : RequestDeployment(d)
    \/ \E d \in Deployments, t \in CommandTypes : RequestCommand(d, t)
    \/ CleaningFails
    \/ \E d \in Deployments : ReconcileStaleClaim(d)
    \/ \E d \in Deployments : SeeMissing(d)
    \/ \E d \in Deployments : MarkMissing(d)
    \/ \E d \in Deployments : DecideToClean(d)
    \/ \E d \in Deployments : Clean(d)

\* Every step is one of these cases.
LEMMA StepCases == Next => OtherStep \/ \E w \in Workers : WorkerStep(w)
  BY DEF Next, API, Reconciler, Work, OtherStep, WorkerStep

\* The empty database satisfies the invariant.
LEMMA InitInv == Init => IInv
  BY HelmReleaseAssumption
  DEF Init, IInv, TypeOK, BusyOnRow, ReachedCluster, CommandsOnRows, InstalledHasRow,
      CommandsHaveTarget, InCommand, Commanding, CommandTypes, Statuses, Idle, On

\* Workers keep the invariant.
LEMMA WorkerKeepsInv ==
    ASSUME IInv, NEW w \in Workers, WorkerStep(w)
    PROVE  IInv'
<1> USE HelmReleaseAssumption
    DEF IInv, TypeOK, BusyOnRow, ReachedCluster, CommandsOnRows, InstalledHasRow,
        CommandsHaveTarget, InCommand, InPipeline, Commanding, Pipeline, CommandTypes,
        Statuses, Idle, On, Moves, Leaves, Proceeds
<1>1. ASSUME NEW d \in Deployments, ClaimDeployment(w, d) PROVE IInv'
  BY <1>1 DEF ClaimDeployment, Claimable
<1>2. ASSUME NEW d \in Deployments, ClaimCommand(w, d) PROVE IInv'
  BY <1>2 DEF ClaimCommand
<1>3. CASE Begin(w)
  BY <1>3 DEF Begin
<1>4. CASE Built(w)
  BY <1>4 DEF Built, AfterStage
<1>5. CASE PersistTarget(w)
  BY <1>5 DEF PersistTarget, AfterStage
<1>6. CASE Preflight(w)
  BY <1>6 DEF Preflight
<1>7. CASE Upgrade(w)
  BY <1>7 DEF Upgrade
<1>8. CASE GoRunning(w)
  BY <1>8 DEF GoRunning
<1>9. CASE StepFails(w)
  BY <1>9 DEF StepFails
<1>10. CASE MarkFailed(w)
  BY <1>10 DEF MarkFailed
<1>12. CASE Acknowledge(w)
  BY <1>12 DEF Acknowledge
<1>13. CASE SkipCommand(w)
  BY <1>13 DEF SkipCommand
<1>14. CASE DecideToRemove(w)
  BY <1>14 DEF DecideToRemove
<1>15. CASE Uninstall(w)
  BY <1>15 DEF Uninstall
<1>16. CASE CommandSucceeds(w)
  BY <1>16 DEF CommandSucceeds, AfterCommand
<1>17. CASE CommandFails(w)
  BY <1>17 DEF CommandFails
<1>18. CASE Crash(w)
  <2>1. crashes' \in 0..MaxCrashes
    BY <1>18 DEF Crash
  <2>2. lost' \subseteq Deployments
    BY <1>18 DEF Crash
  <2>3. QED
    BY <1>18, <2>1, <2>2 DEF Crash
<1> QED
  BY <1>1, <1>2, <1>3, <1>4, <1>5, <1>6, <1>7, <1>8, <1>9, <1>10, <1>12,
     <1>13, <1>14, <1>15, <1>16, <1>17, <1>18 DEF WorkerStep

\* The API and the reconciler keep the invariant.
LEMMA OthersKeepInv ==
    ASSUME IInv, OtherStep
    PROVE  IInv'
<1> USE HelmReleaseAssumption
    DEF IInv, TypeOK, BusyOnRow, ReachedCluster, CommandsOnRows, InstalledHasRow,
        CommandsHaveTarget, InCommand, CommandTypes, Statuses, Idle, On
<1>1. ASSUME NEW d \in Deployments, RequestDeployment(d) PROVE IInv'
  BY <1>1 DEF RequestDeployment
<1>2. ASSUME NEW d \in Deployments, NEW t \in CommandTypes, RequestCommand(d, t) PROVE IInv'
  BY <1>2 DEF RequestCommand
<1>3. CASE CleaningFails
  BY <1>3 DEF CleaningFails
<1>4. ASSUME NEW d \in Deployments, ReconcileStaleClaim(d) PROVE IInv'
  BY <1>4 DEF ReconcileStaleClaim, InProgress
<1>5. ASSUME NEW d \in Deployments, SeeMissing(d) PROVE IInv'
  BY <1>5 DEF SeeMissing
<1>6. ASSUME NEW d \in Deployments, MarkMissing(d) PROVE IInv'
  BY <1>6 DEF MarkMissing
<1>7. ASSUME NEW d \in Deployments, DecideToClean(d) PROVE IInv'
  BY <1>7 DEF DecideToClean
<1>8. ASSUME NEW d \in Deployments, Clean(d) PROVE IInv'
  BY <1>8 DEF Clean
<1> QED
  BY <1>1, <1>2, <1>3, <1>4, <1>5, <1>6, <1>7, <1>8 DEF OtherStep

\* The invariant is inductive.
LEMMA StepInv == IInv /\ [Next]_vars => IInv'
<1>1. ASSUME IInv, Next PROVE IInv'
  BY <1>1, StepCases, WorkerKeepsInv, OthersKeepInv
<1>2. ASSUME IInv, UNCHANGED vars PROVE IInv'
  BY <1>2 DEF vars, IInv, TypeOK, BusyOnRow, ReachedCluster, CommandsOnRows,
              InstalledHasRow, CommandsHaveTarget, InCommand, On
<1> QED
  BY <1>1, <1>2

\* The invariant holds in every reachable state.
LEMMA IInvAlways == Spec => []IInv
  BY InitInv, StepInv, PTL DEF Spec

-----------------------------------------------------------------------------
\* Every reachable state is well typed, for every set of attempts and workers.
THEOREM TypeCorrect == Spec => []TypeOK
<1>1. IInv => TypeOK
  BY DEF IInv
<1> QED
  BY <1>1, IInvAlways, PTL

\* Whatever is installed belongs to a deployment whose target is persisted, so
\* that cleanup and reconciliation can reach it (pipeline.py, the commit before
\* preflight), for every set of attempts and workers.
THEOREM InstalledIsKnownAlways == Spec => []InstalledIsKnown
<1>1. IInv => InstalledIsKnown
  BY DEF IInv, InstalledHasRow, InstalledIsKnown
<1> QED
  BY <1>1, IInvAlways, PTL

\* Starting to remove on behalf of d is one of the two decisions.
LEMMA DecisionCases ==
    ASSUME IInv, Next, NEW d \in Deployments, ~Removing(d), Removing(d)'
    PROVE  DecideToClean(d) \/ \E w \in Workers : DecideToRemove(w) /\ On(w) = d
<1> USE DEF IInv, TypeOK, Removing, On, Idle, Moves, Leaves
<1>1. CASE OtherStep
  <2>1. CASE \E e \in Deployments : DecideToClean(e)
    BY <1>1, <2>1 DEF DecideToClean
  <2>2. QED
    BY <1>1, <2>1 DEF OtherStep, RequestDeployment, RequestCommand, CleaningFails,
                      ReconcileStaleClaim, SeeMissing, MarkMissing, Clean
<1>2. ASSUME NEW w \in Workers, WorkerStep(w)
      PROVE  DecideToRemove(w) /\ On(w) = d
  <2>1. DecideToRemove(w)
    BY <1>2 DEF WorkerStep, ClaimDeployment, ClaimCommand, Begin, Built, PersistTarget,
                AfterStage, Preflight, Upgrade, GoRunning, StepFails, MarkFailed,
                Acknowledge, SkipCommand, Uninstall, CommandSucceeds,
                CommandFails, Crash
  <2>2. On(w) = d
    BY <2>1 DEF DecideToRemove
  <2>3. QED
    BY <2>1, <2>2
<1>3. QED
  BY <1>1, <1>2, StepCases

\* If every stopped deployment has a recorded target, nobody decides to uninstall
\* the release on behalf of a deployment when a newer one is what it serves
\* (skip_historical_helm_command, reconcile_helm_nonrunning_release).
THEOREM NobodyRemovesNewerAlways == ~StopsBeforeTarget /\ Spec => NobodyRemovesNewer
<1> DEFINE Fair == \A d \in Deployments :
                      ~Removing(d) /\ Removing(d)' => release = None \/ release <= d
<1>1. ASSUME ~StopsBeforeTarget, IInv, Next PROVE Fair
  <2> SUFFICES ASSUME NEW d \in Deployments, ~Removing(d), Removing(d)', release # None
               PROVE  release <= d
    OBVIOUS
  <2>1. ~NewerExists(d)
    <3>1. CASE DecideToClean(d)
      BY <3>1 DEF DecideToClean
    <3>2. ASSUME NEW w \in Workers, DecideToRemove(w), On(w) = d
          PROVE  ~NewerExists(d)
      <4>1. InCommand(w) /\ ~Historical(d)
        BY <3>2 DEF DecideToRemove, InCommand, Commanding
      <4>2. target[d]
        BY <1>1, <3>2, <4>1 DEF IInv, CommandsHaveTarget
      <4>3. QED
        BY <4>1, <4>2 DEF Historical
    <3>3. QED
      BY <1>1, <3>1, <3>2, DecisionCases
  <2>2. release \in Deployments /\ status[release] # "absent"
    BY <1>1 DEF IInv, TypeOK, InstalledHasRow
  <2>3. ~(release > d)
    BY <2>1, <2>2 DEF NewerExists
  <2>4. QED
    BY <2>2, <2>3, HelmReleaseAssumption
<1>2. ~StopsBeforeTarget /\ IInv /\ [Next]_vars => [Fair]_vars
  BY <1>1
<1>3. [][Fair]_vars => NobodyRemovesNewer
  BY PTL DEF NobodyRemovesNewer
<1>4. CASE StopsBeforeTarget
  BY <1>4
<1>5. CASE ~StopsBeforeTarget
  <2>1. IInv /\ [Next]_vars => [Fair]_vars
    BY <1>2, <1>5
  <2>2. QED
    BY <2>1, <1>3, IInvAlways, PTL DEF Spec
<1>6. QED
  BY <1>4, <1>5
=============================================================================
