------------------------------- MODULE MCParts -------------------------------
(***************************************************************************)
(* Three components that share no variable.  Each behaviour is one of one  *)
(* of them: the other two rest in their initial states.                    *)
(***************************************************************************)
EXTENDS Workload, CommandRunner, Dashboard

VARIABLE part

partsVars == <<part, workloadVars, runnerVars, dashboardVars>>

Setup(t, n, r) == [target |-> t, namespace |-> n, registry |-> r]

\* Docker without a registry, two namespaces with one.
Setups == {Setup("local-docker", "apps", FALSE), Setup("kubernetes", "apps", TRUE),
           Setup("kubernetes", "other", TRUE)}

PartsInit ==
    /\ part \in {"workload", "runner", "dashboard"}
    /\ WorkloadInit /\ RunnerInit /\ DashboardInit
    /\ part # "workload" => config = Setup("local-docker", "apps", FALSE)

WorkloadMoves(Step) == part = "workload" /\ Step /\ UNCHANGED <<part, runnerVars, dashboardVars>>
RunnerMoves(Step) == part = "runner" /\ Step /\ UNCHANGED <<part, workloadVars, dashboardVars>>
DashboardMoves(Step) == part = "dashboard" /\ Step /\ UNCHANGED <<part, workloadVars, runnerVars>>

PartsNext == \/ WorkloadMoves(WorkloadNext) \/ RunnerMoves(RunnerNext)
             \/ DashboardMoves(DashboardNext)

\* The fairness of WorkloadSpec and DashboardSpec.
PartsSpec ==
    /\ PartsInit /\ [][PartsNext]_partsVars
    /\ WF_partsVars(WorkloadMoves(WatchSteps))
    /\ WF_partsVars(WorkloadMoves(LateEffect))
    /\ WF_partsVars(WorkloadMoves(OutageEnds))
    /\ \A d \in Shown : WF_partsVars(DashboardMoves(Tick(d)))
    /\ WF_partsVars(DashboardMoves(PollAnswered))
=============================================================================
