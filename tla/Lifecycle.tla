------------------------------ MODULE Lifecycle ------------------------------
(***************************************************************************)
(* The two status graphs every component of the control plane writes       *)
(* through: PlatformDeployment.STATUS_TRANSITIONS and                      *)
(* Build.STATUS_TRANSITIONS, with the idempotent "same status" step that   *)
(* can_transition_to allows.                                               *)
(***************************************************************************)

Statuses == {"pending", "cloning", "building", "testing", "pushing_image",
             "deploying", "running", "failed", "stopped"}

BuildStatuses == {"pending", "cloning", "building", "testing", "pushing_image",
                  "succeeded", "failed", "cancelled"}

\* worker/reconciliation/claims.py: IN_PROGRESS_STATUSES
InProgress == {"cloning", "building", "testing", "pushing_image", "deploying"}

BuildTerminal == {"succeeded", "failed", "cancelled"}

StatusEdge(s, t) ==
    \/ s = "pending"       /\ t \in {"cloning", "failed", "stopped"}
    \/ s = "cloning"       /\ t \in {"building", "failed", "stopped"}
    \/ s = "building"      /\ t \in {"testing", "pushing_image", "failed", "stopped"}
    \/ s = "testing"       /\ t \in {"pushing_image", "failed", "stopped"}
    \/ s = "pushing_image" /\ t \in {"deploying", "failed", "stopped"}
    \/ s = "deploying"     /\ t \in {"running", "failed", "stopped"}
    \/ s = "running"       /\ t \in {"failed", "stopped"}
    \/ s = "failed"        /\ t = "stopped"

BuildEdge(s, t) ==
    \/ s = "pending"       /\ t \in {"cloning", "failed", "cancelled"}
    \/ s = "cloning"       /\ t \in {"building", "failed", "cancelled"}
    \/ s = "building"      /\ t \in {"testing", "pushing_image", "failed", "cancelled"}
    \/ s = "testing"       /\ t \in {"pushing_image", "failed", "cancelled"}
    \/ s = "pushing_image" /\ t \in {"succeeded", "failed", "cancelled"}
    \/ s = "succeeded"     /\ t = "failed"

\* PlatformDeployment.can_transition_to and Build.can_transition_to.
CanTransition(s, t) == s = t \/ StatusEdge(s, t)
CanTransitionBuild(s, t) == s = t \/ BuildEdge(s, t)

=============================================================================
