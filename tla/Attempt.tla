------------------------------- MODULE Attempt -------------------------------
(***************************************************************************)
(* What the work queue promises of one deployment attempt: it waits in the *)
(* queue, at most one worker ever begins it, and once that run has ended,  *)
(* or the attempt was ended before it began, it never runs again (a retry  *)
(* is a new deployment).                                                   *)
(***************************************************************************)
CONSTANTS Workers, Deployments, None

VARIABLES phase, runner

Init ==
    /\ phase = [d \in Deployments |-> "queued"]
    /\ runner = [d \in Deployments |-> None]

\* A worker begins the pipeline.
Begin(d, w) ==
    /\ phase[d] = "queued"
    /\ phase' = [phase EXCEPT ![d] = "running"]
    /\ runner' = [runner EXCEPT ![d] = w]

\* It succeeds, fails, is cancelled or is lost.
End(d) ==
    /\ phase[d] = "running"
    /\ phase' = [phase EXCEPT ![d] = "ended"]
    /\ runner' = [runner EXCEPT ![d] = None]

\* Stopped or failed while still queued.
Abandon(d) ==
    /\ phase[d] = "queued"
    /\ phase' = [phase EXCEPT ![d] = "ended"]
    /\ UNCHANGED runner

Next == \E d \in Deployments : End(d) \/ Abandon(d) \/ \E w \in Workers : Begin(d, w)

Spec == Init /\ [][Next]_<<phase, runner>>

=============================================================================
