---------------------------- MODULE CommandRunner ----------------------------
(***************************************************************************)
(* The external calls of one step of a worker, against the clock: a        *)
(* command that is polled, one that is given input and waited for, and the *)
(* polling of a health endpoint (through a port-forward on Kubernetes).    *)
(* The worker's claim is refreshed by heartbeats from within these loops,  *)
(* and by the commits before and after the step.                           *)
(*                                                                         *)
(* Time is counted in polls of the command loop, half a second each.       *)
(* SIGKILL ends a child at once.                                           *)
(***************************************************************************)
EXTENDS Naturals

CONSTANTS
    Interval,       \* CONTROL_PLANE_CLAIM_REFRESH_INTERVAL_SECONDS
    TTL,            \* CONTROL_PLANE_CLAIM_TTL_SECONDS
    Timeout,        \* CONTROL_PLANE_COMMAND_TIMEOUT_SECONDS
    Retries,        \* CONTROL_PLANE_COMMAND_RETRY_COUNT
    Second,         \* polls in a second
    ProbeTime,      \* longest health probe and the pause after it
    HealthTimeout,  \* CONTROL_PLANE_HEALTHCHECK_TIMEOUT_SECONDS
    MaxCalls        \* external calls between two refreshes by a commit

\* The longest pause between attempts, and anything else between two looks at
\* the heartbeat.
Pause == IF 3 * Second > ProbeTime THEN 3 * Second ELSE ProbeTime

\* The most a call can add to the silence: each attempt starts to count anew.
Share == (1 + Retries) * (Interval + Pause)

\* validate_numeric_config
AcceptedSettings ==
    /\ {Timeout, HealthTimeout, TTL} \subseteq Nat \ {0}
    /\ {Interval, Retries} \subseteq Nat
    /\ Interval < TTL

ASSUME RunnerAssumption ==
    /\ AcceptedSettings
    /\ Second \in Nat \ {0} /\ ProbeTime \in Nat /\ MaxCalls \in Nat

VARIABLES
    at,         \* where the worker is in the call
    kind,       \* the kind of call
    attempt,    \* the attempt under way, and how many there may be
    attempts,
    since,      \* time since the attempt began, its deadline being a timeout away
    beat,       \* time since the loop's last_heartbeat
    silence,    \* time since the claim was refreshed
    spent,      \* time since the call began
    calls,      \* calls since a commit refreshed the claim
    blind,      \* was one of them a command with input?
    child,      \* does a child process of the call exist?
    left        \* what is left of a pause

runnerVars == <<at, kind, attempt, attempts, since, beat, silence, spent,
                calls, blind, child, left>>

Kinds == {"polled", "input", "probe"}

-----------------------------------------------------------------------------
RunnerInit ==
    /\ at = "idle" /\ kind = "polled"
    /\ attempt = 1 /\ attempts = 1
    /\ since = 0 /\ beat = 0 /\ silence = 0 /\ spent = 0
    /\ calls = 0 /\ blind = FALSE /\ child = FALSE /\ left = 0

\* Time passes; an attempt's own clocks run while it lasts.
Passes(d) == silence' = silence + d /\ spent' = spent + d
AttemptPasses(d) == Passes(d) /\ since' = since + d /\ beat' = beat + d

\* _run_command, _wait_for_healthcheck or _port_forward_healthcheck is entered.
CallBegins(k, n) ==
    /\ at = "idle" /\ calls < MaxCalls
    /\ kind' = k /\ attempt' = 1
    /\ attempts' = IF k = "probe" THEN 1 ELSE n
    /\ at' = "spawn"
    /\ calls' = calls + 1
    /\ blind' = (blind \/ k = "input")
    /\ spent' = 0
    /\ UNCHANGED <<since, beat, silence, child, left>>

\* refresh_claim of begin_step or commit_step_result, between calls.
StepCommits ==
    /\ at = "idle" /\ calls > 0
    /\ silence' = 0 /\ calls' = 0 /\ blind' = FALSE
    /\ UNCHANGED <<at, kind, attempt, attempts, since, beat, spent, child, left>>

\* The child is started: deadline and last_heartbeat count from here.  The
\* child of a probe is its port-forward, on Kubernetes.
Spawn ==
    /\ at = "spawn"
    /\ child' \in IF kind = "probe" THEN BOOLEAN ELSE {TRUE}
    /\ since' = 0 /\ beat' = 0
    /\ at' = IF kind = "input" THEN "blocked" ELSE "look"
    /\ UNCHANGED <<kind, attempt, attempts, silence, spent, calls, blind, left>>

\* The attempt's frame is left.
Leaves(place) == at' = place /\ since' = 0 /\ beat' = 0

CallEnds == Leaves("idle")

Slip_NoLimit == \/ CallEnds /\ UNCHANGED left
                \/ Leaves("pause") /\ left' = Second

Slip_OneMore ==
    IF attempt <= attempts
    THEN Leaves("pause") /\ left' = Second
    ELSE CallEnds /\ UNCHANGED left

\* An attempt has failed: another one after min(attempt, 3) seconds, or the end.
AttemptFails ==
    IF attempt < attempts
    THEN /\ Leaves("pause")
         /\ left' = Second * (IF attempt < 3 THEN attempt ELSE 3)
    ELSE CallEnds /\ UNCHANGED left

\* OSError: there is no child.
SpawnFails ==
    /\ at = "spawn"
    /\ AttemptFails
    /\ UNCHANGED <<kind, attempt, attempts, silence, spent, calls, blind, child>>

\* The pause between attempts sends no heartbeat.
PausePasses ==
    /\ at = "pause" /\ left > 0
    /\ left' = left - 1
    /\ Passes(1)
    /\ UNCHANGED <<at, kind, attempt, attempts, since, beat, calls, blind, child>>

NextAttempt ==
    /\ at = "pause" /\ left = 0
    /\ attempt' = attempt + 1
    /\ at' = "spawn"
    /\ UNCHANGED <<kind, attempts, since, beat, silence, spent, calls, blind, child, left>>

-----------------------------------------------------------------------------
(* The loop of _execute_command *)

Deadline == IF kind = "probe" THEN HealthTimeout ELSE Timeout
Late == since >= Deadline

Slip_LateBeat == beat >= Interval + Timeout
Due == beat >= Interval

\* process.poll() has a return code, or subprocess.run returns: zero ends the
\* call, anything else the attempt.
ChildExits ==
    /\ at \in {"look", "blocked"} /\ kind # "probe"
    /\ child' = FALSE
    /\ \/ CallEnds /\ UNCHANGED left
       \/ AttemptFails
    /\ UNCHANGED <<kind, attempt, attempts, silence, spent, calls, blind>>

\* TimeoutExpired, after the child was killed and waited for.
TimesOut ==
    /\ at \in {"look", "blocked"} /\ kind # "probe" /\ Late
    /\ child' = FALSE
    /\ AttemptFails
    /\ UNCHANGED <<kind, attempt, attempts, silence, spent, calls, blind>>

HeartbeatSucceeds ==
    /\ at = "look" /\ ~Late /\ Due
    /\ silence' = 0 /\ beat' = 0
    /\ at' = "wait"
    /\ UNCHANGED <<kind, attempt, attempts, since, spent, calls, blind, child, left>>

Slip_LeaveChild == child

\* process.kill() for a command, _terminate_process for a port-forward.
AfterKill == FALSE

\* The heartbeat finds the claim lost, a stop, or no database: the exception
\* passes through every handler of the call.
HeartbeatRaises ==
    /\ at = "look" /\ ~Late /\ Due
    /\ child' = AfterKill
    /\ CallEnds
    /\ UNCHANGED <<kind, attempt, attempts, silence, spent, calls, blind, left>>

NotDue ==
    /\ at = "look" /\ ~Late /\ ~Due
    /\ at' = "wait"
    /\ UNCHANGED <<kind, attempt, attempts, since, beat, silence, spent, calls, blind, child, left>>

\* The loop sleeps, at most half a second.
PollPasses ==
    /\ at = "wait" /\ kind = "polled"
    /\ AttemptPasses(1)
    /\ at' = "look"
    /\ UNCHANGED <<kind, attempt, attempts, calls, blind, child, left>>

\* subprocess.run blocks: no loop, no heartbeat.
InputPasses ==
    /\ at = "blocked" /\ ~Late
    /\ AttemptPasses(1)
    /\ UNCHANGED <<at, kind, attempt, attempts, calls, blind, child, left>>

-----------------------------------------------------------------------------
(* The loop of _wait_for_healthcheck *)

ProbeAnswers ==
    /\ at = "wait" /\ kind = "probe"
    /\ \E d \in 0 .. ProbeTime : Passes(d)
    /\ child' = FALSE
    /\ CallEnds
    /\ UNCHANGED <<kind, attempt, attempts, calls, blind, left>>

\* An error or a bad answer, and the pause after it.
ProbeFails ==
    /\ at = "wait" /\ kind = "probe"
    /\ \E d \in 1 .. ProbeTime : AttemptPasses(d)
    /\ at' = "look"
    /\ UNCHANGED <<kind, attempt, attempts, calls, blind, child, left>>

\* The port-forward is gone at once: another local port, twice.
ForwardExits ==
    /\ at = "look" /\ kind = "probe" /\ child /\ since = 0
    /\ child' = FALSE
    /\ \/ attempt < 3 /\ attempt' = attempt + 1 /\ Leaves("spawn")
       \/ CallEnds /\ UNCHANGED attempt
    /\ UNCHANGED <<kind, attempts, silence, spent, calls, blind, left>>

ProbingEnds ==
    /\ at = "look" /\ kind = "probe" /\ Late
    /\ child' = FALSE
    /\ CallEnds
    /\ UNCHANGED <<kind, attempt, attempts, silence, spent, calls, blind, left>>

-----------------------------------------------------------------------------
RunnerNext ==
    \/ \E k \in Kinds, n \in {1, 1 + Retries} : CallBegins(k, n)
    \/ StepCommits \/ Spawn \/ SpawnFails \/ PausePasses \/ NextAttempt
    \/ ChildExits \/ TimesOut \/ HeartbeatSucceeds \/ HeartbeatRaises \/ NotDue
    \/ PollPasses \/ InputPasses \/ ProbeAnswers \/ ProbeFails
    \/ ForwardExits \/ ProbingEnds

RunnerSpec == RunnerInit /\ [][RunnerNext]_runnerVars

-----------------------------------------------------------------------------
(* Properties *)

RunnerTypeOK ==
    /\ at \in {"idle", "spawn", "look", "wait", "blocked", "pause"}
    /\ kind \in Kinds
    /\ attempts \in {1, 1 + Retries}
    /\ attempt \in 1 .. (IF kind = "probe" THEN 3 ELSE attempts)
    /\ {since, beat, silence, spent, calls, left} \subseteq Nat
    /\ blind \in BOOLEAN /\ child \in BOOLEAN

\* A claim goes without a refresh for no longer than Share for each external
\* call since the last commit, however these calls fail, time out, are tried
\* again or keep answering just before a heartbeat is due; only a command that
\* is given input is beyond that.
SilenceIsBounded == ~blind => silence <= calls * Share

\* A child process, or a port-forward, ends with the attempt that started it,
\* also when a heartbeat raises; the next attempt has no rival.
NoChildOutlives == child => at \in {"look", "wait", "blocked"}

\* No call holds the worker longer than its attempts may.
CallIsBounded == spent <= attempts * (Timeout + HealthTimeout + Pause)

=============================================================================
