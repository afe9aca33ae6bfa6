------------------------------ MODULE Dashboard ------------------------------
(***************************************************************************)
(* The operator console's view of one deployment (useDeployments.js): the  *)
(* selection, what is shown of it, and the timer that polls it while it is *)
(* active.  Functions wait for answers that arrive late or in any order,   *)
(* while the operator selects something else.                              *)
(***************************************************************************)
EXTENDS Naturals

CONSTANTS
    Shown,      \* deployments of the project on display
    Loads,      \* bound: calls of selectDeployment in progress at once
    Nothing     \* no deployment, no answer

ASSUME DashboardAssumption == Nothing \notin Shown

VARIABLES
    outcome,    \* the status of each deployment in the database
    selected,   \* selectedDeployment
    summary,    \* deploymentSummary, and the events shown beside it
    artifacts,  \* whose logs and diagnostics are shown, and as of which status
    timer,      \* pollingTimer: the deployment its interval polls
    intervals,  \* intervals the browser runs, per deployment
    loads,      \* calls of selectDeployment
    poll,       \* the call of pollSelectedDeployment
    inFlight,   \* pollingRequestInFlight
    pollError   \* is pollingError set?

dashboardVars == <<outcome, selected, summary, artifacts, timer, intervals,
                   loads, poll, inFlight, pollError>>

\* pending to deploying; running, failed or stopped
Phases == {"active", "ended"}

Idle == [at |-> "idle", of |-> Nothing, answer |-> Nothing]
Waits(place, d) == [at |-> place, of |-> d, answer |-> Nothing]
View(d, a) == [of |-> d, status |-> a]

DashboardInit ==
    /\ outcome = [d \in Shown |-> "active"]
    /\ selected = Nothing /\ summary = Nothing /\ artifacts = Nothing
    /\ timer = Nothing /\ intervals = [d \in Shown |-> 0]
    /\ loads = [l \in Loads |-> Idle] /\ poll = Idle
    /\ inFlight = FALSE /\ pollError = FALSE

-----------------------------------------------------------------------------
(* The timer *)

Cancelled == IF timer = Nothing THEN intervals ELSE [intervals EXCEPT ![timer] = @ - 1]

Slip_KeepTimer == UNCHANGED timer /\ intervals' = Cancelled

StopPolling == timer' = Nothing /\ intervals' = Cancelled

Slip_Restart(d) == timer' = d /\ intervals' = [intervals EXCEPT ![d] = @ + 1]

\* The interval that runs is cancelled before another one is scheduled.
Restart(d) == timer' = d /\ intervals' = [Cancelled EXCEPT ![d] = @ + 1]

\* startDeploymentPolling looks at the summary on display, whoever's it is.
StartPolling(d) ==
    IF summary # Nothing /\ summary.status = "active" THEN Restart(d) ELSE StopPolling

-----------------------------------------------------------------------------
(* The operator *)

ClearSelection ==
    /\ StopPolling
    /\ summary' = Nothing /\ artifacts' = Nothing

Select(l, d) ==
    /\ loads[l] = Idle
    /\ ClearSelection
    /\ selected' = d
    /\ loads' = [loads EXCEPT ![l] = Waits("refresh", d)]
    /\ UNCHANGED <<outcome, poll, inFlight, pollError>>

\* Another project is selected, or none.
Deselect ==
    /\ ClearSelection
    /\ selected' = Nothing
    /\ UNCHANGED <<outcome, loads, poll, inFlight, pollError>>

-----------------------------------------------------------------------------
(* Answers *)

Slip_Asked(d) == selected # Nothing

\* The deployment asked for is still the selected one.
StillSelected(d) == selected = d

\* The answer of a refresh is shown.
Refreshed(d, a) ==
    /\ StillSelected(d)
    /\ summary' = View(d, a)
    /\ pollError' = FALSE

\* The API answers with what the database holds by then.
ServedFrom(call) == call.at # "idle" /\ call.answer = Nothing
LoadServed(l) ==
    /\ ServedFrom(loads[l])
    /\ loads' = [loads EXCEPT ![l].answer = outcome[loads[l].of]]
    /\ UNCHANGED <<outcome, selected, summary, artifacts, timer, intervals, poll, inFlight, pollError>>

PollServed ==
    /\ ServedFrom(poll)
    /\ poll' = [poll EXCEPT !.answer = outcome[poll.of]]
    /\ UNCHANGED <<outcome, selected, summary, artifacts, timer, intervals, loads, inFlight, pollError>>

Arrived(call, place) == call.at = place /\ call.answer # Nothing

LoadRefreshed(l) ==
    LET call == loads[l] IN
    /\ Arrived(call, "refresh")
    /\ \/ /\ Refreshed(call.of, call.answer)
          /\ loads' = [loads EXCEPT ![l] = Waits("artifacts", call.of)]
       \/ /\ ~StillSelected(call.of)
          /\ loads' = [loads EXCEPT ![l] = Idle]
          /\ UNCHANGED <<summary, pollError>>
    /\ UNCHANGED <<outcome, selected, artifacts, timer, intervals, poll, inFlight>>

\* Neither the artifacts nor the timer ask again what is selected.
LoadEnds(l) ==
    LET call == loads[l] IN
    /\ Arrived(call, "artifacts")
    /\ artifacts' = View(call.of, call.answer)
    /\ StartPolling(call.of)
    /\ loads' = [loads EXCEPT ![l] = Idle]
    /\ UNCHANGED <<outcome, selected, summary, poll, inFlight, pollError>>

\* The error goes to App.vue.
LoadFails(l) ==
    /\ loads[l].at # "idle"
    /\ loads' = [loads EXCEPT ![l] = Idle]
    /\ UNCHANGED <<outcome, selected, summary, artifacts, timer, intervals, poll, inFlight, pollError>>

-----------------------------------------------------------------------------
(* Polling *)

\* An interval of deployment d fires, and does nothing while a poll is under
\* way or another deployment is selected.
Tick(d) ==
    /\ intervals[d] > 0
    /\ ~inFlight /\ StillSelected(d)
    /\ inFlight' = TRUE
    /\ poll' = Waits("refresh", d)
    /\ UNCHANGED <<outcome, selected, summary, artifacts, timer, intervals, loads, pollError>>

PollOver == poll' = Idle /\ inFlight' = FALSE

PollRefreshed ==
    /\ Arrived(poll, "refresh")
    /\ \/ /\ Refreshed(poll.of, poll.answer) /\ poll.answer = "active"
          /\ PollOver
          /\ UNCHANGED <<timer, intervals>>
       \/ /\ Refreshed(poll.of, poll.answer) /\ poll.answer = "ended"
          /\ StopPolling
          /\ poll' = Waits("artifacts", poll.of)
          /\ UNCHANGED inFlight
       \/ /\ ~StillSelected(poll.of)
          /\ PollOver
          /\ UNCHANGED <<summary, pollError, timer, intervals>>
    /\ UNCHANGED <<outcome, selected, artifacts, loads>>

PollEnds ==
    /\ Arrived(poll, "artifacts")
    /\ artifacts' = View(poll.of, poll.answer)
    /\ PollOver
    /\ UNCHANGED <<outcome, selected, summary, timer, intervals, loads, pollError>>

Slip_Busy == poll' = Idle /\ UNCHANGED inFlight

\* The catch and finally clauses of a poll.
PollCaught == PollOver

PollFails ==
    /\ poll.at # "idle"
    /\ pollError' = TRUE
    /\ PollCaught
    /\ UNCHANGED <<outcome, selected, summary, artifacts, timer, intervals, loads>>

\* A worker ends a deployment.
Ends(d) ==
    /\ outcome[d] = "active"
    /\ outcome' = [outcome EXCEPT ![d] = "ended"]
    /\ UNCHANGED <<selected, summary, artifacts, timer, intervals, loads, poll, inFlight, pollError>>

-----------------------------------------------------------------------------
(* Specification *)

PollAnswered == PollServed \/ PollRefreshed \/ PollEnds \/ PollFails

DashboardNext ==
    \/ \E l \in Loads : \E d \in Shown : Select(l, d)
    \/ Deselect
    \/ \E l \in Loads : LoadServed(l) \/ LoadRefreshed(l) \/ LoadEnds(l) \/ LoadFails(l)
    \/ \E d \in Shown : Tick(d) \/ Ends(d)
    \/ PollAnswered

\* The browser's intervals fire, and a request is answered or fails.
DashboardSpec ==
    /\ DashboardInit /\ [][DashboardNext]_dashboardVars
    /\ \A d \in Shown : WF_dashboardVars(Tick(d))
    /\ WF_dashboardVars(PollAnswered)

-----------------------------------------------------------------------------
(* Properties *)

Calls == [at : {"idle", "refresh", "artifacts"}, of : Shown \cup {Nothing},
          answer : Phases \cup {Nothing}]
Views == [of : Shown, status : Phases]

\* The console's state has the shape described above.
DashboardTypeOK ==
    /\ outcome \in [Shown -> Phases]
    /\ selected \in Shown \cup {Nothing}
    /\ summary \in Views \cup {Nothing} /\ artifacts \in Views \cup {Nothing}
    /\ timer \in Shown \cup {Nothing} /\ intervals \in [Shown -> Nat]
    /\ loads \in [Loads -> Calls] /\ poll \in Calls
    /\ inFlight \in BOOLEAN /\ pollError \in BOOLEAN

\* However late an answer arrives, the summary and the events on display are
\* those of the deployment that is selected.
ShowsSelected == summary # Nothing => summary.of = selected

\* The browser never runs an interval that stopDeploymentPolling cannot reach.
NoStrayInterval == \A d \in Shown : intervals[d] = IF timer = d THEN 1 ELSE 0

\* docs/architecture.md:94: while its interval runs, the end of the selected
\* deployment comes on display, or a poll error does, whatever polls fail and
\* whichever deployments were polled before.
EndIsShown ==
    \A d \in Shown :
        (timer = d /\ selected = d /\ outcome[d] = "ended")
            ~> (timer # d \/ selected # d \/ pollError \/ summary = View(d, "ended"))

=============================================================================
