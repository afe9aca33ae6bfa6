---------------------------- MODULE Dashboard_proofs ----------------------------
(***************************************************************************)
(* Proofs about Dashboard, for any number of deployments and of selections *)
(* under way.                                                              *)
(*                                                                         *)
(* The browser's intervals follow from the timer alone, and a call under   *)
(* way is always about a deployment: together with the types that makes an *)
(* inductive invariant.                                                    *)
(***************************************************************************)
EXTENDS Dashboard, TLAPS

\* What the timer determines, with the number of intervals that makes.
Scheduled(t) == [d \in Shown |-> IF t = d THEN 1 ELSE 0]
TimerInv == timer \in Shown \cup {Nothing} /\ intervals = Scheduled(timer)

\* A call under way asks for a deployment.
AsksForOne(call) == call.at # "idle" => call.of \in Shown
CallsInv == AsksForOne(poll) /\ \A l \in Loads : AsksForOne(loads[l])

ViewsInv ==
    /\ outcome \in [Shown -> Phases]
    /\ selected \in Shown \cup {Nothing}
    /\ summary \in Views \cup {Nothing} /\ artifacts \in Views \cup {Nothing}
    /\ summary # Nothing => summary.of = selected
    /\ inFlight \in BOOLEAN /\ pollError \in BOOLEAN

LoadsInv == loads \in [Loads -> Calls] /\ poll \in Calls

IInv == ViewsInv /\ TimerInv /\ LoadsInv /\ CallsInv

-----------------------------------------------------------------------------
(* The timer *)

\* Without a timer there is no interval.
LEMMA NoneScheduled == Scheduled(Nothing) = [d \in Shown |-> 0]
  BY DashboardAssumption DEF Scheduled

\* Cancelling leaves no interval.
LEMMA CancelledIsEmpty ==
    ASSUME TimerInv PROVE Cancelled = Scheduled(Nothing)
<1>1. CASE timer = Nothing
  BY <1>1 DEF TimerInv, Cancelled
<1>2. CASE timer # Nothing
  <2>1. Cancelled = [Scheduled(timer) EXCEPT ![timer] = @ - 1]
    BY <1>2 DEF TimerInv, Cancelled
  <2>2. \A t \in Shown : [Scheduled(t) EXCEPT ![t] = @ - 1] = [d \in Shown |-> 0]
    <3>1. TAKE t \in Shown
    <3>2. DOMAIN Scheduled(t) = Shown /\ Scheduled(t)[t] - 1 = 0
      BY DEF Scheduled
    <3>3. [Scheduled(t) EXCEPT ![t] = @ - 1]
            = [d \in Shown |-> IF d = t THEN 0 ELSE Scheduled(t)[d]]
      BY <3>2 DEF Scheduled
    <3>4. \A d \in Shown : d # t => Scheduled(t)[d] = 0
      BY DEF Scheduled
    <3>5. QED
      BY <3>3, <3>4
  <2>3. QED
    BY <1>2, <2>1, <2>2, NoneScheduled DEF TimerInv
<1>3. QED
  BY <1>1, <1>2

\* stopDeploymentPolling and startDeploymentPolling keep timer and intervals
\* together.
LEMMA StopKeepsTimer ==
    ASSUME TimerInv, StopPolling PROVE TimerInv'
  BY CancelledIsEmpty DEF StopPolling, TimerInv

LEMMA StartKeepsTimer ==
    ASSUME TimerInv, NEW d \in Shown, StartPolling(d) PROVE TimerInv'
<1>1. CASE StopPolling
  BY <1>1, StopKeepsTimer
<1>2. CASE Restart(d)
  <2>1. intervals' = [Scheduled(Nothing) EXCEPT ![d] = @ + 1]
    BY <1>2, CancelledIsEmpty DEF Restart
  <2>2. intervals' = Scheduled(d)
    <3>1. [[e \in Shown |-> 0] EXCEPT ![d] = @ + 1] = Scheduled(d)
      BY DEF Scheduled
    <3>2. QED
      BY <2>1, <3>1, NoneScheduled
  <2>3. QED
    BY <1>2, <2>2 DEF Restart, TimerInv
<1>3. QED
  BY <1>1, <1>2 DEF StartPolling

-----------------------------------------------------------------------------
(* Calls *)

\* Beginning and ending a call keeps what is said of calls.
LEMMA IdleCall == Idle \in Calls /\ AsksForOne(Idle)
  BY DEF Idle, Calls, AsksForOne

LEMMA WaitingCall ==
    ASSUME NEW d \in Shown, NEW place \in {"refresh", "artifacts"}
    PROVE  Waits(place, d) \in Calls /\ AsksForOne(Waits(place, d))
  BY DEF Waits, Calls, AsksForOne

LEMMA ServedCall ==
    ASSUME ViewsInv, NEW call \in Calls, AsksForOne(call), call.at # "idle"
    PROVE  /\ [call EXCEPT !.answer = outcome[call.of]] \in Calls
           /\ AsksForOne([call EXCEPT !.answer = outcome[call.of]])
  BY DEF ViewsInv, Calls, AsksForOne

\* An answer that has arrived is about a deployment, and shows a phase of it.
LEMMA ArrivedCall ==
    ASSUME NEW call \in Calls, AsksForOne(call), NEW place \in {"refresh", "artifacts"},
           Arrived(call, place)
    PROVE  /\ call.of \in Shown /\ call.answer \in Phases
           /\ View(call.of, call.answer) \in Views
  BY DEF Arrived, Calls, AsksForOne, View, Views

LEMMA LoadsUpdated ==
    ASSUME LoadsInv, CallsInv, NEW l \in Loads, NEW call \in Calls, AsksForOne(call),
           loads' = [loads EXCEPT ![l] = call], UNCHANGED poll
    PROVE  LoadsInv' /\ CallsInv'
  BY DEF LoadsInv, CallsInv, AsksForOne

LEMMA PollUpdated ==
    ASSUME LoadsInv, CallsInv, poll' \in Calls, AsksForOne(poll'), UNCHANGED loads
    PROVE  LoadsInv' /\ CallsInv'
  BY DEF LoadsInv, CallsInv, AsksForOne

\* What a refresh puts on display is what is selected.
LEMMA RefreshKeepsViews ==
    ASSUME ViewsInv, NEW d \in Shown, NEW a \in Phases, Refreshed(d, a),
           UNCHANGED <<outcome, selected, artifacts>>, inFlight' \in BOOLEAN
    PROVE  ViewsInv'
<1>1. View(d, a) \in Views /\ View(d, a).of = d
  BY DEF View, Views
<1>2. summary' \in Views /\ summary'.of = selected'
  BY <1>1 DEF Refreshed, StillSelected
<1>3. QED
  BY <1>2 DEF ViewsInv, Refreshed

-----------------------------------------------------------------------------
(* The invariant *)

\* An empty console satisfies the invariant.
LEMMA InitInv == DashboardInit => IInv
<1> SUFFICES ASSUME DashboardInit PROVE IInv
  OBVIOUS
<1>1. ViewsInv
  BY DEF DashboardInit, ViewsInv, Phases
<1>2. TimerInv
  BY NoneScheduled DEF DashboardInit, TimerInv
<1>3. LoadsInv /\ CallsInv
  BY IdleCall DEF DashboardInit, LoadsInv, CallsInv
<1>4. QED
  BY <1>1, <1>2, <1>3 DEF IInv

\* What the operator does keeps it.
LEMMA OperatorKeepsInv ==
    ASSUME IInv, Deselect \/ \E l \in Loads, d \in Shown : Select(l, d)
    PROVE  IInv'
<1>1. CASE Deselect
  BY <1>1, StopKeepsTimer DEF Deselect, ClearSelection, IInv, ViewsInv, LoadsInv, CallsInv
<1>2. CASE \E l \in Loads, d \in Shown : Select(l, d)
  <2>1. PICK l \in Loads, d \in Shown : Select(l, d)
    BY <1>2
  <2>2. ViewsInv' /\ TimerInv'
    BY <2>1, StopKeepsTimer DEF Select, ClearSelection, IInv, ViewsInv
  <2>3. LoadsInv' /\ CallsInv'
    BY <2>1, WaitingCall, LoadsUpdated DEF Select, IInv
  <2>4. QED
    BY <2>2, <2>3 DEF IInv
<1>3. QED
  BY <1>1, <1>2

\* Answers to a selection keep it.
LEMMA LoadKeepsInv ==
    ASSUME IInv, NEW l \in Loads,
           LoadServed(l) \/ LoadRefreshed(l) \/ LoadEnds(l) \/ LoadFails(l)
    PROVE  IInv'
<1> DEFINE call == loads[l]
<1>0. call \in Calls /\ AsksForOne(call)
  BY DEF IInv, LoadsInv, CallsInv
<1>1. CASE LoadServed(l)
  <2>1. ViewsInv' /\ TimerInv'
    BY <1>1 DEF LoadServed, IInv, ViewsInv, TimerInv
  <2>2. loads' = [loads EXCEPT ![l] = [call EXCEPT !.answer = outcome[call.of]]]
    BY <1>0, <1>1 DEF LoadServed
  <2>3. LoadsInv' /\ CallsInv'
    <3>1. call.at # "idle" /\ UNCHANGED poll
      BY <1>1 DEF LoadServed, ServedFrom
    <3>2. QED
      BY <1>0, <2>2, <3>1, ServedCall, LoadsUpdated DEF IInv
  <2>4. QED
    BY <2>1, <2>3 DEF IInv
<1>2. CASE LoadRefreshed(l)
  <2>1. call.of \in Shown /\ call.answer \in Phases
    BY <1>0, <1>2, ArrivedCall DEF LoadRefreshed
  <2>2. ViewsInv' /\ TimerInv'
    <3>1. PICK d \in Shown, a \in Phases : d = call.of /\ a = call.answer
      BY <2>1
    <3>2. TimerInv' /\ UNCHANGED <<outcome, selected, artifacts, inFlight>>
      BY <1>2 DEF LoadRefreshed, IInv, TimerInv
    <3>3. CASE Refreshed(d, a)
      BY <3>2, <3>3, RefreshKeepsViews DEF IInv, ViewsInv
    <3>4. CASE UNCHANGED <<summary, pollError>>
      BY <3>2, <3>4 DEF IInv, ViewsInv
    <3>5. QED
      BY <1>2, <3>1, <3>3, <3>4, <3>2 DEF LoadRefreshed
  <2>3. LoadsInv' /\ CallsInv'
    BY <1>2, <2>1, IdleCall, WaitingCall, LoadsUpdated DEF LoadRefreshed, IInv
  <2>4. QED
    BY <2>2, <2>3 DEF IInv
<1>3. CASE LoadEnds(l)
  <2>1. call.of \in Shown /\ View(call.of, call.answer) \in Views
    BY <1>0, <1>3, ArrivedCall DEF LoadEnds
  <2>2. TimerInv'
    BY <1>3, <2>1, StartKeepsTimer DEF LoadEnds, IInv
  <2>3. ViewsInv'
    BY <1>3, <2>1 DEF LoadEnds, IInv, ViewsInv
  <2>4. LoadsInv' /\ CallsInv'
    BY <1>3, IdleCall, LoadsUpdated DEF LoadEnds, IInv
  <2>5. QED
    BY <2>2, <2>3, <2>4 DEF IInv
<1>4. CASE LoadFails(l)
  <2>1. ViewsInv' /\ TimerInv'
    BY <1>4 DEF LoadFails, IInv, ViewsInv, TimerInv
  <2>2. LoadsInv' /\ CallsInv'
    BY <1>4, IdleCall, LoadsUpdated DEF LoadFails, IInv
  <2>3. QED
    BY <2>1, <2>2 DEF IInv
<1>5. QED
  BY <1>1, <1>2, <1>3, <1>4

\* Polls keep it.
LEMMA PollKeepsInv ==
    ASSUME IInv, PollAnswered \/ \E d \in Shown : Tick(d)
    PROVE  IInv'
<1>0. poll \in Calls /\ AsksForOne(poll)
  BY DEF IInv, LoadsInv, CallsInv
<1>1. CASE \E d \in Shown : Tick(d)
  <2>1. PICK d \in Shown : Tick(d)
    BY <1>1
  <2>2. ViewsInv' /\ TimerInv'
    BY <2>1 DEF Tick, IInv, ViewsInv, TimerInv
  <2>3. LoadsInv' /\ CallsInv'
    BY <2>1, WaitingCall, PollUpdated DEF Tick, IInv
  <2>4. QED
    BY <2>2, <2>3 DEF IInv
<1>2. CASE PollServed
  <2>1. ViewsInv' /\ TimerInv'
    BY <1>2 DEF PollServed, IInv, ViewsInv, TimerInv
  <2>2. LoadsInv' /\ CallsInv'
    BY <1>0, <1>2, ServedCall, PollUpdated DEF PollServed, ServedFrom, IInv
  <2>3. QED
    BY <2>1, <2>2 DEF IInv
<1>3. CASE PollRefreshed
  <2>1. poll.of \in Shown /\ poll.answer \in Phases
    BY <1>0, <1>3, ArrivedCall DEF PollRefreshed
  <2>2. ViewsInv'
    <3>1. PICK d \in Shown, a \in Phases : d = poll.of /\ a = poll.answer
      BY <2>1
    <3>2. UNCHANGED <<outcome, selected, artifacts>> /\ inFlight' \in BOOLEAN
      BY <1>3 DEF PollRefreshed, PollOver, IInv, ViewsInv
    <3>3. CASE Refreshed(d, a)
      BY <3>2, <3>3, RefreshKeepsViews DEF IInv
    <3>4. CASE UNCHANGED <<summary, pollError>>
      BY <3>2, <3>4 DEF IInv, ViewsInv
    <3>5. QED
      BY <1>3, <3>1, <3>3, <3>4 DEF PollRefreshed
  <2>3. TimerInv'
    <3>1. StopPolling \/ UNCHANGED <<timer, intervals>>
      BY <1>3 DEF PollRefreshed
    <3>2. QED
      BY <3>1, StopKeepsTimer DEF IInv, TimerInv
  <2>4. LoadsInv' /\ CallsInv'
    BY <1>3, <2>1, IdleCall, WaitingCall, PollUpdated DEF PollRefreshed, PollOver, IInv
  <2>5. QED
    BY <2>2, <2>3, <2>4 DEF IInv
<1>4. CASE PollEnds
  <2>1. View(poll.of, poll.answer) \in Views
    BY <1>0, <1>4, ArrivedCall DEF PollEnds
  <2>2. ViewsInv' /\ TimerInv'
    BY <1>4, <2>1 DEF PollEnds, PollOver, IInv, ViewsInv, TimerInv
  <2>3. LoadsInv' /\ CallsInv'
    BY <1>4, IdleCall, PollUpdated DEF PollEnds, PollOver, IInv
  <2>4. QED
    BY <2>2, <2>3 DEF IInv
<1>5. CASE PollFails
  <2>1. ViewsInv' /\ TimerInv'
    BY <1>5 DEF PollFails, PollCaught, PollOver, IInv, ViewsInv, TimerInv
  <2>2. LoadsInv' /\ CallsInv'
    BY <1>5, IdleCall, PollUpdated DEF PollFails, PollCaught, PollOver, IInv
  <2>3. QED
    BY <2>1, <2>2 DEF IInv
<1>6. QED
  BY <1>1, <1>2, <1>3, <1>4, <1>5 DEF PollAnswered

\* Workers keep it.
LEMMA EndKeepsInv ==
    ASSUME IInv, NEW d \in Shown, Ends(d)
    PROVE  IInv'
  BY DEF Ends, Phases, IInv, ViewsInv, TimerInv, LoadsInv, CallsInv

LEMMA StutterKeepsInv == IInv /\ UNCHANGED dashboardVars => IInv'
  BY DEF dashboardVars, IInv, ViewsInv, TimerInv, LoadsInv, CallsInv

LEMMA StepKeepsInv == IInv /\ [DashboardNext]_dashboardVars => IInv'
  BY OperatorKeepsInv, LoadKeepsInv, PollKeepsInv, EndKeepsInv, StutterKeepsInv
  DEF DashboardNext

LEMMA IInvAlways == DashboardSpec => []IInv
  BY InitInv, StepKeepsInv, PTL DEF DashboardSpec

-----------------------------------------------------------------------------
(* Theorems *)

\* Every reachable state of the console (useDeployments.js) has the shape that
\* DashboardTypeOK describes.
THEOREM TypeCorrect == DashboardSpec => []DashboardTypeOK
<1>1. IInv => DashboardTypeOK
  BY DEF IInv, ViewsInv, TimerInv, LoadsInv, Scheduled, DashboardTypeOK
<1>2. QED
  BY <1>1, IInvAlways, PTL

\* However many selections are under way and however late their answers come,
\* refreshSelectedDeployment only puts on display what is selected.
THEOREM ShowsSelectedAlways == DashboardSpec => []ShowsSelected
<1>1. IInv => ShowsSelected
  BY DEF IInv, ViewsInv, ShowsSelected
<1>2. QED
  BY <1>1, IInvAlways, PTL

\* startDeploymentPolling and stopDeploymentPolling leave no interval behind
\* that pollingTimer does not name, in any order of their calls.
THEOREM NoStrayIntervalAlways == DashboardSpec => []NoStrayInterval
<1>1. IInv => NoStrayInterval
  BY DEF IInv, TimerInv, Scheduled, NoStrayInterval
<1>2. QED
  BY <1>1, IInvAlways, PTL
=============================================================================
