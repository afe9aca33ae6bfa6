------------------------- MODULE CommandRunner_proofs -------------------------
(***************************************************************************)
(* Proofs about CommandRunner, for all settings that are accepted and any  *)
(* number of calls between two commits.                                    *)
(*                                                                         *)
(* A call's time is its attempts times what one attempt and the pause      *)
(* after it may take; the claim's silence is counted the same way, with    *)
(* what has passed since the last heartbeat in place of the attempt.       *)
(***************************************************************************)
EXTENDS CommandRunner, TLAPS

InLoop == at \in {"look", "wait", "blocked"}

\* Where the worker is in a call of each kind.
Shape ==
    /\ kind = "probe" => attempts = 1
    /\ at = "blocked" => kind = "input"
    /\ at \in {"look", "wait"} => kind # "input"
    /\ at = "pause" => attempt < attempts /\ kind # "probe"
    /\ beat <= since
    /\ calls <= MaxCalls
    /\ at # "idle" => calls > 0

\* A call with input is remembered until a commit.
Flags ==
    /\ blind \in BOOLEAN /\ child \in BOOLEAN
    /\ at # "idle" /\ kind = "input" => blind

\* RunnerTypeOK, variable by variable.
Fields ==
    /\ at \in {"idle", "spawn", "look", "wait", "blocked", "pause"}
    /\ kind \in {"polled", "input", "probe"}
    /\ attempts = 1 \/ attempts = 1 + Retries
    /\ attempt \in Nat /\ attempt >= 1
    /\ attempt <= IF kind = "probe" THEN 3 ELSE attempts
    /\ since \in Nat /\ beat \in Nat /\ silence \in Nat /\ spent \in Nat
    /\ calls \in Nat /\ left \in Nat

BaseInv == Fields /\ Shape

\* The longest attempt with its pause; what the attempts before this one took.
Whole == Timeout + HealthTimeout + Pause
Earlier == IF kind = "probe" THEN 0 ELSE (attempt - 1) * Whole

AttemptIsShort ==
    /\ kind # "probe" => since <= Timeout /\ (at = "wait" => since < Timeout)
    /\ kind = "probe" => since <= HealthTimeout + ProbeTime /\ (at = "wait" => since < HealthTimeout)

TimeInv ==
    /\ at = "spawn" => spent <= Earlier
    /\ InLoop => spent <= Earlier + since /\ AttemptIsShort
    /\ at = "pause" => spent + left <= Earlier + Whole
    /\ at = "idle" => spent <= attempts * Whole

\* The silence an attempt may add; what calls and attempts before it added.
Lapse == Interval + Pause
Before == (calls - 1) * Share + (IF kind = "probe" THEN 0 ELSE (attempt - 1) * Lapse)

\* A heartbeat is sent before the loop sleeps, if one is due.
BeatIsShort ==
    /\ at = "wait" => beat < Interval \/ (beat = 0 /\ silence = 0)
    /\ at = "look" /\ kind = "probe" => beat <= Interval + ProbeTime
    /\ at = "look" /\ kind # "probe" => beat <= Interval \/ (beat = 1 /\ silence = 1)

SilenceInv ==
    /\ at = "spawn" => silence <= Before
    /\ at \in {"look", "wait"} => silence <= Before + beat /\ BeatIsShort
    /\ at = "pause" => silence + left <= Before + Lapse
    /\ at = "idle" => silence <= calls * Share

FreshInv == ~blind => SilenceInv

-----------------------------------------------------------------------------
(* Arithmetic *)

LEMMA Settings ==
    /\ Timeout \in Nat \ {0} /\ HealthTimeout \in Nat \ {0} /\ TTL \in Nat \ {0}
    /\ Interval \in Nat /\ Retries \in Nat /\ Second \in Nat \ {0}
    /\ ProbeTime \in Nat /\ MaxCalls \in Nat
  BY RunnerAssumption DEF AcceptedSettings

LEMMA PauseIsLong == Pause \in Nat /\ Pause >= 3 * Second /\ Pause >= ProbeTime /\ Pause >= 3
  BY Settings DEF Pause

LEMMA NextMultiple == \A n, u \in Nat : n >= 1 => (n - 1) * u \in Nat /\ (n - 1) * u + u = n * u
  OBVIOUS

LEMMA MultiplesGrow == \A m, n, u \in Nat : m <= n => m * u <= n * u
  OBVIOUS

LEMMA MultiplesNat == \A n, u \in Nat : n * u \in Nat
  OBVIOUS

LEMMA Types == Whole \in Nat /\ Lapse \in Nat /\ Share \in Nat /\ Share = (1 + Retries) * Lapse
  BY Settings, PauseIsLong DEF Whole, Lapse, Share

\* Whatever the attempt, it and its pause fit into what the call may take.
LEMMA EarlierFits ==
    ASSUME BaseInv
    PROVE  Earlier \in Nat /\ attempts * Whole \in Nat /\ Earlier + Whole <= attempts * Whole
<1>1. attempt \in Nat \ {0} /\ attempts \in Nat \ {0} /\ (kind # "probe" => attempt <= attempts)
  BY Settings DEF BaseInv, Fields
<1>2. attempts * Whole \in Nat /\ 1 * Whole <= attempts * Whole
  BY <1>1, Types, MultiplesGrow
<1>3. CASE kind = "probe"
  BY <1>2, <1>3, Types DEF Earlier
<1>4. CASE kind # "probe"
  BY <1>1, <1>2, <1>4, Types, NextMultiple, MultiplesGrow DEF Earlier
<1>5. QED
  BY <1>3, <1>4

LEMMA EarlierGrows ==
    ASSUME BaseInv, kind # "probe", attempt' = attempt + 1, UNCHANGED kind
    PROVE  Earlier' = Earlier + Whole
<1>1. attempt \in Nat /\ attempt >= 1
  BY Settings DEF BaseInv, Fields
<1>2. (attempt - 1) * Whole + Whole = attempt * Whole
  BY <1>1, NextMultiple, Types
<1>3. Earlier' = attempt * Whole
  BY <1>1 DEF Earlier, Whole, Pause
<1>4. QED
  BY <1>2, <1>3 DEF Earlier

\* The same for the silence, with the calls before this one.
LEMMA BeforeFits ==
    ASSUME BaseInv, at # "idle"
    PROVE  /\ Before \in Nat /\ calls * Share \in Nat
           /\ Before + Lapse <= calls * Share
           /\ kind # "probe" /\ attempt >= 2 => Before >= Lapse
<1> DEFINE part == IF kind = "probe" THEN 0 ELSE (attempt - 1) * Lapse
           earlierCalls == (calls - 1) * Share
<1>1. /\ attempt \in Nat /\ attempt >= 1
      /\ kind # "probe" => attempt <= 1 + Retries
      /\ calls \in Nat /\ calls >= 1
  BY Settings DEF BaseInv, Fields, Shape
<1>2. Share \in Nat /\ Lapse \in Nat /\ 1 * Lapse <= Share
  BY Types, Settings, MultiplesGrow
<1>3. part \in Nat /\ part + Lapse <= Share
  <2>1. CASE kind = "probe"
    BY <1>2, <2>1
  <2>2. CASE kind # "probe"
    BY <1>1, <2>2, Types, Settings, NextMultiple, MultiplesGrow
  <2>3. QED
    BY <2>1, <2>2
<1>4. kind # "probe" /\ attempt >= 2 => part >= Lapse
  <2>1. attempt >= 2 => 1 * Lapse <= (attempt - 1) * Lapse
    BY <1>1, <1>2, MultiplesGrow
  <2>2. QED
    BY <2>1, <1>2
<1>5. earlierCalls \in Nat /\ earlierCalls + Share = calls * Share
  BY <1>1, <1>2, NextMultiple
<1>6. Before = earlierCalls + part
  BY DEF Before
<1> HIDE DEF part, earlierCalls
<1>7. QED
  BY <1>2, <1>3, <1>4, <1>5, <1>6

LEMMA BeforeGrows ==
    ASSUME BaseInv, at # "idle", kind # "probe", attempt' = attempt + 1, UNCHANGED <<kind, calls>>
    PROVE  Before' = Before + Lapse
<1> DEFINE earlierCalls == (calls - 1) * Share
<1>1. attempt \in Nat /\ attempt >= 1 /\ calls \in Nat /\ calls >= 1
  BY Settings DEF BaseInv, Fields, Shape
<1>2. (attempt - 1) * Lapse \in Nat /\ (attempt - 1) * Lapse + Lapse = attempt * Lapse
  BY <1>1, NextMultiple, Types
<1>3. earlierCalls \in Nat
  BY <1>1, NextMultiple, Types
<1>4. Before = earlierCalls + (attempt - 1) * Lapse
  BY DEF Before
<1>5. Before' = earlierCalls + attempt * Lapse
  BY <1>1 DEF Before, Lapse, Share, Pause
<1> HIDE DEF earlierCalls
<1>6. QED
  BY <1>2, <1>3, <1>4, <1>5, Types

LEMMA SameAttempt ==
    /\ UNCHANGED <<kind, attempt>> => Earlier' = Earlier
    /\ UNCHANGED <<kind, attempt, calls>> => Before' = Before
  BY DEF Earlier, Before, Whole, Lapse, Share, Pause

\* The pause after an attempt is within Pause.
LEMMA PauseFits ==
    ASSUME BaseInv, AttemptFails
    PROVE  \/ at' = "idle" /\ UNCHANGED left
           \/ /\ at' = "pause" /\ attempt < attempts
              /\ left' \in Nat /\ left' <= Pause
              /\ attempt = 1 => left' + 1 <= Pause
<1>1. attempt \in Nat /\ attempt >= 1
  BY Settings DEF BaseInv, Fields
<1>2. CASE attempt < attempts
  <2>1. left' = Second * (IF attempt < 3 THEN attempt ELSE 3) /\ at' = "pause"
    BY <1>2 DEF AttemptFails, Leaves
  <2>2. CASE attempt = 1
    BY <1>2, <2>1, <2>2, Settings, PauseIsLong
  <2>3. CASE attempt = 2
    BY <1>2, <2>1, <2>3, Settings, PauseIsLong
  <2>4. CASE attempt >= 3
    <3>1. left' = Second * 3 /\ attempt # 1
      BY <1>1, <2>1, <2>4
    <3>2. QED
      BY <1>2, <2>1, <3>1, Settings, PauseIsLong
  <2>5. QED
    BY <1>1, <2>2, <2>3, <2>4
<1>3. CASE ~(attempt < attempts)
  BY <1>3 DEF AttemptFails, CallEnds, Leaves
<1>4. QED
  BY <1>2, <1>3

-----------------------------------------------------------------------------
(* Types and shape *)

LEMMA BaseKept ==
    ASSUME BaseInv, [RunnerNext]_runnerVars
    PROVE  BaseInv'
<1> USE Settings, PauseIsLong DEF BaseInv, Fields, Shape
<1>0. /\ attempt \in Nat \ {0} /\ attempts \in Nat \ {0}
      /\ since \in Nat /\ beat \in Nat /\ silence \in Nat /\ spent \in Nat
      /\ calls \in Nat /\ left \in Nat
  OBVIOUS
<1>1. CASE \E k \in Kinds, n \in {1, 1 + Retries} : CallBegins(k, n)
  BY <1>0, <1>1 DEF CallBegins, Kinds
<1>2. CASE StepCommits
  BY <1>0, <1>2 DEF StepCommits
<1>3. CASE Spawn
  BY <1>0, <1>3 DEF Spawn
<1>4. CASE SpawnFails \/ ChildExits \/ TimesOut
  <2>1. CASE AttemptFails
    <3>1. left' \in Nat /\ (at' = "idle" \/ (at' = "pause" /\ attempt < attempts))
      BY <1>0, <2>1, PauseFits
    <3>2. since' = 0 /\ beat' = 0
      BY <2>1 DEF AttemptFails, CallEnds, Leaves
    <3>3. UNCHANGED <<kind, attempt, attempts, silence, spent, calls, blind>>
      BY <1>4 DEF SpawnFails, ChildExits, TimesOut
    <3>4. at # "idle"
      BY <1>4 DEF SpawnFails, ChildExits, TimesOut
    <3>5. QED
      BY <1>0, <3>1, <3>2, <3>3, <3>4
  <2>2. CASE ChildExits /\ CallEnds /\ UNCHANGED left
    BY <1>0, <2>2 DEF ChildExits, CallEnds, Leaves
  <2>3. QED
    BY <1>4, <2>1, <2>2 DEF SpawnFails, ChildExits, TimesOut
<1>5. CASE PausePasses \/ NextAttempt
  BY <1>0, <1>5 DEF PausePasses, NextAttempt, Passes
<1>6. CASE HeartbeatSucceeds \/ HeartbeatRaises \/ NotDue
  BY <1>0, <1>6 DEF HeartbeatSucceeds, HeartbeatRaises, NotDue, AfterKill, CallEnds, Leaves
<1>7. CASE PollPasses \/ InputPasses
  BY <1>0, <1>7 DEF PollPasses, InputPasses, AttemptPasses, Passes
<1>8. CASE ProbeAnswers
  <2>1. PICK d \in 0 .. ProbeTime : Passes(d)
    BY <1>8 DEF ProbeAnswers
  <2>2. QED
    BY <1>0, <1>8, <2>1 DEF ProbeAnswers, Passes, CallEnds, Leaves
<1>9. CASE ProbeFails
  <2>1. PICK d \in 1 .. ProbeTime : AttemptPasses(d)
    BY <1>9 DEF ProbeFails
  <2>2. QED
    BY <1>0, <1>9, <2>1 DEF ProbeFails, AttemptPasses, Passes
<1>10. CASE ForwardExits \/ ProbingEnds
  BY <1>0, <1>10 DEF ForwardExits, ProbingEnds, CallEnds, Leaves
<1>11. CASE UNCHANGED runnerVars
  BY <1>11 DEF runnerVars
<1>12. QED
  BY <1>1, <1>2, <1>3, <1>4, <1>5, <1>6, <1>7, <1>8, <1>9, <1>10, <1>11 DEF RunnerNext

\* What a child is remembered for, and that it does not outlive its attempt.
LEMMA FlagsKept ==
    ASSUME Flags, NoChildOutlives, [RunnerNext]_runnerVars
    PROVE  Flags' /\ NoChildOutlives'
<1> USE DEF Flags, NoChildOutlives
<1>1. CASE \E k \in Kinds, n \in {1, 1 + Retries} : CallBegins(k, n)
  <2>1. PICK k \in Kinds : /\ at = "idle" /\ at' = "spawn" /\ kind' = k
                            /\ blind' = (blind \/ k = "input") /\ child' = child
    BY <1>1 DEF CallBegins
  <2>2. ~child
    BY <2>1
  <2>3. CASE k = "input"
    BY <2>1, <2>2, <2>3
  <2>4. CASE k # "input"
    BY <2>1, <2>2, <2>4
  <2>5. QED
    BY <2>3, <2>4
<1>2. CASE StepCommits
  <2>1. at = "idle" /\ at' = at /\ child' = child /\ blind' = FALSE
    BY <1>2 DEF StepCommits
  <2>2. child' \in BOOLEAN /\ blind' \in BOOLEAN
    BY <2>1
  <2>3. ~child' /\ at' = "idle"
    BY <2>1
  <2>4. QED
    BY <2>2, <2>3
<1>3. CASE SpawnFails \/ ChildExits \/ TimesOut
  <2>1. UNCHANGED <<kind, blind>> /\ at # "idle"
    BY <1>3 DEF SpawnFails, ChildExits, TimesOut
  <2>2. CASE SpawnFails
    BY <2>1, <2>2 DEF SpawnFails
  <2>3. CASE ChildExits \/ TimesOut
    BY <2>1, <2>3 DEF ChildExits, TimesOut
  <2>4. QED
    BY <1>3, <2>2, <2>3
<1>4. CASE PausePasses \/ NextAttempt
  BY <1>4 DEF PausePasses, NextAttempt
<1>5. CASE HeartbeatSucceeds \/ HeartbeatRaises \/ NotDue
  BY <1>5 DEF HeartbeatSucceeds, HeartbeatRaises, NotDue, AfterKill
<1>6. CASE PollPasses \/ InputPasses
  BY <1>6 DEF PollPasses, InputPasses
<1>7. CASE ProbeAnswers \/ ProbeFails \/ ForwardExits \/ ProbingEnds
  BY <1>7 DEF ProbeAnswers, ProbeFails, ForwardExits, ProbingEnds
<1>8. CASE UNCHANGED runnerVars
  BY <1>8 DEF runnerVars
<1>9. CASE Spawn
  <2>1. /\ at = "spawn" /\ (at' = "look" \/ at' = "blocked")
        /\ child' = TRUE \/ child' = FALSE
        /\ UNCHANGED <<kind, blind>>
    BY <1>9 DEF Spawn
  <2>2. QED
    BY <2>1
<1>10. QED
  BY <1>1, <1>2, <1>3, <1>4, <1>5, <1>6, <1>7, <1>8, <1>9 DEF RunnerNext

-----------------------------------------------------------------------------
(* Time *)

\* Wherever an attempt is, the call is within its bound, with a pause to spare.
LEMMA TimeSpent ==
    ASSUME BaseInv, TimeInv, at # "idle", at # "pause"
    PROVE  /\ spent <= attempts * Whole
           /\ kind # "probe" => spent + Pause <= Earlier + Whole
<1>1. Earlier \in Nat /\ Earlier + Whole <= attempts * Whole /\ attempts * Whole \in Nat
  BY EarlierFits
<1>2. spent \in Nat /\ since \in Nat /\ (at = "spawn" \/ InLoop)
  BY DEF BaseInv, Fields, InLoop
<1>3. Whole = Timeout + HealthTimeout + Pause
  BY DEF Whole
<1>4. spent <= Earlier + Whole /\ (kind # "probe" => spent + Pause <= Earlier + Whole)
  BY <1>1, <1>2, <1>3, Settings, PauseIsLong DEF TimeInv, AttemptIsShort
<1>5. QED
  BY <1>1, <1>2, <1>4, Types

LEMMA TimeKept ==
    ASSUME BaseInv, TimeInv, [RunnerNext]_runnerVars
    PROVE  TimeInv'
<1> DEFINE limit == attempts * Whole
<1>0. /\ Earlier \in Nat /\ limit \in Nat /\ Earlier + Whole <= limit
      /\ attempt \in Nat /\ since \in Nat /\ spent \in Nat /\ left \in Nat
      /\ Whole \in Nat /\ Whole = Timeout + HealthTimeout + Pause
  BY EarlierFits, Types DEF BaseInv, Fields, Whole
<1>a. UNCHANGED attempts => limit' = limit
  BY DEF Whole, Pause
<1>b. Whole' = Whole
  BY DEF Whole, Pause
<1>c. TimeInv' <=>
        /\ at' = "spawn" => spent' <= Earlier'
        /\ InLoop' => spent' <= Earlier' + since' /\ AttemptIsShort'
        /\ at' = "pause" => spent' + left' <= Earlier' + Whole
        /\ at' = "idle" => spent' <= limit'
  BY <1>b DEF TimeInv
<1>d. at # "idle" /\ at # "pause"
        => spent <= limit /\ (kind # "probe" => spent + Pause <= Earlier + Whole)
  BY TimeSpent
<1> HIDE DEF limit
<1> USE Settings, PauseIsLong DEF InLoop, AttemptIsShort
<1>1. CASE \E k \in Kinds, n \in {1, 1 + Retries} : CallBegins(k, n)
  <2>1. spent' = 0 /\ at' = "spawn" /\ attempt' = 1
    BY <1>1 DEF CallBegins
  <2>2. Earlier' = 0
    BY <2>1, <1>0, <1>b DEF Earlier
  <2>3. QED
    BY <2>1, <2>2, <1>c
<1>2. CASE StepCommits
  <2>1. at' = "idle" /\ at = "idle" /\ UNCHANGED <<spent, attempts>>
    BY <1>2 DEF StepCommits
  <2>2. spent <= limit
    BY <2>1 DEF TimeInv, limit
  <2>3. QED
    BY <2>1, <2>2, <1>a, <1>c
<1>3. CASE Spawn
  BY <1>0, <1>3, <1>c, SameAttempt DEF Spawn, TimeInv
<1>4. CASE SpawnFails \/ ChildExits \/ TimesOut
  <2>1. /\ at # "idle" /\ at # "pause"
        /\ UNCHANGED <<kind, attempt, attempts, spent>>
        /\ AttemptFails \/ (CallEnds /\ UNCHANGED left)
        /\ (AttemptFails /\ attempt < attempts => kind # "probe")
    BY <1>4 DEF SpawnFails, ChildExits, TimesOut, BaseInv, Shape, Fields
  <2>2. \/ at' = "idle"
        \/ at' = "pause" /\ kind # "probe" /\ left' \in Nat /\ left' <= Pause
    BY <2>1, PauseFits DEF CallEnds, Leaves
  <2>3. QED
    BY <1>0, <1>a, <1>c, <1>d, <2>1, <2>2, SameAttempt
<1>5. CASE PausePasses
  BY <1>0, <1>5, <1>c, SameAttempt DEF PausePasses, Passes, TimeInv
<1>6. CASE NextAttempt
  <2>1. Earlier' = Earlier + Whole
    BY <1>6, EarlierGrows DEF NextAttempt, BaseInv, Shape
  <2>2. QED
    BY <1>0, <1>6, <1>c, <2>1 DEF NextAttempt, TimeInv
<1>7. CASE HeartbeatSucceeds \/ NotDue
  BY <1>0, <1>7, <1>c, SameAttempt
  DEF HeartbeatSucceeds, NotDue, TimeInv, Late, Deadline
<1>8. CASE HeartbeatRaises \/ ProbingEnds
  <2>1. at # "idle" /\ at # "pause" /\ at' = "idle" /\ UNCHANGED <<spent, attempts>>
    BY <1>8 DEF HeartbeatRaises, ProbingEnds, CallEnds, Leaves
  <2>2. QED
    BY <1>a, <1>c, <1>d, <2>1
<1>9. CASE PollPasses
  BY <1>0, <1>9, <1>c, SameAttempt DEF PollPasses, AttemptPasses, Passes, TimeInv
<1>10. CASE InputPasses
  BY <1>0, <1>10, <1>c, SameAttempt
  DEF InputPasses, AttemptPasses, Passes, TimeInv, Late, Deadline, BaseInv, Shape
<1>11. CASE ProbeAnswers
  <2>1. PICK d \in 0 .. ProbeTime : Passes(d)
    BY <1>11 DEF ProbeAnswers
  <2>2. spent' <= Earlier + HealthTimeout + ProbeTime
    BY <1>0, <1>11, <2>1 DEF ProbeAnswers, Passes, TimeInv
  <2>3. QED
    BY <1>0, <1>11, <1>a, <1>c, <2>1, <2>2 DEF ProbeAnswers, Passes, CallEnds, Leaves
<1>12. CASE ProbeFails
  <2>1. PICK d \in 1 .. ProbeTime : AttemptPasses(d)
    BY <1>12 DEF ProbeFails
  <2>2. QED
    BY <1>0, <1>12, <1>c, <2>1, SameAttempt DEF ProbeFails, AttemptPasses, Passes, TimeInv
<1>13. CASE ForwardExits
  <2>1. spent <= Earlier /\ Earlier = 0 /\ Earlier' = 0 /\ UNCHANGED <<spent, attempts>>
    BY <1>0, <1>13 DEF ForwardExits, TimeInv, Earlier
  <2>2. at' = "idle" \/ at' = "spawn"
    BY <1>13 DEF ForwardExits, CallEnds, Leaves
  <2>3. QED
    BY <1>0, <1>a, <1>c, <2>1, <2>2
<1>14. CASE UNCHANGED runnerVars
  BY <1>14, <1>a, <1>c, SameAttempt DEF runnerVars, TimeInv, limit
<1>15. QED
  BY <1>1, <1>2, <1>3, <1>4, <1>5, <1>6, <1>7, <1>8, <1>9, <1>10, <1>11, <1>12, <1>13, <1>14
  DEF RunnerNext

-----------------------------------------------------------------------------
(* Silence *)

\* Wherever an attempt of a call with heartbeats is, the silence is within what
\* its calls may add, with a pause to spare.
LEMMA SilenceSpent ==
    ASSUME BaseInv, SilenceInv, at \in {"spawn", "look"}, kind # "input"
    PROVE  /\ silence <= calls * Share
           /\ kind # "probe" =>
                 \/ silence + Pause <= Before + Lapse
                 \/ attempt = 1 /\ silence <= 1
<1>1. /\ Before \in Nat /\ calls * Share \in Nat
      /\ Before + Lapse <= calls * Share
      /\ kind # "probe" /\ attempt >= 2 => Before >= Lapse
  BY BeforeFits
<1>2. silence \in Nat /\ beat \in Nat /\ attempt \in Nat /\ attempt >= 1
  BY DEF BaseInv, Fields
<1>3. Lapse = Interval + Pause
  BY DEF Lapse
<1>4. CASE kind = "probe"
  BY <1>1, <1>2, <1>3, <1>4, Settings, PauseIsLong DEF SilenceInv, BeatIsShort
<1>5. CASE kind # "probe"
  <2>1. silence <= Before + Interval \/ silence <= 1
    BY <1>1, <1>2, <1>5, Settings DEF SilenceInv, BeatIsShort
  <2>2. CASE silence <= Before + Interval
    BY <1>1, <1>2, <1>3, <2>2, Settings, PauseIsLong
  <2>3. CASE silence <= 1
    BY <1>1, <1>2, <1>3, <1>5, <2>3, Settings, PauseIsLong
  <2>4. QED
    BY <2>1, <2>2, <2>3
<1>6. QED
  BY <1>4, <1>5

LEMMA SilenceKept ==
    ASSUME BaseInv, SilenceInv, RunnerNext, kind' # "input", at # "idle" => kind # "input",
           ~StepCommits
    PROVE  SilenceInv'
<1> DEFINE limit == calls * Share
<1>0. /\ attempt \in Nat /\ beat \in Nat /\ silence \in Nat /\ left \in Nat /\ calls \in Nat
      /\ Lapse \in Nat /\ Lapse = Interval + Pause /\ limit \in Nat
  BY Types, NextMultiple DEF BaseInv, Fields, Lapse
<1>a. UNCHANGED calls => limit' = limit
  BY DEF Share, Pause
<1>b. Lapse' = Lapse
  BY DEF Lapse, Pause
<1>c. SilenceInv' <=>
        /\ at' = "spawn" => silence' <= Before'
        /\ at' \in {"look", "wait"} => silence' <= Before' + beat' /\ BeatIsShort'
        /\ at' = "pause" => silence' + left' <= Before' + Lapse
        /\ at' = "idle" => silence' <= limit'
  BY <1>b DEF SilenceInv
<1>d. at # "idle" => Before \in Nat /\ Before + Lapse <= limit
  BY BeforeFits
<1>e. at \in {"spawn", "look"}
        => /\ silence <= limit
           /\ kind # "probe" => \/ silence + Pause <= Before + Lapse
                                \/ attempt = 1 /\ silence <= 1
  BY SilenceSpent
<1> HIDE DEF limit
<1> USE Settings, PauseIsLong DEF BeatIsShort
<1>1. CASE \E k \in Kinds, n \in {1, 1 + Retries} : CallBegins(k, n)
  <2>1. /\ at = "idle" /\ at' = "spawn" /\ attempt' = 1
        /\ silence' = silence /\ calls' = calls + 1
    BY <1>1 DEF CallBegins
  <2>2. Before' = limit
    <3>1. (attempt' - 1) * Lapse = 0 /\ calls' - 1 = calls
      BY <1>0, <2>1
    <3>2. Before' = (calls' - 1) * Share + (IF kind' = "probe" THEN 0 ELSE (attempt' - 1) * Lapse)
      BY DEF Before, Share, Lapse, Pause
    <3>3. QED
      BY <3>1, <3>2, <1>0 DEF limit
  <2>3. silence <= limit
    BY <2>1 DEF SilenceInv, limit
  <2>4. QED
    BY <2>1, <2>2, <2>3, <1>c
<1>2. CASE Spawn
  <2>1. /\ at = "spawn" /\ at' = "look" /\ beat' = 0
        /\ UNCHANGED <<kind, attempt, silence, calls>>
    BY <1>2 DEF Spawn
  <2>2. QED
    BY <1>0, <1>c, <1>d, <2>1, SameAttempt DEF SilenceInv
<1>3. CASE SpawnFails \/ ChildExits \/ TimesOut
  <2>1. /\ at \in {"spawn", "look"}
        /\ UNCHANGED <<kind, attempt, silence, calls>>
        /\ AttemptFails \/ (CallEnds /\ UNCHANGED left)
    BY <1>3 DEF SpawnFails, ChildExits, TimesOut, BaseInv, Shape
  <2>2. \/ at' = "idle"
        \/ /\ at' = "pause" /\ kind # "probe" /\ left' \in Nat /\ left' <= Pause
           /\ attempt = 1 => left' + 1 <= Pause
    BY <2>1, PauseFits DEF CallEnds, Leaves, BaseInv, Shape, Fields
  <2>3. CASE at' = "idle"
    BY <1>a, <1>c, <1>e, <2>1, <2>3
  <2>4. CASE at' = "pause"
    BY <1>0, <1>c, <1>d, <1>e, <2>1, <2>2, <2>4, SameAttempt
  <2>5. QED
    BY <2>2, <2>3, <2>4
<1>4. CASE PausePasses
  BY <1>0, <1>4, <1>c, <1>d, SameAttempt DEF PausePasses, Passes, SilenceInv
<1>5. CASE NextAttempt
  <2>1. Before' = Before + Lapse
    BY <1>5, BeforeGrows DEF NextAttempt, BaseInv, Shape
  <2>2. QED
    BY <1>0, <1>5, <1>c, <1>d, <2>1 DEF NextAttempt, SilenceInv
<1>6. CASE HeartbeatSucceeds
  BY <1>0, <1>6, <1>c, <1>d, SameAttempt DEF HeartbeatSucceeds
<1>7. CASE NotDue
  BY <1>0, <1>7, <1>c, <1>d, SameAttempt DEF NotDue, Due, SilenceInv
<1>8. CASE HeartbeatRaises \/ ProbingEnds
  <2>1. at = "look" /\ at' = "idle" /\ UNCHANGED <<silence, calls>>
    BY <1>8 DEF HeartbeatRaises, ProbingEnds, CallEnds, Leaves
  <2>2. QED
    BY <1>a, <1>c, <1>e, <2>1
<1>9. CASE PollPasses
  BY <1>0, <1>9, <1>c, <1>d, SameAttempt DEF PollPasses, AttemptPasses, Passes, SilenceInv
<1>10. CASE InputPasses
  BY <1>10 DEF InputPasses, BaseInv, Shape
<1>11. CASE ProbeAnswers
  <2>1. PICK d \in 0 .. ProbeTime : Passes(d)
    BY <1>11 DEF ProbeAnswers
  <2>2. at = "wait" /\ at' = "idle" /\ calls' = calls /\ silence' = silence + d
    BY <1>11, <2>1 DEF ProbeAnswers, Passes, CallEnds, Leaves
  <2>3. silence <= Before + Interval
    BY <1>0, <1>d, <2>2 DEF SilenceInv
  <2>4. QED
    BY <1>0, <1>a, <1>c, <1>d, <2>2, <2>3
<1>12. CASE ProbeFails
  <2>1. PICK d \in 1 .. ProbeTime : AttemptPasses(d)
    BY <1>12 DEF ProbeFails
  <2>2. QED
    BY <1>0, <1>12, <1>c, <1>d, <2>1, SameAttempt DEF ProbeFails, AttemptPasses, Passes, SilenceInv
<1>13. CASE ForwardExits
  <2>1. at = "look" /\ kind = "probe" /\ since = 0 /\ UNCHANGED <<kind, silence, calls>>
    BY <1>13 DEF ForwardExits
  <2>2. silence <= Before
    BY <1>0, <1>d, <2>1 DEF SilenceInv, BaseInv, Fields, Shape
  <2>3. Before' = Before
    BY <2>1 DEF Before, Share, Lapse, Pause
  <2>4. at' = "idle" \/ at' = "spawn"
    BY <1>13 DEF ForwardExits, CallEnds, Leaves
  <2>5. QED
    BY <1>0, <1>a, <1>c, <1>d, <1>e, <2>1, <2>2, <2>3, <2>4
<1>14. QED
  BY <1>1, <1>2, <1>3, <1>4, <1>5, <1>6, <1>7, <1>8, <1>9, <1>10, <1>11, <1>12, <1>13
  DEF RunnerNext

\* A call with input ends what is known of the silence, until a commit.
LEMMA FreshKept ==
    ASSUME BaseInv, Flags, FreshInv, [RunnerNext]_runnerVars
    PROVE  FreshInv'
<1>1. CASE StepCommits
  <2>1. at' = "idle" /\ silence' = 0 /\ calls' = 0
    BY <1>1 DEF StepCommits
  <2>2. calls' * Share' = 0
    <3>1. Share' = Share
      BY DEF Share, Pause
    <3>2. QED
      BY <2>1, <3>1, Types
  <2>3. QED
    BY <2>1, <2>2 DEF FreshInv, SilenceInv
<1>2. CASE UNCHANGED runnerVars
  <2>1. UNCHANGED <<at, kind, attempt, silence, beat, left, calls, blind>>
    BY <1>2 DEF runnerVars
  <2>2. Before' = Before /\ Lapse' = Lapse /\ calls' * Share' = calls * Share
    BY <2>1, SameAttempt DEF Lapse, Share, Pause
  <2>3. SilenceInv => SilenceInv'
    BY <2>1, <2>2 DEF SilenceInv, BeatIsShort
  <2>4. QED
    BY <2>1, <2>3 DEF FreshInv
<1>3. CASE RunnerNext /\ ~StepCommits
  <2>1. ~blind' => ~blind /\ kind' # "input" /\ (at # "idle" => kind # "input")
    <3>1. CASE \E k \in Kinds, n \in {1, 1 + Retries} : CallBegins(k, n)
      BY <3>1 DEF CallBegins
    <3>2. CASE ~\E k \in Kinds, n \in {1, 1 + Retries} : CallBegins(k, n)
      <4>1. UNCHANGED <<kind, blind>> /\ at # "idle"
        BY <1>3, <3>2
        DEF RunnerNext, Spawn, SpawnFails, ChildExits, TimesOut, PausePasses, NextAttempt,
            HeartbeatSucceeds, HeartbeatRaises, NotDue, PollPasses, InputPasses, ProbeAnswers,
            ProbeFails, ForwardExits, ProbingEnds
      <4>2. QED
        BY <4>1 DEF Flags
    <3>3. QED
      BY <3>1, <3>2
  <2>2. QED
    BY <1>3, <2>1, SilenceKept DEF FreshInv
<1>4. QED
  BY <1>1, <1>2, <1>3

-----------------------------------------------------------------------------
(* Theorems *)

RunnerInv == BaseInv /\ Flags /\ NoChildOutlives /\ TimeInv /\ FreshInv

LEMMA RunnerInvAlways == RunnerSpec => []RunnerInv
<1>1. RunnerInit => RunnerInv
  <2> SUFFICES ASSUME RunnerInit PROVE RunnerInv
    OBVIOUS
  <2>1. BaseInv
    BY Settings DEF RunnerInit, BaseInv, Fields, Shape
  <2>2. Flags /\ NoChildOutlives
    BY DEF RunnerInit, Flags, NoChildOutlives
  <2>3. 0 <= 1 * Whole /\ 0 <= 0 * Share
    BY Types
  <2>4. TimeInv /\ FreshInv
    BY <2>3 DEF RunnerInit, TimeInv, InLoop, FreshInv, SilenceInv
  <2>5. QED
    BY <2>1, <2>2, <2>4 DEF RunnerInv
<1>2. RunnerInv /\ [RunnerNext]_runnerVars => RunnerInv'
  BY BaseKept, FlagsKept, TimeKept, FreshKept DEF RunnerInv
<1>3. QED
  BY <1>1, <1>2, PTL DEF RunnerSpec

\* Every reachable state of a call (command_runner.py) has the shape that
\* RunnerTypeOK describes.
THEOREM TypeCorrect == RunnerSpec => []RunnerTypeOK
<1>1. RunnerInv => RunnerTypeOK
  <2> SUFFICES ASSUME RunnerInv PROVE RunnerTypeOK
    OBVIOUS
  <2>1. attempt \in 1 .. (IF kind = "probe" THEN 3 ELSE attempts)
    BY Settings DEF RunnerInv, BaseInv, Fields
  <2>2. blind \in BOOLEAN /\ child \in BOOLEAN
    BY DEF RunnerInv, Flags
  <2>3. QED
    BY <2>1, <2>2 DEF RunnerInv, BaseInv, Fields, RunnerTypeOK, Kinds
<1>2. QED
  BY <1>1, RunnerInvAlways, PTL

\* Whatever a call comes to, also when a heartbeat raises, its child is killed
\* with its attempt.
THEOREM NoChildOutlivesAlways == RunnerSpec => []NoChildOutlives
<1>1. RunnerInv => NoChildOutlives
  BY DEF RunnerInv
<1>2. QED
  BY <1>1, RunnerInvAlways, PTL

\* No call takes longer than its attempts with their pauses may, for any
\* timeouts, retry count and probe time.
THEOREM CallIsBoundedAlways == RunnerSpec => []CallIsBounded
<1>1. RunnerInv => CallIsBounded
  <2> SUFFICES ASSUME RunnerInv PROVE spent <= attempts * Whole
    BY DEF CallIsBounded, Whole
  <2>1. Earlier \in Nat /\ Earlier + Whole <= attempts * Whole /\ attempts * Whole \in Nat
    BY EarlierFits DEF RunnerInv
  <2>2. CASE at = "idle"
    BY <2>2 DEF RunnerInv, TimeInv
  <2>3. CASE at = "pause"
    BY <2>1, <2>3, Types DEF RunnerInv, TimeInv, BaseInv, Fields
  <2>4. CASE at # "idle" /\ at # "pause"
    BY <2>4, TimeSpent DEF RunnerInv
  <2>5. QED
    BY <2>2, <2>3, <2>4
<1>2. QED
  BY <1>1, RunnerInvAlways, PTL

\* For every accepted setting, a claim is silent for no longer than Share for
\* each call since the last commit (_run_command, _execute_command and
\* _wait_for_healthcheck), if none of them is given input.
THEOREM SilenceIsBoundedAlways == RunnerSpec => []SilenceIsBounded
<1>1. RunnerInv => SilenceIsBounded
  <2> SUFFICES ASSUME RunnerInv, ~blind PROVE silence <= calls * Share
    BY DEF SilenceIsBounded
  <2>0. SilenceInv /\ silence \in Nat /\ beat \in Nat /\ left \in Nat /\ calls \in Nat
    BY DEF RunnerInv, FreshInv, BaseInv, Fields, Shape
  <2>1. calls * Share \in Nat
    BY <2>0, Types, MultiplesNat
  <2>2. at # "idle" => Before \in Nat /\ Before + Lapse <= calls * Share
    BY BeforeFits DEF RunnerInv
  <2>3. CASE at = "idle"
    BY <2>3, <2>0 DEF SilenceInv
  <2>4. CASE at = "pause"
    BY <2>0, <2>1, <2>2, <2>4, Types DEF SilenceInv
  <2>5. CASE at \in {"spawn", "look"}
    BY <2>0, <2>1, <2>5, SilenceSpent DEF RunnerInv, Flags, BaseInv, Fields
  <2>6. CASE at = "wait"
    BY <2>0, <2>1, <2>2, <2>6, Settings, PauseIsLong DEF SilenceInv, BeatIsShort, Lapse
  <2>7. at # "blocked"
    BY DEF RunnerInv, BaseInv, Shape, Flags
  <2>8. QED
    BY <2>3, <2>4, <2>5, <2>6, <2>7 DEF RunnerInv, BaseInv, Fields
<1>2. QED
  BY <1>1, RunnerInvAlways, PTL

\* What keeps a claim from growing stale while its worker works: as long as the
\* calls since the last commit fit into the TTL by that bound, and none of them
\* is given input, the claim is not older than the TTL.  validate_numeric_config
\* does not ask for it: it compares the TTL with Interval alone.
THEOREM FreshWhileCallsFit ==
    RunnerSpec => [](~blind /\ calls * Share <= TTL => silence <= TTL)
<1>1. RunnerInv /\ SilenceIsBounded => (~blind /\ calls * Share <= TTL => silence <= TTL)
  <2> SUFFICES ASSUME RunnerInv, silence <= calls * Share, calls * Share <= TTL
               PROVE  silence <= TTL
    BY DEF SilenceIsBounded
  <2>1. silence \in Nat /\ calls * Share \in Nat /\ TTL \in Nat
    BY Types, Settings, MultiplesNat DEF RunnerInv, BaseInv, Fields
  <2>2. QED
    BY <2>1
<1>2. QED
  BY <1>1, RunnerInvAlways, SilenceIsBoundedAlways, PTL
=============================================================================
