----------------------------- MODULE Intake_proofs -----------------------------
(***************************************************************************)
(* Proofs about Intake, for any number of handlers, projects, branches and *)
(* deliveries and any bounds.                                              *)
(*                                                                         *)
(* One inductive invariant carries all of them.  Its parts say what the    *)
(* open transactions may rely on: that a posted command owns its key, that *)
(* what was over stays over, that a commit was reached by its branch, that *)
(* the source of a retry is still there, and that a delivery is handled by *)
(* one transaction before it is on record.                                 *)
(***************************************************************************)
EXTENDS Intake, TLAPS

-------------------------------------------------------------------------------
(* The inductive invariant *)

Open(h) == pc[h] \in {"reserve", "held"}
Deploying(h) == pc[h] = "resolve" \/ pc[h] = "insert"
Unposted(h) == pc[h] \in {"post", "reread"}
Posted(h) == pc[h] \in {"posted", "answer"}

\* Commands have ids of their own, those being posted included, and the
\* posted one has its key to itself.
CommandIds ==
    /\ OneActiveCommand
    /\ \A c \in commands : c.id < nextCommand
    /\ \A c, k \in commands : c.id = k.id => c = k
    /\ \A h \in Handlers : pc[h] = "posted" =>
        /\ job[h].command < nextCommand
        /\ \A c \in commands :
            /\ c.id # job[h].command
            /\ ~(c.active /\ c.row = job[h].row /\ c.type = job[h].type)
        /\ \A k \in Handlers \ {h} : pc[k] = "posted" =>
            /\ job[k].command # job[h].command
            /\ ~(job[k].row = job[h].row /\ job[k].type = job[h].type)

\* What was over when a request arrived is over still, and is not what it answers.
OverStaysOver ==
    \A h \in Handlers : Unposted(h) \/ Posted(h) =>
        /\ \A i \in job[h].over : i < nextCommand
        /\ \A c \in commands : c.id \in job[h].over => ~c.active
        /\ \A k \in Handlers : pc[k] = "posted" => job[k].command \notin job[h].over
        /\ pc[h] = "answer" => job[h].command \notin job[h].over

\* A commit is of this branch, and the branch has been there.
Reached(commit, branch) == commit.branch = branch /\ commit.at <= head[branch]

CommitsReached ==
    /\ \A g \in Deliveries : pushed[g] # None => pushed[g].at <= head[pushed[g].branch]
    /\ \A r \in rows : Reached(r.commit, r.spec.branch)
    /\ \A h \in Handlers :
        /\ Open(h) => job[h].commit.at <= head[job[h].commit.branch]
        /\ Open(h) => \A r \in job[h].mine : Reached(r.commit, r.spec.branch)
        /\ Deploying(h) => job[h].spec.branch = job[h].branch
        /\ pc[h] = "insert" => Reached(job[h].commit, job[h].branch)

\* What a deployment of project p retries is there, with the same settings and commit.
Source(from, p, spec, commit) == \E s \in rows :
    s.id = from /\ s.project = p /\ s.spec = spec /\ s.commit = commit

RetrySources ==
    /\ \A r \in rows : r.from # 0 => Source(r.from, r.project, r.spec, r.commit)
    /\ \A h \in Handlers :
        /\ Open(h) => \A r \in job[h].mine : r.from = 0
        /\ pc[h] = "resolve" => job[h].from = 0
        /\ pc[h] = "insert" /\ job[h].from # 0 =>
            \/ project[job[h].project] = None
            \/ Source(job[h].from, job[h].project, job[h].spec, job[h].commit)

\* A delivery is being handled by one transaction, which is the first to answer
\* it, and has made at most one deployment for each project so far.
OneAtATime ==
    /\ \A r \in rows : r.delivery # None => inbox[r.delivery] # None
    /\ \A h \in Handlers : pc[h] = "held" =>
        /\ inbox[job[h].delivery] = None
        /\ \A k \in Handlers \ {h} : pc[k] = "held" => job[k].delivery # job[h].delivery
    /\ \A h \in Handlers : Open(h) =>
        /\ \A r, s \in job[h].mine : r.project = s.project => r = s
        /\ \A r \in job[h].mine : r.delivery = job[h].delivery

IInv ==
    /\ TypeOK
    /\ CommandIds
    /\ OverStaysOver
    /\ CommitsReached
    /\ RetrySources
    /\ OneAtATime

-------------------------------------------------------------------------------
(* The steps *)

\* Every handler step that only ends the request.
Quit(h) ==
    /\ pc[h] # "idle"
    /\ Done(h)
    /\ UNCHANGED <<outside, tables, nextRow, nextCommand>>

OutsideStep ==
    \/ \E g \in Deliveries, b \in Branches : Push(g, b)
    \/ \E p \in Projects, b \in Branches : EditProject(p, b)
    \/ \E p \in Projects : DeleteProject(p)
    \/ \E c \in commands : EndCommand(c)

HandlerStep(h) ==
    \/ \E g \in Deliveries : PushArrives(h, g)
    \/ \E p \in Projects, b \in Branches : DeployArrives(h, p, b)
    \/ \E r \in rows : RetryArrives(h, r)
    \/ \E r \in rows, t \in CommandTypes : CommandArrives(h, r, t)
    \/ Reserve(h) \/ Ignore(h) \/ Create(h) \/ Accept(h)
    \/ Resolve(h) \/ InsertRow(h)
    \/ Post(h) \/ PostConflicts(h) \/ CommitCommand(h) \/ Reread(h)
    \/ Quit(h)

\* A redeploy is a deploy of the branch the latest deployment had.
LEMMA StepCases ==
    ASSUME TypeOK, Next
    PROVE  OutsideStep \/ \E h \in Handlers : HandlerStep(h)
PROOF
<1>1. CASE Outside
    BY <1>1 DEF Outside, OutsideStep
<1>2. ASSUME NEW h \in Handlers, Handle(h) PROVE HandlerStep(h)
    BY <1>2 DEF Handle, HandlerStep, Quit, Duplicate, PushFails, ResolveFails, DeployFails,
        PostFails, NothingToReread, Answer
<1>3. ASSUME NEW h \in Handlers, Arrives(h) PROVE HandlerStep(h)
    <2>1. ASSUME NEW r \in rows, RedeployArrives(h, r)
          PROVE  \E p \in Projects, b \in Branches : DeployArrives(h, p, b)
        <3>1. r.project \in Projects /\ r.spec.branch \in Branches
            BY DEF TypeOK, Deployments, Settings
        <3>. QED
            BY <2>1, <3>1 DEF RedeployArrives
    <2>. QED
        BY <1>3, <2>1 DEF Arrives, HandlerStep
<1>4. ASSUME NEW h \in Handlers, RequestFails(h) PROVE HandlerStep(h)
    BY <1>4 DEF RequestFails, HandlerStep, Quit
<1>. QED
    BY <1>1, <1>2, <1>3, <1>4 DEF Next

-------------------------------------------------------------------------------
(* Types *)

\* The types of the tables.
TablesOK ==
    /\ project \in [Projects -> Settings \cup {None}]
    /\ head \in [Branches -> Nat]
    /\ pushed \in [Deliveries -> Commits \cup {None}]
    /\ rows \subseteq Deployments
    /\ nextRow \in 1..MaxRows + 1
    /\ inbox \in [Deliveries -> Answers \cup {None}]
    /\ commands \subseteq Commands
    /\ nextCommand \in 1..MaxCommands + 1

\* The job of handler h is the one its pc works on.
JobOK(h) ==
    \/ pc[h] = "idle" /\ job[h] = IdleJob
    \/ Open(h) /\ job[h] \in PushJobs
    \/ pc[h] = "resolve" /\ job[h] \in DeployJobs({None})
    \/ pc[h] = "insert" /\ job[h] \in DeployJobs(Commits)
    \/ Unposted(h) /\ job[h] \in CommandJobs({0})
    \/ Posted(h) /\ job[h] \in CommandJobs(1..MaxCommands)

JobsOK ==
    /\ DOMAIN pc = Handlers /\ DOMAIN job = Handlers
    /\ \A h \in Handlers : JobOK(h)

LEMMA TypeParts ==
    /\ TypeOK <=> TablesOK /\ JobsOK
    /\ TypeOK' <=> TablesOK' /\ JobsOK'
PROOF
    BY DEF TypeOK, TablesOK, JobsOK, JobOK, Open, Deploying, Unposted, Posted

\* A step that changes one handler's job keeps the others' types.
LEMMA OneJobTyped ==
    ASSUME JobsOK, NEW h \in Handlers,
           DOMAIN pc' = Handlers, DOMAIN job' = Handlers,
           \A k \in Handlers \ {h} : pc'[k] = pc[k] /\ job'[k] = job[k],
           JobOK(h)'
    PROVE  JobsOK'
PROOF
    BY DEF JobsOK, JobOK, Open, Deploying, Unposted, Posted

\* Snapshot is typed.
LEMMA SnapshotTyped ==
    ASSUME NEW settings \in Settings, NEW b \in Branches
    PROVE  Snapshot(settings, b) \in Settings /\ Snapshot(settings, b).branch = b
PROOF
    BY DEF Snapshot, Settings

\* What Create does for the project it picks.
CreatesFor(h, match) ==
    /\ match[1] \notin Made(job[h])
    /\ CanInsert(match[1])
    /\ Becomes(h, "held", [job[h] EXCEPT !.mine = @ \cup {PushedRow(job[h], match)}])
    /\ nextRow' = nextRow + 1
    /\ UNCHANGED <<outside, tables, nextCommand>>

LEMMA CreateCases ==
    ASSUME NEW h \in Handlers, Create(h)
    PROVE  \E match \in job[h].matches : CreatesFor(h, match)
PROOF
    BY DEF Create, CreatesFor, CommitsEach, tables

LEMMA TypeOutside ==
    ASSUME TypeOK, OutsideStep
    PROVE  TypeOK'
PROOF
<1>. USE TypeParts, BoundsAssumption
<1>1. ASSUME NEW g \in Deliveries, NEW b \in Branches, Push(g, b) PROVE TypeOK'
    <2>1. TablesOK'
        BY <1>1 DEF Push, TablesOK, tables, Commits
    <2>2. JobsOK'
        BY <1>1 DEF Push, JobsOK, JobOK, Open, Deploying, Unposted, Posted
    <2>. QED
        BY <2>1, <2>2
<1>2. ASSUME NEW p \in Projects, NEW b \in Branches, EditProject(p, b) PROVE TypeOK'
    <2>1. project[p].version + 1 \in 0..MaxEdits
        BY <1>2 DEF EditProject, TablesOK, Settings
    <2>2. project' \in [Projects -> Settings \cup {None}]
        BY <1>2, <2>1 DEF EditProject, TablesOK, Settings
    <2>3. JobsOK'
        BY <1>2 DEF EditProject, JobsOK, JobOK, Open, Deploying, Unposted, Posted
    <2>. QED
        BY <1>2, <2>2, <2>3 DEF EditProject, TablesOK, tables
<1>3. ASSUME NEW p \in Projects, DeleteProject(p) PROVE TypeOK'
    <2>1. TablesOK'
        BY <1>3 DEF DeleteProject, TablesOK
    <2>2. JobsOK'
        BY <1>3 DEF DeleteProject, JobsOK, JobOK, Open, Deploying, Unposted, Posted
    <2>. QED
        BY <2>1, <2>2
<1>4. ASSUME NEW c \in commands, EndCommand(c) PROVE TypeOK'
    <2>1. [c EXCEPT !.active = FALSE] \in Commands
        BY DEF TablesOK, Commands
    <2>2. TablesOK'
        BY <1>4, <2>1 DEF EndCommand, TablesOK, outside
    <2>3. JobsOK'
        BY <1>4 DEF EndCommand, JobsOK, JobOK, Open, Deploying, Unposted, Posted
    <2>. QED
        BY <2>2, <2>3
<1>. QED
    BY <1>1, <1>2, <1>3, <1>4 DEF OutsideStep

LEMMA TypeHandler ==
    ASSUME TypeOK, NEW h \in Handlers, HandlerStep(h)
    PROVE  TypeOK'
PROOF
<1>. USE TypeParts, BoundsAssumption
<1>0. TablesOK /\ JobsOK /\ DOMAIN pc = Handlers /\ DOMAIN job = Handlers /\ JobOK(h)
    BY DEF JobsOK
<1>1. ASSUME NEW g \in Deliveries, PushArrives(h, g) PROVE TypeOK'
    <2>0. pushed[g] \in Commits
        BY <1>0, <1>1 DEF PushArrives, TablesOK
    <2>1. Matches(pushed[g]) \in SUBSET (Projects \X Settings)
        BY <1>0 DEF Matches, TablesOK
    <2>2. JobOK(h)'
        BY <1>0, <1>1, <2>0, <2>1 DEF PushArrives, Becomes, JobOK, Open, PushJobs
    <2>3. JobsOK'
        BY <1>0, <1>1, <2>2, OneJobTyped DEF PushArrives, Becomes
    <2>. QED
        BY <1>0, <1>1, <2>3 DEF PushArrives, TablesOK, outside, tables
<1>2. ASSUME NEW p \in Projects, NEW b \in Branches, DeployArrives(h, p, b) PROVE TypeOK'
    <2>1. Snapshot(project[p], b) \in Settings
        BY <1>0, <1>2, SnapshotTyped DEF DeployArrives, TablesOK
    <2>2. JobOK(h)'
        BY <1>0, <1>2, <2>1 DEF DeployArrives, Becomes, JobOK, DeployJobs
    <2>3. JobsOK'
        BY <1>0, <1>2, <2>2, OneJobTyped DEF DeployArrives, Becomes
    <2>. QED
        BY <1>0, <1>2, <2>3 DEF DeployArrives, TablesOK, outside, tables
<1>3. ASSUME NEW r \in rows, RetryArrives(h, r) PROVE TypeOK'
    <2>1. r \in Deployments
        BY <1>0 DEF TablesOK
    <2>2. JobOK(h)'
        BY <1>0, <1>3, <2>1 DEF RetryArrives, Becomes, JobOK, DeployJobs,
            Deployments, Settings
    <2>3. JobsOK'
        BY <1>0, <1>3, <2>2, OneJobTyped DEF RetryArrives, Becomes
    <2>. QED
        BY <1>0, <1>3, <2>3 DEF RetryArrives, TablesOK, outside, tables
<1>4. ASSUME NEW r \in rows, NEW t \in CommandTypes, CommandArrives(h, r, t) PROVE TypeOK'
    <2>1. /\ r.id \in 1..MaxRows
          /\ {k.id : k \in {k \in commands : ~k.active}} \in SUBSET (1..MaxCommands)
          /\ \A c \in Reusable(r.id, t) : c.id \in 1..MaxCommands
        BY <1>0 DEF TablesOK, Deployments, Commands, Reusable, ActiveCommands
    <2>2. JobOK(h)'
        <3>1. CASE Reusable(r.id, t) = {}
            BY <1>0, <1>4, <2>1, <3>1 DEF CommandArrives, Becomes, JobOK, Unposted, Posted, CommandJobs
        <3>2. CASE Reusable(r.id, t) # {}
            BY <1>0, <1>4, <2>1, <3>2 DEF CommandArrives, Becomes, JobOK, Unposted, Posted, CommandJobs
        <3>. QED
            BY <3>1, <3>2
    <2>3. JobsOK'
        BY <1>0, <1>4, <2>2, OneJobTyped DEF CommandArrives, Becomes
    <2>. QED
        BY <1>0, <1>4, <2>3 DEF CommandArrives, TablesOK, outside, tables
<1>5. CASE Reserve(h)
    <2>1. JobOK(h)'
        BY <1>0, <1>5 DEF Reserve, Becomes, JobOK, Open, Deploying, Unposted, Posted
    <2>2. JobsOK'
        BY <1>0, <1>5, <2>1, OneJobTyped DEF Reserve, Becomes
    <2>. QED
        BY <1>0, <1>5, <2>2 DEF Reserve, TablesOK, outside, tables
<1>6. CASE Ignore(h)
    <2>1. JobsOK'
        BY <1>0, <1>6, OneJobTyped DEF Ignore, Done, Becomes, JobOK
    <2>2. [status |-> "ignored", row |-> 0] \in Answers
        BY BoundsAssumption DEF Answers
    <2>3. inbox' \in [Deliveries -> Answers \cup {None}]
        BY <1>0, <1>6, <2>2 DEF Ignore, TablesOK
    <2>. QED
        BY <1>0, <1>6, <2>1, <2>3 DEF Ignore, TablesOK, outside
<1>7. CASE Create(h)
    <2>0. job[h] \in PushJobs
        BY <1>0, <1>7 DEF Create, JobOK, Open, Deploying, Unposted, Posted
    <2>1. PICK match \in job[h].matches : CreatesFor(h, match)
        BY <1>7, CreateCases
    <2>2. PushedRow(job[h], match) \in Deployments
        <3>1. match[1] \in Projects /\ match[2] \in Settings
            BY <2>0 DEF PushJobs
        <3>2. Snapshot(match[2], job[h].commit.branch) \in Settings
            BY <2>0, <3>1, SnapshotTyped DEF PushJobs, Commits
        <3>3. nextRow \in 1..MaxRows
            BY <1>0, <2>1 DEF CreatesFor, CanInsert, TablesOK
        <3>4. 0 \in 0..MaxRows
            OBVIOUS
        <3>. QED
            BY <2>0, <3>1, <3>2, <3>3, <3>4 DEF PushedRow, Deployment, Deployments, PushJobs
    <2>3. [job[h] EXCEPT !.mine = @ \cup {PushedRow(job[h], match)}] \in PushJobs
        BY <2>0, <2>2 DEF PushJobs
    <2>4. JobOK(h)'
        BY <1>0, <2>1, <2>3 DEF CreatesFor, Becomes, JobOK, Open
    <2>5. JobsOK'
        BY <1>0, <2>1, <2>4, OneJobTyped DEF CreatesFor, Becomes
    <2>6. nextRow' \in 1..MaxRows + 1
        BY <1>0, <2>1, BoundsAssumption DEF CreatesFor, CanInsert, TablesOK
    <2>. QED
        BY <1>0, <2>1, <2>5, <2>6 DEF CreatesFor, TablesOK, outside, tables
<1>8. CASE Accept(h)
    <2>0. job[h] \in PushJobs
        BY <1>0, <1>8 DEF Accept, JobOK, Open, Deploying, Unposted, Posted
    <2>1. JobsOK'
        BY <1>0, <1>8, OneJobTyped DEF Accept, Done, Becomes, JobOK
    <2>2. \A r \in job[h].mine :
            [status |-> "accepted", row |-> IF Cardinality(job[h].mine) = 1 THEN r.id ELSE 0]
                \in Answers
        BY <2>0, BoundsAssumption DEF PushJobs, Deployments, Answers
    <2>3. inbox' \in [Deliveries -> Answers \cup {None}]
        BY <1>0, <1>8, <2>2 DEF Accept, TablesOK
    <2>4. rows' \subseteq Deployments
        BY <1>0, <1>8, <2>0 DEF Accept, TablesOK, PushJobs
    <2>. QED
        BY <1>0, <1>8, <2>1, <2>3, <2>4 DEF Accept, TablesOK, outside
<1>9. CASE Resolve(h)
    <2>0. job[h] \in DeployJobs({None})
        BY <1>0, <1>9 DEF Resolve, JobOK, Open, Deploying, Unposted, Posted
    <2>1. [branch |-> job[h].branch, at |-> head[job[h].branch]] \in Commits
        BY <1>0, <2>0 DEF DeployJobs, Commits, TablesOK
    <2>2. JobOK(h)'
        BY <1>0, <1>9, <2>0, <2>1 DEF Resolve, Becomes, JobOK, DeployJobs
    <2>3. JobsOK'
        BY <1>0, <1>9, <2>2, OneJobTyped DEF Resolve, Becomes
    <2>. QED
        BY <1>0, <1>9, <2>3 DEF Resolve, TablesOK, outside, tables
<1>10. CASE InsertRow(h)
    <2>0. job[h] \in DeployJobs(Commits)
        BY <1>0, <1>10 DEF InsertRow, JobOK, Open, Deploying, Unposted, Posted
    <2>1. JobsOK'
        BY <1>0, <1>10, OneJobTyped DEF InsertRow, Done, Becomes, JobOK
    <2>2. nextRow \in 1..MaxRows /\ nextRow' \in 1..MaxRows + 1
        BY <1>0, <1>10, BoundsAssumption DEF InsertRow, CanInsert, TablesOK
    <2>3. rows' \subseteq Deployments
        BY <1>0, <1>10, <2>0, <2>2 DEF InsertRow, TablesOK, Deployment, Deployments, DeployJobs
    <2>. QED
        BY <1>0, <1>10, <2>1, <2>2, <2>3 DEF InsertRow, TablesOK, outside
<1>11. CASE Post(h)
    <2>0. job[h] \in CommandJobs({0})
        BY <1>0, <1>11 DEF Post, JobOK, Open, Unposted, Posted
    <2>1. nextCommand \in 1..MaxCommands /\ nextCommand' \in 1..MaxCommands + 1
        BY <1>0, <1>11 DEF Post, TablesOK
    <2>2. [job[h] EXCEPT !.command = nextCommand] \in CommandJobs(1..MaxCommands)
        BY <2>0, <2>1 DEF CommandJobs
    <2>3. JobOK(h)'
        BY <1>0, <1>11, <2>2 DEF Post, Becomes, JobOK, Unposted, Posted
    <2>4. JobsOK'
        BY <1>0, <1>11, <2>3, OneJobTyped DEF Post, Becomes
    <2>. QED
        BY <1>0, <1>11, <2>1, <2>4 DEF Post, TablesOK, outside, tables
<1>12. CASE PostConflicts(h)
    <2>1. JobOK(h)'
        BY <1>0, <1>12 DEF PostConflicts, Becomes, JobOK, Open, Unposted, Posted
    <2>2. JobsOK'
        BY <1>0, <1>12, <2>1, OneJobTyped DEF PostConflicts, Becomes
    <2>. QED
        BY <1>0, <1>12, <2>2 DEF PostConflicts, TablesOK, outside, tables
<1>13. CASE CommitCommand(h)
    <2>0. job[h] \in CommandJobs(1..MaxCommands)
        BY <1>0, <1>13 DEF CommitCommand, JobOK, Open, Unposted, Posted
    <2>1. [id |-> job[h].command, row |-> job[h].row, type |-> job[h].type, active |-> TRUE]
            \in Commands
        BY <2>0 DEF CommandJobs, Commands
    <2>2. JobOK(h)'
        BY <1>0, <1>13, <2>0 DEF CommitCommand, Becomes, JobOK, Unposted, Posted
    <2>3. JobsOK'
        BY <1>0, <1>13, <2>2, OneJobTyped DEF CommitCommand, Becomes
    <2>. QED
        BY <1>0, <1>13, <2>1, <2>3 DEF CommitCommand, TablesOK, outside
<1>14. CASE Reread(h)
    <2>0. job[h] \in CommandJobs({0})
        BY <1>0, <1>14 DEF Reread, JobOK, Open, Unposted, Posted
    <2>1. PICK c \in commands : Becomes(h, "answer", [job[h] EXCEPT !.command = c.id])
        BY <1>14 DEF Reread, ActiveCommands
    <2>2. [job[h] EXCEPT !.command = c.id] \in CommandJobs(1..MaxCommands)
        BY <1>0, <2>0 DEF CommandJobs, TablesOK, Commands
    <2>3. JobOK(h)'
        BY <1>0, <2>1, <2>2 DEF Becomes, JobOK, Unposted, Posted
    <2>4. JobsOK'
        BY <1>0, <2>1, <2>3, OneJobTyped DEF Becomes
    <2>. QED
        BY <1>0, <1>14, <2>4 DEF Reread, TablesOK, outside, tables
<1>15. CASE Quit(h)
    <2>1. JobsOK'
        BY <1>0, <1>15, OneJobTyped DEF Quit, Done, Becomes, JobOK
    <2>. QED
        BY <1>0, <1>15, <2>1 DEF Quit, TablesOK, outside, tables
<1>. QED
    BY <1>1, <1>2, <1>3, <1>4, <1>5, <1>6, <1>7, <1>8, <1>9, <1>10, <1>11, <1>12, <1>13,
        <1>14, <1>15 DEF HandlerStep

\* The next state is typed.
LEMMA TypeNext ==
    ASSUME TypeOK, [Next]_vars
    PROVE  TypeOK'
PROOF
<1>1. CASE UNCHANGED vars
    BY <1>1, TypeParts DEF vars, outside, tables, TablesOK, JobsOK, JobOK, Open, Deploying,
        Unposted, Posted
<1>2. CASE Next
    BY <1>2, StepCases, TypeOutside, TypeHandler
<1>. QED
    BY <1>1, <1>2

LEMMA TypeInit == Init => TypeOK
PROOF
    BY BoundsAssumption DEF Init, TypeOK, Settings

\* Every reachable state is well typed (Intake!TypeOK), whatever the bounds.
THEOREM TypeCorrect == Spec => []TypeOK
PROOF
    BY TypeInit, TypeNext, PTL DEF Spec

-------------------------------------------------------------------------------
(* Commands *)

\* A handler's step is about its own job.
LEMMA OthersStay ==
    ASSUME TypeOK, NEW h \in Handlers, HandlerStep(h)
    PROVE  /\ DOMAIN pc = Handlers /\ DOMAIN job = Handlers
           /\ \A k \in Handlers \ {h} : pc'[k] = pc[k] /\ job'[k] = job[k]
PROOF
<1>1. DOMAIN pc = Handlers /\ DOMAIN job = Handlers
    BY DEF TypeOK
<1>2. CASE Quit(h) \/ Reserve(h) \/ Ignore(h) \/ Create(h) \/ Accept(h)
    BY <1>1, <1>2, CreateCases DEF Quit, Reserve, Ignore, CreatesFor, Accept, Done, Becomes
<1>3. CASE Resolve(h) \/ InsertRow(h) \/ Post(h) \/ PostConflicts(h) \/ CommitCommand(h)
    BY <1>1, <1>3 DEF Resolve, InsertRow, Post, PostConflicts, CommitCommand, Done, Becomes
<1>4. CASE Reread(h)
    BY <1>1, <1>4 DEF Reread, Becomes
<1>5. ASSUME NEW r \in rows, NEW t \in CommandTypes, CommandArrives(h, r, t)
      PROVE  \A k \in Handlers \ {h} : pc'[k] = pc[k] /\ job'[k] = job[k]
    BY <1>1, <1>5 DEF CommandArrives, Becomes
<1>6. CASE \/ \E g \in Deliveries : PushArrives(h, g)
           \/ \E p \in Projects, b \in Branches : DeployArrives(h, p, b)
           \/ \E r \in rows : RetryArrives(h, r)
    BY <1>1, <1>6 DEF PushArrives, DeployArrives, RetryArrives, Becomes
<1>. QED
    BY <1>1, <1>2, <1>3, <1>4, <1>5, <1>6 DEF HandlerStep

\* The other steps of a handler neither touch the commands nor post one.
NoCommand(h) ==
    /\ UNCHANGED <<commands, nextCommand>>
    /\ pc'[h] \notin {"post", "posted", "reread", "answer"}

LEMMA CommandCases ==
    ASSUME TypeOK, NEW h \in Handlers, HandlerStep(h)
    PROVE  \/ \E r \in rows, t \in CommandTypes : CommandArrives(h, r, t)
           \/ Post(h) \/ PostConflicts(h) \/ CommitCommand(h) \/ Reread(h)
           \/ NoCommand(h)
PROOF
<1>1. DOMAIN pc = Handlers
    BY DEF TypeOK
<1>2. CASE Quit(h) \/ Reserve(h) \/ Ignore(h) \/ Create(h) \/ Accept(h)
    BY <1>1, <1>2, CreateCases DEF Quit, Reserve, Ignore, CreatesFor, Accept, Done, Becomes,
        NoCommand, tables
<1>3. CASE Resolve(h) \/ InsertRow(h)
    BY <1>1, <1>3 DEF Resolve, InsertRow, Done, Becomes, NoCommand, tables
<1>4. CASE \/ \E g \in Deliveries : PushArrives(h, g)
           \/ \E p \in Projects, b \in Branches : DeployArrives(h, p, b)
           \/ \E r \in rows : RetryArrives(h, r)
    BY <1>1, <1>4 DEF PushArrives, DeployArrives, RetryArrives, Becomes, NoCommand, tables
<1>. QED
    BY <1>2, <1>3, <1>4 DEF HandlerStep

LEMMA CommandIdsOutside ==
    ASSUME TypeOK, CommandIds, OutsideStep
    PROVE  CommandIds'
PROOF
<1>. USE DEF OneActiveCommand
<1>1. CASE \/ \E g \in Deliveries, b \in Branches : Push(g, b)
           \/ \E p \in Projects, b \in Branches : EditProject(p, b)
    BY <1>1 DEF Push, EditProject, CommandIds, tables
<1>2. ASSUME NEW p \in Projects, DeleteProject(p) PROVE CommandIds'
    BY <1>2 DEF DeleteProject, CommandIds
<1>3. ASSUME NEW c \in commands, EndCommand(c) PROVE CommandIds'
    <2>. DEFINE ended == [c EXCEPT !.active = FALSE]
    <2>1. ended.id = c.id /\ ~ended.active
        BY DEF TypeOK, Commands
    <2>2. /\ commands' = (commands \ {c}) \cup {ended}
          /\ UNCHANGED <<nextCommand, pc, job>>
        BY <1>3 DEF EndCommand
    <2>. HIDE DEF ended
    <2>. QED
        BY <2>1, <2>2 DEF CommandIds
<1>. QED
    BY <1>1, <1>2, <1>3 DEF OutsideStep

LEMMA CommandIdsHandler ==
    ASSUME TypeOK, CommandIds, NEW h \in Handlers, HandlerStep(h)
    PROVE  CommandIds'
PROOF
<1>. USE DEF OneActiveCommand
<1>0. /\ DOMAIN pc = Handlers /\ DOMAIN job = Handlers
      /\ \A k \in Handlers \ {h} : pc'[k] = pc[k] /\ job'[k] = job[k]
    BY OthersStay
<1>1. ASSUME UNCHANGED <<commands, nextCommand>>, pc'[h] # "posted" PROVE CommandIds'
    BY <1>0, <1>1 DEF CommandIds
<1>2. CASE NoCommand(h)
    BY <1>1, <1>2 DEF NoCommand
<1>3. CASE PostConflicts(h) \/ Reread(h)
    BY <1>0, <1>1, <1>3 DEF PostConflicts, Reread, Becomes, tables
<1>4. ASSUME NEW r \in rows, NEW t \in CommandTypes, CommandArrives(h, r, t)
      PROVE  CommandIds'
    <2>1. UNCHANGED <<commands, nextCommand>> /\ pc'[h] # "posted"
        BY <1>0, <1>4 DEF CommandArrives, Becomes, tables
    <2>. QED
        BY <1>1, <2>1
<1>5. CASE Post(h)
    <2>1. /\ job'[h].command = nextCommand
          /\ job'[h].row = job[h].row /\ job'[h].type = job[h].type
          /\ pc'[h] = "posted"
        BY <1>0, <1>5 DEF Post, Becomes, TypeOK, CommandJobs
    <2>2. /\ \A c \in commands : ~(c.active /\ c.row = job[h].row /\ c.type = job[h].type)
          /\ \A k \in Handlers \ {h} : pc[k] = "posted" =>
                ~(job[k].row = job[h].row /\ job[k].type = job[h].type)
        BY <1>5 DEF Post, KeyTaken, KeyHeld, HoldsCommand, ActiveCommands
    <2>3. /\ commands' = commands /\ nextCommand' = nextCommand + 1
          /\ nextCommand \in Nat /\ \A c \in commands : c.id \in Nat
        BY <1>5 DEF Post, tables, TypeOK, Commands
    <2>4. \A k \in Handlers \ {h} : pc[k] = "posted" =>
            job[k].command \in Nat /\ job[k].command < nextCommand
        BY DEF CommandIds, TypeOK, CommandJobs
    <2>. QED
        BY <1>0, <2>1, <2>2, <2>3, <2>4 DEF CommandIds
<1>6. CASE CommitCommand(h)
    <2>. DEFINE new == [id |-> job[h].command, row |-> job[h].row, type |-> job[h].type,
                        active |-> TRUE]
    <2>1. /\ commands' = commands \cup {new} /\ nextCommand' = nextCommand
          /\ pc[h] = "posted" /\ pc'[h] = "answer"
        BY <1>0, <1>6 DEF CommitCommand, Becomes
    <2>2. new.id = job[h].command /\ new.row = job[h].row /\ new.type = job[h].type
        OBVIOUS
    <2>. HIDE DEF new
    <2>. QED
        BY <1>0, <2>1, <2>2 DEF CommandIds
<1>. QED
    BY <1>2, <1>3, <1>4, <1>5, <1>6, CommandCases

LEMMA OverOutside ==
    ASSUME TypeOK, OverStaysOver, OutsideStep
    PROVE  OverStaysOver'
PROOF
<1>. USE DEF Unposted, Posted
<1>1. CASE \/ \E g \in Deliveries, b \in Branches : Push(g, b)
           \/ \E p \in Projects, b \in Branches : EditProject(p, b)
    BY <1>1 DEF Push, EditProject, OverStaysOver, tables
<1>2. ASSUME NEW p \in Projects, DeleteProject(p) PROVE OverStaysOver'
    BY <1>2 DEF DeleteProject, OverStaysOver
<1>3. ASSUME NEW c \in commands, EndCommand(c) PROVE OverStaysOver'
    <2>. DEFINE ended == [c EXCEPT !.active = FALSE]
    <2>1. ended.id = c.id /\ ~ended.active
        BY DEF TypeOK, Commands
    <2>2. /\ commands' = (commands \ {c}) \cup {ended}
          /\ UNCHANGED <<nextCommand, pc, job>>
        BY <1>3 DEF EndCommand
    <2>. HIDE DEF ended
    <2>. QED
        BY <2>1, <2>2 DEF OverStaysOver
<1>. QED
    BY <1>1, <1>2, <1>3 DEF OutsideStep

LEMMA OverHandler ==
    ASSUME TypeOK, CommandIds, OverStaysOver, NEW h \in Handlers, HandlerStep(h)
    PROVE  OverStaysOver'
PROOF
<1>. USE DEF Unposted, Posted
<1>0. /\ DOMAIN pc = Handlers /\ DOMAIN job = Handlers
      /\ \A k \in Handlers \ {h} : pc'[k] = pc[k] /\ job'[k] = job[k]
    BY OthersStay
<1>1. CASE NoCommand(h)
    BY <1>0, <1>1 DEF NoCommand, OverStaysOver
<1>2. CASE PostConflicts(h)
    BY <1>0, <1>2 DEF PostConflicts, Becomes, OverStaysOver, tables
<1>3. CASE Reread(h)
    <2>1. PICK c \in commands : c.active /\ Becomes(h, "answer", [job[h] EXCEPT !.command = c.id])
        BY <1>3 DEF Reread, ActiveCommands
    <2>2. pc'[h] = "answer" /\ job'[h].command = c.id /\ job'[h].over = job[h].over
        BY <1>0, <1>3, <2>1 DEF Reread, Becomes, TypeOK, CommandJobs
    <2>3. UNCHANGED <<commands, nextCommand>> /\ pc[h] = "reread"
        BY <1>3 DEF Reread, tables
    <2>. QED
        BY <1>0, <2>1, <2>2, <2>3 DEF OverStaysOver
<1>4. ASSUME NEW r \in rows, NEW t \in CommandTypes, CommandArrives(h, r, t)
      PROVE  OverStaysOver'
    <2>. DEFINE over == {k.id : k \in {k \in commands : ~k.active}}
    <2>1. /\ \A i \in over : i < nextCommand
          /\ \A c \in commands : c.id \in over => ~c.active
          /\ \A k \in Handlers : pc[k] = "posted" => job[k].command \notin over
        BY DEF CommandIds
    <2>2. UNCHANGED <<commands, nextCommand>> /\ job'[h].over = over
          /\ pc'[h] \in {"post", "answer"}
        BY <1>0, <1>4 DEF CommandArrives, Becomes, tables
    <2>3. pc'[h] = "answer" => \E c \in commands : c.active /\ job'[h].command = c.id
        BY <1>0, <1>4 DEF CommandArrives, Becomes, Reusable, ActiveCommands
    <2>. HIDE DEF over
    <2>. QED
        BY <1>0, <2>1, <2>2, <2>3 DEF OverStaysOver
<1>5. CASE Post(h)
    <2>1. /\ job'[h].command = nextCommand /\ job'[h].over = job[h].over
          /\ pc[h] = "post" /\ pc'[h] = "posted"
        BY <1>0, <1>5 DEF Post, Becomes, TypeOK, CommandJobs
    <2>2. commands' = commands /\ nextCommand' = nextCommand + 1 /\ nextCommand \in Nat
        BY <1>5 DEF Post, tables, TypeOK
    <2>3. \A k \in Handlers : Unposted(k) \/ Posted(k) =>
            /\ nextCommand \notin job[k].over
            /\ \A i \in job[k].over : i < nextCommand + 1
        BY <2>2 DEF OverStaysOver, TypeOK, CommandJobs
    <2>. QED
        BY <1>0, <2>1, <2>2, <2>3 DEF OverStaysOver
<1>6. CASE CommitCommand(h)
    <2>. DEFINE new == [id |-> job[h].command, row |-> job[h].row, type |-> job[h].type,
                        active |-> TRUE]
    <2>1. /\ commands' = commands \cup {new} /\ nextCommand' = nextCommand
          /\ pc[h] = "posted" /\ pc'[h] = "answer" /\ job'[h] = job[h]
        BY <1>0, <1>6 DEF CommitCommand, Becomes
    <2>2. new.id = job[h].command
        OBVIOUS
    <2>. HIDE DEF new
    <2>. QED
        BY <1>0, <2>1, <2>2 DEF OverStaysOver
<1>. QED
    BY <1>1, <1>2, <1>3, <1>4, <1>5, <1>6, CommandCases

-------------------------------------------------------------------------------
(* Commits and sources *)

LEMMA CommitsOutside ==
    ASSUME TypeOK, CommitsReached, OutsideStep
    PROVE  CommitsReached'
PROOF
<1>. USE DEF Open, Deploying, Reached
<1>0. /\ head \in [Branches -> Nat]
      /\ \A r \in rows : r.commit.branch \in Branches /\ r.commit.at \in Nat
      /\ \A g \in Deliveries : pushed[g] # None =>
            pushed[g].branch \in Branches /\ pushed[g].at \in Nat
      /\ \A h \in Handlers : Open(h) \/ pc[h] = "insert" =>
            job[h].commit.branch \in Branches /\ job[h].commit.at \in Nat
      /\ \A h \in Handlers : Open(h) => \A r \in job[h].mine :
            r.commit.branch \in Branches /\ r.commit.at \in Nat
    BY DEF TypeOK, Deployments, Commits, PushJobs, DeployJobs
<1>1. ASSUME NEW g \in Deliveries, NEW b \in Branches, Push(g, b) PROVE CommitsReached'
    <2>1. /\ \A e \in Branches : head'[e] >= head[e] /\ head'[e] \in Nat
          /\ \A e \in Deliveries \ {g} : pushed'[e] = pushed[e]
          /\ pushed'[g].branch = b /\ pushed'[g].at = head'[b]
          /\ UNCHANGED <<rows, pc, job>>
        BY <1>0, <1>1 DEF Push, tables, TypeOK
    <2>2. \A x \in Nat, e \in Branches : x <= head[e] => x <= head'[e]
        BY <1>0, <2>1
    <2>3. /\ \A e \in Deliveries : pushed'[e] # None => pushed'[e].at <= head'[pushed'[e].branch]
          /\ \A r \in rows : r.commit.branch = r.spec.branch
                             /\ r.commit.at <= head'[r.commit.branch]
        BY <1>0, <2>1, <2>2 DEF CommitsReached
    <2>4. ASSUME NEW h \in Handlers
          PROVE /\ Open(h) => job[h].commit.at <= head'[job[h].commit.branch]
                /\ Open(h) => \A r \in job[h].mine : r.commit.branch = r.spec.branch
                             /\ r.commit.at <= head'[r.commit.branch]
                /\ pc[h] = "insert" => job[h].commit.branch = job[h].branch
                             /\ job[h].commit.at <= head'[job[h].branch]
        BY <1>0, <2>2 DEF CommitsReached
    <2>. QED
        BY <2>1, <2>3, <2>4 DEF CommitsReached
<1>2. CASE \/ \E p \in Projects, b \in Branches : EditProject(p, b)
           \/ \E c \in commands : EndCommand(c)
    BY <1>2 DEF EditProject, EndCommand, CommitsReached, tables, outside
<1>3. ASSUME NEW p \in Projects, DeleteProject(p) PROVE CommitsReached'
    BY <1>3 DEF DeleteProject, CommitsReached
<1>. QED
    BY <1>1, <1>2, <1>3 DEF OutsideStep

\* The steps of a handler leave what is outside alone.
LEMMA OutsideStays ==
    ASSUME NEW h \in Handlers, HandlerStep(h)
    PROVE  UNCHANGED outside
PROOF
<1>1. CASE Quit(h) \/ Reserve(h) \/ Ignore(h) \/ Create(h) \/ Accept(h)
    BY <1>1 DEF Quit, Reserve, Ignore, Create, Accept
<1>2. CASE Resolve(h) \/ InsertRow(h) \/ Post(h) \/ PostConflicts(h) \/ CommitCommand(h) \/ Reread(h)
    BY <1>2 DEF Resolve, InsertRow, Post, PostConflicts, CommitCommand, Reread
<1>3. CASE \/ \E g \in Deliveries : PushArrives(h, g)
           \/ \E p \in Projects, b \in Branches : DeployArrives(h, p, b)
           \/ \E r \in rows : RetryArrives(h, r)
           \/ \E r \in rows, t \in CommandTypes : CommandArrives(h, r, t)
    BY <1>3 DEF PushArrives, DeployArrives, RetryArrives, CommandArrives
<1>. QED
    BY <1>1, <1>2, <1>3 DEF HandlerStep

\* Steps that neither add a deployment, nor put a delivery on record, nor leave
\* the handler with a push or a deploy to do.
NoDeployment(h) ==
    /\ UNCHANGED <<rows, inbox>>
    /\ pc'[h] \notin {"reserve", "held", "resolve", "insert"}

LEMMA DeploymentCases ==
    ASSUME TypeOK, NEW h \in Handlers, HandlerStep(h)
    PROVE  \/ \E g \in Deliveries : PushArrives(h, g)
           \/ \E p \in Projects, b \in Branches : DeployArrives(h, p, b)
           \/ \E r \in rows : RetryArrives(h, r)
           \/ Reserve(h) \/ Ignore(h) \/ Create(h) \/ Accept(h)
           \/ Resolve(h) \/ InsertRow(h)
           \/ NoDeployment(h)
PROOF
<1>1. DOMAIN pc = Handlers
    BY DEF TypeOK
<1>2. CASE Post(h) \/ PostConflicts(h) \/ CommitCommand(h) \/ Quit(h)
    BY <1>1, <1>2 DEF Post, PostConflicts, CommitCommand, Quit, Done, Becomes, NoDeployment, tables
<1>3. CASE Reread(h)
    BY <1>1, <1>3 DEF Reread, Becomes, NoDeployment, tables
<1>4. ASSUME NEW r \in rows, NEW t \in CommandTypes, CommandArrives(h, r, t)
      PROVE  NoDeployment(h)
    BY <1>1, <1>4 DEF CommandArrives, Becomes, NoDeployment, tables
<1>. QED
    BY <1>2, <1>3, <1>4 DEF HandlerStep

\* What Create adds to the handler's transaction.
LEMMA CreateAdds ==
    ASSUME TypeOK, NEW h \in Handlers, Create(h)
    PROVE  \E new \in Deployments :
            /\ pc[h] = "held" /\ pc'[h] = "held" /\ UNCHANGED tables
            /\ job'[h].mine = job[h].mine \cup {new}
            /\ job'[h].commit = job[h].commit /\ job'[h].delivery = job[h].delivery
            /\ job'[h].matches = job[h].matches
            /\ new.project \notin Made(job[h])
            /\ new.commit = job[h].commit /\ new.spec.branch = job[h].commit.branch
            /\ new.delivery = job[h].delivery /\ new.from = 0
PROOF
<1>0. /\ DOMAIN pc = Handlers /\ DOMAIN job = Handlers
      /\ job[h] \in PushJobs /\ pc[h] = "held" /\ nextRow \in Nat
    BY DEF TypeOK, Create
<1>1. PICK match \in job[h].matches : CreatesFor(h, match)
    BY CreateCases
<1>. DEFINE new == PushedRow(job[h], match)
<1>2. match[1] \in Projects /\ match[2] \in Settings /\ job[h].commit.branch \in Branches
    BY <1>0 DEF PushJobs, Commits
<1>3. /\ Snapshot(match[2], job[h].commit.branch) \in Settings
      /\ Snapshot(match[2], job[h].commit.branch).branch = job[h].commit.branch
    BY <1>2, SnapshotTyped
<1>4. nextRow \in 1..MaxRows
    BY <1>0, <1>1, BoundsAssumption DEF CreatesFor, CanInsert, TypeOK
<1>5. /\ new.project = match[1] /\ new.commit = job[h].commit
      /\ new.spec = Snapshot(match[2], job[h].commit.branch)
      /\ new.delivery = job[h].delivery /\ new.from = 0
    BY DEF PushedRow, Deployment
<1>6. new \in Deployments
    BY <1>0, <1>2, <1>3, <1>4, BoundsAssumption DEF PushedRow, Deployment, Deployments, PushJobs
<1>7. /\ job'[h].mine = job[h].mine \cup {new}
      /\ job'[h].commit = job[h].commit /\ job'[h].delivery = job[h].delivery
      /\ job'[h].matches = job[h].matches
    BY <1>0, <1>1 DEF CreatesFor, Becomes, PushJobs
<1>8. pc'[h] = "held" /\ UNCHANGED tables /\ match[1] \notin Made(job[h])
    BY <1>0, <1>1 DEF CreatesFor, Becomes
<1>. HIDE DEF new
<1>. QED
    BY <1>0, <1>3, <1>5, <1>6, <1>7, <1>8

LEMMA CommitsHandler ==
    ASSUME TypeOK, CommitsReached, NEW h \in Handlers, HandlerStep(h)
    PROVE  CommitsReached'
PROOF
<1>. USE DEF Open, Deploying, Reached
<1>0. /\ DOMAIN pc = Handlers /\ DOMAIN job = Handlers
      /\ \A k \in Handlers \ {h} : pc'[k] = pc[k] /\ job'[k] = job[k]
      /\ head' = head /\ pushed' = pushed
    BY OthersStay, OutsideStays DEF outside
<1>1. ASSUME NEW g \in Deliveries, PushArrives(h, g) PROVE CommitsReached'
    BY <1>0, <1>1 DEF PushArrives, Becomes, CommitsReached, tables
<1>2. ASSUME NEW p \in Projects, NEW b \in Branches, DeployArrives(h, p, b)
      PROVE  CommitsReached'
    <2>1. Snapshot(project[p], b).branch = b
        BY <1>2, SnapshotTyped DEF DeployArrives, TypeOK
    <2>. QED
        BY <1>0, <1>2, <2>1 DEF DeployArrives, Becomes, CommitsReached, tables
<1>3. ASSUME NEW r \in rows, RetryArrives(h, r) PROVE CommitsReached'
    BY <1>0, <1>3 DEF RetryArrives, Becomes, CommitsReached, tables
<1>4. CASE Reserve(h)
    BY <1>0, <1>4 DEF Reserve, Becomes, CommitsReached, tables
<1>5. CASE Ignore(h)
    BY <1>0, <1>5 DEF Ignore, Done, Becomes, CommitsReached
<1>6. CASE Create(h)
    <2>1. PICK new \in Deployments :
            /\ pc[h] = "held" /\ pc'[h] = "held" /\ UNCHANGED tables
            /\ job'[h].mine = job[h].mine \cup {new}
            /\ job'[h].commit = job[h].commit
            /\ new.commit = job[h].commit /\ new.spec.branch = job[h].commit.branch
        BY <1>6, CreateAdds
    <2>. QED
        BY <1>0, <2>1 DEF CommitsReached, tables
<1>7. CASE Accept(h)
    BY <1>0, <1>7 DEF Accept, Done, Becomes, CommitsReached
<1>8. CASE Resolve(h)
    <2>1. /\ pc'[h] = "insert" /\ pc[h] = "resolve"
          /\ job'[h].spec = job[h].spec /\ job'[h].branch = job[h].branch
          /\ job'[h].commit = [branch |-> job[h].branch, at |-> head[job[h].branch]]
          /\ head[job[h].branch] \in Nat /\ UNCHANGED tables
        BY <1>0, <1>8 DEF Resolve, Becomes, TypeOK, DeployJobs
    <2>. QED
        BY <1>0, <2>1 DEF CommitsReached, tables
<1>9. CASE InsertRow(h)
    BY <1>0, <1>9 DEF InsertRow, Deployment, Done, Becomes, CommitsReached
<1>10. CASE NoDeployment(h)
    BY <1>0, <1>10 DEF NoDeployment, CommitsReached
<1>. QED
    BY <1>1, <1>2, <1>3, <1>4, <1>5, <1>6, <1>7, <1>8, <1>9, <1>10, DeploymentCases

LEMMA SourcesOutside ==
    ASSUME TypeOK, RetrySources, OutsideStep
    PROVE  RetrySources'
PROOF
<1>. USE DEF Open, Source
<1>1. CASE \E g \in Deliveries, b \in Branches : Push(g, b)
    BY <1>1 DEF Push, RetrySources, tables
<1>2. ASSUME NEW p \in Projects, NEW b \in Branches, EditProject(p, b) PROVE RetrySources'
    <2>1. \A q \in Projects : project[q] = None => project'[q] = None
        BY <1>2 DEF EditProject, TypeOK
    <2>2. \A k \in Handlers : pc[k] = "insert" => job[k].project \in Projects
        BY DEF TypeOK, DeployJobs
    <2>3. UNCHANGED <<rows, pc, job>>
        BY <1>2 DEF EditProject, tables
    <2>. QED
        BY <2>1, <2>2, <2>3 DEF RetrySources
<1>3. CASE \E c \in commands : EndCommand(c)
    BY <1>3 DEF EndCommand, RetrySources, outside
<1>4. ASSUME NEW p \in Projects, DeleteProject(p) PROVE RetrySources'
    <2>1. /\ project' = [project EXCEPT ![p] = None]
          /\ rows' = {r \in rows : r.project # p}
          /\ UNCHANGED <<pc, job>>
        BY <1>4 DEF DeleteProject
    <2>2. project'[p] = None /\ \A q \in Projects \ {p} : project'[q] = project[q]
        BY <2>1 DEF TypeOK
    <2>3. \A k \in Handlers : pc[k] = "insert" => job[k].project \in Projects
        BY DEF TypeOK, DeployJobs
    <2>4. \A r \in rows' : r.from # 0 => Source(r.from, r.project, r.spec, r.commit)'
        BY <2>1 DEF RetrySources
    <2>5. ASSUME NEW k \in Handlers, pc[k] = "insert", job[k].from # 0
          PROVE  \/ project'[job[k].project] = None
                 \/ Source(job[k].from, job[k].project, job[k].spec, job[k].commit)'
        BY <2>1, <2>2, <2>3, <2>5 DEF RetrySources
    <2>. QED
        BY <2>1, <2>4, <2>5 DEF RetrySources
<1>. QED
    BY <1>1, <1>2, <1>3, <1>4 DEF OutsideStep

LEMMA SourcesHandler ==
    ASSUME TypeOK, RetrySources, NEW h \in Handlers, HandlerStep(h)
    PROVE  RetrySources'
PROOF
<1>. USE DEF Open, Source
<1>0. /\ DOMAIN pc = Handlers /\ DOMAIN job = Handlers
      /\ \A k \in Handlers \ {h} : pc'[k] = pc[k] /\ job'[k] = job[k]
      /\ project' = project
    BY OthersStay, OutsideStays DEF outside
<1>1. ASSUME NEW g \in Deliveries, PushArrives(h, g) PROVE RetrySources'
    BY <1>0, <1>1 DEF PushArrives, Becomes, RetrySources, tables
<1>2. ASSUME NEW p \in Projects, NEW b \in Branches, DeployArrives(h, p, b)
      PROVE  RetrySources'
    BY <1>0, <1>2 DEF DeployArrives, Becomes, RetrySources, tables
<1>3. ASSUME NEW r \in rows, RetryArrives(h, r) PROVE RetrySources'
    BY <1>0, <1>3 DEF RetryArrives, Becomes, RetrySources, tables
<1>4. CASE Reserve(h)
    BY <1>0, <1>4 DEF Reserve, Becomes, RetrySources, tables
<1>5. CASE Ignore(h)
    BY <1>0, <1>5 DEF Ignore, Done, Becomes, RetrySources
<1>6. CASE Create(h)
    <2>1. PICK new \in Deployments :
            /\ pc[h] = "held" /\ pc'[h] = "held" /\ UNCHANGED tables
            /\ job'[h].mine = job[h].mine \cup {new} /\ new.from = 0
        BY <1>6, CreateAdds
    <2>. QED
        BY <1>0, <2>1 DEF RetrySources, tables
<1>7. CASE Accept(h)
    BY <1>0, <1>7 DEF Accept, Done, Becomes, RetrySources
<1>8. CASE Resolve(h)
    <2>1. /\ pc'[h] = "insert" /\ pc[h] = "resolve"
          /\ job'[h].from = job[h].from /\ UNCHANGED tables
        BY <1>0, <1>8 DEF Resolve, Becomes, TypeOK, DeployJobs
    <2>. QED
        BY <1>0, <2>1 DEF RetrySources, tables
<1>9. CASE InsertRow(h)
    <2>1. /\ pc[h] = "insert" /\ pc'[h] = "idle" /\ project[job[h].project] # None
          /\ rows' = rows \cup {Deployment(nextRow, job[h].project, job[h].spec,
                                           job[h].commit, None, job[h].from)}
        BY <1>0, <1>9 DEF InsertRow, CanInsert, Done, Becomes
    <2>. QED
        BY <1>0, <2>1 DEF Deployment, RetrySources
<1>10. CASE NoDeployment(h)
    BY <1>0, <1>10 DEF NoDeployment, RetrySources
<1>. QED
    BY <1>1, <1>2, <1>3, <1>4, <1>5, <1>6, <1>7, <1>8, <1>9, <1>10, DeploymentCases

-------------------------------------------------------------------------------
(* Deliveries *)

LEMMA OneOutside ==
    ASSUME OneAtATime, OutsideStep
    PROVE  OneAtATime'
PROOF
<1>. USE DEF Open, Made
<1>1. CASE \/ \E g \in Deliveries, b \in Branches : Push(g, b)
           \/ \E p \in Projects, b \in Branches : EditProject(p, b)
           \/ \E c \in commands : EndCommand(c)
    BY <1>1 DEF Push, EditProject, EndCommand, OneAtATime, tables, outside
<1>2. ASSUME NEW p \in Projects, DeleteProject(p) PROVE OneAtATime'
    BY <1>2 DEF DeleteProject, OneAtATime
<1>. QED
    BY <1>1, <1>2 DEF OutsideStep

LEMMA OneHandler ==
    ASSUME TypeOK, OneAtATime, NEW h \in Handlers, HandlerStep(h)
    PROVE  OneAtATime'
PROOF
<1>. USE DEF Open
<1>0. /\ DOMAIN pc = Handlers /\ DOMAIN job = Handlers
      /\ \A k \in Handlers \ {h} : pc'[k] = pc[k] /\ job'[k] = job[k]
    BY OthersStay
<1>1. ASSUME NEW g \in Deliveries, PushArrives(h, g) PROVE OneAtATime'
    BY <1>0, <1>1 DEF PushArrives, Becomes, OneAtATime, tables
<1>2. CASE \/ \E p \in Projects, b \in Branches : DeployArrives(h, p, b)
           \/ \E r \in rows : RetryArrives(h, r)
    BY <1>0, <1>2 DEF DeployArrives, RetryArrives, Becomes, OneAtATime, tables
<1>3. CASE Resolve(h)
    BY <1>0, <1>3 DEF Resolve, Becomes, OneAtATime, tables
<1>4. CASE Reserve(h)
    <2>1. /\ inbox[job[h].delivery] = None
          /\ \A k \in Handlers \ {h} : pc[k] = "held" => job[k].delivery # job[h].delivery
          /\ pc[h] = "reserve" /\ pc'[h] = "held" /\ job'[h] = job[h] /\ UNCHANGED tables
        BY <1>0, <1>4 DEF Reserve, KeyFree, HoldsDelivery, Becomes
    <2>. QED
        BY <1>0, <2>1 DEF OneAtATime, tables
<1>5. CASE Ignore(h)
    <2>1. [status |-> "ignored", row |-> 0] # None
        BY NoneAssumption, BoundsAssumption DEF Answers
    <2>2. /\ \A g \in Deliveries : inbox[g] # None => inbox'[g] # None
          /\ \A g \in Deliveries : g # job[h].delivery => inbox'[g] = inbox[g]
          /\ rows' = rows /\ pc[h] = "held" /\ pc'[h] = "idle"
        BY <1>0, <1>5, <2>1 DEF Ignore, Done, Becomes, TypeOK
    <2>3. /\ \A r \in rows : r.delivery # None => r.delivery \in Deliveries
          /\ \A k \in Handlers : pc[k] = "held" => job[k].delivery \in Deliveries
        BY DEF TypeOK, Deployments, PushJobs
    <2>. QED
        BY <1>0, <2>2, <2>3 DEF OneAtATime
<1>6. CASE Create(h)
    <2>1. PICK new \in Deployments :
            /\ pc[h] = "held" /\ pc'[h] = "held" /\ UNCHANGED tables
            /\ job'[h].mine = job[h].mine \cup {new}
            /\ job'[h].delivery = job[h].delivery
            /\ new.project \notin Made(job[h])
            /\ new.delivery = job[h].delivery
        BY <1>6, CreateAdds
    <2>2. \A r \in job[h].mine : r.project # new.project
        BY <2>1 DEF Made
    <2>. QED
        BY <1>0, <2>1, <2>2 DEF OneAtATime, tables
<1>7. CASE Accept(h)
    <2>1. \A r \in job[h].mine : r.id \in 0..MaxRows
        BY <1>7 DEF Accept, TypeOK, PushJobs, Deployments
    <2>2. \A r \in job[h].mine :
            [status |-> "accepted", row |-> IF Cardinality(job[h].mine) = 1 THEN r.id ELSE 0]
                # None
        BY <2>1, NoneAssumption, BoundsAssumption DEF Answers
    <2>3. /\ \A g \in Deliveries : inbox[g] # None => inbox'[g] # None
          /\ inbox'[job[h].delivery] # None
          /\ \A g \in Deliveries : g # job[h].delivery => inbox'[g] = inbox[g]
        BY <1>0, <1>7, <2>2 DEF Accept, TypeOK, PushJobs
    <2>4. rows' = rows \cup job[h].mine /\ pc[h] = "held" /\ pc'[h] = "idle"
        BY <1>0, <1>7 DEF Accept, Done, Becomes
    <2>5. /\ \A r \in rows : r.delivery # None => r.delivery \in Deliveries
          /\ \A k \in Handlers : pc[k] = "held" => job[k].delivery \in Deliveries
        BY DEF TypeOK, Deployments, PushJobs
    <2>. QED
        BY <1>0, <2>3, <2>4, <2>5 DEF OneAtATime
<1>8. CASE InsertRow(h)
    <2>1. /\ pc[h] = "insert" /\ pc'[h] = "idle" /\ inbox' = inbox
          /\ \A r \in rows' : r \in rows \/ r.delivery = None
        BY <1>0, <1>8 DEF InsertRow, Deployment, Done, Becomes
    <2>. QED
        BY <1>0, <2>1 DEF OneAtATime
<1>9. CASE NoDeployment(h)
    BY <1>0, <1>9 DEF NoDeployment, OneAtATime
<1>. QED
    BY <1>1, <1>2, <1>3, <1>4, <1>5, <1>6, <1>7, <1>8, <1>9, DeploymentCases

-------------------------------------------------------------------------------
(* The theorems *)

LEMMA InvInit == Init => IInv
PROOF
    BY TypeInit DEF Init, IInv, CommandIds, OneActiveCommand, OverStaysOver, CommitsReached,
        RetrySources, OneAtATime, Open, Deploying, Unposted, Posted

LEMMA InvNext == IInv /\ [Next]_vars => IInv'
PROOF
<1>. SUFFICES ASSUME IInv, [Next]_vars PROVE IInv'
    OBVIOUS
<1>1. TypeOK'
    BY TypeNext DEF IInv
<1>2. CASE UNCHANGED vars
    BY <1>1, <1>2 DEF IInv, vars, outside, tables, CommandIds, OverStaysOver, OneActiveCommand,
        CommitsReached, RetrySources, OneAtATime, Open, Deploying, Unposted, Posted, Reached, Source
<1>3. CASE OutsideStep
    BY <1>1, <1>3, CommandIdsOutside, OverOutside, CommitsOutside, SourcesOutside, OneOutside
        DEF IInv
<1>4. ASSUME NEW h \in Handlers, HandlerStep(h) PROVE IInv'
    BY <1>1, <1>4, CommandIdsHandler, OverHandler, CommitsHandler, SourcesHandler, OneHandler
        DEF IInv
<1>. QED
    BY <1>2, <1>3, <1>4, StepCases DEF IInv

LEMMA Inductive == Spec => []IInv
PROOF
    BY InvInit, InvNext, PTL DEF Spec

\* However many stop and cleanup requests race, a deployment has at most one
\* active command of a type (Intake!OneActiveCommand): what is active keeps its
\* key, and what is being posted has it alone.
THEOREM OneActiveCommandAlways == Spec => []OneActiveCommand
PROOF
    BY Inductive, PTL DEF IInv, CommandIds

\* A stop or cleanup is never answered with a command that was over before it
\* arrived (Intake!AnswersWithItsOwn).
THEOREM AnswersWithItsOwnAlways == Spec => []AnswersWithItsOwn
PROOF
<1>1. IInv => AnswersWithItsOwn
    BY DEF IInv, OverStaysOver, AnswersWithItsOwn, Posted
<1>. QED
    BY <1>1, Inductive, PTL

\* A deployment's commit is one its branch has been at (Intake!CommitOnBranch).
THEOREM CommitOnBranchAlways == Spec => []CommitOnBranch
PROOF
<1>1. IInv => CommitOnBranch
    BY DEF IInv, TypeOK, Deployments, Commits, CommitsReached, Reached, CommitOnBranch
<1>. QED
    BY <1>1, Inductive, PTL

\* A retry has the settings and the commit of what it retries, which exists as
\* long as it does (Intake!RetryReproduces).
THEOREM RetryReproducesAlways == Spec => []RetryReproduces
PROOF
<1>1. IInv => RetryReproduces
    BY DEF IInv, RetrySources, Source, RetryReproduces
<1>. QED
    BY <1>1, Inductive, PTL

-------------------------------------------------------------------------------
(* The refinement *)

LEMMA SameTables ==
    ASSUME rows' = rows, inbox' = inbox
    PROVE  UNCHANGED <<answered, made>>
PROOF
    BY DEF answered, made

\* Only accepted deliveries that are on record have deployments.
LEMMA NoneMadeYet ==
    ASSUME OneAtATime, NEW g \in Deliveries, inbox[g] = None, g # None
    PROVE  \A p \in Projects : made[g][p] = {}
PROOF
    BY DEF OneAtATime, made

LEMMA AcceptImplements ==
    ASSUME IInv, NEW h \in Handlers, Accept(h)
    PROVE  Deliver!Next
PROOF
<1>. DEFINE g == job[h].delivery
            mine == job[h].mine
            ps == Made(job[h])
            id == [p \in ps |-> CHOOSE i \in 1..MaxRows : \E r \in mine : r.project = p /\ r.id = i]
<1>1. /\ g \in Deliveries /\ mine \subseteq Deployments /\ job[h].matches # {}
      /\ \A match \in job[h].matches : match[1] \in ps
      /\ g # None
    BY NoneAssumption DEF Accept, IInv, TypeOK, PushJobs
<1>2. /\ \A r, s \in mine : r.project = s.project => r = s
      /\ \A r \in mine : r.delivery = g
      /\ inbox[g] = None
      /\ \A r \in rows : r.delivery # g
    BY <1>1 DEF Accept, IInv, OneAtATime, Open
<1>3. ps \in SUBSET Projects /\ ps # {}
    BY <1>1 DEF Made, Deployments
<1>4. \A r \in mine : id[r.project] = r.id /\ r.id \in 1..MaxRows
    BY <1>1, <1>2 DEF Made, Deployments
<1>5. id \in [ps -> 1..MaxRows]
    BY <1>4 DEF Made
<1>6. answered[g] = "no"
    BY <1>1, <1>2 DEF answered
<1>7. answered' = [answered EXCEPT ![g] = "accepted"]
    <2>1. PICK i \in 0..MaxRows : inbox' = [inbox EXCEPT ![g] = [status |-> "accepted", row |-> i]]
        <3>1. PICK r \in mine : inbox' = [inbox EXCEPT ![g] =
                [status |-> "accepted", row |-> IF Cardinality(mine) = 1 THEN r.id ELSE 0]]
            BY DEF Accept
        <3>2. r.id \in 0..MaxRows /\ 0 \in 0..MaxRows
            BY <1>1, BoundsAssumption DEF Deployments
        <3>. HIDE DEF g, mine
        <3>3. CASE Cardinality(mine) = 1
            BY <3>1, <3>2, <3>3
        <3>4. CASE Cardinality(mine) # 1
            BY <3>1, <3>2, <3>4
        <3>. QED
            BY <3>3, <3>4
    <2>2. [status |-> "accepted", row |-> i] # None
        BY NoneAssumption DEF Answers
    <2>. QED
        BY <1>1, <2>1, <2>2 DEF answered, IInv, TypeOK
<1>8. made' = [made EXCEPT ![g] = [p \in Projects |-> IF p \in ps THEN {id[p]} ELSE {}]]
    <2>0. rows' = rows \cup mine
        BY DEF Accept
    <2>1. ASSUME NEW e \in Deliveries, e # g PROVE made'[e] = made[e]
        BY <1>2, <2>0, <2>1 DEF made
    <2>2. ASSUME NEW p \in Projects PROVE made'[g][p] = IF p \in ps THEN {id[p]} ELSE {}
        <3>1. made'[g][p] = {r.id : r \in {s \in mine : s.project = p}}
            BY <1>1, <1>2, <2>0 DEF made
        <3>2. CASE p \in ps
            BY <1>2, <1>4, <3>1, <3>2 DEF Made
        <3>3. CASE p \notin ps
            BY <3>1, <3>3 DEF Made
        <3>. QED
            BY <3>2, <3>3
    <2>. HIDE DEF id, ps
    <2>3. made'[g] = [p \in Projects |-> IF p \in ps THEN {id[p]} ELSE {}]
        BY <1>1, <2>2 DEF made
    <2>4. made' = [e \in Deliveries |-> made'[e]] /\ made = [e \in Deliveries |-> made[e]]
        BY DEF made
    <2>. QED
        BY <1>1, <2>1, <2>3, <2>4
<1>. HIDE DEF id, ps, g, mine
<1>9. Deliver!Accept(g, ps, id)
    BY <1>3, <1>6, <1>7, <1>8 DEF Deliver!Accept
<1>. QED
    BY <1>1, <1>3, <1>5, <1>9 DEF Deliver!Next

LEMMA IgnoreImplements ==
    ASSUME IInv, NEW h \in Handlers, Ignore(h)
    PROVE  Deliver!Next
PROOF
<1>. DEFINE g == job[h].delivery
<1>1. g \in Deliveries /\ inbox[g] = None
    BY DEF Ignore, IInv, TypeOK, PushJobs, OneAtATime
<1>2. [status |-> "ignored", row |-> 0] # None
    BY NoneAssumption, BoundsAssumption DEF Answers
<1>3. answered[g] = "no" /\ answered' = [answered EXCEPT ![g] = "ignored"]
    BY <1>1, <1>2 DEF Ignore, answered, IInv, TypeOK
<1>4. made' = made
    BY DEF Ignore, made
<1>. QED
    BY <1>1, <1>3, <1>4 DEF Deliver!Next, Deliver!Ignore

LEMMA DeleteImplements ==
    ASSUME NEW p \in Projects, DeleteProject(p)
    PROVE  Deliver!Next
PROOF
<1>1. rows' = {r \in rows : r.project # p} /\ inbox' = inbox
    BY DEF DeleteProject
<1>2. ASSUME NEW g \in Deliveries, NEW q \in Projects
      PROVE  made'[g][q] = IF q = p THEN {} ELSE made[g][q]
    BY <1>1 DEF made
<1>3. made' = [g \in Deliveries |-> [q \in Projects |-> IF q = p THEN {} ELSE made[g][q]]]
    BY <1>2 DEF made
<1>4. answered' = answered
    BY <1>1 DEF answered
<1>. QED
    BY <1>3, <1>4 DEF Deliver!Next, Deliver!Forget

LEMMA InsertImplements ==
    ASSUME NEW h \in Handlers, InsertRow(h)
    PROVE  UNCHANGED <<answered, made>>
PROOF
<1>. DEFINE new == Deployment(nextRow, job[h].project, job[h].spec, job[h].commit, None,
                             job[h].from)
<1>1. rows' = rows \cup {new} /\ inbox' = inbox
    BY DEF InsertRow
<1>2. new.delivery \notin Deliveries
    BY NoneAssumption DEF Deployment
<1>. HIDE DEF new
<1>3. ASSUME NEW g \in Deliveries, NEW p \in Projects
      PROVE  {s \in rows' : s.delivery = g /\ s.project = p}
                = {s \in rows : s.delivery = g /\ s.project = p}
    BY <1>1, <1>2
<1>4. made' = made
    BY <1>3 DEF made
<1>. QED
    BY <1>1, <1>4 DEF answered

LEMMA StepImplements ==
    ASSUME IInv, [Next]_vars
    PROVE  [Deliver!Next]_<<answered, made>>
PROOF
<1>1. CASE UNCHANGED vars
    BY <1>1, SameTables DEF vars, tables
<1>2. CASE OutsideStep
    <2>1. CASE \/ \E g \in Deliveries, b \in Branches : Push(g, b)
               \/ \E p \in Projects, b \in Branches : EditProject(p, b)
               \/ \E c \in commands : EndCommand(c)
        BY <2>1, SameTables DEF Push, EditProject, EndCommand, tables
    <2>. QED
        BY <1>2, <2>1, DeleteImplements DEF OutsideStep
<1>3. ASSUME NEW h \in Handlers, HandlerStep(h) PROVE [Deliver!Next]_<<answered, made>>
    <2>1. CASE Reserve(h) \/ Create(h) \/ Resolve(h) \/ NoDeployment(h)
        BY <2>1, CreateCases, SameTables DEF Reserve, CreatesFor, Resolve, NoDeployment, tables
    <2>2. CASE \/ \E g \in Deliveries : PushArrives(h, g)
               \/ \E p \in Projects, b \in Branches : DeployArrives(h, p, b)
               \/ \E r \in rows : RetryArrives(h, r)
        BY <2>2, SameTables DEF PushArrives, DeployArrives, RetryArrives, tables
    <2>3. TypeOK
        BY DEF IInv
    <2>. QED
        BY <1>3, <2>1, <2>2, <2>3, AcceptImplements, IgnoreImplements, InsertImplements,
            DeploymentCases
<1>. QED
    BY <1>1, <1>2, <1>3, StepCases DEF IInv

\* A delivery is answered once for good and makes all its deployments in the
\* step that accepts it: Intake implements Inbox (Intake!InboxSpec), for any
\* number of handlers, deliveries and projects.
THEOREM DeliveredOnce == Spec => InboxSpec
PROOF
<1>1. Init => Deliver!Init
    BY DEF Init, Deliver!Init, answered, made
<1>2. IInv /\ [Next]_vars => [Deliver!Next]_<<answered, made>>
    BY StepImplements
<1>. QED
    BY <1>1, <1>2, Inductive, PTL DEF Spec, InboxSpec, Deliver!Spec

================================================================================
