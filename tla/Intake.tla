-------------------------------- MODULE Intake --------------------------------
(***************************************************************************)
(* How work enters the queue: the control plane's request handlers, which  *)
(* run concurrently, each in one database transaction at a time.  A GitHub *)
(* push becomes one deployment per matching project, once however often    *)
(* GitHub delivers it; a user's deploy, redeploy or retry becomes one      *)
(* deployment with the project settings and the commit it must use; a stop *)
(* or cleanup request becomes a command, or joins the active one.          *)
(*                                                                         *)
(* A transaction reads the snapshot its first read opened, so what a       *)
(* handler loads on arrival stays in its job until it commits or rolls     *)
(* back (MySQL's REPEATABLE READ); only the unique keys and foreign keys   *)
(* are checked against the current rows, and wait for the transactions     *)
(* that hold them.                                                         *)
(***************************************************************************)
EXTENDS Naturals, FiniteSets

CONSTANTS
    Handlers,     \* request threads of the control plane
    Projects,
    Branches,
    Deliveries,   \* GitHub's delivery ids
    CommandTypes, \* "stop", "cleanup"
    MaxEdits,     \* bound: changes of one project's settings
    MaxRows,      \* bound: deployments ever inserted
    MaxCommands,  \* bound: commands ever inserted
    None

ASSUME BoundsAssumption ==
    /\ MaxEdits \in Nat
    /\ MaxRows \in Nat
    /\ MaxCommands \in Nat

VARIABLES
    project,      \* settings of each project, None once deleted
    head,         \* the commit each branch of the repository is at
    pushed,       \* the commit each delivery reports
    rows,         \* committed deployments with their builds
    nextRow,      \* AUTO_INCREMENT of platform_deployments
    inbox,        \* committed webhook_deliveries
    commands,     \* committed deployment_commands
    nextCommand,  \* AUTO_INCREMENT of deployment_commands
    pc, job       \* what each handler does, and its transaction

vars == <<project, head, pushed, rows, nextRow, inbox, commands, nextCommand, pc, job>>
tables == <<rows, inbox, commands>>
outside == <<project, head, pushed>>

-------------------------------------------------------------------------------
(* Rows *)

Settings == [version : 0..MaxEdits, branch : Branches]
Commits == [branch : Branches, at : Nat]

Slip_ProjectBranch(settings, branch) == settings

\* A deployment's frozen settings, with the branch it was asked to deploy.
Snapshot(settings, branch) == [settings EXCEPT !.branch = branch]

Deployment(id, p, spec, commit, delivery, from) ==
    [id |-> id, project |-> p, spec |-> spec, commit |-> commit,
     delivery |-> delivery, from |-> from]

Deployments ==
    [id : 1..MaxRows, project : Projects, spec : Settings, commit : Commits,
     delivery : Deliveries \cup {None}, from : 0..MaxRows]

\* The answer recorded for a delivery, linked to its deployment if it made one only.
Answers == [status : {"ignored", "accepted"}, row : 0..MaxRows]

ASSUME NoneAssumption == None \notin Deliveries \cup Answers

Commands ==
    [id : 1..MaxCommands, row : 1..MaxRows, type : CommandTypes, active : BOOLEAN]

IdleJob == [kind |-> "none"]

\* A push: what it reports, the matching projects as the request read them,
\* whether the delivery was on record then, and the deployments inserted so far.
PushJobs ==
    [kind : {"push"}, delivery : Deliveries, commit : Commits,
     matches : SUBSET (Projects \X Settings), known : BOOLEAN,
     mine : SUBSET Deployments]

\* A deploy, redeploy or retry: what its deployment will be.
DeployJobs(commits) ==
    [kind : {"deploy"}, project : Projects, branch : Branches, spec : Settings,
     commit : commits, from : 0..MaxRows]

\* A stop or cleanup: its target, the command it answers with, and those
\* that were over when it arrived.
CommandJobs(ids) ==
    [kind : {"command"}, row : 1..MaxRows, type : CommandTypes,
     command : ids, over : SUBSET (1..MaxCommands)]

Jobs(kind) == {h \in Handlers : job[h].kind = kind}

Becomes(h, label, j) ==
    /\ pc' = [pc EXCEPT ![h] = label]
    /\ job' = [job EXCEPT ![h] = j]

Slip_KeepJob(h) == pc' = [pc EXCEPT ![h] = "idle"] /\ UNCHANGED job

\* The request is answered, or its transaction rolled back.
Done(h) == Becomes(h, "idle", IdleJob)

\* The projects a push is for. A project that another repository or a manual
\* trigger keeps from matching behaves as one on another branch.
Matches(commit) ==
    {<<p, project[p]>> : p \in {q \in Projects :
        project[q] # None /\ project[q].branch = commit.branch}}

Made(j) == {r.project : r \in j.mine}

ActiveCommands(r, t) == {c \in commands : c.row = r /\ c.type = t /\ c.active}

\* Inserted and not yet committed: the unique and foreign keys others wait for.
HoldsDelivery(h, g) == pc[h] = "held" /\ job[h].delivery = g
HoldsCommand(h, r, t) == pc[h] = "posted" /\ job[h].row = r /\ job[h].type = t

Latest(r) == \A s \in rows : s.project = r.project => s.id <= r.id

Exists(r) == \E s \in rows : s.id = r

\* A deployment of p can be inserted: its foreign key holds, and an id is left.
CanInsert(p) == project[p] # None /\ nextRow <= MaxRows

-------------------------------------------------------------------------------
Init ==
    /\ project \in [Projects -> {s \in Settings : s.version = 0}]
    /\ head = [b \in Branches |-> 0]
    /\ pushed = [g \in Deliveries |-> None]
    /\ rows = {}
    /\ nextRow = 1
    /\ inbox = [g \in Deliveries |-> None]
    /\ commands = {}
    /\ nextCommand = 1
    /\ pc = [h \in Handlers |-> "idle"]
    /\ job = [h \in Handlers |-> IdleJob]

-------------------------------------------------------------------------------
(* Outside the handlers *)

\* Somebody pushes to a branch; GitHub will report it as delivery g.
Push(g, b) ==
    /\ pushed[g] = None
    /\ head' = [head EXCEPT ![b] = @ + 1]
    /\ pushed' = [pushed EXCEPT ![g] = [branch |-> b, at |-> head[b] + 1]]
    /\ UNCHANGED <<project, tables, nextRow, nextCommand, pc, job>>

\* A user changes the settings of a project.
EditProject(p, b) ==
    /\ project[p] # None
    /\ project[p].version < MaxEdits
    /\ project' = [project EXCEPT ![p] = [version |-> @.version + 1, branch |-> b]]
    /\ UNCHANGED <<head, pushed, tables, nextRow, nextCommand, pc, job>>

\* The rows of p that a foreign key of webhook_deliveries still names.
Linked(p) == {r \in rows : r.project = p /\ \E g \in Deliveries :
    inbox[g] # None /\ inbox[g].row = r.id}

\* A user deletes a project with its deployments and their commands. The
\* database refuses while a delivery names one of them, and the delete waits
\* for the transactions that hold a new child row.
DeleteProject(p) ==
    /\ project[p] # None
    /\ Linked(p) = {}
    /\ \A h \in Jobs("push") : p \notin Made(job[h])
    /\ \A h \in Jobs("command") : pc[h] = "posted" =>
        \A r \in rows : r.id = job[h].row => r.project # p
    /\ project' = [project EXCEPT ![p] = None]
    /\ rows' = {r \in rows : r.project # p}
    /\ commands' = {c \in commands : \E r \in rows' : r.id = c.row}
    /\ UNCHANGED <<head, pushed, nextRow, inbox, nextCommand, pc, job>>

\* A worker completes or fails an active command.
EndCommand(c) ==
    /\ c.active
    /\ commands' = (commands \ {c}) \cup {[c EXCEPT !.active = FALSE]}
    /\ UNCHANGED <<outside, rows, nextRow, inbox, nextCommand, pc, job>>

-------------------------------------------------------------------------------
(* POST /webhooks/github *)

\* GitHub delivers g, for the first time or again: the handler finds the
\* projects that the push matches and looks the delivery up.
PushArrives(h, g) ==
    /\ pc[h] = "idle"
    /\ pushed[g] # None
    /\ Becomes(h, "reserve", [kind |-> "push", delivery |-> g, commit |-> pushed[g],
                              matches |-> Matches(pushed[g]), known |-> inbox[g] # None, mine |-> {}])
    /\ UNCHANGED <<outside, tables, nextRow, nextCommand>>

\* The unique key lets one transaction insert the delivery; a second one
\* waits for the first to end.
KeyFree(h, g) == \A other \in Handlers \ {h} : ~HoldsDelivery(other, g)

\* On record when the request looked, or by the time it inserts.
Duplicate(h) ==
    /\ pc[h] = "reserve"
    /\ \/ job[h].known
       \/ /\ KeyFree(h, job[h].delivery)
          /\ inbox[job[h].delivery] # None
    /\ Done(h)
    /\ UNCHANGED <<outside, tables, nextRow, nextCommand>>

Reserve(h) ==
    /\ pc[h] = "reserve"
    /\ ~job[h].known
    /\ KeyFree(h, job[h].delivery)
    /\ inbox[job[h].delivery] = None
    /\ Becomes(h, "held", job[h])
    /\ UNCHANGED <<outside, tables, nextRow, nextCommand>>

\* Nothing matches, or the platform is not ready: ignored for good.
Ignore(h) ==
    /\ pc[h] = "held"
    /\ job[h].mine = {}
    /\ inbox' = [inbox EXCEPT ![job[h].delivery] = [status |-> "ignored", row |-> 0]]
    /\ Done(h)
    /\ UNCHANGED <<outside, rows, nextRow, commands, nextCommand>>

Slip_CommitsEach == TRUE

\* What a push makes is committed with the answer, not as it is made.
CommitsEach == FALSE

\* The deployment that a matching project <<p, settings>> gets from push j.
PushedRow(j, match) ==
    Deployment(nextRow, match[1], Snapshot(match[2], j.commit.branch), j.commit, j.delivery, 0)

\* The deployment of one more of the projects that matched.
Create(h) ==
    /\ pc[h] = "held"
    /\ \E match \in job[h].matches :
        /\ match[1] \notin Made(job[h])
        /\ CanInsert(match[1])
        /\ Becomes(h, "held", [job[h] EXCEPT !.mine = @ \cup {PushedRow(job[h], match)}])
        /\ rows' = IF CommitsEach THEN rows \cup {PushedRow(job[h], match)} ELSE rows
    /\ nextRow' = nextRow + 1
    /\ UNCHANGED <<outside, inbox, commands, nextCommand>>

\* A project that matched is gone: the failed insert takes the transaction with it.
PushFails(h) ==
    /\ pc[h] = "held"
    /\ \E match \in job[h].matches : match[1] \notin Made(job[h]) /\ ~CanInsert(match[1])
    /\ Done(h)
    /\ UNCHANGED <<outside, tables, nextRow, nextCommand>>

\* All are made: they are committed with the delivery.
Accept(h) ==
    /\ pc[h] = "held"
    /\ job[h].matches # {}
    /\ \A match \in job[h].matches : match[1] \in Made(job[h])
    /\ rows' = rows \cup job[h].mine
    /\ \E r \in job[h].mine :
        inbox' = [inbox EXCEPT ![job[h].delivery] =
            [status |-> "accepted",
             row |-> IF Cardinality(job[h].mine) = 1 THEN r.id ELSE 0]]
    /\ Done(h)
    /\ UNCHANGED <<outside, nextRow, commands, nextCommand>>

-------------------------------------------------------------------------------
(* Deploy, redeploy and retry *)

\* POST /deploy: the project's settings, and the branch asked for.
DeployArrives(h, p, b) ==
    /\ pc[h] = "idle"
    /\ project[p] # None
    /\ Becomes(h, "resolve", [kind |-> "deploy", project |-> p, branch |-> b,
                              from |-> 0, spec |-> Snapshot(project[p], b), commit |-> None])
    /\ UNCHANGED <<outside, tables, nextRow, nextCommand>>

\* POST /redeploy: the project's settings, and the branch of its latest deployment.
RedeployArrives(h, r) ==
    /\ Latest(r)
    /\ DeployArrives(h, r.project, r.spec.branch)

\* git ls-remote answers with the commit the branch is at.
Resolve(h) ==
    /\ pc[h] = "resolve"
    /\ LET b == job[h].branch
       IN  Becomes(h, "insert", [job[h] EXCEPT !.commit = [branch |-> b, at |-> head[b]]])
    /\ UNCHANGED <<outside, tables, nextRow, nextCommand>>

\* Or fails: 409.
ResolveFails(h) ==
    /\ pc[h] = "resolve"
    /\ Done(h)
    /\ UNCHANGED <<outside, tables, nextRow, nextCommand>>

Slip_CurrentSettings(h, r) ==
    /\ pc[h] = "idle"
    /\ Becomes(h, "insert", [kind |-> "deploy", project |-> r.project,
                             branch |-> r.spec.branch, from |-> r.id,
                             spec |-> Snapshot(project[r.project], r.spec.branch),
                             commit |-> r.commit])
    /\ UNCHANGED <<outside, tables, nextRow, nextCommand>>

\* POST /retry: the settings and the commit of the deployment it retries.
RetryArrives(h, r) ==
    /\ pc[h] = "idle"
    /\ Becomes(h, "insert", [kind |-> "deploy", project |-> r.project,
                             branch |-> r.spec.branch, from |-> r.id, spec |-> r.spec, commit |-> r.commit])
    /\ UNCHANGED <<outside, tables, nextRow, nextCommand>>

\* Build and deployment are inserted and committed together.
InsertRow(h) ==
    /\ pc[h] = "insert"
    /\ CanInsert(job[h].project)
    /\ rows' = rows \cup {Deployment(nextRow, job[h].project, job[h].spec,
                                     job[h].commit, None, job[h].from)}
    /\ nextRow' = nextRow + 1
    /\ Done(h)
    /\ UNCHANGED <<outside, inbox, commands, nextCommand>>

DeployFails(h) ==
    /\ pc[h] = "insert"
    /\ ~CanInsert(job[h].project)
    /\ Done(h)
    /\ UNCHANGED <<outside, tables, nextRow, nextCommand>>

-------------------------------------------------------------------------------
(* Stop and cleanup *)

Slip_AnyStatus(r, t) == {c \in commands : c.row = r /\ c.type = t}

\* The commands the lookup takes for the answer: active ones of this type.
Reusable(r, t) == ActiveCommands(r, t)

\* POST /stop or /cleanup on deployment r: the handler looks for an active
\* command and answers with the earliest.
CommandArrives(h, r, t) ==
    /\ pc[h] = "idle"
    /\ LET asked(c) == [kind |-> "command", row |-> r.id, type |-> t, command |-> c,
                        over |-> {k.id : k \in {k \in commands : ~k.active}}]
       IN  \/ /\ Reusable(r.id, t) = {}
              /\ Becomes(h, "post", asked(0))
           \/ \E c \in Reusable(r.id, t) :
                /\ \A k \in Reusable(r.id, t) : c.id <= k.id
                /\ Becomes(h, "answer", asked(c.id))
    /\ UNCHANGED <<outside, tables, nextRow, nextCommand>>

Slip_NoKey(r, t) == FALSE

\* The unique key (deployment, type, active_key): an active command is there.
KeyTaken(r, t) == ActiveCommands(r, t) # {}

\* A transaction that has inserted one makes the others wait.
KeyHeld(h, r, t) == \E other \in Handlers \ {h} : HoldsCommand(other, r, t)

Post(h) ==
    /\ pc[h] = "post"
    /\ ~KeyHeld(h, job[h].row, job[h].type)
    /\ ~KeyTaken(job[h].row, job[h].type)
    /\ Exists(job[h].row)
    /\ nextCommand <= MaxCommands
    /\ Becomes(h, "posted", [job[h] EXCEPT !.command = nextCommand])
    /\ nextCommand' = nextCommand + 1
    /\ UNCHANGED <<outside, tables, nextRow>>

\* The key is taken: the transaction rolls back and reads again.
PostConflicts(h) ==
    /\ pc[h] = "post"
    /\ ~KeyHeld(h, job[h].row, job[h].type)
    /\ KeyTaken(job[h].row, job[h].type)
    /\ Becomes(h, "reread", job[h])
    /\ UNCHANGED <<outside, tables, nextRow, nextCommand>>

\* The deployment is gone.
PostFails(h) ==
    /\ pc[h] = "post"
    /\ ~Exists(job[h].row) \/ nextCommand > MaxCommands
    /\ Done(h)
    /\ UNCHANGED <<outside, tables, nextRow, nextCommand>>

CommitCommand(h) ==
    /\ pc[h] = "posted"
    /\ commands' = commands \cup
        {[id |-> job[h].command, row |-> job[h].row, type |-> job[h].type, active |-> TRUE]}
    /\ Becomes(h, "answer", job[h])
    /\ UNCHANGED <<outside, rows, nextRow, inbox, nextCommand>>

\* The winner's command, if it is still active.
Reread(h) ==
    /\ pc[h] = "reread"
    /\ \E c \in ActiveCommands(job[h].row, job[h].type) :
        Becomes(h, "answer", [job[h] EXCEPT !.command = c.id])
    /\ UNCHANGED <<outside, tables, nextRow, nextCommand>>

Slip_SameSnapshot(h) ==
    /\ pc[h] = "reread"
    /\ ActiveCommands(job[h].row, job[h].type) = {}
    /\ UNCHANGED vars

\* It has ended since: the IntegrityError is raised again, a 500.
NothingToReread(h) ==
    /\ pc[h] = "reread"
    /\ ActiveCommands(job[h].row, job[h].type) = {}
    /\ Done(h)
    /\ UNCHANGED <<outside, tables, nextRow, nextCommand>>

\* 202 with the command.
Answer(h) ==
    /\ pc[h] = "answer"
    /\ Done(h)
    /\ UNCHANGED <<outside, tables, nextRow, nextCommand>>

-------------------------------------------------------------------------------
\* The process or its connection dies, or a statement fails, at any point.
RequestFails(h) ==
    /\ pc[h] # "idle"
    /\ Done(h)
    /\ UNCHANGED <<outside, tables, nextRow, nextCommand>>

\* What the handler of an open request does next.
Handle(h) ==
    \/ Duplicate(h) \/ Reserve(h) \/ Ignore(h) \/ Create(h) \/ PushFails(h) \/ Accept(h)
    \/ Resolve(h) \/ ResolveFails(h) \/ InsertRow(h) \/ DeployFails(h)
    \/ Post(h) \/ PostConflicts(h) \/ PostFails(h) \/ CommitCommand(h)
    \/ Reread(h) \/ NothingToReread(h) \/ Answer(h)

Arrives(h) ==
    \/ \E g \in Deliveries : PushArrives(h, g)
    \/ \E p \in Projects, b \in Branches : DeployArrives(h, p, b)
    \/ \E r \in rows : RedeployArrives(h, r) \/ RetryArrives(h, r)
                      \/ \E t \in CommandTypes : CommandArrives(h, r, t)

Outside ==
    \/ \E b \in Branches : \/ \E g \in Deliveries : Push(g, b)
                          \/ \E p \in Projects : EditProject(p, b)
    \/ \E p \in Projects : DeleteProject(p)
    \/ \E c \in commands : EndCommand(c)

Next == Outside \/ \E h \in Handlers : Handle(h) \/ Arrives(h) \/ RequestFails(h)

Spec == Init /\ [][Next]_vars

\* A thread that runs gets on with its request, and a lock that is released
\* goes to a transaction that waits for it.
FairSpec == Spec /\ \A h \in Handlers : SF_vars(Handle(h))

-------------------------------------------------------------------------------
(* Properties *)

\* Every variable has its type, and a handler's job is the one its pc works on.
TypeOK ==
    /\ project \in [Projects -> Settings \cup {None}]
    /\ head \in [Branches -> Nat]
    /\ pushed \in [Deliveries -> Commits \cup {None}]
    /\ rows \subseteq Deployments
    /\ nextRow \in 1..MaxRows + 1
    /\ inbox \in [Deliveries -> Answers \cup {None}]
    /\ commands \subseteq Commands
    /\ nextCommand \in 1..MaxCommands + 1
    /\ DOMAIN pc = Handlers /\ DOMAIN job = Handlers
    /\ \A h \in Handlers :
        \/ pc[h] = "idle" /\ job[h] = IdleJob
        \/ pc[h] \in {"reserve", "held"} /\ job[h] \in PushJobs
        \/ pc[h] = "resolve" /\ job[h] \in DeployJobs({None})
        \/ pc[h] = "insert" /\ job[h] \in DeployJobs(Commits)
        \/ pc[h] \in {"post", "reread"} /\ job[h] \in CommandJobs({0})
        \/ pc[h] \in {"posted", "answer"} /\ job[h] \in CommandJobs(1..MaxCommands)

\* However many stop or cleanup requests race, a deployment has at most one
\* active command of a type: the unique key decides, the others join it.
OneActiveCommand ==
    \A c, k \in commands :
        c.active /\ k.active /\ c.row = k.row /\ c.type = k.type => c = k

\* A stop or cleanup that is answered 202 names a command that was not over
\* when the request arrived: what is asked is still to be done, or is done
\* after it was asked, never an old command's work taken for it.
AnswersWithItsOwn ==
    \A h \in Handlers : pc[h] = "answer" => job[h].command \notin job[h].over

\* The commit a deployment builds is one that the branch of its frozen
\* settings has been at, whatever edits and pushes come in between the
\* request, the resolution of the branch and the insert. (Not said of records that
\* an administrator inserts with POST /deployments and a commit of his own.)
CommitOnBranch ==
    \A r \in rows : /\ r.commit.branch = r.spec.branch
                    /\ r.commit.at <= head[r.commit.branch]

\* A retry runs the settings and the commit of what it retries, although the
\* project was edited and the branch moved.
RetryReproduces ==
    \A r \in rows : r.from # 0 => \E s \in rows :
        /\ s.id = r.from
        /\ s.project = r.project /\ s.spec = r.spec /\ s.commit = r.commit

\* A request is answered, or fails: transactions that wait for each other's
\* keys never wait for good.
Answered == \A h \in Handlers : pc[h] # "idle" ~> pc[h] = "idle"

-------------------------------------------------------------------------------
(* Refinement *)

answered == [g \in Deliveries |-> IF inbox[g] = None THEN "no" ELSE inbox[g].status]
made == [g \in Deliveries |-> [p \in Projects |->
            {r.id : r \in {s \in rows : s.delivery = g /\ s.project = p}}]]

Deliver == INSTANCE Inbox WITH Ids <- 1..MaxRows

\* A delivery is answered once, and makes all of its deployments in the step
\* that accepts it, though GitHub repeats it and handlers race and die.
InboxSpec == Deliver!Spec

===============================================================================
