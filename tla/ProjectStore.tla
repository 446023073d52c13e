---------------------------- MODULE ProjectStore ----------------------------
(***************************************************************************)
(* The backend's project in PostgreSQL and the commands that change it     *)
(* (backend/internal/adapters/project, backend/internal/application/       *)
(* command, backend/internal/application/domain/model).                    *)
(*                                                                         *)
(* Most commands retrieve the whole project with one query per table,      *)
(* outside any transaction, change it in memory and write all of it back   *)
(* in one transaction; some insert or delete one row.  A request is one    *)
(* command of one HTTP request, on any backend.  Requests share nothing    *)
(* but the database, which runs at READ COMMITTED: a row that was written  *)
(* is locked until its transaction ends, and a statement that meets a lock *)
(* waits and then sees what was committed.                                 *)
(*                                                                         *)
(* retryOnConflict around UpdateWorkflow is one attempt: errors.Is compares*)
(* with the zero InvalidError, which no step returns.                      *)
(***************************************************************************)
EXTENDS Naturals, FiniteSets

CONSTANTS
    Requests,       \* commands
    Workflows,      \* workflow ids
    Credentials,    \* credential ids; every flow uses all of them
    Project,        \* the project's own row: name and auth provider
    Original,       \* what a row held before any request
    Absent,         \* no such row; no compiled flow; no lock; no statement
    MaxFaults       \* bound: statements and publications that fail

ASSUME NamesAssumption ==
    /\ Workflows \cap Credentials = {}
    /\ Project \notin Workflows \cup Credentials
    /\ Absent \notin Requests \cup {Original, Project} \cup Workflows \cup Credentials
    /\ Original \notin Requests
ASSUME FaultsAssumption == MaxFaults \in Nat

Parts == Credentials \cup Workflows
Rows == {Project} \cup Parts

\* The text a request writes is the request itself.
Texts == Requests \cup {Original}

\* A compiled flow: the builder flow it was compiled from, with the API keys.
Compiled == [flow : Texts, keys : [Credentials -> Texts]]
WorkflowRows == [flow : Texts, runner : Compiled \cup {Absent}]
ASSUME AbsentAssumption == Absent \notin Compiled \cup WorkflowRows

Values == Texts \cup {Absent} \cup WorkflowRows

\* A project, stored or retrieved: its rows.
IsProject(p) ==
    /\ p \in [Rows -> Values]
    /\ p[Project] \in Texts
    /\ \A c \in Credentials : p[c] \in Texts \cup {Absent}
    /\ \A w \in Workflows : p[w] \in WorkflowRows \cup {Absent}

\* What a request does, and to which row. UpdateProjectName and
\* UpdateAuthProvider are "update" of the project's own row.
Kinds == {"update", "add", "remove", "trigger"}
Targets(k) ==
    CASE k = "update"             -> Rows
      [] k \in {"add", "remove"}  -> Parts
      [] k = "trigger"            -> Workflows

\* Where a request waits: before its first query, for the answer to a query
\* of Retrieve, for its INSERT, for the publication, in the transaction of
\* Update before its SELECT and in one of its statements.
Phases == {"new", "credentials", "workflows", "insert", "queue", "begin",
           "update", "done"}
Results == {"none", "ok", "failed"}

VARIABLES
    kind, target,           \* what each request does
    db, version, holder,    \* PostgreSQL: rows, projects.version, row locks
    phase, mem, base, want, \* requests: mem[r] is r's *model.Project, base[r]
                            \* the version it read, want[r] the row its
                            \* current statement writes
    result,                 \* the answer to the client
    dirty,                  \* history: rows that others changed since r began
    faults

command == <<kind, target>>
vars == <<command, db, version, holder, phase, mem, base, want, result, dirty, faults>>

NoProject == [x \in Rows |-> IF x = Project THEN Original ELSE Absent]

\* NewProject and CreateProject, and any credentials and workflows.
Init ==
    /\ kind \in [Requests -> Kinds]
    /\ target \in {t \in [Requests -> Rows] : \A r \in Requests : t[r] \in Targets(kind[r])}
    /\ \E there \in SUBSET Parts :
          db = [x \in Rows |->
                  CASE x = Project                    -> Original
                    [] x \in Parts \ there            -> Absent
                    [] x \in Credentials \cap there   -> Original
                    [] x \in Workflows \cap there     ->
                          [flow |-> Original, runner |-> Absent]]
    /\ version = 1
    /\ holder = [x \in Rows |-> Absent]
    /\ phase = [r \in Requests |-> "new"]
    /\ mem = [r \in Requests |-> NoProject]
    /\ base = [r \in Requests |-> 0]
    /\ want = [r \in Requests |-> Absent]
    /\ result = [r \in Requests |-> "none"]
    /\ dirty = [r \in Requests |-> {}]
    /\ faults = 0

Answer(r, a) == result' = [result EXCEPT ![r] = IF @ = "none" THEN a ELSE @]

\* r changes the rows of S: whoever has begun to read may hold older values.
Touches(r, S) ==
    dirty' = [q \in Requests |-> IF q # r /\ phase[q] \notin {"new", "done"}
                                 THEN dirty[q] \cup S ELSE dirty[q]]

\* Mutant: withTx returns an error without rolling back.
EndWithoutRollback(r) ==
    /\ phase' = [phase EXCEPT ![r] = "done"]
    /\ holder' = [x \in Rows |-> IF holder[x] = r /\ want[r] = Absent
                                 THEN Absent ELSE holder[x]]
    /\ mem' = [mem EXCEPT ![r] = NoProject]
    /\ base' = [base EXCEPT ![r] = 0]
    /\ want' = [want EXCEPT ![r] = Absent]

\* r ends: its locks go, and with them whatever it did not commit.
End(r) ==
    /\ phase' = [phase EXCEPT ![r] = "done"]
    /\ holder' = [x \in Rows |-> IF holder[x] = r THEN Absent ELSE holder[x]]
    /\ mem' = [mem EXCEPT ![r] = NoProject]
    /\ base' = [base EXCEPT ![r] = 0]
    /\ want' = [want EXCEPT ![r] = Absent]

-----------------------------------------------------------------------------
(* Retrieve: projects, credentials, workflows, one query after the other.  *)

RetrieveProject(r) ==
    /\ phase[r] = "new"
    /\ kind[r] # "remove"
    /\ mem' = [mem EXCEPT ![r][Project] = db[Project]]
    /\ phase' = [phase EXCEPT ![r] = "credentials"]
    /\ UNCHANGED <<command, db, version, holder, base, want, result, dirty, faults>>

RetrieveCredentials(r) ==
    /\ phase[r] = "credentials"
    /\ mem' = [mem EXCEPT ![r] =
                 [x \in Rows |-> IF x \in Credentials THEN db[x] ELSE @[x]]]
    /\ phase' = [phase EXCEPT ![r] = "workflows"]
    /\ UNCHANGED <<command, db, version, holder, base, want, result, dirty, faults>>

\* ComputeRunnerFlow: a credential that is missing is an error.
CanCompile(p) == \A c \in Credentials : p[c] # Absent
ComputeRunnerFlow(p, w) == [flow |-> p[w].flow, keys |-> [c \in Credentials |-> p[c]]]

\* Mutant: a credential that is missing is compiled as none.
ApplicableUnchecked(r, p) ==
    CASE kind[r] = "add"      -> TRUE
      [] kind[r] = "update"   -> p[target[r]] # Absent
      [] kind[r] = "trigger"  -> p[target[r]] # Absent

\* Whether the change of the model objects succeeds on the project p.
Applicable(r, p) ==
    CASE kind[r] = "add"      -> TRUE
      [] kind[r] = "update"   -> p[target[r]] # Absent
      [] kind[r] = "trigger"  ->
            /\ p[target[r]] # Absent
            /\ p[target[r]].runner # Absent \/ CanCompile(p)

\* Mutant: UpdateWorkflowBuilderFlow keeps the compiled flow.
ChangedKeepingCache(r, p) ==
    LET t == target[r] IN
    CASE kind[r] = "add"                           -> p
      [] kind[r] = "update" /\ t \notin Workflows  -> [p EXCEPT ![t] = r]
      [] kind[r] = "update" /\ t \in Workflows     -> [p EXCEPT ![t].flow = r]
      [] kind[r] = "trigger" /\ p[t].runner # Absent -> p
      [] kind[r] = "trigger" /\ p[t].runner = Absent ->
            [p EXCEPT ![t].runner = ComputeRunnerFlow(p, t)]

\* UpdateName, NewAuthProvider, UpdateCredential, UpdateWorkflowBuilderFlow
\* (which drops the compiled flow) and ComputeWorkflow (which keeps one that
\* is there).
Changed(r, p) ==
    LET t == target[r] IN
    CASE kind[r] = "add"                           -> p
      [] kind[r] = "update" /\ t \notin Workflows  -> [p EXCEPT ![t] = r]
      [] kind[r] = "update" /\ t \in Workflows     ->
            [p EXCEPT ![t] = [flow |-> r, runner |-> Absent]]
      [] kind[r] = "trigger" /\ p[t].runner # Absent -> p
      [] kind[r] = "trigger" /\ p[t].runner = Absent ->
            [p EXCEPT ![t].runner = ComputeRunnerFlow(p, t)]

\* Mutant: the repository returns the flows it saw when it was first asked,
\* whatever was stored since.
RetrieveWorkflowsCached(r) ==
    /\ phase[r] = "workflows"
    /\ LET p == [x \in Rows |->
                   CASE x \notin Workflows -> mem[r][x]
                     [] x \in Workflows /\ db[x] # Absent ->
                           [flow |-> Original, runner |-> Absent]
                     [] OTHER -> Absent]
       IN  IF Applicable(r, p)
           THEN /\ mem' = [mem EXCEPT ![r] = Changed(r, p)]
                /\ phase' = [phase EXCEPT ![r] =
                      CASE kind[r] = "add"      -> "insert"
                        [] kind[r] = "update"   -> "begin"
                        [] kind[r] = "trigger"  -> "queue"]
                /\ UNCHANGED <<holder, base, want, result>>
           ELSE End(r) /\ Answer(r, "failed")
    /\ UNCHANGED <<command, db, version, dirty, faults>>

\* The last query, and the change of the model objects.
RetrieveWorkflows(r) ==
    /\ phase[r] = "workflows"
    /\ LET p == [x \in Rows |-> IF x \in Workflows THEN db[x] ELSE mem[r][x]]
       IN  IF Applicable(r, p)
           THEN /\ mem' = [mem EXCEPT ![r] = Changed(r, p)]
                /\ phase' = [phase EXCEPT ![r] =
                      CASE kind[r] = "add"      -> "insert"
                        [] kind[r] = "update"   -> "begin"
                        [] kind[r] = "trigger"  -> "queue"]
                /\ UNCHANGED <<holder, base, want, result>>
           ELSE End(r) /\ Answer(r, "failed")
    /\ UNCHANGED <<command, db, version, dirty, faults>>

-----------------------------------------------------------------------------
(* One-row commands, outside a transaction.                                *)

NewRow(r, x) ==
    IF x \in Workflows THEN [flow |-> r, runner |-> Absent] ELSE r

\* AddWorkflow, AddCredential: INSERT, an id that is taken is an error.
Insert(r) ==
    /\ phase[r] = "insert"
    /\ holder[target[r]] = Absent
    /\ IF db[target[r]] = Absent
       THEN /\ db' = [db EXCEPT ![target[r]] = NewRow(r, target[r])]
            /\ Touches(r, {target[r]})
            /\ Answer(r, "ok")
       ELSE UNCHANGED <<db, dirty>> /\ Answer(r, "failed")
    /\ End(r)
    /\ UNCHANGED <<command, version, faults>>

\* DeleteWorkflow, DeleteCredential: DELETE, of no row if there is none.
Remove(r) ==
    /\ phase[r] = "new"
    /\ kind[r] = "remove"
    /\ holder[target[r]] = Absent
    /\ db' = [db EXCEPT ![target[r]] = Absent]
    /\ Touches(r, {target[r]})
    /\ Answer(r, "ok")
    /\ End(r)
    /\ UNCHANGED <<command, version, faults>>

-----------------------------------------------------------------------------
(* TriggerWorkflow answers once the job is queued; a goroutine then stores *)
(* the project.                                                            *)

QueueWorkflow(r) ==
    /\ phase[r] = "queue"
    /\ Answer(r, "ok")
    /\ phase' = [phase EXCEPT ![r] = "begin"]
    /\ UNCHANGED <<command, db, version, holder, mem, base, want, dirty, faults>>

-----------------------------------------------------------------------------
(* Update: one transaction.                                                *)

\* It reads the row it is about to write, and sends the first statement.
BeginUpdate(r) ==
    /\ phase[r] = "begin"
    /\ base' = [base EXCEPT ![r] = version]
    /\ want' = [want EXCEPT ![r] = Project]
    /\ phase' = [phase EXCEPT ![r] = "update"]
    /\ UNCHANGED <<command, db, version, holder, mem, result, dirty, faults>>

\* Rows still to be upserted once the statement on x is done.
Unwritten(r, x) == {y \in Parts \ {x} : mem[r][y] # Absent /\ holder[y] # r}

\* The next one: credentials before workflows, in the order of a Go map.
NextRows(S) ==
    CASE S = {}                                  -> {Absent}
      [] S # {} /\ S \cap Credentials # {}       -> S \cap Credentials
      [] OTHER                                   -> S

\* A statement runs once nobody else has the row locked. updateProject
\* matches no row when the version has moved on, which is no error; an upsert
\* always writes.
Statement(r) ==
    /\ phase[r] = "update"
    /\ want[r] # Absent
    /\ holder[want[r]] = Absent
    /\ LET x == want[r] IN
          /\ holder' = IF x = Project /\ version # base[r] THEN holder
                       ELSE [holder EXCEPT ![x] = r]
          /\ \E y \in NextRows(Unwritten(r, x)) : want' = [want EXCEPT ![r] = y]
    /\ UNCHANGED <<command, db, version, phase, mem, base, result, dirty, faults>>

\* Mutant: the upserts do nothing on conflict, as storeAPIKey.
CommitInsertsOnly(r) ==
    /\ phase[r] = "update"
    /\ want[r] = Absent
    /\ db' = [x \in Rows |-> IF holder[x] = r /\ (x = Project \/ db[x] = Absent)
                             THEN mem[r][x] ELSE db[x]]
    /\ version' = IF holder[Project] = r THEN version + 1 ELSE version
    /\ Touches(r, {x \in Rows : holder[x] = r})
    /\ Answer(r, "ok")
    /\ End(r)
    /\ UNCHANGED <<command, faults>>

\* COMMIT: every row that was written takes the value from memory.
Commit(r) ==
    /\ phase[r] = "update"
    /\ want[r] = Absent
    /\ db' = [x \in Rows |-> IF holder[x] = r THEN mem[r][x] ELSE db[x]]
    /\ version' = IF holder[Project] = r THEN version + 1 ELSE version
    /\ Touches(r, {x \in Rows : holder[x] = r /\ mem[r][x] # db[x]})
    /\ Answer(r, "ok")
    /\ End(r)
    /\ UNCHANGED <<command, faults>>

\* r waits for a lock in a circle of requests that wait for one another.
InWaitCycle(r) ==
    \E S \in SUBSET Requests :
        /\ r \in S
        /\ \A p \in S : /\ want[p] # Absent
                        /\ holder[want[p]] \in S
                        /\ \E q \in S : want[q] # Absent /\ holder[want[q]] = p

\* PostgreSQL aborts one transaction of such a circle, and withTx rolls back.
Deadlocked(r) ==
    /\ InWaitCycle(r)
    /\ End(r)
    /\ Answer(r, "failed")
    /\ UNCHANGED <<command, db, version, dirty, faults>>

\* A query, a statement or the publication fails, the client goes away, or
\* the process ends: the command returns an error and withTx, or the server
\* that loses the connection, rolls back.
Fail(r) ==
    /\ phase[r] \notin {"new", "done"}
    /\ faults < MaxFaults
    /\ faults' = faults + 1
    /\ End(r)
    /\ Answer(r, "failed")
    /\ UNCHANGED <<command, db, version, dirty>>

-----------------------------------------------------------------------------
Handle(r) ==
    \/ RetrieveProject(r)
    \/ RetrieveCredentials(r)
    \/ RetrieveWorkflows(r)
    \/ Insert(r)
    \/ Remove(r)
    \/ QueueWorkflow(r)
    \/ BeginUpdate(r)
    \/ Statement(r)
    \/ Commit(r)
    \/ Deadlocked(r)

Next == \E r \in Requests : Handle(r) \/ Fail(r)

Spec == Init /\ [][Next]_vars

\* A request that began goes on, PostgreSQL answers, grants the lock that
\* is free again and breaks deadlocks.
Fairness == \A r \in Requests : WF_vars(Handle(r))

FairSpec == Spec /\ Fairness

-----------------------------------------------------------------------------
TypeOK ==
    /\ kind \in [Requests -> Kinds]
    /\ target \in [Requests -> Rows]
    /\ \A r \in Requests : target[r] \in Targets(kind[r])
    /\ IsProject(db)
    /\ version \in Nat
    /\ holder \in [Rows -> Requests \cup {Absent}]
    /\ phase \in [Requests -> Phases]
    /\ mem \in [Requests -> [Rows -> Values]]
    /\ \A r \in Requests : IsProject(mem[r])
    /\ base \in [Requests -> 0..version]
    /\ want \in [Requests -> Rows \cup {Absent}]
    /\ result \in [Requests -> Results]
    /\ dirty \in [Requests -> SUBSET Rows]
    /\ faults \in 0..MaxFaults

CacheOf(p) ==
    \A w \in Workflows :
        p[w] # Absent /\ p[w].runner # Absent => p[w].runner.flow = p[w].flow

(* A stored compiled flow is the compilation of the builder flow stored    *)
(* with it: a runner is never sent the graph of an older version out of    *)
(* the cache, whichever copies of the project are written back over each   *)
(* other, whole or after a deadlock not at all.                            *)
CacheMatchesFlow == CacheOf(db)

(* Writing a whole project back changes, beside the row the command is     *)
(* about, only rows that another request changed while the command ran:    *)
(* updates are lost or undone by overlapping commands and no others.       *)
DisturbsOnlyWhatChanged ==
    [][\A r \in Requests : phase[r] = "update" /\ phase'[r] = "done" =>
          \A x \in Rows \ dirty[r] :
              \/ db'[x] = db[x]
              \/ x = target[r] /\ kind[r] = "update"
              \/ x = target[r] /\ kind[r] = "trigger" /\ db'[x].flow = db[x].flow]_vars

(* A command that answers with success has stored its change, although it  *)
(* writes next to others, waits for their locks and may find the version   *)
(* moved on.  The one exception is the project's own row: the statement    *)
(* that finds another version writes nothing and is no error.              *)
AcknowledgedUpdatesStored ==
    [][\A r \in Requests :
          kind[r] = "update" /\ result[r] = "none" /\ result'[r] = "ok" =>
              \/ target[r] = Project /\ version # base[r]
              \/ target[r] = Project /\ db'[Project] = r
              \/ target[r] \in Credentials /\ db'[target[r]] = r
              \/ target[r] \in Workflows /\ db'[target[r]].flow = r]_vars

(* Every request that begins is answered, although transactions lock rows  *)
(* in the random order of Go maps and may wait for each other in a circle. *)
EveryRequestAnswered ==
    \A r \in Requests : (phase[r] # "new") ~> (phase[r] = "done")

-----------------------------------------------------------------------------
(* The parts of the inductive invariant behind CacheMatchesFlow,           *)
(* DisturbsOnlyWhatChanged and AcknowledgedUpdatesStored                   *)
(* (ProjectStoreProofs).                                                   *)

\* No copy of the project holds a compiled flow of another builder flow.
CacheInv == CacheOf(db) /\ \A r \in Requests : CacheOf(mem[r])

\* What r has read so far.
ReadRows(r) ==
    IF phase[r] \in {"new", "done"} THEN {}
    ELSE IF phase[r] = "credentials" THEN {Project}
    ELSE IF phase[r] = "workflows" THEN {Project} \cup Credentials
    ELSE Rows

\* r's copy of a row is the stored one, unless others changed that since, or
\* r itself changed its copy.
Same(r, x) ==
    \/ mem[r][x] = db[x]
    \/ /\ x = target[r]
       /\ phase[r] \in {"queue", "begin", "update"}
       /\ \/ kind[r] = "update"
          \/ /\ kind[r] = "trigger"
             /\ mem[r][x] # Absent
             /\ db[x] # Absent
             /\ mem[r][x].flow = db[x].flow
CopyInv == \A r \in Requests : \A x \in ReadRows(r) \ dirty[r] : Same(r, x)

\* Each phase belongs to a kind of request, and an update has its text in
\* memory before it opens the transaction.
PlanInv ==
    \A r \in Requests :
        /\ phase[r] \in {"credentials", "workflows"} => kind[r] # "remove"
        /\ phase[r] = "insert" => kind[r] = "add"
        /\ phase[r] = "queue" => kind[r] = "trigger"
        /\ phase[r] \in {"begin", "update"} => kind[r] \in {"update", "trigger"}
        /\ phase[r] \in {"begin", "update"} /\ kind[r] = "update" =>
              IF target[r] \in Workflows
              THEN mem[r][target[r]] # Absent /\ mem[r][target[r]].flow = r
              ELSE mem[r][target[r]] = r

\* Only a transaction holds locks; past its first statement it has the
\* project's row or has seen its version move on; after the last one it has
\* every row of its copy.
LockInv ==
    \A r \in Requests :
        /\ \A x \in Rows : holder[x] = r => phase[r] = "update"
        /\ phase[r] = "update" /\ want[r] # Project =>
              holder[Project] = r \/ version # base[r]
        /\ phase[r] = "update" /\ want[r] = Absent =>
              \A y \in Parts : mem[r][y] # Absent => holder[y] = r

StoreInv == TypeOK /\ CacheInv /\ CopyInv /\ PlanInv /\ LockInv
=============================================================================
