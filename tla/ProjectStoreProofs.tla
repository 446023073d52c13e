------------------------- MODULE ProjectStoreProofs -------------------------
(***************************************************************************)
(* Theorems about ProjectStore, for any number of requests, workflows and  *)
(* credentials.  They rest on one inductive invariant, StoreInv: the types,*)
(* the compiled flow in every copy of the project, what a copy has in      *)
(* common with the stored rows, what a request has in hand in each phase,  *)
(* and the locks of a transaction.                                         *)
(***************************************************************************)
EXTENDS ProjectStore, TLAPS

USE NamesAssumption, FaultsAssumption, AbsentAssumption

\* NamesAssumption, as the proofs use it.
LEMMA Names ==
    /\ Absent \notin Requests
    /\ Absent \notin Texts
    /\ Absent \notin Rows
    /\ Absent # Project
    /\ Rows = {Project} \cup Credentials \cup Workflows
    /\ Project \notin Credentials /\ Project \notin Workflows
    /\ Credentials \cap Workflows = {}
BY DEF Texts, Rows, Parts

\* Changing the model objects keeps a project a project, with compiled flows
\* that match, and changes one row in the way the kind of request says.
LEMMA ChangedRow ==
    ASSUME NEW r \in Requests, NEW p, IsProject(p),
           kind[r] \in Kinds, target[r] \in Targets(kind[r]),
           kind[r] # "remove", Applicable(r, p), CacheOf(p)
    PROVE  LET q == Changed(r, p)
               t == target[r]
           IN  /\ IsProject(q)
               /\ CacheOf(q)
               /\ \A x \in Rows \ {t} : q[x] = p[x]
               /\ kind[r] = "add" => q = p
               /\ kind[r] = "trigger" => /\ p[t] # Absent
                                         /\ q[t] # Absent
                                         /\ q[t].flow = p[t].flow
               /\ kind[r] = "update" => IF t \in Workflows
                                        THEN q[t] # Absent /\ q[t].flow = r
                                        ELSE q[t] = r
<1> DEFINE t == target[r]
           q == Changed(r, p)
<1>0. t \in Rows /\ p \in [Rows -> Values]
  BY DEF IsProject, Targets, Kinds, Rows, Parts
<1>1. CASE kind[r] = "add"
  <2>1. q = p
    BY <1>1 DEF Changed
  <2> QED
    BY <1>1, <2>1
<1>2. CASE kind[r] = "update" /\ t \notin Workflows
  <2>1. q = [p EXCEPT ![t] = r]
    BY <1>2 DEF Changed
  <2>2. q[t] = r /\ \A x \in Rows \ {t} : q[x] = p[x]
    BY <2>1, <1>0
  <2>3. q \in [Rows -> Values]
    BY <2>1, <1>0 DEF Values, Texts
  <2>4. IsProject(q)
    BY <2>2, <2>3, <1>0, <1>2, Names DEF IsProject, Texts
  <2>5. CacheOf(q)
    BY <2>2, <1>0, <1>2, Names DEF CacheOf
  <2> QED
    BY <1>2, <2>2, <2>4, <2>5
<1>3. CASE kind[r] = "update" /\ t \in Workflows
  <2> DEFINE row == [flow |-> r, runner |-> Absent]
  <2>1. q = [p EXCEPT ![t] = row]
    BY <1>3 DEF Changed
  <2>2. q[t] = row /\ \A x \in Rows \ {t} : q[x] = p[x]
    BY <2>1, <1>0
  <2>3. row \in WorkflowRows
    BY DEF WorkflowRows, Texts
  <2>4. q \in [Rows -> Values]
    BY <2>1, <2>3, <1>0 DEF Values
  <2>5. IsProject(q)
    BY <2>2, <2>3, <2>4, <1>0, <1>3, Names DEF IsProject
  <2>6. CacheOf(q)
    BY <2>2, <1>0, Names DEF CacheOf
  <2>7. row # Absent
    BY <1>3, <2>3 DEF WorkflowRows, Texts
  <2> QED
    BY <1>3, <2>2, <2>5, <2>6, <2>7
<1>4. CASE kind[r] = "trigger"
  <2>1. t \in Workflows /\ p[t] \in WorkflowRows
    BY <1>4 DEF Targets, Applicable, IsProject
  <2>2. CASE p[t].runner # Absent
    <3>1. q = p
      BY <1>4, <2>2 DEF Changed
    <3>2. p[t] # Absent
      BY <1>4 DEF Applicable
    <3> QED
      BY <1>4, <3>1, <3>2
  <2>3. CASE p[t].runner = Absent
    <3> DEFINE compiled == ComputeRunnerFlow(p, t)
               row == [p[t] EXCEPT !.runner = compiled]
    <3>1. q = [p EXCEPT ![t] = row]
      BY <1>4, <2>3, <1>0 DEF Changed
    <3>2. q[t] = row /\ \A x \in Rows \ {t} : q[x] = p[x]
      BY <3>1, <1>0
    <3>3. compiled \in Compiled /\ compiled.flow = p[t].flow
      BY <1>4, <2>1, <2>3 DEF ComputeRunnerFlow, Compiled, Applicable, CanCompile, IsProject, WorkflowRows
    <3>4. row \in WorkflowRows /\ row.flow = p[t].flow /\ row.runner = compiled
      BY <2>1, <3>3 DEF WorkflowRows
    <3>5. q \in [Rows -> Values]
      BY <3>1, <3>4, <1>0 DEF Values
    <3>6. IsProject(q)
      BY <3>2, <3>4, <3>5, <1>0, <2>1, Names DEF IsProject
    <3>7. CacheOf(q)
      BY <3>2, <3>3, <3>4, <1>0, Names DEF CacheOf
    <3>8. p[t] # Absent /\ row # Absent
      BY <1>4, <3>4 DEF Applicable
    <3> HIDE DEF row, compiled
    <3> QED
      BY <1>4, <3>2, <3>4, <3>6, <3>7, <3>8
  <2> QED
    BY <2>2, <2>3
<1> QED
  BY <1>1, <1>2, <1>3, <1>4 DEF Kinds

-----------------------------------------------------------------------------
\* No copy of the project: its row has a text, no other row is there.
LEMMA NoProjectFacts == IsProject(NoProject) /\ CacheOf(NoProject)
<1>1. NoProject \in [Rows -> Values]
  BY DEF NoProject, Values, Texts
<1>2. NoProject[Project] = Original /\ \A x \in Parts : NoProject[x] = Absent
  BY Names DEF NoProject, Rows, Parts
<1>3. QED
  BY <1>1, <1>2 DEF IsProject, CacheOf, Texts, Parts

\* A request that ends keeps nothing, and keeps the types.
LEMMA Ended ==
    ASSUME TypeOK, NEW r \in Requests, End(r)
    PROVE  /\ phase' \in [Requests -> Phases]
           /\ holder' \in [Rows -> Requests \cup {Absent}]
           /\ mem' \in [Requests -> [Rows -> Values]]
           /\ \A q \in Requests : IsProject(mem'[q])
           /\ base' \in [Requests -> 0..version]
           /\ want' \in [Requests -> Rows \cup {Absent}]
           /\ phase'[r] = "done"
           /\ mem'[r] = NoProject
           /\ want'[r] = Absent
           /\ \A x \in Rows : holder'[x] # r
<1>1. NoProject \in [Rows -> Values] /\ IsProject(NoProject)
  BY NoProjectFacts DEF IsProject
<1>2. phase' \in [Requests -> Phases] /\ phase'[r] = "done"
  BY DEF TypeOK, End, Phases
<1>3. holder' \in [Rows -> Requests \cup {Absent}] /\ \A x \in Rows : holder'[x] # r
  BY Names DEF TypeOK, End
<1>4. /\ mem' \in [Requests -> [Rows -> Values]]
      /\ mem'[r] = NoProject
      /\ \A q \in Requests : IsProject(mem'[q])
  BY <1>1 DEF TypeOK, End
<1>5. base' \in [Requests -> 0..version]
  BY DEF TypeOK, End
<1>6. want' \in [Requests -> Rows \cup {Absent}] /\ want'[r] = Absent
  BY DEF TypeOK, End
<1>7. QED
  BY <1>2, <1>3, <1>4, <1>5, <1>6

\* What the last query completes is a project with matching compiled flows.
LEMMA Retrieved ==
    ASSUME StoreInv, NEW r \in Requests
    PROVE  LET p == [x \in Rows |-> IF x \in Workflows THEN db[x] ELSE mem[r][x]]
           IN  IsProject(p) /\ CacheOf(p)
<1> DEFINE p == [x \in Rows |-> IF x \in Workflows THEN db[x] ELSE mem[r][x]]
<1>1. IsProject(db) /\ IsProject(mem[r]) /\ CacheOf(db)
  BY DEF StoreInv, TypeOK, CacheInv
<1>2. p \in [Rows -> Values]
  BY <1>1 DEF IsProject
<1>3. /\ p[Project] = mem[r][Project]
      /\ \A c \in Credentials : p[c] = mem[r][c]
      /\ \A w \in Workflows : p[w] = db[w]
  BY Names
<1> HIDE DEF p
<1>4. IsProject(p) /\ CacheOf(p)
  BY <1>1, <1>2, <1>3 DEF IsProject, CacheOf
<1>5. QED
  BY <1>4 DEF p

\* What a step of r leaves to every other request q: all that q holds, a
\* version that can only grow, and rows that either stay or are dirty for q.
LEMMA Others ==
    ASSUME TypeOK, NEW r \in Requests, Handle(r) \/ Fail(r),
           NEW q \in Requests \ {r}
    PROVE  /\ kind' = kind /\ target' = target
           /\ phase'[q] = phase[q] /\ mem'[q] = mem[q]
           /\ base'[q] = base[q] /\ want'[q] = want[q] /\ result'[q] = result[q]
           /\ \A x \in Rows : holder'[x] = q <=> holder[x] = q
           /\ \/ version' = version
              \/ version' = version + 1 /\ holder[Project] = r
           /\ dirty[q] \subseteq dirty'[q]
           /\ \A x \in Rows : \/ db'[x] = db[x]
                              \/ phase[q] \in {"new", "done"}
                              \/ x \in dirty'[q]
<1> USE DEF command
<1>t. /\ phase \in [Requests -> Phases] /\ mem \in [Requests -> [Rows -> Values]]
      /\ base \in [Requests -> 0..version] /\ want \in [Requests -> Rows \cup {Absent}]
      /\ result \in [Requests -> Results] /\ dirty \in [Requests -> SUBSET Rows]
      /\ holder \in [Rows -> Requests \cup {Absent}] /\ db \in [Rows -> Values]
      /\ Absent \notin Requests
  BY Names DEF TypeOK, IsProject
<1> USE <1>t
<1>0. End(r) => /\ phase'[q] = phase[q] /\ mem'[q] = mem[q]
                /\ base'[q] = base[q] /\ want'[q] = want[q]
                /\ \A x \in Rows : holder'[x] = q <=> holder[x] = q
  BY DEF End
<1>1. \A a : Answer(r, a) => result'[q] = result[q]
  BY DEF Answer
<1>2. ASSUME NEW S, Touches(r, S)
      PROVE  dirty[q] \subseteq dirty'[q] /\ (phase[q] \in {"new", "done"} \/ S \subseteq dirty'[q])
  BY <1>2 DEF Touches
<1>3. CASE RetrieveProject(r)
  BY <1>3 DEF RetrieveProject
<1>4. CASE RetrieveCredentials(r)
  BY <1>4 DEF RetrieveCredentials
<1>5. CASE RetrieveWorkflows(r)
  BY <1>0, <1>1, <1>5 DEF RetrieveWorkflows
<1>6. CASE Insert(r)
  <2>1. \A x \in Rows : db'[x] = db[x] \/ x = target[r]
    BY <1>6 DEF Insert
  <2>2. \/ db' = db /\ dirty' = dirty
        \/ Touches(r, {target[r]})
    BY <1>6 DEF Insert
  <2> QED
    BY <1>0, <1>1, <1>2, <1>6, <2>1, <2>2 DEF Insert
<1>7. CASE Remove(r)
  <2>1. \A x \in Rows : db'[x] = db[x] \/ x = target[r]
    BY <1>7 DEF Remove
  <2> QED
    BY <1>0, <1>1, <1>2, <1>7, <2>1 DEF Remove
<1>8. CASE QueueWorkflow(r)
  BY <1>1, <1>8 DEF QueueWorkflow
<1>9. CASE BeginUpdate(r)
  BY <1>9 DEF BeginUpdate
<1>10. CASE Statement(r)
  <2>1. want'[q] = want[q]
    BY <1>10 DEF Statement
  <2>2. want[r] \in Rows /\ holder[want[r]] = Absent
    BY <1>10 DEF Statement
  <2>3. holder' = holder \/ holder' = [holder EXCEPT ![want[r]] = r]
    BY <1>10 DEF Statement
  <2>4. \A x \in Rows : holder'[x] = q <=> holder[x] = q
    BY <2>2, <2>3
  <2> QED
    BY <1>10, <2>1, <2>4 DEF Statement
<1>11. CASE Commit(r)
  <2> DEFINE S == {x \in Rows : holder[x] = r /\ mem[r][x] # db[x]}
  <2>1. \A x \in Rows : db'[x] = db[x] \/ x \in S
    BY <1>11 DEF Commit
  <2>2. Touches(r, S)
    BY <1>11 DEF Commit
  <2>3. version' = version \/ (version' = version + 1 /\ holder[Project] = r)
    BY <1>11 DEF Commit
  <2>4. kind' = kind /\ target' = target /\ End(r) /\ Answer(r, "ok")
    BY <1>11 DEF Commit
  <2> HIDE DEF S
  <2> QED
    BY <1>0, <1>1, <1>2, <2>1, <2>2, <2>3, <2>4
<1>12. CASE Deadlocked(r)
  BY <1>0, <1>1, <1>12 DEF Deadlocked
<1>13. CASE Fail(r)
  BY <1>0, <1>1, <1>13 DEF Fail
<1> QED
  BY <1>3, <1>4, <1>5, <1>6, <1>7, <1>8, <1>9, <1>10, <1>11, <1>12, <1>13 DEF Handle

-----------------------------------------------------------------------------
LEMMA InitStoreInv == Init => StoreInv
<1> SUFFICES ASSUME Init PROVE StoreInv
  OBVIOUS
<1>1. PICK there \in SUBSET Parts :
          db = [x \in Rows |->
                  CASE x = Project                    -> Original
                    [] x \in Parts \ there            -> Absent
                    [] x \in Credentials \cap there   -> Original
                    [] x \in Workflows \cap there     ->
                          [flow |-> Original, runner |-> Absent]]
  BY DEF Init
<1> DEFINE row == [flow |-> Original, runner |-> Absent]
<1>2. row \in WorkflowRows
  BY DEF WorkflowRows, Texts
<1>3. /\ db[Project] = Original
      /\ \A c \in Credentials : db[c] \in {Absent, Original}
      /\ \A w \in Workflows : db[w] \in {Absent, row}
  <2>1. Rows = {Project} \cup Parts /\ Parts = Credentials \cup Workflows
    BY DEF Rows, Parts
  <2> QED
    BY <1>1, <2>1, Names
<1>4. db \in [Rows -> Values]
  <2>1. \A x \in Rows : db[x] \in Values
    BY <1>2, <1>3, Names DEF Values, Texts
  <2> QED
    BY <1>1, <2>1
<1>5. IsProject(db) /\ CacheOf(db)
  <2>1. IsProject(db)
    BY <1>2, <1>3, <1>4 DEF IsProject, Texts
  <2>2. CacheOf(db)
    BY <1>3 DEF CacheOf
  <2> QED
    BY <2>1, <2>2
<1>6. IsProject(NoProject) /\ CacheOf(NoProject) /\ NoProject \in [Rows -> Values]
  BY NoProjectFacts DEF IsProject
<1>7. target \in [Requests -> Rows] /\ \A r \in Requests : target[r] \in Targets(kind[r])
  BY DEF Init
<1>8. TypeOK
  <2>1. kind \in [Requests -> Kinds] /\ version \in Nat /\ base \in [Requests -> 0..version]
    BY DEF Init
  <2>2. /\ holder \in [Rows -> Requests \cup {Absent}]
        /\ want \in [Requests -> Rows \cup {Absent}]
        /\ dirty \in [Requests -> SUBSET Rows]
        /\ faults \in 0..MaxFaults
    BY DEF Init
  <2>3. phase \in [Requests -> Phases] /\ result \in [Requests -> Results]
    BY DEF Init, Phases, Results
  <2>4. mem \in [Requests -> [Rows -> Values]] /\ \A r \in Requests : IsProject(mem[r])
    BY <1>6 DEF Init
  <2> QED
    BY <1>5, <1>7, <2>1, <2>2, <2>3, <2>4 DEF TypeOK
<1>9. CacheInv
  BY <1>5, <1>6 DEF Init, CacheInv
<1>10. CopyInv /\ PlanInv
  BY DEF Init, CopyInv, PlanInv, ReadRows
<1>11. LockInv
  BY Names DEF Init, LockInv
<1>12. QED
  BY <1>8, <1>9, <1>10, <1>11 DEF StoreInv

\* The types, one case per action.
LEMMA TypeStep ==
    ASSUME StoreInv, NEW r \in Requests, Handle(r) \/ Fail(r)
    PROVE  TypeOK'
<1> USE DEF command
<1>0. TypeOK
  BY DEF StoreInv
<1>t. target[r] \in Rows /\ kind[r] \in Kinds /\ target[r] \in Targets(kind[r])
  BY <1>0 DEF TypeOK
<1>1. CASE RetrieveProject(r)
  <2> DEFINE m == [mem[r] EXCEPT ![Project] = db[Project]]
  <2>1. mem' = [mem EXCEPT ![r] = m]
    BY <1>1 DEF RetrieveProject
  <2>2. m \in [Rows -> Values] /\ IsProject(m)
    BY <1>0, Names DEF TypeOK, IsProject
  <2> HIDE DEF m
  <2>3. mem' \in [Requests -> [Rows -> Values]] /\ \A q \in Requests : IsProject(mem'[q])
    BY <1>0, <2>1, <2>2 DEF TypeOK
  <2>4. phase' \in [Requests -> Phases]
    BY <1>0, <1>1 DEF RetrieveProject, TypeOK, Phases
  <2> QED
    BY <1>0, <1>1, <2>3, <2>4 DEF RetrieveProject, TypeOK
<1>2. CASE RetrieveCredentials(r)
  <2> DEFINE m == [x \in Rows |-> IF x \in Credentials THEN db[x] ELSE mem[r][x]]
  <2>1. mem' = [mem EXCEPT ![r] = m]
    BY <1>0, <1>2 DEF RetrieveCredentials, TypeOK
  <2>2. m \in [Rows -> Values] /\ IsProject(m)
    BY <1>0, Names DEF TypeOK, IsProject
  <2> HIDE DEF m
  <2>3. mem' \in [Requests -> [Rows -> Values]] /\ \A q \in Requests : IsProject(mem'[q])
    BY <1>0, <2>1, <2>2 DEF TypeOK
  <2>4. phase' \in [Requests -> Phases]
    BY <1>0, <1>2 DEF RetrieveCredentials, TypeOK, Phases
  <2> QED
    BY <1>0, <1>2, <2>3, <2>4 DEF RetrieveCredentials, TypeOK
<1>3. CASE RetrieveWorkflows(r)
  <2> DEFINE p == [x \in Rows |-> IF x \in Workflows THEN db[x] ELSE mem[r][x]]
             q == Changed(r, p)
  <2>1. IsProject(p) /\ CacheOf(p) /\ kind[r] # "remove"
    BY <1>3, Retrieved DEF RetrieveWorkflows, StoreInv, PlanInv
  <2>2. CASE Applicable(r, p)
    <3>1. IsProject(q)
      BY <1>t, <2>1, <2>2, ChangedRow
    <3>2. /\ mem' = [mem EXCEPT ![r] = q]
          /\ UNCHANGED <<command, db, version, dirty, faults, holder, base, want, result>>
          /\ phase' \in [Requests -> Phases]
      BY <1>0, <1>3, <1>t, <2>1, <2>2 DEF RetrieveWorkflows, TypeOK, Phases, Kinds
    <3> HIDE DEF q
    <3>3. mem' \in [Requests -> [Rows -> Values]] /\ \A s \in Requests : IsProject(mem'[s])
      BY <1>0, <3>1, <3>2 DEF TypeOK, IsProject
    <3> QED
      BY <1>0, <3>2, <3>3 DEF TypeOK
  <2>3. CASE ~Applicable(r, p)
    <3>1. End(r) /\ Answer(r, "failed") /\ UNCHANGED <<command, db, version, dirty, faults>>
      BY <1>3, <2>3 DEF RetrieveWorkflows
    <3>2. result' \in [Requests -> Results]
      BY <1>0, <3>1 DEF TypeOK, Answer, Results
    <3> QED
      BY <1>0, <3>1, <3>2, Ended DEF TypeOK
  <2> QED
    BY <2>2, <2>3
<1>e. ASSUME End(r), UNCHANGED command, IsProject(db'),
             version' \in {version, version + 1}, faults' \in 0..MaxFaults,
             result' = result \/ (\E a \in Results : Answer(r, a)),
             dirty' = dirty \/ (\E S \in SUBSET Rows : Touches(r, S))
      PROVE  TypeOK'
  <2>1. result' \in [Requests -> Results]
    BY <1>0, <1>e DEF TypeOK, Answer
  <2>2. dirty' \in [Requests -> SUBSET Rows]
    BY <1>0, <1>e DEF TypeOK, Touches
  <2>3. version' \in Nat /\ base' \in [Requests -> 0..version']
    BY <1>0, <1>e, Ended DEF TypeOK
  <2> QED
    BY <1>0, <1>e, <2>1, <2>2, <2>3, Ended DEF TypeOK
<1>4. CASE Insert(r)
  <2>1. kind[r] = "add" /\ target[r] \in Parts
    BY <1>4, <1>t DEF Insert, StoreInv, PlanInv, Targets
  <2>2. NewRow(r, target[r]) \in Values
        /\ (target[r] \in Workflows => NewRow(r, target[r]) \in WorkflowRows)
        /\ (target[r] \notin Workflows => NewRow(r, target[r]) \in Texts)
    BY DEF NewRow, WorkflowRows, Values, Texts
  <2>3. db' = db \/ db' = [db EXCEPT ![target[r]] = NewRow(r, target[r])]
    BY <1>4 DEF Insert
  <2>4. IsProject(db')
    <3> DEFINE row == NewRow(r, target[r])
    <3>1. IsProject(db) /\ db \in [Rows -> Values] /\ target[r] \in Rows
      BY <1>0, <1>t DEF TypeOK, IsProject
    <3> HIDE DEF row
    <3>2. CASE db' = [db EXCEPT ![target[r]] = row]
      <4>1. db' \in [Rows -> Values]
        BY <3>1, <3>2, <2>2 DEF row
      <4>2. db'[target[r]] = row /\ \A x \in Rows \ {target[r]} : db'[x] = db[x]
        BY <3>1, <3>2
      <4> QED
        BY <3>1, <4>1, <4>2, <2>1, <2>2, Names DEF IsProject, Parts, row
    <3> QED
      BY <2>3, <3>1, <3>2 DEF row
  <2>5. {target[r]} \in SUBSET Rows /\ "ok" \in Results /\ "failed" \in Results
    BY <1>t DEF Results
  <2>6. dirty' = dirty \/ Touches(r, {target[r]})
    BY <1>4 DEF Insert
  <2>7. Answer(r, "ok") \/ Answer(r, "failed")
    BY <1>4 DEF Insert
  <2>8. End(r) /\ UNCHANGED <<command, version, faults>>
    BY <1>4 DEF Insert
  <2>9. faults' \in 0..MaxFaults
    BY <1>0, <2>8 DEF TypeOK
  <2> QED
    BY <1>e, <2>4, <2>5, <2>6, <2>7, <2>8, <2>9
<1>5. CASE Remove(r)
  <2>1. target[r] \in Parts
    BY <1>5, <1>t DEF Remove, Targets
  <2>2. db' = [db EXCEPT ![target[r]] = Absent]
    BY <1>5 DEF Remove
  <2>3. IsProject(db')
    BY <1>0, <2>1, <2>2, Names DEF TypeOK, IsProject, Parts, Values
  <2>4. {target[r]} \in SUBSET Rows /\ "ok" \in Results
    BY <1>t DEF Results
  <2>5. /\ End(r) /\ Answer(r, "ok") /\ Touches(r, {target[r]})
        /\ UNCHANGED <<command, version, faults>>
    BY <1>5 DEF Remove
  <2>6. faults' \in 0..MaxFaults
    BY <1>0, <2>5 DEF TypeOK
  <2> QED
    BY <1>e, <2>3, <2>4, <2>5, <2>6
<1>6. CASE QueueWorkflow(r)
  BY <1>0, <1>6 DEF QueueWorkflow, TypeOK, Phases, Results, Answer
<1>7. CASE BeginUpdate(r)
  BY <1>0, <1>7 DEF BeginUpdate, TypeOK, Phases, Rows
<1>8. CASE Statement(r)
  <2>1. want[r] \in Rows
    BY <1>0, <1>8 DEF Statement, TypeOK
  <2>2. holder' \in [Rows -> Requests \cup {Absent}]
    BY <1>0, <1>8, <2>1 DEF Statement, TypeOK
  <2>3. PICK y \in NextRows(Unwritten(r, want[r])) : want' = [want EXCEPT ![r] = y]
    BY <1>8 DEF Statement
  <2>4. y \in Rows \cup {Absent}
    BY <2>3 DEF NextRows, Unwritten, Rows
  <2>5. want' \in [Requests -> Rows \cup {Absent}]
    BY <1>0, <2>3, <2>4 DEF TypeOK
  <2> QED
    BY <1>0, <1>8, <2>2, <2>5 DEF Statement, TypeOK
<1>9. CASE Commit(r)
  <2> DEFINE S == {x \in Rows : holder[x] = r /\ mem[r][x] # db[x]}
  <2>1. db' = [x \in Rows |-> IF holder[x] = r THEN mem[r][x] ELSE db[x]]
    BY <1>9 DEF Commit
  <2>2. IsProject(db) /\ IsProject(mem[r])
    BY <1>0 DEF TypeOK
  <2>3. IsProject(db')
    BY <2>1, <2>2, Names DEF IsProject
  <2>4. version' \in {version, version + 1}
    BY <1>9 DEF Commit
  <2>5. End(r) /\ Answer(r, "ok") /\ Touches(r, S) /\ UNCHANGED <<command, faults>>
    BY <1>9 DEF Commit
  <2>6. S \in SUBSET Rows /\ "ok" \in Results
    BY DEF Results
  <2>7. faults' \in 0..MaxFaults
    BY <1>0, <2>5 DEF TypeOK
  <2> HIDE DEF S
  <2> QED
    BY <1>e, <2>3, <2>4, <2>5, <2>6, <2>7
<1>10. CASE Deadlocked(r)
  <2>1. IsProject(db') /\ faults' \in 0..MaxFaults /\ "failed" \in Results
    BY <1>0, <1>10 DEF Deadlocked, TypeOK, Results
  <2> QED
    BY <1>e, <1>10, <2>1 DEF Deadlocked
<1>11. CASE Fail(r)
  <2>1. IsProject(db') /\ "failed" \in Results
    BY <1>0, <1>11 DEF Fail, TypeOK, Results
  <2>2. faults' \in 0..MaxFaults
    BY <1>0, <1>11 DEF Fail, TypeOK
  <2> QED
    BY <1>e, <1>11, <2>1, <2>2 DEF Fail
<1> QED
  BY <1>1, <1>2, <1>3, <1>4, <1>5, <1>6, <1>7, <1>8, <1>9, <1>10, <1>11 DEF Handle

-----------------------------------------------------------------------------
\* How a step of r leaves its own copy of the project: read further, changed
\* with the last query, dropped with the end, or as it was.
LEMMA OwnCopy ==
    ASSUME StoreInv, NEW r \in Requests, Handle(r) \/ Fail(r)
    PROVE  \/ RetrieveProject(r)
           \/ RetrieveCredentials(r)
           \/ RetrieveWorkflows(r) /\ ~End(r)
           \/ /\ phase[r] \in {"queue", "begin", "update"}
              /\ phase'[r] \in {"queue", "begin", "update"}
              /\ mem'[r] = mem[r] /\ db' = db
              /\ dirty' = dirty
           \/ End(r)
<1>0. phase \in [Requests -> Phases]
  BY DEF StoreInv, TypeOK
<1>1. CASE QueueWorkflow(r)
  BY <1>0, <1>1 DEF QueueWorkflow
<1>2. CASE BeginUpdate(r)
  BY <1>0, <1>2 DEF BeginUpdate
<1>3. CASE Statement(r)
  BY <1>0, <1>3 DEF Statement
<1>4. CASE Insert(r) \/ Remove(r) \/ Commit(r) \/ Deadlocked(r) \/ Fail(r)
  BY <1>4 DEF Insert, Remove, Commit, Deadlocked, Fail
<1>5. QED
  BY <1>1, <1>2, <1>3, <1>4 DEF Handle

\* The last query, when the command goes on.
LEMMA ReadLast ==
    ASSUME StoreInv, NEW r \in Requests, RetrieveWorkflows(r), ~End(r)
    PROVE  LET p == [x \in Rows |-> IF x \in Workflows THEN db[x] ELSE mem[r][x]]
               t == target[r]
           IN  /\ IsProject(mem'[r]) /\ CacheOf(mem'[r])
               /\ \A x \in Rows \ {t} : mem'[r][x] = p[x]
               /\ kind[r] = "add" => mem'[r] = p /\ phase'[r] = "insert"
               /\ kind[r] = "trigger" => /\ p[t] # Absent
                                         /\ mem'[r][t] # Absent
                                         /\ mem'[r][t].flow = p[t].flow
                                         /\ phase'[r] = "queue"
               /\ kind[r] = "update" => /\ phase'[r] = "begin"
                                        /\ IF t \in Workflows
                                           THEN mem'[r][t] # Absent /\ mem'[r][t].flow = r
                                           ELSE mem'[r][t] = r
               /\ kind[r] \in {"add", "update", "trigger"}
               /\ phase[r] = "workflows"
               /\ UNCHANGED <<command, db, version, holder, base, want, dirty>>
<1> DEFINE p == [x \in Rows |-> IF x \in Workflows THEN db[x] ELSE mem[r][x]]
           q == Changed(r, p)
<1>1. /\ IsProject(p) /\ CacheOf(p) /\ kind[r] # "remove"
      /\ kind[r] \in Kinds /\ target[r] \in Targets(kind[r])
      /\ phase \in [Requests -> Phases] /\ mem \in [Requests -> [Rows -> Values]]
  BY Retrieved DEF RetrieveWorkflows, StoreInv, PlanInv, TypeOK
<1>2. /\ Applicable(r, p)
      /\ mem' = [mem EXCEPT ![r] = q]
      /\ phase' = [phase EXCEPT ![r] =
                      CASE kind[r] = "add"      -> "insert"
                        [] kind[r] = "update"   -> "begin"
                        [] kind[r] = "trigger"  -> "queue"]
      /\ UNCHANGED <<command, db, version, holder, base, want, dirty>>
      /\ phase[r] = "workflows"
  BY DEF RetrieveWorkflows
<1>3. mem'[r] = q
  BY <1>1, <1>2
<1>4. /\ kind[r] = "add" => phase'[r] = "insert"
      /\ kind[r] = "update" => phase'[r] = "begin"
      /\ kind[r] = "trigger" => phase'[r] = "queue"
      /\ kind[r] \in {"add", "update", "trigger"}
  BY <1>1, <1>2 DEF Kinds
<1>5. /\ IsProject(q) /\ CacheOf(q)
      /\ \A x \in Rows \ {target[r]} : q[x] = p[x]
      /\ kind[r] = "add" => q = p
      /\ kind[r] = "trigger" => /\ p[target[r]] # Absent
                                /\ q[target[r]] # Absent
                                /\ q[target[r]].flow = p[target[r]].flow
      /\ kind[r] = "update" => IF target[r] \in Workflows
                               THEN q[target[r]] # Absent /\ q[target[r]].flow = r
                               ELSE q[target[r]] = r
  BY <1>1, <1>2, ChangedRow
<1> HIDE DEF q, p
<1>6. QED
  BY <1>2, <1>3, <1>4, <1>5 DEF p

\* No step brings a compiled flow next to another builder flow.
LEMMA CacheStep ==
    ASSUME StoreInv, NEW r \in Requests, Handle(r) \/ Fail(r)
    PROVE  CacheInv'
<1>0. /\ TypeOK /\ CacheOf(db) /\ \A q \in Requests : CacheOf(mem[q])
      /\ db \in [Rows -> Values] /\ mem \in [Requests -> [Rows -> Values]]
      /\ target[r] \in Rows
  BY DEF StoreInv, CacheInv, TypeOK, IsProject
<1>1. CacheOf(db')
  <2>1. CASE Insert(r)
    <3>1. \/ db' = db
          \/ db' = [db EXCEPT ![target[r]] = NewRow(r, target[r])]
      BY <2>1 DEF Insert
    <3>2. target[r] \in Workflows => NewRow(r, target[r]).runner = Absent
      BY DEF NewRow
    <3> QED
      BY <1>0, <3>1, <3>2 DEF CacheOf, Rows, Parts
  <2>2. CASE Remove(r)
    <3>1. db' = [db EXCEPT ![target[r]] = Absent]
      BY <2>2 DEF Remove
    <3> QED
      BY <1>0, <3>1 DEF CacheOf, Rows, Parts
  <2>3. CASE Commit(r)
    <3>1. \A w \in Workflows : db'[w] = db[w] \/ db'[w] = mem[r][w]
      BY <2>3 DEF Commit, Rows, Parts
    <3> QED
      BY <1>0, <3>1 DEF CacheOf
  <2>4. CASE db' = db
    BY <1>0, <2>4
  <2> QED
    BY <2>1, <2>2, <2>3, <2>4 DEF Handle, RetrieveProject, RetrieveCredentials,
       RetrieveWorkflows, QueueWorkflow, BeginUpdate, Statement, Deadlocked, Fail
<1>2. CacheOf(mem'[r])
  <2>1. CASE RetrieveProject(r)
    <3>1. \A w \in Workflows : mem'[r][w] = mem[r][w]
      BY <1>0, <2>1, Names DEF RetrieveProject
    <3> QED
      BY <1>0, <3>1 DEF CacheOf
  <2>2. CASE RetrieveCredentials(r)
    <3>1. \A w \in Workflows : mem'[r][w] = mem[r][w]
      BY <1>0, <2>2, Names DEF RetrieveCredentials
    <3> QED
      BY <1>0, <3>1 DEF CacheOf
  <2>3. CASE RetrieveWorkflows(r) /\ ~End(r)
    BY <2>3, ReadLast
  <2>4. CASE End(r)
    BY <1>0, <2>4, Ended, NoProjectFacts
  <2>5. CASE mem'[r] = mem[r]
    BY <1>0, <2>5
  <2> QED
    BY <2>1, <2>2, <2>3, <2>4, <2>5, OwnCopy
<1>3. ASSUME NEW q \in Requests \ {r} PROVE CacheOf(mem'[q])
  BY <1>0, <1>3, Others
<1>4. QED
  BY <1>1, <1>2, <1>3 DEF CacheInv

-----------------------------------------------------------------------------
\* A copy stays what was stored, up to what others changed and r itself.
LEMMA CopyStep ==
    ASSUME StoreInv, NEW r \in Requests, Handle(r) \/ Fail(r)
    PROVE  CopyInv'
<1>0. /\ TypeOK
      /\ db \in [Rows -> Values] /\ mem \in [Requests -> [Rows -> Values]]
      /\ phase \in [Requests -> Phases]
      /\ \A q \in Requests : \A x \in ReadRows(q) \ dirty[q] : Same(q, x)
  BY DEF StoreInv, TypeOK, IsProject, CopyInv
<1>1. ASSUME NEW q \in Requests \ {r}, NEW x \in (ReadRows(q) \ dirty[q])'
      PROVE  Same(q, x)'
  <2>1. phase'[q] = phase[q] /\ mem'[q] = mem[q] /\ kind' = kind /\ target' = target
    BY <1>0, Others
  <2>2. x \in ReadRows(q) \ dirty[q] /\ x \in Rows /\ phase[q] \notin {"new", "done"}
    BY <1>0, <1>1, <2>1, Others DEF ReadRows, Rows, Parts
  <2>3. db'[x] = db[x]
    BY <1>0, <1>1, <2>2, Others
  <2>4. Same(q, x)
    BY <1>0, <2>2
  <2> QED
    BY <2>1, <2>3, <2>4 DEF Same
<1>2. ASSUME NEW x \in (ReadRows(r) \ dirty[r])' PROVE Same(r, x)'
  <2>1. CASE RetrieveProject(r)
    <3>1. phase'[r] = "credentials" /\ mem'[r][Project] = db[Project] /\ db' = db
      BY <1>0, <2>1, Names DEF RetrieveProject
    <3>2. x = Project
      BY <1>2, <3>1 DEF ReadRows
    <3> QED
      BY <3>1, <3>2 DEF Same
  <2>2. CASE RetrieveCredentials(r)
    <3>1. /\ phase[r] = "credentials" /\ phase'[r] = "workflows" /\ db' = db /\ dirty' = dirty
          /\ \A c \in Credentials : mem'[r][c] = db[c]
          /\ mem'[r][Project] = mem[r][Project]
      BY <1>0, <2>2, Names DEF RetrieveCredentials
    <3>2. x \in {Project} \cup Credentials /\ x \notin dirty[r]
      BY <1>2, <3>1 DEF ReadRows
    <3>3. x = Project => mem[r][Project] = db[Project]
      BY <1>0, <3>1, <3>2 DEF ReadRows, Same
    <3> QED
      BY <3>1, <3>2, <3>3 DEF Same
  <2>3. CASE RetrieveWorkflows(r) /\ ~End(r)
    <3> DEFINE p == [y \in Rows |-> IF y \in Workflows THEN db[y] ELSE mem[r][y]]
               t == target[r]
    <3>1. phase[r] = "workflows" /\ db' = db /\ dirty' = dirty
          /\ kind' = kind /\ target' = target
          /\ phase'[r] \in {"insert", "queue", "begin"}
      BY <2>3, ReadLast DEF command
    <3>2. x \in Rows /\ x \notin dirty[r]
      BY <1>2, <3>1 DEF ReadRows
    <3>3. p[x] = db[x]
      <4>1. CASE x \in Workflows
        BY <3>2, <4>1
      <4>2. CASE x \notin Workflows
        <5>1. x \in ReadRows(r)
          BY <3>1, <3>2, <4>2 DEF ReadRows, Rows, Parts
        <5>2. mem[r][x] = db[x]
          BY <1>0, <3>1, <3>2, <5>1 DEF Same
        <5> QED
          BY <3>2, <4>2, <5>2
      <4> QED
        BY <4>1, <4>2
    <3> HIDE DEF p
    <3>4. /\ x # t => mem'[r][x] = p[x]
          /\ kind[r] = "add" => mem'[r] = p
          /\ kind[r] = "trigger" => /\ p[t] # Absent
                                    /\ mem'[r][t] # Absent
                                    /\ mem'[r][t].flow = p[t].flow
                                    /\ phase'[r] = "queue"
          /\ kind[r] = "update" => phase'[r] = "begin"
          /\ kind[r] \in {"add", "update", "trigger"}
      BY <2>3, <3>2, ReadLast DEF p
    <3> QED
      BY <3>1, <3>3, <3>4 DEF Same
  <2>4. CASE End(r)
    BY <1>0, <1>2, <2>4, Ended DEF ReadRows
  <2>5. CASE /\ phase[r] \in {"queue", "begin", "update"}
             /\ phase'[r] \in {"queue", "begin", "update"}
             /\ mem'[r] = mem[r] /\ db' = db
             /\ dirty' = dirty
    <3>1. kind' = kind /\ target' = target
      BY DEF Handle, Fail, command, RetrieveProject, RetrieveCredentials, RetrieveWorkflows,
             Insert, Remove, QueueWorkflow, BeginUpdate, Statement, Commit, Deadlocked
    <3>2. x \in ReadRows(r) \ dirty[r]
      BY <1>2, <2>5 DEF ReadRows
    <3>3. Same(r, x)
      BY <1>0, <3>2
    <3> QED
      BY <2>5, <3>1, <3>3 DEF Same
  <2> QED
    BY <2>1, <2>2, <2>3, <2>4, <2>5, OwnCopy
<1>3. QED
  BY <1>1, <1>2 DEF CopyInv

\* A phase belongs to a kind of request; an update carries its own text.
LEMMA PlanStep ==
    ASSUME StoreInv, NEW r \in Requests, Handle(r) \/ Fail(r)
    PROVE  PlanInv'
<1> DEFINE Plan(q) ==
        /\ phase[q] \in {"credentials", "workflows"} => kind[q] # "remove"
        /\ phase[q] = "insert" => kind[q] = "add"
        /\ phase[q] = "queue" => kind[q] = "trigger"
        /\ phase[q] \in {"begin", "update"} => kind[q] \in {"update", "trigger"}
        /\ phase[q] \in {"begin", "update"} /\ kind[q] = "update" =>
              IF target[q] \in Workflows
              THEN mem[q][target[q]] # Absent /\ mem[q][target[q]].flow = q
              ELSE mem[q][target[q]] = q
<1>0. TypeOK /\ phase \in [Requests -> Phases] /\ \A q \in Requests : Plan(q)
  BY DEF StoreInv, TypeOK, PlanInv
<1>1. kind' = kind /\ target' = target
  BY DEF Handle, Fail, command, RetrieveProject, RetrieveCredentials, RetrieveWorkflows,
         Insert, Remove, QueueWorkflow, BeginUpdate, Statement, Commit, Deadlocked
<1>2. ASSUME NEW q \in Requests \ {r} PROVE Plan(q)'
  BY <1>0, <1>1, <1>2, Others
<1>3. Plan(r)'
  <2>1. CASE RetrieveProject(r)
    BY <1>0, <1>1, <2>1 DEF RetrieveProject
  <2>2. CASE RetrieveCredentials(r)
    BY <1>0, <1>1, <2>2 DEF RetrieveCredentials
  <2>3. CASE RetrieveWorkflows(r) /\ ~End(r)
    <3>1. /\ kind[r] = "add" => phase'[r] = "insert"
          /\ kind[r] = "trigger" => phase'[r] = "queue"
          /\ kind[r] = "update" => /\ phase'[r] = "begin"
                                   /\ IF target[r] \in Workflows
                                      THEN /\ mem'[r][target[r]] # Absent
                                           /\ mem'[r][target[r]].flow = r
                                      ELSE mem'[r][target[r]] = r
          /\ kind[r] \in {"add", "update", "trigger"}
      BY <2>3, ReadLast
    <3> QED
      BY <1>1, <3>1
  <2>4. CASE End(r)
    BY <1>0, <1>1, <2>4, Ended
  <2>5. CASE QueueWorkflow(r)
    BY <1>0, <1>1, <2>5 DEF QueueWorkflow
  <2>6. CASE BeginUpdate(r)
    BY <1>0, <1>1, <2>6 DEF BeginUpdate
  <2>7. CASE Statement(r)
    BY <1>0, <1>1, <2>7 DEF Statement
  <2> QED
    BY <2>1, <2>2, <2>3, <2>4, <2>5, <2>6, <2>7
       DEF Handle, Insert, Remove, Commit, Deadlocked, Fail
<1>4. QED
  BY <1>2, <1>3 DEF PlanInv

\* Locks belong to open transactions, which take them in the order of their
\* statements and keep them to the end.
LEMMA LockStep ==
    ASSUME StoreInv, NEW r \in Requests, Handle(r) \/ Fail(r)
    PROVE  LockInv'
<1> DEFINE Locks(q) ==
        /\ \A x \in Rows : holder[x] = q => phase[q] = "update"
        /\ phase[q] = "update" /\ want[q] # Project =>
              holder[Project] = q \/ version # base[q]
        /\ phase[q] = "update" /\ want[q] = Absent =>
              \A y \in Parts : mem[q][y] # Absent => holder[y] = q
<1>0. /\ TypeOK
      /\ phase \in [Requests -> Phases] /\ want \in [Requests -> Rows \cup {Absent}]
      /\ holder \in [Rows -> Requests \cup {Absent}] /\ version \in Nat
      /\ base \in [Requests -> 0..version]
      /\ \A q \in Requests : Locks(q)
      /\ Project \in Rows /\ Parts \subseteq Rows
  BY DEF StoreInv, TypeOK, LockInv, Rows
<1>1. ASSUME NEW q \in Requests \ {r} PROVE Locks(q)'
  <2>1. /\ phase'[q] = phase[q] /\ want'[q] = want[q] /\ mem'[q] = mem[q] /\ base'[q] = base[q]
        /\ \A x \in Rows : holder'[x] = q <=> holder[x] = q
        /\ version' = version \/ version' = version + 1
    BY <1>0, <1>1, Others
  <2>2. version # base[q] => version' # base[q]
    <3>1. base[q] \in 0..version
      BY <1>0
    <3> QED
      BY <1>0, <2>1, <3>1
  <2> QED
    BY <1>0, <2>1, <2>2
<1>2. Locks(r)'
  <2>1. CASE End(r)
    BY <1>0, <2>1, Ended
  <2>2. CASE BeginUpdate(r)
    <3>1. phase[r] = "begin" /\ want'[r] = Project /\ holder' = holder
      BY <1>0, <2>2 DEF BeginUpdate
    <3> QED
      BY <1>0, <3>1, Names
  <2>3. CASE Statement(r)
    <3> DEFINE x == want[r]
               S == Unwritten(r, x)
    <3>1. /\ phase[r] = "update" /\ phase' = phase /\ mem' = mem /\ base' = base
          /\ version' = version /\ x \in Rows
      BY <1>0, <2>3 DEF Statement
    <3>2. PICK y \in NextRows(S) : want' = [want EXCEPT ![r] = y]
      BY <2>3 DEF Statement
    <3>3. want'[r] = y
      BY <1>0, <3>2
    <3>4. y = Absent => S = {}
      BY <3>2, Names DEF NextRows, Unwritten, Rows
    <3>5. y # Project
      BY <3>2, Names DEF NextRows, Unwritten, Parts
    <3>6. /\ \A z \in Rows \ {x} : holder'[z] = holder[z]
          /\ x # Project => holder'[x] = r
          /\ x = Project => holder'[x] = r \/ version # base[r]
      BY <1>0, <2>3, <3>1 DEF Statement
    <3>7. holder'[Project] = r \/ version # base[r]
      BY <1>0, <3>1, <3>6
    <3>8. ASSUME y = Absent, NEW z \in Parts, mem[r][z] # Absent
          PROVE  holder'[z] = r
      <4>1. CASE z = x
        BY <3>6, <3>8, <4>1, Names DEF Parts
      <4>2. CASE z # x
        <5>1. z \notin S
          BY <3>4, <3>8
        <5>2. holder[z] = r
          BY <3>8, <4>2, <5>1 DEF Unwritten
        <5> QED
          BY <1>0, <3>6, <4>2, <5>2
      <4> QED
        BY <4>1, <4>2
    <3> QED
      BY <3>1, <3>3, <3>7, <3>8
  <2>4. CASE phase'[r] # "update" /\ holder' = holder /\ phase[r] # "update"
    BY <1>0, <2>4
  <2>5. CASE RetrieveProject(r) \/ RetrieveCredentials(r) \/ QueueWorkflow(r)
    BY <1>0, <2>4, <2>5 DEF RetrieveProject, RetrieveCredentials, QueueWorkflow
  <2>6. CASE RetrieveWorkflows(r) /\ ~End(r)
    <3>1. /\ kind[r] = "add" => phase'[r] = "insert"
          /\ kind[r] = "trigger" => phase'[r] = "queue"
          /\ kind[r] = "update" => phase'[r] = "begin"
          /\ kind[r] \in {"add", "update", "trigger"}
          /\ holder' = holder /\ phase[r] = "workflows"
      BY <2>6, ReadLast
    <3> QED
      BY <2>4, <3>1
  <2> QED
    BY <2>1, <2>2, <2>3, <2>5, <2>6 DEF Handle, Insert, Remove, Commit, Deadlocked, Fail
<1>3. QED
  BY <1>1, <1>2 DEF LockInv

-----------------------------------------------------------------------------
LEMMA NextStoreInv == StoreInv /\ [Next]_vars => StoreInv'
<1> SUFFICES ASSUME StoreInv, [Next]_vars PROVE StoreInv'
  OBVIOUS
<1>1. ASSUME NEW r \in Requests, Handle(r) \/ Fail(r) PROVE StoreInv'
  BY <1>1, TypeStep, CacheStep, CopyStep, PlanStep, LockStep DEF StoreInv
<1>2. CASE UNCHANGED vars
  BY <1>2 DEF vars, command, StoreInv, TypeOK, CacheInv, CopyInv, PlanInv, LockInv, ReadRows, Same
<1>3. QED
  BY <1>1, <1>2 DEF Next

(* StoreInv holds in every reachable state of any number of requests,      *)
(* workflows and credentials.                                              *)
THEOREM StoreInductive == Spec => []StoreInv
<1>1. QED
  BY InitStoreInv, NextStoreInv, PTL DEF Spec

(* Rows, copies, locks, versions and answers keep their types.             *)
THEOREM StoreTypes == Spec => []TypeOK
<1>1. StoreInv => TypeOK
  BY DEF StoreInv
<1>2. QED
  BY <1>1, StoreInductive, PTL

(* The compiled flow stored with a workflow is the compilation of the      *)
(* builder flow stored with it (UpdateBuilderFlow drops it, ComputeWorkflow*)
(* makes it from the flow in the same copy, and rows are written whole).   *)
THEOREM CacheCorrect == Spec => []CacheMatchesFlow
<1>1. StoreInv => CacheMatchesFlow
  BY DEF StoreInv, CacheInv, CacheMatchesFlow
<1>2. QED
  BY <1>1, StoreInductive, PTL

\* A request answers and leaves its transaction only by a step of its own.
LEMMA OwnStep ==
    ASSUME TypeOK, Next, NEW r \in Requests,
           phase'[r] # phase[r] \/ result'[r] # result[r]
    PROVE  Handle(r) \/ Fail(r)
<1>1. PICK a \in Requests : Handle(a) \/ Fail(a)
  BY DEF Next
<1>2. CASE a = r
  BY <1>1, <1>2
<1>3. CASE a # r
  BY <1>1, <1>3, Others
<1>4. QED
  BY <1>2, <1>3

(* Update writes the project back as a whole, and yet its transaction      *)
(* changes only its own row and what others changed since Retrieve.        *)
THEOREM DisturbanceBounded == Spec => DisturbsOnlyWhatChanged
<1> DEFINE Disturbs ==
        \A r \in Requests : phase[r] = "update" /\ phase'[r] = "done" =>
          \A x \in Rows \ dirty[r] :
              \/ db'[x] = db[x]
              \/ x = target[r] /\ kind[r] = "update"
              \/ x = target[r] /\ kind[r] = "trigger" /\ db'[x].flow = db[x].flow
<1>1. StoreInv /\ [Next]_vars => [Disturbs]_vars
  <2> SUFFICES ASSUME StoreInv, Next, NEW r \in Requests,
                      phase[r] = "update", phase'[r] = "done",
                      NEW x \in Rows \ dirty[r]
               PROVE  \/ db'[x] = db[x]
                      \/ x = target[r] /\ kind[r] = "update"
                      \/ x = target[r] /\ kind[r] = "trigger" /\ db'[x].flow = db[x].flow
    OBVIOUS
  <2>1. Handle(r) \/ Fail(r)
    BY OwnStep DEF StoreInv
  <2>2. CASE Commit(r)
    <3>1. db'[x] = db[x] \/ db'[x] = mem[r][x]
      BY <2>2 DEF Commit
    <3>2. Same(r, x)
      BY DEF StoreInv, CopyInv, ReadRows
    <3> QED
      BY <3>1, <3>2 DEF Same
  <2>3. CASE db' = db
    BY <2>3
  <2> QED
    BY <2>1, <2>2, <2>3 DEF Handle, Fail, RetrieveProject, RetrieveCredentials,
       RetrieveWorkflows, Insert, Remove, QueueWorkflow, BeginUpdate, Statement, Deadlocked
<1>2. QED
  BY <1>1, StoreInductive, PTL DEF Spec, DisturbsOnlyWhatChanged

(* An update that answers "ok" is stored, or was of the project's own row  *)
(* at a version that had moved on.                                         *)
THEOREM AcknowledgedStored == Spec => AcknowledgedUpdatesStored
<1> DEFINE Stored(r) ==
              \/ target[r] = Project /\ version # base[r]
              \/ target[r] = Project /\ db'[Project] = r
              \/ target[r] \in Credentials /\ db'[target[r]] = r
              \/ target[r] \in Workflows /\ db'[target[r]].flow = r
           Acknowledged ==
        \A r \in Requests :
          kind[r] = "update" /\ result[r] = "none" /\ result'[r] = "ok" => Stored(r)
<1>1. StoreInv /\ [Next]_vars => [Acknowledged]_vars
  <2> SUFFICES ASSUME StoreInv, Next, NEW r \in Requests,
                      kind[r] = "update", result[r] = "none", result'[r] = "ok"
               PROVE  Stored(r)
    OBVIOUS
  <2>1. Handle(r) \/ Fail(r)
    BY OwnStep DEF StoreInv
  <2>2. TypeOK /\ PlanInv /\ LockInv /\ target[r] \in Rows /\ result \in [Requests -> Results]
    BY DEF StoreInv, TypeOK
  <2>3. CASE Commit(r)
    <3>1. /\ phase[r] = "update" /\ want[r] = Absent
          /\ db' = [x \in Rows |-> IF holder[x] = r THEN mem[r][x] ELSE db[x]]
      BY <2>3 DEF Commit
    <3>2. CASE target[r] = Project
      <4>1. holder[Project] = r \/ version # base[r]
        BY <2>2, <3>1, Names DEF LockInv
      <4>2. mem[r][Project] = r
        BY <2>2, <3>1, <3>2, Names DEF PlanInv
      <4> QED
        BY <2>2, <3>1, <3>2, <4>1, <4>2
    <3>3. CASE target[r] # Project
      <4>1. target[r] \in Parts
        BY <2>2, <3>3 DEF Rows
      <4>2. mem[r][target[r]] # Absent
        BY <2>2, <3>1, Names DEF PlanInv
      <4>3. holder[target[r]] = r
        BY <2>2, <3>1, <4>1, <4>2 DEF LockInv
      <4>4. db'[target[r]] = mem[r][target[r]]
        BY <2>2, <3>1, <4>3
      <4> QED
        BY <2>2, <3>1, <4>1, <4>4 DEF PlanInv, Parts
    <3> QED
      BY <3>2, <3>3
  <2>4. CASE Insert(r) \/ Remove(r) \/ QueueWorkflow(r)
    BY <2>2, <2>4 DEF Insert, Remove, QueueWorkflow, PlanInv
  <2>5. CASE result' = result \/ Answer(r, "failed")
    BY <2>2, <2>5 DEF Answer
  <2> QED
    BY <2>1, <2>3, <2>4, <2>5 DEF Handle, Fail, RetrieveProject, RetrieveCredentials,
       RetrieveWorkflows, BeginUpdate, Statement, Deadlocked
<1>2. QED
  BY <1>1, StoreInductive, PTL DEF Spec, AcknowledgedUpdatesStored
=============================================================================
