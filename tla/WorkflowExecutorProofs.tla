----------------------- MODULE WorkflowExecutorProofs -----------------------
(* Proofs about WorkflowExecutor, for every set of jobs and nodes, every   *)
(* definition each job is given, and every number of faults.               *)
EXTENDS WorkflowExecutor, TLAPS

LEMMA InitExecutorInv == Init => ExecutorInv
<1> SUFFICES ASSUME Init PROVE ExecutorInv
  OBVIOUS
<1>1. NoContext \in Contexts
  BY DEF NoContext, Contexts, Executions
<1>2. TypeOK
  BY <1>1, FaultsAssumption DEF Init, TypeOK, Stages, Promises, Causes, Interim
<1>3. ContextInv
  BY DEF Init, ContextInv, SoundContext, NoContext
<1>4. VerdictInv /\ PendingInv /\ PromiseInv /\ WaveInv /\ StartedInv
  BY DEF Init, VerdictInv, PendingInv, PromiseInv, PromiseLeft,
              WaveInv, WaveTakes, StartedInv, StartedOnce, Unsettled
<1>5. TrailInv
  BY DEF Init, TrailInv
<1>. QED
  BY <1>2, <1>3, <1>4, <1>5 DEF ExecutorInv

(* The actions.                                                            *)
LEMMA AllCases ==
    ASSUME [Next]_vars
    PROVE  \/ \E j \in Jobs :
                 \/ LoadContext(j) \/ CreateContext(j) \/ InitializeFails(j)
                 \/ StartWave(j) \/ NothingReady(j) \/ Finish(j)
                 \/ WaveRejects(j) \/ WaveResolves(j)
                 \/ MarkNodeCompleted(j) \/ MarkFails(j) \/ RunnerDies(j)
                 \/ \E n \in Nodes : \/ \E success \in BOOLEAN : NodeReturns(j, n, success)
                                     \/ NodeThrows(j, n)
                                     \/ SaveNode(j, n) \/ SaveNodeFails(j, n)
                                     \/ NodeTells(j, n) \/ ScriptEnds(j, n)
           \/ LoseContext
           \/ UNCHANGED vars
BY DEF Next, Control, Node

(* All but the scripts that run on and what is heard of them.              *)
workVars == <<definition, stored, jobVars, eventVars>>

(* The actions that do more than that.                                     *)
LEMMA StepCases ==
    ASSUME [Next]_vars
    PROVE  \/ \E j \in Jobs :
                 \/ LoadContext(j) \/ CreateContext(j) \/ InitializeFails(j)
                 \/ StartWave(j) \/ NothingReady(j) \/ Finish(j)
                 \/ WaveRejects(j) \/ WaveResolves(j)
                 \/ MarkNodeCompleted(j) \/ MarkFails(j) \/ RunnerDies(j)
                 \/ \E n \in Nodes : \/ \E success \in BOOLEAN : NodeReturns(j, n, success)
                                     \/ NodeThrows(j, n)
                                     \/ SaveNode(j, n) \/ SaveNodeFails(j, n)
           \/ LoseContext
           \/ UNCHANGED workVars
<1>1. ASSUME NEW j \in Jobs, NEW n \in Nodes, NodeTells(j, n) \/ ScriptEnds(j, n)
      PROVE  UNCHANGED workVars
  BY <1>1 DEF NodeTells, ScriptEnds, workVars
<1>2. UNCHANGED vars => UNCHANGED workVars
  BY DEF vars, workVars
<1>. QED
  BY <1>1, <1>2, AllCases

(* The two changes of a live context: a completion mark and a result.      *)
LEMMA ContextUpdates ==
    ASSUME NEW c \in Contexts, NEW n \in Nodes
    PROVE  /\ [c EXCEPT !.completed = @ \cup {n}] \in Contexts
           /\ \A e \in Executions : [c EXCEPT !.exec[n] = e] \in Contexts
BY DEF Contexts

-----------------------------------------------------------------------------
(* The typing of every step.                                               *)
LEMMA TypeStep == TypeOK /\ [Next]_vars => TypeOK'
<1> SUFFICES ASSUME TypeOK, [Next]_vars PROVE TypeOK'
  OBVIOUS
<1> USE FaultsAssumption DEF TypeOK
<1>1. ASSUME NEW j \in Jobs, LoadContext(j) PROVE TypeOK'
  <2>1. stage' \in [Jobs -> Stages]
    BY ZenonT(60), <1>1 DEF LoadContext, Stages
  <2>2. ctx' \in [Jobs -> Contexts]
    BY <1>1 DEF LoadContext
  <2>3. QED
    BY <1>1, <2>1, <2>2 DEF LoadContext, definition, after, eventVars
<1>2. ASSUME NEW j \in Jobs, CreateContext(j) PROVE TypeOK'
  <2>1. [NoContext EXCEPT !.all = defined[j]] \in Contexts
    BY DEF NoContext, Contexts, Executions
  <2>2. QED
    BY <1>2, <2>1 DEF CreateContext, definition, after, eventVars, Stages
<1>3. ASSUME NEW j \in Jobs, InitializeFails(j) PROVE TypeOK'
  BY <1>3 DEF InitializeFails, definition, after, Stages, Causes
<1>4. ASSUME NEW j \in Jobs, StartWave(j) PROVE TypeOK'
  <2>1. ReadyNodes(j) \subseteq Nodes
    BY DEF ReadyNodes, Contexts
  <2>2. \A n \in Nodes : Launch(j, n) \in Promises
    BY DEF Launch, Promises
  <2>3. promise' \in [Jobs -> [Nodes -> Promises]]
    BY <1>4, <2>2 DEF StartWave
  <2>4. started' \in [Jobs -> [Nodes -> Nat]]
    BY <1>4 DEF StartWave
  <2>5. wave' \in [Jobs -> SUBSET Nodes] /\ stage' \in [Jobs -> Stages]
    BY <1>4, <2>1 DEF StartWave, Stages
  <2>6. QED
    BY <1>4, <2>3, <2>4, <2>5 DEF StartWave, definition, after
<1>5. ASSUME NEW j \in Jobs, NEW why \in Causes, Fail(j, why)
      PROVE  /\ stage' \in [Jobs -> Stages]
             /\ verdict' \in [Jobs -> {"none", "WORKFLOW_COMPLETED", "WORKFLOW_FAILED"}]
             /\ cause' \in [Jobs -> Causes]
  BY <1>5 DEF Fail, Stages
<1>6. {"circular", "output", "throw", "node", "context"} \subseteq Causes
  BY DEF Causes
<1>7. ASSUME NEW j \in Jobs, NothingReady(j) PROVE TypeOK'
  BY <1>5, <1>6, <1>7 DEF NothingReady, definition, after
<1>8. ASSUME NEW j \in Jobs, Finish(j) PROVE TypeOK'
  <2>1. CASE OutputThrows(j)
    BY <1>5, <1>6, <1>8, <2>1 DEF Finish, definition, after
  <2>2. CASE ~OutputThrows(j)
    BY <1>8, <2>2 DEF Finish, definition, after, Stages
  <2>3. QED
    BY <2>1, <2>2
<1>9. ASSUME NEW j \in Jobs, WaveRejects(j) PROVE TypeOK'
  BY <1>5, <1>6, <1>9 DEF WaveRejects, definition, after
<1>10. ASSUME NEW j \in Jobs, WaveResolves(j) PROVE TypeOK'
  <2>1. CASE Fail(j, "node") /\ UNCHANGED toMark
    BY <1>5, <1>6, <1>10, <2>1 DEF WaveResolves, definition, after
  <2>2. CASE ~(\E n \in wave[j] : promise[j][n] = "savedErr")
    <3>1. /\ stage' = [stage EXCEPT ![j] = "marking"]
          /\ toMark' = [toMark EXCEPT ![j] = wave[j]]
          /\ UNCHANGED <<verdict, cause>>
      BY <1>10, <2>2 DEF WaveResolves
    <3>2. stage' \in [Jobs -> Stages] /\ toMark' \in [Jobs -> SUBSET Nodes]
      BY <3>1 DEF Stages
    <3>3. QED
      BY <1>10, <3>1, <3>2 DEF WaveResolves, definition, after
  <2>3. QED
    BY <1>10, <2>1, <2>2 DEF WaveResolves
<1>11. ASSUME NEW j \in Jobs, NEW n \in Nodes
       PROVE  /\ [ctx[j] EXCEPT !.completed = @ \cup {n}] \in Contexts
              /\ \A e \in Executions : [ctx[j] EXCEPT !.exec[n] = e] \in Contexts
  <2>1. ctx[j] \in Contexts
    OBVIOUS
  <2>2. QED
    BY <2>1, ContextUpdates
<1>12. ASSUME NEW j \in Jobs, MarkNodeCompleted(j) PROVE TypeOK'
  <2> PICK n \in toMark[j] :
          LET marked == [ctx[j] EXCEPT !.completed = @ \cup {n}] IN
          /\ ctx' = [ctx EXCEPT ![j] = marked]
          /\ toMark' = [toMark EXCEPT ![j] = @ \ {n}]
          /\ IF stored = Absent
             THEN Fail(j, "context") /\ UNCHANGED stored
             ELSE /\ stored' = marked
                  /\ stage' = [stage EXCEPT
                                 ![j] = IF toMark[j] = {n} THEN "looping" ELSE @]
                  /\ UNCHANGED <<verdict, cause>>
    BY <1>12 DEF MarkNodeCompleted
  <2>1. ctx' \in [Jobs -> Contexts] /\ toMark' \in [Jobs -> SUBSET Nodes]
    BY <1>11
  <2>2. /\ stored' \in Contexts \cup {Absent}
        /\ stage' \in [Jobs -> Stages]
        /\ verdict' \in [Jobs -> {"none", "WORKFLOW_COMPLETED", "WORKFLOW_FAILED"}]
        /\ cause' \in [Jobs -> Causes]
    <3>1. CASE stored = Absent
      BY <1>5, <1>6, <3>1
    <3>2. CASE stored # Absent
      <4>1. stored' = [ctx[j] EXCEPT !.completed = @ \cup {n}]
        BY <3>2
      <4>2. stage' = [stage EXCEPT ![j] = IF toMark[j] = {n} THEN "looping" ELSE @]
        BY <3>2
      <4>3. stage' \in [Jobs -> Stages]
        BY <4>2 DEF Stages
      <4>4. QED
        BY <1>11, <3>2, <4>1, <4>3
    <3>3. QED
      BY <3>1, <3>2
  <2>3. QED
    BY <1>12, <2>1, <2>2 DEF MarkNodeCompleted, definition, after
<1>13. ASSUME NEW j \in Jobs, MarkFails(j) PROVE TypeOK'
  <2>1. PICK n \in toMark[j] : ctx' = [ctx EXCEPT ![j].completed = @ \cup {n}]
    BY <1>13 DEF MarkFails
  <2>2. ctx' = [ctx EXCEPT ![j] = [ctx[j] EXCEPT !.completed = @ \cup {n}]]
    BY <2>1
  <2>3. ctx' \in [Jobs -> Contexts]
    BY <1>11, <2>2
  <2>4. QED
    BY <1>5, <1>6, <1>13, <2>3 DEF MarkFails, definition, after
<1>14. ASSUME NEW j \in Jobs, RunnerDies(j) PROVE TypeOK'
  BY <1>14 DEF RunnerDies, definition, after, eventVars, Stages, Promises
<1>15. ASSUME NEW j \in Jobs, NEW n \in Nodes, NEW success \in BOOLEAN,
              NodeReturns(j, n, success)
       PROVE  TypeOK'
  <2>1. PICK e \in {"ok", "err"} : ctx' = [ctx EXCEPT ![j].exec[n] = e]
    BY <1>15 DEF NodeReturns
  <2>2. ctx' = [ctx EXCEPT ![j] = [ctx[j] EXCEPT !.exec[n] = e]]
    BY <2>1
  <2>3. ctx' \in [Jobs -> Contexts]
    BY <1>11, <2>2 DEF Executions
  <2>4. promise' \in [Jobs -> [Nodes -> Promises]]
    BY <1>15 DEF NodeReturns, Promises
  <2>5. outcome' \in [Jobs -> [Nodes -> {"none", "NODE_COMPLETED", "NODE_FAILED"}]]
    <3>1. PICK o \in {"NODE_COMPLETED", "NODE_FAILED"} : outcome' = [outcome EXCEPT ![j][n] = o]
      BY <1>15 DEF NodeReturns
    <3>2. QED
      BY <3>1
  <2>6. scripts' \in [Jobs -> SUBSET Nodes]
    <3>1. scripts' = scripts \/ scripts' = [scripts EXCEPT ![j] = @ \cup {n}]
      BY <1>15 DEF NodeReturns
    <3>2. ASSUME NEW S \in SUBSET Nodes, scripts' = [scripts EXCEPT ![j] = S]
          PROVE  scripts' \in [Jobs -> SUBSET Nodes]
      BY <3>2
    <3>3. scripts[j] \cup {n} \in SUBSET Nodes
      OBVIOUS
    <3>4. QED
      BY <3>1, <3>2, <3>3
  <2>7. trailing' \in [Jobs -> SUBSET (Interim \cup {"NODE_COMPLETED", "NODE_FAILED"})]
    BY <1>15 DEF NodeReturns, Emit
  <2>8. QED
    BY <1>15, <2>3, <2>4, <2>5, <2>6, <2>7 DEF NodeReturns, definition
<1>16. ASSUME NEW j \in Jobs, NEW n \in Nodes, NodeThrows(j, n) PROVE TypeOK'
  BY <1>16 DEF NodeThrows, definition, after, eventVars, Promises
<1>17. ASSUME NEW j \in Jobs, NEW n \in Nodes, SaveNode(j, n) PROVE TypeOK'
  <2>1. promise' \in [Jobs -> [Nodes -> Promises]]
    <3>1. PICK p \in {"rejected", "savedOk", "savedErr"} :
                 promise' = [promise EXCEPT ![j][n] = p]
      BY <1>17 DEF SaveNode
    <3>2. QED
      BY <3>1 DEF Promises
  <2>2. stored' \in Contexts \cup {Absent}
    BY <1>17 DEF SaveNode
  <2>3. QED
    BY <1>17, <2>1, <2>2 DEF SaveNode, definition, after, eventVars
<1>18. ASSUME NEW j \in Jobs, NEW n \in Nodes, SaveNodeFails(j, n) PROVE TypeOK'
  BY <1>18 DEF SaveNodeFails, definition, after, eventVars, Promises
<1>19. CASE LoseContext
  BY <1>19 DEF LoseContext, definition, after, jobVars, eventVars
<1>21. ASSUME NEW j \in Jobs, NEW n \in Nodes, NodeTells(j, n) PROVE TypeOK'
  <2>1. PICK event \in Interim : Emit(j, event)
    BY <1>21 DEF NodeTells, Interim
  <2>2. trailing' \in [Jobs -> SUBSET (Interim \cup {"NODE_COMPLETED", "NODE_FAILED"})]
    BY <2>1 DEF Emit
  <2>3. QED
    BY <1>21, <2>2 DEF NodeTells, definition, jobVars, eventVars
<1>22. ASSUME NEW j \in Jobs, NEW n \in Nodes, ScriptEnds(j, n) PROVE TypeOK'
  BY <1>22 DEF ScriptEnds, definition, jobVars, eventVars
<1>20. CASE UNCHANGED vars
  BY <1>20 DEF vars, definition, after, jobVars, eventVars
<1>. QED
  BY <1>1, <1>2, <1>3, <1>4, <1>7, <1>8, <1>9, <1>10, <1>12, <1>13, <1>14, <1>15,
     <1>16, <1>17, <1>18, <1>19, <1>20, <1>21, <1>22, AllCases

-----------------------------------------------------------------------------
(* What an action does to the live contexts.                               *)
LEMMA Marks ==
    ASSUME TypeOK, NEW j \in Jobs, MarkNodeCompleted(j) \/ MarkFails(j)
    PROVE  \E n \in toMark[j] :
              /\ ctx' = [ctx EXCEPT ![j] = [ctx[j] EXCEPT !.completed = @ \cup {n}]]
              /\ ctx'[j].all = ctx[j].all /\ ctx'[j].exec = ctx[j].exec
              /\ ctx'[j].completed = ctx[j].completed \cup {n}
              /\ \A i \in Jobs \ {j} : ctx'[i] = ctx[i]
              /\ n \in Nodes
              /\ MarkFails(j) => toMark' = toMark
              /\ MarkNodeCompleted(j) =>
                    /\ toMark' = [toMark EXCEPT ![j] = @ \ {n}]
                    /\ stage'[j] = "looping" => toMark[j] = {n}
                    /\ stored' \in {stored, ctx'[j]}
<1> USE DEF TypeOK
<1>1. ASSUME NEW n \in toMark[j],
             ctx' = [ctx EXCEPT ![j] = [ctx[j] EXCEPT !.completed = @ \cup {n}]]
      PROVE  /\ ctx'[j] = [ctx[j] EXCEPT !.completed = @ \cup {n}]
             /\ ctx'[j].all = ctx[j].all /\ ctx'[j].exec = ctx[j].exec
             /\ ctx'[j].completed = ctx[j].completed \cup {n}
             /\ \A i \in Jobs \ {j} : ctx'[i] = ctx[i]
             /\ n \in Nodes
  BY <1>1 DEF Contexts
<1>2. CASE MarkFails(j)
  <2>1. PICK n \in toMark[j] : ctx' = [ctx EXCEPT ![j].completed = @ \cup {n}]
    BY <1>2 DEF MarkFails
  <2>2. ctx' = [ctx EXCEPT ![j] = [ctx[j] EXCEPT !.completed = @ \cup {n}]]
    BY <2>1
  <2>3. toMark' = toMark /\ (MarkNodeCompleted(j) => FALSE)
    BY <1>2 DEF MarkFails, MarkNodeCompleted
  <2>4. QED
    BY <1>1, <2>2, <2>3
<1>3. CASE MarkNodeCompleted(j)
  <2> PICK n \in toMark[j] :
          LET marked == [ctx[j] EXCEPT !.completed = @ \cup {n}] IN
          /\ ctx' = [ctx EXCEPT ![j] = marked]
          /\ toMark' = [toMark EXCEPT ![j] = @ \ {n}]
          /\ IF stored = Absent
             THEN Fail(j, "context") /\ UNCHANGED stored
             ELSE /\ stored' = marked
                  /\ stage' = [stage EXCEPT
                                 ![j] = IF toMark[j] = {n} THEN "looping" ELSE @]
                  /\ UNCHANGED <<verdict, cause>>
    BY <1>3 DEF MarkNodeCompleted
  <2>1. stage[j] = "marking"
    BY <1>3 DEF MarkNodeCompleted
  <2>2. stage'[j] = "looping" => toMark[j] = {n}
    BY <2>1 DEF Fail
  <2>3. stored' \in {stored, [ctx[j] EXCEPT !.completed = @ \cup {n}]}
    OBVIOUS
  <2>4. MarkFails(j) => toMark' = toMark
    BY DEF MarkFails
  <2>5. QED
    BY <1>1, <2>2, <2>3, <2>4
<1>. QED
  BY <1>2, <1>3

LEMMA Returns ==
    ASSUME TypeOK, NEW j \in Jobs, NEW n \in Nodes, NEW success \in BOOLEAN,
           NodeReturns(j, n, success)
    PROVE  /\ ctx'[j].all = ctx[j].all /\ ctx'[j].completed = ctx[j].completed
           /\ ctx'[j].exec[n] = IF success THEN "ok" ELSE "err"
           /\ \A m \in Nodes \ {n} : ctx'[j].exec[m] = ctx[j].exec[m]
           /\ \A i \in Jobs \ {j} : ctx'[i] = ctx[i]
BY DEF TypeOK, Contexts, NodeReturns

-----------------------------------------------------------------------------
(* The steps that leave every context alone.                               *)
LEMMA QuietSteps ==
    ASSUME [Next]_vars
    PROVE  \/ UNCHANGED ctx /\ stored' \in {stored, Absent} \cup {ctx[j] : j \in Jobs}
           \/ \E j \in Jobs :
                 \/ LoadContext(j) \/ CreateContext(j)
                 \/ MarkNodeCompleted(j) \/ MarkFails(j)
                 \/ \E n \in Nodes, success \in BOOLEAN : NodeReturns(j, n, success)
<1>1. ASSUME NEW j \in Jobs,
             \/ InitializeFails(j) \/ StartWave(j) \/ NothingReady(j) \/ Finish(j)
             \/ WaveRejects(j) \/ WaveResolves(j) \/ RunnerDies(j)
             \/ \E n \in Nodes : NodeThrows(j, n) \/ SaveNode(j, n) \/ SaveNodeFails(j, n)
      PROVE  UNCHANGED ctx /\ stored' \in {stored, Absent} \cup {ctx[i] : i \in Jobs}
  BY <1>1 DEF InitializeFails, StartWave, NothingReady, Finish, WaveRejects, WaveResolves,
              RunnerDies, NodeThrows, SaveNode, SaveNodeFails
<1>2. ASSUME LoseContext \/ UNCHANGED workVars
      PROVE  UNCHANGED ctx /\ stored' \in {stored, Absent} \cup {ctx[i] : i \in Jobs}
  BY <1>2 DEF LoseContext, workVars, jobVars
<1>. QED
  BY <1>1, <1>2, StepCases

LEMMA ContextStep ==
    /\ TypeOK /\ ContextInv /\ VerdictInv /\ PromiseInv /\ PendingInv /\ WaveInv
    /\ [Next]_vars
    => ContextInv'
<1> SUFFICES ASSUME TypeOK, ContextInv, VerdictInv, PromiseInv, PendingInv, WaveInv,
                    [Next]_vars
             PROVE  ContextInv'
  OBVIOUS
<1>1. CASE UNCHANGED ctx /\ stored' \in {stored, Absent} \cup {ctx[j] : j \in Jobs}
  BY <1>1 DEF ContextInv
<1>2. ASSUME NEW j \in Jobs, LoadContext(j) PROVE ContextInv'
  BY ZenonT(60), <1>2 DEF LoadContext, ContextInv, TypeOK
<1>3. ASSUME NEW j \in Jobs, CreateContext(j) PROVE ContextInv'
  <2>1. SoundContext([NoContext EXCEPT !.all = defined[j]])
    BY DEF SoundContext, NoContext
  <2>2. QED
    BY <1>3, <2>1 DEF CreateContext, ContextInv, TypeOK
<1>4. ASSUME NEW j \in Jobs, MarkNodeCompleted(j) \/ MarkFails(j) PROVE ContextInv'
  <2> PICK n \in toMark[j] :
              /\ ctx'[j].all = ctx[j].all /\ ctx'[j].exec = ctx[j].exec
              /\ ctx'[j].completed = ctx[j].completed \cup {n}
              /\ \A i \in Jobs \ {j} : ctx'[i] = ctx[i]
              /\ n \in Nodes
              /\ MarkNodeCompleted(j) => stored' \in {stored, ctx'[j]}
    BY <1>4, Marks
  <2>1. n \in ctx[j].all /\ ctx[j].exec[n] = "ok"
    BY <1>4 DEF MarkNodeCompleted, MarkFails, WaveInv, WaveTakes, PromiseInv, PromiseLeft
  <2>2. SoundContext(ctx'[j])
    BY <2>1 DEF ContextInv, SoundContext
  <2>3. stored' \in {stored, ctx'[j]}
    BY <1>4 DEF MarkFails
  <2>4. QED
    BY <2>2, <2>3 DEF ContextInv
<1>5. ASSUME NEW j \in Jobs, NEW n \in Nodes, NEW success \in BOOLEAN,
             NodeReturns(j, n, success)
      PROVE  ContextInv'
  <2>1. n \notin ctx[j].completed /\ stored' = stored
    BY <1>5 DEF NodeReturns, PromiseInv, PromiseLeft
  <2>2. ctx[j].completed \subseteq Nodes
    BY DEF TypeOK, Contexts
  <2>3. SoundContext(ctx'[j])
    BY <1>5, <2>1, <2>2, Returns DEF ContextInv, SoundContext
  <2>4. QED
    BY <1>5, <2>1, <2>3, Returns DEF ContextInv
<1>. QED
  BY <1>1, <1>2, <1>3, <1>4, <1>5, QuietSteps

LEMMA VerdictStep == TypeOK /\ VerdictInv /\ PromiseInv /\ WaveInv /\ [Next]_vars => VerdictInv'
<1> SUFFICES ASSUME TypeOK, VerdictInv, PromiseInv, WaveInv, [Next]_vars PROVE VerdictInv'
  OBVIOUS
<1> USE DEF TypeOK, VerdictInv
<1>1. ASSUME NEW j \in Jobs, LoadContext(j) PROVE VerdictInv'
  BY <1>1 DEF LoadContext, eventVars
<1>2. ASSUME NEW j \in Jobs, CreateContext(j) PROVE VerdictInv'
  BY <1>2 DEF CreateContext, eventVars
<1>3. ASSUME NEW j \in Jobs, InitializeFails(j) PROVE VerdictInv'
  BY <1>3 DEF InitializeFails
<1>4. ASSUME NEW j \in Jobs, StartWave(j) PROVE VerdictInv'
  <2>1. /\ stage' = [stage EXCEPT ![j] = "wave"]
        /\ \A i \in Jobs \ {j} : started'[i] = started[i]
        /\ UNCHANGED <<ctx, verdict, cause>>
    BY <1>4 DEF StartWave
  <2>2. stage[j] = "looping"
    BY <1>4 DEF StartWave
  <2>3. QED
    BY <2>1, <2>2
\* The job ends, with or without a verdict.
<1>5. ASSUME NEW j \in Jobs, stage' = [stage EXCEPT ![j] = "done"],
             \A i \in Jobs \ {j} : verdict'[i] = verdict[i] /\ cause'[i] = cause[i],
             cause'[j] = "throw" => verdict'[j] = "WORKFLOW_FAILED",
             \A i \in Jobs \ {j} : ctx'[i] = ctx[i],
             started' = started
      PROVE  VerdictInv'
  BY <1>5
<1>6. ASSUME NEW j \in Jobs, NEW why \in Causes, Fail(j, why),
             \A i \in Jobs \ {j} : ctx'[i] = ctx[i],
             started' = started
      PROVE  VerdictInv'
  BY <1>5, <1>6 DEF Fail
<1>7. {"circular", "output", "throw", "node", "context"} \subseteq Causes
  BY DEF Causes
<1>8. ASSUME NEW j \in Jobs, NothingReady(j) \/ WaveRejects(j) PROVE VerdictInv'
  BY <1>6, <1>7, <1>8 DEF NothingReady, WaveRejects
<1>9. ASSUME NEW j \in Jobs, Finish(j) PROVE VerdictInv'
  <2>1. CASE Fail(j, "output")
    BY <1>6, <1>7, <1>9, <2>1 DEF Finish
  <2>2. CASE ~OutputThrows(j)
    BY <1>5, <1>9, <2>2 DEF Finish
  <2>3. QED
    BY <1>9, <2>1, <2>2 DEF Finish
<1>10. ASSUME NEW j \in Jobs, WaveResolves(j) PROVE VerdictInv'
  <2>1. CASE Fail(j, "node")
    BY <1>6, <1>7, <1>10, <2>1 DEF WaveResolves
  <2>2. CASE stage' = [stage EXCEPT ![j] = "marking"] /\ UNCHANGED <<verdict, cause>>
    BY <1>10, <2>2 DEF WaveResolves
  <2>3. QED
    BY <1>10, <2>1, <2>2 DEF WaveResolves
<1>11. ASSUME NEW j \in Jobs, MarkNodeCompleted(j) \/ MarkFails(j) PROVE VerdictInv'
  <2>1. started' = started /\ stage[j] = "marking" /\ \A i \in Jobs \ {j} : ctx'[i] = ctx[i]
    BY <1>11, Marks DEF MarkNodeCompleted, MarkFails
  <2>2. CASE Fail(j, "context")
    BY <1>6, <1>7, <2>1, <2>2
  <2>3. CASE /\ \E s \in {"looping", "marking"} : stage' = [stage EXCEPT ![j] = s]
             /\ UNCHANGED <<verdict, cause>>
    BY <2>1, <2>3
  <2>4. QED
    BY <1>11, <2>1, <2>2, <2>3 DEF MarkNodeCompleted, MarkFails
<1>12. ASSUME NEW j \in Jobs, RunnerDies(j) PROVE VerdictInv'
  BY <1>12 DEF RunnerDies, eventVars
<1>13. ASSUME NEW j \in Jobs, NEW n \in Nodes, NEW success \in BOOLEAN,
              NodeReturns(j, n, success)
       PROVE  VerdictInv'
  <2>1. stage[j] \notin {"queued", "creating"}
    BY <1>13 DEF NodeReturns, PromiseInv, PromiseLeft
  <2>2. \A i \in Jobs \ {j} : ctx'[i] = ctx[i]
    BY <1>13, Returns
  <2>3. UNCHANGED <<stage, verdict, cause, started>>
    BY <1>13 DEF NodeReturns
  <2>4. QED
    BY <2>1, <2>2, <2>3
<1>14. ASSUME NEW j \in Jobs, NEW n \in Nodes,
              NodeThrows(j, n) \/ SaveNode(j, n) \/ SaveNodeFails(j, n)
       PROVE  VerdictInv'
  BY <1>14 DEF NodeThrows, SaveNode, SaveNodeFails, eventVars
<1>15. CASE LoseContext \/ UNCHANGED workVars
  BY <1>15 DEF LoseContext, workVars, jobVars, eventVars
<1>. QED
  BY <1>1, <1>2, <1>3, <1>4, <1>8, <1>9, <1>10, <1>11, <1>12, <1>13, <1>14, <1>15, StepCases

-----------------------------------------------------------------------------
(* The promises.                                                           *)
LEMMA PendingStep == TypeOK /\ VerdictInv /\ PendingInv /\ [Next]_vars => PendingInv'
<1> SUFFICES ASSUME TypeOK, VerdictInv, PendingInv, [Next]_vars PROVE PendingInv'
  OBVIOUS
<1> USE DEF TypeOK, PendingInv, Unsettled
\* A step before a wave, after it, or without a promise of its own.
<1>1. ASSUME NEW j \in Jobs, UNCHANGED <<promise, wave>>,
             \A i \in Jobs \ {j} : stage'[i] = stage[i] /\ cause'[i] = cause[i],
             \/ \A n \in Nodes : promise[j][n] \notin Unsettled
             \/ stage'[j] = "done" /\ cause'[j] = "throw"
      PROVE  PendingInv'
  BY <1>1
<1>2. ASSUME NEW j \in Jobs, stage[j] \in Stages \ {"wave", "done"}
      PROVE  \A n \in Nodes : promise[j][n] \notin Unsettled
  BY <1>2
<1>3. ASSUME NEW j \in Jobs, NEW why \in Causes, Fail(j, why)
      PROVE  /\ stage'[j] = "done" /\ cause'[j] = why
             /\ \A i \in Jobs \ {j} : stage'[i] = stage[i] /\ cause'[i] = cause[i]
  BY <1>3 DEF Fail
<1>4. {"circular", "output", "throw", "node", "context"} \subseteq Causes
  BY DEF Causes
<1>5. ASSUME NEW j \in Jobs,
             LoadContext(j) \/ CreateContext(j) \/ InitializeFails(j)
      PROVE  PendingInv'
  <2>1. stage[j] \in Stages \ {"wave", "done"} /\ UNCHANGED <<promise, wave>>
    BY <1>5 DEF LoadContext, CreateContext, InitializeFails, Stages
  <2>2. \A i \in Jobs \ {j} : stage'[i] = stage[i] /\ cause'[i] = cause[i]
    BY <1>5 DEF LoadContext, CreateContext, InitializeFails, eventVars
  <2>3. QED
    BY <1>1, <1>2, <2>1, <2>2
<1>6. ASSUME NEW j \in Jobs, StartWave(j) PROVE PendingInv'
  <2>1. stage[j] = "looping" /\ stage' = [stage EXCEPT ![j] = "wave"]
    BY <1>6 DEF StartWave
  <2>2. wave' = [wave EXCEPT ![j] = ReadyNodes(j)] /\ cause' = cause
    BY <1>6 DEF StartWave
  <2>3. /\ \A i \in Jobs \ {j} : promise'[i] = promise[i]
        /\ \A n \in Nodes : n \in ReadyNodes(j) \/ promise'[j][n] = promise[j][n]
    BY <1>6 DEF StartWave
  <2>4. \A n \in Nodes : promise[j][n] \notin Unsettled
    BY <2>1
  <2>5. QED
    BY <2>1, <2>2, <2>3, <2>4
<1>7. ASSUME NEW j \in Jobs, NothingReady(j) PROVE PendingInv'
  <2>1. stage[j] \in Stages \ {"wave", "done"} /\ UNCHANGED <<promise, wave>>
    BY <1>7 DEF NothingReady, Stages
  <2>2. Fail(j, "circular")
    BY <1>7 DEF NothingReady
  <2>3. QED
    BY <1>1, <1>2, <1>3, <1>4, <2>1, <2>2
<1>8. ASSUME NEW j \in Jobs, Finish(j) PROVE PendingInv'
  <2>1. stage[j] \in Stages \ {"wave", "done"} /\ UNCHANGED <<promise, wave>>
    BY <1>8 DEF Finish, Stages
  <2>2. \A i \in Jobs \ {j} : stage'[i] = stage[i] /\ cause'[i] = cause[i]
    BY <1>8 DEF Finish, Fail
  <2>3. QED
    BY <1>1, <1>2, <2>1, <2>2
<1>9. ASSUME NEW j \in Jobs, WaveRejects(j) PROVE PendingInv'
  <2>1. UNCHANGED <<promise, wave>> /\ Fail(j, "throw")
    BY <1>9 DEF WaveRejects
  <2>2. QED
    BY <1>1, <1>3, <1>4, <2>1
<1>10. ASSUME NEW j \in Jobs, WaveResolves(j) PROVE PendingInv'
  <2>1. \A n \in Nodes : promise[j][n] \notin Unsettled
    BY <1>10 DEF WaveResolves
  <2>2. \A i \in Jobs \ {j} : stage'[i] = stage[i] /\ cause'[i] = cause[i]
    BY <1>10 DEF WaveResolves, Fail
  <2>3. UNCHANGED <<promise, wave>>
    BY <1>10 DEF WaveResolves
  <2>4. QED
    BY <1>1, <2>1, <2>2, <2>3
<1>11. ASSUME NEW j \in Jobs, MarkNodeCompleted(j) \/ MarkFails(j) PROVE PendingInv'
  <2>1. stage[j] \in Stages \ {"wave", "done"} /\ UNCHANGED <<promise, wave>>
    BY <1>11 DEF MarkNodeCompleted, MarkFails, Stages
  <2>2. \A i \in Jobs \ {j} : stage'[i] = stage[i] /\ cause'[i] = cause[i]
    BY <1>11 DEF MarkNodeCompleted, MarkFails, Fail
  <2>3. QED
    BY <1>1, <1>2, <2>1, <2>2
<1>12. ASSUME NEW j \in Jobs, RunnerDies(j) PROVE PendingInv'
  <2>1. /\ \A n \in Nodes : promise'[j][n] = "idle"
        /\ \A i \in Jobs \ {j} : /\ stage'[i] = stage[i] /\ promise'[i] = promise[i]
                                /\ wave'[i] = wave[i]
        /\ cause' = cause
    BY <1>12 DEF RunnerDies, eventVars
  <2>2. QED
    BY <2>1
<1>13. ASSUME NEW j \in Jobs, NEW n \in Nodes,
              \/ \E success \in BOOLEAN : NodeReturns(j, n, success)
              \/ NodeThrows(j, n) \/ SaveNode(j, n) \/ SaveNodeFails(j, n)
       PROVE  PendingInv'
  <2>1. promise[j][n] \in Unsettled /\ UNCHANGED <<stage, wave, cause>>
    BY <1>13 DEF NodeReturns, NodeThrows, SaveNode, SaveNodeFails, eventVars
  <2>2. \A i \in Jobs, m \in Nodes :
            promise'[i][m] = promise[i][m] \/ (i = j /\ m = n)
    BY <1>13 DEF NodeReturns, NodeThrows, SaveNode, SaveNodeFails
  <2>3. QED
    BY ZenonT(60), <2>1, <2>2
<1>14. CASE LoseContext \/ UNCHANGED workVars
  BY <1>14 DEF LoseContext, workVars, jobVars, eventVars
<1>. QED
  BY <1>5, <1>6, <1>7, <1>8, <1>9, <1>10, <1>11, <1>12, <1>13, <1>14, StepCases

LEMMA PromiseStep ==
    /\ TypeOK /\ VerdictInv /\ PromiseInv /\ WaveInv /\ StartedInv
    /\ [Next]_vars
    => PromiseInv'
<1> SUFFICES ASSUME TypeOK, VerdictInv, PromiseInv, WaveInv, StartedInv, [Next]_vars,
                    NEW i \in Jobs, NEW m \in Nodes
             PROVE  PromiseLeft(i, m)'
  BY DEF PromiseInv
<1> USE DEF TypeOK
<1>0. PromiseLeft(i, m)
  BY DEF PromiseInv
\* A step that does not concern node m of job i.
<1>1. ASSUME promise'[i][m] = promise[i][m], started'[i][m] = started[i][m],
             outcome'[i][m] = outcome[i][m], ctx'[i].exec[m] = ctx[i].exec[m],
             m \in ctx'[i].completed => m \in ctx[i].completed
      PROVE  PromiseLeft(i, m)'
  BY <1>0, <1>1 DEF PromiseLeft
<1>2. ASSUME NEW j \in Jobs,
             \/ InitializeFails(j) \/ NothingReady(j) \/ Finish(j)
             \/ WaveRejects(j) \/ WaveResolves(j)
      PROVE  PromiseLeft(i, m)'
  BY <1>1, <1>2 DEF InitializeFails, NothingReady, Finish, WaveRejects, WaveResolves
<1>3. CASE LoseContext \/ UNCHANGED workVars
  BY <1>1, <1>3 DEF LoseContext, workVars, jobVars, eventVars
<1>4. ASSUME NEW j \in Jobs, LoadContext(j) \/ CreateContext(j) PROVE PromiseLeft(i, m)'
  <2>1. UNCHANGED <<promise, started, outcome>>
    BY <1>4 DEF LoadContext, CreateContext, eventVars
  <2>2. CASE i # j
    <3>1. ctx'[i] = ctx[i]
      BY <1>4, <2>2 DEF LoadContext, CreateContext
    <3>2. QED
      BY <1>1, <2>1, <3>1
  <2>3. CASE i = j
    <3>1. started[i][m] = 0
      BY <1>4, <2>3 DEF LoadContext, CreateContext, VerdictInv
    <3>2. QED
      BY <1>0, <2>1, <3>1 DEF PromiseLeft
  <2>4. QED
    BY <2>2, <2>3
<1>5. ASSUME NEW j \in Jobs, StartWave(j) PROVE PromiseLeft(i, m)'
  <2>1. stage[j] = "looping" /\ UNCHANGED <<ctx, outcome>>
    BY <1>5 DEF StartWave
  <2>2. CASE i # j \/ m \notin ReadyNodes(j)
    <3>1. promise'[i][m] = promise[i][m] /\ started'[i][m] = started[i][m]
      BY <1>5, <2>2 DEF StartWave
    <3>2. QED
      BY <1>1, <2>1, <3>1
  <2>3. CASE i = j /\ m \in ReadyNodes(j)
    <3>1. promise'[i][m] = Launch(j, m)
      BY <1>5, <2>3 DEF StartWave
    <3>2. started'[i][m] = IF Launch(j, m) = "running" THEN started[i][m] + 1
                                                      ELSE started[i][m]
      BY <1>5, <2>3 DEF StartWave
    <3>3. Launch(j, m) \in {"savedErr", "rejected", "running"}
      BY DEF Launch
    <3>4. m \notin ctx[j].completed /\ started[i][m] \in Nat
      BY <2>3 DEF ReadyNodes
    <3>5. Launch(j, m) = "running" => outcome[i][m] = "none"
      BY <1>0, <2>1, <2>3, <3>4 DEF PromiseLeft, StartedInv, StartedOnce
    <3>6. QED
      BY <1>0, <2>1, <2>3, <3>1, <3>2, <3>3, <3>4, <3>5 DEF PromiseLeft
  <2>4. QED
    BY <2>2, <2>3
<1>6. ASSUME NEW j \in Jobs, MarkNodeCompleted(j) \/ MarkFails(j) PROVE PromiseLeft(i, m)'
  <2> PICK n \in toMark[j] :
              /\ ctx'[j].exec = ctx[j].exec
              /\ ctx'[j].completed = ctx[j].completed \cup {n}
              /\ \A k \in Jobs \ {j} : ctx'[k] = ctx[k]
    BY <1>6, Marks
  <2>1. promise[j][n] = "savedOk"
    BY <1>6 DEF MarkNodeCompleted, MarkFails, WaveInv, WaveTakes
  <2>2. UNCHANGED <<promise, started, outcome>>
    BY <1>6 DEF MarkNodeCompleted, MarkFails
  <2>3. ctx'[i].exec = ctx[i].exec
    OBVIOUS
  <2>4. promise[i][m] = "running" => (m \in ctx'[i].completed => m \in ctx[i].completed)
    BY <2>1
  <2>5. QED
    BY <1>0, <2>2, <2>3, <2>4 DEF PromiseLeft
<1>7. ASSUME NEW j \in Jobs, RunnerDies(j) PROVE PromiseLeft(i, m)'
  <2>1. UNCHANGED <<ctx, started, outcome>>
    BY <1>7 DEF RunnerDies, eventVars
  <2>2. promise'[i][m] = promise[i][m] \/ promise'[i][m] = "idle"
    BY <1>7 DEF RunnerDies
  <2>3. QED
    BY <1>0, <2>1, <2>2 DEF PromiseLeft
<1>8. ASSUME NEW j \in Jobs, NEW n \in Nodes, NEW success \in BOOLEAN,
             NodeReturns(j, n, success)
      PROVE  PromiseLeft(i, m)'
  <2>1. CASE i # j \/ m # n
    <3>1. promise'[i][m] = promise[i][m] /\ outcome'[i][m] = outcome[i][m] /\ started' = started
      BY <1>8, <2>1 DEF NodeReturns
    <3>2. ctx'[i].exec[m] = ctx[i].exec[m] /\ ctx'[i].completed = ctx[i].completed
      BY <1>8, <2>1, Returns
    <3>3. QED
      BY <1>1, <3>1, <3>2
  <2>2. CASE i = j /\ m = n
    <3>1. /\ promise[i][m] = "running" /\ started' = started
          /\ promise'[i][m] = IF success THEN "savingOk" ELSE "savingErr"
          /\ outcome'[i][m] = IF success THEN "NODE_COMPLETED" ELSE "NODE_FAILED"
      BY <1>8, <2>2 DEF NodeReturns
    <3>2. ctx'[i].exec[m] = IF success THEN "ok" ELSE "err"
      BY <1>8, <2>2, Returns
    <3>3. QED
      BY <1>0, <3>1, <3>2 DEF PromiseLeft
  <2>3. QED
    BY <2>1, <2>2
<1>9. ASSUME NEW j \in Jobs, NEW n \in Nodes,
             NodeThrows(j, n) \/ SaveNode(j, n) \/ SaveNodeFails(j, n)
      PROVE  PromiseLeft(i, m)'
  <2>1. UNCHANGED <<ctx, started, outcome>>
    BY <1>9 DEF NodeThrows, SaveNode, SaveNodeFails, eventVars
  <2>2. PICK p \in Promises :
              /\ promise' = [promise EXCEPT ![j][n] = p]
              /\ p \in {"rejected", "savedErr"} \/ (p = "savedOk" /\ promise[j][n] = "savingOk")
    <3>1. CASE NodeThrows(j, n) \/ SaveNodeFails(j, n)
      BY <3>1 DEF NodeThrows, SaveNodeFails, Promises
    <3>2. CASE SaveNode(j, n)
      BY <3>2 DEF SaveNode, Promises
    <3>3. QED
      BY <1>9, <3>1, <3>2
  <2>3. \/ promise'[i][m] = promise[i][m]
        \/ promise'[i][m] \in {"rejected", "savedErr"}
        \/ promise[i][m] = "savingOk" /\ promise'[i][m] = "savedOk"
    BY <2>2
  <2>4. QED
    BY <1>0, <2>1, <2>3 DEF PromiseLeft
<1>. QED
  BY <1>2, <1>3, <1>4, <1>5, <1>6, <1>7, <1>8, <1>9, StepCases

(* The waves.                                                              *)
LEMMA WaveStep == TypeOK /\ PromiseInv /\ WaveInv /\ [Next]_vars => WaveInv'
<1> SUFFICES ASSUME TypeOK, PromiseInv, WaveInv, [Next]_vars, NEW i \in Jobs
             PROVE  WaveTakes(i)'
  BY DEF WaveInv
<1> USE DEF TypeOK
<1>0. WaveTakes(i)
  BY DEF WaveInv
\* A step of another job, or out of a wave.
<1>1. ASSUME \/ /\ stage'[i] = stage[i] /\ ctx'[i] = ctx[i] /\ promise'[i] = promise[i]
                /\ wave'[i] = wave[i] /\ toMark'[i] = toMark[i]
             \/ stage'[i] \notin {"wave", "marking"}
      PROVE  WaveTakes(i)'
  BY <1>0, <1>1 DEF WaveTakes
<1>2. ASSUME NEW j \in Jobs,
             \/ LoadContext(j) \/ CreateContext(j) \/ InitializeFails(j)
             \/ NothingReady(j) \/ Finish(j) \/ WaveRejects(j) \/ RunnerDies(j)
      PROVE  WaveTakes(i)'
  <2>1. CASE i = j
    BY <1>1, <1>2, <2>1 DEF LoadContext, CreateContext, InitializeFails, NothingReady,
                            Finish, WaveRejects, RunnerDies, Fail
  <2>2. CASE i # j
    BY <1>1, <1>2, <2>2 DEF LoadContext, CreateContext, InitializeFails, NothingReady,
                            Finish, WaveRejects, RunnerDies, Fail
  <2>3. QED
    BY <2>1, <2>2
<1>3. ASSUME NEW j \in Jobs, StartWave(j) PROVE WaveTakes(i)'
  <2>1. CASE i = j
    <3>1. stage'[i] = "wave" /\ wave'[i] = ReadyNodes(i) /\ ctx' = ctx
      BY <1>3, <2>1 DEF StartWave
    <3>2. QED
      BY <3>1 DEF WaveTakes, ReadyNodes
  <2>2. CASE i # j
    BY <1>1, <1>3, <2>2 DEF StartWave
  <2>3. QED
    BY <2>1, <2>2
<1>4. ASSUME NEW j \in Jobs, WaveResolves(j) PROVE WaveTakes(i)'
  <2>1. CASE i # j
    BY <1>1, <1>4, <2>1 DEF WaveResolves, Fail
  <2>2. CASE i = j /\ stage'[i] = "done"
    BY <1>1, <2>2
  <2>3. CASE i = j /\ stage'[i] # "done"
    <3>1. /\ stage[i] = "wave" /\ stage'[i] = "marking" /\ toMark'[i] = wave[i]
          /\ UNCHANGED <<ctx, promise>>
          /\ \A n \in wave[i] : promise[i][n] \in {"savedOk", "savedErr"}
          /\ ~\E n \in wave[i] : promise[i][n] = "savedErr"
      BY <1>4, <2>3 DEF WaveResolves, Fail
    <3>2. QED
      BY <1>0, <3>1 DEF WaveTakes
  <2>4. QED
    BY <2>1, <2>2, <2>3
<1>5. ASSUME NEW j \in Jobs, MarkNodeCompleted(j) \/ MarkFails(j) PROVE WaveTakes(i)'
  <2> PICK n \in toMark[j] :
              /\ ctx'[j].all = ctx[j].all
              /\ \A k \in Jobs \ {j} : ctx'[k] = ctx[k]
              /\ MarkFails(j) => toMark' = toMark
              /\ MarkNodeCompleted(j) => toMark' = [toMark EXCEPT ![j] = @ \ {n}]
    <3> HIDE DEF TypeOK
    <3>1. QED
      BY <1>5, Marks
  <2>1. stage[j] = "marking" /\ UNCHANGED <<promise, wave>>
    BY <1>5 DEF MarkNodeCompleted, MarkFails
  <2>2. CASE i # j
    <3>1. stage'[i] = stage[i] /\ toMark'[i] = toMark[i]
      BY <1>5, <2>2 DEF MarkNodeCompleted, MarkFails, Fail
    <3>2. QED
      BY <1>1, <2>1, <2>2, <3>1
  <2>3. CASE i = j
    <3>1. stage'[i] # "wave" /\ toMark'[i] \subseteq toMark[i]
      BY <1>5, <2>1, <2>3 DEF MarkNodeCompleted, MarkFails, Fail
    <3>2. QED
      BY <1>0, <2>1, <2>3, <3>1 DEF WaveTakes
  <2>4. QED
    BY <2>2, <2>3
<1>6. ASSUME NEW j \in Jobs, NEW n \in Nodes,
             \/ \E success \in BOOLEAN : NodeReturns(j, n, success)
             \/ NodeThrows(j, n) \/ SaveNode(j, n) \/ SaveNodeFails(j, n)
      PROVE  WaveTakes(i)'
  <2>1. promise[j][n] # "savedOk" /\ UNCHANGED <<stage, wave, toMark>>
    BY <1>6 DEF NodeReturns, NodeThrows, SaveNode, SaveNodeFails
  <2>2. \A k \in Nodes : promise[i][k] = "savedOk" => promise'[i][k] = "savedOk"
    <3>1. \E p \in Promises : promise' = [promise EXCEPT ![j][n] = p]
      BY <1>6 DEF NodeReturns, NodeThrows, SaveNode, SaveNodeFails, Promises
    <3>2. QED
      BY <2>1, <3>1
  <2>3. CASE \E success \in BOOLEAN : NodeReturns(j, n, success)
    <3> HIDE DEF TypeOK
    <3>1. ctx'[i].all = ctx[i].all /\ ctx'[i].completed = ctx[i].completed
      BY <2>3, Returns
    <3>2. toMark[i] \subseteq Nodes
      BY DEF TypeOK
    <3>3. QED
      BY <1>0, <2>1, <2>2, <3>1, <3>2 DEF WaveTakes
  <2>4. CASE UNCHANGED ctx
    <3>1. toMark[i] \subseteq Nodes
      OBVIOUS
    <3>2. QED
      BY <1>0, <2>1, <2>2, <2>4, <3>1 DEF WaveTakes
  <2>5. QED
    BY <1>6, <2>3, <2>4 DEF NodeThrows, SaveNode, SaveNodeFails
<1>7. CASE LoseContext \/ UNCHANGED workVars
  BY <1>1, <1>7 DEF LoseContext, workVars, jobVars
<1>. QED
  BY <1>2, <1>3, <1>4, <1>5, <1>6, <1>7, StepCases

-----------------------------------------------------------------------------
(* The starts.                                                             *)
LEMMA StartedStep ==
    /\ TypeOK /\ ContextInv /\ VerdictInv /\ PromiseInv /\ WaveInv /\ StartedInv
    /\ [Next]_vars
    => StartedInv'
<1> SUFFICES ASSUME TypeOK, ContextInv, VerdictInv, PromiseInv, WaveInv, StartedInv,
                    [Next]_vars, NEW i \in Jobs, NEW m \in Nodes
             PROVE  StartedOnce(i, m)'
  BY DEF StartedInv
<1> USE DEF TypeOK
<1>0. StartedOnce(i, m) /\ PromiseLeft(i, m) /\ WaveTakes(i)
  BY DEF StartedInv, PromiseInv, WaveInv
\* A step of another job, or out of the waves.
<1>1. ASSUME started'[i][m] = started[i][m], ctx'[i].completed = ctx[i].completed,
             sources' = sources, outcome'[i][m] = outcome[i][m],
             \/ stage'[i] = stage[i] /\ wave'[i] = wave[i] /\ toMark'[i] = toMark[i]
             \/ stage'[i] \in {"done", "dead", "queued", "creating"}
      PROVE  StartedOnce(i, m)'
  BY <1>0, <1>1 DEF StartedOnce
<1>2. ASSUME NEW j \in Jobs,
             \/ InitializeFails(j) \/ NothingReady(j) \/ Finish(j) \/ WaveRejects(j)
             \/ RunnerDies(j)
      PROVE  StartedOnce(i, m)'
  <2>1. UNCHANGED <<started, ctx, sources, outcome>>
    BY <1>2 DEF InitializeFails, NothingReady, Finish, WaveRejects, RunnerDies,
                definition, eventVars
  <2>2. \/ stage'[i] = stage[i] /\ wave'[i] = wave[i] /\ toMark'[i] = toMark[i]
        \/ stage'[i] \in {"done", "dead"}
    BY <1>2 DEF InitializeFails, NothingReady, Finish, WaveRejects, RunnerDies, Fail
  <2>3. QED
    BY <1>1, <2>1, <2>2
<1>3. ASSUME NEW j \in Jobs, LoadContext(j) \/ CreateContext(j) PROVE StartedOnce(i, m)'
  <2>1. UNCHANGED <<started, sources, outcome, wave, toMark>>
    BY <1>3 DEF LoadContext, CreateContext, eventVars, definition
  <2>2. CASE i = j
    <3>1. started[i][m] = 0
      BY <1>3, <2>2 DEF LoadContext, CreateContext, VerdictInv
    <3>2. QED
      BY <2>1, <3>1 DEF StartedOnce
  <2>3. CASE i # j
    <3>1. stage'[i] = stage[i] /\ ctx'[i] = ctx[i]
      BY <1>3, <2>3 DEF LoadContext, CreateContext
    <3>2. QED
      BY <1>1, <2>1, <3>1
  <2>4. QED
    BY <2>2, <2>3
<1>4. ASSUME NEW j \in Jobs, StartWave(j) PROVE StartedOnce(i, m)'
  <2>1. UNCHANGED <<ctx, sources, outcome, toMark>>
    BY <1>4 DEF StartWave, definition
  <2>2. CASE i # j
    <3>1. stage'[i] = stage[i] /\ wave'[i] = wave[i] /\ started'[i] = started[i]
      BY <1>4, <2>2 DEF StartWave
    <3>2. QED
      BY <1>1, <2>1, <3>1
  <2>3. CASE i = j
    <3>1. stage[i] = "looping" /\ stage'[i] = "wave" /\ wave'[i] = ReadyNodes(i)
      BY <1>4, <2>3 DEF StartWave
    <3>2. started'[i][m] = IF m \in ReadyNodes(i) /\ Launch(i, m) = "running"
                           THEN started[i][m] + 1 ELSE started[i][m]
      BY <1>4, <2>3 DEF StartWave
    <3>3. CASE m \in ReadyNodes(i) /\ Launch(i, m) = "running"
      <4>1. m \in defined[i]
        BY <3>3 DEF Launch
      <4>2. sources[i][m] \subseteq ctx[i].completed /\ m \notin ctx[i].completed
        BY <3>3, <4>1 DEF ReadyNodes, Dependencies
      <4>3. started[i][m] = 0
        BY <1>0, <3>1, <4>2 DEF StartedOnce
      <4>4. QED
        BY <2>1, <3>1, <3>2, <3>3, <4>2, <4>3 DEF StartedOnce
    <3>4. CASE ~(m \in ReadyNodes(i) /\ Launch(i, m) = "running")
      BY <1>0, <2>1, <3>1, <3>2, <3>4 DEF StartedOnce
    <3>5. QED
      BY <3>3, <3>4
  <2>4. QED
    BY <2>2, <2>3
<1>5. ASSUME NEW j \in Jobs, WaveResolves(j) PROVE StartedOnce(i, m)'
  <2>1. UNCHANGED <<started, ctx, sources, outcome, wave>>
    BY <1>5 DEF WaveResolves, definition
  <2>2. \/ stage'[i] = stage[i] /\ toMark'[i] = toMark[i]
        \/ stage'[i] = "done"
        \/ stage[i] = "wave" /\ stage'[i] = "marking" /\ toMark'[i] = wave[i]
    BY <1>5 DEF WaveResolves, Fail
  <2>3. QED
    BY <1>0, <1>1, <2>1, <2>2 DEF StartedOnce
<1>6. ASSUME NEW j \in Jobs, MarkNodeCompleted(j) \/ MarkFails(j) PROVE StartedOnce(i, m)'
  <2> HIDE DEF TypeOK
  <2> PICK n \in toMark[j] :
              /\ ctx'[j].completed = ctx[j].completed \cup {n}
              /\ \A k \in Jobs \ {j} : ctx'[k] = ctx[k]
              /\ n \in Nodes
              /\ MarkFails(j) => toMark' = toMark
              /\ MarkNodeCompleted(j) =>
                    /\ toMark' = [toMark EXCEPT ![j] = @ \ {n}]
                    /\ stage'[j] = "looping" => toMark[j] = {n}
    BY <1>6, Marks
  <2>1. stage[j] = "marking" /\ UNCHANGED <<started, sources, outcome, wave>>
    BY <1>6 DEF MarkNodeCompleted, MarkFails, definition
  <2>2. CASE i # j
    <3>1. stage'[i] = stage[i] /\ toMark'[i] = toMark[i]
      BY <1>6, <2>2 DEF MarkNodeCompleted, MarkFails, Fail, TypeOK
    <3>2. QED
      BY <1>1, <2>1, <2>2, <3>1
  <2>3. CASE i = j
    <3>1. \/ stage'[i] = "done"
          \/ stage'[i] = "looping" /\ toMark[i] = {n}
          \/ stage'[i] = "marking" /\ toMark'[i] = toMark[i] \ {n}
      BY <1>6, <2>1, <2>3 DEF MarkNodeCompleted, MarkFails, Fail, TypeOK
    <3>2. outcome[i][n] = "NODE_COMPLETED"
      BY <2>1, <2>3 DEF PromiseInv, PromiseLeft, WaveInv, WaveTakes
    <3>3. QED
      BY <1>0, <2>1, <2>3, <3>1, <3>2 DEF StartedOnce
  <2>4. QED
    BY <2>2, <2>3
<1>7. ASSUME NEW j \in Jobs, NEW n \in Nodes, NEW success \in BOOLEAN,
             NodeReturns(j, n, success)
      PROVE  StartedOnce(i, m)'
  <2>1. UNCHANGED <<started, sources, stage, wave, toMark>>
    BY <1>7 DEF NodeReturns, definition
  <2>2. ctx'[i].completed = ctx[i].completed
    <3> HIDE DEF TypeOK
    <3>1. QED
      BY <1>7, Returns
  <2>3. CASE i = j /\ m = n
    <3>1. m \notin ctx[i].completed
      BY <1>0, <1>7, <2>3 DEF NodeReturns, PromiseLeft
    <3>2. QED
      BY <1>0, <2>1, <2>2, <3>1 DEF StartedOnce
  <2>4. CASE i # j \/ m # n
    <3>1. outcome'[i][m] = outcome[i][m]
      BY <1>7, <2>4 DEF NodeReturns
    <3>2. QED
      BY <1>1, <2>1, <2>2, <3>1
  <2>5. QED
    BY <2>3, <2>4
<1>8. ASSUME NEW j \in Jobs, NEW n \in Nodes,
             NodeThrows(j, n) \/ SaveNode(j, n) \/ SaveNodeFails(j, n)
      PROVE  StartedOnce(i, m)'
  BY <1>1, <1>8 DEF NodeThrows, SaveNode, SaveNodeFails, definition, eventVars
<1>9. CASE LoseContext \/ UNCHANGED workVars
  BY <1>1, <1>9 DEF LoseContext, workVars, definition, jobVars, eventVars
<1>. QED
  BY <1>2, <1>3, <1>4, <1>5, <1>6, <1>7, <1>8, <1>9, StepCases

-----------------------------------------------------------------------------
(* What is heard after the last event. Only a node that returns or tells   *)
(* adds to it.                                                             *)
LEMMA TrailSteps ==
    ASSUME TypeOK, [Next]_vars, NEW i \in Jobs
    PROVE  \/ trailing'[i] = trailing[i]
           \/ \E n \in Nodes : \/ \E success \in BOOLEAN : NodeReturns(i, n, success)
                               \/ NodeTells(i, n)
<1>1. ASSUME NEW j \in Jobs,
             \/ LoadContext(j) \/ CreateContext(j) \/ InitializeFails(j)
             \/ StartWave(j) \/ NothingReady(j) \/ Finish(j)
             \/ WaveRejects(j) \/ WaveResolves(j)
             \/ MarkNodeCompleted(j) \/ MarkFails(j) \/ RunnerDies(j)
             \/ \E n \in Nodes : \/ NodeThrows(j, n) \/ SaveNode(j, n)
                                 \/ SaveNodeFails(j, n) \/ ScriptEnds(j, n)
      PROVE  trailing' = trailing
  BY <1>1 DEF LoadContext, CreateContext, InitializeFails, StartWave, NothingReady, Finish,
              WaveRejects, WaveResolves, MarkNodeCompleted, MarkFails, RunnerDies,
              NodeThrows, SaveNode, SaveNodeFails, ScriptEnds, after
<1>2. ASSUME LoseContext \/ UNCHANGED vars PROVE trailing' = trailing
  BY <1>2 DEF LoseContext, vars, after
<1>3. ASSUME NEW j \in Jobs \ {i}, NEW n \in Nodes,
             NodeTells(j, n) \/ \E success \in BOOLEAN : NodeReturns(j, n, success)
      PROVE  trailing'[i] = trailing[i]
  BY <1>3 DEF NodeTells, NodeReturns, Emit, TypeOK
<1>. QED
  BY <1>1, <1>2, <1>3, AllCases

LEMMA TrailStep ==
    /\ TypeOK /\ VerdictInv /\ PendingInv /\ PromiseInv /\ TrailInv
    /\ [Next]_vars
    => TrailInv'
<1> SUFFICES ASSUME TypeOK, VerdictInv, PendingInv, PromiseInv, TrailInv, [Next]_vars,
                    NEW i \in Jobs
             PROVE  /\ \A n \in scripts'[i] : n \in Code /\ outcome'[i][n] # "none"
                    /\ verdict'[i] = "none" => trailing'[i] = {}
                    /\ verdict'[i] # "none" /\ cause'[i] # "throw" =>
                          /\ trailing'[i] \subseteq {"NODE_LOG"}
                          /\ trailing'[i] # {} => \E n \in Code : outcome'[i][n] # "none"
  BY DEF TrailInv
<1>1. /\ \A n \in scripts[i] : n \in Code /\ outcome[i][n] # "none"
      /\ verdict[i] = "none" => trailing[i] = {}
      /\ verdict[i] # "none" /\ cause[i] # "throw" =>
            /\ trailing[i] \subseteq {"NODE_LOG"}
            /\ trailing[i] # {} => \E n \in Code : outcome[i][n] # "none"
  BY DEF TrailInv
\* What a job has reported stays.
<1>2. \A n \in Nodes : outcome[i][n] # "none" => outcome'[i][n] # "none"
  <2>1. ASSUME NEW j \in Jobs, NEW n \in Nodes, NEW success \in BOOLEAN,
               NodeReturns(j, n, success)
        PROVE  \A m \in Nodes : outcome[i][m] # "none" => outcome'[i][m] # "none"
    BY <2>1 DEF NodeReturns, TypeOK
  <2>2. ASSUME UNCHANGED outcome
        PROVE  \A m \in Nodes : outcome[i][m] # "none" => outcome'[i][m] # "none"
    BY <2>2
  <2>3. QED
    BY <2>1, <2>2, StepCases
       DEF LoadContext, CreateContext, InitializeFails, StartWave, NothingReady, Finish,
           WaveRejects, WaveResolves, MarkNodeCompleted, MarkFails, RunnerDies,
           NodeThrows, SaveNode, SaveNodeFails, LoseContext, workVars, eventVars
\* A verdict, and its cause, are given once.
<1>3. \/ verdict'[i] = verdict[i] /\ cause'[i] = cause[i]
      \/ verdict[i] = "none"
  <2>1. stage[i] \in {"queued", "creating", "looping", "wave", "marking"} => verdict[i] = "none"
    BY DEF VerdictInv
  <2>2. ASSUME NEW j \in Jobs,
               \/ InitializeFails(j) \/ NothingReady(j) \/ Finish(j)
               \/ WaveRejects(j) \/ WaveResolves(j)
               \/ MarkNodeCompleted(j) \/ MarkFails(j)
        PROVE  \/ verdict'[i] = verdict[i] /\ cause'[i] = cause[i]
               \/ verdict[i] = "none"
    <3>1. stage[j] \in {"queued", "creating", "looping", "wave", "marking"}
      BY <2>2 DEF InitializeFails, NothingReady, Finish, WaveRejects, WaveResolves,
                  MarkNodeCompleted, MarkFails
    <3>2. CASE i = j
      BY <2>1, <3>1, <3>2
    <3>3. CASE i # j
      BY <2>2, <3>3 DEF InitializeFails, NothingReady, Finish, WaveRejects, WaveResolves,
                        MarkNodeCompleted, MarkFails, Fail, TypeOK
    <3>4. QED
      BY <3>2, <3>3
  <2>3. ASSUME UNCHANGED <<verdict, cause>>
        PROVE  verdict'[i] = verdict[i] /\ cause'[i] = cause[i]
    BY <2>3
  <2>4. QED
    BY <2>2, <2>3, StepCases
       DEF LoadContext, CreateContext, StartWave, RunnerDies, NodeReturns,
           NodeThrows, SaveNode, SaveNodeFails, LoseContext, workVars, eventVars
<1>4. \A n \in scripts'[i] : n \in scripts[i] \/ (n \in Code /\ outcome'[i][n] # "none")
  <2>1. ASSUME NEW j \in Jobs, NEW n \in Nodes, NEW success \in BOOLEAN,
               NodeReturns(j, n, success)
        PROVE  \A m \in scripts'[i] : m \in scripts[i] \/ (m \in Code /\ outcome'[i][m] # "none")
    <3>1. scripts' = scripts \/ (n \in Code /\ scripts' = [scripts EXCEPT ![j] = @ \cup {n}])
      BY <2>1 DEF NodeReturns
    <3>2. outcome'[j][n] # "none"
      BY <2>1 DEF NodeReturns, TypeOK
    <3>3. CASE scripts' = scripts
      BY <3>3
    <3>4. CASE i # j
      BY <3>1, <3>4 DEF TypeOK
    <3>5. CASE i = j /\ n \in Code /\ scripts' = [scripts EXCEPT ![j] = @ \cup {n}]
      <4>1. scripts'[i] = scripts[i] \cup {n}
        BY <3>5 DEF TypeOK
      <4>2. QED
        BY <3>2, <3>5, <4>1
    <3>6. QED
      BY <3>1, <3>3, <3>4, <3>5
  <2>2. ASSUME NEW j \in Jobs, NEW n \in Nodes,
               NodeTells(j, n) \/ ScriptEnds(j, n)
        PROVE  scripts'[i] \subseteq scripts[i]
    <3>1. CASE NodeTells(j, n)
      BY <3>1 DEF NodeTells
    <3>2. CASE ScriptEnds(j, n)
      <4>1. scripts' = [scripts EXCEPT ![j] = scripts[j] \ {n}]
        BY <3>2 DEF ScriptEnds
      <4>2. scripts'[i] = IF i = j THEN scripts[j] \ {n} ELSE scripts[i]
        BY <4>1 DEF TypeOK
      <4>3. QED
        BY <4>2
    <3>3. QED
      BY <2>2, <3>1, <3>2
  <2>3. ASSUME NEW j \in Jobs, RunnerDies(j) PROVE scripts'[i] \subseteq scripts[i]
    BY <2>3 DEF RunnerDies, TypeOK
  <2>4. ASSUME UNCHANGED scripts PROVE scripts'[i] \subseteq scripts[i]
    BY <2>4
  <2>5. QED
    BY <2>1, <2>2, <2>3, <2>4, AllCases
       DEF LoadContext, CreateContext, InitializeFails, StartWave, NothingReady, Finish,
           WaveRejects, WaveResolves, MarkNodeCompleted, MarkFails,
           NodeThrows, SaveNode, SaveNodeFails, LoseContext, vars, after
<1>5. \A n \in scripts'[i] : n \in Code /\ outcome'[i][n] # "none"
  BY <1>1, <1>2, <1>4, RolesAssumption
<1>6. CASE trailing'[i] = trailing[i]
  BY <1>1, <1>2, <1>3, <1>5, <1>6, RolesAssumption
<1>7. ASSUME NEW n \in Nodes, NEW success \in BOOLEAN, NodeReturns(i, n, success)
      PROVE  /\ verdict'[i] = "none" => trailing'[i] = {}
             /\ verdict'[i] # "none" => cause'[i] = "throw"
  <2>1. verdict'[i] = verdict[i] /\ cause'[i] = cause[i] /\ promise[i][n] = "running"
    BY <1>7 DEF NodeReturns
  <2>2. verdict[i] # "none" => cause[i] = "throw"
    BY <2>1 DEF PendingInv, VerdictInv, Unsettled
  <2>3. verdict[i] = "none" => trailing'[i] = trailing[i]
    BY <1>7 DEF NodeReturns, Emit, TypeOK
  <2>4. QED
    BY <1>1, <2>1, <2>2, <2>3
<1>8. ASSUME NEW n \in Nodes, NodeTells(i, n)
      PROVE  /\ verdict'[i] = "none" => trailing'[i] = {}
             /\ verdict'[i] # "none" /\ cause'[i] # "throw" =>
                   /\ trailing'[i] \subseteq {"NODE_LOG"}
                   /\ \E m \in Code : outcome'[i][m] # "none"
  <2>1. verdict' = verdict /\ cause' = cause /\ outcome' = outcome
    BY <1>8 DEF NodeTells, eventVars
  <2>2. verdict[i] = "none" => trailing'[i] = trailing[i]
    BY <1>8 DEF NodeTells, Emit, TypeOK
  <2>3. promise[i][n] = "running" => verdict[i] = "none" \/ cause[i] = "throw"
    BY DEF PendingInv, VerdictInv, Unsettled
  <2>4. promise[i][n] # "running" => n \in scripts[i] /\ Emit(i, "NODE_LOG")
    BY <1>8 DEF NodeTells
  <2>5. Emit(i, "NODE_LOG") => trailing'[i] \subseteq trailing[i] \cup {"NODE_LOG"}
    BY DEF Emit, TypeOK
  <2>6. QED
    BY <1>1, <2>1, <2>2, <2>3, <2>4, <2>5
<1>. QED
  BY <1>5, <1>6, <1>7, <1>8, TrailSteps

-----------------------------------------------------------------------------
LEMMA NextExecutorInv == ExecutorInv /\ [Next]_vars => ExecutorInv'
<1> SUFFICES ASSUME ExecutorInv, [Next]_vars PROVE ExecutorInv'
  OBVIOUS
<1>1. /\ TypeOK /\ ContextInv /\ VerdictInv /\ PendingInv
      /\ PromiseInv /\ WaveInv /\ StartedInv /\ TrailInv
  BY DEF ExecutorInv
<1>2. TypeOK' /\ ContextInv' /\ VerdictInv' /\ PendingInv'
  BY <1>1, TypeStep, ContextStep, VerdictStep, PendingStep
<1>3. PromiseInv' /\ WaveInv' /\ StartedInv' /\ TrailInv'
  BY <1>1, PromiseStep, WaveStep, StartedStep, TrailStep
<1>. QED
  BY <1>2, <1>3 DEF ExecutorInv

(* The invariant the theorems below rest on.                               *)
THEOREM ExecutorInductive == Spec => []ExecutorInv
<1>. QED
  BY InitExecutorInv, NextExecutorInv, PTL DEF Spec

(* Every variable of the executor keeps its type.                          *)
THEOREM ExecutorTypes == Spec => []TypeOK
<1>1. ExecutorInv => TypeOK
  BY DEF ExecutorInv
<1>. QED
  BY <1>1, ExecutorInductive, PTL

(* A job runs its nodes once and in order, and passes on what they return, *)
(* whatever other versions of the workflow the other jobs of the trigger   *)
(* run on the same stored context, and whatever fails.                     *)
THEOREM OnceInOrder == Spec => []NodesOnceInOrder
<1>1. ASSUME ExecutorInv PROVE NodesOnceInOrder
  <2>1. /\ TypeOK /\ ContextInv /\ StartedInv
    BY <1>1 DEF ExecutorInv
  <2>2. CompletedHaveOutput
    BY <2>1 DEF ContextInv, SoundContext, CompletedHaveOutput
  <2>3. RunOnce
    BY <2>1 DEF StartedInv, StartedOnce, RunOnce
  <2>4. DependencyOrder
    <3> SUFFICES ASSUME NEW j \in Jobs, NEW n \in Nodes, started[j][n] > 0,
                        NEW d \in sources[j][n]
                 PROVE  d \in Nodes /\ ctx[j].exec[d] = "ok"
      BY DEF DependencyOrder
    <3>1. d \in ctx[j].completed
      BY <2>1 DEF StartedInv, StartedOnce
    <3>2. ctx[j].completed \subseteq Nodes
      BY <2>1 DEF TypeOK, Contexts
    <3>3. QED
      BY <2>1, <3>1, <3>2 DEF ContextInv, SoundContext
  <2>5. QED
    BY <2>2, <2>3, <2>4 DEF NodesOnceInOrder
<1>. QED
  BY <1>1, ExecutorInductive, PTL

(* After the last event of a job, unless it came of a rejected wave, no    *)
(* node of it runs or saves, and nothing of a node is heard but what the   *)
(* script of a code node that has reported still prints.                   *)
THEOREM QuietAtTheEnd == Spec => []QuietAfterVerdict
<1>1. ExecutorInv => QuietAfterVerdict
  BY DEF ExecutorInv, TypeOK, VerdictInv, PendingInv, TrailInv, QuietAfterVerdict
<1>. QED
  BY <1>1, ExecutorInductive, PTL

-----------------------------------------------------------------------------
(* The refinement: what a job does, seen through its events.               *)
LEMMA InitEvents == Init => \A j \in Jobs : Events(j)!Init
<1> SUFFICES ASSUME Init, NEW j \in Jobs PROVE Events(j)!Init
  OBVIOUS
<1>1. ctx[j].all = {} /\ ctx[j].completed = {}
  BY DEF Init, NoContext
<1>2. SeenOf(j) = [n \in Nodes |-> "silent"]
  BY DEF Init, SeenOf
<1>3. RunOf(j) = "unborn" /\ trailing[j] = {}
  BY DEF Init, RunOf
<1>. QED
  BY <1>1, <1>2, <1>3 DEF Events!Init

LEMMA StepEvents ==
    ASSUME ExecutorInv, ExecutorInv', [Next]_vars, NEW i \in Jobs
    PROVE  Events(i)!Next \/ UNCHANGED Events(i)!vars
<1> DEFINE Inherited == {n \in ctx[i].completed : started[i][n] = 0}
           HasResult == Inherited \cup {n \in Nodes : SeenOf(i)[n] = "NODE_COMPLETED"}
           Full == Events(i)!Next \/ UNCHANGED Events(i)!vars
           Goal == trailing'[i] = trailing[i] => Full
           Working == {"looping", "wave", "marking"}
<1>0. /\ TypeOK /\ TypeOK' /\ ContextInv /\ ContextInv' /\ VerdictInv /\ VerdictInv'
      /\ PendingInv /\ PromiseInv /\ WaveInv /\ StartedInv /\ TrailInv
  BY DEF ExecutorInv
<1> SUFFICES Full
  OBVIOUS
<1>1. sources' = sources
  BY DEF Next, vars, Control, Node, LoadContext, CreateContext, InitializeFails, StartWave,
         NothingReady, Finish, WaveRejects, WaveResolves, MarkNodeCompleted, MarkFails,
         RunnerDies, NodeReturns, NodeThrows, SaveNode, SaveNodeFails, LoseContext,
         NodeTells, ScriptEnds, definition
<1>2. /\ verdict[i] # "none" => RunOf(i) = verdict[i]
      /\ verdict[i] = "none" =>
            /\ stage[i] \in {"done", "dead"} => RunOf(i) = "lost"
            /\ stage[i] \in {"queued", "creating"} => RunOf(i) = "unborn"
            /\ stage[i] \in Working => RunOf(i) = "open"
  <2>1. verdict[i] # "none" => RunOf(i) = verdict[i]
    BY DEF RunOf
  <2>2. verdict[i] = "none" /\ stage[i] \in {"done", "dead"} => RunOf(i) = "lost"
    BY DEF RunOf
  <2>3. verdict[i] = "none" /\ stage[i] \in {"queued", "creating"} => RunOf(i) = "unborn"
    BY DEF RunOf
  <2>4. verdict[i] = "none" /\ stage[i] \in Working => RunOf(i) = "open"
    BY DEF RunOf
  <2>5. QED
    BY <2>1, <2>2, <2>3, <2>4
<1>3. /\ verdict'[i] # "none" => RunOf(i)' = verdict'[i]
      /\ verdict'[i] = "none" =>
            /\ stage'[i] \in {"done", "dead"} => RunOf(i)' = "lost"
            /\ stage'[i] \in {"queued", "creating"} => RunOf(i)' = "unborn"
            /\ stage'[i] \in Working => RunOf(i)' = "open"
  <2>1. verdict'[i] # "none" => RunOf(i)' = verdict'[i]
    BY DEF RunOf
  <2>2. verdict'[i] = "none" /\ stage'[i] \in {"done", "dead"} => RunOf(i)' = "lost"
    BY DEF RunOf
  <2>3. verdict'[i] = "none" /\ stage'[i] \in {"queued", "creating"} => RunOf(i)' = "unborn"
    BY DEF RunOf
  <2>4. verdict'[i] = "none" /\ stage'[i] \in Working => RunOf(i)' = "open"
    BY DEF RunOf
  <2>5. QED
    BY <2>1, <2>2, <2>3, <2>4
<1>4. /\ SeenOf(i) = [n \in Nodes |-> SeenOf(i)[n]]
      /\ SeenOf(i)' = [n \in Nodes |-> SeenOf(i)'[n]]
  BY DEF SeenOf
<1>5. ASSUME NEW n \in Nodes
      PROVE  /\ outcome[i][n] # "none" => SeenOf(i)[n] = outcome[i][n]
             /\ outcome[i][n] = "none" /\ started[i][n] > 0 => SeenOf(i)[n] = "NODE_STARTED"
             /\ outcome[i][n] = "none" /\ ~(started[i][n] > 0) => SeenOf(i)[n] = "silent"
             /\ outcome'[i][n] # "none" => SeenOf(i)'[n] = outcome'[i][n]
             /\ outcome'[i][n] = "none" /\ started'[i][n] > 0 => SeenOf(i)'[n] = "NODE_STARTED"
             /\ outcome'[i][n] = "none" /\ ~(started'[i][n] > 0) => SeenOf(i)'[n] = "silent"
  BY DEF SeenOf
<1>6. ASSUME started'[i] = started[i], outcome'[i] = outcome[i] PROVE SeenOf(i)' = SeenOf(i)
  BY <1>6 DEF SeenOf
\* A step that no consumer of the events of i sees.
<1>7. ASSUME ctx'[i].all = ctx[i].all, Inherited' = Inherited,
             SeenOf(i)' = SeenOf(i), RunOf(i)' = RunOf(i)
      PROVE  Goal
  BY <1>1, <1>7 DEF Events!vars
<1>8. ASSUME ctx'[i] = ctx[i], started'[i] = started[i], outcome'[i] = outcome[i],
             RunOf(i)' = RunOf(i)
      PROVE  Goal
  BY <1>6, <1>7, <1>8
\* A step that ends the run and changes nothing else.
<1>9. ASSUME ctx'[i].all = ctx[i].all, Inherited' = Inherited,
             started'[i] = started[i], outcome'[i] = outcome[i],
             \/ RunOf(i) \in {"unborn", "open"} /\ RunOf(i)' = "lost"
             \/ RunOf(i) = "open" /\ RunOf(i)' = "WORKFLOW_FAILED"
      PROVE  Goal
  BY <1>1, <1>6, <1>9 DEF Events!Next, Events!FailOrVanish
<1>10. ASSUME NEW why \in Causes, stage[i] \in Working, Fail(i, why)
       PROVE  RunOf(i) = "open" /\ RunOf(i)' = "WORKFLOW_FAILED"
  <2>1. verdict[i] = "none"
    BY <1>0, <1>10 DEF VerdictInv
  <2>2. verdict'[i] = "WORKFLOW_FAILED"
    BY <1>0, <1>10 DEF Fail, TypeOK
  <2>3. QED
    BY <1>2, <1>3, <1>10, <2>1, <2>2
<1>11. {"circular", "output", "throw", "node", "context"} \subseteq Causes
  BY DEF Causes
\* What is completed has a result.
<1>12. stage[i] \in Working => ctx[i].completed \subseteq HasResult
  <2> SUFFICES ASSUME NEW n \in ctx[i].completed PROVE n \in HasResult
    OBVIOUS
  <2>1. n \in Nodes /\ started[i][n] \in Nat
    BY <1>0 DEF TypeOK, Contexts
  <2>2. started[i][n] > 0 => outcome[i][n] = "NODE_COMPLETED"
    BY <1>0, <2>1 DEF StartedInv, StartedOnce
  <2>3. QED
    BY <1>5, <2>1, <2>2
\* The steps of other jobs, and of the store.
<1>13. ASSUME NEW j \in Jobs, j # i,
              \/ LoadContext(j) \/ CreateContext(j) \/ InitializeFails(j)
              \/ StartWave(j) \/ NothingReady(j) \/ Finish(j)
              \/ WaveRejects(j) \/ WaveResolves(j) \/ RunnerDies(j)
              \/ \E n \in Nodes : NodeThrows(j, n) \/ SaveNode(j, n) \/ SaveNodeFails(j, n)
       PROVE  Goal
  <2>1. ctx'[i] = ctx[i] /\ started'[i] = started[i] /\ outcome'[i] = outcome[i]
    BY <1>0, <1>13 DEF LoadContext, CreateContext, InitializeFails, StartWave, NothingReady,
          Finish, WaveRejects, WaveResolves, RunnerDies, NodeThrows, SaveNode, SaveNodeFails,
          eventVars, TypeOK
  <2>2. stage'[i] = stage[i] /\ verdict'[i] = verdict[i]
    BY <1>0, <1>13 DEF LoadContext, CreateContext, InitializeFails, StartWave, NothingReady,
          Finish, WaveRejects, WaveResolves, RunnerDies, NodeThrows, SaveNode, SaveNodeFails,
          Fail, eventVars, TypeOK
  <2>3. RunOf(i)' = RunOf(i)
    BY <2>2 DEF RunOf
  <2>4. QED
    BY <1>8, <2>1, <2>3
<1>14. ASSUME NEW j \in Jobs, j # i,
              \/ MarkNodeCompleted(j) \/ MarkFails(j)
              \/ \E n \in Nodes, success \in BOOLEAN : NodeReturns(j, n, success)
       PROVE  Goal
  <2>1. ctx'[i] = ctx[i]
    BY <1>0, <1>14, Marks, Returns
  <2>2. started'[i] = started[i] /\ outcome'[i] = outcome[i]
    BY <1>0, <1>14 DEF MarkNodeCompleted, MarkFails, NodeReturns, TypeOK
  <2>3. stage'[i] = stage[i] /\ verdict'[i] = verdict[i]
    BY <1>0, <1>14 DEF MarkNodeCompleted, MarkFails, NodeReturns, Fail, TypeOK
  <2>4. RunOf(i)' = RunOf(i)
    BY <2>3 DEF RunOf
  <2>5. QED
    BY <1>8, <2>1, <2>2, <2>4
<1>15. ASSUME LoseContext \/ UNCHANGED workVars PROVE Goal
  <2>1. UNCHANGED <<ctx, started, outcome, stage, verdict>>
    BY <1>15 DEF LoseContext, workVars, jobVars, eventVars
  <2>2. RunOf(i)' = RunOf(i)
    BY <2>1 DEF RunOf
  <2>3. QED
    BY <1>8, <2>1, <2>2
\* The beginning.
<1>16. ASSUME LoadContext(i) PROVE Goal
  <2>1. stage[i] = "queued" /\ verdict[i] = "none" /\ UNCHANGED <<started, outcome, verdict>>
    BY <1>0, <1>16 DEF LoadContext, eventVars, VerdictInv
  <2>2. RunOf(i) = "unborn"
    BY <1>2, <2>1
  <2>3. CASE stored = Absent
    <3>1. stage'[i] = "creating" /\ ctx' = ctx
      BY <1>0, <1>16, <2>3 DEF LoadContext, TypeOK
    <3>2. RunOf(i)' = "unborn"
      BY <1>3, <2>1, <3>1
    <3>3. QED
      BY <1>8, <2>1, <2>2, <3>1, <3>2
  <2>4. CASE stored # Absent
    <3>1. stage'[i] = "looping" /\ ctx'[i] = stored
      BY <1>0, <1>16, <2>4 DEF LoadContext, TypeOK
    <3>2. RunOf(i)' = "open"
      BY <1>3, <2>1, <3>1
    <3>3. ctx'[i].all \subseteq Nodes /\ ctx'[i].completed \subseteq ctx'[i].all
      BY <1>0 DEF TypeOK, Contexts, ContextInv, SoundContext
    <3>4. SeenOf(i)' = SeenOf(i)
      BY <1>6, <2>1
    <3>5. QED
      BY <1>1, <2>2, <3>2, <3>3, <3>4 DEF Events!Next, Events!Begin
  <2>5. QED
    BY <2>3, <2>4
<1>17. ASSUME CreateContext(i) PROVE Goal
  <2>1. stage[i] = "creating" /\ verdict[i] = "none" /\ UNCHANGED <<started, outcome, verdict>>
    BY <1>0, <1>17 DEF CreateContext, eventVars, VerdictInv
  <2>2. RunOf(i) = "unborn"
    BY <1>2, <2>1
  <2>3. stage'[i] = "looping"
    BY <1>0, <1>17 DEF CreateContext, TypeOK
  <2>4. RunOf(i)' = "open"
    BY <1>3, <2>1, <2>3
  <2>5. ctx'[i].all \subseteq Nodes /\ ctx'[i].completed \subseteq ctx'[i].all
    BY <1>0 DEF TypeOK, Contexts, ContextInv, SoundContext
  <2>6. SeenOf(i)' = SeenOf(i)
    BY <1>6, <2>1
  <2>7. QED
    BY <1>1, <2>2, <2>4, <2>5, <2>6 DEF Events!Next, Events!Begin
<1>18. ASSUME InitializeFails(i) PROVE Goal
  <2>1. /\ stage[i] \in {"queued", "creating"} /\ stage'[i] = "done" /\ verdict[i] = "none"
        /\ UNCHANGED <<ctx, started, outcome, verdict>>
    BY <1>0, <1>18 DEF InitializeFails, VerdictInv, TypeOK
  <2>2. RunOf(i) = "unborn" /\ RunOf(i)' = "lost"
    BY <1>2, <1>3, <2>1
  <2>3. QED
    BY <1>9, <2>1, <2>2
\* A wave begins: the nodes whose promise runs are announced.
<1>19. ASSUME StartWave(i) PROVE Goal
  <2> DEFINE S == {n \in ReadyNodes(i) : Launch(i, n) = "running"}
  <2>1. /\ stage[i] = "looping" /\ stage'[i] = "wave" /\ verdict[i] = "none"
        /\ UNCHANGED <<ctx, outcome, verdict>>
    BY <1>0, <1>19 DEF StartWave, VerdictInv, TypeOK
  <2>2. RunOf(i) = "open" /\ RunOf(i)' = "open"
    BY <1>2, <1>3, <2>1
  <2>3. \A n \in Nodes : started'[i][n] = IF n \in S THEN started[i][n] + 1 ELSE started[i][n]
    BY <1>0, <1>19 DEF StartWave, TypeOK
  <2>4. S \subseteq ctx[i].all \ ctx[i].completed /\ S \subseteq Nodes
    BY <1>0 DEF ReadyNodes, TypeOK, Contexts
  <2>5. ASSUME NEW n \in S
        PROVE  /\ started[i][n] = 0 /\ outcome[i][n] = "none"
               /\ sources[i][n] \subseteq HasResult
    <3>1. started[i][n] \in Nat /\ n \in Nodes
      BY <1>0, <2>4 DEF TypeOK
    <3>2. started[i][n] = 0
      BY <1>0, <2>1, <2>4, <3>1 DEF StartedInv, StartedOnce
    <3>3. outcome[i][n] = "none"
      BY <1>0, <3>1, <3>2 DEF PromiseInv, PromiseLeft
    <3>4. n \in defined[i]
      BY DEF Launch
    <3>5. sources[i][n] \subseteq ctx[i].completed
      BY <3>4 DEF ReadyNodes, Dependencies
    <3>6. QED
      BY <1>12, <2>1, <3>2, <3>3, <3>5
  <2>6. \A n \in S : SeenOf(i)[n] = "silent" /\ SeenOf(i)'[n] = "NODE_STARTED"
    BY <1>5, <2>1, <2>3, <2>4, <2>5
  <2>7. \A n \in Nodes \ S : SeenOf(i)'[n] = SeenOf(i)[n]
    BY <2>1, <2>3 DEF SeenOf
  <2>8. SeenOf(i)' = [n \in Nodes |-> IF n \in S THEN "NODE_STARTED" ELSE SeenOf(i)[n]]
    BY <1>4, <2>4, <2>6, <2>7
  <2>9. ctx[i].completed \subseteq Nodes
    BY <1>0 DEF TypeOK, Contexts
  <2>10. Inherited' = Inherited
    BY <2>1, <2>3, <2>4, <2>9
  <2>11. S \subseteq ctx[i].all \ Inherited
    BY <2>4
  <2>15. SUFFICES ASSUME trailing'[i] = trailing[i] PROVE Full
    OBVIOUS
  <2>12. Events(i)!Announce(S)
    BY <2>15, <1>1, <2>1, <2>2, <2>5, <2>6, <2>8, <2>10, <2>11 DEF Events!Announce, Events!HasResult
  <2>13. S \in SUBSET Nodes
    BY <2>4
  <2>14. QED
    BY <2>12, <2>13 DEF Events!Next
\* The ends.
<1>20. ASSUME NothingReady(i) \/ WaveRejects(i) PROVE Goal
  <2>1. stage[i] \in Working /\ UNCHANGED <<ctx, started, outcome>>
    BY <1>20 DEF NothingReady, WaveRejects
  <2>2. Fail(i, "circular") \/ Fail(i, "throw")
    BY <1>20 DEF NothingReady, WaveRejects
  <2>3. QED
    BY <1>9, <1>10, <1>11, <2>1, <2>2
<1>21. ASSUME Finish(i) PROVE Goal
  <2>1. stage[i] = "looping" /\ UNCHANGED <<ctx, started, outcome>> /\ verdict[i] = "none"
    BY <1>0, <1>21 DEF Finish, VerdictInv
  <2>2. CASE OutputThrows(i)
    <3>1. Fail(i, "output")
      BY <1>21, <2>2 DEF Finish
    <3>2. QED
      BY <1>9, <1>10, <1>11, <2>1, <3>1
  <2>3. CASE ~OutputThrows(i)
    <3>1. verdict'[i] = "WORKFLOW_COMPLETED"
      BY <1>0, <1>21, <2>3 DEF Finish, TypeOK
    <3>2. RunOf(i) = "open" /\ RunOf(i)' = "WORKFLOW_COMPLETED"
      BY <1>2, <1>3, <2>1, <3>1
    <3>3. ctx[i].all \subseteq HasResult
      BY <1>12, <1>21, <2>1 DEF Finish
    <3>4. SeenOf(i)' = SeenOf(i)
      BY <1>6, <2>1
    <3>7. SUFFICES ASSUME trailing'[i] = trailing[i] PROVE Full
      OBVIOUS
    <3>5. Events(i)!Complete
      BY <3>7, <1>1, <2>1, <3>2, <3>3, <3>4 DEF Events!Complete, Events!HasResult
    <3>6. QED
      BY <3>5 DEF Events!Next
  <2>4. QED
    BY <2>2, <2>3
<1>22. ASSUME WaveResolves(i) PROVE Goal
  <2>1. stage[i] = "wave" /\ UNCHANGED <<ctx, started, outcome>> /\ verdict[i] = "none"
    BY <1>0, <1>22 DEF WaveResolves, VerdictInv
  <2>2. CASE Fail(i, "node")
    BY <1>9, <1>10, <1>11, <2>1, <2>2
  <2>3. CASE stage' = [stage EXCEPT ![i] = "marking"] /\ UNCHANGED verdict
    <3>1. RunOf(i) = "open" /\ RunOf(i)' = "open"
      BY <1>0, <1>2, <1>3, <2>1, <2>3 DEF TypeOK
    <3>2. QED
      BY <1>8, <2>1, <3>1
  <2>4. QED
    BY <1>22, <2>2, <2>3 DEF WaveResolves
<1>23. ASSUME MarkNodeCompleted(i) \/ MarkFails(i) PROVE Goal
  <2> PICK n \in toMark[i] :
              ctx'[i].all = ctx[i].all /\ ctx'[i].completed = ctx[i].completed \cup {n}
    BY <1>0, <1>23, Marks
  <2>1. stage[i] = "marking" /\ UNCHANGED <<started, outcome>> /\ verdict[i] = "none"
    BY <1>0, <1>23 DEF MarkNodeCompleted, MarkFails, VerdictInv
  <2>2. n \in Nodes
    BY <1>0 DEF TypeOK
  <2>3. started[i][n] > 0
    BY <1>0, <2>1, <2>2 DEF WaveInv, WaveTakes, PromiseInv, PromiseLeft
  <2>4. Inherited' = Inherited
    BY <2>1, <2>3
  <2>5. CASE Fail(i, "context")
    BY <1>9, <1>10, <1>11, <2>1, <2>4, <2>5
  <2>6. CASE stage'[i] \in Working /\ UNCHANGED verdict
    <3>1. RunOf(i) = "open" /\ RunOf(i)' = "open"
      BY <1>2, <1>3, <2>1, <2>6
    <3>2. QED
      BY <1>6, <1>7, <2>1, <2>4, <3>1
  <2>7. Fail(i, "context") \/ (stage'[i] \in Working /\ UNCHANGED verdict)
    BY <1>0, <1>23, <2>1 DEF MarkNodeCompleted, MarkFails, TypeOK
  <2>8. QED
    BY <2>5, <2>6, <2>7
<1>24. ASSUME RunnerDies(i) PROVE Goal
  <2>1. /\ UNCHANGED <<ctx, started, outcome, verdict>> /\ stage'[i] = "dead"
        /\ stage[i] \in Stages \ {"queued", "dead"}
    BY <1>0, <1>24 DEF RunnerDies, eventVars, TypeOK
  <2>2. \/ RunOf(i)' = RunOf(i)
        \/ RunOf(i) \in {"unborn", "open"} /\ RunOf(i)' = "lost"
    BY <1>2, <1>3, <2>1 DEF Stages
  <2>3. QED
    BY <1>8, <1>9, <2>1, <2>2
\* What is heard of a node once the run is over.
<1>27. ASSUME NEW event, Emit(i, event)
       PROVE  trailing'[i] = IF RunOf(i) \in {"WORKFLOW_COMPLETED", "WORKFLOW_FAILED"}
                             THEN trailing[i] \cup {event} ELSE trailing[i]
  <2>1. verdict[i] \in {"none", "WORKFLOW_COMPLETED", "WORKFLOW_FAILED"}
    BY <1>0 DEF TypeOK
  <2>2. RunOf(i) \in {"WORKFLOW_COMPLETED", "WORKFLOW_FAILED"} <=> verdict[i] # "none"
    BY <2>1 DEF RunOf
  <2>3. QED
    BY <1>0, <1>27, <2>2 DEF Emit, TypeOK
<1>28. ASSUME NEW n \in Nodes, NodeTells(i, n) PROVE Full
  <2>1. PICK event \in Interim :
           /\ Emit(i, event)
           /\ promise[i][n] = "running" \/ (n \in scripts[i] /\ event = "NODE_LOG")
    BY <1>28 DEF NodeTells, Interim
  <2>2. UNCHANGED <<ctx, started, outcome, stage, verdict>>
    BY <1>28 DEF NodeTells, jobVars, eventVars
  <2>3. RunOf(i)' = RunOf(i) /\ SeenOf(i)' = SeenOf(i) /\ Inherited' = Inherited
    BY <2>2 DEF RunOf, SeenOf
  <2>4. promise[i][n] = "running" => SeenOf(i)[n] = "NODE_STARTED"
    BY <1>0, <1>5 DEF PromiseInv, PromiseLeft
  <2>5. n \in scripts[i] => SeenOf(i)[n] \in {"NODE_COMPLETED", "NODE_FAILED"}
    BY <1>0, <1>5 DEF TrailInv, TypeOK
  <2>6. promise[i][n] = "running" => RunOf(i) # "lost"
    <3>1. promise[i][n] = "running" => stage[i] = "wave" \/ verdict[i] = "WORKFLOW_FAILED"
      BY <1>0 DEF PendingInv, VerdictInv, Unsettled
    <3>2. stage[i] = "wave" => verdict[i] = "none"
      BY <1>0 DEF VerdictInv
    <3>3. QED
      BY <1>2, <3>1, <3>2
  <2>7. Events(i)!Hear(event)
    BY <1>27, <2>1 DEF Events!Hear
  <2>8. CASE RunOf(i) = "lost"
    <3>1. trailing'[i] = trailing[i]
      BY <1>27, <2>1, <2>8
    <3>2. QED
      BY <1>1, <2>2, <2>3, <3>1 DEF Events!vars
  <2>9. CASE RunOf(i) # "lost"
    <3>1. Events(i)!Tell(n, event)
      BY <1>1, <2>1, <2>2, <2>3, <2>4, <2>5, <2>7, <2>9 DEF Events!Tell
    <3>2. QED
      BY <2>1, <3>1 DEF Events!Next, Interim
  <2>10. QED
    BY <2>8, <2>9
\* A node reports.
<1>25. ASSUME NEW n \in Nodes, NEW success \in BOOLEAN, NodeReturns(i, n, success) PROVE Full
  <2> DEFINE e == IF success THEN "NODE_COMPLETED" ELSE "NODE_FAILED"
  <2>1. /\ promise[i][n] = "running" /\ UNCHANGED <<stage, started, verdict>>
        /\ outcome'[i][n] = e /\ \A m \in Nodes \ {n} : outcome'[i][m] = outcome[i][m]
    BY <1>0, <1>25 DEF NodeReturns, TypeOK
  <2>2. ctx'[i].all = ctx[i].all /\ ctx'[i].completed = ctx[i].completed
    BY <1>0, <1>25, Returns
  <2>3. RunOf(i)' = RunOf(i)
    BY <2>1 DEF RunOf
  <2>4. RunOf(i) # "lost"
    <3>1. stage[i] = "wave" \/ verdict[i] = "WORKFLOW_FAILED"
      BY <1>0, <2>1 DEF PendingInv, VerdictInv, Unsettled
    <3>2. stage[i] = "wave" => verdict[i] = "none"
      BY <1>0 DEF VerdictInv
    <3>3. QED
      BY <1>2, <3>1, <3>2
  <2>5. SeenOf(i)[n] = "NODE_STARTED"
    BY <1>0, <1>5, <2>1 DEF PromiseInv, PromiseLeft
  <2>6. SeenOf(i)'[n] = e /\ \A m \in Nodes \ {n} : SeenOf(i)'[m] = SeenOf(i)[m]
    BY <1>5, <2>1 DEF SeenOf
  <2>7. SeenOf(i)' = [SeenOf(i) EXCEPT ![n] = e]
    BY <1>4, <2>6
  <2>11. Emit(i, e)
    BY <1>25 DEF NodeReturns
  <2>12. Events(i)!Hear(e)
    BY <1>27, <2>11 DEF Events!Hear
  <2>8. Events(i)!Report(n, e)
    BY <1>1, <2>1, <2>2, <2>3, <2>4, <2>5, <2>7, <2>12 DEF Events!Report
  <2>9. e \in {"NODE_COMPLETED", "NODE_FAILED"}
    OBVIOUS
  <2>10. QED
    BY <2>8, <2>9 DEF Events!Next
<1>26. ASSUME NEW n \in Nodes, NodeThrows(i, n) \/ SaveNode(i, n) \/ SaveNodeFails(i, n)
       PROVE  Goal
  <2>1. UNCHANGED <<ctx, started, outcome, stage, verdict>>
    BY <1>26 DEF NodeThrows, SaveNode, SaveNodeFails, eventVars
  <2>2. RunOf(i)' = RunOf(i)
    BY <2>1 DEF RunOf
  <2>3. QED
    BY <1>8, <2>1, <2>2
<1>29. CASE \E n \in Nodes : \/ \E success \in BOOLEAN : NodeReturns(i, n, success)
                              \/ NodeTells(i, n)
  BY <1>25, <1>28, <1>29
<1>30. CASE trailing'[i] = trailing[i]
  <2>1. CASE \E n \in Nodes, success \in BOOLEAN : NodeReturns(i, n, success)
    BY <1>25, <2>1
  <2> HIDE DEF Full
  <2>2. (\A n \in Nodes, success \in BOOLEAN : ~NodeReturns(i, n, success)) => Goal
    <3> HIDE DEF Goal
    <3>1. QED
      BY <1>13, <1>14, <1>15, <1>16, <1>17, <1>18, <1>19, <1>20, <1>21, <1>22, <1>23, <1>24,
         <1>26, StepCases
  <2>3. QED
    BY <1>30, <2>1, <2>2
<1>. QED
  BY <1>0, <1>29, <1>30, TrailSteps

(* The executor implements the event protocol: whatever waves, promises,   *)
(* stored contexts, failures and other jobs of the trigger do, a consumer  *)
(* of the events of a job sees a run of RunEvents.                         *)
THEOREM ImplementsEvents == Spec => ImplementsRunEvents
<1>1. ASSUME ExecutorInv, ExecutorInv', [Next]_vars
      PROVE  [\A j \in Jobs : [Events(j)!Next]_(Events(j)!vars)]_vars
  BY <1>1, StepEvents
<1>. QED
  BY <1>1, InitEvents, ExecutorInductive, PTL DEF ImplementsRunEvents, Spec

-----------------------------------------------------------------------------
(* The scheduler. What jobs were given and what their nodes returned stays. *)
LEMMA Final ==
    ASSUME TypeOK, PromiseInv, [Next]_vars
    PROVE  /\ defined' = defined /\ sources' = sources
           /\ \A i \in Jobs, n \in Nodes :
                 outcome[i][n] = "NODE_COMPLETED" => outcome'[i][n] = "NODE_COMPLETED"
<1>1. ASSUME NEW j \in Jobs, NEW n \in Nodes, NEW success \in BOOLEAN,
             NodeReturns(j, n, success)
      PROVE  /\ UNCHANGED definition
             /\ \A i \in Jobs, m \in Nodes :
                   outcome[i][m] = "NODE_COMPLETED" => outcome'[i][m] = "NODE_COMPLETED"
  <2>1. outcome[j][n] = "none" /\ UNCHANGED definition
    BY <1>1 DEF NodeReturns, PromiseInv, PromiseLeft
  <2>2. \A i \in Jobs, m \in Nodes : i # j \/ m # n => outcome'[i][m] = outcome[i][m]
    BY <1>1 DEF NodeReturns, TypeOK
  <2>3. QED
    BY <2>1, <2>2
<1>2. ASSUME \/ LoseContext \/ UNCHANGED workVars
             \/ \E j \in Jobs :
                   \/ LoadContext(j) \/ CreateContext(j) \/ InitializeFails(j)
                   \/ StartWave(j) \/ NothingReady(j) \/ Finish(j)
                   \/ WaveRejects(j) \/ WaveResolves(j)
                   \/ MarkNodeCompleted(j) \/ MarkFails(j) \/ RunnerDies(j)
                   \/ \E n \in Nodes : NodeThrows(j, n) \/ SaveNode(j, n) \/ SaveNodeFails(j, n)
      PROVE  UNCHANGED definition /\ UNCHANGED outcome
  BY <1>2 DEF LoadContext, CreateContext, InitializeFails, StartWave, NothingReady, Finish,
              WaveRejects, WaveResolves, MarkNodeCompleted, MarkFails, RunnerDies,
              NodeThrows, SaveNode, SaveNodeFails, LoseContext, workVars, eventVars
<1>3. QED
  BY <1>1, <1>2, StepCases DEF definition

(* The steps that leave the live contexts alone, and make no job live.     *)
LEMMA LiveBefore ==
    ASSUME TypeOK, NEW j \in Jobs,
           \/ InitializeFails(j) \/ StartWave(j) \/ NothingReady(j) \/ Finish(j)
           \/ WaveRejects(j) \/ WaveResolves(j) \/ RunnerDies(j)
           \/ \E n \in Nodes : NodeThrows(j, n) \/ SaveNode(j, n) \/ SaveNodeFails(j, n)
    PROVE  /\ ctx' = ctx /\ \A i \in Jobs : Live(i)' => Live(i)
           /\ stored' = stored \/ (Live(j) /\ stored' = ctx[j])
<1> USE DEF TypeOK, Live, Unsettled
<1>1. ASSUME InitializeFails(j)
      PROVE  ctx' = ctx /\ stored' = stored /\ \A i \in Jobs : Live(i)' => Live(i)
  BY <1>1 DEF InitializeFails
<1>2. ASSUME StartWave(j)
      PROVE  ctx' = ctx /\ stored' = stored /\ \A i \in Jobs : Live(i)' => Live(i)
  <2>1. \A i \in Jobs \ {j} : stage'[i] = stage[i] /\ promise'[i] = promise[i]
    BY <1>2 DEF StartWave
  <2>2. stage[j] = "looping" /\ ctx' = ctx /\ stored' = stored
    BY <1>2 DEF StartWave
  <2>3. \A i \in Jobs : Live(i)' => Live(i)
    BY <2>1, <2>2
  <2>4. QED
    BY <2>2, <2>3
<1>3. ASSUME NothingReady(j) \/ Finish(j) \/ WaveRejects(j)
      PROVE  ctx' = ctx /\ stored' = stored /\ \A i \in Jobs : Live(i)' => Live(i)
  BY <1>3 DEF NothingReady, Finish, WaveRejects, Fail
<1>4. ASSUME WaveResolves(j)
      PROVE  ctx' = ctx /\ stored' = stored /\ \A i \in Jobs : Live(i)' => Live(i)
  BY <1>4 DEF WaveResolves, Fail
<1>5. ASSUME RunnerDies(j)
      PROVE  ctx' = ctx /\ stored' = stored /\ \A i \in Jobs : Live(i)' => Live(i)
  BY <1>5 DEF RunnerDies
<1>6. ASSUME NEW n \in Nodes, NodeThrows(j, n) \/ SaveNodeFails(j, n)
      PROVE  ctx' = ctx /\ stored' = stored /\ \A i \in Jobs : Live(i)' => Live(i)
  BY <1>6 DEF NodeThrows, SaveNodeFails
<1>7. ASSUME NEW n \in Nodes, SaveNode(j, n)
      PROVE  /\ ctx' = ctx /\ \A i \in Jobs : Live(i)' => Live(i)
             /\ stored' = stored \/ (Live(j) /\ stored' = ctx[j])
  <2>1. PICK p \in {"rejected", "savedOk", "savedErr"} :
               promise' = [promise EXCEPT ![j][n] = p]
    BY <1>7 DEF SaveNode
  <2>2. \A i \in Jobs : Live(i)' => Live(i)
    BY <1>7, <2>1 DEF SaveNode
  <2>3. Live(j) /\ ctx' = ctx /\ stored' \in {stored, ctx[j]}
    BY <1>7 DEF SaveNode
  <2>4. QED
    BY <2>2, <2>3
<1>8. QED
  BY <1>1, <1>2, <1>3, <1>4, <1>5, <1>6, <1>7

(* A completion mark: what the node waited for is completed before it.     *)
LEMMA MarkedContext ==
    ASSUME ExecutorInv, NEW j \in Jobs, NEW n \in toMark[j], stage[j] = "marking",
           WorkflowContext(j, ctx[j]), NEW c \in Contexts,
           c.all = ctx[j].all, c.completed = ctx[j].completed \cup {n}
    PROVE  WorkflowContext(j, c)
<1>1. TypeOK /\ PromiseInv /\ WaveInv /\ StartedInv /\ ContextInv
  BY DEF ExecutorInv
<1>2. /\ n \in Nodes /\ n \in ctx[j].all /\ promise[j][n] = "savedOk"
      /\ ctx[j].completed \subseteq ctx[j].all
  BY <1>1 DEF TypeOK, WaveInv, WaveTakes, ContextInv, SoundContext
<1>3. started[j][n] > 0 /\ outcome[j][n] = "NODE_COMPLETED"
  BY <1>1, <1>2 DEF PromiseInv, PromiseLeft
<1>4. sources[j][n] \subseteq ctx[j].completed
  BY <1>1, <1>2, <1>3 DEF StartedInv, StartedOnce
<1>5. ASSUME NEW S \in SUBSET defined[j], Waiting(j, S) PROVE S \cap c.completed = {}
  <2>1. S \cap ctx[j].completed = {} /\ ctx[j].all = defined[j]
    BY <1>5 DEF WorkflowContext
  <2>2. n \notin S
    BY <1>2, <1>4, <1>5, <2>1 DEF Waiting
  <2>3. QED
    BY <2>1, <2>2
<1>6. QED
  BY <1>2, <1>3, <1>5 DEF WorkflowContext

LEMMA SchedulerStep ==
    ASSUME ExecutorInv, SchedulerInv, [Next]_vars PROVE SchedulerInv'
<1>1. /\ TypeOK /\ PromiseInv /\ PendingInv /\ VerdictInv /\ TypeOK'
  BY NextExecutorInv DEF ExecutorInv
<1>2. /\ defined' = defined /\ sources' = sources
      /\ \A i \in Jobs, n \in Nodes :
            outcome[i][n] = "NODE_COMPLETED" => outcome'[i][n] = "NODE_COMPLETED"
  BY <1>1, Final
<1> SUFFICES ASSUME SameWorkflow
             PROVE  \A j \in Jobs : /\ Live(j)' => WorkflowContext(j, ctx[j])'
                                    /\ stored' # Absent => WorkflowContext(j, stored)'
  BY <1>2 DEF SchedulerInv, SameWorkflow
<1> DEFINE Good(j, c) ==
        /\ c.all = defined'[j]
        /\ \A n \in c.completed : \E i \in Jobs : outcome'[i][n] = "NODE_COMPLETED"
        /\ \A S \in SUBSET defined'[j] : Waiting(j, S)' => S \cap c.completed = {}
<1>3. \A j \in Jobs : /\ Good(j, ctx'[j]) <=> WorkflowContext(j, ctx[j])'
                      /\ Good(j, stored') <=> WorkflowContext(j, stored)'
  BY DEF WorkflowContext
<1>4. ASSUME NEW j \in Jobs, NEW c \in Contexts, WorkflowContext(j, c), NEW i \in Jobs
      PROVE  Good(i, c)
  <2>1. defined'[i] = defined[j] /\ sources'[i] = sources[j]
    BY <1>2 DEF SameWorkflow
  <2>2. c.completed \subseteq Nodes
    BY DEF Contexts
  <2>3. \A S : Waiting(i, S)' <=> Waiting(j, S)
    BY <2>1 DEF Waiting
  <2>4. QED
    BY <1>2, <1>4, <2>1, <2>2, <2>3 DEF WorkflowContext
<1>5. \A j \in Jobs : /\ Live(j) => \A i \in Jobs : Good(i, ctx[j])
                      /\ stored # Absent => \A i \in Jobs : Good(i, stored)
  BY ZenonT(60), <1>1, <1>4 DEF SchedulerInv, TypeOK
<1> SUFFICES \A j \in Jobs : /\ Live(j)' => Good(j, ctx'[j])
                             /\ stored' # Absent => Good(j, stored')
  BY <1>3
<1> HIDE DEF Good
<1>6. ASSUME NEW j \in Jobs,
             \/ InitializeFails(j) \/ StartWave(j) \/ NothingReady(j) \/ Finish(j)
             \/ WaveRejects(j) \/ WaveResolves(j) \/ RunnerDies(j)
             \/ \E n \in Nodes : NodeThrows(j, n) \/ SaveNode(j, n) \/ SaveNodeFails(j, n)
      PROVE  \A i \in Jobs : /\ Live(i)' => Good(i, ctx'[i])
                             /\ stored' # Absent => Good(i, stored')
  <2>1. /\ ctx' = ctx /\ \A i \in Jobs : Live(i)' => Live(i)
        /\ stored' = stored \/ (Live(j) /\ stored' = ctx[j])
    BY <1>1, <1>6, LiveBefore
  <2>2. QED
    BY <1>5, <2>1
<1>7. CASE LoseContext \/ UNCHANGED workVars
  <2>1. /\ ctx' = ctx /\ stage' = stage /\ promise' = promise /\ stored' \in {stored, Absent}
    BY <1>7 DEF LoseContext, workVars, jobVars
  <2>2. \A i \in Jobs : Live(i)' => Live(i)
    BY <2>1 DEF Live
  <2>3. QED
    BY <1>5, <2>1, <2>2
<1>8. ASSUME NEW j \in Jobs, LoadContext(j)
      PROVE  \A i \in Jobs : /\ Live(i)' => Good(i, ctx'[i])
                             /\ stored' # Absent => Good(i, stored')
  <2>1. stored' = stored /\ promise' = promise
    BY <1>8 DEF LoadContext
  <2>2. \A i \in Jobs \ {j} : ctx'[i] = ctx[i] /\ stage'[i] = stage[i]
    BY <1>1, <1>8 DEF LoadContext, TypeOK
  <2>3. \A i \in Jobs \ {j} : Live(i)' => Live(i)
    BY <2>1, <2>2 DEF Live
  <2>4. Live(j)' => ctx'[j] = stored /\ stored # Absent
    <3>1. \A n \in Nodes : promise[j][n] \notin Unsettled
      BY <1>1, <1>8 DEF LoadContext, PendingInv
    <3>2. stored = Absent => stage'[j] = "creating"
      BY <1>1, <1>8 DEF LoadContext, TypeOK
    <3>3. stored # Absent => ctx'[j] = stored
      BY <1>1, <1>8 DEF LoadContext, TypeOK
    <3>4. QED
      BY <2>1, <3>1, <3>2, <3>3 DEF Live
  <2>5. QED
    BY <1>5, <2>1, <2>2, <2>3, <2>4
<1>9. ASSUME NEW j \in Jobs, CreateContext(j)
      PROVE  \A i \in Jobs : /\ Live(i)' => Good(i, ctx'[i])
                             /\ stored' # Absent => Good(i, stored')
  <2> DEFINE fresh == [NoContext EXCEPT !.all = defined[j]]
  <2>1. stored' = fresh /\ promise' = promise /\ ctx'[j] = fresh
    BY <1>1, <1>9 DEF CreateContext, TypeOK
  <2>2. \A i \in Jobs \ {j} : ctx'[i] = ctx[i] /\ stage'[i] = stage[i]
    BY <1>1, <1>9 DEF CreateContext, TypeOK
  <2>3. \A i \in Jobs \ {j} : Live(i)' => Live(i)
    BY <2>1, <2>2 DEF Live
  <2>4. fresh.all = defined[j] /\ fresh.completed = {}
    BY DEF NoContext
  <2>5. \A i \in Jobs : Good(i, fresh)
    <3> HIDE DEF fresh
    <3>1. \A i \in Jobs : defined'[i] = defined[j]
      BY <1>2 DEF SameWorkflow
    <3>2. QED
      BY <2>4, <3>1 DEF Good
  <2> HIDE DEF fresh
  <2>6. QED
    BY <1>5, <2>1, <2>2, <2>3, <2>5
<1>10. ASSUME NEW j \in Jobs, MarkNodeCompleted(j) \/ MarkFails(j)
       PROVE  \A i \in Jobs : /\ Live(i)' => Good(i, ctx'[i])
                              /\ stored' # Absent => Good(i, stored')
  <2> PICK n \in toMark[j] :
              /\ ctx'[j].all = ctx[j].all /\ ctx'[j].exec = ctx[j].exec
              /\ ctx'[j].completed = ctx[j].completed \cup {n}
              /\ \A i \in Jobs \ {j} : ctx'[i] = ctx[i]
              /\ n \in Nodes
              /\ MarkNodeCompleted(j) => stored' \in {stored, ctx'[j]}
    BY <1>1, <1>10, Marks
  <2>1. stage[j] = "marking" /\ promise' = promise
    BY <1>10 DEF MarkNodeCompleted, MarkFails
  <2>2. \A i \in Jobs \ {j} : stage'[i] = stage[i]
    BY <1>1, <1>10 DEF MarkNodeCompleted, MarkFails, Fail, TypeOK
  <2>3. \A i \in Jobs \ {j} : Live(i)' => Live(i)
    BY <2>1, <2>2 DEF Live
  <2>4. WorkflowContext(j, ctx[j])
    BY <2>1 DEF SchedulerInv, Live
  <2>5. ctx'[j] \in Contexts
    BY <1>1 DEF TypeOK
  <2>6. \A i \in Jobs : Good(i, ctx'[j])
    <3>1. ASSUME NEW c \in Contexts, c = ctx'[j] PROVE \A i \in Jobs : Good(i, c)
      <4>1. WorkflowContext(j, c)
        BY <2>1, <2>4, <3>1, MarkedContext
      <4>2. QED
        BY <1>4, <4>1
    <3>2. QED
      BY <2>5, <3>1
  <2>7. stored' \in {stored, ctx'[j]}
    BY <1>10 DEF MarkFails
  <2>8. QED
    BY <1>5, <2>3, <2>6, <2>7
<1>11. ASSUME NEW j \in Jobs, NEW n \in Nodes, NEW success \in BOOLEAN,
              NodeReturns(j, n, success)
       PROVE  \A i \in Jobs : /\ Live(i)' => Good(i, ctx'[i])
                              /\ stored' # Absent => Good(i, stored')
  <2>1. /\ ctx'[j].all = ctx[j].all /\ ctx'[j].completed = ctx[j].completed
        /\ \A i \in Jobs \ {j} : ctx'[i] = ctx[i]
    BY <1>1, <1>11, Returns
  <2>2. stored' = stored /\ stage' = stage /\ promise[j][n] = "running"
    BY <1>11 DEF NodeReturns
  <2>3. \A i \in Jobs \ {j} : promise'[i] = promise[i]
    BY <1>1, <1>11 DEF NodeReturns, TypeOK
  <2>4. Live(j) /\ \A i \in Jobs : Live(i)' => Live(i)
    BY <2>2, <2>3 DEF Live, Unsettled
  <2>5. Good(j, ctx'[j])
    BY <1>5, <2>1, <2>4 DEF Good
  <2>6. QED
    BY <1>5, <2>1, <2>2, <2>4, <2>5
<1>12. QED
  BY <1>6, <1>7, <1>8, <1>9, <1>10, <1>11, StepCases

(* Who says that the graph is circular, and that it is complete.           *)
LEMMA VerdictBy ==
    ASSUME TypeOK, [Next]_vars, NEW j \in Jobs
    PROVE  /\ cause'[j] = "circular" => cause[j] = "circular" \/ NothingReady(j)
           /\ verdict'[j] = "WORKFLOW_COMPLETED" =>
                 verdict[j] = "WORKFLOW_COMPLETED" \/ (Finish(j) /\ ~OutputThrows(j))
<1> DEFINE Same(i) == cause'[i] = cause[i] /\ verdict'[i] = verdict[i]
           Failed(i, why) == cause'[i] = why /\ verdict'[i] = "WORKFLOW_FAILED"
<1> USE DEF TypeOK
<1>1. ASSUME NEW i \in Jobs, NEW why, Fail(i, why)
      PROVE  Failed(i, why) /\ \A k \in Jobs \ {i} : Same(k)
  BY <1>1 DEF Fail
<1>2. ASSUME NEW i \in Jobs, NothingReady(i)
      PROVE  Failed(i, "circular") /\ \A k \in Jobs \ {i} : Same(k)
  BY <1>1, <1>2 DEF NothingReady
<1>3. ASSUME NEW i \in Jobs, Finish(i)
      PROVE  /\ \A k \in Jobs \ {i} : Same(k)
             /\ Failed(i, "output") \/ (~OutputThrows(i) /\ cause'[i] = cause[i])
  <2>1. CASE OutputThrows(i)
    BY <1>1, <1>3, <2>1 DEF Finish
  <2>2. CASE ~OutputThrows(i)
    BY <1>3, <2>2 DEF Finish
  <2>3. QED
    BY <2>1, <2>2
<1>4. ASSUME NEW i \in Jobs, WaveRejects(i)
      PROVE  Failed(i, "throw") /\ \A k \in Jobs \ {i} : Same(k)
  BY <1>1, <1>4 DEF WaveRejects
<1>5. ASSUME NEW i \in Jobs, WaveResolves(i)
      PROVE  (Failed(i, "node") \/ Same(i)) /\ \A k \in Jobs \ {i} : Same(k)
  BY <1>1, <1>5 DEF WaveResolves
<1>6. ASSUME NEW i \in Jobs, MarkNodeCompleted(i) \/ MarkFails(i)
      PROVE  (Failed(i, "context") \/ Same(i)) /\ \A k \in Jobs \ {i} : Same(k)
  BY <1>1, <1>6 DEF MarkNodeCompleted, MarkFails
<1>7. ASSUME NEW i \in Jobs, InitializeFails(i)
      PROVE  /\ cause'[i] = "init" /\ verdict'[i] = verdict[i]
             /\ \A k \in Jobs \ {i} : Same(k)
  BY <1>7 DEF InitializeFails
<1>8. ASSUME \/ LoseContext \/ UNCHANGED workVars
             \/ \E i \in Jobs :
                   \/ LoadContext(i) \/ CreateContext(i) \/ StartWave(i) \/ RunnerDies(i)
                   \/ \E n \in Nodes : \/ \E success \in BOOLEAN : NodeReturns(i, n, success)
                                       \/ NodeThrows(i, n)
                                       \/ SaveNode(i, n) \/ SaveNodeFails(i, n)
      PROVE  \A k \in Jobs : Same(k)
  BY <1>8 DEF LoadContext, CreateContext, StartWave, RunnerDies, NodeReturns, NodeThrows,
              SaveNode, SaveNodeFails, LoseContext, workVars, eventVars
<1> HIDE DEF Same, Failed
<1>9. \/ Same(j) \/ NothingReady(j)
      \/ Finish(j) /\ (Failed(j, "output") \/ (~OutputThrows(j) /\ cause'[j] = cause[j]))
      \/ \E why \in {"throw", "node", "context"} : Failed(j, why)
      \/ cause'[j] = "init" /\ verdict'[j] = verdict[j]
  <2>1. ASSUME NEW i \in Jobs, i # j,
               \/ NothingReady(i) \/ Finish(i) \/ WaveRejects(i) \/ WaveResolves(i)
               \/ MarkNodeCompleted(i) \/ MarkFails(i) \/ InitializeFails(i)
        PROVE  Same(j)
    BY <1>2, <1>3, <1>4, <1>5, <1>6, <1>7, <2>1
  <2>2. QED
    BY <1>3, <1>4, <1>5, <1>6, <1>7, <1>8, <2>1, StepCases
<1>10. ASSUME NothingReady(j) PROVE verdict'[j] = "WORKFLOW_FAILED"
  BY <1>2, <1>10 DEF Failed
<1>11. QED
  BY <1>9, <1>10 DEF Same, Failed

LEMMA SoundStep ==
    ASSUME ExecutorInv, SchedulerInv, SchedulerSound, [Next]_vars PROVE SchedulerSound'
<1>1. TypeOK /\ PromiseInv
  BY DEF ExecutorInv
<1>2. /\ defined' = defined /\ sources' = sources
      /\ \A i \in Jobs, n \in Nodes :
            outcome[i][n] = "NODE_COMPLETED" => outcome'[i][n] = "NODE_COMPLETED"
  BY <1>1, Final
<1> SUFFICES ASSUME SameWorkflow, NEW j \in Jobs
             PROVE  /\ cause'[j] = "circular" => Blocked(j)
                    /\ verdict'[j] = "WORKFLOW_COMPLETED" =>
                          /\ ~Blocked(j)
                          /\ \A n \in defined[j] : \E i \in Jobs : outcome'[i][n] = "NODE_COMPLETED"
  BY <1>2 DEF SchedulerSound, SameWorkflow, Blocked
<1>3. defined[j] \subseteq Nodes
  BY <1>1 DEF TypeOK
<1>4. ASSUME NothingReady(j) PROVE Blocked(j)
  <2> DEFINE S == ctx[j].all \ ctx[j].completed
  <2>1. WorkflowContext(j, ctx[j])
    BY <1>4 DEF NothingReady, SchedulerInv, Live
  <2>2. S # {} /\ S \subseteq defined[j] /\ ctx[j].all = defined[j]
    BY <1>4, <2>1 DEF NothingReady, WorkflowContext
  <2>3. ASSUME NEW n \in S PROVE \E d \in sources[j][n] : d \in S \/ d \notin defined[j]
    <3>1. ~(sources[j][n] \subseteq ctx[j].completed)
      BY <1>4, <2>2 DEF NothingReady, ReadyNodes, Dependencies
    <3>2. QED
      BY <2>2, <3>1
  <2>4. S \in SUBSET defined[j] /\ S # {}
    BY <2>2
  <2> HIDE DEF S
  <2>5. QED
    BY <2>3, <2>4 DEF Blocked
<1>5. ASSUME Finish(j)
      PROVE  /\ ~Blocked(j)
             /\ \A n \in defined[j] : \E i \in Jobs : outcome'[i][n] = "NODE_COMPLETED"
  <2>1. WorkflowContext(j, ctx[j])
    BY <1>5 DEF Finish, SchedulerInv, Live
  <2>2. defined[j] \subseteq ctx[j].completed
    BY <1>5, <2>1 DEF Finish, WorkflowContext
  <2>3. ~Blocked(j)
    <3>1. \A S \in SUBSET defined[j] : Waiting(j, S) => S = {}
      BY <2>1, <2>2 DEF WorkflowContext
    <3>2. QED
      BY <3>1 DEF Blocked, Waiting
  <2>4. \A n \in defined[j] : \E i \in Jobs : outcome[i][n] = "NODE_COMPLETED"
    BY <2>1, <2>2 DEF WorkflowContext
  <2>5. QED
    BY <1>2, <1>3, <2>3, <2>4
<1>6. /\ cause[j] = "circular" => Blocked(j)
      /\ verdict[j] = "WORKFLOW_COMPLETED" =>
            /\ ~Blocked(j)
            /\ \A n \in defined[j] : \E i \in Jobs : outcome'[i][n] = "NODE_COMPLETED"
  BY <1>2, <1>3 DEF SchedulerSound
<1>7. QED
  BY <1>1, <1>4, <1>5, <1>6, VerdictBy

(* workflow.executor.ts:59-96 and findReadyNodes: whatever the graph, the  *)
(* results of the nodes, the faults and the other jobs of the trigger, the *)
(* scheduler reports a circular dependency only of a graph that has nodes  *)
(* waiting for one another or for nothing, and completes only a graph that *)
(* has none, with every node executed.                                     *)
THEOREM SchedulerCorrect == Spec => []SchedulerSound
<1>1. Init => SchedulerInv /\ SchedulerSound
  BY DEF Init, SchedulerInv, SchedulerSound, Live, Unsettled
<1>2. ExecutorInv /\ SchedulerInv /\ SchedulerSound /\ [Next]_vars
      => SchedulerInv' /\ SchedulerSound'
  BY SchedulerStep, SoundStep
<1>3. QED
  BY ExecutorInductive, <1>1, <1>2, PTL DEF Spec

-----------------------------------------------------------------------------
(* The stored context of a job that is alone.                              *)
LEMMA BehindStep ==
    ASSUME NEW j, Jobs = {j}, TypeOK, [Next]_vars, StoredBehind(j)
    PROVE  /\ StoredBehind(j)'
           /\ stored # Absent /\ stored' # Absent =>
                 /\ stored.completed \subseteq stored'.completed
                 /\ \A n \in Nodes : stored.exec[n] # "none" => stored'.exec[n] # "none"
<1> DEFINE Grows(c, d) ==
        /\ c.completed \subseteq d.completed
        /\ \A n \in Nodes : c.exec[n] # "none" => d.exec[n] # "none"
<1>0. stored # Absent => stage[j] \notin {"queued", "creating"} /\ Grows(stored, ctx[j])
  BY DEF StoredBehind
<1>1. SUFFICES /\ stored' # Absent =>
                     stage'[j] \notin {"queued", "creating"} /\ Grows(stored', ctx'[j])
               /\ stored # Absent /\ stored' # Absent => Grows(stored, stored')
  BY DEF StoredBehind
<1>2. ASSUME ctx' = ctx, stored' \in {stored, Absent, ctx[j]},
             stored' # Absent => stage'[j] \notin {"queued", "creating"}
      PROVE  /\ stored' # Absent =>
                   stage'[j] \notin {"queued", "creating"} /\ Grows(stored', ctx'[j])
             /\ stored # Absent /\ stored' # Absent => Grows(stored, stored')
  BY <1>0, <1>2
<1>3. CASE \/ InitializeFails(j) \/ StartWave(j) \/ NothingReady(j) \/ Finish(j)
           \/ WaveRejects(j) \/ WaveResolves(j) \/ RunnerDies(j)
           \/ \E n \in Nodes : NodeThrows(j, n) \/ SaveNodeFails(j, n)
  <2>1. ctx' = ctx /\ stored' = stored /\ (stage'[j] = stage[j]
           \/ stage'[j] \notin {"queued", "creating"})
    <3>1. CASE InitializeFails(j) \/ StartWave(j) \/ RunnerDies(j)
      BY <3>1 DEF TypeOK, InitializeFails, StartWave, RunnerDies
    <3>2. CASE NothingReady(j) \/ Finish(j) \/ WaveRejects(j) \/ WaveResolves(j)
      BY <3>2 DEF TypeOK, NothingReady, Finish, WaveRejects, WaveResolves, Fail
    <3>3. CASE \E n \in Nodes : NodeThrows(j, n) \/ SaveNodeFails(j, n)
      BY <3>3 DEF NodeThrows, SaveNodeFails
    <3>4. QED
      BY <1>3, <3>1, <3>2, <3>3
  <2>2. QED
    BY <1>0, <1>2, <2>1
<1>4. ASSUME NEW n \in Nodes, SaveNode(j, n)
      PROVE  ctx' = ctx /\ stored' \in {stored, ctx[j]} /\ stage' = stage
             /\ (stored = Absent => stored' = Absent)
  BY <1>4 DEF SaveNode
<1>5. CASE LoseContext \/ UNCHANGED workVars
  BY <1>0, <1>2, <1>5 DEF LoseContext, workVars, jobVars
<1>6. CASE LoadContext(j)
  BY <1>0, <1>6 DEF LoadContext
<1>7. CASE CreateContext(j)
  <2>1. stored = Absent /\ ctx'[j] = stored' /\ stage'[j] = "looping"
    BY <1>0, <1>7 DEF CreateContext, TypeOK
  <2>2. QED
    BY <2>1
<1>8. CASE MarkNodeCompleted(j) \/ MarkFails(j)
  <2> PICK n \in toMark[j] :
              /\ ctx'[j].all = ctx[j].all /\ ctx'[j].exec = ctx[j].exec
              /\ ctx'[j].completed = ctx[j].completed \cup {n}
              /\ MarkNodeCompleted(j) => stored' \in {stored, ctx'[j]}
    BY <1>8, Marks
  <2>1. Grows(ctx[j], ctx'[j]) /\ stored' \in {stored, ctx'[j]}
    BY <1>8 DEF MarkFails
  <2>2. stage'[j] \notin {"queued", "creating"}
    BY <1>8 DEF MarkNodeCompleted, MarkFails, Fail, TypeOK
  <2>3. QED
    BY <1>0, <2>1, <2>2
<1>9. ASSUME NEW n \in Nodes, NEW success \in BOOLEAN, NodeReturns(j, n, success)
      PROVE  Grows(ctx[j], ctx'[j]) /\ stored' = stored /\ stage' = stage
  BY <1>9, Returns DEF NodeReturns
<1>10. ASSUME NEW n \in Nodes, NEW success \in BOOLEAN, NodeReturns(j, n, success)
       PROVE  /\ stored' # Absent =>
                    stage'[j] \notin {"queued", "creating"} /\ Grows(stored', ctx'[j])
              /\ stored # Absent /\ stored' # Absent => Grows(stored, stored')
  BY <1>0, <1>9, <1>10
<1>11. ASSUME NEW n \in Nodes, SaveNode(j, n)
       PROVE  /\ stored' # Absent =>
                    stage'[j] \notin {"queued", "creating"} /\ Grows(stored', ctx'[j])
              /\ stored # Absent /\ stored' # Absent => Grows(stored, stored')
  BY <1>0, <1>4, <1>11
<1>12. QED
  BY <1>3, <1>5, <1>6, <1>7, <1>8, <1>10, <1>11, StepCases

(* context-service.ts, sync(): although the nodes of a wave read and       *)
(* rewrite the whole context next to each other, what is stored of a job   *)
(* that is alone never loses an execution or a mark.                       *)
THEOREM NeverRegresses ==
    ASSUME NEW j, Jobs = {j} PROVE Spec => StoredNeverRegresses
<1>1. Init => StoredBehind(j)
  BY DEF Init, StoredBehind
<1>2. TypeOK /\ StoredBehind(j) /\ [Next]_vars =>
         /\ StoredBehind(j)'
         /\ [stored # Absent /\ stored' # Absent =>
               /\ stored.completed \subseteq stored'.completed
               /\ \A n \in Nodes : stored.exec[n] # "none" => stored'.exec[n] # "none"]_vars
  BY BehindStep
<1>3. QED
  BY ExecutorTypes, <1>1, <1>2, PTL DEF Spec, StoredNeverRegresses
=============================================================================
