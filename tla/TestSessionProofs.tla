------------------------- MODULE TestSessionProofs -------------------------
(* Proofs about the memory of an agent that TestSession's runs share, and  *)
(* about what the dialog shows of the runs it was told of, for any number  *)
(* of runs, sessions, chunks, clicks and faults.                           *)
EXTENDS TestSession, SequenceTheorems, FiniteSetTheorems, TLAPS

\* The sessions that runs are started with.
StartInv == sessionId \in Sessions /\ awaiting \in Seq(Sessions)

SessionInv == MemoryInv /\ StartInv

LEMMA InitSessionInv == Init => SessionInv
<1> SUFFICES ASSUME Init PROVE SessionInv
  OBVIOUS
<1> USE DEF Init, AgentInit
<1>1. AgentTypeOK
  BY MemoryAssumption DEF AgentTypeOK, Stages
<1>2. EarlierInv /\ CopyInv /\ MeetInv /\ WriteInv /\ TurnsKept /\ Remembered
  BY DEF EarlierInv, CopyInv, MeetInv, WriteInv, TurnsKept, Remembered, Adders, Stages
<1>3. Ordered
  BY DEF Ordered, InOrder, IsInjective, ToSet
<1>4. StartInv
  BY SessionAssumption DEF StartInv, DialogInit
<1>5. QED
  BY <1>1, <1>2, <1>3, <1>4 DEF SessionInv, MemoryInv

(* The dialog starts runs with its sessions only.                          *)
LEMMA StartStep == StartInv /\ [Next]_vars => StartInv'
<1> SUFFICES ASSUME StartInv, [Next]_vars PROVE StartInv'
  OBVIOUS
<1> USE DEF StartInv, dialogVars, button, callbacks, panel, view
<1>1. ASSUME NEW i \in DOMAIN awaiting PROVE RemoveAt(awaiting, i) \in Seq(Sessions)
  <2>1. i \in Int /\ 1 <= i /\ i <= Len(awaiting) /\ Len(awaiting) \in Nat
    BY <1>1
  <2>2. SubSeq(awaiting, 1, i - 1) \in Seq(Sessions)
    BY <2>1, SubSeqProperties
  <2>3. SubSeq(awaiting, i + 1, Len(awaiting)) \in Seq(Sessions)
    BY <2>1, SubSeqProperties
  <2>4. QED
    BY <2>2, <2>3, ConcatProperties DEF RemoveAt
<1>2. ASSUME NEW r \in Runs, NEW i \in DOMAIN awaiting, Start(r, i) PROVE StartInv'
  BY <1>1, <1>2 DEF Start, StartRun
<1>3. ASSUME NEW i \in DOMAIN awaiting, NoToken(i) PROVE StartInv'
  BY <1>1, <1>3 DEF NoToken
<1>4. ASSUME TestFlow PROVE StartInv'
  BY <1>4 DEF TestFlow
<1>5. ASSUME Stop \/ Close \/ Open \/ ResetSession \/ SwitchPane PROVE StartInv'
  BY <1>5 DEF Stop, Close, Open, ResetSession, SwitchPane
<1>6. ASSUME NEW r \in Runs, Deliver(r) PROVE StartInv'
  BY <1>6 DEF Deliver, Hear
<1>7. ASSUME UNCHANGED dialogVars PROVE StartInv'
  BY <1>7
<1>8. QED
  BY <1>2, <1>3, <1>4, <1>5, <1>6, <1>7 DEF Next, Step, User, ProceedHeard, vars

(* What a step of the session is to the memory.                            *)
LEMMA StepCases ==
    ASSUME StartInv, [Next]_vars
    PROVE  \/ \E r \in Runs, s \in Sessions : Execute(r, s)
           \/ \E r \in Runs : Proceed(r)
           \/ \E s \in Sessions : Expire(s)
           \/ UNCHANGED agentVars
<1>1. ASSUME NEW r \in Runs, NEW i \in DOMAIN awaiting, Start(r, i)
      PROVE  \E s \in Sessions : Execute(r, s)
  BY <1>1 DEF Start, StartInv
<1>2. ASSUME NEW r \in Runs, AfterReturns(r) PROVE UNCHANGED agentVars
  BY <1>2 DEF AfterReturns
<1>3. QED
  BY <1>1, <1>2 DEF Next, Step, ProceedHeard, Deliver, vars

-----------------------------------------------------------------------------
(* The typing of every step.                                               *)
LEMMA AgentTypeStep ==
    ASSUME AgentTypeOK, StartInv, [Next]_vars PROVE AgentTypeOK'
<1> USE MemoryAssumption DEF Adders, AgentTypeOK, Goto, ghosts, NoFault, Fault, Stages
<1>1. ASSUME NEW r \in Runs, NEW s \in Sessions, Execute(r, s) PROVE AgentTypeOK'
  BY <1>1 DEF Execute, Of
<1>0. \A r \in Runs : stage[r] # "idle" =>
         session[r] \in Sessions /\ history[session[r]] \in Seq(Runs)
  OBVIOUS
<1>a. ASSUME NEW r \in Runs, stage[r] # "idle", session' = session,
             NEW next \in Stages \ {"idle"}, Goto(r, next)
      PROVE  /\ stage' \in [Runs -> Stages]
             /\ \A q \in Runs : (stage'[q] = "idle") = (session'[q] = NoSession)
  BY <1>a
<1>2. ASSUME NEW r \in Runs, GetMessages(r) PROVE AgentTypeOK'
  <2>1. recalled' \in [Runs -> Seq(Runs)]
    BY <1>0, <1>2 DEF GetMessages
  <2>2. /\ lost' \subseteq Sessions /\ faults' \in 0..MaxFaults
    BY <1>0, <1>2 DEF GetMessages
  <2>3. /\ stage[r] # "idle" /\ Goto(r, "answering") /\ session' = session
        /\ history' = history /\ chunks' = chunks /\ copy' = copy
        /\ earlier' = earlier /\ met' = met
    BY <1>2 DEF GetMessages
  <2>4. QED
    BY <1>a, <2>1, <2>2, <2>3
<1>3. ASSUME NEW r \in Runs, Stream(r) PROVE AgentTypeOK'
  BY <1>3 DEF Stream
<1>4. ASSUME NEW r \in Runs, AnswerEnds(r) \/ Fails(r) PROVE AgentTypeOK'
  <2>1. /\ stage[r] # "idle" /\ (Goto(r, "saving") \/ Goto(r, "failed"))
        /\ UNCHANGED <<history, session, recalled, chunks, copy, earlier, met, lost, faults>>
    BY <1>4 DEF AnswerEnds, Fails
  <2>2. QED
    BY <1>a, <2>1
<1>5. ASSUME NEW r \in Runs, Fetch(r) PROVE AgentTypeOK'
  <2>1. /\ stage[r] # "idle" /\ (Goto(r, "writing") \/ Goto(r, "done"))
        /\ UNCHANGED <<history, session, recalled, chunks, earlier>>
    BY <1>5 DEF Fetch
  <2>2. copy' \in [Runs -> Seq(Runs)]
    BY <1>0, <1>5 DEF Fetch
  <2>3. lost' \subseteq Sessions /\ faults' \in 0..MaxFaults
    BY <1>0, <1>5 DEF Fetch
  <2>4. met' \subseteq SUBSET Runs
    <3> SUFFICES ASSUME NEW x \in met', x \notin met PROVE x \in SUBSET Runs
      OBVIOUS
    <3>1. x \in {{r, q} : q \in Adding(r)}
      BY <1>5 DEF Fetch
    <3>2. PICK q \in Adding(r) : x = {r, q}
      BY <3>1
    <3>3. q \in Runs
      BY DEF Adding, Of
    <3>4. QED
      BY <3>2, <3>3
  <2>5. QED
    BY <1>a, <2>1, <2>2, <2>3, <2>4
<1>6. ASSUME NEW r \in Runs, Set(r) PROVE AgentTypeOK'
  <2>1. /\ stage[r] # "idle" /\ (Goto(r, "resending") \/ Goto(r, "done"))
        /\ UNCHANGED <<session, recalled, chunks, copy, earlier, met>>
    BY <1>6 DEF Set
  <2>2. copy[r] \in Seq(Runs) /\ session[r] \in Sessions
    BY <1>0, <2>1
  <2>3. Append(copy[r], r) \in Seq(Runs)
    BY <2>2, AppendProperties
  <2>4. history' \in [Sessions -> Seq(Runs)]
    BY ZenonT(60), <1>6, <2>2, <2>3 DEF Set
  <2>5. lost' \subseteq Sessions /\ faults' \in 0..MaxFaults
    BY <1>6, <2>2 DEF Set
  <2>6. QED
    BY <1>a, <2>1, <2>4, <2>5
<1>7. ASSUME NEW s \in Sessions, Expire(s) PROVE AgentTypeOK'
  BY <1>7 DEF Expire
<1>8. ASSUME UNCHANGED agentVars PROVE AgentTypeOK'
  BY <1>8 DEF agentVars
<1>9. QED
  BY <1>1, <1>2, <1>3, <1>4, <1>5, <1>6, <1>7, <1>8, StepCases DEF Proceed

(* What a step leaves of the past: a run that has started keeps its        *)
(* session and its past, adding and done are final, marks stay.            *)
LEMMA PastKept ==
    ASSUME MemoryInv, StartInv, [Next]_vars
    PROVE  /\ \A r \in Runs : stage[r] # "idle" =>
                 /\ session'[r] = session[r] /\ earlier'[r] = earlier[r]
                 /\ stage'[r] # "idle"
           /\ \A r \in Runs : stage[r] \in Adders => stage'[r] \in Adders \cup {"done"}
           /\ \A r \in Runs : stage[r] = "done" => stage'[r] = "done"
           /\ met \subseteq met' /\ lost \subseteq lost'
<1> USE DEF Goto, ghosts, NoFault, Fault, Adders
<1>0. AgentTypeOK
  BY DEF MemoryInv
<1>1. ASSUME NEW r \in Runs, NEW s \in Sessions, Execute(r, s)
      PROVE  /\ \A q \in Runs \ {r} : /\ session'[q] = session[q] /\ stage'[q] = stage[q]
                                      /\ earlier'[q] = earlier[q]
             /\ stage[r] = "idle" /\ met' = met /\ lost' = lost
  BY <1>0, <1>1 DEF Execute, AgentTypeOK
<1>2. ASSUME NEW r \in Runs, Proceed(r)
      PROVE  /\ session' = session /\ earlier' = earlier
             /\ \A q \in Runs \ {r} : stage'[q] = stage[q]
             /\ stage[r] \notin {"idle", "done"} /\ stage'[r] # "idle"
             /\ stage[r] \in Adders => stage'[r] \in Adders \cup {"done"}
             /\ met \subseteq met' /\ lost \subseteq lost'
  <2>1. stage \in [Runs -> Stages]
    BY <1>0 DEF AgentTypeOK
  <2>2. QED
    BY <1>2, <2>1
       DEF Proceed, GetMessages, Stream, AnswerEnds, Fails, Fetch, Set
<1>3. ASSUME (\E s \in Sessions : Expire(s)) \/ UNCHANGED agentVars
      PROVE  /\ session' = session /\ earlier' = earlier /\ stage' = stage
             /\ met' = met /\ lost \subseteq lost'
  BY <1>3 DEF Expire, agentVars
<1>4. QED
  BY <1>1, <1>2, <1>3, StepCases

(* An order of turns, once there, stays.                                   *)
LEMMA OrderKept ==
    ASSUME MemoryInv, StartInv, [Next]_vars, NEW turns \in Seq(Runs), NEW s,
           InOrder(s, turns)
    PROVE  /\ \A r \in ToSet(turns) :
                 session'[r] = s /\ stage'[r] \in Adders \cup {"done"}
           /\ \A i, j \in DOMAIN turns : i < j => turns[j] \notin earlier'[turns[i]]
<1>1. \A r \in ToSet(turns) : r \in Runs
  BY DEF ToSet
<1>2. \A i \in DOMAIN turns : turns[i] \in ToSet(turns)
  BY DEF ToSet
<1>3. \A r \in ToSet(turns) :
         session[r] = s /\ stage[r] # "idle" /\ stage[r] \in Adders \cup {"done"}
  BY DEF InOrder, Adders
<1>4. \A r \in ToSet(turns) : session'[r] = s /\ earlier'[r] = earlier[r]
                              /\ stage'[r] \in Adders \cup {"done"}
  BY <1>1, <1>3, PastKept
<1>5. QED
  BY <1>2, <1>4 DEF InOrder

-----------------------------------------------------------------------------
(* One step lemma for each part.                                           *)
LEMMA EarlierStep ==
    ASSUME MemoryInv, StartInv, [Next]_vars PROVE EarlierInv'
<1> SUFFICES ASSUME NEW p \in Runs, NEW q \in earlier'[p]
             PROVE  stage'[q] = "done" /\ session'[q] = session'[p]
  BY DEF EarlierInv
<1>0. AgentTypeOK /\ AgentTypeOK' /\ EarlierInv
  BY AgentTypeStep DEF MemoryInv
<1>1. q \in Runs
  BY <1>0 DEF AgentTypeOK
<1>2. ASSUME q \in earlier[p], stage[p] # "idle"
      PROVE  stage'[q] = "done" /\ session'[q] = session'[p]
  BY <1>0, <1>1, <1>2, PastKept DEF EarlierInv
<1>3. CASE stage[p] # "idle"
  BY <1>2, <1>3, PastKept
<1>4. CASE stage[p] = "idle"
  <2>1. session[p] = NoSession
    BY <1>0, <1>4 DEF AgentTypeOK
  <2>2. ASSUME NEW s \in Sessions, Execute(p, s)
        PROVE  stage'[q] = "done" /\ session'[q] = session'[p]
    <3>1. session' = [session EXCEPT ![p] = s] /\ stage' = [stage EXCEPT ![p] = "recalling"]
          /\ earlier'[p] = {k \in Of(s) : stage[k] = "done"}
      BY <1>0, <2>2 DEF Execute, Goto, AgentTypeOK
    <3>2. session[q] = s /\ stage[q] = "done"
      BY <3>1 DEF Of
    <3>3. q # p
      BY <1>4, <3>2
    <3>4. QED
      BY <1>0, <1>1, <3>1, <3>2, <3>3 DEF AgentTypeOK
  <2>3. ASSUME ~\E s \in Sessions : Execute(p, s)
        PROVE  earlier'[p] = earlier[p] /\ session'[p] = session[p]
    <3>1. ASSUME NEW r \in Runs, NEW s \in Sessions, Execute(r, s)
          PROVE  earlier'[p] = earlier[p] /\ session'[p] = session[p]
      <4>1. r # p
        BY <2>3, <3>1
      <4>2. /\ session' = [session EXCEPT ![r] = s]
            /\ earlier' = [earlier EXCEPT ![r] = {k \in Of(s) : stage[k] = "done"}]
        BY <3>1 DEF Execute
      <4>3. QED
        BY <1>0, <4>1, <4>2 DEF AgentTypeOK
    <3>2. ASSUME NEW r \in Runs, Proceed(r)
          PROVE  earlier'[p] = earlier[p] /\ session'[p] = session[p]
      BY <3>2 DEF Proceed, GetMessages, Stream, AnswerEnds, Fails, Fetch, Set, ghosts
    <3>3. ASSUME (\E s \in Sessions : Expire(s)) \/ UNCHANGED agentVars
          PROVE  earlier'[p] = earlier[p] /\ session'[p] = session[p]
      BY <3>3 DEF Expire, agentVars, ghosts
    <3>4. QED
      BY <3>1, <3>2, <3>3, StepCases
  <2>4. ASSUME ~\E s \in Sessions : Execute(p, s)
        PROVE  stage'[q] = "done" /\ session'[q] = session'[p]
    <3>1. stage[q] = "done" /\ session[q] = session[p]
      BY <1>0, <2>3, <2>4 DEF EarlierInv
    <3>2. stage[q] # "idle"
      BY <3>1
    <3>3. QED
      BY <1>1, <2>3, <2>4, <3>1, <3>2, PastKept
  <2>5. QED
    BY <2>2, <2>4
<1>5. QED
  BY <1>3, <1>4

(* The turns read for writing back, and what is written.                   *)
LEMMA CopyStep ==
    ASSUME MemoryInv, StartInv, [Next]_vars PROVE CopyInv'
<1> SUFFICES ASSUME NEW p \in Runs, stage'[p] \in Adders
             PROVE  InOrder(session[p], copy[p])' /\ p \notin ToSet(copy'[p])
  BY DEF CopyInv, ToSet
<1> USE DEF Adders
<1>0. AgentTypeOK /\ AgentTypeOK' /\ CopyInv /\ Ordered
  BY AgentTypeStep DEF MemoryInv
<1>1. ASSUME stage[p] \in Adders, copy'[p] = copy[p]
      PROVE  InOrder(session[p], copy[p])' /\ p \notin ToSet(copy'[p])
  <2>1. /\ InOrder(session[p], copy[p]) /\ p \notin ToSet(copy[p])
        /\ copy[p] \in Seq(Runs)
    BY <1>0, <1>1 DEF CopyInv, AgentTypeOK
  <2>2. session'[p] = session[p]
    BY <1>1, PastKept
  <2>3. /\ \A r \in ToSet(copy[p]) :
              session'[r] = session[p] /\ stage'[r] \in Adders \cup {"done"}
        /\ \A i, j \in DOMAIN copy[p] : i < j => copy[p][j] \notin earlier'[copy[p][i]]
    BY <2>1, OrderKept
  <2>4. QED
    BY <1>1, <2>1, <2>2, <2>3 DEF InOrder, ToSet
<1>2. ASSUME Fetch(p), stage'[p] = "writing"
      PROVE  InOrder(session[p], copy[p])' /\ p \notin ToSet(copy'[p])
  <2>1. /\ stage[p] = "saving" /\ session' = session
        /\ copy'[p] = history[session[p]] /\ session[p] \in Sessions
        /\ history[session[p]] \in Seq(Runs)
    BY ZenonT(60), <1>0, <1>2, MemoryAssumption DEF Fetch, Goto, AgentTypeOK, Stages
  <2>2. InOrder(session[p], history[session[p]])
    BY <1>0, <2>1 DEF Ordered
  <2>3. p \notin ToSet(history[session[p]])
    BY <2>1, <2>2 DEF InOrder
  <2>4. /\ \A r \in ToSet(history[session[p]]) :
              session'[r] = session[p] /\ stage'[r] \in Adders \cup {"done"}
        /\ \A i, j \in DOMAIN history[session[p]] :
              i < j => history[session[p]][j] \notin earlier'[history[session[p]][i]]
    BY <2>1, <2>2, OrderKept
  <2>5. QED
    BY <2>1, <2>2, <2>3, <2>4 DEF InOrder, ToSet
<1>3. \/ stage[p] \in Adders /\ copy'[p] = copy[p]
      \/ Fetch(p) /\ stage'[p] = "writing"
  <2>1. ASSUME NEW r \in Runs, NEW s \in Sessions, Execute(r, s)
        PROVE  stage[p] \in Adders /\ copy'[p] = copy[p]
    BY <1>0, <2>1 DEF Execute, Goto, AgentTypeOK
  <2>2. ASSUME NEW r \in Runs, Proceed(r)
        PROVE  \/ stage[p] \in Adders /\ copy'[p] = copy[p]
               \/ Fetch(p) /\ stage'[p] = "writing"
    <3>1. CASE GetMessages(r) \/ Stream(r) \/ AnswerEnds(r) \/ Fails(r)
      BY <1>0, <3>1 DEF GetMessages, Stream, AnswerEnds, Fails, Goto, AgentTypeOK
    <3>2. CASE Set(r)
      BY <1>0, <3>2 DEF Set, Goto, AgentTypeOK
    <3>3. CASE Fetch(r)
      <4>1. CASE r = p
        <5>1. stage'[p] = "writing" \/ stage'[p] = "done"
          BY <1>0, <3>3, <4>1 DEF Fetch, Goto, AgentTypeOK
        <5>2. QED
          BY <3>3, <4>1, <5>1
      <4>2. CASE r # p
        BY <1>0, <3>3, <4>2 DEF Fetch, Goto, AgentTypeOK
      <4>3. QED
        BY <4>1, <4>2
    <3>4. QED
      BY <2>2, <3>1, <3>2, <3>3 DEF Proceed
  <2>3. ASSUME (\E s \in Sessions : Expire(s)) \/ UNCHANGED agentVars
        PROVE  stage[p] \in Adders /\ copy'[p] = copy[p]
    BY <2>3 DEF Expire, agentVars
  <2>4. QED
    BY <2>1, <2>2, <2>3, StepCases
<1>4. QED
  BY <1>1, <1>2, <1>3

(* A stored conversation is what it was, gone, or a copy with a turn.      *)
LEMMA OrderedStep ==
    ASSUME MemoryInv, StartInv, [Next]_vars PROVE Ordered'
<1> SUFFICES ASSUME NEW s \in Sessions PROVE InOrder(s, history[s])'
  BY DEF Ordered
<1>0. AgentTypeOK /\ AgentTypeOK' /\ CopyInv /\ Ordered /\ EarlierInv
  BY AgentTypeStep DEF MemoryInv
<1>1. ASSUME history'[s] = history[s] PROVE InOrder(s, history[s])'
  <2>1. InOrder(s, history[s]) /\ history[s] \in Seq(Runs)
    BY <1>0 DEF Ordered, AgentTypeOK
  <2>2. /\ \A r \in ToSet(history[s]) :
              session'[r] = s /\ stage'[r] \in Adders \cup {"done"}
        /\ \A i, j \in DOMAIN history[s] :
              i < j => history[s][j] \notin earlier'[history[s][i]]
    BY <2>1, OrderKept
  <2>3. QED
    BY <1>1, <2>1, <2>2 DEF InOrder, ToSet
<1>2. ASSUME history'[s] = <<>> PROVE InOrder(s, history[s])'
  BY <1>2 DEF InOrder, ToSet, IsInjective
<1>3. ASSUME NEW r \in Runs, Set(r), s = session[r], history'[s] = Append(copy[r], r)
      PROVE  InOrder(s, history[s])'
  <2> DEFINE turns == copy[r]
             more == Append(turns, r)
  <2>1. /\ stage[r] \in Adders /\ turns \in Seq(Runs)
        /\ InOrder(s, turns) /\ r \notin ToSet(turns)
    BY <1>0, <1>3 DEF Set, Adders, CopyInv, AgentTypeOK
  <2>2. /\ session'[r] = s /\ stage'[r] \in Adders \cup {"done"}
    BY <1>3, <2>1, PastKept DEF Adders
  <2>3. /\ \A k \in ToSet(turns) :
              session'[k] = s /\ stage'[k] \in Adders \cup {"done"}
        /\ \A i, j \in DOMAIN turns : i < j => turns[j] \notin earlier'[turns[i]]
    BY <2>1, OrderKept
  <2>4. \A k \in Runs : r \notin earlier'[k]
    <3>1. earlier' = earlier /\ stage[r] # "done"
      BY <1>3, <2>1 DEF Set, ghosts, Adders
    <3>2. QED
      BY <1>0, <3>1 DEF EarlierInv
  <2>5. /\ Len(turns) \in Nat /\ DOMAIN turns = 1..Len(turns)
        /\ DOMAIN more = 1..(Len(turns) + 1)
        /\ \A i \in DOMAIN turns : more[i] = turns[i] /\ turns[i] \in Runs
        /\ more[Len(turns) + 1] = r
    BY <2>1
  <2>6. \A i \in DOMAIN turns : turns[i] \in ToSet(turns) /\ turns[i] # r
    BY <2>1 DEF ToSet
  <2> HIDE DEF turns, more
  <2>7. \A k \in ToSet(more) : k = r \/ k \in ToSet(turns)
    BY <2>5 DEF ToSet
  <2>8. IsInjective(more)
    <3>1. \A i, j \in DOMAIN turns : turns[i] = turns[j] => i = j
      BY <2>1 DEF InOrder, IsInjective
    <3>2. QED
      BY <2>5, <2>6, <3>1 DEF IsInjective
  <2>9. \A i, j \in DOMAIN more : i < j => more[j] \notin earlier'[more[i]]
    BY <2>3, <2>4, <2>5
  <2>10. history'[s] = more
    BY <1>3 DEF more, turns
  <2>11. QED
    BY <2>2, <2>3, <2>7, <2>8, <2>9, <2>10 DEF InOrder, ToSet
<1>4. ASSUME NEW r \in Runs, Set(r) PROVE InOrder(s, history[s])'
  BY <1>0, <1>1, <1>3, <1>4 DEF Set, AgentTypeOK
<1>5. ASSUME NEW q \in Sessions, Expire(q) PROVE InOrder(s, history[s])'
  BY <1>0, <1>1, <1>2, <1>5 DEF Expire, AgentTypeOK
<1>6. ASSUME \/ \E r \in Runs, q \in Sessions : Execute(r, q)
             \/ \E r \in Runs : GetMessages(r) \/ Stream(r) \/ AnswerEnds(r)
                                \/ Fails(r) \/ Fetch(r)
             \/ UNCHANGED agentVars
      PROVE  history' = history
  BY <1>6 DEF Execute, GetMessages, Stream, AnswerEnds, Fails, Fetch, agentVars
<1>7. QED
  BY <1>1, <1>4, <1>5, <1>6, StepCases DEF Proceed

(* Adding at once is noticed by the one that reads last.                   *)
LEMMA MeetStep ==
    ASSUME MemoryInv, StartInv, [Next]_vars PROVE MeetInv'
<1> SUFFICES ASSUME NEW p \in Runs, NEW q \in Runs, p # q,
                    stage'[p] \in Adders, stage'[q] \in Adders, session'[p] = session'[q]
             PROVE  {p, q} \in met'
  BY DEF MeetInv
<1> USE DEF Adders
<1>0. AgentTypeOK /\ MeetInv
  BY DEF MemoryInv
<1>1. ASSUME stage[p] \in Adders, stage[q] \in Adders PROVE {p, q} \in met'
  <2>1. session[p] = session[q]
    BY <1>1, PastKept
  <2>2. QED
    BY <1>0, <1>1, <2>1, PastKept DEF MeetInv
<1>2. ASSUME NEW r \in Runs, Fetch(r) PROVE {p, q} \in met'
  <2>1. /\ session' = session
        /\ \A k \in Runs \ {r} : stage'[k] = stage[k]
        /\ stage[r] = "saving"
        /\ stage'[r] \in Adders => met' = met \cup {{r, k} : k \in Adding(r)}
    BY <1>0, <1>2 DEF Fetch, Goto, AgentTypeOK
  <2>2. CASE r = p
    <3>1. q \in Adding(r)
      BY <2>1, <2>2 DEF Adding, Of
    <3>2. QED
      BY <2>1, <2>2, <3>1
  <2>3. CASE r = q
    <3>1. p \in Adding(r) /\ {r, p} = {p, q}
      BY <2>1, <2>3 DEF Adding, Of
    <3>2. QED
      BY <2>1, <2>3, <3>1
  <2>4. CASE r \notin {p, q}
    BY <1>1, <2>1, <2>4
  <2>5. QED
    BY <2>2, <2>3, <2>4
<1>3. ASSUME \/ \E r \in Runs, s \in Sessions : Execute(r, s)
             \/ \E r \in Runs : GetMessages(r) \/ Stream(r) \/ AnswerEnds(r) \/ Fails(r)
                                \/ Set(r)
             \/ \E s \in Sessions : Expire(s)
             \/ UNCHANGED agentVars
      PROVE  \A k \in Runs : stage'[k] \in Adders => stage[k] \in Adders
  BY <1>0, <1>3
     DEF Execute, GetMessages, Stream, AnswerEnds, Fails, Set, Goto, Expire, agentVars,
         AgentTypeOK
<1>4. QED
  BY <1>1, <1>2, <1>3, StepCases DEF Proceed

(* The turn of a run that is done is in every copy, or the run was met.    *)
LEMMA WriteStep ==
    ASSUME MemoryInv, StartInv, [Next]_vars PROVE WriteInv'
<1> SUFFICES ASSUME NEW p \in Runs, NEW q \in Runs,
                    stage'[p] \in Adders, stage'[q] = "done",
                    session'[p] = session'[q], session'[p] \notin lost'
             PROVE  q \in ToSet(copy'[p]) \cup UNION met'
  BY DEF WriteInv, ToSet
<1> USE DEF Adders
<1>0. AgentTypeOK /\ MeetInv /\ WriteInv /\ TurnsKept
  BY DEF MemoryInv
<1>1. ASSUME stage[p] \in Adders, stage[q] = "done", copy'[p] = copy[p]
      PROVE  q \in ToSet(copy'[p]) \cup UNION met'
  <2>1. session[p] = session[q] /\ session[p] \notin lost /\ met \subseteq met'
    BY <1>1, PastKept
  <2>2. q \in ToSet(copy[p]) \cup UNION met
    BY <1>0, <1>1, <2>1 DEF WriteInv
  <2>3. QED
    BY <1>1, <2>1, <2>2
<1>2. ASSUME NEW r \in Runs, Fetch(r) PROVE q \in ToSet(copy'[p]) \cup UNION met'
  <2>1. /\ session' = session /\ stage[r] = "saving"
        /\ \A k \in Runs \ {r} : stage'[k] = stage[k] /\ copy'[k] = copy[k]
        /\ \/ stage'[r] = "writing" /\ copy'[r] = history[session[r]]
           \/ stage'[r] = "done" /\ session[r] \in lost'
    BY ZenonT(60), <1>0, <1>2 DEF Fetch, Goto, Fault, AgentTypeOK
  <2>2. CASE r = p
    <3>1. stage[q] = "done" /\ copy'[p] = history[session[q]] /\ session[q] \notin lost
      BY <2>1, <2>2, PastKept
    <3>2. q \in ToSet(history[session[q]]) \cup UNION met
      BY <1>0, <3>1 DEF TurnsKept
    <3>3. met \subseteq met'
      BY PastKept
    <3>4. QED
      BY <3>1, <3>2, <3>3
  <2>3. CASE r # p
    BY <1>1, <2>1, <2>3
  <2>4. QED
    BY <2>2, <2>3
<1>3. ASSUME NEW r \in Runs, Set(r) PROVE q \in ToSet(copy'[p]) \cup UNION met'
  <2>1. /\ session' = session /\ stage[r] \in Adders /\ copy' = copy
        /\ \A k \in Runs \ {r} : stage'[k] = stage[k]
    BY <1>0, <1>3 DEF Set, Goto, AgentTypeOK
  <2>2. stage[p] \in Adders
    BY <2>1
  <2>3. CASE stage[q] = "done"
    BY <1>1, <2>1, <2>2, <2>3
  <2>4. CASE stage[q] # "done"
    <3>1. r = q /\ p # q
      BY <2>1, <2>4
    <3>2. {p, q} \in met
      BY <1>0, <2>1, <2>2, <3>1 DEF MeetInv
    <3>3. QED
      BY <3>2, PastKept
  <2>5. QED
    BY <2>3, <2>4
<1>4. ASSUME \/ \E r \in Runs, s \in Sessions : Execute(r, s)
             \/ \E r \in Runs : GetMessages(r) \/ Stream(r) \/ AnswerEnds(r) \/ Fails(r)
             \/ \E s \in Sessions : Expire(s)
             \/ UNCHANGED agentVars
      PROVE  /\ stage[p] \in Adders /\ stage[q] = "done"
             /\ copy' = copy
  BY <1>0, <1>4
     DEF Execute, GetMessages, Stream, AnswerEnds, Fails, Goto, Expire, agentVars,
         AgentTypeOK
<1>5. QED
  BY <1>1, <1>2, <1>3, <1>4, StepCases DEF Proceed

(* A turn that was added is written back with the conversation.            *)
LEMMA TurnsStep ==
    ASSUME MemoryInv, StartInv, [Next]_vars PROVE TurnsKept'
<1> SUFFICES ASSUME NEW p \in Runs, stage'[p] = "done", session'[p] \notin lost'
             PROVE  p \in ToSet(history'[session'[p]]) \cup UNION met'
  BY DEF TurnsKept, ToSet
<1>0. AgentTypeOK /\ MeetInv /\ WriteInv /\ TurnsKept
  BY DEF MemoryInv
<1>1. ASSUME stage[p] = "done", history'[session[p]] = history[session[p]]
      PROVE  p \in ToSet(history'[session'[p]]) \cup UNION met'
  <2>1. session'[p] = session[p] /\ session[p] \notin lost /\ met \subseteq met'
    BY <1>1, PastKept
  <2>2. p \in ToSet(history[session[p]]) \cup UNION met
    BY <1>0, <1>1, <2>1 DEF TurnsKept
  <2>3. QED
    BY <1>1, <2>1, <2>2
<1>2. ASSUME NEW r \in Runs, Set(r)
      PROVE  p \in ToSet(history'[session'[p]]) \cup UNION met'
  <2>1. /\ session' = session /\ stage[r] \in Adders /\ copy[r] \in Seq(Runs)
        /\ \A k \in Runs \ {r} : stage'[k] = stage[k]
        /\ session[r] \in Sessions
    BY <1>0, <1>2, MemoryAssumption DEF Set, Goto, AgentTypeOK, Adders
  <2>2. CASE p # r
    <3>1. stage[p] = "done" /\ session[p] \notin lost /\ met \subseteq met'
      BY <2>1, <2>2, PastKept
    <3>2. CASE session[p] # session[r] \/ history' = history
      BY <1>0, <1>1, <1>2, <2>1, <3>1, <3>2 DEF Set, AgentTypeOK
    <3>3. CASE session[p] = session[r] /\ history' # history
      <4>1. history'[session[p]] = Append(copy[r], r)
        BY <1>0, <1>2, <2>1, <3>3 DEF Set, AgentTypeOK
      <4>2. p \in ToSet(copy[r]) \cup UNION met
        BY <1>0, <2>1, <3>1, <3>3 DEF WriteInv
      <4>3. ToSet(copy[r]) \subseteq ToSet(Append(copy[r], r))
        BY <2>1 DEF ToSet
      <4>4. QED
        BY <2>1, <3>1, <4>1, <4>2, <4>3
    <3>4. QED
      BY <3>2, <3>3
  <2>3. CASE p = r
    <3>1. session[r] \notin lost'
      BY <2>1, <2>3
    <3>2. history'[session[r]] = Append(copy[r], r)
      BY <1>0, <1>2, <2>1, <2>3, <3>1 DEF Set, Goto, Fault, AgentTypeOK
    <3>3. r \in ToSet(Append(copy[r], r))
      <4>1. /\ Len(copy[r]) + 1 \in DOMAIN Append(copy[r], r)
            /\ Append(copy[r], r)[Len(copy[r]) + 1] = r
        BY <2>1
      <4>2. QED
        BY <4>1 DEF ToSet
    <3>4. QED
      BY <2>1, <2>3, <3>2, <3>3
  <2>4. QED
    BY <2>2, <2>3
<1>3. ASSUME NEW s \in Sessions, Expire(s)
      PROVE  p \in ToSet(history'[session'[p]]) \cup UNION met'
  BY <1>0, <1>1, <1>3 DEF Expire, AgentTypeOK
<1>4. ASSUME NEW r \in Runs, Fetch(r)
      PROVE  p \in ToSet(history'[session'[p]]) \cup UNION met'
  BY <1>0, <1>1, <1>4 DEF Fetch, Goto, Fault, AgentTypeOK
<1>5. ASSUME \/ \E r \in Runs, s \in Sessions : Execute(r, s)
             \/ \E r \in Runs : GetMessages(r) \/ Stream(r) \/ AnswerEnds(r) \/ Fails(r)
             \/ UNCHANGED agentVars
      PROVE  stage[p] = "done" /\ history' = history
  BY <1>0, <1>5
     DEF Execute, GetMessages, Stream, AnswerEnds, Fails, Goto, agentVars, AgentTypeOK
<1>6. QED
  BY <1>1, <1>2, <1>3, <1>4, <1>5, StepCases DEF Proceed

(* The model is given what is stored when the run recalls it.              *)
LEMMA RecalledStep ==
    ASSUME MemoryInv, StartInv, [Next]_vars PROVE Remembered'
<1> DEFINE Knows == Stages \ {"idle", "recalling", "failed"}
<1> SUFFICES ASSUME NEW p \in Runs, stage'[p] \in Knows, session'[p] \notin lost'
             PROVE  earlier'[p] \subseteq ToSet(recalled'[p]) \cup UNION met'
  BY DEF Remembered, ToSet
<1>0. AgentTypeOK /\ EarlierInv /\ TurnsKept /\ Remembered
  BY DEF MemoryInv
<1>1. ASSUME stage[p] \in Knows, recalled'[p] = recalled[p]
      PROVE  earlier'[p] \subseteq ToSet(recalled'[p]) \cup UNION met'
  <2>1. /\ session'[p] = session[p] /\ session[p] \notin lost /\ met \subseteq met'
        /\ earlier'[p] = earlier[p]
    BY <1>1, PastKept
  <2>2. earlier[p] \subseteq ToSet(recalled[p]) \cup UNION met
    BY <1>0, <1>1, <2>1 DEF Remembered
  <2>3. QED
    BY <1>1, <2>1, <2>2
<1>2. ASSUME GetMessages(p)
      PROVE  earlier'[p] \subseteq ToSet(recalled'[p]) \cup UNION met'
  <2>1. /\ session' = session /\ earlier' = earlier /\ met' = met
        /\ recalled'[p] = history[session[p]] /\ session[p] \notin lost
    BY <1>0, <1>2 DEF GetMessages, ghosts, Fault, NoFault, AgentTypeOK
  <2>2. \A q \in earlier[p] :
           q \in Runs /\ stage[q] = "done" /\ session[q] = session[p]
    BY <1>0 DEF EarlierInv, AgentTypeOK
  <2>3. QED
    BY <1>0, <2>1, <2>2 DEF TurnsKept
<1>3. GetMessages(p) \/ (stage[p] \in Knows /\ recalled'[p] = recalled[p])
  <2>1. ASSUME NEW r \in Runs, NEW s \in Sessions, Execute(r, s)
        PROVE  stage[p] \in Knows /\ recalled'[p] = recalled[p]
    BY <1>0, <2>1 DEF Execute, Goto, AgentTypeOK
  <2>2. ASSUME NEW r \in Runs, GetMessages(r)
        PROVE  GetMessages(p) \/ (stage[p] \in Knows /\ recalled'[p] = recalled[p])
    BY <1>0, <2>2 DEF GetMessages, Goto, AgentTypeOK
  <2>3. ASSUME NEW r \in Runs, Stream(r) \/ AnswerEnds(r) \/ Fails(r) \/ Fetch(r) \/ Set(r)
        PROVE  stage[p] \in Knows /\ recalled'[p] = recalled[p]
    BY <1>0, <2>3 DEF Stream, AnswerEnds, Fails, Fetch, Set, Goto, AgentTypeOK, Stages, Adders
  <2>4. ASSUME (\E s \in Sessions : Expire(s)) \/ UNCHANGED agentVars
        PROVE  stage[p] \in Knows /\ recalled'[p] = recalled[p]
    BY <2>4 DEF Expire, agentVars
  <2>5. QED
    BY <2>1, <2>2, <2>3, <2>4, StepCases DEF Proceed
<1>4. QED
  BY <1>1, <1>2, <1>3

-----------------------------------------------------------------------------
(* The conjunction is inductive.                                           *)
THEOREM SessionInductive == Spec => []SessionInv
<1>1. SessionInv /\ [Next]_vars => SessionInv'
  BY StartStep, AgentTypeStep, EarlierStep, CopyStep, MeetStep, WriteStep, OrderedStep,
     TurnsStep, RecalledStep DEF SessionInv, MemoryInv
<1>2. QED
  BY InitSessionInv, <1>1, PTL DEF Spec

(* local-memory.ts:50-111 and agent.ts: however many runs of however many  *)
(* sessions read and write back their conversation next to each other, it  *)
(* is in order, and keeps and recalls every turn but those of runs that    *)
(* were adding at once and of sessions that a fault took turns from.       *)
THEOREM ConversationSafe == Spec => []ConversationKept
<1>1. SessionInv => ConversationKept
  BY DEF SessionInv, MemoryInv, ConversationKept
<1>2. QED
  BY SessionInductive, <1>1, PTL

-----------------------------------------------------------------------------
(* The events of a run: that the agent began, its texts, how it returned,  *)
(* and how the node after it did.                                          *)
Returns == {"waiting", "ended", "failed"}

CausedBy(agent, texts, next) ==
    CASE agent = "idle"   -> 0
      [] agent = "failed" -> texts + 3
      [] agent = "done"   ->
           texts + (CASE next = "ended" -> 7 [] next = "failed" -> 5 [] OTHER -> 3)
      [] OTHER            -> texts + 1

EndingEvent(agent, next, m) ==
    IF agent = "failed" THEN IF m = 1 THEN On("nodeFail", "agent") ELSE On("flowFail", "result")
    ELSE IF m = 1 THEN On("nodeEnd", "agent")
    ELSE IF m = 2 THEN On("nodeStart", "after")
    ELSE IF m = 3 THEN IF next = "ended" THEN On("nodeEnd", "after") ELSE On("nodeFail", "after")
    ELSE IF next = "failed" THEN On("flowFail", "result")
    ELSE IF m = 4 THEN On("nodeStart", "result")
    ELSE IF m = 5 THEN On("nodeEnd", "result") ELSE On("flowEnd", "result")

EventNumber(agent, texts, next, n) ==
    IF n = 1 THEN On("nodeStart", "agent")
    ELSE IF n <= texts + 1 THEN On("flowResultStream", "agent")
    ELSE EndingEvent(agent, next, n - (texts + 1))

EventSet ==
    [name : {"nodeStart", "nodeEnd", "nodeFail", "flowEnd", "flowFail", "flowResultStream"},
     node : Nodes]

LEMMA One ==
    ASSUME NEW S, NEW a \in S
    PROVE  <<a>> \in Seq(S) /\ Len(<<a>>) = 1 /\ <<a>>[1] = a
OBVIOUS

LEMMA Two ==
    ASSUME NEW S, NEW a \in S, NEW b \in S
    PROVE  <<a, b>> \in Seq(S) /\ Len(<<a, b>>) = 2 /\ <<a, b>>[1] = a /\ <<a, b>>[2] = b
OBVIOUS

LEMMA Four ==
    ASSUME NEW S, NEW a \in S, NEW b \in S, NEW c \in S, NEW d \in S
    PROVE  LET four == <<a, b>> \o <<c, d>> IN
           /\ four \in Seq(S) /\ Len(four) = 4
           /\ four[1] = a /\ four[2] = b /\ four[3] = c /\ four[4] = d
<1> DEFINE front == <<a, b>>
           rest == <<c, d>>
<1>1. front \in Seq(S) /\ Len(front) = 2 /\ front[1] = a /\ front[2] = b
  BY Two
<1>2. rest \in Seq(S) /\ Len(rest) = 2 /\ rest[1] = c /\ rest[2] = d
  BY Two
<1> HIDE DEF front, rest
<1>3. /\ front \o rest \in Seq(S) /\ Len(front \o rest) = Len(front) + Len(rest)
      /\ \A i \in 1..(Len(front) + Len(rest)) :
            (front \o rest)[i] = IF i <= Len(front) THEN front[i] ELSE rest[i - Len(front)]
  BY <1>1, <1>2, ConcatProperties
<1>4. QED
  BY <1>1, <1>2, <1>3 DEF front, rest

LEMMA Six ==
    ASSUME NEW S, NEW a \in S, NEW b \in S, NEW c \in S, NEW d \in S, NEW e \in S, NEW f \in S
    PROVE  LET six == <<a, b>> \o <<c, d, e, f>> IN
           /\ six \in Seq(S) /\ Len(six) = 6
           /\ six[1] = a /\ six[2] = b /\ six[3] = c /\ six[4] = d /\ six[5] = e /\ six[6] = f
<1> DEFINE front == <<a, b>>
           rest == <<c, d, e, f>>
<1>1. front \in Seq(S) /\ Len(front) = 2 /\ front[1] = a /\ front[2] = b
  BY Two
<1>2. /\ rest \in Seq(S) /\ Len(rest) = 4
      /\ rest[1] = c /\ rest[2] = d /\ rest[3] = e /\ rest[4] = f
  OBVIOUS
<1> HIDE DEF front, rest
<1>3. /\ front \o rest \in Seq(S) /\ Len(front \o rest) = Len(front) + Len(rest)
      /\ \A i \in 1..(Len(front) + Len(rest)) :
            (front \o rest)[i] = IF i <= Len(front) THEN front[i] ELSE rest[i - Len(front)]
  BY <1>1, <1>2, ConcatProperties
<1>4. QED
  BY <1>1, <1>2, <1>3 DEF front, rest

LEMMA EndingIs ==
    ASSUME NEW agent \in Stages, NEW next \in Returns
    PROVE  /\ Ending(agent, next) \in Seq(EventSet)
           /\ Len(Ending(agent, next)) =
                 CASE agent = "failed" -> 2
                   [] agent = "done"   ->
                        CASE next = "ended" -> 6 [] next = "failed" -> 4 [] OTHER -> 2
                   [] OTHER            -> 0
           /\ \A m \in 1..Len(Ending(agent, next)) :
                 Ending(agent, next)[m] = EndingEvent(agent, next, m)
<1> DEFINE seq == Ending(agent, next)
           E(m) == EndingEvent(agent, next, m)
<1>1. \A m \in 1..6 : E(m) \in EventSet
  BY DEF EndingEvent, On, EventSet, Nodes
<1>2. CASE agent = "failed"
  <2>1. seq = <<E(1), E(2)>>
    BY <1>2 DEF Ending, EndingEvent
  <2> HIDE DEF seq, E
  <2>2. seq \in Seq(EventSet) /\ Len(seq) = 2 /\ seq[1] = E(1) /\ seq[2] = E(2)
    BY <1>1, <2>1, Two
  <2>3. \A m \in 1..Len(seq) : seq[m] = E(m)
    BY <2>2
  <2>4. QED
    BY <1>2, <2>2, <2>3 DEF seq, E
<1>3. CASE agent = "done" /\ next = "waiting"
  <2>1. seq = <<E(1), E(2)>> \o <<>>
    BY <1>3 DEF Ending, EndingEvent
  <2> HIDE DEF seq, E
  <2>2. <<E(1), E(2)>> \in Seq(EventSet)
    BY <1>1, Two
  <2>3. seq = <<E(1), E(2)>>
    BY <2>1, <2>2, ConcatEmptySeq
  <2>4. seq \in Seq(EventSet) /\ Len(seq) = 2 /\ seq[1] = E(1) /\ seq[2] = E(2)
    BY <1>1, <2>3, Two
  <2>5. \A m \in 1..Len(seq) : seq[m] = E(m)
    BY <2>4
  <2>6. QED
    BY <1>3, <2>4, <2>5 DEF seq, E
<1>4. CASE agent = "done" /\ next = "failed"
  <2>1. seq = <<E(1), E(2)>> \o <<E(3), E(4)>>
    BY <1>4 DEF Ending, EndingEvent
  <2> HIDE DEF seq, E
  <2>2. /\ seq \in Seq(EventSet) /\ Len(seq) = 4
        /\ seq[1] = E(1) /\ seq[2] = E(2) /\ seq[3] = E(3) /\ seq[4] = E(4)
    BY <1>1, <2>1, Four
  <2>3. \A m \in 1..Len(seq) : seq[m] = E(m)
    BY <2>2
  <2>4. QED
    BY <1>4, <2>2, <2>3 DEF seq, E
<1>5. CASE agent = "done" /\ next = "ended"
  <2>1. seq = <<E(1), E(2)>> \o <<E(3), E(4), E(5), E(6)>>
    BY <1>5 DEF Ending, EndingEvent
  <2> HIDE DEF seq, E
  <2>2. /\ seq \in Seq(EventSet) /\ Len(seq) = 6
        /\ seq[1] = E(1) /\ seq[2] = E(2) /\ seq[3] = E(3) /\ seq[4] = E(4)
        /\ seq[5] = E(5) /\ seq[6] = E(6)
    BY <1>1, <2>1, Six
  <2>3. \A m \in 1..Len(seq) : seq[m] = E(m)
    BY <2>2
  <2>4. QED
    BY <1>5, <2>2, <2>3 DEF seq, E
<1>6. CASE agent \notin {"failed", "done"}
  <2>1. seq = <<>>
    BY <1>6 DEF Ending
  <2> HIDE DEF seq
  <2>2. QED
    BY <1>6, <2>1 DEF seq
<1>7. QED
  BY <1>2, <1>3, <1>4, <1>5, <1>6 DEF Returns

LEMMA EventsAre ==
    ASSUME NEW agent \in Stages, NEW texts \in Nat, NEW next \in Returns
    PROVE  /\ CausedBy(agent, texts, next) \in Nat
           /\ Len(EventsOf(agent, texts, next)) = CausedBy(agent, texts, next)
           /\ \A n \in 1..CausedBy(agent, texts, next) :
                 EventsOf(agent, texts, next)[n] = EventNumber(agent, texts, next, n)
<1> DEFINE started == <<On("nodeStart", "agent")>>
           stream == [i \in 1..texts |-> On("flowResultStream", "agent")]
           ended == Ending(agent, next)
           begun == started \o stream
           caused == CausedBy(agent, texts, next)
<1>1. /\ started \in Seq(EventSet) /\ Len(started) = 1 /\ started[1] = On("nodeStart", "agent")
  <2> DEFINE e == On("nodeStart", "agent")
  <2>1. e \in EventSet
    BY DEF On, EventSet, Nodes
  <2> HIDE DEF e
  <2>2. <<e>> \in Seq(EventSet) /\ Len(<<e>>) = 1 /\ <<e>>[1] = e
    BY <2>1, One
  <2>3. QED
    BY <2>2 DEF e
<1>2. /\ stream \in Seq(EventSet) /\ Len(stream) = texts
      /\ \A i \in 1..texts : stream[i] = On("flowResultStream", "agent")
  <2> DEFINE e == On("flowResultStream", "agent")
  <2>1. e \in EventSet
    BY DEF On, EventSet, Nodes
  <2> HIDE DEF e
  <2>2. /\ [i \in 1..texts |-> e] \in Seq(EventSet) /\ Len([i \in 1..texts |-> e]) = texts
        /\ \A i \in 1..texts : [k \in 1..texts |-> e][i] = e
    BY <2>1
  <2>3. QED
    BY <2>2 DEF e
<1>3. /\ ended \in Seq(EventSet) /\ Len(ended) \in Nat
      /\ \A m \in 1..Len(ended) : ended[m] = EndingEvent(agent, next, m)
      /\ agent # "idle" => caused = texts + 1 + Len(ended)
      /\ agent = "idle" => caused = 0
  <2>1. /\ ended \in Seq(EventSet) /\ \A m \in 1..Len(ended) : ended[m] = EndingEvent(agent, next, m)
    BY EndingIs
  <2>2. Len(ended) = CASE agent = "failed" -> 2
                       [] agent = "done"   ->
                        CASE next = "ended" -> 6 [] next = "failed" -> 4 [] OTHER -> 2
                       [] OTHER            -> 0
    BY EndingIs
  <2>3. agent # "idle" => caused = texts + 1 + Len(ended)
    BY <2>2 DEF CausedBy
  <2>4. QED
    BY <2>1, <2>2, <2>3 DEF CausedBy
<1> HIDE DEF started, stream, ended, caused
<1>4. /\ begun \in Seq(EventSet) /\ Len(begun) = texts + 1
      /\ \A n \in 1..(texts + 1) : begun[n] = IF n <= 1 THEN started[n] ELSE stream[n - 1]
  <2>1. /\ begun \in Seq(EventSet) /\ Len(begun) = Len(started) + Len(stream)
        /\ \A n \in 1..(Len(started) + Len(stream)) :
              begun[n] = IF n <= Len(started) THEN started[n] ELSE stream[n - Len(started)]
    BY ZenonT(60), <1>1, <1>2, ConcatProperties
  <2> HIDE DEF begun
  <2>2. Len(started) + Len(stream) = texts + 1
    BY <1>1, <1>2
  <2>3. QED
    BY <1>1, <2>1, <2>2
<1> HIDE DEF begun
<1>5. /\ begun \o ended \in Seq(EventSet) /\ Len(begun \o ended) = texts + 1 + Len(ended)
      /\ \A n \in 1..(texts + 1 + Len(ended)) :
            (begun \o ended)[n] = IF n <= texts + 1 THEN begun[n] ELSE ended[n - (texts + 1)]
  <2>1. /\ begun \o ended \in Seq(EventSet) /\ Len(begun \o ended) = Len(begun) + Len(ended)
        /\ \A n \in 1..(Len(begun) + Len(ended)) :
              (begun \o ended)[n] = IF n <= Len(begun) THEN begun[n] ELSE ended[n - Len(begun)]
    BY ZenonT(60), <1>3, <1>4, ConcatProperties
  <2>2. QED
    BY <1>4, <2>1
<1>6. CASE agent = "idle"
  BY <1>3, <1>6 DEF EventsOf, caused
<1>7. CASE agent # "idle"
  <2>1. EventsOf(agent, texts, next) = begun \o ended
    BY <1>7 DEF EventsOf, begun, started, stream, ended
  <2>2. ASSUME NEW n \in 1..caused
        PROVE  (begun \o ended)[n] = EventNumber(agent, texts, next, n)
    <3>1. n \in 1..(texts + 1 + Len(ended))
      BY <1>3, <1>7
    <3>2. CASE n = 1
      BY <1>1, <1>4, <1>5, <3>1, <3>2 DEF EventNumber
    <3>3. CASE n # 1 /\ n <= texts + 1
      <4>1. n - 1 \in 1..texts /\ n \in 1..(texts + 1) /\ ~(n <= 1)
        BY <3>1, <3>3
      <4>2. QED
        BY <1>2, <1>4, <1>5, <3>1, <3>3, <4>1 DEF EventNumber
    <3>4. CASE ~(n <= texts + 1)
      <4>1. n - (texts + 1) \in 1..Len(ended) /\ n # 1
        BY <1>3, <3>1, <3>4
      <4>2. QED
        BY <1>3, <1>5, <3>1, <3>4, <4>1 DEF EventNumber
    <3>5. QED
      BY <3>2, <3>3, <3>4
  <2>3. QED
    BY <1>3, <1>5, <1>7, <2>1, <2>2 DEF caused
<1>8. QED
  BY <1>6, <1>7

(* What has been told of a run stays what it was when the run goes on.     *)
GoesOn(agent, texts, next, agent2, texts2, next2) ==
    \/ agent2 = agent /\ texts2 = texts /\ next2 = next
    \/ agent = "idle"
    \/ /\ agent \notin {"idle", "done", "failed"} /\ agent2 # "idle"
       /\ texts2 >= texts /\ next = "waiting" /\ next2 = "waiting"
    \/ agent = "done" /\ agent2 = "done" /\ texts2 = texts /\ next = "waiting"

LEMMA EventsStay ==
    ASSUME NEW agent \in Stages, NEW texts \in Nat, NEW next \in Returns,
           NEW agent2 \in Stages, NEW texts2 \in Nat, NEW next2 \in Returns,
           GoesOn(agent, texts, next, agent2, texts2, next2)
    PROVE  /\ CausedBy(agent, texts, next) <= CausedBy(agent2, texts2, next2)
           /\ \A n \in 1..CausedBy(agent, texts, next) :
                 EventsOf(agent2, texts2, next2)[n] = EventsOf(agent, texts, next)[n]
<1> DEFINE c == CausedBy(agent, texts, next)
           c2 == CausedBy(agent2, texts2, next2)
<1>1. c \in Nat /\ c2 \in Nat /\ c <= c2
  BY DEF CausedBy, GoesOn, Returns
<1>2. ASSUME NEW n \in 1..c
      PROVE  EventNumber(agent2, texts2, next2, n) = EventNumber(agent, texts, next, n)
  <2>1. CASE agent2 = agent /\ texts2 = texts /\ next2 = next
    BY <2>1
  <2>2. CASE agent = "idle"
    BY <2>2 DEF CausedBy
  <2>3. CASE agent \notin {"idle", "done", "failed"} /\ texts2 >= texts
    <3>1. n <= texts + 1 /\ n <= texts2 + 1
      BY <2>3 DEF CausedBy
    <3>2. QED
      BY <3>1 DEF EventNumber
  <2>4. CASE agent = "done" /\ agent2 = "done" /\ texts2 = texts /\ next = "waiting"
    <3>1. n - (texts + 1) <= 2 /\ n - (texts + 1) \in Int
      BY <2>4 DEF CausedBy
    <3>2. n - (texts + 1) \in {1, 2} \/ n <= texts + 1
      BY <3>1
    <3>3. QED
      BY <2>4, <3>2 DEF EventNumber, EndingEvent
  <2>5. QED
    BY <2>1, <2>2, <2>3, <2>4 DEF GoesOn
<1>3. \A n \in 1..c : n \in 1..c2
  BY <1>1
<1>4. ASSUME NEW n \in 1..c
      PROVE  EventsOf(agent2, texts2, next2)[n] = EventsOf(agent, texts, next)[n]
  <2>1. EventsOf(agent, texts, next)[n] = EventNumber(agent, texts, next, n)
    BY EventsAre
  <2>2. EventsOf(agent2, texts2, next2)[n] = EventNumber(agent2, texts2, next2, n)
    BY <1>3, EventsAre
  <2>3. QED
    BY <1>2, <2>1, <2>2
<1>5. QED
  BY <1>1, <1>4

(* The events of a run in the model's state.                               *)
LEMMA EventsOfRun ==
    ASSUME AgentTypeOK, ToldInv, NEW r \in Runs
    PROVE  /\ stage[r] \in Stages /\ chunks[r] \in Nat /\ after[r] \in Returns
           /\ Caused(r) = CausedBy(stage[r], chunks[r], after[r])
           /\ Caused(r) \in Nat /\ Len(Events(r)) = Caused(r)
           /\ told[r] \in Nat /\ told[r] <= Caused(r)
           /\ \A n \in 1..Caused(r) :
                 Events(r)[n] = EventNumber(stage[r], chunks[r], after[r], n)
<1>1. /\ stage[r] \in Stages /\ chunks[r] \in Nat /\ after[r] \in Returns
      /\ told[r] \in Nat /\ told[r] <= Caused(r)
  BY MemoryAssumption DEF AgentTypeOK, ToldInv, Returns
<1>2. Caused(r) = CausedBy(stage[r], chunks[r], after[r])
  BY DEF Caused, CausedBy
<1>3. QED
  BY <1>1, <1>2, EventsAre DEF Events

(* What the dialog does with an event: which ones are texts, and which end *)
(* a run; every other one is drawn at a node.                              *)
LEMMA EventFacts ==
    ASSUME AgentTypeOK, ToldInv, NEW r \in Runs, NEW n \in 1..Caused(r)
    PROVE  /\ Events(r)[n].name = "flowResultStream" <=> n \in 2..(chunks[r] + 1)
           /\ Finishes(Events(r)[n]) => n = Caused(r) /\ Ended(r)
           /\ Events(r)[n].name = "flowFail" => Failed(r)
           /\ Events(r)[n].node \in Nodes
           /\ Events(r)[n].name \in DOMAIN Shown =>
                 Shown[Events(r)[n].name] \in Statuses \ {"idle"}
<1> DEFINE k == chunks[r]
           m == n - (k + 1)
           event == Events(r)[n]
<1>1. /\ stage[r] \in Stages /\ k \in Nat /\ after[r] \in Returns /\ Caused(r) \in Nat
      /\ event = EventNumber(stage[r], k, after[r], n)
      /\ Caused(r) = CausedBy(stage[r], k, after[r])
  BY EventsOfRun
<1>2. stage[r] # "idle"
  BY <1>1 DEF CausedBy
<1>3. Shown["nodeStart"] = "active" /\ Shown["nodeEnd"] = "ended" /\ Shown["nodeFail"] = "failed"
      /\ Shown["flowEnd"] = "ended" /\ Shown["flowFail"] = "failed"
      /\ DOMAIN Shown = {"nodeStart", "nodeEnd", "nodeFail", "flowEnd", "flowFail"}
  BY DEF Shown
<1>4. CASE n <= k + 1
  <2>1. event = IF n = 1 THEN On("nodeStart", "agent") ELSE On("flowResultStream", "agent")
    BY <1>1, <1>4 DEF EventNumber
  <2> HIDE DEF event
  <2>2. QED
    BY <1>1, <1>3, <1>4, <2>1 DEF On, Finishes, Nodes, Statuses, event
<1>5. CASE ~(n <= k + 1)
  <2>1. event = EndingEvent(stage[r], after[r], m) /\ n \notin 2..(k + 1)
    BY <1>1, <1>5 DEF EventNumber
  <2>2. \/ stage[r] = "failed" /\ m \in {1, 2} /\ (m = 2 => n = Caused(r))
        \/ /\ stage[r] = "done"
           /\ \/ m \in {1, 2}
              \/ after[r] = "failed" /\ m \in {3, 4} /\ (m = 4 => n = Caused(r))
              \/ after[r] = "ended" /\ m \in {3, 4, 5, 6} /\ (m = 6 => n = Caused(r))
    BY <1>1, <1>2, <1>5 DEF CausedBy, Returns
  <2>3. after[r] # "waiting" => after[r] = "ended" \/ after[r] = "failed"
    BY <1>1 DEF Returns
  <2> HIDE DEF event, m
  <2>4. CASE stage[r] = "failed"
    <3>1. event = On("nodeFail", "agent") \/ (event = On("flowFail", "result") /\ n = Caused(r))
      BY <2>1, <2>2, <2>4 DEF EndingEvent
    <3>2. QED
      BY <1>1, <1>3, <2>1, <2>4, <3>1 DEF On, Finishes, Nodes, Statuses, Ended, Failed, event
  <2>5. CASE stage[r] = "done"
    <3>1. \/ event = On("nodeEnd", "agent")
          \/ event = On("nodeStart", "after")
          \/ event = On("nodeEnd", "after")
          \/ event = On("nodeFail", "after")
          \/ event = On("nodeStart", "result")
          \/ event = On("nodeEnd", "result")
          \/ event = On("flowEnd", "result") /\ n = Caused(r) /\ after[r] = "ended"
          \/ event = On("flowFail", "result") /\ n = Caused(r) /\ after[r] = "failed"
      BY <2>1, <2>2, <2>3, <2>5 DEF EndingEvent
    <3>2. QED
      BY <1>1, <1>3, <2>1, <2>5, <3>1 DEF On, Finishes, Nodes, Statuses, Ended, Failed, event
  <2>6. QED
    BY <2>2, <2>4, <2>5
<1>6. QED
  BY <1>1, <1>4, <1>5

(* The texts among the events delivered are the ones Texts counts.         *)
LEMMA TextsOf ==
    ASSUME AgentTypeOK, ToldInv, NEW r \in Runs
    PROVE  Cardinality({i \in 1..told[r] : Events(r)[i].name = "flowResultStream"}) = Texts(r)
<1> DEFINE k == chunks[r]
           last == IF told[r] <= k + 1 THEN told[r] ELSE k + 1
<1>1. k \in Nat /\ told[r] \in Nat /\ Caused(r) \in Nat /\ told[r] <= Caused(r)
  BY EventsOfRun
<1>2. last \in Nat /\ last <= told[r]
  BY <1>1
<1>3. ASSUME NEW i \in 1..told[r]
      PROVE  Events(r)[i].name = "flowResultStream" <=> i \in 2..last
  <2>1. i \in 1..Caused(r)
    BY <1>1
  <2>2. Events(r)[i].name = "flowResultStream" <=> i \in 2..(k + 1)
    BY <2>1, EventFacts
  <2>3. QED
    BY <1>1, <2>2
<1>4. {i \in 1..told[r] : Events(r)[i].name = "flowResultStream"} = 2..last
  BY <1>1, <1>2, <1>3
<1>5. Cardinality(2..last) = IF 2 <= last THEN last - 1 ELSE 0
  <2> HIDE DEF last
  <2>1. Cardinality(2..last) = IF 2 > last THEN 0 ELSE last - 2 + 1
    BY <1>2, FS_Interval
  <2>2. QED
    BY <1>2, <2>1
<1>6. Texts(r) = IF 2 <= last THEN last - 1 ELSE 0
  BY <1>1 DEF Texts
<1>7. QED
  BY <1>4, <1>5, <1>6

-----------------------------------------------------------------------------
(* A run that goes on has its end before it: it counts as many texts, what *)
(* it told stays as it was, and the runs that are over stay over.          *)
Goes(q) ==
    /\ stage'[q] \in Stages /\ chunks'[q] \in Nat
    /\ after'[q] # "waiting" => stage'[q] = "done"
    /\ GoesOn(stage[q], chunks[q], after[q], stage'[q], chunks'[q], after'[q])

SameTold ==
    \A q \in Runs, node \in Nodes :
        /\ About(q, node)' = About(q, node)
        /\ \A i \in About(q, node) : Events(q)'[i] = Events(q)[i]

LEMMA RunGoesOn ==
    ASSUME AgentTypeOK, ToldInv, UNCHANGED told, after' \in [Runs -> Returns],
           \A q \in Runs : Goes(q)
    PROVE  /\ ToldInv'
           /\ \A q \in Runs : /\ Texts(q)' = Texts(q)
                              /\ Over(q) => Over(q)'
                              /\ stage[q] # "idle" => stage'[q] # "idle"
                              /\ Failed(q) => Failed(q)'
           /\ SameTold
<1>1. ASSUME NEW q \in Runs
      PROVE  /\ told[q] <= Caused(q)' /\ Texts(q)' = Texts(q)
             /\ Over(q) => Over(q)'
             /\ stage[q] # "idle" => stage'[q] # "idle"
             /\ Failed(q) => Failed(q)'
             /\ \A i \in 1..told[q] : Events(q)'[i] = Events(q)[i]
  <2>1. /\ stage[q] \in Stages /\ chunks[q] \in Nat /\ after[q] \in Returns
        /\ Caused(q) = CausedBy(stage[q], chunks[q], after[q])
        /\ Caused(q) \in Nat /\ told[q] \in Nat /\ told[q] <= Caused(q)
    BY EventsOfRun
  <2>2. /\ stage'[q] \in Stages /\ chunks'[q] \in Nat /\ after'[q] \in Returns
        /\ GoesOn(stage[q], chunks[q], after[q], stage'[q], chunks'[q], after'[q])
    BY DEF Goes
  <2>3. Caused(q)' = CausedBy(stage'[q], chunks'[q], after'[q])
    BY DEF Caused, CausedBy
  <2>4. /\ Caused(q)' \in Nat /\ Caused(q) <= Caused(q)'
        /\ \A i \in 1..Caused(q) : EventsOf(stage'[q], chunks'[q], after'[q])[i]
                                   = EventsOf(stage[q], chunks[q], after[q])[i]
    <3>1. \A a1, a2 \in Stages : \A k1, k2 \in Nat : \A x1, x2 \in Returns :
             GoesOn(a1, k1, x1, a2, k2, x2) =>
                /\ CausedBy(a2, k2, x2) \in Nat
                /\ CausedBy(a1, k1, x1) <= CausedBy(a2, k2, x2)
                /\ \A i \in 1..CausedBy(a1, k1, x1) :
                      EventsOf(a2, k2, x2)[i] = EventsOf(a1, k1, x1)[i]
      BY EventsAre, EventsStay
    <3>2. /\ CausedBy(stage'[q], chunks'[q], after'[q]) \in Nat
          /\ CausedBy(stage[q], chunks[q], after[q]) <= CausedBy(stage'[q], chunks'[q], after'[q])
          /\ \A i \in 1..CausedBy(stage[q], chunks[q], after[q]) :
                EventsOf(stage'[q], chunks'[q], after'[q])[i]
                   = EventsOf(stage[q], chunks[q], after[q])[i]
      BY <2>1, <2>2, <3>1
    <3>3. QED
      BY <2>1, <2>3, <3>2
  <2>5. \A i \in 1..told[q] : Events(q)'[i] = Events(q)[i]
    <3>1. \A i \in 1..told[q] : i \in 1..Caused(q)
      BY <2>1
    <3>2. Events(q)' = EventsOf(stage'[q], chunks'[q], after'[q])
      BY DEF Events, EventsOf, Ending
    <3>3. Events(q) = EventsOf(stage[q], chunks[q], after[q])
      BY DEF Events
    <3>4. QED
      BY <2>4, <3>1, <3>2, <3>3
  <2>6. after[q] # "waiting" => stage[q] = "done"
    BY DEF ToldInv
  <2>7. CASE stage'[q] = stage[q] /\ chunks'[q] = chunks[q] /\ after'[q] = after[q]
    <3>1. Caused(q)' = Caused(q)
      BY <2>1, <2>3, <2>7
    <3>2. Texts(q)' = Texts(q)
      BY <2>7 DEF Texts
    <3>3. Ended(q)' = Ended(q) /\ Failed(q)' = Failed(q)
      BY <2>7 DEF Ended, Failed
    <3>4. Over(q) => Over(q)'
      BY <3>1, <3>3 DEF Over
    <3>5. QED
      BY <2>1, <2>5, <2>7, <3>1, <3>2, <3>3, <3>4
  <2>8. CASE stage[q] = "idle"
    <3>1. told[q] = 0
      BY <2>1, <2>8 DEF CausedBy
    <3>2. ~Over(q) /\ ~Failed(q)
      BY <2>6, <2>8 DEF Over, Ended, Failed
    <3>3. Texts(q)' = Texts(q)
      BY <3>1 DEF Texts
    <3>4. QED
      BY <2>4, <2>5, <2>8, <3>1, <3>2, <3>3
  <2>9. CASE /\ stage[q] \notin {"idle", "done", "failed"} /\ stage'[q] # "idle"
             /\ chunks'[q] >= chunks[q]
    <3>1. told[q] <= chunks[q] + 1
      BY <2>1, <2>9 DEF CausedBy
    <3>2. Texts(q)' = Texts(q)
      BY <2>1, <2>2, <2>9, <3>1 DEF Texts
    <3>3. ~Over(q) /\ ~Failed(q)
      BY <2>6, <2>9 DEF Over, Ended, Failed
    <3>4. QED
      BY <2>1, <2>4, <2>5, <2>9, <3>2, <3>3
  <2>10. CASE /\ stage[q] = "done" /\ stage'[q] = "done" /\ chunks'[q] = chunks[q]
              /\ after[q] = "waiting"
    <3>1. ~Over(q) /\ ~Failed(q)
      BY <2>10 DEF Over, Ended, Failed
    <3>2. Texts(q)' = Texts(q)
      BY <2>10 DEF Texts
    <3>3. QED
      BY <2>1, <2>4, <2>5, <2>10, <3>1, <3>2
  <2>11. QED
    BY <2>2, <2>7, <2>8, <2>9, <2>10 DEF GoesOn
<1>2. ToldInv'
  BY <1>1 DEF ToldInv, Returns, Goes
<1>3. SameTold
  <2> SUFFICES ASSUME NEW q \in Runs, NEW node \in Nodes
               PROVE  /\ About(q, node)' = About(q, node)
                      /\ \A i \in About(q, node) : Events(q)'[i] = Events(q)[i]
    BY DEF SameTold
  <2>1. \A i \in 1..told[q] : Events(q)'[i] = Events(q)[i]
    BY <1>1
  <2>2. About(q, node)' = {i \in 1..told[q] : Events(q)'[i].node = node
                                             /\ Events(q)'[i].name \in DOMAIN Shown}
    BY DEF About
  <2>3. QED
    BY <2>1, <2>2 DEF About
<1>4. QED
  BY <1>1, <1>2, <1>3

(* What a picture shows of what runs told lasts as long as it is not drawn *)
(* upon and no callback is added.                                          *)
LEMMA PictureKept ==
    ASSUME DialogTypes, PictureOfRun, SameTold, subscription' = subscription,
           picture' = picture, partial' = partial,
           doubled' = doubled, listening' \subseteq listening
    PROVE  PictureOfRun'
<1> SUFFICES ASSUME subscription # NoRun, ~partial, NEW node \in Nodes
             PROVE  /\ ShowsLast(subscription, node)'
                    /\ About(subscription, node)' = {} /\ picture[node] # "idle" =>
                          (doubled \/ ~Uninterrupted') /\ ShowsOlder(subscription, node)'
  BY DEF PictureOfRun
<1>1. subscription \in Runs
  BY DEF DialogTypes
<1>2. /\ ShowsLast(subscription, node)
      /\ About(subscription, node) = {} /\ picture[node] # "idle" =>
            (doubled \/ ~Uninterrupted) /\ ShowsOlder(subscription, node)
  BY DEF PictureOfRun
<1>3. \A q \in Runs : /\ About(q, node)' = About(q, node)
                      /\ \A i \in About(q, node) : Events(q)'[i] = Events(q)[i]
  BY DEF SameTold
<1>4. ShowsLast(subscription, node)'
  BY <1>1, <1>2, <1>3 DEF ShowsLast
<1>5. ShowsOlder(subscription, node) => ShowsOlder(subscription, node)'
  BY <1>3 DEF ShowsOlder
<1>6. Uninterrupted' => Uninterrupted
  BY DEF Uninterrupted
<1>7. QED
  BY <1>1, <1>2, <1>3, <1>4, <1>5, <1>6

(* The same for every picture.                                             *)
ShowsTold(node) ==
    \/ picture[node] = "idle"
    \/ \E q \in Runs : \E i \in About(q, node) : picture[node] = Shown[Events(q)[i].name]

LEMMA ShowsToldKept ==
    ASSUME SameTold, picture' = picture, NEW node \in Nodes, ShowsTold(node)
    PROVE  ShowsTold(node)'
<1>1. \A q \in Runs : /\ About(q, node)' = About(q, node)
                      /\ \A i \in About(q, node) : Events(q)'[i] = Events(q)[i]
  BY DEF SameTold
<1>2. QED
  BY <1>1 DEF ShowsTold

(* So the dialog still shows what the runs told.                           *)
LEMMA ViewKept ==
    ASSUME AgentTypeOK, DialogInv, UNCHANGED <<dialogVars, told>>, after' \in [Runs -> Returns],
           \A q \in Runs : Goes(q) /\ (stage[q] = "idle" => stage'[q] = "idle")
    PROVE  DialogInv'
<1> USE DEF dialogVars, button, callbacks, panel, view
<1>1. /\ ToldInv'
      /\ \A q \in Runs : /\ Texts(q)' = Texts(q)
                         /\ Over(q) => Over(q)'
                         /\ stage[q] # "idle" <=> stage'[q] # "idle"
                         /\ Failed(q) => Failed(q)'
      /\ SameTold
  BY RunGoesOn DEF DialogInv
<1>2. DialogTypes /\ DialogTypes' /\ AwaitInv'
  BY DEF DialogInv, DialogTypes, AwaitInv
<1>3. ListenInv'
  BY <1>1, <1>2 DEF DialogInv, DialogTypes, ListenInv
<1>4. TextsInv'
  BY <1>1, <1>2 DEF DialogInv, DialogTypes, TextsInv
<1>5. PictureInv'
  BY <1>1, <1>2, PictureKept DEF DialogInv, PictureInv
<1>6. DrawnInv'
  <2>1. \A node \in Nodes : ShowsTold(node)'
    BY <1>1, ShowsToldKept DEF DialogInv, DrawnInv, ShowsTold
  <2>2. QED
    BY <1>1, <1>2, <2>1 DEF DialogInv, DialogTypes, DrawnInv, ShowsTold
<1>7. QED
  BY <1>1, <1>2, <1>3, <1>4, <1>5, <1>6 DEF DialogInv

(* A step of the runner: of the agent, of the node after it, or none.      *)
LEMMA RunnerMove ==
    ASSUME AgentTypeOK, DialogInv, UNCHANGED <<dialogVars, told>>,
           \/ (\E r \in Runs : Proceed(r)) /\ UNCHANGED after
           \/ \E r \in Runs : AfterReturns(r)
           \/ (\E s \in Sessions : Expire(s)) /\ UNCHANGED after
           \/ UNCHANGED <<agentVars, after>>
    PROVE  DialogInv'
<1> DEFINE Same(q) == stage'[q] = stage[q] /\ chunks'[q] = chunks[q] /\ after'[q] = after[q]
           Further(q) == /\ stage[q] \notin {"idle", "done", "failed"}
                         /\ stage'[q] \in Stages \ {"idle"}
                         /\ chunks'[q] \in Nat /\ chunks'[q] >= chunks[q]
                         /\ after[q] = "waiting" /\ after'[q] = after[q]
           Returned(q) == /\ stage[q] = "done" /\ stage'[q] = "done" /\ chunks'[q] = chunks[q]
                          /\ after[q] = "waiting"
<1>1. /\ \A q \in Runs : /\ chunks[q] \in Nat /\ stage[q] \in Stages /\ after[q] \in Returns
                         /\ after[q] # "waiting" => stage[q] = "done"
      /\ stage \in [Runs -> Stages] /\ after \in [Runs -> Returns]
  BY EventsOfRun DEF AgentTypeOK, DialogInv, ToldInv, Returns
<1>2. ASSUME NEW r \in Runs, Stream(r)
      PROVE  stage' = stage /\ stage[r] = "answering" /\ chunks' = [chunks EXCEPT ![r] = @ + 1]
  BY <1>2 DEF Stream
<1>3. ASSUME NEW r \in Runs, GetMessages(r) \/ AnswerEnds(r) \/ Fails(r) \/ Fetch(r) \/ Set(r)
      PROVE  /\ chunks' = chunks /\ stage[r] \notin {"idle", "done", "failed"}
             /\ \E next \in Stages \ {"idle"} : stage' = [stage EXCEPT ![r] = next]
  <2> USE DEF Goto, Adders, Stages
  <2>1. CASE GetMessages(r)
    BY <2>1 DEF GetMessages
  <2>2. CASE AnswerEnds(r)
    BY <2>2 DEF AnswerEnds
  <2>3. CASE Fails(r)
    BY <2>3 DEF Fails
  <2>4. CASE Fetch(r)
    BY <2>4 DEF Fetch
  <2>5. CASE Set(r)
    BY <2>5 DEF Set
  <2>6. QED
    BY <1>3, <2>1, <2>2, <2>3, <2>4, <2>5
<1>4. ASSUME (\E s \in Sessions : Expire(s)) \/ UNCHANGED agentVars
      PROVE  stage' = stage /\ chunks' = chunks
  BY <1>4 DEF Expire, agentVars
<1>5. ASSUME NEW r \in Runs, AfterReturns(r)
      PROVE  /\ stage' = stage /\ chunks' = chunks
             /\ stage[r] = "done" /\ after[r] = "waiting" /\ after' \in [Runs -> Returns]
             /\ \A q \in Runs \ {r} : after'[q] = after[q]
  <2>1. PICK how \in {"ended", "failed"} : after' = [after EXCEPT ![r] = how]
    BY <1>5 DEF AfterReturns
  <2>2. stage' = stage /\ chunks' = chunks /\ stage[r] = "done" /\ after[r] = "waiting"
    BY <1>5 DEF AfterReturns, agentVars
  <2>3. after' \in [Runs -> Returns] /\ \A q \in Runs \ {r} : after'[q] = after[q]
    BY <1>1, <2>1 DEF Returns
  <2>4. QED
    BY <2>2, <2>3
<1>6. ASSUME NEW q \in Runs PROVE Same(q) \/ Further(q) \/ Returned(q)
  <2>1. ASSUME NEW r \in Runs, Stream(r), UNCHANGED after
        PROVE  Same(q) \/ Further(q)
    <3>1. chunks'[q] = IF q = r THEN chunks[q] + 1 ELSE chunks[q]
      BY <1>2, <2>1 DEF AgentTypeOK
    <3>2. CASE q = r
      BY <1>1, <1>2, <2>1, <3>1, <3>2 DEF Stages
    <3>3. CASE q # r
      BY <1>2, <2>1, <3>1, <3>3
    <3>4. QED
      BY <3>2, <3>3
  <2>2. ASSUME NEW r \in Runs, UNCHANGED after,
               GetMessages(r) \/ AnswerEnds(r) \/ Fails(r) \/ Fetch(r) \/ Set(r)
        PROVE  Same(q) \/ Further(q)
    <3>1. PICK next \in Stages \ {"idle"} : stage' = [stage EXCEPT ![r] = next]
      BY <1>3, <2>2
    <3>2. stage'[q] = IF q = r THEN next ELSE stage[q]
      BY <1>1, <3>1
    <3>3. chunks' = chunks /\ stage[r] \notin {"idle", "done", "failed"}
      BY <1>3, <2>2
    <3>4. CASE q = r
      BY <1>1, <2>2, <3>2, <3>3, <3>4
    <3>5. CASE q # r
      BY <2>2, <3>2, <3>3, <3>5
    <3>6. QED
      BY <3>4, <3>5
  <2>3. ASSUME NEW r \in Runs, AfterReturns(r)
        PROVE  Same(q) \/ Returned(q)
    BY <1>5, <2>3
  <2>4. QED
    BY <1>4, <2>1, <2>2, <2>3 DEF Proceed
<1>7. after' \in [Runs -> Returns]
  BY <1>1, <1>5
<1>8. ASSUME NEW q \in Runs
      PROVE  Goes(q) /\ (stage[q] = "idle" => stage'[q] = "idle")
  <2>1. CASE Same(q)
    BY <1>1, <2>1 DEF Goes, GoesOn
  <2>2. CASE Further(q)
    BY <1>1, <2>2 DEF Goes, GoesOn
  <2>3. CASE Returned(q)
    BY <1>1, <2>3 DEF Goes, GoesOn
  <2>4. QED
    BY <1>6, <2>1, <2>2, <2>3
<1>9. QED
  BY <1>7, <1>8, ViewKept

-----------------------------------------------------------------------------
LEMMA Reversed ==
    ASSUME NEW S, NEW s \in Seq(S)
    PROVE  Reverse(s) \in Seq(S)
<1>1. Len(s) \in Nat /\ \A i \in 1..Len(s) : Len(s) - i + 1 \in 1..Len(s)
  OBVIOUS
<1>2. \A i \in 1..Len(s) : s[Len(s) - i + 1] \in S
  BY <1>1
<1>3. QED
  BY <1>1, <1>2 DEF Reverse

LEMMA NothingReversed == Reverse(<<>>) = <<>>
BY DEF Reverse

(* What is left of a call that waited alone.                               *)
LEMMA NoneAwaited ==
    ASSUME StartInv, NEW i \in DOMAIN awaiting
    PROVE  /\ Len(awaiting) \in Nat /\ Len(RemoveAt(awaiting, i)) = Len(awaiting) - 1
           /\ Len(awaiting) <= 1 => RemoveAt(awaiting, i) = <<>>
<1>1. awaiting \in Seq(Sessions) /\ i \in 1..Len(awaiting) /\ Len(awaiting) \in Nat
  BY DEF StartInv
<1>2. /\ SubSeq(awaiting, 1, i - 1) \in Seq(Sessions)
      /\ Len(SubSeq(awaiting, 1, i - 1)) = i - 1
      /\ SubSeq(awaiting, i + 1, Len(awaiting)) \in Seq(Sessions)
      /\ Len(SubSeq(awaiting, i + 1, Len(awaiting))) = Len(awaiting) - i
  BY <1>1, SubSeqProperties
<1>3. /\ RemoveAt(awaiting, i) \in Seq(Sessions)
      /\ Len(RemoveAt(awaiting, i)) = Len(awaiting) - 1
  <2> DEFINE front == SubSeq(awaiting, 1, i - 1)
             behind == SubSeq(awaiting, i + 1, Len(awaiting))
  <2>1. RemoveAt(awaiting, i) = front \o behind
    BY DEF RemoveAt
  <2> HIDE DEF front, behind
  <2>2. front \in Seq(Sessions) /\ behind \in Seq(Sessions)
    BY <1>2 DEF front, behind
  <2>3. front \o behind \in Seq(Sessions) /\ Len(front \o behind) = Len(front) + Len(behind)
    BY <2>2, ConcatProperties
  <2>4. Len(front) + Len(behind) = Len(awaiting) - 1
    BY SMTT(60), <1>1, <1>2 DEF front, behind
  <2>5. QED
    BY <2>1, <2>3, <2>4
<1>4. Len(awaiting) <= 1 => RemoveAt(awaiting, i) = <<>>
  <2> DEFINE rest == RemoveAt(awaiting, i)
  <2> HIDE DEF rest
  <2>1. rest \in Seq(Sessions) /\ Len(rest) = Len(awaiting) - 1
    BY <1>3 DEF rest
  <2>2. Len(awaiting) <= 1 => rest = <<>>
    BY <1>1, <2>1
  <2>3. QED
    BY <2>2 DEF rest
<1>5. QED
  BY <1>1, <1>3, <1>4

(* The user's clicks, and a click whose token does not come.               *)
LEMMA UserMove ==
    ASSUME AgentTypeOK, StartInv, DialogInv, UNCHANGED <<agentVars, after, told>>,
           User \/ \E i \in DOMAIN awaiting : NoToken(i)
    PROVE  DialogInv'
<1> USE DEF button, callbacks, panel, view
<1>1. stage' = stage /\ chunks' = chunks /\ told' = told /\ after' = after
  BY DEF agentVars
<1>2. ToldInv' /\ SameTold
  <2>1. after' \in [Runs -> Returns] /\ \A q \in Runs : Goes(q)
    BY <1>1, EventsOfRun DEF DialogInv, ToldInv, Goes, GoesOn, Returns
  <2>2. QED
    BY <1>1, <2>1, RunGoesOn DEF DialogInv
<1>3. \A q \in Runs : /\ Texts(q)' = Texts(q) /\ Over(q)' = Over(q)
                      /\ Failed(q)' = Failed(q)
  BY <1>1 DEF Texts, Over, Ended, Failed, Caused
<1>4. DialogTypes /\ AwaitInv /\ ListenInv /\ TextsInv /\ DrawnInv /\ PictureInv
  BY DEF DialogInv
<1>12. ASSUME picture' = picture PROVE \A node \in Nodes : ShowsTold(node)'
  BY <1>2, <1>4, <1>12, ShowsToldKept DEF DrawnInv, ShowsTold
<1>5. ASSUME TestFlow PROVE DialogInv'
  <2>1. DialogTypes'
    <3>1. Idle \in [Nodes -> Statuses]
      BY DEF Idle, Statuses
    <3>2. QED
      BY <1>4, <1>5, <3>1 DEF TestFlow, Attach, DialogTypes
  <2>2. AwaitInv'
    <3>1. awaiting' = Append(awaiting, sessionId) /\ isRunning' = FALSE
          /\ doubled' = (doubled \/ awaiting # <<>>)
      BY <1>4, <1>5 DEF TestFlow, DialogTypes
    <3>2. ASSUME awaiting = <<>> PROVE Len(Append(awaiting, sessionId)) <= 1
      BY <3>2
    <3>3. QED
      BY <1>4, <3>1, <3>2 DEF AwaitInv
  <2>3. ListenInv' /\ TextsInv'
    BY <1>1, <1>3, <1>4, <1>5 DEF TestFlow, ListenInv, TextsInv, DialogTypes
  <2>4. PictureInv'
    BY <1>5 DEF TestFlow, PictureInv, PictureOfRun
  <2>5. DrawnInv'
    BY <1>1, <1>4, <1>5 DEF TestFlow, DrawnInv, Idle
  <2>6. QED
    BY <1>2, <2>1, <2>2, <2>3, <2>4, <2>5 DEF DialogInv
<1>6. ASSUME Stop PROVE DialogInv'
  <2>1. DialogTypes' /\ AwaitInv'
    BY <1>4, <1>6 DEF Stop, Unsubscribe, DialogTypes, AwaitInv
  <2>2. /\ listening' = listening \ {subscription} /\ isRunning' = FALSE
        /\ subscription' = subscription /\ doubled' = doubled
    BY <1>4, <1>6 DEF Stop, Unsubscribe, ListenInv
  <2>3. ListenInv'
    BY <1>1, <1>3, <1>4, <2>2 DEF ListenInv, DialogTypes
  <2>4. TextsInv'
    BY <1>1, <1>3, <1>4, <1>6, <2>2 DEF Stop, TextsInv, DialogTypes
  <2>5. PictureInv'
    <3>1. PictureOfRun'
      BY <1>2, <1>4, <1>6, <2>2, PictureKept DEF Stop, PictureInv
    <3>2. QED
      BY <1>4, <1>6, <3>1 DEF Stop, PictureInv
  <2>6. DrawnInv'
    <3>1. picture' = picture /\ awaiting' = awaiting
      BY <1>6 DEF Stop
    <3>2. QED
      BY <1>1, <1>4, <1>12, <2>2, <3>1 DEF DrawnInv, ShowsTold
  <2>7. QED
    BY <1>2, <2>1, <2>3, <2>4, <2>5, <2>6 DEF DialogInv
<1>7. ASSUME Close PROVE DialogInv'
  <2>1. DialogTypes'
    <3>1. /\ Idle \in [Nodes -> Statuses]
          /\ <<>> \in Seq([run : Runs, number : Nat])
      BY DEF Idle, Statuses
    <3>2. QED
      BY <1>4, <1>7, <3>1 DEF Close, Unsubscribe, DialogTypes
  <2>2. AwaitInv'
    BY <1>4, <1>7 DEF Close, AwaitInv
  <2>3. /\ listening' \subseteq listening /\ subscription \notin listening' /\ isRunning' = FALSE
        /\ subscription' = subscription /\ doubled' = doubled
    BY <1>4, <1>7 DEF Close, Unsubscribe, ListenInv
  <2>4. ListenInv'
    BY <1>1, <1>3, <1>4, <2>3 DEF ListenInv, DialogTypes
  <2>5. TextsInv'
    BY <1>1, <1>3, <1>4, <1>7, <2>3 DEF Close, TextsInv
  <2>6. PictureInv'
    BY <1>7 DEF Close, PictureInv, PictureOfRun
  <2>7. DrawnInv'
    BY <1>1, <1>4, <1>7 DEF Close, DrawnInv, Idle
  <2>8. QED
    BY <1>2, <2>1, <2>2, <2>4, <2>5, <2>6, <2>7 DEF DialogInv
<1>8. ASSUME Open PROVE DialogInv'
  <2>1. partial' = TRUE
    BY <1>4, <1>8 DEF Open, PictureInv, DialogTypes
  <2>2. DialogTypes' /\ AwaitInv'
    BY <1>4, <1>8 DEF Open, Attach, DialogTypes, AwaitInv
  <2>3. ListenInv' /\ TextsInv'
    BY <1>1, <1>3, <1>4, <1>8 DEF Open, ListenInv, TextsInv, DialogTypes
  <2>4. PictureInv'
    BY <2>1 DEF PictureInv, PictureOfRun
  <2>5. DrawnInv'
    <3>1. UNCHANGED <<picture, awaiting, doubled, subscription, listening>>
      BY <1>8 DEF Open
    <3>2. QED
      BY <1>1, <1>4, <1>12, <3>1 DEF DrawnInv, ShowsTold
  <2>6. QED
    BY <1>2, <2>2, <2>3, <2>4, <2>5 DEF DialogInv
<1>9. ASSUME SwitchPane PROVE DialogInv'
  <2>1. results \in Seq([run : Runs, number : Nat])
    BY <1>4 DEF DialogTypes
  <2>2. /\ results' \in Seq([run : Runs, number : Nat])
        /\ ~shuffled' => ~shuffled /\ results' = results
    <3> DEFINE S == [run : Runs, number : Nat]
    <3> HIDE DEF S
    <3>1. results \in Seq(S)
      BY <2>1 DEF S
    <3>2. Reverse(results) \in Seq(S) /\ Reverse(<<>>) = <<>>
      BY <3>1, Reversed, NothingReversed
    <3>3. results' \in Seq(S) /\ (~shuffled' => ~shuffled /\ results' = results)
      BY <1>4, <1>9, <3>1, <3>2 DEF SwitchPane, DialogTypes
    <3>4. QED
      BY <3>3 DEF S
  <2>3. DialogTypes' /\ AwaitInv'
    BY <1>4, <1>9, <2>2 DEF SwitchPane, DialogTypes, AwaitInv
  <2>4. ListenInv'
    BY <1>1, <1>3, <1>4, <1>9 DEF SwitchPane, ListenInv, DialogTypes
  <2>5. TextsInv'
    BY <1>1, <1>3, <1>4, <1>9, <2>2 DEF SwitchPane, TextsInv, DialogTypes
  <2>6. UNCHANGED <<open, picture, partial, attached, awaiting, doubled, subscription, listening>>
    BY <1>9 DEF SwitchPane
  <2>7. PictureInv'
    BY <1>2, <1>4, <2>6, PictureKept DEF PictureInv
  <2>8. DrawnInv'
    BY <1>1, <1>4, <1>12, <2>6 DEF DrawnInv, ShowsTold
  <2>9. QED
    BY <1>2, <2>3, <2>4, <2>5, <2>7, <2>8 DEF DialogInv
<1>10. ASSUME ResetSession \/ \E i \in DOMAIN awaiting : NoToken(i) PROVE DialogInv'
  <2>1. /\ UNCHANGED <<open, isRunning, doubled, flowError, callbacks, panel, view>>
    BY <1>10 DEF ResetSession, NoToken
  <2>2. AwaitInv'
    <3>1. CASE ResetSession
      BY <1>4, <3>1 DEF ResetSession, AwaitInv
    <3>2. CASE \E i \in DOMAIN awaiting : NoToken(i)
      <4>1. PICK i \in DOMAIN awaiting : awaiting' = RemoveAt(awaiting, i)
        BY <3>2 DEF NoToken
      <4>2. /\ Len(awaiting) \in Nat /\ Len(awaiting') = Len(awaiting) - 1
            /\ Len(awaiting) <= 1 => awaiting' = <<>>
        BY <4>1, NoneAwaited
      <4>3. QED
        BY <1>4, <2>1, <4>2 DEF AwaitInv
    <3>3. QED
      BY <1>10, <3>1, <3>2
  <2>3. DialogTypes' /\ ListenInv' /\ TextsInv'
    BY <1>1, <1>3, <1>4, <2>1 DEF DialogTypes, ListenInv, TextsInv
  <2>4. PictureInv'
    BY <1>2, <1>4, <2>1, PictureKept DEF PictureInv
  <2>5. awaiting' # <<>> => awaiting # <<>>
    <3>1. CASE ResetSession
      BY <3>1 DEF ResetSession
    <3>2. CASE \E i \in DOMAIN awaiting : NoToken(i)
      BY <3>2
    <3>3. QED
      BY <1>10, <3>1, <3>2
  <2>6. DrawnInv'
    BY <1>1, <1>4, <1>12, <2>1, <2>5 DEF DrawnInv, ShowsTold
  <2>7. QED
    BY <1>2, <2>2, <2>3, <2>4, <2>6 DEF DialogInv
<1>11. QED
  BY <1>5, <1>6, <1>7, <1>8, <1>9, <1>10 DEF User

(* A run is started.                                                       *)
LEMMA StartMove ==
    ASSUME AgentTypeOK, StartInv, DialogInv, NEW r \in Runs, NEW i \in DOMAIN awaiting, Start(r, i)
    PROVE  DialogInv'
<1> USE DEF button, callbacks, panel, view
<1>1. DialogTypes /\ ToldInv /\ AwaitInv /\ ListenInv /\ TextsInv /\ DrawnInv /\ PictureInv
  BY DEF DialogInv
<1>2. /\ stage[r] = "idle" /\ stage'[r] = "recalling" /\ told' = told /\ chunks' = chunks
      /\ after' = after
      /\ \A q \in Runs \ {r} : stage'[q] = stage[q]
      /\ \A q \in Runs : chunks[q] \in Nat /\ told[q] \in Nat
  <2>1. /\ stage[r] = "idle" /\ stage' = [stage EXCEPT ![r] = "recalling"]
        /\ told' = told /\ chunks' = chunks /\ after' = after
    BY DEF Start, Execute, Goto
  <2>2. stage \in [Runs -> Stages] /\ told \in [Runs -> Nat]
    BY <1>1 DEF AgentTypeOK, ToldInv
  <2>3. \A q \in Runs : chunks[q] \in Nat
    BY <1>1, EventsOfRun
  <2>4. QED
    BY <2>1, <2>2, <2>3
<1>3. told[r] = 0 /\ Texts(r)' = 0
  BY <1>1, <1>2 DEF ToldInv, Caused, Texts
<1>4. \A q \in Runs \ {r} : Over(q)' = Over(q)
  BY <1>2 DEF Texts, Caused, Over, Ended, Failed
<1>5. /\ results' = <<>> /\ shuffled' = FALSE /\ reversing' = reversing
      /\ flowError' = FALSE /\ isRunning' = TRUE
      /\ subscription' = r /\ unsubscribes' = r /\ listening' = listening \cup {r}
      /\ attached' = (IF open THEN {r} ELSE {}) /\ partial' = ~open
      /\ UNCHANGED <<open, doubled, picture>>
      /\ awaiting' = RemoveAt(awaiting, i)
  <2>1. Reverse(<<>>) = <<>>
    BY NothingReversed
  <2>2. QED
    BY <2>1 DEF Start, StartRun, ShowResults, AttachRun
<1>6. ToldInv' /\ SameTold
  <2>1. after' \in [Runs -> Returns]
    BY <1>1, <1>2 DEF ToldInv, Returns
  <2>2. ASSUME NEW q \in Runs PROVE Goes(q)
    <3>1. /\ stage[q] \in Stages /\ chunks[q] \in Nat
          /\ after[q] # "waiting" => stage[q] = "done"
      BY <1>1, EventsOfRun DEF ToldInv
    <3>2. CASE q = r
      BY <1>2, <3>1, <3>2 DEF Goes, GoesOn, Stages
    <3>3. CASE q # r
      BY <1>2, <3>1, <3>3 DEF Goes, GoesOn
    <3>4. QED
      BY <3>2, <3>3
  <2>3. QED
    BY <1>1, <1>2, <2>1, <2>2, RunGoesOn
<1>7. DialogTypes'
  <2>1. <<>> \in Seq([run : Runs, number : Nat])
    OBVIOUS
  <2>2. r # NoRun
    BY SessionAssumption
  <2>3. QED
    BY <1>1, <1>5, <2>1, <2>2 DEF DialogTypes
<1>8. AwaitInv'
  <2>1. Len(awaiting) <= 1 => awaiting' = <<>>
    BY <1>5, NoneAwaited
  <2>2. awaiting' = <<>> => Len(awaiting') <= 1
    OBVIOUS
  <2>3. QED
    BY <1>1, <1>5, <2>1, <2>2 DEF AwaitInv
<1>9. ListenInv'
  <2>1. \A q \in listening' : stage'[q] # "idle"
    BY <1>1, <1>2, <1>5 DEF ListenInv, DialogTypes
  <2>2. ASSUME ~doubled', NEW q \in listening'
        PROVE  Over(q)' \/ (isRunning' /\ q = subscription')
    <3>1. ~doubled /\ ~isRunning
      <4>1. ~doubled
        BY <1>5, <2>2
      <4>2. awaiting # <<>>
        OBVIOUS
      <4>3. QED
        BY <1>1, <4>1, <4>2 DEF AwaitInv
    <3>2. CASE q = r
      BY <1>5, <3>2
    <3>3. CASE q # r
      <4>1. q \in listening /\ q \in Runs
        BY <1>1, <1>5, <3>3 DEF DialogTypes
      <4>2. Over(q)
        BY <1>1, <3>1, <4>1 DEF ListenInv
      <4>3. QED
        BY <1>4, <3>3, <4>1, <4>2
    <3>4. QED
      BY <3>2, <3>3
  <2>3. QED
    BY <1>5, <2>1, <2>2 DEF ListenInv
<1>10. TextsInv'
  <2>1. DOMAIN results' = {} /\ Len(results') = 0
    BY <1>5
  <2>2. Texts(r)' = 0
    BY <1>3
  <2>3. QED
    BY <1>5, <2>1, <2>2 DEF TextsInv
<1>11. \A q \in Runs : stage[q] # "idle" => q < r
  <2>1. ASSUME NEW q \in Runs, stage[q] # "idle" PROVE q < r
    <3>1. q # r /\ ~(r < q)
      BY <1>1, <1>2, <2>1 DEF DrawnInv
    <3>2. q \in Nat /\ r \in Nat
      BY RunsAssumption
    <3>3. QED
      BY <3>1, <3>2
  <2>2. QED
    BY <2>1
<1>12. \A node \in Nodes : ShowsTold(node) /\ ShowsTold(node)'
  BY <1>1, <1>5, <1>6, ShowsToldKept DEF DrawnInv, ShowsTold
<1>13. DrawnInv'
  <2>1. \A q, p \in Runs : p < q /\ stage'[q] # "idle" => stage'[p] # "idle"
    <3>1. ASSUME NEW q \in Runs, NEW p \in Runs, p < q, stage'[q] # "idle"
          PROVE  stage'[p] # "idle"
      <4>1. CASE q = r
        BY <1>2, <3>1, <4>1 DEF Start
      <4>2. CASE q # r
        BY <1>1, <1>2, <3>1, <4>2 DEF DrawnInv
      <4>3. QED
        BY <4>1, <4>2
    <3>2. QED
      BY <3>1
  <2>2. ~doubled' => awaiting' = <<>>
    BY <1>1, <1>5, NoneAwaited DEF AwaitInv
  <2>3. stage'[subscription'] # "idle"
    BY <1>2, <1>5
  <2>4. QED
    BY <1>12, <2>1, <2>2, <2>3 DEF DrawnInv, ShowsTold
<1>14. PictureInv'
  <2>1. (open \/ partial)' /\ (~partial' => attached' = {r})
    BY <1>1, <1>5 DEF DialogTypes
  <2>2. ASSUME NEW node \in Nodes
        PROVE  ShowsLast(r, node)'
    <3>1. told'[r] = 0
      BY <1>2, <1>3
    <3>2. QED
      BY <3>1 DEF ShowsLast, About
  <2>3. ASSUME NEW node \in Nodes, picture[node] # "idle"
        PROVE  (doubled' \/ ~Uninterrupted') /\ ShowsOlder(r, node)'
    <3>1. PICK q \in Runs : \E i1 \in About(q, node) :
                                picture[node] = Shown[Events(q)[i1].name]
      BY <1>12, <2>3 DEF ShowsTold
    <3>2. q < r
      <4>1. told[q] # 0
        BY <3>1 DEF About
      <4>2. stage[q] # "idle"
        BY <1>1, <1>2, <4>1 DEF ToldInv, Caused
      <4>3. QED
        BY <1>11, <4>2
    <3>3. /\ About(q, node)' = About(q, node)
          /\ \A i1 \in About(q, node) : Events(q)'[i1] = Events(q)[i1]
      BY <1>6 DEF SameTold
    <3>4. ShowsOlder(r, node)'
      BY <1>5, <3>1, <3>2, <3>3 DEF ShowsOlder
    <3>5. ASSUME ~doubled', Uninterrupted' PROVE FALSE
      <4>1. ~doubled /\ awaiting # <<>>
        BY <1>5, <3>5
      <4>2. picture # Idle
        BY <2>3 DEF Idle
      <4>3. subscription \in Runs /\ subscription \notin listening
        BY <1>1, <4>1, <4>2 DEF DrawnInv, DialogTypes
      <4>4. subscription # NoRun
        BY <4>3, SessionAssumption
      <4>5. subscription < r
        BY <1>1, <1>11, <4>3, <4>4 DEF DrawnInv
      <4>6. subscription \in listening \cup {r}
        BY <1>5, <3>5, <4>3, <4>5 DEF Uninterrupted
      <4>7. subscription # r
        BY <4>5, RunsAssumption
      <4>8. QED
        BY <4>3, <4>6, <4>7
    <3>6. QED
      BY <3>4, <3>5
  <2>4. PictureOfRun'
    BY <1>5, <2>2, <2>3 DEF PictureOfRun
  <2>5. QED
    BY <1>5, <2>1, <2>4 DEF PictureInv
<1>15. QED
  BY <1>6, <1>7, <1>8, <1>9, <1>10, <1>13, <1>14 DEF DialogInv

(* An event is delivered. Unless starts overlapped, a run that is listened *)
(* to and has not told its end is the one that was started last.           *)
LEMMA DeliverMove ==
    ASSUME AgentTypeOK, StartInv, DialogInv, NEW r \in Runs, Deliver(r)
    PROVE  DialogInv'
<1> DEFINE n == told[r] + 1
           k == chunks[r]
           event == Events(r)[n]
<1> USE DEF button, callbacks, panel, view
<1>1. DialogTypes /\ ToldInv /\ AwaitInv /\ ListenInv /\ TextsInv /\ DrawnInv /\ PictureInv
  BY DEF DialogInv
<1>2. stage' = stage /\ chunks' = chunks /\ after' = after
  BY DEF Deliver, agentVars
<1>3. /\ told'[r] = n /\ \A q \in Runs \ {r} : told'[q] = told[q]
      /\ told' \in [Runs -> Nat] /\ told[r] \in Nat /\ k \in Nat
      /\ n \in 1..Caused(r) /\ Caused(r) \in Nat
      /\ told[r] < Caused(r)
  <2>1. told[r] \in Nat /\ told' = [told EXCEPT ![r] = @ + 1] /\ told \in [Runs -> Nat]
    BY <1>1 DEF Deliver, ToldInv
  <2>2. told[r] < Caused(r) /\ Caused(r) \in Nat /\ k \in Nat
    BY <1>1, EventsOfRun DEF Deliver
  <2>3. QED
    BY <2>1, <2>2
<1>4. Hear(r, n, event)
  BY <1>3 DEF Deliver
<1>5. /\ event.name = "flowResultStream" <=> n \in 2..(k + 1)
      /\ Finishes(event) => n = Caused(r) /\ Ended(r)
      /\ event.name = "flowFail" => Failed(r)
      /\ event.node \in Nodes
      /\ event.name \in DOMAIN Shown => Shown[event.name] \in Statuses \ {"idle"}
  BY <1>1, <1>3, EventFacts
<1> HIDE DEF event, n, k
<1>6. UNCHANGED <<open, sessionId, clicks, awaiting, doubled, callbacks, attached, partial>>
  BY <1>4 DEF Hear
<1>7. ToldInv'
  BY <1>1, <1>2, <1>3 DEF ToldInv, Caused
<1>8. \A q \in Runs \ {r} : Texts(q)' = Texts(q) /\ Over(q)' = Over(q)
  BY <1>2, <1>3 DEF Texts, Over, Ended, Failed, Caused
<1>9. ~Over(r)
  BY <1>3 DEF Over
<1>10. r \in listening /\ ~doubled => isRunning /\ r = subscription
  BY <1>1, <1>9 DEF ListenInv
<1>11. /\ isRunning' = (isRunning /\ ~(r \in listening /\ Finishes(event)))
       /\ flowError' = (flowError \/ (r \in listening /\ event.name = "flowFail"))
  BY <1>4 DEF Hear
<1>12. Finishes(event) => Over(r)'
  BY <1>2, <1>3, <1>5 DEF Over, Ended, Failed, Caused
<1>13. ASSUME ~(r \in listening /\ event.name = "flowResultStream")
       PROVE  UNCHANGED panel
  BY <1>4, <1>13 DEF Hear
<1>14. ASSUME r \in listening, event.name = "flowResultStream"
       PROVE  /\ LET list == Append(results, [run |-> r, number |-> n]) IN
                 /\ results' = IF reversing THEN Reverse(list) ELSE list
                 /\ shuffled' = (list # <<>> /\ (shuffled \/ reversing))
              /\ reversing' = reversing
  BY <1>4, <1>14 DEF Hear, ShowResults
<1>15. DialogTypes'
  <2>1. /\ results' \in Seq([run : Runs, number : Nat]) /\ shuffled' \in BOOLEAN
        /\ reversing' \in BOOLEAN
    <3> DEFINE S == [run : Runs, number : Nat]
               one == [run |-> r, number |-> n]
               list == Append(results, one)
    <3>1. one \in S
      BY <1>3
    <3> HIDE DEF one
    <3>2. results \in Seq(S)
      BY <1>1 DEF DialogTypes
    <3> HIDE DEF S
    <3>3. list \in Seq(S)
      BY <3>1, <3>2, AppendProperties
    <3>4. Reverse(list) \in Seq(S)
      BY <3>3, Reversed
    <3>5. CASE r \in listening /\ event.name = "flowResultStream"
      BY <1>1, <1>14, <3>3, <3>4, <3>5 DEF S, one, DialogTypes
    <3>6. CASE ~(r \in listening /\ event.name = "flowResultStream")
      BY <1>1, <1>13, <3>2, <3>6 DEF S, DialogTypes
    <3>7. QED
      BY <3>5, <3>6 DEF S
  <2>2. picture' \in [Nodes -> Statuses]
    <3>1. CASE r \in attached /\ event.name \in DOMAIN Shown
      <4>1. picture' = [picture EXCEPT ![event.node] = Shown[event.name]]
        BY <1>4, <3>1 DEF Hear
      <4>2. Shown[event.name] \in Statuses
        BY <1>5, <3>1
      <4>3. QED
        BY <1>1, <4>1, <4>2 DEF DialogTypes
    <3>2. CASE ~(r \in attached /\ event.name \in DOMAIN Shown)
      BY <1>1, <1>4, <3>2 DEF Hear, DialogTypes
    <3>3. QED
      BY <3>1, <3>2
  <2>3. {isRunning', flowError'} \subseteq BOOLEAN
    BY <1>11
  <2>4. QED
    BY <1>1, <1>6, <2>1, <2>2, <2>3 DEF DialogTypes
<1>16. AwaitInv'
  BY <1>1, <1>6, <1>11 DEF AwaitInv
<1>17. ListenInv'
  <2>1. ASSUME ~doubled', NEW q \in listening'
        PROVE  Over(q)' \/ (isRunning' /\ q = subscription')
    <3>1. ~doubled /\ q \in listening /\ q \in Runs /\ subscription' = subscription
      BY <1>1, <1>6, <2>1 DEF DialogTypes
    <3>2. CASE q = r
      BY <1>10, <1>11, <1>12, <3>1, <3>2
    <3>3. CASE q # r
      <4>1. CASE Over(q)
        BY <1>8, <3>1, <3>3, <4>1
      <4>2. CASE isRunning /\ q = subscription
        <5>1. r \notin listening
          BY <1>10, <3>1, <3>3, <4>2
        <5>2. QED
          BY <1>11, <3>1, <4>2, <5>1
      <4>3. QED
        BY <1>1, <3>1, <4>1, <4>2 DEF ListenInv
    <3>4. QED
      BY <3>2, <3>3
  <2>2. \A q \in listening' : stage'[q] # "idle"
    BY <1>1, <1>2, <1>6 DEF ListenInv
  <2>3. subscription' \in listening' \/ isRunning' => unsubscribes' = subscription'
    BY <1>1, <1>6, <1>11 DEF ListenInv
  <2>4. QED
    BY <2>1, <2>2, <2>3 DEF ListenInv
<1>18. ASSUME ~doubled' PROVE TextsInv'
  <2>1. ~doubled /\ subscription' = subscription /\ listening' = listening /\ ~doubled'
    BY <1>6, <1>18
  <2>2. subscription \in listening => subscription \in Runs
    BY <1>1 DEF DialogTypes
  <2>3. flowError' => subscription \in Runs /\ Failed(subscription)'
    <3>1. \A q \in Runs : Failed(q)' = Failed(q)
      BY <1>2 DEF Failed
    <3>2. CASE flowError
      BY <1>1, <2>1, <3>1, <3>2 DEF TextsInv
    <3>3. CASE r \in listening /\ event.name = "flowFail"
      BY <1>5, <1>10, <2>1, <3>1, <3>3
    <3>4. QED
      BY <1>11, <3>2, <3>3
  <2>4. CASE r \in listening /\ event.name = "flowResultStream"
    <3>1. r = subscription /\ n \in 2..(k + 1)
      BY <1>5, <1>10, <2>1, <2>4
    <3>2. told[r] # 0 /\ told[r] - 1 <= k /\ told[r] - 1 = n - 2 /\ n - 1 <= k /\ n # 0
      BY <1>3, <3>1 DEF n
    <3>3. Texts(r) = n - 2 /\ Texts(r)' = n - 1
      BY <1>2, <1>3, <3>2 DEF Texts, k
    <3>4. ASSUME ~shuffled'
          PROVE  /\ \A i \in DOMAIN results' : results'[i] = [run |-> r, number |-> i + 1]
                 /\ Len(results') = Texts(r)'
      <4> DEFINE S == [run : Runs, number : Nat]
                 one == [run |-> r, number |-> n]
                 list == Append(results, one)
      <4>1. one \in S
        BY <1>3
      <4>2. results \in Seq(S)
        BY <1>1 DEF DialogTypes
      <4> HIDE DEF one, S
      <4>3. /\ list \in Seq(S) /\ Len(list) = Len(results) + 1 /\ Len(results) \in Nat
            /\ \A i \in 1..Len(results) : list[i] = results[i]
            /\ list[Len(results) + 1] = one
        BY <4>1, <4>2, AppendProperties
      <4>4. list # <<>>
        BY <4>3
      <4>5. ~shuffled /\ results' = list
        BY <1>1, <1>14, <2>4, <3>4, <4>4 DEF one, DialogTypes
      <4>6. /\ \A i \in DOMAIN results : results[i] = [run |-> r, number |-> i + 1]
            /\ Len(results) = n - 2
        BY <1>1, <2>1, <2>4, <3>1, <3>3, <4>5 DEF TextsInv
      <4>7. one = [run |-> r, number |-> Len(results) + 2]
        BY <3>1, <4>6 DEF one
      <4>8. DOMAIN results = 1..Len(results) /\ DOMAIN list = 1..(Len(results) + 1)
        BY <4>2, <4>3
      <4> HIDE DEF list
      <4>9. ASSUME NEW i \in DOMAIN list PROVE list[i] = [run |-> r, number |-> i + 1]
        <5>1. CASE i \in 1..Len(results)
          BY <4>3, <4>6, <4>8, <5>1
        <5>2. CASE i = Len(results) + 1
          <6>1. i + 1 = Len(results) + 2
            BY <4>3, <5>2
          <6>2. QED
            BY <4>3, <4>7, <5>2, <6>1
        <5>3. QED
          BY <4>3, <4>8, <5>1, <5>2
      <4>10. Len(list) = n - 1
        BY <3>1, <4>3, <4>6
      <4>11. QED
        BY <3>3, <4>5, <4>9, <4>10
    <3>5. QED
      BY <1>2, <2>1, <2>3, <3>1, <3>4 DEF TextsInv
  <2>5. CASE ~(r \in listening /\ event.name = "flowResultStream")
    <3>1. results' = results /\ shuffled' = shuffled
      BY <1>13, <2>5
    <3>2. ASSUME subscription \in listening PROVE Texts(subscription)' = Texts(subscription)
      <4>1. CASE subscription = r
        <5>1. n \notin 2..(k + 1)
          BY <1>5, <2>5, <3>2, <4>1
        <5>2. told[r] = n - 1 /\ (n = 1 \/ n >= k + 2)
          BY <1>3, <5>1 DEF n
        <5>3. told[r] = 0 \/ told[r] >= k + 1
          BY <1>3, <5>2
        <5>4. QED
          BY <1>2, <1>3, <2>1, <4>1, <5>2, <5>3 DEF Texts, k
      <4>2. CASE subscription # r
        BY <1>8, <2>1, <2>2, <3>2, <4>2
      <4>3. QED
        BY <4>1, <4>2
    <3>3. QED
      BY <1>1, <1>2, <2>1, <2>3, <3>1, <3>2 DEF TextsInv
  <2>6. QED
    BY <2>4, <2>5
<1>19. /\ \A q \in Runs : Events(q)' = Events(q)
       /\ \A q \in Runs \ {r}, node \in Nodes : About(q, node)' = About(q, node)
       /\ \A node \in Nodes : About(r, node) \subseteq About(r, node)'
       /\ \A node \in Nodes : /\ About(r, node)' \subseteq 1..n
                              /\ event.name \in DOMAIN Shown /\ event.node = node =>
                                     n \in About(r, node)'
                              /\ ~(event.name \in DOMAIN Shown /\ event.node = node) =>
                                     About(r, node)' = About(r, node)
  <2>1. \A q \in Runs : Events(q)' = Events(q)
    BY <1>2 DEF Events, EventsOf, Ending
  <2>2. \A q \in Runs \ {r}, node \in Nodes : About(q, node)' = About(q, node)
    BY <1>3, <2>1 DEF About
  <2>3. 1..told'[r] = (1..told[r]) \cup {n}
    BY <1>3 DEF n
  <2>4. \A node \in Nodes :
           About(r, node)' = About(r, node) \cup
              (IF event.name \in DOMAIN Shown /\ event.node = node THEN {n} ELSE {})
    BY <2>1, <2>3 DEF About, event
  <2>5. \A node \in Nodes : About(r, node)' \subseteq 1..n
    BY <1>3 DEF About
  <2>6. QED
    BY <1>5, <2>1, <2>2, <2>4, <2>5
<1>20. \A node \in Nodes :
          \/ picture'[node] = picture[node]
          \/ /\ r \in attached /\ event.name \in DOMAIN Shown /\ event.node = node
             /\ picture'[node] = Shown[event.name]
  BY <1>1, <1>4, <1>5 DEF Hear, DialogTypes
<1>21. \A node \in Nodes : r \in attached /\ event.name \in DOMAIN Shown /\ event.node = node =>
          picture'[node] = Shown[event.name]
  BY <1>1, <1>4, <1>5 DEF Hear, DialogTypes
<1>22. ASSUME NEW node \in Nodes PROVE ShowsTold(node)'
  <2>1. CASE picture'[node] = picture[node]
    BY <1>1, <1>19, <2>1 DEF DrawnInv, ShowsTold
  <2>2. CASE event.name \in DOMAIN Shown /\ event.node = node
             /\ picture'[node] = Shown[event.name]
    <3>1. n \in About(r, node)' /\ Events(r)'[n] = event
      BY <1>19, <2>2 DEF event
    <3>2. QED
      BY <2>2, <3>1 DEF ShowsTold
  <2>3. QED
    BY <1>20, <2>1, <2>2
<1>23. DrawnInv'
  <2>1. ASSUME ~doubled', awaiting' # <<>>, subscription' \in listening' \cup {NoRun}
        PROVE  picture' = Idle
    <3>1. /\ ~doubled /\ awaiting # <<>> /\ subscription \in listening \cup {NoRun}
          /\ ~isRunning
      BY <1>1, <1>6, <2>1 DEF AwaitInv
    <3>2. r \notin attached
      <4>1. r \in attached => r = subscription /\ r # NoRun
        BY <1>1 DEF DialogTypes
      <4>2. QED
        BY <1>10, <3>1, <4>1
    <3>3. picture' = picture
      BY <1>4, <3>2 DEF Hear
    <3>4. QED
      BY <1>1, <3>1, <3>3 DEF DrawnInv
  <2>2. QED
    BY <1>1, <1>2, <1>6, <1>22, <2>1 DEF DrawnInv, ShowsTold
<1>24. PictureInv'
  <2>1. (open \/ partial)' /\ (~partial' /\ subscription' # NoRun => attached' = {subscription'})
    BY <1>1, <1>6 DEF PictureInv
  <2>2. ASSUME ~partial', subscription' # NoRun, NEW node \in Nodes
        PROVE  /\ ShowsLast(subscription, node)'
               /\ About(subscription, node)' = {} /\ picture'[node] # "idle" =>
                     (doubled' \/ ~Uninterrupted') /\ ShowsOlder(subscription, node)'
    <3> DEFINE s == subscription
    <3>1. /\ s \in Runs /\ attached = {s} /\ subscription' = s
          /\ ShowsLast(s, node)
          /\ About(s, node) = {} /\ picture[node] # "idle" =>
                (doubled \/ ~Uninterrupted) /\ ShowsOlder(s, node)
      BY <1>1, <1>6, <2>2 DEF DialogTypes, PictureInv, PictureOfRun
    <3>2. doubled' = doubled /\ (Uninterrupted' => Uninterrupted)
      BY <1>6 DEF Uninterrupted
    <3>3. CASE r = s /\ event.name \in DOMAIN Shown /\ event.node = node
      <4>1. n \in About(s, node)' /\ picture'[node] = Shown[event.name]
        BY <1>19, <1>21, <3>1, <3>3
      <4>2. \A i \in About(s, node)' : n <= i => i = n
        BY <1>3, <1>19, <3>1, <3>3
      <4>3. Events(s)'[n] = event
        BY <1>19, <3>1, <3>3 DEF event
      <4>4. ShowsLast(s, node)'
        BY <3>1, <4>1, <4>2, <4>3 DEF ShowsLast
      <4>5. QED
        BY <3>1, <4>1, <4>4
    <3>4. CASE ~(r = s /\ event.name \in DOMAIN Shown /\ event.node = node)
      <4>1. picture'[node] = picture[node]
        BY <1>20, <3>1, <3>4
      <4>2. About(s, node)' = About(s, node) /\ Events(s)' = Events(s)
        BY <1>19, <3>1, <3>4
      <4>3. ShowsLast(s, node)'
        BY <3>1, <4>1, <4>2 DEF ShowsLast
      <4>4. ShowsOlder(s, node) => ShowsOlder(s, node)'
        <5>1. \A q \in Runs : About(q, node) \subseteq About(q, node)' /\ Events(q)' = Events(q)
          BY <1>19
        <5>2. QED
          BY <3>1, <4>1, <5>1 DEF ShowsOlder
      <4>5. QED
        BY <3>1, <3>2, <4>1, <4>2, <4>3, <4>4
    <3>5. QED
      BY <3>3, <3>4
  <2>3. PictureOfRun'
    BY <2>2 DEF PictureOfRun
  <2>4. QED
    BY <2>1, <2>3 DEF PictureInv
<1>25. TextsInv'
  BY <1>18 DEF TextsInv
<1>26. QED
  BY <1>7, <1>15, <1>16, <1>17, <1>23, <1>24, <1>25 DEF DialogInv

-----------------------------------------------------------------------------
(* However starts, stops, closings, panes and events interleave, the dialog *)
(* has heard no more than happened, listens to the runs it should, its     *)
(* texts are those of what it heard, and every status in its picture was   *)
(* told by a run.                                                          *)
THEOREM DialogInductive == Spec => [](SessionInv /\ DialogInv)
<1>1. Init => DialogInv
  <2> SUFFICES ASSUME Init PROVE DialogInv
    OBVIOUS
  <2> USE DEF Init, AgentInit, DialogInit
  <2>1. DialogTypes
    <3>1. <<>> \in Seq([run : Runs, number : Nat])
      OBVIOUS
    <3>2. Idle \in [Nodes -> Statuses]
      BY DEF Idle, Statuses
    <3>3. QED
      BY <3>1, <3>2 DEF DialogTypes
  <2>2. ToldInv
    BY DEF ToldInv, Caused
  <2>3. AwaitInv
    BY DEF AwaitInv
  <2>4. ListenInv /\ PictureInv /\ DrawnInv
    BY DEF ListenInv, PictureInv, PictureOfRun, DrawnInv, Idle
  <2>5. TextsInv
    BY DEF TextsInv
  <2>6. QED
    BY <2>1, <2>2, <2>3, <2>4, <2>5 DEF DialogInv
<1>2. SessionInv /\ DialogInv /\ [Next]_vars => DialogInv'
  <2> SUFFICES ASSUME SessionInv, DialogInv, [Next]_vars PROVE DialogInv'
    OBVIOUS
  <2>1. AgentTypeOK /\ StartInv
    BY DEF SessionInv, MemoryInv
  <2>2. CASE UNCHANGED vars
    BY <2>1, <2>2, RunnerMove DEF vars
  <2>3. CASE (User \/ \E i \in DOMAIN awaiting : NoToken(i)) /\ UNCHANGED <<agentVars, after, told>>
    BY <2>1, <2>3, UserMove
  <2>4. ASSUME NEW r \in Runs, NEW i \in DOMAIN awaiting, Start(r, i) PROVE DialogInv'
    BY <2>1, <2>4, StartMove
  <2>5. ASSUME NEW r \in Runs, ProceedHeard(r) PROVE DialogInv'
    BY <2>1, <2>5, RunnerMove DEF ProceedHeard
  <2>6. ASSUME NEW s \in Sessions, Expire(s), UNCHANGED <<dialogVars, after, told>> PROVE DialogInv'
    BY <2>1, <2>6, RunnerMove
  <2>7. ASSUME NEW r \in Runs, Deliver(r) PROVE DialogInv'
    BY <2>1, <2>7, DeliverMove
  <2>8. QED
    BY <2>2, <2>3, <2>4, <2>5, <2>6, <2>7 DEF Next, Step
<1>3. Spec => []SessionInv
  BY SessionInductive
<1>4. QED
  BY <1>1, <1>2, <1>3, PTL DEF Spec

(* test-flow-dialog.tsx and running-flow.tsx: unless starts overlapped or  *)
(* the pane of the events was opened, the dialog shows the texts of the    *)
(* run started last, in order and without a gap, and an error that is that *)
(* run's.  A picture that was there when that run began shows of every     *)
(* node what the run told of it last; where the run has told nothing the   *)
(* node shows what an older run told, and it is idle again unless a run    *)
(* was stopped or closed, or starts overlapped.                            *)
THEOREM DialogTrue == Spec => []DialogFaithful
<1>1. ASSUME SessionInv, DialogInv PROVE DialogFaithful
  <2>1. AgentTypeOK
    BY <1>1 DEF SessionInv, MemoryInv
  <2>2. DialogTypes /\ ToldInv /\ TextsInv /\ PictureInv
    BY <1>1 DEF DialogInv
  <2>3. ASSUME subscription \in listening, Len(results) = Texts(subscription)
        PROVE  Len(results) = Cardinality({i \in 1..told[subscription] :
                                  Events(subscription)[i].name = "flowResultStream"})
    <3>1. subscription \in Runs
      BY <2>2, <2>3 DEF DialogTypes
    <3>2. QED
      BY <2>1, <2>2, <2>3, <3>1, TextsOf
  <2>4. ResultsOfOneRun
    BY <2>2, <2>3 DEF ResultsOfOneRun, TextsInv
  <2>5. PictureOfRun
    BY <2>2 DEF PictureInv
  <2>6. QED
    BY <2>4, <2>5 DEF DialogFaithful
<1>2. QED
  BY <1>1, DialogInductive, PTL
=============================================================================
