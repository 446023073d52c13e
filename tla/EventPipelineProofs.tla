------------------------ MODULE EventPipelineProofs ------------------------
(* Proofs about EventPipeline, for every set of backends, clients and runs *)
(* and every bound.                                                        *)
EXTENDS EventPipeline, TLAPS

USE DEF Numbers

LEMMA InitPipelineInv == Init => PipelineInv
<1> SUFFICES ASSUME Init PROVE PipelineInv
  OBVIOUS
<1>1. TypeOK
  BY NoneAssumption, BoundsAssumption DEF Init, TypeOK, Events, Phases, Entries
<1>2. StreamInv /\ LogInv /\ StoredInv /\ NumberInv /\ ConnInv
  BY DEF Init, StreamInv, LogInv, StoredInv, NumberInv, ConnInv, Busy, Holds
<1>3. SequencesUnique /\ LogFollowsStream /\ NothingSkipped
  BY DEF Init, SequencesUnique, LogFollowsStream, NothingSkipped
<1>4. ClientMissesNothing
  BY DEF Init, ClientMissesNothing
<1>. QED
  BY <1>1, <1>2, <1>3, <1>4 DEF PipelineInv

(* The typing of every step.                                               *)
LEMMA TypeStep == TypeOK /\ StreamInv /\ ConnInv /\ [Next]_vars => TypeOK'
<1> SUFFICES ASSUME TypeOK, StreamInv, ConnInv, [Next]_vars PROVE TypeOK'
  OBVIOUS
<1> USE NoneAssumption, BoundsAssumption DEF TypeOK, Events
<1>0. ASSUME NEW b \in Backends, Busy(b)
      PROVE  /\ event[b] \in 1..published
             /\ trigger[event[b]] \in Triggers
             /\ Entry(b) \in Entries
  BY <1>0 DEF StreamInv, Entry, Entries
<1>1. ASSUME NEW t \in Triggers, Publish(t) PROVE TypeOK'
  BY <1>1 DEF Publish, storeVars, backendVars, clientVars, historyVars
<1>2. ASSUME NEW t \in Triggers, LoseKeys(t) PROVE TypeOK'
  <2>1. counter' = [counter EXCEPT ![t] = 0] \/ counter' = counter
    BY <1>2 DEF LoseKeys
  <2>2. log' = [log EXCEPT ![t] = {}] \/ log' = log
    BY <1>2 DEF LoseKeys
  <2>3. counter' \in [Triggers -> Nat]
    <3>1. counter \in [Triggers -> Nat] /\ 0 \in Nat
      OBVIOUS
    <3>2. QED
      BY <2>1, <3>1, Zenon
  <2>4. log' \in [Triggers -> SUBSET Entries]
    BY <2>2
  <2>5. lost' \in [Triggers -> BOOLEAN] /\ faults' \in 0..MaxFaults
    BY <1>2 DEF LoseKeys, Fault
  <2>6. QED
    BY <1>2, <2>3, <2>4, <2>5 DEF LoseKeys, streamVars, backendVars, clientVars
<1>3. ASSUME NEW b \in Backends, StartRouter(b) PROVE TypeOK'
  BY <1>3 DEF StartRouter, Phases, streamVars, storeVars, clientVars
<1>4. ASSUME NEW b \in Backends, ReadEvent(b) PROVE TypeOK'
  <2>1. NextEvent(b) \in 1..published
    BY <1>4 DEF ReadEvent, NextEvent
  <2>2. (cursor[b] + 1)..trimmed \subseteq 1..MaxEvents
    OBVIOUS
  <2>3. missed' \in [Backends -> SUBSET (1..MaxEvents)]
    BY <1>4, <2>2 DEF ReadEvent
  <2>4. event' \in [Backends -> 0..published] /\ phase' \in [Backends -> Phases]
    BY <1>4, <2>1 DEF ReadEvent, Phases
  <2>5. QED
    BY <1>4, <2>3, <2>4 DEF ReadEvent, streamVars, storeVars, clientVars
<1>5. ASSUME NEW b \in Backends, TakeSequence(b) PROVE TypeOK'
  <2>1. trigger[event[b]] \in Triggers
    BY <1>0, <1>5 DEF TakeSequence, Busy
  <2>2. /\ counter' \in [Triggers -> Nat]
        /\ seq' \in [Backends -> Nat]
        /\ phase' \in [Backends -> Phases]
    BY <1>5, <2>1 DEF TakeSequence, Phases
  <2>3. QED
    BY <1>5, <2>2 DEF TakeSequence, streamVars, clientVars, historyVars
<1>6. ASSUME NEW b \in Backends, StoreEvent(b) PROVE TypeOK'
  <2>1. trigger[event[b]] \in Triggers /\ Entry(b) \in Entries
    BY <1>0, <1>6 DEF StoreEvent, Busy
  <2>2. log' \in [Triggers -> SUBSET Entries] /\ phase' \in [Backends -> Phases]
    BY <1>6, <2>1 DEF StoreEvent, Phases
  <2>3. QED
    BY <1>6, <2>2 DEF StoreEvent, streamVars, clientVars, historyVars
<1>7. ASSUME NEW b \in Backends, StoreEventFails(b) PROVE TypeOK'
  <2>1. trigger[event[b]] \in Triggers /\ Entry(b) \in Entries
    BY <1>0, <1>7 DEF StoreEventFails, Busy
  <2>2. counter' \in [Triggers -> Nat]
    <3>1. counter[trigger[event[b]]] + 1 \in Nat
      BY <2>1
    <3>2. \/ counter' = counter
          \/ counter' = [counter EXCEPT ![trigger[event[b]]] = @ + 1]
      BY <1>7 DEF StoreEventFails, storeVars
    <3>3. QED
      BY <2>1, <3>1, <3>2
  <2>5. log' \in [Triggers -> SUBSET Entries]
    <3>1. log[trigger[event[b]]] \cup {Entry(b)} \in SUBSET Entries
      BY <2>1
    <3>2. \/ log' = log
          \/ log' = [log EXCEPT ![trigger[event[b]]] = @ \cup {Entry(b)}]
      BY <1>7 DEF StoreEventFails, storeVars
    <3>3. QED
      BY <2>1, <3>1, <3>2
  <2>3. phase' \in [Backends -> Phases] /\ faults' \in 0..MaxFaults
    BY <1>7 DEF StoreEventFails, Phases, Fault
  <2>4. QED
    BY <1>7, <2>2, <2>3, <2>5 DEF StoreEventFails, streamVars, clientVars, historyVars
<1>8. ASSUME NEW b \in Backends, Relay(b) PROVE TypeOK'
  <2>1. event[b] \in 0..published /\ Entry(b) \in Entries
    BY <1>0, <1>8 DEF Relay, Busy
  <2>2. live' \in [Clients -> SUBSET Entries]
    <3>1. \A c \in Clients : live[c] \cup {Entry(b)} \in SUBSET Entries
      BY <2>1
    <3>2. QED
      BY <1>8, <3>1, Zenon DEF Relay
  <2>3. cursor' \in [Backends -> 0..published] /\ phase' \in [Backends -> Phases]
    BY <1>8, <2>1 DEF Relay, Phases
  <2>4. QED
    BY <1>8, <2>2, <2>3 DEF Relay, streamVars, storeVars, historyVars
<1>9. ASSUME NEW b \in Backends, Crash(b) PROVE TypeOK'
  <2>1. /\ phase' \in [Backends -> Phases]
        /\ cursor' \in [Backends -> 0..published]
        /\ event' \in [Backends -> 0..published]
        /\ seq' \in [Backends -> Nat]
        /\ joined' \in [Backends -> 0..published]
        /\ missed' \in [Backends -> SUBSET (1..MaxEvents)]
        /\ faults' \in 0..MaxFaults
    BY <1>9 DEF Crash, Fault, Phases
  <2>2. /\ conn' \in [Clients -> {"off", "subscribed", "resuming", "open"}]
        /\ on' \in [Clients -> Backends \cup {None}]
        /\ topic' \in [Clients -> Triggers \cup {None}]
        /\ from' \in [Clients -> Nat]
        /\ live' \in [Clients -> SUBSET Entries]
        /\ got' \in [Clients -> SUBSET Entries]
    BY <1>9 DEF Crash, Drop
  <2>3. QED
    BY <1>9, <2>1, <2>2 DEF Crash, Drop, streamVars, storeVars
<1>10. ASSUME NEW c \in Clients, Resume(c) PROVE TypeOK'
  <2>1. StoredFrom(topic[c], from[c]) \subseteq Entries
    BY <1>10 DEF Resume, StoredFrom, ConnInv
  <2>2. got' \in [Clients -> SUBSET Entries]
    BY <1>10, <2>1 DEF Resume
  <2>3. QED
    BY <1>10, <2>2 DEF Resume, streamVars, storeVars, backendVars, historyVars
<1>11. ASSUME NEW c \in Clients, Open(c) PROVE TypeOK'
  BY <1>11 DEF Open, streamVars, storeVars, backendVars, historyVars
<1>12. ASSUME NEW c \in Clients, Deliver(c) PROVE TypeOK'
  <2>1. PICK x \in live[c] :
              /\ live' = [live EXCEPT ![c] = @ \ {x}]
              /\ got' = [got EXCEPT ![c] = IF trigger[x.ev] = topic[c]
                                           THEN @ \cup {x} ELSE @]
    BY <1>12 DEF Deliver
  <2>2. live[c] \ {x} \in SUBSET Entries /\ got[c] \cup {x} \in SUBSET Entries
    OBVIOUS
  <2>3. live' \in [Clients -> SUBSET Entries] /\ got' \in [Clients -> SUBSET Entries]
    BY <2>1, <2>2
  <2>4. QED
    BY <1>12, <2>3 DEF Deliver, streamVars, storeVars, backendVars, historyVars
<1>13. ASSUME NEW c \in Clients, Disconnect(c) PROVE TypeOK'
  BY <1>13 DEF Disconnect, Drop, streamVars, storeVars, backendVars, historyVars
<1>14. ASSUME NEW c \in Clients, NEW b \in Backends, NEW t \in Triggers,
              NEW s \in 0..counter[t], Subscribe(c, b, t, s)
       PROVE TypeOK'
  <2>1. s \in Nat
    OBVIOUS
  <2>2. /\ conn' \in [Clients -> {"off", "subscribed", "resuming", "open"}]
        /\ on' \in [Clients -> Backends \cup {None}]
        /\ topic' \in [Clients -> Triggers \cup {None}]
        /\ from' \in [Clients -> Nat]
        /\ connects' \in 0..MaxConnects
    BY <1>14, <2>1 DEF Subscribe
  <2>3. QED
    BY <1>14, <2>2 DEF Subscribe, streamVars, storeVars, backendVars, historyVars
<1>15. CASE UNCHANGED vars
  BY <1>15 DEF vars, streamVars, storeVars, backendVars, clientVars, historyVars
<1>. QED
  BY <1>1, <1>2, <1>3, <1>4, <1>5, <1>6, <1>7, <1>8, <1>9, <1>10, <1>11, <1>12,
     <1>13, <1>14, <1>15 DEF Next, Route, Serve

(* What the router and the event log do not see of a step.                 *)
LEMMA StepCases ==
    ASSUME [Next]_vars
    PROVE  \/ \E t \in Triggers : Publish(t) \/ LoseKeys(t)
           \/ \E b \in Backends : \/ StartRouter(b) \/ ReadEvent(b) \/ TakeSequence(b)
                                  \/ StoreEvent(b) \/ Relay(b)
                                  \/ StoreEventFails(b) \/ Crash(b)
           \/ UNCHANGED <<streamVars, storeVars, backendVars, historyVars>>
<1>1. ASSUME NEW c \in Clients, Serve(c) \/ Disconnect(c)
      PROVE  UNCHANGED <<streamVars, storeVars, backendVars, historyVars>>
  BY <1>1 DEF Serve, Resume, Open, Deliver, Disconnect
<1>2. ASSUME NEW c \in Clients, NEW b \in Backends, NEW t \in Triggers,
             NEW s \in 0..counter[t], Subscribe(c, b, t, s)
      PROVE  UNCHANGED <<streamVars, storeVars, backendVars, historyVars>>
  BY <1>2 DEF Subscribe
<1>3. CASE UNCHANGED vars
  BY <1>3 DEF vars
<1>. QED
  BY <1>1, <1>2, <1>3 DEF Next, Route

-----------------------------------------------------------------------------
LEMMA StreamStep == TypeOK /\ StreamInv /\ [Next]_vars => StreamInv'
<1> SUFFICES ASSUME TypeOK, StreamInv, [Next]_vars PROVE StreamInv'
  OBVIOUS
<1> USE DEF TypeOK, Events
<1>1. ASSUME NEW t \in Triggers, Publish(t) PROVE StreamInv'
  <2>1. published + 1 \in 1..MaxEvents /\ published' = published + 1
    BY <1>1, BoundsAssumption DEF Publish
  <2>2. \A e \in 1..published' : trigger'[e] \in Triggers
    <3>1. trigger' = [trigger EXCEPT ![published + 1] = t]
      BY <1>1 DEF Publish
    <3>2. \A e \in 1..published' : e \in 1..published \/ e = published + 1
      BY <2>1
    <3>3. \A e \in 1..published : trigger[e] \in Triggers
      BY DEF StreamInv
    <3>4. \A e \in 1..published : trigger'[e] = trigger[e]
      BY <3>1
    <3>5. trigger'[published + 1] = t
      BY <2>1, <3>1
    <3>6. QED
      BY <3>2, <3>3, <3>4, <3>5
  <2>3. UNCHANGED <<phase, cursor, event, joined, missed>>
    BY <1>1 DEF Publish, backendVars, historyVars
  <2>4. QED
    BY <2>1, <2>2, <2>3 DEF StreamInv, Busy
<1>2. ASSUME NEW t \in Triggers, LoseKeys(t) PROVE StreamInv'
  BY <1>2 DEF LoseKeys, streamVars, backendVars, StreamInv, Busy
<1>3. ASSUME NEW b \in Backends, StartRouter(b) PROVE StreamInv'
  BY <1>3 DEF StartRouter, streamVars, StreamInv, Busy
<1>4. ASSUME NEW b \in Backends, ReadEvent(b) PROVE StreamInv'
  <2>1. /\ NextEvent(b) \in (cursor[b] + 1)..published
        /\ (cursor[b] + 1)..(NextEvent(b) - 1) \subseteq (cursor[b] + 1)..trimmed
    BY <1>4 DEF ReadEvent, NextEvent
  <2>2. \A a \in Backends : a # b => /\ event'[a] = event[a] /\ missed'[a] = missed[a]
                                     /\ phase'[a] = phase[a]
    BY <1>4 DEF ReadEvent
  <2>3. /\ event'[b] = NextEvent(b)
        /\ missed'[b] = missed[b] \cup ((cursor[b] + 1)..trimmed)
    BY <1>4 DEF ReadEvent
  <2>4. UNCHANGED <<published, trigger, cursor, joined>>
    BY <1>4 DEF ReadEvent, streamVars
  <2>5. QED
    BY <2>1, <2>2, <2>3, <2>4 DEF StreamInv, Busy
<1>5. ASSUME NEW b \in Backends, TakeSequence(b) PROVE StreamInv'
  BY <1>5 DEF TakeSequence, streamVars, historyVars, StreamInv, Busy
<1>6. ASSUME NEW b \in Backends, StoreEvent(b) PROVE StreamInv'
  BY <1>6 DEF StoreEvent, streamVars, historyVars, StreamInv, Busy
<1>7. ASSUME NEW b \in Backends, StoreEventFails(b) PROVE StreamInv'
  BY <1>7 DEF StoreEventFails, streamVars, historyVars, StreamInv, Busy
<1>8. ASSUME NEW b \in Backends, Relay(b) PROVE StreamInv'
  BY <1>8 DEF Relay, streamVars, historyVars, StreamInv, Busy
<1>9. ASSUME NEW b \in Backends, Crash(b) PROVE StreamInv'
  BY <1>9 DEF Crash, streamVars, StreamInv, Busy
<1>10. CASE UNCHANGED <<streamVars, storeVars, backendVars, historyVars>>
  BY <1>10 DEF streamVars, backendVars, historyVars, StreamInv, Busy
<1>. QED
  BY <1>1, <1>2, <1>3, <1>4, <1>5, <1>6, <1>7, <1>8, <1>9, <1>10, StepCases

LEMMA ConnStep == TypeOK /\ ConnInv /\ [Next]_vars => ConnInv'
<1> SUFFICES ASSUME TypeOK, ConnInv, [Next]_vars PROVE ConnInv'
  OBVIOUS
<1> USE NoneAssumption DEF TypeOK
<1>1. ASSUME NEW t \in Triggers, Publish(t) \/ LoseKeys(t) PROVE ConnInv'
  BY <1>1 DEF Publish, LoseKeys, backendVars, clientVars, ConnInv
<1>2. ASSUME NEW b \in Backends,
             StartRouter(b) \/ Route(b) \/ StoreEventFails(b)
      PROVE  ConnInv'
  <2>1. UNCHANGED <<conn, on, topic>>
    BY <1>2 DEF StartRouter, Route, ReadEvent, TakeSequence, StoreEvent, Relay,
                StoreEventFails, clientVars
  <2>2. \A a \in Backends : phase[a] # "down" => phase'[a] # "down"
    BY <1>2 DEF StartRouter, Route, ReadEvent, TakeSequence, StoreEvent, Relay,
                StoreEventFails
  <2>3. QED
    BY <2>1, <2>2 DEF ConnInv
<1>3. ASSUME NEW b \in Backends, Crash(b) PROVE ConnInv'
  BY <1>3 DEF Crash, Drop, ConnInv
<1>4. ASSUME NEW c \in Clients, Serve(c) \/ Disconnect(c) PROVE ConnInv'
  BY <1>4 DEF Serve, Resume, Open, Deliver, Disconnect, Drop, backendVars, ConnInv
<1>5. ASSUME NEW c \in Clients, NEW b \in Backends, NEW t \in Triggers,
             NEW s \in 0..counter[t], Subscribe(c, b, t, s)
      PROVE  ConnInv'
  BY <1>5 DEF Subscribe, backendVars, ConnInv
<1>6. CASE UNCHANGED vars
  BY <1>6 DEF vars, backendVars, clientVars, ConnInv
<1>. QED
  BY <1>1, <1>2, <1>3, <1>4, <1>5, <1>6 DEF Next

-----------------------------------------------------------------------------
(* The event log.                                                          *)
LEMMA LogStep == TypeOK /\ StreamInv /\ LogInv /\ [Next]_vars => LogInv'
<1> SUFFICES ASSUME TypeOK, StreamInv, LogInv, [Next]_vars PROVE LogInv'
  OBVIOUS
\* An entry is of an event of its run and of a backend.
<1>0. ASSUME NEW t \in Triggers, NEW x \in log[t]
      PROVE  /\ x.ev \in 1..published /\ x.by \in Backends /\ trigger[x.ev] = t
             /\ phase[x.by] # "down" =>
                   x.ev <= cursor[x.by] \/ (Busy(x.by) /\ x.ev = event[x.by])
  BY DEF LogInv, TypeOK, Entries
\* A step that adds no entry, and leaves no backend behind one.
<1>1. ASSUME \A t \in Triggers : log'[t] \subseteq log[t],
             published' \in Nat, published <= published',
             \A e \in 1..published : trigger'[e] = trigger[e],
             \A b \in Backends :
                 \/ phase'[b] = phase[b] /\ cursor'[b] = cursor[b] /\ event'[b] = event[b]
                 \/ phase'[b] = "down"
                 \/ \A t \in Triggers : \A x \in log[t] :
                       x.by = b => x.ev <= cursor'[b] \/ (Busy(b)' /\ x.ev = event'[b])
      PROVE  LogInv'
  <2> SUFFICES ASSUME NEW t \in Triggers, NEW x \in log'[t]
               PROVE  /\ x.ev \in 1..published'
                      /\ trigger'[x.ev] = t
                      /\ phase'[x.by] # "down" =>
                            x.ev <= cursor'[x.by] \/ (Busy(x.by)' /\ x.ev = event'[x.by])
    BY DEF LogInv, Busy
  <2>1. x \in log[t]
    BY <1>1
  <2>2. x.ev \in 1..published' /\ trigger'[x.ev] = t
    BY <1>0, <1>1, <2>1 DEF TypeOK
  <2>3. QED
    BY <1>0, <1>1, <2>1, <2>2 DEF Busy
<1>2. ASSUME NEW t \in Triggers, Publish(t) PROVE LogInv'
  <2>1. published' = published + 1 /\ published \in Nat
    BY <1>2 DEF Publish, TypeOK
  <2>2. \A e \in 1..published : trigger'[e] = trigger[e]
    BY <1>2, <2>1 DEF Publish, TypeOK
  <2>3. UNCHANGED <<log, phase, cursor, event>>
    BY <1>2 DEF Publish, storeVars, backendVars
  <2>4. QED
    BY <1>1, <2>1, <2>2, <2>3
<1>3. ASSUME NEW t \in Triggers, LoseKeys(t) PROVE LogInv'
  <2>1. \A u \in Triggers : log'[u] \subseteq log[u]
    BY <1>3 DEF LoseKeys, TypeOK
  <2>2. UNCHANGED <<published, trigger, phase, cursor, event>>
    BY <1>3 DEF LoseKeys, streamVars, backendVars
  <2>3. QED
    BY <1>1, <2>1, <2>2 DEF TypeOK
<1>4. ASSUME NEW b \in Backends,
             UNCHANGED <<published, trigger, log>>,
             \A a \in Backends \ {b} : /\ phase'[a] = phase[a] /\ cursor'[a] = cursor[a]
                                     /\ event'[a] = event[a],
             \/ phase'[b] = "down"
             \/ \A t \in Triggers : \A x \in log[t] :
                   x.by = b => \/ x.ev <= cursor'[b]
                               \/ Busy(b)' /\ x.ev = event'[b]
      PROVE  LogInv'
  BY <1>1, <1>4 DEF TypeOK
<1>5. ASSUME NEW b \in Backends, StartRouter(b) PROVE LogInv'
  <2>1. cursor'[b] = published
    BY <1>5 DEF StartRouter, TypeOK
  <2>2. \A a \in Backends \ {b} : phase'[a] = phase[a] /\ cursor'[a] = cursor[a]
    BY <1>5 DEF StartRouter, TypeOK
  <2>3. UNCHANGED <<published, trigger, log, event>>
    BY <1>5 DEF StartRouter, streamVars, storeVars
  <2>4. \A t \in Triggers : \A x \in log[t] : x.ev <= cursor'[b]
    BY <1>0, <2>1 DEF TypeOK
  <2>5. QED
    BY <1>4, <2>2, <2>3, <2>4
<1>6. ASSUME NEW b \in Backends, ReadEvent(b) PROVE LogInv'
  <2>1. phase[b] = "idle" /\ cursor' = cursor
    BY <1>6 DEF ReadEvent
  <2>2. \A a \in Backends \ {b} : phase'[a] = phase[a] /\ event'[a] = event[a]
    BY <1>6 DEF ReadEvent, TypeOK
  <2>3. UNCHANGED <<published, trigger, log>>
    BY <1>6 DEF ReadEvent, streamVars, storeVars
  <2>4. \A t \in Triggers : \A x \in log[t] : x.by = b => x.ev <= cursor'[b]
    BY <1>0, <2>1 DEF Busy
  <2>5. QED
    BY <1>4, <2>1, <2>2, <2>3, <2>4
<1>7. ASSUME NEW b \in Backends, TakeSequence(b) PROVE LogInv'
  <2>1. /\ Busy(b) /\ Busy(b)' /\ phase[b] # "down"
        /\ \A a \in Backends \ {b} : phase'[a] = phase[a]
    BY <1>7 DEF TakeSequence, Busy, TypeOK
  <2>2. UNCHANGED <<published, trigger, log, cursor, event>>
    BY <1>7 DEF TakeSequence, streamVars
  <2>3. QED
    BY <1>0, <1>4, <2>1, <2>2
<1>8. ASSUME NEW b \in Backends, StoreEvent(b) \/ StoreEventFails(b) PROVE LogInv'
  <2>1. event[b] \in 1..published /\ trigger[event[b]] \in Triggers
    BY <1>8 DEF StoreEvent, StoreEventFails, StreamInv, Busy, TypeOK
  <2>2. /\ Busy(b)' /\ phase[b] # "down"
        /\ \A a \in Backends \ {b} : phase'[a] = phase[a]
    BY <1>8 DEF StoreEvent, StoreEventFails, Busy, TypeOK
  <2>3. log' = log \/ log' = [log EXCEPT ![trigger[event[b]]] = @ \cup {Entry(b)}]
    BY <1>8 DEF StoreEvent, StoreEventFails, storeVars
  <2>4. UNCHANGED <<published, trigger, cursor, event>>
    BY <1>8 DEF StoreEvent, StoreEventFails, streamVars
  <2>5. SUFFICES ASSUME NEW t \in Triggers, NEW x \in log'[t]
                 PROVE  /\ x.ev \in 1..published
                        /\ trigger[x.ev] = t
                        /\ phase'[x.by] # "down" =>
                              x.ev <= cursor[x.by] \/ (Busy(x.by)' /\ x.ev = event[x.by])
    BY <2>4 DEF LogInv, Busy
  <2>6. CASE x \in log[t]
    BY <1>0, <2>2, <2>6 DEF Busy
  <2>7. CASE t = trigger[event[b]] /\ x = Entry(b)
    BY <2>1, <2>2, <2>7 DEF Entry
  <2>8. QED
    BY <2>1, <2>3, <2>5, <2>6, <2>7 DEF TypeOK
<1>9. ASSUME NEW b \in Backends, Relay(b) PROVE LogInv'
  <2>1. \A a \in Backends \ {b} : phase'[a] = phase[a] /\ cursor'[a] = cursor[a]
    BY <1>9 DEF Relay, TypeOK
  <2>2. phase[b] = "relay" /\ cursor'[b] = event[b]
    BY <1>9 DEF Relay, TypeOK
  <2>3. cursor[b] < event[b] /\ cursor[b] \in Nat /\ event[b] \in Nat
    BY <2>2 DEF StreamInv, Busy, TypeOK
  <2>4. UNCHANGED <<published, trigger, log, event>>
    BY <1>9 DEF Relay, streamVars, storeVars
  <2>5. \A t \in Triggers : \A x \in log[t] : x.by = b => x.ev <= cursor'[b]
    BY <1>0, <2>2, <2>3
  <2>6. QED
    BY <1>4, <2>1, <2>4, <2>5
<1>10. ASSUME NEW b \in Backends, Crash(b) PROVE LogInv'
  <2>1. \A a \in Backends \ {b} : /\ phase'[a] = phase[a] /\ cursor'[a] = cursor[a]
                                /\ event'[a] = event[a]
    BY <1>10 DEF Crash, TypeOK
  <2>2. phase'[b] = "down"
    BY <1>10 DEF Crash, TypeOK
  <2>3. UNCHANGED <<published, trigger, log>>
    BY <1>10 DEF Crash, streamVars, storeVars
  <2>4. QED
    BY <1>4, <2>1, <2>2, <2>3
<1>11. CASE UNCHANGED <<streamVars, storeVars, backendVars, historyVars>>
  BY <1>11 DEF streamVars, storeVars, backendVars, LogInv, Busy
<1>. QED
  BY <1>2, <1>3, <1>5, <1>6, <1>7, <1>8, <1>9, <1>10, <1>11, StepCases

(* The event about to be relayed is stored.                                *)
LEMMA StoredStep == TypeOK /\ StreamInv /\ StoredInv /\ [Next]_vars => StoredInv'
<1> SUFFICES ASSUME TypeOK, StreamInv, StoredInv, [Next]_vars,
                    NEW a \in Backends, phase'[a] = "relay"
             PROVE  \/ lost'[trigger'[event'[a]]]
                    \/ \E x \in log'[trigger'[event'[a]]] : x.by = a /\ x.ev = event'[a]
  BY DEF StoredInv
\* A backend that waited to relay does so with the same event.
<1>1. ASSUME phase[a] = "relay"
      PROVE  /\ event[a] \in 1..published /\ trigger[event[a]] \in Triggers
             /\ \/ lost[trigger[event[a]]]
                \/ \E x \in log[trigger[event[a]]] : x.by = a /\ x.ev = event[a]
  BY <1>1 DEF StreamInv, StoredInv, Busy, TypeOK
<1>2. ASSUME phase[a] = "relay", event'[a] = event[a],
             trigger'[event[a]] = trigger[event[a]],
             lost[trigger[event[a]]] => lost'[trigger[event[a]]],
             \/ lost'[trigger[event[a]]]
             \/ log[trigger[event[a]]] \subseteq log'[trigger[event[a]]]
      PROVE  \/ lost'[trigger'[event'[a]]]
             \/ \E x \in log'[trigger'[event'[a]]] : x.by = a /\ x.ev = event'[a]
  BY <1>1, <1>2
<1>3. ASSUME NEW t \in Triggers, Publish(t)
      PROVE  \/ lost'[trigger'[event'[a]]]
             \/ \E x \in log'[trigger'[event'[a]]] : x.by = a /\ x.ev = event'[a]
  <2>1. phase[a] = "relay" /\ UNCHANGED <<event, lost, log>>
    BY <1>3 DEF Publish, storeVars, backendVars, historyVars
  <2>2. trigger'[event[a]] = trigger[event[a]]
    BY <1>1, <1>3, <2>1 DEF Publish, TypeOK
  <2>3. QED
    BY <1>2, <2>1, <2>2
<1>4. ASSUME NEW t \in Triggers, LoseKeys(t)
      PROVE  \/ lost'[trigger'[event'[a]]]
             \/ \E x \in log'[trigger'[event'[a]]] : x.by = a /\ x.ev = event'[a]
  <2>1. phase[a] = "relay" /\ UNCHANGED <<event, trigger>>
    BY <1>4 DEF LoseKeys, streamVars, backendVars
  <2>2. \A u \in Triggers : /\ lost[u] => lost'[u]
                            /\ lost'[u] \/ log'[u] = log[u]
    BY <1>4 DEF LoseKeys, TypeOK
  <2>3. QED
    BY <1>1, <1>2, <2>1, <2>2
<1>5. ASSUME NEW b \in Backends, a # b,
             StartRouter(b) \/ Route(b) \/ StoreEventFails(b) \/ Crash(b)
      PROVE  \/ lost'[trigger'[event'[a]]]
             \/ \E x \in log'[trigger'[event'[a]]] : x.by = a /\ x.ev = event'[a]
  <2>1. /\ phase[a] = "relay" /\ event'[a] = event[a]
        /\ UNCHANGED <<trigger, lost>>
    BY <1>5 DEF StartRouter, Route, ReadEvent, TakeSequence, StoreEvent, Relay,
                StoreEventFails, Crash, TypeOK, streamVars, historyVars
  <2>2. \A t \in Triggers : log[t] \subseteq log'[t]
    BY <1>5 DEF StartRouter, Route, ReadEvent, TakeSequence, StoreEvent, Relay,
                StoreEventFails, Crash, TypeOK, storeVars
  <2>3. QED
    BY <1>1, <1>2, <2>1, <2>2
<1>6. ASSUME StartRouter(a) \/ ReadEvent(a) \/ TakeSequence(a) \/ Relay(a)
             \/ StoreEventFails(a) \/ Crash(a)
      PROVE  FALSE
  BY <1>6 DEF StartRouter, ReadEvent, TakeSequence, Relay, StoreEventFails, Crash, TypeOK
<1>7. ASSUME StoreEvent(a)
      PROVE  \E x \in log'[trigger'[event'[a]]] : x.by = a /\ x.ev = event'[a]
  <2>1. trigger[event[a]] \in Triggers
    BY <1>7 DEF StoreEvent, StreamInv, Busy, TypeOK
  <2>2. UNCHANGED <<trigger, event>> /\ Entry(a) \in log'[trigger[event[a]]]
    BY <1>7, <2>1 DEF StoreEvent, streamVars, TypeOK
  <2>3. Entry(a).by = a /\ Entry(a).ev = event[a]
    BY DEF Entry
  <2>4. QED
    BY <2>2, <2>3
<1>8. CASE UNCHANGED <<streamVars, storeVars, backendVars, historyVars>>
  BY <1>1, <1>2, <1>8 DEF streamVars, storeVars, backendVars, historyVars
<1>. QED
  BY <1>3, <1>4, <1>5, <1>6, <1>7, <1>8, StepCases DEF Route

-----------------------------------------------------------------------------
(* What a step does to the log of a run: it loses entries, with the run    *)
(* marked when it was an eviction, or gains the entry of a backend that    *)
(* holds a number.                                                         *)
LEMMA LogGrowth ==
    ASSUME TypeOK, StreamInv, [Next]_vars, NEW t \in Triggers
    PROVE  /\ lost[t] => lost'[t]
           /\ \/ log'[t] = log[t]
              \/ lost'[t] /\ log'[t] \subseteq log[t]
              \/ \E b \in Backends : /\ Holds(b, t)
                                     /\ log'[t] = log[t] \cup {Entry(b)}
                                     /\ phase'[b] \in {"number", "relay"}
                                     /\ \A a \in Backends \ {b} : phase'[a] = phase[a]
                                     /\ UNCHANGED <<counter, lost, published, trigger,
                                                    cursor, event, seq>>
<1> USE DEF TypeOK
<1>1. ASSUME NEW u \in Triggers, Publish(u) PROVE lost' = lost /\ log' = log
  BY <1>1 DEF Publish, storeVars, historyVars
<1>2. ASSUME NEW u \in Triggers, LoseKeys(u)
      PROVE  /\ lost[t] => lost'[t]
             /\ log'[t] = log[t] \/ (lost'[t] /\ log'[t] \subseteq log[t])
  BY <1>2 DEF LoseKeys
<1>3. ASSUME NEW b \in Backends,
             StartRouter(b) \/ ReadEvent(b) \/ TakeSequence(b) \/ Relay(b) \/ Crash(b)
      PROVE  lost' = lost /\ log' = log
  BY <1>3 DEF StartRouter, ReadEvent, TakeSequence, Relay, Crash, storeVars, historyVars
<1>4. ASSUME NEW b \in Backends, StoreEvent(b) \/ StoreEventFails(b)
      PROVE  /\ lost' = lost
             /\ \/ log' = log
                \/ /\ phase[b] = "store"
                   /\ log' = [log EXCEPT ![trigger[event[b]]] = @ \cup {Entry(b)}]
                   /\ phase'[b] \in {"number", "relay"}
                   /\ \A a \in Backends \ {b} : phase'[a] = phase[a]
                   /\ UNCHANGED <<counter, published, trigger, cursor, event, seq>>
  BY <1>4 DEF StoreEvent, StoreEventFails, streamVars, storeVars, historyVars
<1>5. CASE UNCHANGED <<streamVars, storeVars, backendVars, historyVars>>
  BY <1>5 DEF storeVars, historyVars
<1>6. ASSUME NEW b \in Backends, StoreEvent(b) \/ StoreEventFails(b), log' # log
      PROVE  \/ log'[t] = log[t]
             \/ Holds(b, t) /\ log'[t] = log[t] \cup {Entry(b)}
  BY <1>4, <1>6 DEF Holds
<1>. QED
  BY <1>1, <1>2, <1>3, <1>4, <1>5, <1>6, StepCases

(* The numbers.                                                            *)
LEMMA NumberStep == TypeOK /\ StreamInv /\ NumberInv /\ [Next]_vars => NumberInv'
<1> SUFFICES ASSUME TypeOK, StreamInv, NumberInv, [Next]_vars,
                    NEW t \in Triggers, ~lost'[t]
             PROVE  /\ \A x \in log'[t] : x.seq <= counter'[t]
                    /\ \A b \in Backends : Holds(b, t)' =>
                          /\ seq'[b] <= counter'[t]
                          /\ \A x \in log'[t] :
                                x.seq # seq'[b] /\ (x.by = b => x.seq < seq'[b])
                          /\ \A a \in Backends \ {b} : Holds(a, t)' => seq'[a] # seq'[b]
  BY DEF NumberInv
<1> DEFINE Kept(S, n) ==
             /\ \A x \in S : x.seq <= n
             /\ \A b \in Backends : Holds(b, t)' =>
                   /\ seq'[b] <= n
                   /\ \A x \in S : x.seq # seq'[b] /\ (x.by = b => x.seq < seq'[b])
                   /\ \A a \in Backends \ {b} : Holds(a, t)' => seq'[a] # seq'[b]
<1> SUFFICES Kept(log'[t], counter'[t])
  OBVIOUS
<1>0. ~lost[t] /\ \A x \in log[t] : x.seq \in Nat /\ x.by \in Backends
  BY LogGrowth DEF TypeOK, Entries
<1>1. /\ counter[t] \in Nat /\ \A b \in Backends : seq[b] \in Nat
      /\ \A x \in log[t] : x.seq <= counter[t]
      /\ \A b \in Backends : Holds(b, t) =>
            /\ seq[b] <= counter[t]
            /\ \A x \in log[t] : x.seq # seq[b] /\ (x.by = b => x.seq < seq[b])
            /\ \A a \in Backends \ {b} : Holds(a, t) => seq[a] # seq[b]
  BY <1>0 DEF NumberInv, TypeOK
\* A step that takes no number and stores none.
<1>2. ASSUME log'[t] = log[t], counter'[t] \in Nat, counter[t] <= counter'[t],
             \A b \in Backends : Holds(b, t)' => Holds(b, t) /\ seq'[b] = seq[b]
      PROVE  Kept(log'[t], counter'[t])
  BY <1>0, <1>1, <1>2
<1>3. ASSUME NEW u \in Triggers, Publish(u) PROVE Kept(log'[t], counter'[t])
  <2>1. \A b \in Backends : phase[b] = "store" =>
           event[b] \in 1..published /\ event[b] # published + 1
    BY DEF StreamInv, Busy, TypeOK
  <2>2. UNCHANGED <<log, counter, phase, event, seq>>
    BY <1>3 DEF Publish, storeVars, backendVars
  <2>3. \A b \in Backends : phase[b] = "store" => trigger'[event[b]] = trigger[event[b]]
    BY <1>3, <2>1 DEF Publish, TypeOK
  <2>4. QED
    BY <1>1, <1>2, <2>2, <2>3 DEF Holds
<1>4. ASSUME NEW u \in Triggers, LoseKeys(u) PROVE Kept(log'[t], counter'[t])
  <2>1. u # t
    BY <1>4 DEF LoseKeys, TypeOK
  <2>2. log'[t] = log[t] /\ counter'[t] = counter[t]
    BY <1>4, <2>1 DEF LoseKeys, TypeOK
  <2>3. UNCHANGED <<trigger, phase, event, seq>>
    BY <1>4 DEF LoseKeys, streamVars, backendVars
  <2>4. QED
    BY <1>1, <1>2, <2>2, <2>3 DEF Holds
<1>5. ASSUME NEW b \in Backends,
             StartRouter(b) \/ ReadEvent(b) \/ Relay(b) \/ Crash(b)
      PROVE  Kept(log'[t], counter'[t])
  <2>1. UNCHANGED <<trigger, log, counter>>
    BY <1>5 DEF StartRouter, ReadEvent, Relay, Crash, streamVars, storeVars
  <2>2. /\ phase'[b] # "store"
        /\ \A a \in Backends \ {b} : /\ phase'[a] = phase[a] /\ event'[a] = event[a]
                                     /\ seq'[a] = seq[a]
    BY <1>5 DEF StartRouter, ReadEvent, Relay, Crash, TypeOK
  <2>3. QED
    BY <1>1, <1>2, <2>1, <2>2 DEF Holds
<1>6. ASSUME NEW b \in Backends, TakeSequence(b) PROVE Kept(log'[t], counter'[t])
  <2>1. UNCHANGED <<trigger, log, event>>
    BY <1>6 DEF TakeSequence, streamVars
  <2>2. \A a \in Backends \ {b} : phase'[a] = phase[a] /\ seq'[a] = seq[a]
    BY <1>6 DEF TakeSequence, TypeOK
  <2>3. CASE trigger[event[b]] # t
    <3>1. counter'[t] = counter[t] /\ ~Holds(b, t)'
      BY <1>6, <2>1, <2>3 DEF TakeSequence, TypeOK, Holds
    <3>2. QED
      BY <1>1, <1>2, <2>1, <2>2, <3>1 DEF Holds
  <2>4. CASE trigger[event[b]] = t
    <3>1. counter'[t] = counter[t] + 1 /\ seq'[b] = counter[t] + 1
      BY <1>6, <2>4 DEF TakeSequence, TypeOK
    <3>2. \A a \in Backends \ {b} : Holds(a, t)' => Holds(a, t) /\ seq'[a] = seq[a]
      BY <2>1, <2>2 DEF Holds
    <3>3. QED
      BY <1>0, <1>1, <2>1, <3>1, <3>2
  <2>5. QED
    BY <2>3, <2>4
<1>7. ASSUME NEW b \in Backends, StoreEvent(b) \/ StoreEventFails(b), log'[t] = log[t]
      PROVE  Kept(log'[t], counter'[t])
  <2>1. trigger[event[b]] \in Triggers
    BY <1>7 DEF StoreEvent, StoreEventFails, StreamInv, Busy, TypeOK
  <2>2. counter'[t] \in Nat /\ counter[t] <= counter'[t]
    BY <1>1, <1>7, <2>1 DEF StoreEvent, StoreEventFails, storeVars, TypeOK
  <2>3. UNCHANGED <<trigger, event, seq>>
    BY <1>7 DEF StoreEvent, StoreEventFails, streamVars
  <2>4. /\ phase'[b] # "store"
        /\ \A a \in Backends \ {b} : phase'[a] = phase[a]
    BY <1>7 DEF StoreEvent, StoreEventFails, TypeOK
  <2>5. QED
    BY <1>2, <1>7, <2>2, <2>3, <2>4 DEF Holds
<1>8. ASSUME NEW b \in Backends, Holds(b, t), log'[t] = log[t] \cup {Entry(b)},
             phase'[b] \in {"number", "relay"},
             \A a \in Backends \ {b} : phase'[a] = phase[a],
             UNCHANGED <<counter, trigger, event, seq>>
      PROVE  Kept(log'[t], counter'[t])
  <2>1. ~Holds(b, t)' /\ \A a \in Backends \ {b} : Holds(a, t)' => Holds(a, t)
    BY <1>8 DEF Holds
  <2>2. Entry(b).seq = seq[b] /\ Entry(b).by = b
    BY DEF Entry
  <2>3. QED
    BY <1>0, <1>1, <1>8, <2>1, <2>2
<1>9. CASE UNCHANGED <<streamVars, storeVars, backendVars, historyVars>>
  BY <1>1, <1>2, <1>9 DEF streamVars, storeVars, backendVars, Holds
<1>10. log'[t] = log[t] \/ \E b \in Backends :
          /\ Holds(b, t) /\ log'[t] = log[t] \cup {Entry(b)}
          /\ phase'[b] \in {"number", "relay"}
          /\ \A a \in Backends \ {b} : phase'[a] = phase[a]
          /\ UNCHANGED <<counter, trigger, event, seq>>
  BY LogGrowth
<1>. QED
  BY <1>3, <1>4, <1>5, <1>6, <1>7, <1>8, <1>9, <1>10, StepCases

-----------------------------------------------------------------------------
(* The properties.                                                         *)
LEMMA UniqueStep ==
    TypeOK /\ StreamInv /\ NumberInv /\ SequencesUnique /\ [Next]_vars => SequencesUnique'
<1> SUFFICES ASSUME TypeOK, StreamInv, NumberInv, SequencesUnique, [Next]_vars,
                    NEW t \in Triggers, ~lost'[t],
                    NEW x \in log'[t], NEW y \in log'[t], x.seq = y.seq
             PROVE  x = y
  BY DEF SequencesUnique
<1>1. ~lost[t]
  BY LogGrowth
<1>2. CASE log'[t] = log[t]
  BY <1>1, <1>2 DEF SequencesUnique
<1>3. ASSUME NEW b \in Backends, Holds(b, t), log'[t] = log[t] \cup {Entry(b)}
      PROVE  x = y
  <2>1. \A z \in log[t] : z.seq # Entry(b).seq
    BY <1>1, <1>3 DEF NumberInv, Entry
  <2>2. QED
    BY <1>1, <1>3, <2>1 DEF SequencesUnique
<1>. QED
  BY <1>2, <1>3, LogGrowth

LEMMA FollowsStep ==
    TypeOK /\ StreamInv /\ LogInv /\ NumberInv /\ LogFollowsStream /\ [Next]_vars
        => LogFollowsStream'
<1> SUFFICES ASSUME TypeOK, StreamInv, LogInv, NumberInv, LogFollowsStream, [Next]_vars,
                    NEW t \in Triggers, ~lost'[t],
                    NEW x \in log'[t], NEW y \in log'[t], x.by = y.by, x.seq < y.seq
             PROVE  x.ev <= y.ev
  BY DEF LogFollowsStream
<1>1. ~lost[t]
  BY LogGrowth
<1>2. CASE log'[t] = log[t]
  BY <1>1, <1>2 DEF LogFollowsStream
<1>3. ASSUME NEW b \in Backends, Holds(b, t), log'[t] = log[t] \cup {Entry(b)}
      PROVE  x.ev <= y.ev
  <2>1. Entry(b).seq = seq[b] /\ Entry(b).ev = event[b] /\ Entry(b).by = b
    BY DEF Entry
  <2>2. \A z \in log[t] : z.by = b => z.seq < seq[b] /\ z.seq \in Nat /\ seq[b] \in Nat
    BY <1>1, <1>3 DEF NumberInv, TypeOK, Entries
  <2>3. /\ Busy(b) /\ phase[b] # "down" /\ cursor[b] < event[b]
        /\ cursor[b] \in Nat /\ event[b] \in Nat
    BY <1>3 DEF Holds, Busy, StreamInv, TypeOK
  <2>4. \A z \in log[t] : z.by = b => z.ev <= event[b]
    BY <2>3 DEF LogInv, TypeOK
  <2>5. CASE x \in log[t] /\ y \in log[t]
    BY <1>1, <2>5 DEF LogFollowsStream
  <2>6. CASE y = Entry(b) /\ x \in log[t]
    BY <2>1, <2>4, <2>6
  <2>7. CASE x = Entry(b)
    BY <1>3, <2>1, <2>2, <2>3, <2>7
  <2>8. QED
    BY <1>3, <2>5, <2>6, <2>7
<1>. QED
  BY <1>2, <1>3, LogGrowth

LEMMA SkippedStep ==
    TypeOK /\ StreamInv /\ StoredInv /\ NothingSkipped /\ [Next]_vars => NothingSkipped'
<1> SUFFICES ASSUME TypeOK, StreamInv, StoredInv, NothingSkipped, [Next]_vars,
                    NEW a \in Backends, NEW e \in (joined'[a] + 1)..cursor'[a]
             PROVE  \/ e \in missed'[a]
                    \/ lost'[trigger'[e]]
                    \/ \E x \in log'[trigger'[e]] : x.by = a /\ x.ev = e
  BY DEF NothingSkipped
<1> DEFINE Kept(d) == \/ d \in missed'[a]
                      \/ lost'[trigger'[d]]
                      \/ \E x \in log'[trigger'[d]] : x.by = a /\ x.ev = d
           Was(d) == \/ d \in missed[a]
                     \/ lost[trigger[d]]
                     \/ \E x \in log[trigger[d]] : x.by = a /\ x.ev = d
\* An event that was accounted for still is.
<1>1. ASSUME e \in 1..published, missed[a] \subseteq missed'[a], Was(e),
             trigger'[e] = trigger[e]
      PROVE  Kept(e)
  <2>1. trigger[e] \in Triggers
    BY <1>1 DEF StreamInv
  <2>2. /\ lost[trigger[e]] => lost'[trigger[e]]
        /\ lost'[trigger[e]] \/ log[trigger[e]] \subseteq log'[trigger[e]]
    BY <2>1, LogGrowth
  <2>3. QED
    BY <1>1, <2>2
<1>2. e \in (joined[a] + 1)..cursor[a] => e \in 1..published /\ Was(e)
  BY DEF NothingSkipped, TypeOK
<1>3. ASSUME NEW t \in Triggers, Publish(t) PROVE Kept(e)
  <2>1. UNCHANGED <<joined, cursor, missed>>
    BY <1>3 DEF Publish, backendVars, historyVars
  <2>2. e \in 1..published => trigger'[e] = trigger[e]
    BY <1>3 DEF Publish, TypeOK
  <2>3. QED
    BY <1>1, <1>2, <2>1, <2>2
<1>4. ASSUME UNCHANGED <<joined, cursor, missed, trigger>> PROVE Kept(e)
  BY <1>1, <1>2, <1>4
<1>5. ASSUME NEW t \in Triggers, LoseKeys(t) PROVE Kept(e)
  BY <1>4, <1>5 DEF LoseKeys, streamVars, backendVars
<1>6. ASSUME NEW b \in Backends, TakeSequence(b) \/ StoreEvent(b) \/ StoreEventFails(b)
      PROVE  Kept(e)
  BY <1>4, <1>6 DEF TakeSequence, StoreEvent, StoreEventFails, streamVars, historyVars
<1>7. ASSUME NEW b \in Backends, StartRouter(b) \/ Crash(b) \/ ReadEvent(b) \/ Relay(b),
             a # b
      PROVE  Kept(e)
  <2>1. /\ joined'[a] = joined[a] /\ cursor'[a] = cursor[a] /\ missed'[a] = missed[a]
        /\ trigger' = trigger
    BY <1>7 DEF StartRouter, Crash, ReadEvent, Relay, TypeOK, streamVars, historyVars
  <2>2. QED
    BY <1>1, <1>2, <2>1
<1>8. ASSUME StartRouter(a) \/ Crash(a) PROVE Kept(e)
  BY <1>8 DEF StartRouter, Crash, TypeOK
<1>9. ASSUME ReadEvent(a) PROVE Kept(e)
  <2>1. UNCHANGED <<joined, cursor, trigger>> /\ missed[a] \subseteq missed'[a]
    BY <1>9 DEF ReadEvent, streamVars, TypeOK
  <2>2. QED
    BY <1>1, <1>2, <2>1
<1>10. ASSUME Relay(a) PROVE Kept(e)
  <2>1. /\ cursor'[a] = event[a] /\ phase[a] = "relay"
        /\ UNCHANGED <<joined, missed, trigger>>
    BY <1>10 DEF Relay, TypeOK, streamVars, historyVars
  <2>2. /\ event[a] \in (cursor[a] + 1)..published
        /\ (cursor[a] + 1)..(event[a] - 1) \subseteq missed[a]
    BY <2>1 DEF StreamInv, Busy
  <2>3. Was(event[a])
    BY <2>1 DEF StoredInv
  <2>4. /\ e \in 1..published
        /\ \/ e \in (joined[a] + 1)..cursor[a]
           \/ e \in (cursor[a] + 1)..(event[a] - 1)
           \/ e = event[a]
    BY <2>1, <2>2 DEF TypeOK
  <2>5. QED
    BY <1>1, <1>2, <2>1, <2>2, <2>3, <2>4
<1>11. CASE UNCHANGED <<streamVars, storeVars, backendVars, historyVars>>
  BY <1>4, <1>11 DEF streamVars, backendVars, historyVars
<1>. QED
  BY <1>3, <1>5, <1>6, <1>7, <1>8, <1>9, <1>10, <1>11, StepCases

LEMMA MissesStep ==
    /\ TypeOK /\ StreamInv /\ LogInv /\ ConnInv /\ ClientMissesNothing
    /\ [Next]_vars
    => ClientMissesNothing'
<1> SUFFICES ASSUME TypeOK, StreamInv, LogInv, ConnInv, ClientMissesNothing, [Next]_vars,
                    NEW c \in Clients, conn'[c] \in {"resuming", "open"},
                    NEW x \in log'[topic'[c]],
                    x.by = on'[c], x.seq >= from'[c]
             PROVE  \/ \E y \in got'[c] \cup live'[c] : y.ev = x.ev
                    \/ x.ev > cursor'[on'[c]]
  BY DEF ClientMissesNothing
<1> DEFINE Served == \/ \E y \in got'[c] \cup live'[c] : y.ev = x.ev
                     \/ x.ev > cursor'[on'[c]]
\* The connection of c stays what it was, and c's backend up.
<1>0. ASSUME conn[c] # "off", x \in log[topic[c]]
      PROVE  /\ on[c] \in Backends /\ phase[on[c]] # "down" /\ topic[c] \in Triggers
             /\ x.ev \in 1..published /\ trigger[x.ev] = topic[c]
             /\ x.by = on[c] =>
                  x.ev <= cursor[on[c]] \/ (Busy(on[c]) /\ x.ev = event[on[c]])
  BY <1>0 DEF ConnInv, LogInv, TypeOK
<1>1. ASSUME conn'[c] = conn[c], on'[c] = on[c], topic'[c] = topic[c], from'[c] = from[c],
             x \in log[topic[c]],
             got[c] \cup live[c] \subseteq got'[c] \cup live'[c],
             cursor'[on[c]] = cursor[on[c]]
      PROVE  Served
  BY <1>1 DEF ClientMissesNothing
<1>2. ASSUME NEW t \in Triggers, Publish(t) \/ LoseKeys(t) PROVE Served
  <2>1. UNCHANGED <<conn, on, topic, from, got, live, cursor>>
    BY <1>2 DEF Publish, LoseKeys, backendVars, clientVars
  <2>2. topic[c] \in Triggers
    BY <2>1 DEF ConnInv
  <2>3. log'[topic[c]] \subseteq log[topic[c]]
    BY <1>2, <2>2 DEF Publish, LoseKeys, storeVars, TypeOK
  <2>4. QED
    BY <1>1, <2>1, <2>3
<1>3. ASSUME NEW b \in Backends, StartRouter(b) \/ ReadEvent(b) \/ TakeSequence(b)
      PROVE  Served
  <2>1. UNCHANGED <<conn, on, topic, from, got, live, log>>
    BY <1>3 DEF StartRouter, ReadEvent, TakeSequence, storeVars, clientVars
  <2>2. on[c] \in Backends /\ phase[on[c]] # "down"
    BY <2>1 DEF ConnInv
  <2>3. cursor'[on[c]] = cursor[on[c]]
    BY <1>3, <2>2 DEF StartRouter, ReadEvent, TakeSequence, TypeOK
  <2>4. QED
    BY <1>1, <2>1, <2>3
<1>4. ASSUME NEW b \in Backends, StoreEvent(b) \/ StoreEventFails(b) PROVE Served
  <2>1. UNCHANGED <<conn, on, topic, from, got, live, cursor>>
    BY <1>4 DEF StoreEvent, StoreEventFails, clientVars
  <2>2. topic[c] \in Triggers
    BY <2>1 DEF ConnInv
  <2>3. CASE x \in log[topic[c]]
    BY <1>1, <2>1, <2>3
  <2>4. CASE x \notin log[topic[c]]
    <3>1. phase[b] = "store" /\ x = Entry(b)
      BY <1>4, <2>1, <2>2, <2>4 DEF StoreEvent, StoreEventFails, storeVars, TypeOK
    <3>2. x.by = b /\ x.ev = event[b]
      BY <3>1 DEF Entry
    <3>3. event[b] > cursor[b]
      BY <3>1 DEF StreamInv, Busy, TypeOK
    <3>4. QED
      BY <2>1, <3>2, <3>3
  <2>5. QED
    BY <2>3, <2>4
<1>5. ASSUME NEW b \in Backends, Relay(b) PROVE Served
  <2>1. UNCHANGED <<conn, on, topic, from, got, log>>
    BY <1>5 DEF Relay, storeVars
  <2>2. CASE on[c] # b
    <3>1. cursor'[on[c]] = cursor[on[c]] /\ live'[c] = live[c]
      BY <1>5, <2>2 DEF Relay, TypeOK
    <3>2. QED
      BY <1>1, <2>1, <3>1
  <2>3. CASE on[c] = b
    <3>1. live'[c] = live[c] \cup {Entry(b)} /\ cursor'[b] = event[b]
      BY <1>5, <2>3 DEF Relay, TypeOK
    <3>2. Entry(b).ev = event[b]
      BY DEF Entry
    <3>3. \/ \E y \in got[c] \cup live[c] : y.ev = x.ev
          \/ x.ev > cursor[b]
      BY <2>1, <2>3 DEF ClientMissesNothing
    <3>4. /\ x.ev \in Nat /\ cursor[b] \in Nat
          /\ x.ev <= cursor[b] \/ x.ev = event[b]
      BY <1>0, <2>1, <2>3 DEF TypeOK
    <3>5. CASE x.ev > cursor[b]
      BY <3>1, <3>2, <3>4, <3>5
    <3>6. CASE \E y \in got[c] \cup live[c] : y.ev = x.ev
      BY <2>1, <3>1, <3>6
    <3>7. QED
      BY <3>3, <3>5, <3>6
  <2>4. QED
    BY <2>2, <2>3
<1>6. ASSUME NEW b \in Backends, Crash(b) PROVE Served
  <2>1. log' = log /\ on[c] # b
    BY <1>6 DEF Crash, Drop, storeVars
  <2>2. /\ conn'[c] = conn[c] /\ on'[c] = on[c] /\ topic'[c] = topic[c]
        /\ from'[c] = from[c] /\ got'[c] = got[c] /\ live'[c] = live[c]
    BY <1>6, <2>1 DEF Crash, Drop
  <2>3. on[c] \in Backends /\ cursor'[on[c]] = cursor[on[c]]
    BY <1>6, <2>1, <2>2 DEF Crash, ConnInv, TypeOK
  <2>4. QED
    BY <1>1, <2>1, <2>2, <2>3
\* The steps of a connection.
<1>7. ASSUME NEW d \in Clients, d # c,
             Serve(d) \/ Disconnect(d)
             \/ \E b \in Backends, t \in Triggers : \E s \in 0..counter[t] :
                   Subscribe(d, b, t, s)
      PROVE  Served
  <2>1. UNCHANGED <<log, cursor>>
    BY <1>7 DEF Serve, Resume, Open, Deliver, Disconnect, Subscribe, storeVars, backendVars
  <2>2. /\ conn'[c] = conn[c] /\ on'[c] = on[c] /\ topic'[c] = topic[c]
        /\ from'[c] = from[c] /\ got'[c] = got[c] /\ live'[c] = live[c]
    BY <1>7 DEF Serve, Resume, Open, Deliver, Disconnect, Drop, Subscribe, TypeOK
  <2>3. QED
    BY <1>1, <2>1, <2>2
<1>8. ASSUME Resume(c) PROVE Served
  <2>1. UNCHANGED <<log, on, topic, from>> /\ got'[c] = StoredFrom(topic[c], from[c])
    BY <1>8 DEF Resume, storeVars, TypeOK
  <2>2. x \in got'[c]
    BY <2>1 DEF StoredFrom
  <2>3. QED
    BY <2>2
<1>9. ASSUME Open(c) PROVE Served
  <2>1. conn[c] = "resuming" /\ UNCHANGED <<on, topic, from, got, live, log, cursor>>
    BY <1>9 DEF Open, storeVars, backendVars
  <2>2. QED
    BY <2>1 DEF ClientMissesNothing
<1>10. ASSUME Deliver(c) PROVE Served
  <2>1. conn[c] = "open" /\ UNCHANGED <<conn, on, topic, from, log, cursor>>
    BY <1>10 DEF Deliver, storeVars, backendVars
  <2>2. PICK z \in live[c] :
              /\ live' = [live EXCEPT ![c] = @ \ {z}]
              /\ got' = [got EXCEPT ![c] = IF trigger[z.ev] = topic[c]
                                           THEN @ \cup {z} ELSE @]
    BY <1>10 DEF Deliver
  <2>3. trigger[x.ev] = topic[c]
    BY <1>0, <2>1
  <2>4. \A y \in got[c] \cup live[c] : y.ev = x.ev => y \in got'[c] \cup live'[c]
    BY <2>2, <2>3 DEF TypeOK
  <2>5. QED
    BY <2>1, <2>4 DEF ClientMissesNothing
<1>11. ASSUME \/ Disconnect(c)
              \/ \E b \in Backends, t \in Triggers : \E s \in 0..counter[t] :
                    Subscribe(c, b, t, s)
       PROVE  FALSE
  BY <1>11 DEF Disconnect, Drop, Subscribe, TypeOK
<1>12. CASE UNCHANGED vars
  BY <1>1, <1>12 DEF vars, clientVars, backendVars, storeVars
<1>. QED
  BY <1>2, <1>3, <1>4, <1>5, <1>6, <1>7, <1>8, <1>9, <1>10, <1>11, <1>12
     DEF Next, Route, Serve

-----------------------------------------------------------------------------
(* The steps keep PipelineInv: what the log, the routers and the           *)
(* connections know of each other holds after each of them.                *)
LEMMA NextPipelineInv == PipelineInv /\ [Next]_vars => PipelineInv'
<1> SUFFICES ASSUME PipelineInv, [Next]_vars PROVE PipelineInv'
  OBVIOUS
<1>1. /\ TypeOK /\ StreamInv /\ LogInv /\ StoredInv /\ NumberInv /\ ConnInv
      /\ SequencesUnique /\ LogFollowsStream /\ NothingSkipped /\ ClientMissesNothing
  BY DEF PipelineInv
<1>2. TypeOK' /\ StreamInv' /\ ConnInv'
  BY <1>1, TypeStep, StreamStep, ConnStep
<1>3. LogInv' /\ StoredInv' /\ NumberInv'
  BY <1>1, LogStep, StoredStep, NumberStep
<1>4. SequencesUnique' /\ LogFollowsStream' /\ NothingSkipped' /\ ClientMissesNothing'
  BY <1>1, UniqueStep, FollowsStep, SkippedStep, MissesStep
<1>. QED
  BY <1>2, <1>3, <1>4 DEF PipelineInv

(* The invariant the theorems below are parts of.                          *)
THEOREM PipelineInductive == Spec => []PipelineInv
<1>. QED
  BY InitPipelineInv, NextPipelineInv, PTL DEF Spec

(* Every variable of the pipeline keeps its type: no backend's cursor runs *)
(* past the stream, whatever is trimmed, lost or restarted.                *)
THEOREM PipelineTypes == Spec => []TypeOK
<1>1. PipelineInv => TypeOK
  BY DEF PipelineInv
<1>. QED
  BY <1>1, PipelineInductive, PTL

(* A sequence number names one event of a run, for any number of backends  *)
(* that take numbers with INCR and store with ZADD in two steps, and       *)
(* repeat both after a failed command.                                     *)
THEOREM NumbersUnique == Spec => []SequencesUnique
<1>1. PipelineInv => SequencesUnique
  BY DEF PipelineInv
<1>. QED
  BY <1>1, PipelineInductive, PTL

(* What one backend stores of a run, it stores in the order in which the   *)
(* runner emitted it, retries and duplicates included.                     *)
THEOREM LogInOrder == Spec => []LogFollowsStream
<1>1. PipelineInv => LogFollowsStream
  BY DEF PipelineInv
<1>. QED
  BY <1>1, PipelineInductive, PTL

(* The router acknowledges no event it has not stored: what is behind its  *)
(* cursor is in the log, was trimmed unread, or was lost with its key.     *)
THEOREM NoneSkipped == Spec => []NothingSkipped
<1>1. PipelineInv => NothingSkipped
  BY DEF PipelineInv
<1>. QED
  BY <1>1, PipelineInductive, PTL

(* A connection to the SSE endpoint misses nothing its backend stores,     *)
(* whenever it was opened between INCR, ZADD and the relay: the order      *)
(* subscribe, read the log, deliver leaves no gap.                         *)
THEOREM NothingMissed == Spec => []ClientMissesNothing
<1>1. PipelineInv => ClientMissesNothing
  BY DEF PipelineInv
<1>. QED
  BY <1>1, PipelineInductive, PTL
=============================================================================
