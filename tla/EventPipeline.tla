--------------------------- MODULE EventPipeline ---------------------------
(***************************************************************************)
(* The way back: lifecycle events from the runners' RedisNotifier          *)
(* (runner/src/services/notifier/redis-notifier.ts) over the Redis stream  *)
(* "workflows:upstream:events:dispatch" to every backend instance's event  *)
(* router (backend/internal/application/event/router.go), into the event   *)
(* log (backend/internal/adapters/events/redis.go) and out to the clients  *)
(* of the SSE endpoint (backend/internal/infra/http/sse.go).               *)
(*                                                                         *)
(* The dispatch subscriber has no consumer group: each backend reads the   *)
(* whole stream with a cursor of its own, kept in memory, that starts at   *)
(* the end of the stream.  Its handler takes one event at a time; an error *)
(* is a nack, after which the same event is handled again.  The libraries  *)
(* (watermill, its Redis stream subscriber, Go channel and SSE router) are *)
(* modelled from the way they are configured.                              *)
(***************************************************************************)
EXTENDS Integers, FiniteSets

CONSTANTS
    Backends,       \* API processes
    Clients,        \* SSE connections, one after the other per client
    Triggers,       \* runs whose events share the dispatch stream
    None,           \* "no backend", "no trigger"
    MaxStreamLen,   \* the notifier's MAXLEN (1000 in production)
    MaxEvents,      \* bound: events the runners publish
    MaxFaults,      \* bound: failed Redis commands, evictions, crashes
    MaxConnects     \* bound: connections

ASSUME NoneAssumption == None \notin Backends \cup Triggers
ASSUME BoundsAssumption ==
    /\ MaxStreamLen \in Nat \ {0}
    /\ {MaxEvents, MaxFaults, MaxConnects} \subseteq Nat

Events == 1..MaxEvents
Numbers == Nat

\* What a backend does with the event at hand: number it (INCR), store it
\* (ZADD and two EXPIREs), relay it to the connections.
Phases == {"down", "idle", "number", "store", "relay"}

\* An entry of the event log. "by" is history: JSON has no such field.
Entries == [seq : Numbers, ev : Events, by : Backends]

VARIABLES
    published, trigger, trimmed,    \* the dispatch stream
    counter,    \* counter[t]: the key "workflow:...:sequence"
    log,        \* log[t]: the sorted set "workflow:...:events"
    phase, cursor, event, seq,      \* the backends
    conn, on, topic, from,          \* the connections
    live,       \* live[c]: relayed to the connection and not yet written
    got,        \* got[c]: what the connection has sent to its client
    connects,
    \* history
    lost,       \* lost[t]: a key of t was evicted or expired
    joined,     \* joined[b]: where b's cursor started
    missed,     \* missed[b]: events trimmed before b read them
    faults

streamVars == <<published, trigger, trimmed>>
storeVars == <<counter, log>>
backendVars == <<phase, cursor, event, seq>>
clientVars == <<conn, on, topic, from, live, got, connects>>
historyVars == <<lost, joined, missed>>
vars == <<streamVars, storeVars, backendVars, clientVars, historyVars, faults>>

Init ==
    /\ published = 0
    /\ trigger = [e \in Events |-> None]
    /\ trimmed = 0
    /\ counter = [t \in Triggers |-> 0]
    /\ log = [t \in Triggers |-> {}]
    /\ phase = [b \in Backends |-> "down"]
    /\ cursor = [b \in Backends |-> 0]
    /\ event = [b \in Backends |-> 0]
    /\ seq = [b \in Backends |-> 0]
    /\ conn = [c \in Clients |-> "off"]
    /\ on = [c \in Clients |-> None]
    /\ topic = [c \in Clients |-> None]
    /\ from = [c \in Clients |-> 0]
    /\ live = [c \in Clients |-> {}]
    /\ got = [c \in Clients |-> {}]
    /\ connects = 0
    /\ lost = [t \in Triggers |-> FALSE]
    /\ joined = [b \in Backends |-> 0]
    /\ missed = [b \in Backends |-> {}]
    /\ faults = 0

Fault == faults < MaxFaults /\ faults' = faults + 1

-----------------------------------------------------------------------------
(* The runners.                                                            *)

\* RedisNotifier.publish: XADD with an approximate MAXLEN.
Publish(t) ==
    /\ published < MaxEvents
    /\ published' = published + 1
    /\ trigger' = [trigger EXCEPT ![published + 1] = t]
    /\ \E k \in trimmed..published :
          /\ k > trimmed => published + 1 - k >= MaxStreamLen
          /\ trimmed' = k
    /\ UNCHANGED <<storeVars, backendVars, clientVars, historyVars, faults>>

-----------------------------------------------------------------------------
(* The backends.                                                           *)

\* Mutant: the subscriber starts at "0" instead of "$".
StartRouterFromOldest(b) ==
    /\ phase[b] = "down"
    /\ phase' = [phase EXCEPT ![b] = "idle"]
    /\ cursor' = [cursor EXCEPT ![b] = 0]
    /\ joined' = [joined EXCEPT ![b] = 0]
    /\ missed' = [missed EXCEPT ![b] = {}]
    /\ UNCHANGED <<streamVars, storeVars, event, seq, clientVars, lost, faults>>

\* Mutant: the cursor is one past the end of the stream.
StartRouterUnread(b) ==
    /\ phase[b] = "down"
    /\ phase' = [phase EXCEPT ![b] = "idle"]
    /\ cursor' = [cursor EXCEPT ![b] = published + 1]
    /\ joined' = [joined EXCEPT ![b] = published + 1]
    /\ missed' = [missed EXCEPT ![b] = {}]
    /\ UNCHANGED <<streamVars, storeVars, event, seq, clientVars, lost, faults>>

\* The router starts to read the dispatch stream, from its end.
StartRouter(b) ==
    /\ phase[b] = "down"
    /\ phase' = [phase EXCEPT ![b] = "idle"]
    /\ cursor' = [cursor EXCEPT ![b] = published]
    /\ joined' = [joined EXCEPT ![b] = published]
    /\ missed' = [missed EXCEPT ![b] = {}]
    /\ UNCHANGED <<streamVars, storeVars, event, seq, clientVars, lost, faults>>

NextEvent(b) == IF trimmed > cursor[b] THEN trimmed + 1 ELSE cursor[b] + 1

\* Mutant: the last event of the stream waits for the next one.
ReadEventLate(b) ==
    /\ phase[b] = "idle"
    /\ NextEvent(b) < published
    /\ event' = [event EXCEPT ![b] = NextEvent(b)]
    /\ missed' = [missed EXCEPT ![b] = @ \cup ((cursor[b] + 1)..trimmed)]
    /\ phase' = [phase EXCEPT ![b] = "number"]
    /\ UNCHANGED <<streamVars, storeVars, cursor, seq, clientVars, lost, joined, faults>>

\* XREAD hands the next event to the handler.
ReadEvent(b) ==
    /\ phase[b] = "idle"
    /\ NextEvent(b) <= published
    /\ event' = [event EXCEPT ![b] = NextEvent(b)]
    /\ missed' = [missed EXCEPT ![b] = @ \cup ((cursor[b] + 1)..trimmed)]
    /\ phase' = [phase EXCEPT ![b] = "number"]
    /\ UNCHANGED <<streamVars, storeVars, cursor, seq, clientVars, lost, joined, faults>>

\* Mutant: the sequence is the number of stored events plus one.
TakeSequenceFromLog(b) ==
    /\ phase[b] = "number"
    /\ LET t == trigger[event[b]] IN
          /\ counter' = [counter EXCEPT ![t] = @ + 1]
          /\ seq' = [seq EXCEPT ![b] = Cardinality(log[t]) + 1]
    /\ phase' = [phase EXCEPT ![b] = "store"]
    /\ UNCHANGED <<streamVars, log, cursor, event, clientVars, historyVars, faults>>

\* StoreEvent: INCR of the sequence key.
TakeSequence(b) ==
    /\ phase[b] = "number"
    /\ LET t == trigger[event[b]] IN
          /\ counter' = [counter EXCEPT ![t] = @ + 1]
          /\ seq' = [seq EXCEPT ![b] = counter[t] + 1]
    /\ phase' = [phase EXCEPT ![b] = "store"]
    /\ UNCHANGED <<streamVars, log, cursor, event, clientVars, historyVars, faults>>

Entry(b) == [seq |-> seq[b], ev |-> event[b], by |-> b]

\* StoreEvent: the pipeline of ZADD and the EXPIREs.
StoreEvent(b) ==
    /\ phase[b] = "store"
    /\ log' = [log EXCEPT ![trigger[event[b]]] = @ \cup {Entry(b)}]
    /\ phase' = [phase EXCEPT ![b] = "relay"]
    /\ UNCHANGED <<streamVars, counter, cursor, event, seq, clientVars,
                   historyVars, faults>>

\* Mutant: the handler logs the error and acknowledges.
StoreEventGivesUp(b) ==
    /\ phase[b] \in {"number", "store"}
    /\ Fault
    /\ phase' = [phase EXCEPT ![b] = "idle"]
    /\ cursor' = [cursor EXCEPT ![b] = event[b]]
    /\ UNCHANGED <<streamVars, storeVars, event, seq, clientVars, historyVars>>

\* A command of StoreEvent fails, executed or not: the handler's error is a
\* nack and the event is handled again, with a number of its own.
StoreEventFails(b) ==
    /\ phase[b] \in {"number", "store"}
    /\ Fault
    /\ LET t == trigger[event[b]] IN
          \/ UNCHANGED storeVars
          \/ /\ phase[b] = "number"
             /\ counter' = [counter EXCEPT ![t] = @ + 1]
             /\ UNCHANGED log
          \/ /\ phase[b] = "store"
             /\ log' = [log EXCEPT ![t] = @ \cup {Entry(b)}]
             /\ UNCHANGED counter
    /\ phase' = [phase EXCEPT ![b] = "number"]
    /\ UNCHANGED <<streamVars, cursor, event, seq, clientVars, historyVars>>

\* Mutant: a connection is subscribed only once its resume is written.
RelayToOpen(b) ==
    /\ phase[b] = "relay"
    /\ live' = [c \in Clients |-> IF on[c] = b /\ conn[c] = "open"
                                  THEN live[c] \cup {Entry(b)} ELSE live[c]]
    /\ cursor' = [cursor EXCEPT ![b] = event[b]]
    /\ phase' = [phase EXCEPT ![b] = "idle"]
    /\ UNCHANGED <<streamVars, storeVars, event, seq, conn, on, topic, from,
                   got, connects, historyVars, faults>>

\* The handler returns: the message goes to the internal topic and from there
\* to every connection of this backend, then the event is acknowledged.
Relay(b) ==
    /\ phase[b] = "relay"
    /\ live' = [c \in Clients |-> IF on[c] = b THEN live[c] \cup {Entry(b)}
                                               ELSE live[c]]
    /\ cursor' = [cursor EXCEPT ![b] = event[b]]
    /\ phase' = [phase EXCEPT ![b] = "idle"]
    /\ UNCHANGED <<streamVars, storeVars, event, seq, conn, on, topic, from,
                   got, connects, historyVars, faults>>

-----------------------------------------------------------------------------
(* The connections.                                                        *)

\* A client connects: the SSE router subscribes it to the internal topic.
Subscribe(c, b, t, s) ==
    /\ conn[c] = "off"
    /\ phase[b] # "down"
    /\ connects < MaxConnects
    /\ connects' = connects + 1
    /\ conn' = [conn EXCEPT ![c] = "subscribed"]
    /\ on' = [on EXCEPT ![c] = b]
    /\ topic' = [topic EXCEPT ![c] = t]
    /\ from' = [from EXCEPT ![c] = s]
    /\ UNCHANGED <<streamVars, storeVars, backendVars, live, got, historyVars, faults>>

\* ReadWorkflowEvents: ZRANGEBYSCORE, the client's sequence included.
StoredFrom(t, s) == {x \in log[t] : x.seq >= s}

\* InitialStreamResponse: the stored events from the client's sequence on.
Resume(c) ==
    /\ conn[c] = "subscribed"
    /\ conn' = [conn EXCEPT ![c] = "resuming"]
    /\ got' = [got EXCEPT ![c] = StoredFrom(topic[c], from[c])]
    /\ UNCHANGED <<streamVars, storeVars, backendVars, on, topic, from, live,
                   connects, historyVars, faults>>

\* The "resume" event is written, and the connection turns to its messages.
Open(c) ==
    /\ conn[c] = "resuming"
    /\ conn' = [conn EXCEPT ![c] = "open"]
    /\ UNCHANGED <<streamVars, storeVars, backendVars, on, topic, from, live, got,
                   connects, historyVars, faults>>

\* Mutant: the test on the trigger is the wrong way round.
DeliverOthers(c) ==
    /\ conn[c] = "open"
    /\ \E x \in live[c] :
          /\ live' = [live EXCEPT ![c] = @ \ {x}]
          /\ got' = [got EXCEPT ![c] = IF trigger[x.ev] # topic[c]
                                       THEN @ \cup {x} ELSE @]
    /\ UNCHANGED <<streamVars, storeVars, backendVars, conn, on, topic, from,
                   connects, historyVars, faults>>

\* NextStreamResponse: an event of the client's trigger is written, any other
\* is skipped.
Deliver(c) ==
    /\ conn[c] = "open"
    /\ \E x \in live[c] :
          /\ live' = [live EXCEPT ![c] = @ \ {x}]
          /\ got' = [got EXCEPT ![c] = IF trigger[x.ev] = topic[c]
                                       THEN @ \cup {x} ELSE @]
    /\ UNCHANGED <<streamVars, storeVars, backendVars, conn, on, topic, from,
                   connects, historyVars, faults>>

\* The connections in C end, and with them what was on its way to them.
Drop(C) ==
    /\ conn' = [c \in Clients |-> IF c \in C THEN "off" ELSE conn[c]]
    /\ on' = [c \in Clients |-> IF c \in C THEN None ELSE on[c]]
    /\ topic' = [c \in Clients |-> IF c \in C THEN None ELSE topic[c]]
    /\ from' = [c \in Clients |-> IF c \in C THEN 0 ELSE from[c]]
    /\ live' = [c \in Clients |-> IF c \in C THEN {} ELSE live[c]]
    /\ got' = [c \in Clients |-> IF c \in C THEN {} ELSE got[c]]
    /\ UNCHANGED connects

\* The client goes away, or InitialStreamResponse cannot read the log.
Disconnect(c) ==
    /\ conn[c] # "off"
    /\ Drop({c})
    /\ UNCHANGED <<streamVars, storeVars, backendVars, historyVars, faults>>

-----------------------------------------------------------------------------
(* The environment.                                                        *)

\* The backend process ends; its cursor was nowhere else.
Crash(b) ==
    /\ phase[b] # "down"
    /\ Fault
    /\ phase' = [phase EXCEPT ![b] = "down"]
    /\ event' = [event EXCEPT ![b] = 0]
    /\ seq' = [seq EXCEPT ![b] = 0]
    /\ cursor' = [cursor EXCEPT ![b] = 0]
    /\ joined' = [joined EXCEPT ![b] = 0]
    /\ missed' = [missed EXCEPT ![b] = {}]
    /\ Drop({c \in Clients : on[c] = b})
    /\ UNCHANGED <<streamVars, storeVars, lost>>

\* Keys of a run expire five minutes after its last event, or are evicted.
LoseKeys(t) ==
    /\ Fault
    /\ \/ counter' = [counter EXCEPT ![t] = 0] /\ UNCHANGED log
       \/ log' = [log EXCEPT ![t] = {}] /\ UNCHANGED counter
    /\ storeVars' # storeVars
    /\ lost' = [lost EXCEPT ![t] = TRUE]
    /\ UNCHANGED <<streamVars, backendVars, clientVars, joined, missed>>

-----------------------------------------------------------------------------
Route(b) == ReadEvent(b) \/ TakeSequence(b) \/ StoreEvent(b) \/ Relay(b)

Serve(c) == Resume(c) \/ Open(c) \/ Deliver(c)

Next ==
    \/ \E t \in Triggers : Publish(t) \/ LoseKeys(t)
    \/ \E b \in Backends : StartRouter(b) \/ Route(b) \/ StoreEventFails(b) \/ Crash(b)
    \/ \E c \in Clients :
          \/ Serve(c)
          \/ Disconnect(c)
          \/ \E b \in Backends, t \in Triggers : \E s \in 0..counter[t] : Subscribe(c, b, t, s)

Spec == Init /\ [][Next]_vars

\* The router's goroutine and the connections' goroutines run, and Redis
\* answers. Nothing need be published, nobody need connect, start or fail.
Fairness ==
    /\ \A b \in Backends : WF_vars(Route(b))
    /\ \A c \in Clients : WF_vars(Serve(c))

FairSpec == Spec /\ Fairness

-----------------------------------------------------------------------------
TypeOK ==
    /\ published \in 0..MaxEvents
    /\ trigger \in [Events -> Triggers \cup {None}]
    /\ trimmed \in 0..published
    /\ counter \in [Triggers -> Numbers]
    /\ log \in [Triggers -> SUBSET Entries]
    /\ phase \in [Backends -> Phases]
    /\ cursor \in [Backends -> 0..published]
    /\ event \in [Backends -> 0..published]
    /\ seq \in [Backends -> Numbers]
    /\ conn \in [Clients -> {"off", "subscribed", "resuming", "open"}]
    /\ on \in [Clients -> Backends \cup {None}]
    /\ topic \in [Clients -> Triggers \cup {None}]
    /\ from \in [Clients -> Numbers]
    /\ live \in [Clients -> SUBSET Entries]
    /\ got \in [Clients -> SUBSET Entries]
    /\ connects \in 0..MaxConnects
    /\ lost \in [Triggers -> BOOLEAN]
    /\ joined \in [Backends -> 0..published]
    /\ missed \in [Backends -> SUBSET Events]
    /\ faults \in 0..MaxFaults

(* A sequence names one event: the numbers backends hand out next to each  *)
(* other, and again after a failed command, never collide while the keys   *)
(* of the run live.                                                        *)
SequencesUnique ==
    \A t \in Triggers : ~lost[t] => \A x, y \in log[t] : x.seq = y.seq => x = y

(* The log of a run keeps the order of the dispatch stream, and so the     *)
(* order in which the runner emitted the events, whatever is retried or    *)
(* stored twice after an error: of the entries one backend stored, those   *)
(* with larger numbers are not older.                                      *)
LogFollowsStream ==
    \A t \in Triggers : ~lost[t] =>
        \A x, y \in log[t] : x.by = y.by /\ x.seq < y.seq => x.ev <= y.ev

(* A backend moves its cursor over no event it has not stored, unless the  *)
(* stream was trimmed before it read the event or the log lost its key.    *)
NothingSkipped ==
    \A b \in Backends : \A e \in (joined[b] + 1)..cursor[b] :
        \/ e \in missed[b]
        \/ lost[trigger[e]]
        \/ \E x \in log[trigger[e]] : x.by = b /\ x.ev = e

(* A connection misses nothing its backend stores: each event of its *)
(* run that was stored from the client's sequence on was in the resume, is *)
(* written, is on its way to the connection, or is about to be relayed,    *)
(* whenever the client connected between INCR, ZADD and the relay.         *)
ClientMissesNothing ==
    \A c \in Clients : conn[c] \in {"resuming", "open"} =>
        \A x \in log[topic[c]] :
            x.by = on[c] /\ x.seq >= from[c] =>
                \/ \E y \in got[c] \cup live[c] : y.ev = x.ev
                \/ x.ev > cursor[on[c]]

(* A backend that stays up handles every event that stays in the stream,   *)
(* failed commands before it notwithstanding.                              *)
BackendKeepsUp ==
    \A b \in Backends : \A e \in Events :
        (phase[b] # "down" /\ published >= e) ~> (cursor[b] >= e \/ phase[b] = "down")

(* A client that stays connected is eventually sent every event its        *)
(* backend stored for it.                                                  *)
ClientCatchesUp ==
    \A c \in Clients : \A e \in Events :
        (\E t \in Triggers : /\ conn[c] = "open"
                             /\ topic[c] = t
                             /\ \E x \in log[t] : /\ x.by = on[c]
                                                  /\ x.seq >= from[c]
                                                  /\ x.ev = e)
            ~> (conn[c] = "off" \/ \E y \in got[c] : y.ev = e)

-----------------------------------------------------------------------------
(* What the invariants above rest on.                                      *)

Busy(b) == phase[b] \in {"number", "store", "relay"}

\* The stream: what is published belongs to a run, and a busy backend handles
\* an event beyond its cursor; what lies between was trimmed unread.
StreamInv ==
    /\ \A e \in 1..published : trigger[e] \in Triggers
    /\ \A b \in Backends :
          /\ joined[b] <= cursor[b]
          /\ Busy(b) =>
                /\ event[b] \in (cursor[b] + 1)..published
                /\ (cursor[b] + 1)..(event[b] - 1) \subseteq missed[b]

\* The log: an entry is of an event of its run, and not ahead of the backend
\* that stored it.
LogInv ==
    \A t \in Triggers : \A x \in log[t] :
        /\ x.ev \in 1..published
        /\ trigger[x.ev] = t
        /\ phase[x.by] # "down" =>
              x.ev <= cursor[x.by] \/ (Busy(x.by) /\ x.ev = event[x.by])

\* The event about to be relayed is stored.
StoredInv ==
    \A b \in Backends : phase[b] = "relay" =>
        \/ lost[trigger[event[b]]]
        \/ \E x \in log[trigger[event[b]]] : x.by = b /\ x.ev = event[b]

\* b has a number of t's that is not in the log yet.
Holds(b, t) == phase[b] = "store" /\ trigger[event[b]] = t

\* The numbers: those in the log and in the hands of backends were taken from
\* the counter, each once, and a backend's own entries have smaller ones.
NumberInv ==
    \A t \in Triggers : ~lost[t] =>
        /\ \A x \in log[t] : x.seq <= counter[t]
        /\ \A b \in Backends : Holds(b, t) =>
              /\ seq[b] <= counter[t]
              /\ \A x \in log[t] : x.seq # seq[b] /\ (x.by = b => x.seq < seq[b])
              /\ \A a \in Backends \ {b} : Holds(a, t) => seq[a] # seq[b]

\* A connection is to a backend that is up.
ConnInv ==
    \A c \in Clients : conn[c] # "off" =>
        on[c] \in Backends /\ phase[on[c]] # "down" /\ topic[c] \in Triggers

PipelineInv ==
    /\ TypeOK
    /\ StreamInv /\ LogInv /\ StoredInv /\ NumberInv /\ ConnInv
    /\ SequencesUnique /\ LogFollowsStream /\ NothingSkipped /\ ClientMissesNothing
=============================================================================
