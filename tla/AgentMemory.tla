---------------------------- MODULE AgentMemory ----------------------------
(***************************************************************************)
(* An agent node with a local memory (runner/src/nodes/agent/agent.ts,     *)
(* runner/src/memory/local-memory.ts): what the runs of one agent read     *)
(* from, and add to, the conversation of their session in Redis.           *)
(*                                                                         *)
(* A run reads the conversation, lets the model answer in chunks, and adds *)
(* the turn when the answer is complete: it reads the conversation again   *)
(* and writes it back one turn longer.  Nothing excludes two runs of a     *)
(* session.  A failure to read or to write is at most logged: the run goes *)
(* on and succeeds.  A turn is named by its run.                           *)
(***************************************************************************)
EXTENDS TestRuns, Naturals, SequencesExt

CONSTANTS
    NoSession,  \* the run has not started
    MaxChunks,  \* bound: chunks of an answer
    MaxFaults   \* bound: failed commands, lost replies and lost keys

ASSUME MemoryAssumption ==
    /\ NoSession \notin Sessions
    /\ MaxChunks \in Nat /\ MaxFaults \in Nat

VARIABLES
    history,    \* the value of history:<session>:<node>, <<>> without the key
    session,    \* session[r]: the session run r belongs to
    stage,      \* what execute() of run r waits for, or how it returned
    recalled,   \* recalled[r]: the turns the model was given
    chunks,     \* chunks[r]: the chunks published as NODE_RESULT
    copy,       \* copy[r]: the turns that addMessages read
    earlier,    \* history: the runs of the session that were done when r began
    met,        \* history: pairs of runs that were adding a turn at once
    lost,       \* history: the sessions that a fault took turns from
    faults

ghosts == <<earlier, met>>
agentVars == <<history, session, stage, recalled, chunks, copy, ghosts, lost, faults>>

Stages == {"idle", "recalling", "answering", "saving", "writing", "resending", "done", "failed"}

\* Runs in these stages have written their turn, or are about to.
Adders == {"writing", "resending"}

Of(s) == {r \in Runs : session[r] = s}

AgentInit ==
    /\ history = [s \in Sessions |-> <<>>]
    /\ session = [r \in Runs |-> NoSession]
    /\ stage = [r \in Runs |-> "idle"]
    /\ recalled = [r \in Runs |-> <<>>]
    /\ chunks = [r \in Runs |-> 0]
    /\ copy = [r \in Runs |-> <<>>]
    /\ earlier = [r \in Runs |-> {}]
    /\ met = {} /\ lost = {} /\ faults = 0

Goto(r, next) == stage' = [stage EXCEPT ![r] = next]

Fault(r) ==
    /\ faults < MaxFaults
    /\ faults' = faults + 1
    /\ lost' = lost \cup {session[r]}

NoFault == UNCHANGED <<faults, lost>>

\* execute(): the memory and the model are created, and GET is sent.
Execute(r, s) ==
    /\ stage[r] = "idle"
    /\ session' = [session EXCEPT ![r] = s]
    /\ earlier' = [earlier EXCEPT ![r] = {q \in Of(s) : stage[q] = "done"}]
    /\ Goto(r, "recalling")
    /\ UNCHANGED <<history, recalled, chunks, copy, met, lost, faults>>

\* getMessages: after an error the agent answers without the conversation.
GetMessages(r) ==
    /\ stage[r] = "recalling"
    /\ Goto(r, "answering")
    /\ \/ recalled' = [recalled EXCEPT ![r] = history[session[r]]] /\ NoFault
       \/ UNCHANGED recalled /\ Fault(r)
    /\ UNCHANGED <<history, session, chunks, copy, ghosts>>

\* A chunk from the model, in any of the calls of the agent's loop.
Stream(r) ==
    /\ stage[r] = "answering"
    /\ chunks[r] < MaxChunks
    /\ chunks' = [chunks EXCEPT ![r] = @ + 1]
    /\ UNCHANGED <<history, session, stage, recalled, copy, ghosts, lost, faults>>

\* The stream is at its end: addMessages sends GET.
AnswerEnds(r) ==
    /\ stage[r] = "answering"
    /\ Goto(r, "saving")
    /\ UNCHANGED <<history, session, recalled, chunks, copy, ghosts, lost, faults>>

\* The agent cannot be set up, or the model or the stream throws: the node
\* fails, and nothing is added.
Fails(r) ==
    /\ stage[r] \in {"recalling", "answering"}
    /\ Goto(r, "failed")
    /\ UNCHANGED <<history, session, recalled, chunks, copy, ghosts, lost, faults>>

Adding(r) == {q \in Of(session[r]) \ {r} : stage[q] \in Adders}

\* Mutant: the turn is added to the conversation as it was when the run began.
FetchOnce(r) ==
    /\ stage[r] = "saving"
    /\ Goto(r, "writing")
    /\ copy' = [copy EXCEPT ![r] = recalled[r]]
    /\ met' = met \cup {{r, q} : q \in Adding(r)}
    /\ UNCHANGED <<history, session, recalled, chunks, earlier, lost, faults>>

\* addMessages: the conversation is read again.
Fetch(r) ==
    /\ stage[r] = "saving"
    /\ \/ /\ Goto(r, "writing")
          /\ copy' = [copy EXCEPT ![r] = history[session[r]]]
          /\ met' = met \cup {{r, q} : q \in Adding(r)}
          /\ NoFault
       \/ /\ Goto(r, "done")
          /\ Fault(r)
          /\ UNCHANGED <<copy, met>>
    /\ UNCHANGED <<history, session, recalled, chunks, earlier>>

\* addMessages: and written back. When the reply is lost the client sends the
\* command again; when it gives up the error goes unnoticed.
Set(r) ==
    /\ stage[r] \in Adders
    /\ \/ /\ history' = [history EXCEPT ![session[r]] = Append(copy[r], r)]
          /\ \/ Goto(r, "done") /\ NoFault
             \/ /\ Goto(r, "resending")
                /\ faults < MaxFaults /\ faults' = faults + 1
                /\ UNCHANGED lost
       \/ Goto(r, "done") /\ Fault(r) /\ UNCHANGED history
    /\ UNCHANGED <<session, recalled, chunks, copy, ghosts>>

\* The key expires an hour after it was written, or is evicted.
Expire(s) ==
    /\ history[s] # <<>>
    /\ faults < MaxFaults
    /\ faults' = faults + 1
    /\ lost' = lost \cup {s}
    /\ history' = [history EXCEPT ![s] = <<>>]
    /\ UNCHANGED <<session, stage, recalled, chunks, copy, ghosts>>

Proceed(r) == GetMessages(r) \/ Stream(r) \/ AnswerEnds(r) \/ Fails(r) \/ Fetch(r) \/ Set(r)
-----------------------------------------------------------------------------
AgentTypeOK ==
    /\ history \in [Sessions -> Seq(Runs)]
    /\ session \in [Runs -> Sessions \cup {NoSession}]
    /\ stage \in [Runs -> Stages]
    /\ \A r \in Runs : (stage[r] = "idle") = (session[r] = NoSession)
    /\ recalled \in [Runs -> Seq(Runs)] /\ copy \in [Runs -> Seq(Runs)]
    /\ chunks \in [Runs -> 0..MaxChunks]
    /\ earlier \in [Runs -> SUBSET Runs] /\ met \subseteq SUBSET Runs
    /\ lost \subseteq Sessions /\ faults \in 0..MaxFaults

\* A conversation has only answered turns of its own session, each once, and
\* in order: no turn stands before one that was done when its run began.
InOrder(s, turns) ==
    /\ IsInjective(turns)
    /\ \A r \in ToSet(turns) : session[r] = s /\ stage[r] \in Adders \cup {"done"}
    /\ \A i, j \in DOMAIN turns : i < j => turns[j] \notin earlier[turns[i]]

Ordered == \A s \in Sessions : InOrder(s, history[s])

\* A turn that a run has added stays, unless a fault took it or another run of
\* the session was adding its own between the GET and the SET.
TurnsKept ==
    \A r \in Runs :
        stage[r] = "done" /\ session[r] \notin lost =>
            r \in ToSet(history[session[r]]) \cup UNION met

\* The model is given every turn that was done when its run began, under the
\* same conditions.
Remembered ==
    \A r \in Runs :
        stage[r] \in Stages \ {"idle", "recalling", "failed"} /\ session[r] \notin lost =>
            earlier[r] \subseteq ToSet(recalled[r]) \cup UNION met

\* What a session's conversation keeps and gives to later runs, although
\* local-memory.ts reads and writes it back without excluding anyone.
ConversationKept == Ordered /\ TurnsKept /\ Remembered

-----------------------------------------------------------------------------
(* What ConversationKept rests on (TestSessionProofs).                     *)

\* The runs that were done before run r of the same session began.
EarlierInv ==
    \A r \in Runs : \A q \in earlier[r] : stage[q] = "done" /\ session[q] = session[r]

\* What is about to be written back is in order, and is without its turn.
CopyInv ==
    \A r \in Runs : stage[r] \in Adders =>
        InOrder(session[r], copy[r]) /\ r \notin ToSet(copy[r])

\* Runs of a session that add their turns at once have met.
MeetInv ==
    \A r, q \in Runs :
        r # q /\ {stage[r], stage[q]} \subseteq Adders /\ session[r] = session[q] => {r, q} \in met

\* Writing back takes no turn away but of a run that was met.
WriteInv ==
    \A r, q \in Runs :
        /\ stage[r] \in Adders /\ stage[q] = "done"
        /\ session[r] = session[q] /\ session[r] \notin lost
        => q \in ToSet(copy[r]) \cup UNION met

MemoryInv ==
    /\ AgentTypeOK
    /\ EarlierInv /\ CopyInv /\ MeetInv /\ WriteInv
    /\ Ordered /\ TurnsKept /\ Remembered
=============================================================================
