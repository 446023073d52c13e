---------------------------- MODULE TestSession ----------------------------
(***************************************************************************)
(* Trying out a flow with an agent, its memory, and a node after it: the   *)
(* dialog of the dashboard (TestDialog) starts runs that the runner        *)
(* executes (AgentMemory), and is told their events.  Between them, each   *)
(* run's events form a sequence of which a prefix has been delivered; how  *)
(* they get there is EventPipeline's subject.                              *)
(***************************************************************************)
EXTENDS AgentMemory, TestDialog

CONSTANTS
    MaxBehind,      \* bound: events of a run that are under way
    MaxDisturbances \* bound: clicks and faults together

VARIABLES
    after,  \* after[r]: how the node after the agent returned in run r
    told    \* told[r]: how many events of run r have been delivered

vars == <<agentVars, dialogVars, after, told>>

On(name, node) == [name |-> name, node |-> node]

Failed(r) == stage[r] = "failed" \/ after[r] = "failed"
Ended(r) == Failed(r) \/ after[r] = "ended"

\* What is told when the agent, and the node after it, have returned; the
\* result is a node that is executed too.
Ending(agent, next) ==
    CASE agent = "failed" -> <<On("nodeFail", "agent"), On("flowFail", "result")>>
      [] agent = "done" ->
           <<On("nodeEnd", "agent"), On("nodeStart", "after")>>
           \o (CASE next = "ended" ->
                    <<On("nodeEnd", "after"), On("nodeStart", "result"),
                      On("nodeEnd", "result"), On("flowEnd", "result")>>
                 [] next = "failed" ->
                    <<On("nodeFail", "after"), On("flowFail", "result")>>
                 [] OTHER -> <<>>)
      [] OTHER -> <<>>

EventsOf(agent, texts, next) ==
    IF agent = "idle" THEN <<>>
    ELSE <<On("nodeStart", "agent")>>
         \o [i \in 1..texts |-> On("flowResultStream", "agent")]
         \o Ending(agent, next)

\* The events run r has caused.
Events(r) == EventsOf(stage[r], chunks[r], after[r])

Init ==
    /\ AgentInit /\ DialogInit
    /\ after = [r \in Runs |-> "waiting"]
    /\ told = [r \in Runs |-> 0]

\* handleRunFlow reaches the runner with the session it was clicked with.
Start(r, i) ==
    /\ \A q \in Runs : q < r => stage[q] # "idle"
    /\ StartRun(r, i)
    /\ Execute(r, awaiting[i])
    /\ UNCHANGED <<after, told>>

Deliver(r) ==
    /\ told[r] < Len(Events(r))
    /\ told' = [told EXCEPT ![r] = @ + 1]
    /\ Hear(r, told'[r], Events(r)[told'[r]])
    /\ UNCHANGED <<agentVars, after>>

\* The node after the agent returns, or throws.
AfterReturns(r) ==
    /\ stage[r] = "done" /\ after[r] = "waiting"
    /\ \E how \in {"ended", "failed"} : after' = [after EXCEPT ![r] = how]
    /\ UNCHANGED agentVars

\* The runner goes on, not too far ahead of the dialog.
ProceedHeard(r) ==
    /\ Len(Events(r)) < told[r] + MaxBehind
    /\ \/ Proceed(r) /\ UNCHANGED after
       \/ AfterReturns(r)
    /\ UNCHANGED <<dialogVars, told>>

Step ==
    \/ (User \/ \E i \in DOMAIN awaiting : NoToken(i)) /\ UNCHANGED <<agentVars, after, told>>
    \/ \E r \in Runs, i \in DOMAIN awaiting : Start(r, i)
    \/ \E r \in Runs : ProceedHeard(r)
    \/ \E s \in Sessions : Expire(s) /\ UNCHANGED <<dialogVars, after, told>>
    \/ \E r \in Runs : Deliver(r)

Next == Step /\ clicks' + faults' <= MaxDisturbances

Spec == Init /\ [][Next]_vars

\* The model's answers end (an agent's loop is limited by LangGraph, a call by
\* its client) and events are delivered.
FairSpec ==
    /\ Spec
    /\ \A r \in Runs : WF_vars(ProceedHeard(r) /\ clicks' + faults' <= MaxDisturbances)
    /\ \A r \in Runs : WF_vars(Deliver(r))
-----------------------------------------------------------------------------
\* The variables have their types, and no event is delivered twice or before
\* it happened.
TypeOK ==
    /\ AgentTypeOK /\ DialogTypeOK
    /\ \A r \in Runs : told[r] \in 0..Len(Events(r))

\* Unless two starts overlapped or the pane of the events was opened, the
\* results are the texts of the run started last, in order and, while the
\* dialog listens, without a gap; an error is that run's.
ResultsOfOneRun ==
    ~doubled =>
        /\ ~shuffled =>
              /\ \A i \in DOMAIN results : results[i] = [run |-> subscription, number |-> i + 1]
              /\ subscription \in listening =>
                    Len(results) = Cardinality({i \in 1..told[subscription] :
                                        Events(subscription)[i].name = "flowResultStream"})
        /\ flowError => Failed(subscription)

\* The delivered events of run r that are drawn at a node.
About(r, node) ==
    {i \in 1..told[r] : Events(r)[i].node = node /\ Events(r)[i].name \in DOMAIN Shown}

\* No run before the subscription's was stopped or closed.
Uninterrupted == \A q \in Runs : q < subscription => q \in listening

\* A node shows what run r told of it last, or what an older run told of it.
ShowsLast(r, node) ==
    \A i \in About(r, node) :
        (\A j \in About(r, node) : j <= i) => picture[node] = Shown[Events(r)[i].name]
ShowsOlder(r, node) ==
    \E q \in Runs : q < r /\ \E i \in About(q, node) : picture[node] = Shown[Events(q)[i].name]

\* A picture that was there when the run of the subscription began shows of
\* each node what that run told last.  A node of which it has told nothing
\* may still show what an older run told while the token was awaited, but
\* only after a run was stopped or closed, or starts overlapped.
PictureOfRun ==
    subscription # NoRun /\ ~partial =>
        \A node \in Nodes :
            /\ ShowsLast(subscription, node)
            /\ About(subscription, node) = {} /\ picture[node] # "idle" =>
                  (doubled \/ ~Uninterrupted) /\ ShowsOlder(subscription, node)

\* What the dialog shows of the run that was started last is what that run
\* told, and what else it shows an older run told.
DialogFaithful == ResultsOfOneRun /\ PictureOfRun

(* What DialogFaithful rests on (TestSessionProofs).                       *)

DialogTypes ==
    /\ {open, isRunning, flowError, reversing, doubled, shuffled, partial} \subseteq BOOLEAN
    /\ subscription \in Runs \cup {NoRun} /\ unsubscribes \in Runs \cup {NoRun}
    /\ listening \subseteq Runs /\ attached \subseteq {subscription} \ {NoRun}
    /\ results \in Seq([run : Runs, number : Nat])
    /\ picture \in [Nodes -> Statuses]

\* How many events run r has caused, and how many texts have been delivered.
Caused(r) ==
    CASE stage[r] = "idle"   -> 0
      [] stage[r] = "failed" -> chunks[r] + 3
      [] stage[r] = "done"   ->
           chunks[r] + (CASE after[r] = "ended" -> 7 [] after[r] = "failed" -> 5 [] OTHER -> 3)
      [] OTHER               -> chunks[r] + 1
Texts(r) ==
    IF told[r] = 0 THEN 0 ELSE IF told[r] - 1 <= chunks[r] THEN told[r] - 1 ELSE chunks[r]

ToldInv ==
    /\ told \in [Runs -> Nat]
    /\ after \in [Runs -> {"waiting", "ended", "failed"}]
    /\ \A r \in Runs : told[r] <= Caused(r) /\ (after[r] # "waiting" => stage[r] = "done")

Over(r) == Ended(r) /\ told[r] = Caused(r)

\* One call at a time waits for its token, and none while a run is running.
AwaitInv == ~doubled => Len(awaiting) <= 1 /\ (isRunning => awaiting = <<>>)

\* The dialog listens to runs whose last event it has heard, and to the one
\* that is running, whose callbacks are the ones that would be removed.
ListenInv ==
    /\ subscription \in listening \/ isRunning => unsubscribes = subscription
    /\ \A r \in listening : stage[r] # "idle"
    /\ ~doubled => \A r \in listening : Over(r) \/ (isRunning /\ r = subscription)

TextsInv ==
    ~doubled =>
        /\ ~shuffled =>
              /\ \A i \in DOMAIN results : results[i] = [run |-> subscription, number |-> i + 1]
              /\ subscription \in listening => Len(results) = Texts(subscription)
        /\ flowError => subscription \in Runs /\ Failed(subscription)

\* Runs are started in order. A picture that waits for the token is empty when
\* the dialog still listens to the run before, which has told its end; and
\* whatever a picture shows was told by a run.
DrawnInv ==
    /\ \A q, p \in Runs : p < q /\ stage[q] # "idle" => stage[p] # "idle"
    /\ subscription # NoRun => stage[subscription] # "idle"
    /\ ~doubled /\ awaiting # <<>> /\ subscription \in listening \cup {NoRun} => picture = Idle
    /\ \A node \in Nodes :
          \/ picture[node] = "idle"
          \/ \E q \in Runs : \E i \in About(q, node) : picture[node] = Shown[Events(q)[i].name]

\* A picture that was there when the run began has drawn every event of it.
PictureInv ==
    /\ open \/ partial
    /\ ~partial /\ subscription # NoRun => attached = {subscription}
    /\ PictureOfRun

DialogInv ==
    DialogTypes /\ ToldInv /\ AwaitInv /\ ListenInv /\ TextsInv /\ DrawnInv /\ PictureInv

\* The button that stops a run goes away again: every run the dialog believes
\* to be running ends, is stopped or is closed.
RunEnds == isRunning ~> ~isRunning
=============================================================================
