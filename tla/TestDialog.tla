---------------------------- MODULE TestDialog ----------------------------
(***************************************************************************)
(* The dialog in which a flow is tried out                                 *)
(* (frontend/src/components/builder/test-flow-dialog): the button that     *)
(* starts and stops, the results, and the picture of the running flow.     *)
(*                                                                         *)
(* The dialog has callbacks for the results and the end of a run; the      *)
(* picture (RunningFlow) has its own.  Stopping takes only the dialog's    *)
(* callbacks away, and the run goes on.  Starting waits for a token, and   *)
(* the button can be clicked again meanwhile.                              *)
(*                                                                         *)
(* The picture keeps a status for every node and tool.  Here the flow has  *)
(* an agent, a node after it, which a run need not reach (as it need not   *)
(* call a tool), and the result.  (The entrypoint, which every run is      *)
(* through before its agent begins, is left out.)  The SDK that delivers   *)
(* the events is not part of the repository: it is taken to deliver those  *)
(* of a run in order, and not before React has run the effects of its      *)
(* start.                                                                  *)
(***************************************************************************)
EXTENDS TestRuns, Naturals, FiniteSets, SequencesExt

CONSTANTS
    NoRun,
    FirstSession, \* the session the dialog is made with
    MaxClicks   \* bound: clicks on anything but "Test flow" and what opens the dialog

ASSUME SessionAssumption == FirstSession \in Sessions /\ NoRun \notin Runs

VARIABLES
    open, isRunning, sessionId, flowError,
    awaiting,     \* the sessions of the calls of handleRunFlow that wait for a token
    subscription, \* flowSubscription: the run started last
    unsubscribes, \* the run whose callbacks are removed by stopping and closing
    listening,    \* the runs the dialog has callbacks for
    results,      \* the texts shown, [run, number of its event]
    reversing,    \* the pane of the event streams is shown
    attached,     \* the runs RunningFlow has callbacks for
    picture,      \* RunningFlow: the status of each node
    clicks,
    doubled,      \* history: a run was started while another start was awaiting
    shuffled,     \* history: the results shown were reversed in place
    partial       \* history: the picture is younger than the subscription's run

button == <<isRunning, awaiting, doubled>>
callbacks == <<subscription, unsubscribes, listening>>
panel == <<results, reversing, shuffled>>
view == <<attached, picture, partial>>
dialogVars == <<open, sessionId, flowError, clicks, button, callbacks, panel, view>>

Nodes == {"agent", "after", "result"}
Idle == [node \in Nodes |-> "idle"]

\* The events that RunningFlow draws, and the status that each gives to the
\* node it is about (the end of a run is about the result).
Shown == [nodeStart |-> "active", nodeEnd |-> "ended", nodeFail |-> "failed",
          flowEnd |-> "ended", flowFail |-> "failed"]
Statuses == {"idle", "active", "ended", "failed"}

\* useEffect of RunningFlow: what a picture that is made now listens to.
Attach == attached' = {subscription} \ {NoRun}

\* The dialog has just been opened.
DialogInit ==
    /\ open = TRUE /\ isRunning = FALSE /\ flowError = FALSE
    /\ sessionId = FirstSession
    /\ awaiting = <<>>
    /\ subscription = NoRun /\ unsubscribes = NoRun /\ listening = {}
    /\ results = <<>> /\ reversing = FALSE
    /\ attached = {} /\ picture = Idle
    /\ clicks = 0 /\ doubled = FALSE /\ shuffled = FALSE /\ partial = FALSE

\* setResults. LogList renders events.reverse(), which reverses the array in
\* the state.
ShowResults(list) ==
    /\ results' = IF reversing THEN Reverse(list) ELSE list
    /\ shuffled' = (list # <<>> /\ (shuffled \/ reversing))
    /\ UNCHANGED reversing

Click == clicks < MaxClicks /\ clicks' = clicks + 1

\* handleRunFlow, until it awaits the token: the picture is made anew.
TestFlow ==
    /\ open /\ ~isRunning
    /\ Len(awaiting) < Cardinality(Runs)
    /\ awaiting' = Append(awaiting, sessionId)
    /\ doubled' = (doubled \/ awaiting # <<>>)
    /\ Attach /\ picture' = Idle /\ partial' = TRUE
    /\ UNCHANGED <<open, isRunning, sessionId, flowError, clicks, callbacks, panel>>

\* Mutant: the effect of RunningFlow has no cleanup.
AttachRunKeepingOld(r) ==
    /\ attached' = IF open THEN attached \cup {r} ELSE {}
    /\ partial' = ~open

\* useEffect of RunningFlow, when the subscription is replaced: what the run
\* before told the picture stays in it.
AttachRun(r) ==
    /\ attached' = IF open THEN {r} ELSE {}
    /\ partial' = ~open

\* handleRunFlow with the token: run r is started with the session of the
\* click, and nothing remembers the callbacks for the run before.
StartRun(r, i) ==
    /\ i \in DOMAIN awaiting
    /\ awaiting' = RemoveAt(awaiting, i)
    /\ ShowResults(<<>>)
    /\ flowError' = FALSE /\ isRunning' = TRUE
    /\ subscription' = r /\ unsubscribes' = r
    /\ listening' = listening \cup {r}
    /\ AttachRun(r)
    /\ UNCHANGED <<open, sessionId, clicks, doubled, picture>>

\* handleRunFlow without a token.
NoToken(i) ==
    /\ i \in DOMAIN awaiting
    /\ awaiting' = RemoveAt(awaiting, i)
    /\ UNCHANGED <<open, isRunning, doubled, sessionId, flowError, clicks, callbacks, panel, view>>

Unsubscribe == listening' = listening \ {unsubscribes}

\* Mutant: the dialog forgets to remove its callbacks.
StopShowing ==
    /\ Click /\ open /\ isRunning
    /\ isRunning' = FALSE
    /\ UNCHANGED <<open, sessionId, flowError, awaiting, doubled, callbacks, panel, view>>

\* handlePause
Stop ==
    /\ Click /\ open /\ isRunning
    /\ isRunning' = FALSE
    /\ Unsubscribe
    /\ UNCHANGED <<open, sessionId, flowError, awaiting, doubled, subscription, unsubscribes, panel, view>>

\* onOpenChange(false) and reset; the picture and the panes are unmounted.
Close ==
    /\ Click /\ open
    /\ open' = FALSE /\ isRunning' = FALSE
    /\ results' = <<>> /\ reversing' = FALSE /\ shuffled' = FALSE
    /\ Unsubscribe /\ unsubscribes' = NoRun
    /\ attached' = {} /\ picture' = Idle /\ partial' = TRUE
    /\ UNCHANGED <<sessionId, flowError, awaiting, doubled, subscription>>

Open ==
    /\ ~open
    /\ open' = TRUE
    /\ Attach
    /\ UNCHANGED <<sessionId, flowError, clicks, button, callbacks, panel, picture, partial>>

ResetSession ==
    /\ Click /\ open
    /\ sessionId' \in Sessions \ {sessionId}
    /\ UNCHANGED <<open, flowError, button, callbacks, panel, view>>

\* The panes: LogList is mounted, or unmounted.
SwitchPane ==
    /\ Click /\ open
    /\ reversing' = ~reversing
    /\ results' = IF reversing' THEN Reverse(results) ELSE results
    /\ shuffled' = (shuffled \/ (reversing' /\ results # <<>>))
    /\ UNCHANGED <<open, sessionId, flowError, button, callbacks, view>>

\* Mutant: a run that fails leaves the dialog running.
FinishesOnEnd(event) == event.name = "flowEnd"

Finishes(event) == event.name \in {"flowEnd", "flowFail"}

\* The callbacks for the n-th event of run r, [name, node]. (Those of tools
\* are like those of nodes, for the tool's own node.)
Hear(r, n, event) ==
    /\ IF r \in listening /\ event.name = "flowResultStream"
       THEN ShowResults(Append(results, [run |-> r, number |-> n]))
       ELSE UNCHANGED panel
    /\ isRunning' = (isRunning /\ ~(r \in listening /\ Finishes(event)))
    /\ flowError' = (flowError \/ (r \in listening /\ event.name = "flowFail"))
    /\ picture' = IF r \in attached /\ event.name \in DOMAIN Shown
                  THEN [picture EXCEPT ![event.node] = Shown[event.name]]
                  ELSE picture
    /\ UNCHANGED <<open, sessionId, clicks, awaiting, doubled, callbacks, attached, partial>>

User == TestFlow \/ Stop \/ Close \/ Open \/ ResetSession \/ SwitchPane
-----------------------------------------------------------------------------
DialogTypeOK ==
    /\ {open, isRunning, flowError, reversing, doubled, shuffled, partial} \subseteq BOOLEAN
    /\ sessionId \in Sessions /\ awaiting \in Seq(Sessions)
    /\ {subscription, unsubscribes} \subseteq Runs \cup {NoRun}
    /\ listening \subseteq Runs
    /\ \A i \in DOMAIN results : results[i].run \in Runs /\ results[i].number \in Nat \ {0}
    /\ Cardinality(attached) <= 1 /\ attached \subseteq Runs
    /\ picture \in [Nodes -> Statuses]
    /\ clicks \in 0..MaxClicks
=============================================================================
