----------------------------- MODULE FlowPages -----------------------------
(***************************************************************************)
(* The pages of the dashboard that work on flows (frontend/src/app): the   *)
(* list of flows and the builder, the stores they share (core/store), and  *)
(* the requests they make (core/usecases), among them the automatic saves. *)
(*                                                                         *)
(* Nothing orders requests or their answers, none is cancelled when its    *)
(* page is left, and an answer goes into the stores whatever page is open. *)
(* A save carries the name and a rename the drawing that the current flow  *)
(* had when they were made.                                                *)
(*                                                                         *)
(* A drawing is the number of the change that made it and the flow it was  *)
(* drawn for (FlowBuilder has its content); a name likewise.  The backend  *)
(* handles a request at once (ProjectStore has what it does).              *)
(***************************************************************************)
EXTENDS Naturals, SequencesExt, FiniteSets

CONSTANTS
    Flows,      \* ids of flows
    NoFlow,     \* null
    NoId,       \* the id of a current flow that has none
    MaxActs     \* bound: what the user does

ASSUME ActsAssumption == MaxActs \in Nat

VARIABLES
    stored,     \* the flows of the project in the backend
    list,       \* useFlowStore: the names of the flows by id
    current,    \* useCurrentFlowStore
    page,       \* the page that is open, and the flow it is about
    canvas,     \* the nodes and edges the builder shows
    timer,      \* the save that the builder's debounce holds
    requests,   \* under way, in the order in which they were made
    acts,
    mixed,      \* an answer about one flow was used on the page of another
    orderly     \* so far every request succeeded, was handled and answered
                \* before younger ones, and no rename met an unfinished save or load

stores == <<list, current>>
builder == <<page, canvas, timer>>
history == <<acts, mixed, orderly>>
vars == <<stored, stores, builder, requests, history>>

Version(flow, no) == [of |-> flow, no |-> no]
Kept == {f \in Flows : stored[f].state = "kept"}
New(flow) == [state |-> "kept", name |-> Version(flow, 0), drawing |-> Version(flow, 0)]

Save(id, name, drawing) == [id |-> id, name |-> name, drawing |-> drawing]
InBuilder == page.at \in {"loading", "shown", "broken"}

\* data: what a request carries, or what its answer will. live: the page that
\* made the request is still open.
Request(kind, data) == [kind |-> kind, data |-> data, live |-> TRUE, handled |-> FALSE]

Unsaved(reqs) == \E i \in DOMAIN reqs : reqs[i].kind = "save"

\* A page is left: its requests go on, and its debounce timer is not cleared.
Left(reqs) ==
    [i \in DOMAIN reqs |-> [reqs[i] EXCEPT !.live = FALSE]]
        \o (IF timer = NoFlow THEN <<>> ELSE <<[Request("save", timer) EXCEPT !.live = FALSE]>>)

Init ==
    \E born \in SUBSET Flows :
    /\ stored = [f \in Flows |-> [New(f) EXCEPT !.state = IF f \in born THEN "kept" ELSE "unborn"]]
    /\ list = [f \in born |-> stored[f].name]
    /\ current = NoFlow
    /\ page = [at |-> "listed", flow |-> NoFlow]
    /\ canvas = NoFlow /\ timer = NoFlow
    /\ requests = <<>>
    /\ acts = 0 /\ mixed = FALSE /\ orderly = TRUE

-----------------------------------------------------------------------------
(* The user.                                                               *)

Act == acts < MaxActs /\ acts' = acts + 1

\* Mutant: a page takes the answers to what earlier pages asked for as well.
VisitKeeping(flow, reqs) ==
    /\ page' = [at |-> "loading", flow |-> flow]
    /\ current' = NoFlow
    /\ canvas' = NoFlow /\ timer' = NoFlow
    /\ requests' = reqs \o (IF timer = NoFlow THEN <<>> ELSE <<Request("save", timer)>>)
                        \o <<Request("load", [id |-> flow])>>

\* FlowOnly mounts: GetFlowUsecase clears the current flow and asks for it.
Visit(flow, reqs) ==
    /\ page' = [at |-> "loading", flow |-> flow]
    /\ current' = NoFlow
    /\ canvas' = NoFlow /\ timer' = NoFlow
    /\ requests' = Append(Left(reqs), Request("load", [id |-> flow]))

\* FlowCard: handleEdit.
OpenFlow(flow) ==
    /\ page.at = "listed" /\ flow \in DOMAIN list
    /\ Act
    /\ Visit(flow, requests)
    /\ UNCHANGED <<stored, list, mixed, orderly>>

\* BuilderTopNav: handleBackClick. The list is asked for again.
GoBack ==
    /\ InBuilder
    /\ Act
    /\ page' = [at |-> "listing", flow |-> NoFlow]
    /\ canvas' = NoFlow /\ timer' = NoFlow
    /\ requests' = Append(Left(requests), Request("list", NoFlow))
    /\ UNCHANGED <<stored, stores, mixed, orderly>>

\* Mutant: a save that is due is left alone.
DrawKeepingTimer ==
    /\ page.at = "shown"
    /\ Act
    /\ canvas' = Version(canvas.of, acts')
    /\ timer' = IF timer = NoFlow THEN Save(current.id, current.name, canvas') ELSE timer
    /\ UNCHANGED <<stored, stores, page, requests, mixed, orderly>>

\* The drawing changes. The debounce is armed with the drawing of the last
\* render (handleNodeChange) and then, by the effect of the next one, with
\* this drawing.
Draw ==
    /\ page.at = "shown"
    /\ Act
    /\ canvas' = Version(canvas.of, acts')
    /\ timer' = Save(current.id, current.name, canvas')
    /\ UNCHANGED <<stored, stores, page, requests, mixed, orderly>>

\* EditableName and handleNameChange: the drawing is the current flow's, which
\* is the last one whose save was answered.
Rename ==
    /\ InBuilder /\ current # NoFlow
    /\ Act
    /\ requests' = Append(requests,
          Request("save", Save(current.id, Version(current.id, acts'), current.drawing)))
    /\ orderly' = (orderly /\ page.at = "shown" /\ timer = NoFlow /\ ~Unsaved(requests))
    /\ UNCHANGED <<stored, stores, builder, mixed>>

\* handleAddFlow: one at a time.
CreateFlow(flow) ==
    /\ page.at \in {"listing", "listed"}
    /\ stored[flow].state = "unborn"
    /\ ~\E i \in DOMAIN requests : requests[i].kind = "create"
                                   /\ (requests[i].live \/ requests[i].data.id = flow)
    /\ Act
    /\ requests' = Append(requests, Request("create", [id |-> flow]))
    /\ UNCHANGED <<stored, stores, builder, mixed, orderly>>

\* FlowCard: handleDelete.
DeleteFlow(flow) ==
    /\ page.at = "listed" /\ flow \in DOMAIN list
    /\ Act
    /\ requests' = Append(requests, Request("delete", [id |-> flow]))
    /\ UNCHANGED <<stored, stores, builder, mixed, orderly>>

-----------------------------------------------------------------------------
(* Requests.                                                               *)

\* The debounce fires: PatchFlowUsecase is under way.
SendSave ==
    /\ timer # NoFlow
    /\ requests' = Append(requests, Request("save", timer))
    /\ timer' = NoFlow
    /\ UNCHANGED <<stored, stores, page, canvas, history>>

\* The backend handles a request; what it is about must exist.
Handled(i) ==
    LET r == requests[i]
        before == \A j \in 1..(i - 1) : requests[j].handled
    IN
    /\ ~r.handled
    /\ CASE r.kind = "save" ->
              /\ r.data.id \in Kept
              /\ stored' = [stored EXCEPT ![r.data.id].name = r.data.name,
                                          ![r.data.id].drawing = r.data.drawing]
              /\ requests' = [requests EXCEPT ![i].handled = TRUE]
         [] r.kind = "load" ->
              /\ r.data.id \in Kept
              /\ requests' = [requests EXCEPT ![i].handled = TRUE,
                    ![i].data = Save(@.id, stored[@.id].name, stored[@.id].drawing)]
              /\ UNCHANGED stored
         [] r.kind = "list" ->
              /\ requests' = [requests EXCEPT ![i].handled = TRUE,
                    ![i].data = [f \in Kept |-> stored[f].name]]
              /\ UNCHANGED stored
         [] r.kind = "create" ->
              /\ stored' = [stored EXCEPT ![r.data.id] = New(r.data.id)]
              /\ requests' = [requests EXCEPT ![i].handled = TRUE]
         [] r.kind = "delete" ->
              /\ r.data.id \in Kept
              /\ stored' = [stored EXCEPT ![r.data.id].state = "deleted"]
              /\ requests' = [requests EXCEPT ![i].handled = TRUE]
    /\ orderly' = (orderly /\ before)
    /\ UNCHANGED <<stores, builder, acts, mixed>>

\* The builder mounts on the current flow, and saves it.
Show(flow) ==
    /\ page' = [page EXCEPT !.at = "shown"]
    /\ canvas' = flow.drawing
    /\ timer' = flow

\* PatchFlowUsecase: what was saved is merged into the list and into the
\* current flow, whichever that is.
SaveAnswered(r) ==
    /\ r.kind = "save"
    /\ list' = [f \in DOMAIN list |-> IF f = r.data.id THEN r.data.name ELSE list[f]]
    /\ current' = [r.data EXCEPT !.id = IF current = NoFlow THEN NoId ELSE current.id]
    /\ mixed' = (mixed \/ (InBuilder /\ current # NoFlow /\ current.id # r.data.id))
    /\ UNCHANGED builder

\* Mutant: a page that waits takes the answer to what an earlier page asked.
LoadAnsweredAnywhere(r) ==
    /\ r.kind = "load"
    /\ current' = r.data
    /\ IF page.at = "loading" THEN Show(r.data) ELSE UNCHANGED builder
    /\ mixed' = (mixed \/ (page.at = "shown" /\ page.flow # r.data.id))
    /\ UNCHANGED list

\* GetFlowUsecase: the current flow is set, and if FlowOnly still waits for
\* this answer the builder mounts.
LoadAnswered(r) ==
    /\ r.kind = "load"
    /\ current' = r.data
    /\ IF r.live THEN Show(r.data) ELSE UNCHANGED builder
    /\ mixed' = (mixed \/ (page.at = "shown" /\ page.flow # r.data.id))
    /\ UNCHANGED list

\* ListFlowsUsecase
ListAnswered(r) ==
    /\ r.kind = "list"
    /\ list' = r.data
    /\ page' = IF r.live THEN [page EXCEPT !.at = "listed"] ELSE page
    /\ UNCHANGED <<current, canvas, timer, mixed>>

\* DeleteFlowUsecase
DeleteAnswered(r) ==
    /\ r.kind = "delete"
    /\ list' = [f \in DOMAIN list \ {r.data.id} |-> list[f]]
    /\ UNCHANGED <<current, builder, mixed>>

\* The answer to request i.
Answered(i) ==
    LET r == requests[i] IN
    /\ r.handled
    /\ SaveAnswered(r) \/ LoadAnswered(r) \/ ListAnswered(r) \/ DeleteAnswered(r)
    /\ requests' = RemoveAt(requests, i)
    /\ orderly' = (orderly /\ i = 1)
    /\ UNCHANGED <<stored, acts>>

\* CreateFlowUsecase and handleAddFlow: the builder opens on the new flow,
\* whatever page is open by now.
CreateAnswered(i) ==
    LET r == requests[i] IN
    /\ r.handled /\ r.kind = "create"
    /\ list' = [f \in DOMAIN list \cup {r.data.id} |->
                  IF f = r.data.id THEN Version(f, 0) ELSE list[f]]
    /\ Visit(r.data.id, RemoveAt(requests, i))
    /\ orderly' = (orderly /\ i = 1)
    /\ UNCHANGED <<stored, acts, mixed>>

\* A request fails or its answer is lost. FlowOnly takes its initial result
\* for a flow and mounts the builder, on whatever flow is the current one.
Failed(i) ==
    LET r == requests[i] IN
    /\ requests' = RemoveAt(requests, i)
    /\ orderly' = FALSE
    /\ CASE r.live /\ r.kind = "load" /\ current # NoFlow -> Show(current) /\ mixed' = TRUE
         [] r.live /\ r.kind = "load" /\ current = NoFlow ->
              /\ page' = [page EXCEPT !.at = "broken"]
              /\ UNCHANGED <<canvas, timer, mixed>>
         [] r.live /\ r.kind = "list" ->
              /\ page' = [page EXCEPT !.at = "listed"]
              /\ UNCHANGED <<canvas, timer, mixed>>
         [] OTHER -> UNCHANGED <<builder, mixed>>
    /\ UNCHANGED <<stored, stores, acts>>

Progress(i) == Handled(i) \/ Answered(i) \/ CreateAnswered(i) \/ Failed(i)

Next ==
    \/ \E f \in Flows : OpenFlow(f) \/ CreateFlow(f) \/ DeleteFlow(f)
    \/ GoBack \/ Draw \/ Rename
    \/ SendSave
    \/ \E i \in DOMAIN requests : Progress(i)

Spec == Init /\ [][Next]_vars

\* Timers fire and requests end.
FairSpec == Spec /\ WF_vars(SendSave) /\ WF_vars(\E i \in DOMAIN requests : Progress(i))
-----------------------------------------------------------------------------
(* Properties.                                                             *)

Versions == [of : Flows, no : 0..MaxActs]
Saves == [id : Flows \cup {NoId}, name : [of : Flows \cup {NoId}, no : 0..MaxActs],
          drawing : Versions]

ASSUME NamesAssumption == NoId \notin Flows /\ NoFlow \notin Saves

\* The variables have their types; the builder and the list wait for one
\* answer if they wait, and a builder that is shown has a current flow.
TypeOK ==
    /\ stored \in [Flows -> [state : {"unborn", "kept", "deleted"}, name : Versions,
                             drawing : Versions]]
    /\ DOMAIN list \subseteq Flows
    /\ current = NoFlow \/ current \in Saves
    /\ timer = NoFlow \/ timer \in Saves
    /\ page.at \in {"listing", "listed", "loading", "shown", "broken"}
    /\ page.at = "shown" => current # NoFlow /\ canvas \in Versions
    /\ Cardinality({i \in DOMAIN requests : requests[i].live /\ requests[i].kind \in {"load", "list"}})
          = (IF page.at \in {"loading", "listing"} THEN 1 ELSE 0)
    /\ acts \in 0..MaxActs

\* Flows are kept apart: none is stored with a name or a drawing that was made
\* for another, and the builder shows and saves the flow of its address,
\* unless an answer about one flow was used on the page of another; and that
\* does not happen while requests are answered in order, although pages are
\* left with saves due.
FlowsKeptApart ==
    /\ orderly => ~mixed
    /\ ~mixed =>
          /\ \A f \in Flows : stored[f].name.of = f /\ stored[f].drawing.of = f
          /\ page.at = "shown" => current.id = page.flow /\ canvas.of = page.flow

(* The inductive invariant behind TypeOK and FlowsKeptApart.               *)

Kinds == {"save", "load", "list", "create", "delete"}
Listings == UNION {[S -> Versions] : S \in SUBSET Flows}
Carried == {NoFlow} \cup Listings \cup [id : Flows] \cup Saves
AllRequests == [kind : Kinds, data : Carried, live : BOOLEAN, handled : BOOLEAN]

\* A save of a flow carries a flow's name; and it carries its own, and its own drawing.
Named(s) == s.id \in Flows => s.name.of \in Flows
OfOneFlow(s) == s.id \in Flows => s.name.of = s.id /\ s.drawing.of = s.id

\* What a request carries, and what its answer will.
Carries(r) ==
    /\ r.kind = "save" => r.data \in Saves /\ Named(r.data)
    /\ r.kind = "save" /\ r.handled => r.data.id \in Flows
    /\ r.kind \in {"load", "create", "delete"} => r.data.id \in Flows
    /\ r.kind = "load" /\ r.handled => r.data \in Saves /\ Named(r.data)
    /\ r.kind = "list" /\ r.handled => r.data \in Listings

Typed(reqs) == reqs \in Seq(AllRequests) /\ \A i \in DOMAIN reqs : Carries(reqs[i])
RequestTypes == Typed(requests)

PageTypes ==
    /\ stored \in [Flows -> [state : {"unborn", "kept", "deleted"}, name : Versions,
                             drawing : Versions]]
    /\ list \in Listings
    /\ current # NoFlow => current \in Saves /\ Named(current)
    /\ timer # NoFlow => timer \in Saves /\ Named(timer)
    /\ page \in [at : {"listing", "listed", "loading", "shown", "broken"},
                 flow : Flows \cup {NoFlow}]
    /\ page.at = "shown" => current # NoFlow /\ canvas \in Versions
    /\ acts \in 0..MaxActs
    /\ mixed \in BOOLEAN /\ orderly \in BOOLEAN

Awaited(r) == r.live /\ r.kind \in {"load", "list"}

\* A page waits for one answer: a builder for its flow, a list for the list.
WaitInv ==
    /\ \A i \in DOMAIN requests : Awaited(requests[i]) =>
          IF requests[i].kind = "load"
          THEN page.at = "loading" /\ requests[i].data.id = page.flow
          ELSE page.at = "listing"
    /\ \A i, j \in DOMAIN requests : Awaited(requests[i]) /\ Awaited(requests[j]) => i = j
    /\ page.at \in {"loading", "listing"} => \E i \in DOMAIN requests : Awaited(requests[i])

\* A request that carries a flow, or whose answer does, carries it unmixed.
Own(r) == r.kind = "save" \/ (r.kind = "load" /\ r.handled) => OfOneFlow(r.data)

\* Until an answer was used on another page, whatever may be saved is of one
\* flow. (On the list page the current flow may be a mixture; no save is made
\* of it.)
KeptInv ==
    ~mixed =>
        /\ \A f \in Flows : stored[f].name.of = f /\ stored[f].drawing.of = f
        /\ page.at = "shown" => current.id = page.flow /\ canvas.of = page.flow
        /\ InBuilder /\ current # NoFlow => OfOneFlow(current)
        /\ timer # NoFlow => OfOneFlow(timer)
        /\ \A i \in DOMAIN requests : Own(requests[i])

\* While requests are answered in order, a page meets no saves but its own:
\* those that a builder leaves behind are answered before the list that one
\* has to pass to get to the next builder, and the answer to a creation, which
\* opens a builder on its own, comes before any save that was made after it.
OrderInv ==
    orderly =>
        /\ ~mixed
        /\ page.at # "broken"
        /\ timer # NoFlow => page.at = "shown" /\ timer.id = page.flow
        /\ \A i \in DOMAIN requests :
              /\ page.at = "shown" => requests[i].kind = "save" /\ requests[i].data.id = page.flow
              /\ page.at = "loading" => requests[i].kind # "save"
              /\ page.at = "loading" /\ Awaited(requests[i]) => i = Len(requests)
              /\ page.at = "listed" => requests[i].kind \in {"create", "delete"}
        /\ \A i, j \in DOMAIN requests : i < j =>
              /\ requests[i].kind = "create" => requests[j].kind # "save"
              /\ page.at = "listing" /\ Awaited(requests[i]) =>
                    requests[j].kind \in {"create", "delete"}

PagesInv == RequestTypes /\ PageTypes /\ WaitInv /\ KeptInv /\ OrderInv

AtRest == timer = NoFlow /\ requests = <<>>

\* What the open page shows is what is stored.
Faithful ==
    /\ page.at = "shown" =>
          stored[page.flow] = [state |-> "kept", name |-> current.name, drawing |-> canvas]
    /\ page.at = "listed" => list = [f \in Kept |-> stored[f].name]

\* When the user does nothing more, saving comes to rest, and then what the
\* open page shows is what is stored, unless requests failed or overtook each
\* other or a rename met an unfinished save or load: the debounce, the saves that carry
\* names, the renames that carry drawings and the pages left with saves due
\* lose nothing by themselves.
SavesSettle == <>[](AtRest /\ (orderly => Faithful))
=============================================================================
