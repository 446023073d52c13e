-------------------------- MODULE FlowPagesProofs --------------------------
(* Proofs about the pages of flows, for any flows, any number of acts, and *)
(* requests that are handled, answered and lost in any order.              *)
EXTENDS FlowPages, FiniteSetTheorems, SequenceTheorems, TLAPS

(***************************************************************************)
(* Sequences of requests.                                                  *)
(***************************************************************************)

LEMMA RemoveAtElements ==
    ASSUME NEW S, NEW s \in Seq(S), NEW i \in DOMAIN s
    PROVE  /\ RemoveAt(s, i) \in Seq(S)
           /\ Len(RemoveAt(s, i)) = Len(s) - 1
           /\ \A k \in 1..(Len(s) - 1) : RemoveAt(s, i)[k] = IF k < i THEN s[k] ELSE s[k + 1]
<1> DEFINE front == SubSeq(s, 1, i - 1)
           back  == SubSeq(s, i + 1, Len(s))
<1>1. i \in 1..Len(s) /\ Len(s) \in Nat
  OBVIOUS
<1>2. front \in Seq(S) /\ Len(front) = i - 1 /\ \A k \in 1..(i - 1) : front[k] = s[k]
  BY <1>1
<1>3. back \in Seq(S) /\ Len(back) = Len(s) - i /\ \A k \in 1..(Len(s) - i) : back[k] = s[i + k]
  BY <1>1
<1>4. RemoveAt(s, i) = front \o back
  BY DEF RemoveAt
<1> HIDE DEF front, back
<1>5. front \o back \in Seq(S) /\ Len(front \o back) = Len(s) - 1
  BY <1>1, <1>2, <1>3, ConcatProperties
<1>6. ASSUME NEW k \in 1..(Len(s) - 1)
      PROVE  (front \o back)[k] = IF k < i THEN s[k] ELSE s[k + 1]
  <2>1. CASE k < i
    BY <2>1, <1>1, <1>2, <1>3
  <2>2. CASE ~(k < i)
    <3>1. (front \o back)[k] = back[k - (i - 1)]
      BY <2>2, <1>1, <1>2, <1>3
    <3>2. k - (i - 1) \in 1..(Len(s) - i)
      BY <2>2, <1>1
    <3>3. i + (k - (i - 1)) = k + 1
      BY <1>1
    <3>4. QED
      BY <3>1, <3>2, <3>3, <1>3, <2>2
  <2>3. QED
    BY <2>1, <2>2
<1>7. QED
  BY <1>4, <1>5, <1>6

(* A page that is left: its requests, no longer awaited, and the save that  *)
(* was due.                                                                 *)
LEMMA LeftElements ==
    ASSUME NEW reqs \in Seq(AllRequests), timer # NoFlow => timer \in Saves
    PROVE  /\ Left(reqs) \in Seq(AllRequests)
           /\ Len(Left(reqs)) = IF timer = NoFlow THEN Len(reqs) ELSE Len(reqs) + 1
           /\ \A k \in 1..Len(reqs) : Left(reqs)[k] = [reqs[k] EXCEPT !.live = FALSE]
           /\ timer # NoFlow =>
                 LET r == Left(reqs)[Len(reqs) + 1]
                 IN  r.kind = "save" /\ r.data = timer /\ ~r.live /\ ~r.handled
<1> DEFINE old  == [i \in DOMAIN reqs |-> [reqs[i] EXCEPT !.live = FALSE]]
           save == [Request("save", timer) EXCEPT !.live = FALSE]
<1>1. \A i \in DOMAIN reqs : [reqs[i] EXCEPT !.live = FALSE] \in AllRequests
  <2>1. \A r \in AllRequests : [r EXCEPT !.live = FALSE] \in AllRequests
    BY DEF AllRequests
  <2>2. QED
    BY <2>1
<1>2. old \in Seq(AllRequests) /\ Len(old) = Len(reqs)
  BY <1>1
<1>3. \A k \in 1..Len(reqs) : old[k] = [reqs[k] EXCEPT !.live = FALSE]
  <2>1. DOMAIN reqs = 1..Len(reqs)
    OBVIOUS
  <2>2. QED
    BY <2>1
<1>4. CASE timer = NoFlow
  <2>1. Left(reqs) = old \o <<>>
    BY <1>4 DEF Left
  <2> HIDE DEF old
  <2>2. Left(reqs) = old
    BY <2>1, <1>2
  <2>3. QED
    BY <2>2, <1>2, <1>3, <1>4
<1>5. CASE timer # NoFlow
  <2>1. Left(reqs) = old \o <<save>>
    BY <1>5 DEF Left
  <2>2. save \in AllRequests
    <3>1. Request("save", timer) \in AllRequests
      BY <1>5 DEF AllRequests, Kinds, Carried, Request
    <3>2. \A r \in AllRequests : [r EXCEPT !.live = FALSE] \in AllRequests
      BY DEF AllRequests
    <3>3. QED
      BY <3>1, <3>2
  <2> HIDE DEF old, save
  <2>3. Left(reqs) = Append(old, save)
    BY <2>1, <1>2, <2>2
  <2>4. save.kind = "save" /\ save.data = timer /\ ~save.live /\ ~save.handled
    BY DEF save, Request
  <2>5. QED
    BY <2>2, <2>3, <2>4, <1>2, <1>3, <1>5
<1>6. QED
  BY <1>4, <1>5

LEMMA AppendElements ==
    ASSUME RequestTypes, NEW r, requests' = Append(requests, r)
    PROVE  /\ Len(requests) \in Nat /\ DOMAIN requests = 1..Len(requests)
           /\ DOMAIN requests' = 1..(Len(requests) + 1) /\ Len(requests') = Len(requests) + 1
           /\ \A k \in 1..Len(requests) : requests'[k] = requests[k]
           /\ requests'[Len(requests) + 1] = r
<1>1. requests \in Seq(AllRequests)
  BY DEF RequestTypes, Typed
<1>2. QED
  BY <1>1

LEMMA RemoveElements ==
    ASSUME RequestTypes, NEW i \in DOMAIN requests, requests' = RemoveAt(requests, i)
    PROVE  /\ Len(requests) \in Nat /\ DOMAIN requests = 1..Len(requests)
           /\ DOMAIN requests' = 1..(Len(requests) - 1) /\ Len(requests') = Len(requests) - 1
           /\ \A k \in 1..(Len(requests) - 1) :
                 requests'[k] = IF k < i THEN requests[k] ELSE requests[k + 1]
<1>1. requests \in Seq(AllRequests)
  BY DEF RequestTypes, Typed
<1>2. QED
  BY <1>1, RemoveAtElements

(* The page is left, and the next one makes the request r.                 *)
LEMMA LeaveElements ==
    ASSUME NEW reqs, Typed(reqs), timer # NoFlow => timer \in Saves,
           NEW r, requests' = Append(Left(reqs), r)
    PROVE  LET n == Len(Left(reqs)) IN
           /\ Len(reqs) \in Nat /\ DOMAIN reqs = 1..Len(reqs)
           /\ n = IF timer = NoFlow THEN Len(reqs) ELSE Len(reqs) + 1
           /\ Len(requests') = n + 1 /\ DOMAIN requests' = 1..(n + 1)
           /\ \A k \in 1..Len(reqs) :
                 /\ requests'[k].kind = reqs[k].kind /\ requests'[k].data = reqs[k].data
                 /\ requests'[k].handled = reqs[k].handled /\ ~requests'[k].live
           /\ timer # NoFlow =>
                 LET due == requests'[Len(reqs) + 1]
                 IN  due.kind = "save" /\ due.data = timer /\ ~due.live /\ ~due.handled
           /\ requests'[n + 1] = r
<1>1. reqs \in Seq(AllRequests) /\ \A k \in 1..Len(reqs) : reqs[k] \in AllRequests
  BY DEF Typed
<1> DEFINE n == Len(Left(reqs))
<1>2. /\ Left(reqs) \in Seq(AllRequests)
      /\ n = IF timer = NoFlow THEN Len(reqs) ELSE Len(reqs) + 1
      /\ \A k \in 1..Len(reqs) : Left(reqs)[k] = [reqs[k] EXCEPT !.live = FALSE]
      /\ timer # NoFlow =>
            LET due == Left(reqs)[Len(reqs) + 1]
            IN  due.kind = "save" /\ due.data = timer /\ ~due.live /\ ~due.handled
  BY <1>1, LeftElements
<1>3. /\ n \in Nat /\ DOMAIN requests' = 1..(n + 1) /\ Len(requests') = n + 1
      /\ \A k \in 1..n : requests'[k] = Left(reqs)[k]
      /\ requests'[n + 1] = r
  BY <1>2
<1> HIDE DEF n
<1>4. Len(reqs) \in Nat /\ DOMAIN reqs = 1..Len(reqs) /\ \A k \in 1..Len(reqs) : k \in 1..n
  BY <1>1, <1>2
<1>5. ASSUME NEW k \in 1..Len(reqs)
      PROVE  /\ requests'[k].kind = reqs[k].kind /\ requests'[k].data = reqs[k].data
             /\ requests'[k].handled = reqs[k].handled /\ ~requests'[k].live
  <2>1. requests'[k] = [reqs[k] EXCEPT !.live = FALSE] /\ reqs[k] \in AllRequests
    BY <1>1, <1>2, <1>3, <1>4
  <2>2. QED
    BY <2>1 DEF AllRequests
<1>6. timer # NoFlow => requests'[Len(reqs) + 1] = Left(reqs)[Len(reqs) + 1]
  BY <1>2, <1>3, <1>4
<1>7. QED
  BY <1>2, <1>3, <1>4, <1>5, <1>6 DEF n

LEMMA AppendTypes ==
    ASSUME NEW reqs, Typed(reqs), NEW r \in AllRequests, Carries(r)
    PROVE  Typed(Append(reqs, r))
<1>1. reqs \in Seq(AllRequests)
  BY DEF Typed
<1>2. /\ Append(reqs, r) \in Seq(AllRequests)
      /\ DOMAIN Append(reqs, r) = 1..(Len(reqs) + 1)
      /\ \A k \in 1..Len(reqs) : Append(reqs, r)[k] = reqs[k]
      /\ Append(reqs, r)[Len(reqs) + 1] = r
  BY <1>1
<1>3. \A k \in 1..Len(reqs) : Carries(reqs[k])
  BY <1>1 DEF Typed
<1>4. ASSUME NEW k \in 1..(Len(reqs) + 1)
      PROVE  Carries(Append(reqs, r)[k])
  <2>1. CASE k = Len(reqs) + 1
    BY <2>1, <1>2
  <2>2. CASE k \in 1..Len(reqs)
    BY <2>2, <1>2, <1>3
  <2>3. QED
    BY <2>1, <2>2, <1>1
<1>5. QED
  BY <1>2, <1>4 DEF Typed

LEMMA RemoveTypes ==
    ASSUME NEW reqs, Typed(reqs), NEW i \in DOMAIN reqs
    PROVE  Typed(RemoveAt(reqs, i))
<1>1. reqs \in Seq(AllRequests) /\ \A k \in 1..Len(reqs) : Carries(reqs[k])
  BY DEF Typed
<1>2. /\ RemoveAt(reqs, i) \in Seq(AllRequests)
      /\ Len(RemoveAt(reqs, i)) = Len(reqs) - 1
      /\ \A k \in 1..(Len(reqs) - 1) :
            RemoveAt(reqs, i)[k] = IF k < i THEN reqs[k] ELSE reqs[k + 1]
  BY <1>1, RemoveAtElements
<1>3. \A k \in 1..(Len(reqs) - 1) : Carries(RemoveAt(reqs, i)[k])
  BY <1>1, <1>2
<1>4. QED
  BY <1>2, <1>3 DEF Typed

LEMMA LeftTypes ==
    ASSUME NEW reqs, Typed(reqs), timer # NoFlow => timer \in Saves /\ Named(timer)
    PROVE  Typed(Left(reqs))
<1>1. reqs \in Seq(AllRequests) /\ \A k \in 1..Len(reqs) : Carries(reqs[k])
  BY DEF Typed
<1>2. /\ Left(reqs) \in Seq(AllRequests)
      /\ Len(Left(reqs)) = IF timer = NoFlow THEN Len(reqs) ELSE Len(reqs) + 1
      /\ \A k \in 1..Len(reqs) : Left(reqs)[k] = [reqs[k] EXCEPT !.live = FALSE]
      /\ timer # NoFlow =>
            LET r == Left(reqs)[Len(reqs) + 1]
            IN  r.kind = "save" /\ r.data = timer /\ ~r.live /\ ~r.handled
  BY <1>1, LeftElements
<1>3. \A r \in AllRequests : Carries(r) => Carries([r EXCEPT !.live = FALSE])
  BY DEF Carries, AllRequests
<1>4. ASSUME NEW k \in 1..Len(reqs)
      PROVE  Carries(Left(reqs)[k])
  <2>1. reqs[k] \in AllRequests
    BY <1>1
  <2>2. QED
    BY <2>1, <1>1, <1>2, <1>3
<1>5. timer # NoFlow => Carries(Left(reqs)[Len(reqs) + 1])
  BY <1>2 DEF Carries
<1>6. QED
  BY <1>1, <1>2, <1>4, <1>5 DEF Typed

(***************************************************************************)
(* Types.                                                                  *)
(***************************************************************************)

LEMMA ActTypes ==
    ASSUME PageTypes, Act
    PROVE  acts' \in 0..MaxActs
BY ActsAssumption DEF PageTypes, Act

LEMMA VisitTypes ==
    ASSUME RequestTypes, PageTypes, NEW f \in Flows, NEW reqs, Typed(reqs), Visit(f, reqs)
    PROVE  /\ RequestTypes'
           /\ page' \in [at : {"listing", "listed", "loading", "shown", "broken"},
                         flow : Flows \cup {NoFlow}]
           /\ page'.at # "shown" /\ current' = NoFlow /\ timer' = NoFlow
<1>1. Typed(Left(reqs))
  BY LeftTypes DEF PageTypes
<1>2. Request("load", [id |-> f]) \in AllRequests /\ Carries(Request("load", [id |-> f]))
  <2>1. [id |-> f] \in Carried
    BY DEF Carried
  <2>2. QED
    BY <2>1 DEF Request, AllRequests, Kinds, Carries
<1>3. Typed(requests')
  BY <1>1, <1>2, AppendTypes DEF Visit
<1>4. QED
  BY <1>3 DEF Visit, RequestTypes

LEMMA UserTypes ==
    ASSUME RequestTypes, PageTypes,
           \/ \E f \in Flows : OpenFlow(f) \/ CreateFlow(f) \/ DeleteFlow(f)
           \/ GoBack \/ Draw \/ Rename \/ SendSave
    PROVE  RequestTypes' /\ PageTypes'
<1> USE DEF stores, builder, history
<1>1. ASSUME NEW f \in Flows, OpenFlow(f)
      PROVE  RequestTypes' /\ PageTypes'
  BY <1>1, VisitTypes, ActTypes DEF OpenFlow, PageTypes, RequestTypes
<1>2. ASSUME NEW f \in Flows, CreateFlow(f)
      PROVE  RequestTypes' /\ PageTypes'
  <2>1. LET r == Request("create", [id |-> f]) IN r \in AllRequests /\ Carries(r)
    <3>1. [id |-> f] \in Carried
      BY DEF Carried
    <3>2. QED
      BY <3>1 DEF Request, AllRequests, Kinds, Carries
  <2>2. RequestTypes'
    BY <1>2, <2>1, AppendTypes DEF CreateFlow, RequestTypes
  <2>3. QED
    BY <1>2, <2>2, ActTypes DEF CreateFlow, PageTypes
<1>3. ASSUME NEW f \in Flows, DeleteFlow(f)
      PROVE  RequestTypes' /\ PageTypes'
  <2>1. LET r == Request("delete", [id |-> f]) IN r \in AllRequests /\ Carries(r)
    <3>1. [id |-> f] \in Carried
      BY DEF Carried
    <3>2. QED
      BY <3>1 DEF Request, AllRequests, Kinds, Carries
  <2>2. RequestTypes'
    BY <1>3, <2>1, AppendTypes DEF DeleteFlow, RequestTypes
  <2>3. QED
    BY <1>3, <2>2, ActTypes DEF DeleteFlow, PageTypes
<1>4. CASE GoBack
  <2>1. LET r == Request("list", NoFlow) IN r \in AllRequests /\ Carries(r)
    BY DEF Request, AllRequests, Kinds, Carries, Carried
  <2>2. Typed(Left(requests))
    BY LeftTypes DEF RequestTypes, PageTypes
  <2>3. RequestTypes'
    BY <1>4, <2>1, <2>2, AppendTypes DEF GoBack, RequestTypes
  <2>4. QED
    BY <1>4, <2>3, ActTypes DEF GoBack, PageTypes
<1>5. CASE Draw
  <2>1. RequestTypes'
    BY <1>5 DEF Draw, RequestTypes
  <2>2. acts' \in 0..MaxActs
    BY <1>5, ActTypes DEF Draw
  <2>3. canvas' \in Versions
    BY <1>5, <2>2 DEF Draw, PageTypes, Version, Versions
  <2>4. current \in Saves /\ Named(current)
    BY <1>5 DEF Draw, PageTypes
  <2>5. timer' \in Saves /\ Named(timer')
    BY <1>5, <2>3, <2>4 DEF Draw, Save, Saves, Named
  <2>6. QED
    BY <1>5, <2>1, <2>2, <2>3, <2>5 DEF Draw, PageTypes
<1>6. CASE Rename
  <2>1. acts' \in 0..MaxActs
    BY <1>6, ActTypes DEF Rename
  <2>2. current \in Saves /\ Named(current)
    BY <1>6 DEF Rename, PageTypes
  <2> DEFINE s == Save(current.id, Version(current.id, acts'), current.drawing)
  <2>3. s \in Saves /\ Named(s)
    BY <2>1, <2>2 DEF Save, Saves, Named, Version, Versions
  <2>4. Request("save", s) \in AllRequests /\ Carries(Request("save", s))
    BY <2>3 DEF Request, AllRequests, Kinds, Carries, Carried
  <2>5. requests' = Append(requests, Request("save", s))
    BY <1>6 DEF Rename
  <2> HIDE DEF s
  <2>6. RequestTypes'
    BY <2>4, <2>5, AppendTypes DEF RequestTypes
  <2>7. QED
    BY <1>6, <2>1, <2>6 DEF Rename, PageTypes
<1>7. CASE SendSave
  <2>1. Request("save", timer) \in AllRequests /\ Carries(Request("save", timer))
    BY <1>7 DEF SendSave, PageTypes, Request, AllRequests, Kinds, Carries, Carried
  <2>2. RequestTypes'
    BY <1>7, <2>1, AppendTypes DEF SendSave, RequestTypes
  <2>3. QED
    BY <1>7, <2>2 DEF SendSave, PageTypes
<1>8. QED
  BY <1>1, <1>2, <1>3, <1>4, <1>5, <1>6, <1>7

LEMMA HandledTypes ==
    ASSUME RequestTypes, PageTypes, NEW i \in DOMAIN requests, Handled(i)
    PROVE  RequestTypes' /\ PageTypes'
<1> USE DEF stores, builder, history
<1> DEFINE r == requests[i]
<1>1. requests \in Seq(AllRequests) /\ r \in AllRequests /\ Carries(r)
  BY DEF RequestTypes, Typed
<1>2. ASSUME requests' \in Seq(AllRequests), DOMAIN requests' = DOMAIN requests,
             \A k \in DOMAIN requests : k # i => requests'[k] = requests[k],
             Carries(requests'[i])
      PROVE  RequestTypes'
  BY <1>2 DEF RequestTypes, Typed
<1>3. \A f \in Flows : /\ stored[f].name \in Versions /\ stored[f].drawing \in Versions
                       /\ stored[f].name.of \in Flows
  BY DEF PageTypes, Versions
<1>4. CASE r.kind = "save"
  <2>1. r.data \in Saves /\ Named(r.data) /\ r.data.id \in Flows
    BY <1>1, <1>4 DEF Handled, Carries, Kept
  <2>2. r.data.name \in Versions /\ r.data.drawing \in Versions
    BY <2>1 DEF Saves, Named, Versions
  <2>3. stored' = [stored EXCEPT ![r.data.id].name = r.data.name,
                                 ![r.data.id].drawing = r.data.drawing]
    BY <1>4 DEF Handled
  <2>4. stored' \in [Flows -> [state : {"unborn", "kept", "deleted"}, name : Versions,
                               drawing : Versions]]
    BY <2>1, <2>2, <2>3 DEF PageTypes
  <2>5. requests' = [requests EXCEPT ![i].handled = TRUE]
    BY <1>4 DEF Handled
  <2>6. [r EXCEPT !.handled = TRUE] \in AllRequests /\ Carries([r EXCEPT !.handled = TRUE])
    BY <1>1, <1>4, <2>1 DEF AllRequests, Carries
  <2>7. requests' = [requests EXCEPT ![i] = [r EXCEPT !.handled = TRUE]]
    BY <2>5, <1>1
  <2>8. RequestTypes'
    BY <1>1, <1>2, <2>6, <2>7
  <2>9. QED
    BY <2>4, <2>8 DEF Handled, PageTypes
<1>5. CASE r.kind = "load"
  <2> DEFINE d == Save(r.data.id, stored[r.data.id].name, stored[r.data.id].drawing)
  <2>1. r.data.id \in Flows
    BY <1>1, <1>5 DEF Carries
  <2>2. d \in Saves /\ Named(d)
    BY <2>1, <1>3 DEF Save, Saves, Named, Versions
  <2>3. d.id = r.data.id
    BY DEF Save
  <2> DEFINE h == [[r EXCEPT !.handled = TRUE] EXCEPT !.data = d]
  <2>4. requests' = [requests EXCEPT ![i] = h]
    BY <1>1, <1>5 DEF Handled
  <2> HIDE DEF d
  <2>5. h \in AllRequests /\ Carries(h)
    BY <1>1, <1>5, <2>1, <2>2, <2>3 DEF AllRequests, Carries, Carried
  <2> HIDE DEF h
  <2>6. RequestTypes'
    BY <1>1, <1>2, <2>4, <2>5
  <2>7. QED
    BY <2>6, <1>5 DEF Handled, PageTypes
<1>6. CASE r.kind = "list"
  <2> DEFINE d == [f \in Kept |-> stored[f].name]
  <2>1. d \in Listings
    <3>1. Kept \in SUBSET Flows /\ d \in [Kept -> Versions]
      BY <1>3 DEF Kept
    <3>2. QED
      BY <3>1 DEF Listings
  <2> DEFINE h == [[r EXCEPT !.handled = TRUE] EXCEPT !.data = d]
  <2>2. requests' = [requests EXCEPT ![i] = h]
    BY <1>1, <1>6 DEF Handled
  <2> HIDE DEF d
  <2>3. h \in AllRequests /\ Carries(h)
    BY <1>1, <1>6, <2>1 DEF AllRequests, Carries, Carried
  <2> HIDE DEF h
  <2>4. RequestTypes'
    BY <1>1, <1>2, <2>2, <2>3
  <2>5. QED
    BY <2>4, <1>6 DEF Handled, PageTypes
<1>7. CASE r.kind \in {"create", "delete"}
  <2>1. r.data.id \in Flows
    BY <1>1, <1>7 DEF Carries
  <2>2. New(r.data.id) \in [state : {"unborn", "kept", "deleted"}, name : Versions,
                            drawing : Versions]
    BY <2>1, ActsAssumption DEF New, Version, Versions
  <2>3. stored' \in [Flows -> [state : {"unborn", "kept", "deleted"}, name : Versions,
                               drawing : Versions]]
    <3>1. CASE r.kind = "create"
      <4>1. stored' = [stored EXCEPT ![r.data.id] = New(r.data.id)]
        BY <3>1 DEF Handled
      <4>2. QED
        BY <4>1, <2>1, <2>2 DEF PageTypes
    <3>2. CASE r.kind = "delete"
      <4>1. stored' = [stored EXCEPT ![r.data.id].state = "deleted"]
        BY <3>2 DEF Handled
      <4>2. QED
        BY <4>1, <2>1 DEF PageTypes
    <3>3. QED
      BY <3>1, <3>2, <1>7
  <2>4. requests' = [requests EXCEPT ![i].handled = TRUE]
    BY <1>7 DEF Handled
  <2>5. requests' = [requests EXCEPT ![i] = [r EXCEPT !.handled = TRUE]]
    BY <2>4, <1>1
  <2>6. [r EXCEPT !.handled = TRUE] \in AllRequests /\ Carries([r EXCEPT !.handled = TRUE])
    BY <1>1, <1>7 DEF AllRequests, Carries
  <2>7. RequestTypes'
    BY <1>1, <1>2, <2>5, <2>6
  <2>8. QED
    BY <2>3, <2>7 DEF Handled, PageTypes
<1>8. QED
  BY <1>1, <1>4, <1>5, <1>6, <1>7 DEF AllRequests, Kinds

LEMMA AnsweredTypes ==
    ASSUME RequestTypes, PageTypes, NEW i \in DOMAIN requests, Answered(i)
    PROVE  RequestTypes' /\ PageTypes'
<1> USE DEF stores, builder, history
<1> DEFINE r == requests[i]
<1>1. r \in AllRequests /\ Carries(r) /\ r.handled
  BY DEF RequestTypes, Typed, Answered
<1>2. RequestTypes'
  BY RemoveTypes DEF Answered, RequestTypes
<1>3. orderly' \in BOOLEAN /\ stored' = stored /\ acts' = acts
  BY DEF Answered, PageTypes
<1>4. CASE SaveAnswered(r)
  <2>1. r.data \in Saves /\ Named(r.data) /\ r.data.id \in Flows
    BY <1>1, <1>4 DEF SaveAnswered, Carries
  <2>2. r.data.name \in Versions /\ r.data.name.of \in Flows
    BY <2>1 DEF Saves, Named, Versions
  <2>3. list' \in Listings
    <3>1. PICK S \in SUBSET Flows : list \in [S -> Versions]
      BY DEF PageTypes, Listings
    <3>2. list' \in [S -> Versions]
      BY <3>1, <2>2, <1>4 DEF SaveAnswered
    <3>3. QED
      BY <3>2 DEF Listings
  <2>4. current' \in Saves /\ Named(current')
    <3>1. current # NoFlow => current.id \in Flows \cup {NoId}
      BY DEF PageTypes, Saves
    <3>2. QED
      BY <2>1, <2>2, <3>1, <1>4 DEF SaveAnswered, Saves, Named
  <2>5. QED
    BY <1>2, <1>3, <1>4, <2>3, <2>4, NamesAssumption DEF SaveAnswered, PageTypes
<1>5. CASE LoadAnswered(r)
  <2>1. r.data \in Saves /\ Named(r.data)
    BY <1>1, <1>5 DEF LoadAnswered, Carries
  <2>2. r.data.drawing \in Versions
    BY <2>1 DEF Saves
  <2>3. CASE r.live
    BY <1>2, <1>3, <1>5, <2>1, <2>2, <2>3, NamesAssumption DEF LoadAnswered, Show, PageTypes
  <2>4. CASE ~r.live
    BY <1>2, <1>3, <1>5, <2>1, <2>4, NamesAssumption DEF LoadAnswered, PageTypes
  <2>5. QED
    BY <2>3, <2>4
<1>6. CASE ListAnswered(r)
  BY <1>1, <1>2, <1>3, <1>6 DEF ListAnswered, PageTypes, Carries
<1>7. CASE DeleteAnswered(r)
  <2>1. list' \in Listings
    <3>1. PICK S \in SUBSET Flows : list \in [S -> Versions]
      BY DEF PageTypes, Listings
    <3>2. list' \in [S \ {r.data.id} -> Versions]
      BY <3>1, <1>7 DEF DeleteAnswered
    <3>3. QED
      BY <3>2 DEF Listings
  <2>2. QED
    BY <1>2, <1>3, <1>7, <2>1 DEF DeleteAnswered, PageTypes
<1>8. QED
  BY <1>4, <1>5, <1>6, <1>7 DEF Answered

LEMMA CreateAnsweredTypes ==
    ASSUME RequestTypes, PageTypes, NEW i \in DOMAIN requests, CreateAnswered(i)
    PROVE  RequestTypes' /\ PageTypes'
<1> USE DEF stores, builder, history
<1> DEFINE f == requests[i].data.id
<1>1. f \in Flows
  BY DEF RequestTypes, Typed, CreateAnswered, Carries
<1>2. Typed(RemoveAt(requests, i)) /\ Visit(f, RemoveAt(requests, i))
  BY RemoveTypes DEF RequestTypes, CreateAnswered
<1>3. list' \in Listings
  <2>1. PICK S \in SUBSET Flows : list \in [S -> Versions]
    BY DEF PageTypes, Listings
  <2>2. \A g \in Flows : Version(g, 0) \in Versions
    BY ActsAssumption DEF Version, Versions
  <2>3. list' = [g \in DOMAIN list \cup {f} |-> IF g = f THEN Version(g, 0) ELSE list[g]]
    BY DEF CreateAnswered
  <2> HIDE DEF f
  <2>4. list' \in [S \cup {f} -> Versions]
    BY <1>1, <2>1, <2>2, <2>3
  <2>5. S \cup {f} \in SUBSET Flows
    BY <1>1
  <2>6. QED
    BY <2>4, <2>5 DEF Listings
<1>4. QED
  BY <1>1, <1>2, <1>3, VisitTypes DEF CreateAnswered, PageTypes

LEMMA FailedTypes ==
    ASSUME RequestTypes, PageTypes, NEW i \in DOMAIN requests, Failed(i)
    PROVE  RequestTypes' /\ PageTypes'
<1> USE DEF stores, builder, history
<1>1. RequestTypes'
  BY RemoveTypes DEF Failed, RequestTypes
<1>2. current # NoFlow => current.drawing \in Versions
  BY DEF PageTypes, Saves
<1>3. QED
  BY <1>1, <1>2 DEF Failed, Show, PageTypes

LEMMA InitPages == Init => PagesInv
<1> SUFFICES ASSUME Init PROVE PagesInv
  OBVIOUS
<1>1. PICK born \in SUBSET Flows :
        /\ stored = [f \in Flows |-> [New(f) EXCEPT !.state = IF f \in born THEN "kept" ELSE "unborn"]]
        /\ list = [f \in born |-> stored[f].name]
  BY DEF Init
<1>2. \A f \in Flows : Version(f, 0) \in Versions /\ Version(f, 0).of = f
  BY ActsAssumption DEF Version, Versions
<1>3. \A f \in Flows :
        /\ stored[f] \in [state : {"unborn", "kept", "deleted"}, name : Versions, drawing : Versions]
        /\ stored[f].name = Version(f, 0) /\ stored[f].drawing = Version(f, 0)
  BY <1>1, <1>2 DEF New
<1>4. stored \in [Flows -> [state : {"unborn", "kept", "deleted"}, name : Versions,
                            drawing : Versions]]
  BY <1>1, <1>3
<1>5. list \in Listings
  <2>1. list \in [born -> Versions]
    BY <1>1, <1>2, <1>3
  <2>2. QED
    BY <2>1 DEF Listings
<1>6. requests = <<>> /\ DOMAIN requests = {} /\ requests \in Seq(AllRequests)
  BY DEF Init
<1>7. RequestTypes
  BY <1>6 DEF RequestTypes, Typed
<1>8. PageTypes
  <2>1. page = [at |-> "listed", flow |-> NoFlow]
    BY DEF Init
  <2>2. page \in [at : {"listing", "listed", "loading", "shown", "broken"},
                flow : Flows \cup {NoFlow}] /\ page.at # "shown"
    BY <2>1
  <2>3. acts \in 0..MaxActs
    BY ActsAssumption DEF Init
  <2>4. QED
    BY <1>4, <1>5, <2>2, <2>3 DEF Init, PageTypes
<1>9. WaitInv
  BY <1>6 DEF Init, WaitInv
<1>10. KeptInv
  BY <1>2, <1>3, <1>6 DEF Init, KeptInv, InBuilder
<1>11. OrderInv
  BY <1>6 DEF Init, OrderInv
<1>12. QED
  BY <1>7, <1>8, <1>9, <1>10, <1>11 DEF PagesInv

(***************************************************************************)
(* Waiting.                                                                *)
(***************************************************************************)

LEMMA AppendWaits ==
    ASSUME RequestTypes, WaitInv, page' = page,
           NEW r, requests' = Append(requests, r), ~Awaited(r)
    PROVE  WaitInv'
<1>1. /\ Len(requests) \in Nat /\ DOMAIN requests = 1..Len(requests)
      /\ DOMAIN requests' = 1..(Len(requests) + 1)
      /\ \A k \in 1..Len(requests) : requests'[k] = requests[k]
      /\ requests'[Len(requests) + 1] = r
  BY AppendElements
<1>2. \A k \in DOMAIN requests' : Awaited(requests'[k]) =>
          k \in DOMAIN requests /\ requests'[k] = requests[k]
  BY <1>1
<1>3. QED
  BY <1>1, <1>2 DEF WaitInv

(* A page is left for one that waits for the answer to r.                  *)
LEMMA LeftWaits ==
    ASSUME NEW reqs, Typed(reqs), timer # NoFlow => timer \in Saves,
           NEW r, requests' = Append(Left(reqs), r), Awaited(r),
           IF r.kind = "load" THEN page'.at = "loading" /\ r.data.id = page'.flow
                              ELSE page'.at = "listing"
    PROVE  WaitInv'
<1> DEFINE n == Len(Left(reqs))
<1>1. /\ Len(reqs) \in Nat /\ n = IF timer = NoFlow THEN Len(reqs) ELSE Len(reqs) + 1
      /\ DOMAIN requests' = 1..(n + 1) /\ requests'[n + 1] = r
      /\ \A k \in 1..Len(reqs) : ~requests'[k].live
      /\ timer # NoFlow => ~requests'[Len(reqs) + 1].live
  BY LeaveElements
<1> HIDE DEF n
<1>2. \A k \in DOMAIN requests' : Awaited(requests'[k]) <=> k = n + 1
  <2>1. ASSUME NEW k \in 1..(n + 1), k # n + 1
        PROVE  ~requests'[k].live
    <3>1. k \in 1..Len(reqs) \/ (timer # NoFlow /\ k = Len(reqs) + 1)
      BY <1>1, <2>1
    <3>2. QED
      BY <3>1, <1>1
  <2>2. QED
    BY <1>1, <2>1 DEF Awaited
<1>3. QED
  BY <1>1, <1>2 DEF WaitInv

LEMMA RemoveWaits ==
    ASSUME RequestTypes, WaitInv, NEW i \in DOMAIN requests,
           requests' = RemoveAt(requests, i),
           IF Awaited(requests[i]) THEN page'.at \notin {"loading", "listing"}
                                   ELSE page' = page
    PROVE  WaitInv'
<1>1. /\ Len(requests) \in Nat /\ DOMAIN requests = 1..Len(requests)
      /\ DOMAIN requests' = 1..(Len(requests) - 1)
      /\ \A k \in 1..(Len(requests) - 1) :
            requests'[k] = IF k < i THEN requests[k] ELSE requests[k + 1]
  BY RemoveElements
<1> DEFINE from(k) == IF k < i THEN k ELSE k + 1
<1>2. \A k \in DOMAIN requests' : from(k) \in DOMAIN requests /\ from(k) # i
                                  /\ requests'[k] = requests[from(k)]
  BY <1>1
<1>3. \A k, l \in DOMAIN requests' : from(k) = from(l) => k = l
  BY <1>1
<1>4. \A j \in DOMAIN requests : j # i => \E k \in DOMAIN requests' : from(k) = j
  <2>1. ASSUME NEW j \in DOMAIN requests, j # i
        PROVE  \E k \in DOMAIN requests' : from(k) = j
    <3>1. CASE j < i
      BY <3>1, <1>1
    <3>2. CASE j > i
      <4>1. j - 1 \in DOMAIN requests' /\ from(j - 1) = j
        BY <3>2, <1>1
      <4>2. QED
        BY <4>1
    <3>3. QED
      BY <3>1, <3>2, <2>1, <1>1
  <2>2. QED
    BY <2>1
<1> HIDE DEF from
<1>5. CASE Awaited(requests[i])
  <2>1. \A k \in DOMAIN requests' : ~Awaited(requests'[k])
    BY <1>2, <1>5 DEF WaitInv
  <2>2. QED
    BY <2>1, <1>5 DEF WaitInv
<1>6. CASE ~Awaited(requests[i])
  <2>1. page.at \in {"loading", "listing"} =>
          \E k \in DOMAIN requests' : Awaited(requests'[k])
    BY <1>2, <1>4, <1>6 DEF WaitInv
  <2>2. QED
    BY <1>2, <1>3, <1>6, <2>1 DEF WaitInv
<1>7. QED
  BY <1>5, <1>6

(* What the backend does to a request: who made it, its kind and what it   *)
(* is about stay.                                                          *)
LEMMA HandledElements ==
    ASSUME RequestTypes, NEW i \in DOMAIN requests, Handled(i)
    PROVE  /\ DOMAIN requests' = DOMAIN requests
           /\ \A k \in DOMAIN requests : k # i => requests'[k] = requests[k]
           /\ requests'[i].kind = requests[i].kind
           /\ requests'[i].live = requests[i].live
           /\ requests'[i].kind # "load" => requests'[i].kind = "list" \/ requests'[i].data = requests[i].data
           /\ requests[i].kind = "load" =>
                LET id == requests[i].data.id
                IN  requests'[i].data = Save(id, stored[id].name, stored[id].drawing)
<1> DEFINE r == requests[i]
<1>1. requests \in Seq(AllRequests) /\ r \in AllRequests
  BY DEF RequestTypes, Typed
<1>2. ASSUME NEW d, requests' = [requests EXCEPT ![i] = [[r EXCEPT !.handled = TRUE] EXCEPT !.data = d]]
      PROVE  /\ DOMAIN requests' = DOMAIN requests
             /\ \A k \in DOMAIN requests : k # i => requests'[k] = requests[k]
             /\ requests'[i].kind = r.kind /\ requests'[i].live = r.live /\ requests'[i].data = d
  BY <1>1, <1>2 DEF AllRequests
<1>3. CASE r.kind = "load"
  BY <1>1, <1>2, <1>3 DEF Handled
<1>4. CASE r.kind = "list"
  BY <1>1, <1>2, <1>4 DEF Handled
<1>5. CASE r.kind \in {"save", "create", "delete"}
  <2>1. requests' = [requests EXCEPT ![i].handled = TRUE]
    BY <1>5 DEF Handled
  <2>2. requests' = [requests EXCEPT ![i] = [r EXCEPT !.handled = TRUE]]
    BY <2>1, <1>1
  <2>3. QED
    BY <1>1, <1>5, <2>2 DEF AllRequests
<1>6. QED
  BY <1>1, <1>3, <1>4, <1>5 DEF AllRequests, Kinds

LEMMA WaitStep ==
    ASSUME RequestTypes, PageTypes, WaitInv, [Next]_vars
    PROVE  WaitInv'
<1> USE DEF stores, builder, history
<1>1. timer # NoFlow => timer \in Saves
  BY DEF PageTypes
<1>2. ASSUME NEW f \in Flows, OpenFlow(f)
      PROVE  WaitInv'
  BY <1>1, <1>2, LeftWaits DEF OpenFlow, Visit, RequestTypes, Request, Awaited
<1>3. ASSUME NEW f \in Flows, CreateFlow(f) \/ DeleteFlow(f)
      PROVE  WaitInv'
  BY <1>3, AppendWaits DEF CreateFlow, DeleteFlow, Request, Awaited
<1>4. CASE GoBack
  BY <1>1, <1>4, LeftWaits DEF GoBack, RequestTypes, Request, Awaited
<1>5. CASE Draw
  BY <1>5 DEF Draw, WaitInv
<1>6. CASE Rename \/ SendSave
  BY <1>6, AppendWaits DEF Rename, SendSave, Request, Awaited
<1>7. ASSUME NEW i \in DOMAIN requests, Handled(i)
      PROVE  WaitInv'
  <2>1. page' = page
    BY <1>7 DEF Handled
  <2>2. DOMAIN requests' = DOMAIN requests
    BY <1>7, HandledElements
  <2>3. \A k \in DOMAIN requests :
          /\ Awaited(requests'[k]) <=> Awaited(requests[k])
          /\ requests'[k].kind = requests[k].kind
          /\ requests[k].kind = "load" => requests'[k].data.id = requests[k].data.id
    <3>1. ASSUME NEW k \in DOMAIN requests, k # i
          PROVE  requests'[k] = requests[k]
      BY <1>7, <3>1, HandledElements
    <3>2. requests'[i].kind = requests[i].kind /\ requests'[i].live = requests[i].live
      BY <1>7, HandledElements
    <3>3. requests[i].kind = "load" => requests'[i].data.id = requests[i].data.id
      <4>1. \A id, name, drawing : Save(id, name, drawing).id = id
        BY DEF Save
      <4>2. QED
        BY <4>1, <1>7, HandledElements
    <3>4. QED
      BY <3>1, <3>2, <3>3 DEF Awaited
  <2>4. QED
    BY <2>1, <2>2, <2>3 DEF WaitInv, Awaited
<1>8. ASSUME NEW i \in DOMAIN requests, Answered(i)
      PROVE  WaitInv'
  <2>1. requests' = RemoveAt(requests, i)
    BY <1>8 DEF Answered
  <2>2. IF Awaited(requests[i]) THEN page'.at \notin {"loading", "listing"} ELSE page' = page
    BY <1>8 DEF Answered, SaveAnswered, LoadAnswered, ListAnswered, DeleteAnswered, Show,
                Awaited, PageTypes
  <2>3. QED
    BY <2>1, <2>2, RemoveWaits
<1>9. ASSUME NEW i \in DOMAIN requests, CreateAnswered(i)
      PROVE  WaitInv'
  <2> DEFINE reqs == RemoveAt(requests, i)
  <2>1. Typed(reqs) /\ Visit(requests[i].data.id, reqs)
    BY <1>9, RemoveTypes DEF RequestTypes, CreateAnswered
  <2> HIDE DEF reqs
  <2>2. QED
    BY <1>1, <2>1, LeftWaits DEF Visit, Request, Awaited
<1>10. ASSUME NEW i \in DOMAIN requests, Failed(i)
       PROVE  WaitInv'
  <2>1. requests' = RemoveAt(requests, i)
    BY <1>10 DEF Failed
  <2>2. IF Awaited(requests[i]) THEN page'.at \notin {"loading", "listing"} ELSE page' = page
    BY <1>10 DEF Failed, Show, Awaited, PageTypes
  <2>3. QED
    BY <2>1, <2>2, RemoveWaits
<1>11. CASE UNCHANGED vars
  BY <1>11 DEF vars, WaitInv
<1>12. QED
  BY <1>2, <1>3, <1>4, <1>5, <1>6, <1>7, <1>8, <1>9, <1>10, <1>11 DEF Next, Progress

(***************************************************************************)
(* Flows are kept apart.                                                   *)
(***************************************************************************)

LEMMA LeaveOwn ==
    ASSUME NEW reqs, Typed(reqs), timer # NoFlow => timer \in Saves /\ OfOneFlow(timer),
           \A k \in DOMAIN reqs : Own(reqs[k]),
           NEW r, requests' = Append(Left(reqs), r), Own(r)
    PROVE  \A k \in DOMAIN requests' : Own(requests'[k])
<1> DEFINE n == Len(Left(reqs))
<1>1. /\ Len(reqs) \in Nat /\ DOMAIN reqs = 1..Len(reqs)
      /\ n = IF timer = NoFlow THEN Len(reqs) ELSE Len(reqs) + 1
      /\ DOMAIN requests' = 1..(n + 1) /\ requests'[n + 1] = r
      /\ \A k \in 1..Len(reqs) :
            /\ requests'[k].kind = reqs[k].kind /\ requests'[k].data = reqs[k].data
            /\ requests'[k].handled = reqs[k].handled
      /\ timer # NoFlow => requests'[Len(reqs) + 1].kind = "save" /\ requests'[Len(reqs) + 1].data = timer
  BY LeaveElements
<1> HIDE DEF n
<1>2. ASSUME NEW k \in DOMAIN requests'
      PROVE  Own(requests'[k])
  <2>1. CASE k \in 1..Len(reqs)
    BY <2>1, <1>1 DEF Own
  <2>2. CASE k = n + 1
    BY <2>2, <1>1
  <2>3. CASE timer # NoFlow /\ k = Len(reqs) + 1 /\ k # n + 1
    BY <2>3, <1>1 DEF Own
  <2>4. QED
    BY <2>1, <2>2, <2>3, <1>1, <1>2
<1>3. QED
  BY <1>2

LEMMA RemoveOwn ==
    ASSUME RequestTypes, NEW i \in DOMAIN requests, requests' = RemoveAt(requests, i),
           \A k \in DOMAIN requests : Own(requests[k])
    PROVE  \A k \in DOMAIN requests' : Own(requests'[k])
BY RemoveElements

LEMMA AppendOwn ==
    ASSUME RequestTypes, NEW r, requests' = Append(requests, r), Own(r),
           \A k \in DOMAIN requests : Own(requests[k])
    PROVE  \A k \in DOMAIN requests' : Own(requests'[k])
<1>1. /\ Len(requests) \in Nat /\ DOMAIN requests = 1..Len(requests)
      /\ DOMAIN requests' = 1..(Len(requests) + 1)
      /\ \A k \in 1..Len(requests) : requests'[k] = requests[k]
      /\ requests'[Len(requests) + 1] = r
  BY AppendElements
<1>2. \A k \in 1..(Len(requests) + 1) : k \in 1..Len(requests) \/ k = Len(requests) + 1
  BY <1>1
<1>3. QED
  BY <1>1, <1>2

LEMMA KeptHandled ==
    ASSUME RequestTypes, PageTypes, KeptInv, NEW i \in DOMAIN requests, Handled(i)
    PROVE  KeptInv'
<1> USE DEF stores, builder, history
<1> SUFFICES ASSUME ~mixed' PROVE KeptInv'
  BY DEF KeptInv
<1> DEFINE r == requests[i]
<1>1. ~mixed /\ page' = page /\ current' = current /\ canvas' = canvas /\ timer' = timer
  BY DEF Handled
<1>2. /\ \A f \in Flows : stored[f].name.of = f /\ stored[f].drawing.of = f
      /\ \A k \in DOMAIN requests : Own(requests[k])
  BY <1>1 DEF KeptInv
<1>3. requests[i] \in AllRequests /\ Carries(r)
  BY DEF RequestTypes, Typed
<1>4. \A f \in Flows : stored'[f].name.of = f /\ stored'[f].drawing.of = f
  <2>1. CASE r.kind = "save"
    <3>1. r.data.id \in Flows /\ r.data.name.of = r.data.id /\ r.data.drawing.of = r.data.id
      BY <2>1, <1>2 DEF Handled, Kept, Own, OfOneFlow
    <3>2. stored' = [stored EXCEPT ![r.data.id].name = r.data.name,
                                   ![r.data.id].drawing = r.data.drawing]
      BY <2>1 DEF Handled
    <3>3. QED
      BY <3>1, <3>2, <1>2 DEF PageTypes
  <2>2. CASE r.kind \in {"load", "list"}
    BY <2>2, <1>2 DEF Handled
  <2>3. CASE r.kind = "create"
    <3>1. stored' = [stored EXCEPT ![r.data.id] = New(r.data.id)]
      BY <2>3 DEF Handled
    <3>2. \A f : New(f).name.of = f /\ New(f).drawing.of = f
      BY DEF New, Version
    <3>3. QED
      BY <3>1, <3>2, <1>2 DEF PageTypes
  <2>4. CASE r.kind = "delete"
    <3>1. stored' = [stored EXCEPT ![r.data.id].state = "deleted"]
      BY <2>4 DEF Handled
    <3>2. QED
      BY <3>1, <1>2 DEF PageTypes
  <2>5. QED
    BY <2>1, <2>2, <2>3, <2>4, <1>3 DEF AllRequests, Kinds
<1>5. \A k \in DOMAIN requests' : Own(requests'[k])
  <2>1. /\ DOMAIN requests' = DOMAIN requests
        /\ \A k \in DOMAIN requests : k # i => requests'[k] = requests[k]
        /\ requests'[i].kind = r.kind
    BY HandledElements
  <2>2. CASE r.kind = "load"
    <3>1. LET id == r.data.id IN requests'[i].data = Save(id, stored[id].name, stored[id].drawing)
      BY <2>2, HandledElements
    <3>2. r.data.id \in Flows
      BY <2>2, <1>3 DEF Carries
    <3>3. Own(requests'[i])
      BY <3>1, <3>2, <1>2 DEF Own, OfOneFlow, Save
    <3>4. QED
      BY <2>1, <3>3, <1>2
  <2>3. CASE r.kind = "save"
    <3>1. requests'[i].data = r.data
      BY <2>3, <2>1, HandledElements
    <3>2. Own(requests'[i])
      BY <3>1, <2>1, <2>3, <1>2 DEF Own
    <3>3. QED
      BY <2>1, <3>2, <1>2
  <2>4. CASE r.kind \notin {"load", "save"}
    <3>1. Own(requests'[i])
      BY <2>1, <2>4 DEF Own
    <3>2. QED
      BY <2>1, <3>1, <1>2
  <2>5. QED
    BY <2>2, <2>3, <2>4
<1>6. QED
  BY <1>1, <1>4, <1>5 DEF KeptInv, InBuilder

LEMMA KeptAnswered ==
    ASSUME RequestTypes, PageTypes, WaitInv, KeptInv, NEW i \in DOMAIN requests, Answered(i)
    PROVE  KeptInv'
<1> USE DEF stores, builder, history
<1> SUFFICES ASSUME ~mixed' PROVE KeptInv'
  BY DEF KeptInv
<1> DEFINE r == requests[i]
<1>1. ~mixed /\ stored' = stored /\ r.handled
  <2>1. stored' = stored /\ r.handled
    BY DEF Answered
  <2>2. ~mixed
    BY DEF Answered, SaveAnswered, LoadAnswered, ListAnswered, DeleteAnswered, PageTypes
  <2>3. QED
    BY <2>1, <2>2
<1>2. /\ \A f \in Flows : stored[f].name.of = f /\ stored[f].drawing.of = f
      /\ page.at = "shown" => current.id = page.flow /\ canvas.of = page.flow
      /\ InBuilder /\ current # NoFlow => OfOneFlow(current)
      /\ timer # NoFlow => OfOneFlow(timer)
      /\ \A k \in DOMAIN requests : Own(requests[k])
  BY <1>1 DEF KeptInv
<1>3. r \in AllRequests /\ Carries(r)
  BY DEF RequestTypes, Typed
<1>4. \A k \in DOMAIN requests' : Own(requests'[k])
  BY <1>2, RemoveOwn DEF Answered
<1>5. CASE SaveAnswered(r)
  <2>1. r.data \in Saves /\ OfOneFlow(r.data)
    BY <1>2, <1>3, <1>5 DEF SaveAnswered, Carries, Own
  <2>2. /\ current' = [r.data EXCEPT !.id = IF current = NoFlow THEN NoId ELSE current.id]
        /\ InBuilder /\ current # NoFlow => current.id = r.data.id
        /\ page' = page /\ canvas' = canvas /\ timer' = timer
    BY <1>5 DEF SaveAnswered
  <2>3. InBuilder => OfOneFlow(current') /\ (current # NoFlow => current'.id = current.id)
    BY <2>1, <2>2, NamesAssumption DEF OfOneFlow, Saves
  <2>4. page.at = "shown" => current # NoFlow /\ InBuilder
    BY DEF PageTypes, InBuilder
  <2>5. QED
    BY <1>1, <1>2, <1>4, <2>2, <2>3, <2>4 DEF KeptInv, InBuilder
<1>6. CASE LoadAnswered(r)
  <2>1. r.kind = "load" /\ r.data \in Saves /\ r.data.id \in Flows /\ OfOneFlow(r.data)
    BY <1>1, <1>2, <1>3, <1>6 DEF LoadAnswered, Carries, Own
  <2>2. current' = r.data /\ (page.at = "shown" => page.flow = r.data.id)
    BY <1>6 DEF LoadAnswered
  <2>3. CASE r.live
    <3>1. page.at = "loading" /\ r.data.id = page.flow
      BY <2>1, <2>3 DEF WaitInv, Awaited
    <3>2. page' = [page EXCEPT !.at = "shown"] /\ canvas' = r.data.drawing /\ timer' = r.data
      BY <1>6, <2>3 DEF LoadAnswered, Show
    <3>3. page'.at = "shown" /\ page'.flow = page.flow
      BY <3>2 DEF PageTypes
    <3>4. canvas'.of = page.flow
      BY <2>1, <3>1, <3>2 DEF OfOneFlow
    <3>5. QED
      BY <1>1, <1>2, <1>4, <2>1, <2>2, <3>1, <3>2, <3>3, <3>4 DEF KeptInv, InBuilder
  <2>4. CASE ~r.live
    <3>1. page' = page /\ canvas' = canvas /\ timer' = timer
      BY <1>6, <2>4 DEF LoadAnswered
    <3>2. QED
      BY <1>1, <1>2, <1>4, <2>1, <2>2, <3>1 DEF KeptInv, InBuilder
  <2>5. QED
    BY <2>3, <2>4
<1>7. CASE ListAnswered(r)
  <2>1. current' = current /\ canvas' = canvas /\ timer' = timer
    BY <1>7 DEF ListAnswered
  <2>2. page' = page \/ page'.at = "listed"
    BY <1>7 DEF ListAnswered, PageTypes
  <2>3. QED
    BY <1>1, <1>2, <1>4, <2>1, <2>2 DEF KeptInv, InBuilder
<1>8. CASE DeleteAnswered(r)
  BY <1>1, <1>2, <1>4, <1>8 DEF DeleteAnswered, KeptInv, InBuilder
<1>9. QED
  BY <1>5, <1>6, <1>7, <1>8 DEF Answered

LEMMA KeptVisit ==
    ASSUME RequestTypes, PageTypes, KeptInv, NEW f, NEW reqs, Typed(reqs), Visit(f, reqs),
           (\A k \in DOMAIN requests : Own(requests[k])) => \A k \in DOMAIN reqs : Own(reqs[k]),
           stored' = stored, mixed' = mixed
    PROVE  KeptInv'
<1> SUFFICES ASSUME ~mixed' PROVE KeptInv'
  BY DEF KeptInv
<1>1. Own(Request("load", [id |-> f]))
  BY DEF Own, Request
<1>2. timer # NoFlow => timer \in Saves /\ OfOneFlow(timer)
  BY DEF KeptInv, PageTypes
<1>3. \A k \in DOMAIN requests' : Own(requests'[k])
  BY <1>1, <1>2, LeaveOwn DEF KeptInv, Visit
<1>4. QED
  BY <1>3 DEF KeptInv, Visit, InBuilder

LEMMA KeptStep ==
    ASSUME RequestTypes, PageTypes, WaitInv, KeptInv, [Next]_vars
    PROVE  KeptInv'
<1> USE DEF stores, builder, history
<1>1. ASSUME NEW f \in Flows, OpenFlow(f)
      PROVE  KeptInv'
  BY <1>1, KeptVisit DEF OpenFlow, RequestTypes
<1>2. ASSUME NEW f \in Flows, CreateFlow(f) \/ DeleteFlow(f)
      PROVE  KeptInv'
  <2>1. Own(Request("create", [id |-> f])) /\ Own(Request("delete", [id |-> f]))
    BY DEF Own, Request
  <2>2. ~mixed' => \A k \in DOMAIN requests' : Own(requests'[k])
    BY <1>2, <2>1, AppendOwn DEF CreateFlow, DeleteFlow, KeptInv
  <2>3. QED
    BY <1>2, <2>2 DEF CreateFlow, DeleteFlow, KeptInv, InBuilder
<1>3. CASE GoBack
  <2>1. Own(Request("list", NoFlow))
    BY DEF Own, Request
  <2>2. ~mixed' => \A k \in DOMAIN requests' : Own(requests'[k])
    BY <1>3, <2>1, LeaveOwn DEF GoBack, KeptInv, RequestTypes, PageTypes
  <2>3. QED
    BY <1>3, <2>2 DEF GoBack, KeptInv, InBuilder
<1>4. CASE Draw
  <2>1. canvas'.of = canvas.of /\ timer' = Save(current.id, current.name, canvas')
    BY <1>4 DEF Draw, Version
  <2>2. ~mixed => OfOneFlow(timer')
    BY <1>4, <2>1 DEF Draw, KeptInv, InBuilder, PageTypes, OfOneFlow, Save
  <2>3. QED
    BY <1>4, <2>1, <2>2 DEF Draw, KeptInv, InBuilder
<1>5. CASE Rename
  <2> DEFINE s == Save(current.id, Version(current.id, acts'), current.drawing)
  <2>1. ~mixed => Own(Request("save", s))
    BY <1>5 DEF Rename, KeptInv, Own, OfOneFlow, Request, Save, Version
  <2>2. ~mixed' => \A k \in DOMAIN requests' : Own(requests'[k])
    BY <1>5, <2>1, AppendOwn DEF Rename, KeptInv
  <2>3. QED
    BY <1>5, <2>2 DEF Rename, KeptInv, InBuilder
<1>6. CASE SendSave
  <2>1. ~mixed => Own(Request("save", timer))
    BY <1>6 DEF SendSave, KeptInv, Own, Request
  <2>2. ~mixed' => \A k \in DOMAIN requests' : Own(requests'[k])
    BY <1>6, <2>1, AppendOwn DEF SendSave, KeptInv
  <2>3. QED
    BY <1>6, <2>2 DEF SendSave, KeptInv, InBuilder
<1>7. ASSUME NEW i \in DOMAIN requests, CreateAnswered(i)
      PROVE  KeptInv'
  <2> DEFINE reqs == RemoveAt(requests, i)
  <2>1. Typed(reqs) /\ Visit(requests[i].data.id, reqs)
    BY <1>7, RemoveTypes DEF RequestTypes, CreateAnswered
  <2>2. (\A k \in DOMAIN requests : Own(requests[k])) => \A k \in DOMAIN reqs : Own(reqs[k])
    <3>1. requests \in Seq(AllRequests)
      BY DEF RequestTypes, Typed
    <3>2. /\ DOMAIN reqs = 1..(Len(requests) - 1)
          /\ \A k \in 1..(Len(requests) - 1) :
                reqs[k] = IF k < i THEN requests[k] ELSE requests[k + 1]
      BY <3>1, RemoveAtElements
    <3> HIDE DEF reqs
    <3>3. QED
      BY <3>1, <3>2
  <2> HIDE DEF reqs
  <2>3. QED
    BY <1>7, <2>1, <2>2, KeptVisit DEF CreateAnswered
<1>8. ASSUME NEW i \in DOMAIN requests, Failed(i)
      PROVE  KeptInv'
  <2>1. ~mixed' => \A k \in DOMAIN requests' : Own(requests'[k])
    BY <1>8, RemoveOwn DEF Failed, KeptInv
  <2>2. ~mixed' => /\ ~mixed /\ stored' = stored /\ current' = current
                   /\ canvas' = canvas /\ timer' = timer
                   /\ page' = page \/ page'.at = "listed" \/ (page'.at = "broken" /\ current = NoFlow)
    BY <1>8 DEF Failed, PageTypes
  <2>3. QED
    BY <2>1, <2>2 DEF KeptInv, InBuilder
<1>9. CASE UNCHANGED vars
  BY <1>9 DEF vars, KeptInv, InBuilder
<1>10. QED
  BY <1>1, <1>2, <1>3, <1>4, <1>5, <1>6, <1>7, <1>8, <1>9, KeptHandled, KeptAnswered
     DEF Next, Progress

(***************************************************************************)
(* While requests are answered in order.                                   *)
(***************************************************************************)

LEMMA OrderUser ==
    ASSUME RequestTypes, PageTypes, KeptInv, OrderInv,
           \/ \E f \in Flows : OpenFlow(f) \/ CreateFlow(f) \/ DeleteFlow(f)
           \/ GoBack \/ Draw \/ Rename \/ SendSave
    PROVE  OrderInv'
<1> USE DEF stores, builder, history
<1> SUFFICES ASSUME orderly' PROVE OrderInv'
  BY DEF OrderInv
<1>1. orderly /\ mixed' = mixed
  BY DEF OpenFlow, CreateFlow, DeleteFlow, GoBack, Draw, Rename, SendSave
<1>2. timer # NoFlow => timer \in Saves
  BY DEF PageTypes
<1>3. ~mixed /\ page.at # "broken"
      /\ (timer # NoFlow => page.at = "shown" /\ timer.id = page.flow)
  BY <1>1 DEF OrderInv
<1>4. page.at = "shown" => current.id = page.flow
  BY <1>3 DEF KeptInv
<1>5. ASSUME NEW f \in Flows, OpenFlow(f)
      PROVE  OrderInv'
  <2>1. /\ page.at = "listed" /\ timer = NoFlow
        /\ requests' = Append(Left(requests), Request("load", [id |-> f]))
        /\ page'.at = "loading" /\ timer' = NoFlow
    BY <1>3, <1>5 DEF OpenFlow, Visit
  <2>2. /\ Len(requests) \in Nat /\ DOMAIN requests = 1..Len(requests)
        /\ Len(requests') = Len(requests) + 1 /\ DOMAIN requests' = 1..(Len(requests) + 1)
        /\ \A k \in 1..Len(requests) :
              requests'[k].kind = requests[k].kind /\ ~requests'[k].live
        /\ requests'[Len(requests) + 1].kind = "load"
    <3> DEFINE r == Request("load", [id |-> f])
    <3>1. r.kind = "load"
      BY DEF Request
    <3> HIDE DEF r
    <3>2. requests' = Append(Left(requests), r)
      BY <2>1 DEF r
    <3>3. QED
      BY <1>2, <2>1, <3>1, <3>2, LeaveElements DEF RequestTypes
  <2>3. \A k \in 1..Len(requests) : requests[k].kind # "save"
    BY <1>1, <2>1, <2>2 DEF OrderInv
  <2>4. \A k \in DOMAIN requests' : requests'[k].kind # "save"
                                    /\ (Awaited(requests'[k]) => k = Len(requests'))
    BY <2>2, <2>3 DEF Awaited
  <2>5. QED
    BY <1>1, <1>3, <2>1, <2>4 DEF OrderInv
<1>6. ASSUME NEW kind \in {"create", "delete"}, NEW d, requests' = Append(requests, Request(kind, d)),
             page.at \in {"listing", "listed"}, page' = page, timer' = timer
      PROVE  OrderInv'
  <2>1. /\ Len(requests) \in Nat /\ DOMAIN requests = 1..Len(requests)
        /\ Len(requests') = Len(requests) + 1 /\ DOMAIN requests' = 1..(Len(requests) + 1)
        /\ \A k \in 1..Len(requests) : requests'[k] = requests[k]
        /\ requests'[Len(requests) + 1].kind \in {"create", "delete"}
    BY <1>6, AppendElements DEF Request
  <2>2. \A k \in DOMAIN requests' : k \in DOMAIN requests \/ k = Len(requests) + 1
    BY <2>1
  <2>3. page.at = "listed" => \A k \in DOMAIN requests' : requests'[k].kind \in {"create", "delete"}
    BY <1>1, <2>1, <2>2 DEF OrderInv
  <2>4. ASSUME NEW k \in DOMAIN requests', NEW l \in DOMAIN requests', k < l
        PROVE  /\ requests'[k].kind = "create" => requests'[l].kind # "save"
               /\ page.at = "listing" /\ Awaited(requests'[k]) =>
                     requests'[l].kind \in {"create", "delete"}
    <3>1. CASE l \in DOMAIN requests
      BY <1>1, <2>1, <2>4, <3>1 DEF OrderInv
    <3>2. CASE l = Len(requests) + 1
      BY <2>1, <3>2
    <3>3. QED
      BY <3>1, <3>2, <2>2
  <2>5. QED
    BY <1>1, <1>3, <1>6, <2>3, <2>4 DEF OrderInv
<1>7. ASSUME NEW f \in Flows, CreateFlow(f)
      PROVE  OrderInv'
  BY <1>6, <1>7 DEF CreateFlow
<1>8. ASSUME NEW f \in Flows, DeleteFlow(f)
      PROVE  OrderInv'
  BY <1>6, <1>8 DEF DeleteFlow
<1>9. CASE GoBack
  <2> DEFINE n == Len(Left(requests))
  <2>1. /\ page.at \in {"loading", "shown"} /\ page'.at = "listing" /\ timer' = NoFlow
        /\ requests' = Append(Left(requests), Request("list", NoFlow))
    BY <1>3, <1>9 DEF GoBack, InBuilder
  <2>2. /\ Len(requests) \in Nat /\ DOMAIN requests = 1..Len(requests)
        /\ n = IF timer = NoFlow THEN Len(requests) ELSE Len(requests) + 1
        /\ DOMAIN requests' = 1..(n + 1)
        /\ \A k \in 1..Len(requests) :
              requests'[k].kind = requests[k].kind /\ ~requests'[k].live
        /\ timer # NoFlow => /\ requests'[Len(requests) + 1].kind = "save"
                             /\ ~requests'[Len(requests) + 1].live
        /\ requests'[n + 1].kind = "list"
    <3> DEFINE r == Request("list", NoFlow)
    <3>1. r.kind = "list"
      BY DEF Request
    <3> HIDE DEF r
    <3>2. requests' = Append(Left(requests), r)
      BY <2>1 DEF r
    <3>3. QED
      BY <1>2, <2>1, <3>1, <3>2, LeaveElements DEF RequestTypes
  <2> HIDE DEF n
  <2>3. \A k \in DOMAIN requests' : \/ k \in DOMAIN requests
                                    \/ timer # NoFlow /\ k = Len(requests) + 1 /\ k # n + 1
                                    \/ k = n + 1
    BY <2>2
  <2>4. timer # NoFlow => \A k \in DOMAIN requests : requests[k].kind = "save"
    BY <1>1, <1>3 DEF OrderInv
  <2>5. ASSUME NEW k \in DOMAIN requests', NEW l \in DOMAIN requests', k < l
        PROVE  /\ requests'[k].kind = "create" => requests'[l].kind # "save"
               /\ ~Awaited(requests'[k])
    <3>1. k \in DOMAIN requests \/ (timer # NoFlow /\ k = Len(requests) + 1)
      BY <2>2, <2>3, <2>5
    <3>2. ~Awaited(requests'[k])
      BY <3>1, <2>2 DEF Awaited
    <3>3. CASE l = n + 1
      BY <3>2, <3>3, <2>2
    <3>4. CASE l # n + 1 /\ timer # NoFlow
      <4>1. requests'[k].kind = "save"
        BY <3>1, <3>4, <2>2, <2>4
      <4>2. QED
        BY <3>2, <4>1
    <3>5. CASE l # n + 1 /\ timer = NoFlow
      <4>1. k \in DOMAIN requests /\ l \in DOMAIN requests
        BY <3>1, <3>5, <2>3
      <4>2. requests[k].kind = "create" => requests[l].kind # "save"
        BY <4>1, <2>5, <1>1 DEF OrderInv
      <4>3. QED
        BY <3>2, <4>1, <4>2, <2>2
    <3>6. QED
      BY <3>3, <3>4, <3>5
  <2>6. QED
    BY <1>1, <1>3, <2>1, <2>5 DEF OrderInv
<1>10. CASE Draw
  <2>1. page' = page /\ requests' = requests /\ page.at = "shown" /\ timer'.id = current.id
    BY <1>10 DEF Draw, Save
  <2>2. QED
    BY <1>1, <1>3, <1>4, <2>1 DEF OrderInv
<1>11. ASSUME NEW s, requests' = Append(requests, Request("save", s)), page.at = "shown",
              s.id = page.flow, page' = page, timer' = timer \/ timer' = NoFlow
       PROVE  OrderInv'
  <2>1. /\ Len(requests) \in Nat /\ DOMAIN requests = 1..Len(requests)
        /\ DOMAIN requests' = 1..(Len(requests) + 1)
        /\ \A k \in 1..Len(requests) : requests'[k] = requests[k]
        /\ requests'[Len(requests) + 1].kind = "save" /\ requests'[Len(requests) + 1].data = s
    BY <1>11, AppendElements DEF Request
  <2>2. \A k \in DOMAIN requests' : k \in DOMAIN requests \/ k = Len(requests) + 1
    BY <2>1
  <2>3. \A k \in DOMAIN requests' : requests'[k].kind = "save" /\ requests'[k].data.id = page.flow
    BY <1>1, <1>11, <2>1, <2>2 DEF OrderInv
  <2>4. QED
    BY <1>1, <1>3, <1>11, <2>3 DEF OrderInv
<1>12. CASE Rename
  <2>1. page.at = "shown"
    BY <1>12 DEF Rename
  <2>2. QED
    BY <1>4, <1>11, <1>12, <2>1 DEF Rename, Save
<1>13. CASE SendSave
  BY <1>3, <1>11, <1>13 DEF SendSave
<1>14. QED
  BY <1>5, <1>7, <1>8, <1>9, <1>10, <1>12, <1>13

LEMMA OrderHandled ==
    ASSUME RequestTypes, PageTypes, OrderInv, NEW i \in DOMAIN requests, Handled(i)
    PROVE  OrderInv'
<1> USE DEF stores, builder, history
<1> SUFFICES ASSUME orderly' PROVE OrderInv'
  BY DEF OrderInv
<1>1. orderly /\ mixed' = mixed /\ page' = page /\ timer' = timer
  BY DEF Handled
<1>2. DOMAIN requests' = DOMAIN requests
  BY HandledElements
<1>3. \A k \in DOMAIN requests :
        /\ requests'[k].kind = requests[k].kind /\ requests'[k].live = requests[k].live
        /\ requests[k].kind = "save" => requests'[k].data = requests[k].data
  <2>1. \A k \in DOMAIN requests : k # i => requests'[k] = requests[k]
    BY HandledElements
  <2>2. /\ requests'[i].kind = requests[i].kind /\ requests'[i].live = requests[i].live
        /\ requests[i].kind = "save" => requests'[i].data = requests[i].data
    BY HandledElements
  <2>3. QED
    BY <2>1, <2>2
<1>4. \A k \in DOMAIN requests : Awaited(requests'[k]) <=> Awaited(requests[k])
  BY <1>3 DEF Awaited
<1>5. Len(requests') = Len(requests)
  <2>1. requests \in Seq(AllRequests) /\ requests' \in Seq(AllRequests)
    BY HandledTypes DEF RequestTypes, Typed
  <2>2. QED
    BY <2>1, <1>2
<1>6. QED
  BY <1>1, <1>2, <1>3, <1>4, <1>5 DEF OrderInv

(* The oldest request is answered or lost; the others move up.             *)
LEMMA OldestElements ==
    ASSUME RequestTypes, 1 \in DOMAIN requests, requests' = RemoveAt(requests, 1)
    PROVE  /\ Len(requests) \in Nat /\ DOMAIN requests = 1..Len(requests)
           /\ Len(requests') = Len(requests) - 1 /\ DOMAIN requests' = 1..(Len(requests) - 1)
           /\ \A k \in DOMAIN requests' : k + 1 \in DOMAIN requests /\ requests'[k] = requests[k + 1]
           /\ \A k, l \in DOMAIN requests' : k < l => k + 1 < l + 1
BY RemoveElements

LEMMA OrderAnswered ==
    ASSUME RequestTypes, PageTypes, WaitInv, KeptInv, OrderInv,
           NEW i \in DOMAIN requests, Answered(i)
    PROVE  OrderInv'
<1> USE DEF stores, builder, history
<1> SUFFICES ASSUME orderly' PROVE OrderInv'
  BY DEF OrderInv
<1> DEFINE r == requests[1]
<1>1. orderly /\ i = 1 /\ requests' = RemoveAt(requests, 1)
  BY DEF Answered
<1>2. /\ Len(requests) \in Nat /\ DOMAIN requests = 1..Len(requests) /\ 1 \in DOMAIN requests
      /\ Len(requests') = Len(requests) - 1 /\ DOMAIN requests' = 1..(Len(requests) - 1)
      /\ \A k \in DOMAIN requests' : k + 1 \in DOMAIN requests /\ requests'[k] = requests[k + 1]
      /\ \A k, l \in DOMAIN requests' : k < l => k + 1 < l + 1
  BY <1>1, OldestElements
<1>3. ~mixed /\ page.at # "broken"
      /\ (timer # NoFlow => page.at = "shown" /\ timer.id = page.flow)
  BY <1>1 DEF OrderInv
<1>4. ASSUME page' = page, timer' = timer, ~mixed'
      PROVE  OrderInv'
  <2>1. \A k \in DOMAIN requests' :
          /\ page.at = "shown" => requests'[k].kind = "save" /\ requests'[k].data.id = page.flow
          /\ page.at = "loading" => requests'[k].kind # "save"
          /\ page.at = "listed" => requests'[k].kind \in {"create", "delete"}
    BY <1>1, <1>2 DEF OrderInv
  <2>2. ASSUME NEW k \in DOMAIN requests', page.at = "loading", Awaited(requests'[k])
        PROVE  k = Len(requests')
    <3>1. k + 1 = Len(requests)
      BY <2>2, <1>1, <1>2 DEF OrderInv
    <3>2. QED
      BY <3>1, <1>2, <2>2
  <2>3. ASSUME NEW k \in DOMAIN requests', NEW l \in DOMAIN requests', k < l
        PROVE  /\ requests'[k].kind = "create" => requests'[l].kind # "save"
               /\ page.at = "listing" /\ Awaited(requests'[k]) =>
                     requests'[l].kind \in {"create", "delete"}
    <3>1. k + 1 \in DOMAIN requests /\ l + 1 \in DOMAIN requests /\ k + 1 < l + 1
          /\ requests'[k] = requests[k + 1] /\ requests'[l] = requests[l + 1]
      BY <1>2, <2>3
    <3>2. QED
      BY <3>1, <1>1 DEF OrderInv
  <2>4. QED
    BY <1>3, <1>4, <2>1, <2>2, <2>3 DEF OrderInv
<1>5. CASE SaveAnswered(r)
  <2>1. page.at # "loading" /\ (page.at = "shown" => r.data.id = page.flow)
    BY <1>1, <1>2, <1>5 DEF SaveAnswered, OrderInv
  <2>2. page.at = "shown" => current.id = page.flow
    BY <1>3 DEF KeptInv
  <2>3. QED
    BY <1>3, <1>4, <1>5, <2>1, <2>2 DEF SaveAnswered, InBuilder
<1>6. CASE LoadAnswered(r)
  <2>1. page.at # "shown" /\ r.kind = "load"
    BY <1>1, <1>2, <1>6 DEF LoadAnswered, OrderInv
  <2>2. ~mixed'
    BY <1>3, <1>6, <2>1 DEF LoadAnswered
  <2>3. CASE r.live
    <3>1. Awaited(r) /\ page.at = "loading" /\ r.data.id = page.flow
      BY <2>1, <2>3, <1>2 DEF WaitInv, Awaited
    <3>2. DOMAIN requests' = {}
      BY <3>1, <1>1, <1>2 DEF OrderInv
    <3>3. page'.at = "shown" /\ page'.flow = page.flow /\ timer' = r.data
      BY <1>6, <2>3 DEF LoadAnswered, Show, PageTypes
    <3>4. QED
      BY <2>2, <3>1, <3>2, <3>3 DEF OrderInv
  <2>4. CASE ~r.live
    BY <1>4, <1>6, <2>2, <2>4 DEF LoadAnswered
  <2>5. QED
    BY <2>3, <2>4
<1>7. CASE ListAnswered(r)
  <2>1. CASE r.live
    <3>1. Awaited(r) /\ page.at = "listing"
      BY <1>7, <2>1, <1>2 DEF ListAnswered, WaitInv, Awaited
    <3>2. page'.at = "listed" /\ timer' = timer /\ timer = NoFlow /\ ~mixed'
      BY <1>3, <1>7, <2>1, <3>1 DEF ListAnswered, PageTypes
    <3>3. \A k \in DOMAIN requests' : 1 < k + 1
      BY <1>2
    <3>4. \A k \in DOMAIN requests' : requests'[k].kind \in {"create", "delete"}
      BY <1>1, <1>2, <3>1, <3>3 DEF OrderInv
    <3>5. QED
      BY <3>2, <3>4 DEF OrderInv
  <2>2. CASE ~r.live
    BY <1>3, <1>4, <1>7, <2>2 DEF ListAnswered
  <2>3. QED
    BY <2>1, <2>2
<1>8. CASE DeleteAnswered(r)
  BY <1>3, <1>4, <1>8 DEF DeleteAnswered
<1>9. QED
  BY <1>1, <1>5, <1>6, <1>7, <1>8 DEF Answered

LEMMA OrderCreateAnswered ==
    ASSUME RequestTypes, PageTypes, OrderInv, NEW i \in DOMAIN requests, CreateAnswered(i)
    PROVE  OrderInv'
<1> USE DEF stores, builder, history
<1> SUFFICES ASSUME orderly' PROVE OrderInv'
  BY DEF OrderInv
<1> DEFINE reqs == RemoveAt(requests, 1)
<1>1. /\ orderly /\ i = 1 /\ mixed' = mixed /\ requests[1].kind = "create" /\ 1 \in DOMAIN requests
      /\ Visit(requests[1].data.id, reqs)
  BY DEF CreateAnswered
<1>2. ~mixed /\ page.at # "shown" /\ timer = NoFlow
  BY <1>1 DEF OrderInv
<1>3. Typed(reqs)
  BY <1>1, RemoveTypes DEF RequestTypes
<1>4. requests \in Seq(AllRequests)
  BY DEF RequestTypes, Typed
<1>5. \A k \in DOMAIN reqs : reqs[k].kind # "save"
  <2>1. /\ Len(requests) \in Nat /\ DOMAIN requests = 1..Len(requests)
        /\ DOMAIN reqs = 1..(Len(requests) - 1)
        /\ \A k \in 1..(Len(requests) - 1) :
              reqs[k] = IF k < 1 THEN requests[k] ELSE requests[k + 1]
    BY <1>1, <1>4, RemoveAtElements
  <2> HIDE DEF reqs
  <2>2. \A k \in DOMAIN reqs : k + 1 \in DOMAIN requests /\ 1 < k + 1 /\ reqs[k] = requests[k + 1]
    BY <2>1
  <2>3. QED
    BY <2>2, <1>1 DEF OrderInv
<1> HIDE DEF reqs
<1>6. /\ page'.at = "loading" /\ timer' = NoFlow
      /\ requests' = Append(Left(reqs), Request("load", [id |-> requests[1].data.id]))
  BY <1>1 DEF Visit
<1>7. /\ Len(reqs) \in Nat /\ DOMAIN reqs = 1..Len(reqs)
      /\ Len(requests') = Len(reqs) + 1 /\ DOMAIN requests' = 1..(Len(reqs) + 1)
      /\ \A k \in 1..Len(reqs) : requests'[k].kind = reqs[k].kind /\ ~requests'[k].live
      /\ requests'[Len(reqs) + 1].kind = "load"
  <2> DEFINE r == Request("load", [id |-> requests[1].data.id])
  <2>1. r.kind = "load"
    BY DEF Request
  <2> HIDE DEF r
  <2>2. requests' = Append(Left(reqs), r)
    BY <1>6 DEF r
  <2>3. QED
    BY <1>2, <1>3, <2>1, <2>2, LeaveElements
<1>8. \A k \in DOMAIN requests' : requests'[k].kind # "save"
                                  /\ (Awaited(requests'[k]) => k = Len(requests'))
  BY <1>5, <1>7 DEF Awaited
<1>9. QED
  BY <1>1, <1>2, <1>6, <1>8 DEF OrderInv

LEMMA OrderStep ==
    ASSUME RequestTypes, PageTypes, WaitInv, KeptInv, OrderInv, [Next]_vars
    PROVE  OrderInv'
<1>1. ASSUME NEW i \in DOMAIN requests, Failed(i)
      PROVE  OrderInv'
  BY <1>1 DEF Failed, OrderInv
<1>2. CASE UNCHANGED vars
  BY <1>2 DEF vars, stores, builder, history, OrderInv
<1>3. QED
  BY <1>1, <1>2, OrderUser, OrderHandled, OrderAnswered, OrderCreateAnswered DEF Next, Progress

(* The invariant that carries the rest: what requests carry, that a page    *)
(* waits for one answer, what is unmixed until an answer is used on another *)
(* page, and what a page can meet while requests are answered in order.     *)
THEOREM PagesInductive == Spec => []PagesInv
<1>1. Init => PagesInv
  BY InitPages
<1>2. PagesInv /\ [Next]_vars => PagesInv'
  <2> SUFFICES ASSUME PagesInv, [Next]_vars PROVE PagesInv'
    OBVIOUS
  <2>1. RequestTypes /\ PageTypes /\ WaitInv /\ KeptInv /\ OrderInv
    BY DEF PagesInv
  <2>2. RequestTypes' /\ PageTypes'
    <3>1. CASE UNCHANGED vars
      BY <2>1, <3>1 DEF vars, stores, builder, history, RequestTypes, PageTypes
    <3>2. QED
      BY <2>1, <3>1, UserTypes, HandledTypes, AnsweredTypes, CreateAnsweredTypes, FailedTypes
         DEF Next, Progress
  <2>3. QED
    BY <2>1, <2>2, WaitStep, KeptStep, OrderStep DEF PagesInv
<1>3. QED
  BY <1>1, <1>2, PTL DEF Spec

(* No flow is stored with a name or a drawing made for another, and the     *)
(* builder shows the flow of its address, unless an answer was used on the  *)
(* page of another flow; which does not happen while requests are answered  *)
(* in order, however pages are left and whatever saves are due.             *)
THEOREM FlowsApart == Spec => []FlowsKeptApart
<1>1. PagesInv => FlowsKeptApart
  BY DEF PagesInv, OrderInv, KeptInv, FlowsKeptApart
<1>2. QED
  BY <1>1, PagesInductive, PTL

(* The variables have their types; a page that waits waits for exactly one  *)
(* answer, and a builder that is shown has a current flow and a drawing.    *)
THEOREM PagesTypes == Spec => []TypeOK
<1>1. PagesInv => TypeOK
  <2> SUFFICES ASSUME PagesInv PROVE TypeOK
    OBVIOUS
  <2> DEFINE waiting == {i \in DOMAIN requests :
                           requests[i].live /\ requests[i].kind \in {"load", "list"}}
  <2>1. DOMAIN list \subseteq Flows
    BY DEF PagesInv, PageTypes, Listings
  <2>2. Cardinality(waiting) = (IF page.at \in {"loading", "listing"} THEN 1 ELSE 0)
    <3>1. CASE page.at \in {"loading", "listing"}
      <4>1. PICK i \in DOMAIN requests : Awaited(requests[i])
        BY <3>1 DEF PagesInv, WaitInv
      <4>2. waiting = {i}
        BY <4>1 DEF PagesInv, WaitInv, Awaited
      <4>3. QED
        BY <3>1, <4>2, FS_Singleton
    <3>2. CASE page.at \notin {"loading", "listing"}
      <4>1. waiting = {}
        BY <3>2 DEF PagesInv, WaitInv, Awaited
      <4>2. QED
        BY <3>2, <4>1, FS_EmptySet
    <3>3. QED
      BY <3>1, <3>2
  <2>3. QED
    BY <2>1, <2>2 DEF TypeOK, PagesInv, PageTypes
<1>2. QED
  BY <1>1, PagesInductive, PTL
=============================================================================
