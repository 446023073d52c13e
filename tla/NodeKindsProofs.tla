-------------------------- MODULE NodeKindsProofs --------------------------
(* Proofs about the nodes that reach out of the runner: what a chat node    *)
(* and the tools of an agent report while they run agrees with what they    *)
(* return, for answers of any length and any number of overlapping calls,   *)
(* and a code node returns what its script printed, for output of any       *)
(* length on both pipes cut into any chunks, but for the characters these   *)
(* cut.                                                                     *)
EXTENDS NodeKinds, FiniteSetTheorems, SequenceTheorems, WellFoundedInduction, TLAPS

(***************************************************************************)
(* Chat nodes.                                                             *)
(***************************************************************************)

(* Nothing is spoken before the stream begins, and a stream that began does *)
(* not return an error.                                                     *)
ChatInv ==
    /\ calling \in {"called", "generating", "streaming", "settled"}
    /\ spoken \in Seq({"text", "blank"}) /\ response \in Seq(Nat)
    /\ calling \in {"called", "generating"} => spoken = <<>> /\ response = <<>>
    /\ calling # "settled" => reply = "none"
    /\ AnswerPublished

LEMMA InitChat == ChatInit => ChatInv
BY DEF ChatInit, ChatInv, AnswerPublished, ToSet

LEMMA ChunkStep ==
    ASSUME ChatInv, NEW k \in {"text", "blank"}, Chunk(k)
    PROVE  ChatInv'
<1> DEFINE n == Len(spoken)
           texts == {i \in DOMAIN spoken : spoken[i] = "text"}
<1>1. /\ calling = "streaming" /\ calling' = calling /\ reply' = reply /\ chat' = chat
      /\ spoken' = Append(spoken, k) /\ reply = "none"
  BY DEF Chunk, ChatInv
<1>2. /\ n \in Nat /\ DOMAIN spoken = 1..n /\ Len(spoken') = n + 1
      /\ spoken' \in Seq({"text", "blank"}) /\ DOMAIN spoken' = 1..(n + 1)
      /\ \A i \in 1..n : spoken'[i] = spoken[i]
      /\ spoken'[n + 1] = k
  BY <1>1 DEF ChatInv
<1>3. ToSet(response) = texts /\ (\A i, j \in DOMAIN response : i < j => response[i] < response[j])
  BY DEF ChatInv, AnswerPublished
<1>4. published = IF chat.field THEN response ELSE <<>>
  BY DEF ChatInv, AnswerPublished
<1>5. CASE k = "blank"
  <2>1. response' = response /\ published' = published
    BY <1>5 DEF Chunk
  <2>2. {i \in DOMAIN spoken' : spoken'[i] = "text"} = texts
    BY <1>2, <1>5
  <2>3. QED
    BY <1>1, <1>2, <1>3, <1>4, <2>1, <2>2 DEF ChatInv, AnswerPublished, ToSet
<1>6. CASE k = "text"
  <2> DEFINE m == Len(response)
  <2>1. response' = Append(response, n + 1) /\ published' = IF chat.field THEN response' ELSE published
    BY <1>2, <1>6 DEF Chunk
  <2>2. /\ m \in Nat /\ DOMAIN response = 1..m /\ DOMAIN response' = 1..(m + 1)
        /\ response' \in Seq(Nat) /\ response'[m + 1] = n + 1
        /\ \A i \in 1..m : response'[i] = response[i] /\ response[i] \in ToSet(response)
    BY <1>2, <2>1 DEF ChatInv, ToSet
  <2>3. {i \in DOMAIN spoken' : spoken'[i] = "text"} = texts \cup {n + 1}
    BY <1>2, <1>6
  <2>4. ToSet(response') = ToSet(response) \cup {n + 1}
    <3>1. \A i \in 1..(m + 1) : i \in 1..m \/ i = m + 1
      BY <2>2
    <3>2. m + 1 \in 1..(m + 1) /\ \A i \in 1..m : i \in 1..(m + 1)
      BY <2>2
    <3>3. ToSet(response) = {response[i] : i \in 1..m}
      BY <2>2 DEF ToSet
    <3>4. ToSet(response)' = {response'[i] : i \in 1..(m + 1)}
      BY <2>2 DEF ToSet
    <3>5. QED
      BY <2>2, <3>1, <3>2, <3>3, <3>4
  <2>5. \A i \in 1..m : response[i] \in 1..n
    BY <1>2, <1>3, <2>2
  <2>6. \A i, j \in DOMAIN response' : i < j => response'[i] < response'[j]
    BY <1>2, <1>3, <2>2, <2>5, SMTT(30)
  <2>7. published' = IF chat'.field THEN response' ELSE <<>>
    BY <1>1, <1>4, <2>1
  <2>8. QED
    BY <1>1, <1>2, <1>3, <2>2, <2>3, <2>4, <2>6, <2>7 DEF ChatInv, AnswerPublished
<1>7. QED
  BY <1>5, <1>6

LEMMA ChatStep == ChatInv /\ [ChatNext]_chatVars => ChatInv'
<1> SUFFICES ASSUME ChatInv, [ChatNext]_chatVars PROVE ChatInv'
  OBVIOUS
<1>1. CASE Validate \/ Generate \/ AnswerOver
  <2>1. UNCHANGED <<chat, spoken, published, response>>
    BY <1>1 DEF Validate, Generate, AnswerOver
  <2>2. reply' = "error" => published = <<>>
    BY <1>1 DEF Validate, Generate, AnswerOver, Answered, ChatInv, AnswerPublished
  <2>3. AnswerPublished'
    BY <2>1, <2>2 DEF ChatInv, AnswerPublished, ToSet
  <2>4. QED
    BY <1>1, <2>1, <2>3 DEF Validate, Generate, AnswerOver, Answered, ChatInv
<1>2. CASE UNCHANGED chatVars
  BY <1>2 DEF chatVars, ChatInv, AnswerPublished, ToSet
<1>3. QED
  BY <1>1, <1>2, ChunkStep DEF ChatNext

(***************************************************************************)
(* Tools.                                                                  *)
(***************************************************************************)

Calls ==
    [tool : kit, done : Nat, told : {"pending", "misfit", "running", "ok", "error"}, body : BOOLEAN]

ToolInv ==
    /\ kit \subseteq DOMAIN Tool
    /\ calls \in Seq(Calls)
    /\ reported \in [DOMAIN Tool -> [ToolEvents -> Nat]]
    /\ VerdictsAgree

LEMMA ToolFacts ==
    /\ \A t \in DOMAIN Tool : t # "http" => Tool[t].completed = Len(Tool[t].awaits)
    /\ Len(Tool["http"].awaits) = 3 /\ Tool["http"].completed = 2
    /\ \A c : c.tool = "http" /\ c.body => Spent(c, 3)
<1>1. ASSUME NEW t \in DOMAIN Tool, t # "http"
      PROVE  Tool[t].completed = Len(Tool[t].awaits)
  <2>1. t \in {"brave", "discord", "firecrawl", "openai", "postgres", "sdk", "sonar"}
    BY <1>1 DEF Tool
  <2>2. /\ Tool["brave"].completed = 2 /\ Tool["brave"].awaits = <<"service", "body">>
        /\ Tool["sonar"].completed = 2 /\ Tool["sonar"].awaits = <<"service", "body">>
    BY DEF Tool, BraveSearch, SonarSearch
  <2>3. /\ Tool["discord"].completed = 1 /\ Tool["discord"].awaits = <<"service">>
        /\ Tool["firecrawl"].completed = 1 /\ Tool["firecrawl"].awaits = <<"service">>
        /\ Tool["openai"].completed = 1 /\ Tool["openai"].awaits = <<"service">>
        /\ Tool["sdk"].completed = 1 /\ Tool["sdk"].awaits = <<"event">>
    BY DEF Tool, Discord, Firecrawl, OpenAITool, SDKNotifier
  <2>4. Tool["postgres"].completed = 3
        /\ Tool["postgres"].awaits = <<"service", "service", "service">>
    BY DEF Tool, PostgresQuery
  <2>5. \A x, y, z : Len(<<x>>) = 1 /\ Len(<<x, y>>) = 2 /\ Len(<<x, y, z>>) = 3
    OBVIOUS
  <2>6. QED
    BY <2>1, <2>2, <2>3, <2>4, <2>5, ZenonT(40)
<1>2. Tool["http"].awaits = <<"service", "body", "body">> /\ Tool["http"].completed = 2
  BY DEF Tool, Http
<1>3. Len(Tool["http"].awaits) = 3
  BY <1>2
<1>4. ASSUME NEW c, c.tool = "http", c.body PROVE Spent(c, 3)
  <2>1. Tool[c.tool].awaits = <<"service", "body", "body">>
    BY <1>2, <1>4
  <2>2. 2 \in 1..(3 - 1) /\ <<"service", "body", "body">>[2] = "body" /\ <<"service", "body", "body">>[3] = "body"
    OBVIOUS
  <2>3. QED
    BY <1>4, <2>1, <2>2 DEF Spent
<1>5. QED
  BY <1>1, <1>2, <1>3, <1>4

(* The calls that were told something of `what', as a set of their numbers. *)
CallsOf(tool, what) == {i \in DOMAIN calls : calls[i].tool = tool /\ calls[i].told \in what}

LEMMA DomainFinite == ASSUME calls \in Seq(Calls) PROVE IsFiniteSet(DOMAIN calls)
<1>1. IsFiniteSet(1..Len(calls))
  BY FS_Interval
<1>2. QED
  BY <1>1

LEMMA CallsFinite ==
    ASSUME calls \in Seq(Calls)
    PROVE  \A tool, what : IsFiniteSet(CallsOf(tool, what)) /\ Cardinality(CallsOf(tool, what)) \in Nat
<1>1. IsFiniteSet(1..Len(calls))
  BY FS_Interval
<1>2. \A tool, what : CallsOf(tool, what) \subseteq 1..Len(calls)
  BY DEF CallsOf
<1>3. QED
  BY <1>1, <1>2, FS_Subset, FS_CardinalityType

(* One call moves on, and no other call is affected: it is counted among    *)
(* the calls told something of `what' or not, before and after.             *)
LEMMA SameTold ==
    ASSUME calls \in Seq(Calls), NEW i \in DOMAIN calls, NEW c,
           calls' = [calls EXCEPT ![i] = c], c.tool = calls[i].tool,
           NEW what, c.told \in what <=> calls[i].told \in what
    PROVE  \A tool : Told(tool, what)' = Told(tool, what)
<1>1. DOMAIN calls' = DOMAIN calls /\ calls'[i] = c /\ \A j \in DOMAIN calls : j # i => calls'[j] = calls[j]
  OBVIOUS
<1>2. \A tool : CallsOf(tool, what)' = CallsOf(tool, what)
  BY <1>1 DEF CallsOf
<1>3. QED
  BY <1>2 DEF Told, CallsOf

LEMMA OneMoreTold ==
    ASSUME calls \in Seq(Calls), NEW i \in DOMAIN calls, NEW c,
           calls' = [calls EXCEPT ![i] = c], c.tool = calls[i].tool,
           NEW what, c.told \in what, calls[i].told \notin what
    PROVE  \A tool : /\ tool = c.tool => Told(tool, what)' = Told(tool, what) + 1
                     /\ tool # c.tool => Told(tool, what)' = Told(tool, what)
<1>1. DOMAIN calls' = DOMAIN calls /\ calls'[i] = c /\ \A j \in DOMAIN calls : j # i => calls'[j] = calls[j]
  OBVIOUS
<1>2. \A tool : Told(tool, what) = Cardinality(CallsOf(tool, what))
                /\ Told(tool, what)' = Cardinality(CallsOf(tool, what)')
  BY DEF Told, CallsOf
<1>3. ASSUME NEW tool
      PROVE  /\ tool = c.tool => Told(tool, what)' = Told(tool, what) + 1
             /\ tool # c.tool => Told(tool, what)' = Told(tool, what)
  <2>1. CASE tool = c.tool
    <3>1. CallsOf(tool, what)' = CallsOf(tool, what) \cup {i}
      BY <1>1, <2>1 DEF CallsOf
    <3>2. i \notin CallsOf(tool, what)
      BY DEF CallsOf
    <3>3. QED
      BY <1>2, <2>1, <3>1, <3>2, CallsFinite, FS_AddElement
  <2>2. CASE tool # c.tool
    <3>1. CallsOf(tool, what)' = CallsOf(tool, what)
      BY <1>1, <2>2 DEF CallsOf
    <3>2. QED
      BY <1>2, <2>2, <3>1
  <2>3. QED
    BY <2>1, <2>2
<1>4. QED
  BY <1>3

(* The same of the calls whose answer was read.                            *)
LEMMA SameRead ==
    ASSUME calls \in Seq(Calls), NEW i \in DOMAIN calls, NEW c,
           calls' = [calls EXCEPT ![i] = c],
           (c.tool = "http" /\ c.done >= 2) <=> (calls[i].tool = "http" /\ calls[i].done >= 2)
    PROVE  AnswersRead' = AnswersRead
<1> DEFINE R == {j \in DOMAIN calls : calls[j].tool = "http" /\ calls[j].done >= 2}
<1>1. DOMAIN calls' = DOMAIN calls /\ calls'[i] = c /\ \A j \in DOMAIN calls : j # i => calls'[j] = calls[j]
  OBVIOUS
<1>2. R' = R
  BY <1>1
<1> HIDE DEF R
<1>3. AnswersRead = Cardinality(R) /\ AnswersRead' = Cardinality(R')
  BY DEF AnswersRead, R
<1>4. QED
  BY <1>2, <1>3

LEMMA OneMoreRead ==
    ASSUME calls \in Seq(Calls), NEW i \in DOMAIN calls, NEW c,
           calls' = [calls EXCEPT ![i] = c],
           c.tool = "http" /\ c.done >= 2, ~(calls[i].done >= 2)
    PROVE  AnswersRead' = AnswersRead + 1
<1> DEFINE R == {j \in DOMAIN calls : calls[j].tool = "http" /\ calls[j].done >= 2}
<1>1. DOMAIN calls' = DOMAIN calls /\ calls'[i] = c /\ \A j \in DOMAIN calls : j # i => calls'[j] = calls[j]
  OBVIOUS
<1>2. R' = R \cup {i} /\ i \notin R
  BY <1>1
<1>3. IsFiniteSet(R)
  <2>1. R \subseteq DOMAIN calls
    OBVIOUS
  <2> HIDE DEF R
  <2>2. QED
    BY <2>1, DomainFinite, FS_Subset
<1> HIDE DEF R
<1>4. AnswersRead = Cardinality(R) /\ AnswersRead' = Cardinality(R')
  BY DEF AnswersRead, R
<1>5. QED
  BY <1>2, <1>3, <1>4, FS_AddElement

(* The two halves of what the tools promise.                               *)
Counted ==
    \A tool \in kit :
        /\ reported[tool]["TOOL_STARTED"] = Told(tool, {"running", "ok", "error"})
        /\ reported[tool]["TOOL_FAILED"] = Told(tool, {"error"})
        /\ reported[tool]["TOOL_COMPLETED"] =
              IF tool = "http" THEN AnswersRead ELSE Told(tool, {"ok"})

Bodiless == \A i \in DOMAIN calls : calls[i].tool = "http" /\ calls[i].told = "ok" => ~calls[i].body

LEMMA Verdicts == VerdictsAgree <=> Counted /\ Bodiless
BY DEF VerdictsAgree, Counted, Bodiless

LEMMA InitTools == ToolInit => ToolInv
<1> SUFFICES ASSUME ToolInit PROVE ToolInv
  OBVIOUS
<1>1. kit \subseteq DOMAIN Tool /\ calls = <<>>
      /\ reported = [t \in DOMAIN Tool |-> [e \in ToolEvents |-> 0]]
  BY DEF ToolInit
<1>2. \A tool, what : Told(tool, what) = 0
  <2>1. \A tool, what : {i \in DOMAIN calls : calls[i].tool = tool /\ calls[i].told \in what} = {}
    BY <1>1
  <2>2. QED
    BY <2>1, FS_EmptySet DEF Told
<1>3. AnswersRead = 0
  <2>1. {i \in DOMAIN calls : calls[i].tool = "http" /\ calls[i].done >= 2} = {}
    BY <1>1
  <2>2. QED
    BY <2>1, FS_EmptySet DEF AnswersRead
<1>4. VerdictsAgree
  BY <1>1, <1>2, <1>3 DEF VerdictsAgree, ToolEvents
<1>5. QED
  BY <1>1, <1>4 DEF ToolInv

LEMMA ToolStep == ToolInv /\ [ToolNext]_toolVars => ToolInv'
<1> SUFFICES ASSUME ToolInv, [ToolNext]_toolVars PROVE ToolInv'
  OBVIOUS
<1>1. /\ kit \subseteq DOMAIN Tool /\ calls \in Seq(Calls)
      /\ reported \in [DOMAIN Tool -> [ToolEvents -> Nat]]
      /\ Counted /\ Bodiless
  BY Verdicts DEF ToolInv
<1>2. \A i \in DOMAIN calls : calls[i] \in Calls
  BY <1>1
<1> DEFINE Ran == {"running", "ok", "error"}
<1>3. ASSUME kit' = kit, calls' = calls, reported' = reported
      PROVE  ToolInv'
  <2>0. \A tool, what : Told(tool, what)' = Told(tool, what)
    BY <1>3 DEF Told
  <2>1. AnswersRead' = AnswersRead
    BY <1>3 DEF AnswersRead
  <2>2. VerdictsAgree'
    BY <1>1, <1>3, <2>0, <2>1 DEF Counted, Bodiless, VerdictsAgree
  <2>3. QED
    BY <1>1, <1>3, <2>2 DEF ToolInv, Calls
<1>4. CASE MakeTools \/ AgentEnds \/ TellModel \/ UNCHANGED toolVars
  BY <1>3, <1>4 DEF MakeTools, AgentEnds, TellModel, toolVars
<1>5. ASSUME NEW n \in Nat, NEW tools \in [1..n -> kit], AskFor(tools)
      PROVE  ToolInv'
  <2> DEFINE new == [i \in DOMAIN tools |-> [tool |-> tools[i], done |-> 0, told |-> "pending", body |-> TRUE]]
  <2>1. new \in Seq(Calls) /\ Len(new) = n /\ \A i \in 1..n : new[i].told = "pending" /\ new[i].done = 0
    BY DEF Calls
  <2>2. calls' = calls \o new /\ kit' = kit /\ reported' = reported
    BY <1>5 DEF AskFor
  <2> HIDE DEF new
  <2>3. /\ calls' \in Seq(Calls) /\ Len(calls) \in Nat /\ DOMAIN calls = 1..Len(calls)
        /\ DOMAIN calls' = 1..(Len(calls) + n)
        /\ \A i \in 1..(Len(calls) + n) :
              calls'[i] = IF i <= Len(calls) THEN calls[i] ELSE new[i - Len(calls)]
    <3>1. /\ calls' \in Seq(Calls) /\ Len(calls') = Len(calls) + Len(new)
          /\ \A i \in 1..(Len(calls) + Len(new)) :
                calls'[i] = IF i <= Len(calls) THEN calls[i] ELSE new[i - Len(calls)]
      BY <1>1, <2>1, <2>2, ConcatProperties
    <3>2. QED
      BY <1>1, <2>1, <3>1
  <2>4. \A i \in DOMAIN calls' : (calls'[i].told = "pending" /\ calls'[i].done = 0)
                                 \/ (i \in DOMAIN calls /\ calls'[i] = calls[i])
    BY <2>1, <2>3
  <2>5. \A i \in DOMAIN calls : i \in DOMAIN calls' /\ calls'[i] = calls[i]
    BY <2>3
  <2>6. ASSUME NEW tool, NEW what, "pending" \notin what
        PROVE  Told(tool, what)' = Told(tool, what)
    <3>1. {i \in DOMAIN calls' : calls'[i].tool = tool /\ calls'[i].told \in what}
            = {i \in DOMAIN calls : calls[i].tool = tool /\ calls[i].told \in what}
      BY <2>4, <2>5, <2>6
    <3>2. QED
      BY <3>1 DEF Told
  <2>7. AnswersRead' = AnswersRead
    <3>1. {i \in DOMAIN calls' : calls'[i].tool = "http" /\ calls'[i].done >= 2}
            = {i \in DOMAIN calls : calls[i].tool = "http" /\ calls[i].done >= 2}
      BY <2>4, <2>5
    <3>2. QED
      BY <3>1 DEF AnswersRead
  <2>8. Counted'
    BY <1>1, <2>2, <2>6, <2>7 DEF Counted
  <2>9. Bodiless'
    BY <1>1, <2>4 DEF Bodiless
  <2>10. VerdictsAgree'
    BY <2>8, <2>9 DEF VerdictsAgree, Counted, Bodiless
  <2>11. QED
    BY <1>1, <2>2, <2>3, <2>10 DEF ToolInv, Calls
<1>6. ASSUME NEW i \in DOMAIN calls, NEW c \in Calls, c.tool = calls[i].tool,
             calls' = [calls EXCEPT ![i] = c], kit' = kit,
             reported' \in [DOMAIN Tool -> [ToolEvents -> Nat]], Counted',
             c.tool = "http" /\ c.told = "ok" => ~c.body
      PROVE  ToolInv'
  <2>1. calls' \in Seq(Calls)
    BY <1>1, <1>6
  <2>2. DOMAIN calls' = DOMAIN calls /\ calls'[i] = c /\ \A j \in DOMAIN calls : j # i => calls'[j] = calls[j]
    BY <1>1, <1>6
  <2>3. Bodiless'
    BY <1>1, <1>6, <2>2 DEF Bodiless
  <2>4. VerdictsAgree'
    BY <1>6, <2>3 DEF VerdictsAgree, Counted, Bodiless
  <2>5. QED
    BY <1>1, <1>6, <2>1, <2>4 DEF ToolInv, Calls
<1>7. ASSUME NEW i \in DOMAIN calls, Misfit(i)
      PROVE  ToolInv'
  <2> DEFINE c == [calls[i] EXCEPT !.told = "misfit"]
  <2>1. /\ calls[i].told = "pending" /\ calls' = [calls EXCEPT ![i] = c]
        /\ kit' = kit /\ reported' = reported
    BY <1>7 DEF Misfit
  <2>2. c \in Calls /\ c.tool = calls[i].tool /\ c.told = "misfit" /\ c.done = calls[i].done
    BY <1>2 DEF Calls
  <2> HIDE DEF c
  <2>3. \A tool : /\ Told(tool, Ran)' = Told(tool, Ran)
                  /\ Told(tool, {"error"})' = Told(tool, {"error"})
                  /\ Told(tool, {"ok"})' = Told(tool, {"ok"})
    <3>1. \A tool : Told(tool, Ran)' = Told(tool, Ran)
      BY <1>1, <2>1, <2>2, SameTold
    <3>2. \A tool : Told(tool, {"error"})' = Told(tool, {"error"})
      BY <1>1, <2>1, <2>2, SameTold
    <3>3. \A tool : Told(tool, {"ok"})' = Told(tool, {"ok"})
      BY <1>1, <2>1, <2>2, SameTold
    <3>4. QED
      BY <3>1, <3>2, <3>3
  <2>4. Counted'
    <3>1. AnswersRead' = AnswersRead
      BY <1>1, <2>1, <2>2, SameRead
    <3>2. QED
      BY <1>1, <2>1, <2>3, <3>1 DEF Counted
  <2>5. QED
    BY <1>1, <1>6, <2>1, <2>2, <2>4
<1>8. ASSUME NEW i \in DOMAIN calls, BeginCall(i)
      PROVE  ToolInv'
  <2> DEFINE c == [calls[i] EXCEPT !.told = "running"]
             t == calls[i].tool
  <2>1. /\ calls[i].told = "pending" /\ calls' = [calls EXCEPT ![i] = c] /\ kit' = kit
        /\ reported' = [reported EXCEPT ![t]["TOOL_STARTED"] = @ + 1]
    BY <1>8 DEF BeginCall
  <2>2. c \in Calls /\ c.tool = t /\ c.told = "running" /\ t \in DOMAIN Tool /\ c.done = calls[i].done
    BY <1>1, <1>2 DEF Calls
  <2>3. /\ reported' \in [DOMAIN Tool -> [ToolEvents -> Nat]]
        /\ \A tool \in DOMAIN Tool :
              /\ reported'[tool]["TOOL_STARTED"] =
                    IF tool = t THEN reported[tool]["TOOL_STARTED"] + 1 ELSE reported[tool]["TOOL_STARTED"]
              /\ reported'[tool]["TOOL_COMPLETED"] = reported[tool]["TOOL_COMPLETED"]
              /\ reported'[tool]["TOOL_FAILED"] = reported[tool]["TOOL_FAILED"]
    BY <1>1, <2>1, <2>2 DEF ToolEvents
  <2> HIDE DEF c
  <2>4. \A tool : /\ Told(tool, Ran)' = IF tool = t THEN Told(tool, Ran) + 1 ELSE Told(tool, Ran)
                  /\ Told(tool, {"error"})' = Told(tool, {"error"})
                  /\ Told(tool, {"ok"})' = Told(tool, {"ok"})
    <3>0. c.told \in Ran /\ calls[i].told \notin Ran /\ c.tool = calls[i].tool
      BY <2>1, <2>2
    <3>1. \A tool : Told(tool, Ran)' = IF tool = t THEN Told(tool, Ran) + 1 ELSE Told(tool, Ran)
      BY <1>1, <2>1, <3>0, OneMoreTold, ZenonT(40)
    <3>2. \A tool : Told(tool, {"error"})' = Told(tool, {"error"})
      BY <1>1, <2>1, <2>2, SameTold
    <3>3. \A tool : Told(tool, {"ok"})' = Told(tool, {"ok"})
      BY <1>1, <2>1, <2>2, SameTold
    <3>4. QED
      BY <3>1, <3>2, <3>3
  <2>7. AnswersRead' = AnswersRead
    BY <1>1, <2>1, <2>2, SameRead
  <2> HIDE DEF t
  <2>5. Counted'
    BY <1>1, <2>1, <2>3, <2>4, <2>7 DEF Counted
  <2>6. QED
    BY <1>1, <1>6, <2>1, <2>2, <2>3, <2>5 DEF t
<1>9. ASSUME NEW i \in DOMAIN calls, Resume(i)
      PROVE  ToolInv'
  <2> DEFINE t == calls[i].tool
             done == calls[i].done + 1
             over == done = Len(Tool[t].awaits)
             told == done = Tool[t].completed
             next(b) == [tool |-> t, done |-> done, body |-> b,
                        told |-> IF over THEN "ok" ELSE "running"]
  <2>0. PICK body \in BOOLEAN :
           /\ body = calls[i].body \/ (t = "http" /\ done = 1)
           /\ calls' = [calls EXCEPT ![i] = next(body)]
    BY <1>9 DEF Resume
  <2> DEFINE c == next(body)
  <2>1. /\ calls[i].told = "running" /\ calls' = [calls EXCEPT ![i] = c] /\ kit' = kit
        /\ reported' = [reported EXCEPT ![t]["TOOL_COMPLETED"] = IF told THEN @ + 1 ELSE @]
        /\ ~Spent(calls[i], done)
    BY <1>1, <1>9, <2>0 DEF Resume
  <2>2. /\ c \in Calls /\ c.tool = t /\ c.told = (IF over THEN "ok" ELSE "running") /\ t \in DOMAIN Tool
        /\ c.done = done /\ c.body = body /\ done \in Nat /\ calls[i].done \in Nat
        /\ done = calls[i].done + 1
    <3>1. calls[i] \in Calls
      BY <1>2
    <3>2. done \in Nat
      BY <3>1 DEF Calls
    <3>3. QED
      BY <1>1, <2>1, <3>1, <3>2 DEF Calls
  <2>3. t # "http" => (told <=> over)
    BY <2>2, ToolFacts
  <2>4. t = "http" => (told <=> done = 2) /\ (over => done = 3 /\ ~body)
    <3>1. t = "http" /\ over => done = 3 /\ ~calls[i].body
      BY <2>1, ToolFacts
    <3>2. t = "http" => (told <=> done = 2)
      BY ToolFacts
    <3>3. done = 3 => body = calls[i].body
      BY <2>0
    <3>4. QED
      BY <3>1, <3>2, <3>3
  <2>5. /\ reported' \in [DOMAIN Tool -> [ToolEvents -> Nat]]
        /\ \A tool \in DOMAIN Tool :
              /\ reported'[tool]["TOOL_COMPLETED"] =
                    IF tool = t /\ told THEN reported[tool]["TOOL_COMPLETED"] + 1
                                        ELSE reported[tool]["TOOL_COMPLETED"]
              /\ reported'[tool]["TOOL_STARTED"] = reported[tool]["TOOL_STARTED"]
              /\ reported'[tool]["TOOL_FAILED"] = reported[tool]["TOOL_FAILED"]
    BY <1>1, <2>1, <2>2 DEF ToolEvents
  <2> HIDE DEF c, next, over, told
  <2>9. AnswersRead' = IF t = "http" /\ told THEN AnswersRead + 1 ELSE AnswersRead
    <3>1. CASE t = "http" /\ told
      <4>1. c.tool = "http" /\ c.done >= 2 /\ ~(calls[i].done >= 2)
        BY <2>2, <2>4, <3>1
      <4>2. QED
        BY <1>1, <2>1, <3>1, <4>1, OneMoreRead
    <3>2. CASE ~(t = "http" /\ told)
      <4>1. (c.tool = "http" /\ c.done >= 2) <=> (calls[i].tool = "http" /\ calls[i].done >= 2)
        BY <2>2, <2>4, <3>2
      <4>2. QED
        BY <1>1, <2>1, <3>2, <4>1, SameRead
    <3>3. QED
      BY <3>1, <3>2
  <2>6. \A tool : /\ Told(tool, Ran)' = Told(tool, Ran)
                  /\ Told(tool, {"error"})' = Told(tool, {"error"})
                  /\ Told(tool, {"ok"})' =
                        IF tool = t /\ over THEN Told(tool, {"ok"}) + 1 ELSE Told(tool, {"ok"})
    <3>1. \A tool : Told(tool, Ran)' = Told(tool, Ran)
      BY <1>1, <2>1, <2>2, SameTold, ZenonT(40)
    <3>2. \A tool : Told(tool, {"error"})' = Told(tool, {"error"})
      BY <1>1, <2>1, <2>2, SameTold
    <3>0. over => c.told \in {"ok"} /\ calls[i].told \notin {"ok"} /\ c.tool = calls[i].tool
      BY <2>1, <2>2
    <3>3. over => \A tool : Told(tool, {"ok"})' =
                    IF tool = t THEN Told(tool, {"ok"}) + 1 ELSE Told(tool, {"ok"})
      BY <1>1, <2>1, <3>0, OneMoreTold, ZenonT(40)
    <3>4. ~over => \A tool : Told(tool, {"ok"})' = Told(tool, {"ok"})
      BY <1>1, <2>1, <2>2, SameTold
    <3>5. QED
      BY <3>1, <3>2, <3>3, <3>4
  <2>10. c.tool = "http" /\ c.told = "ok" => ~c.body
    BY <2>2, <2>4
  <2> HIDE DEF t, done
  <2>7. Counted'
    BY <1>1, <2>1, <2>3, <2>5, <2>6, <2>9 DEF Counted
  <2>8. QED
    BY <1>1, <1>6, <2>1, <2>2, <2>5, <2>7, <2>10 DEF t
<1>10. ASSUME NEW i \in DOMAIN calls, Break(i)
       PROVE  ToolInv'
  <2> DEFINE c == [calls[i] EXCEPT !.told = "error"]
             t == calls[i].tool
  <2>1. /\ calls[i].told = "running" /\ calls' = [calls EXCEPT ![i] = c] /\ kit' = kit
        /\ reported' = [reported EXCEPT ![t]["TOOL_FAILED"] = @ + 1]
    BY <1>10 DEF Break
  <2>2. c \in Calls /\ c.tool = t /\ c.told = "error" /\ t \in DOMAIN Tool /\ c.done = calls[i].done
    BY <1>1, <1>2 DEF Calls
  <2>3. /\ reported' \in [DOMAIN Tool -> [ToolEvents -> Nat]]
        /\ \A tool \in DOMAIN Tool :
              /\ reported'[tool]["TOOL_FAILED"] =
                    IF tool = t THEN reported[tool]["TOOL_FAILED"] + 1 ELSE reported[tool]["TOOL_FAILED"]
              /\ reported'[tool]["TOOL_COMPLETED"] = reported[tool]["TOOL_COMPLETED"]
              /\ reported'[tool]["TOOL_STARTED"] = reported[tool]["TOOL_STARTED"]
    BY <1>1, <2>1, <2>2 DEF ToolEvents
  <2> HIDE DEF c
  <2>4. \A tool : /\ Told(tool, Ran)' = Told(tool, Ran)
                  /\ Told(tool, {"error"})' =
                        IF tool = t THEN Told(tool, {"error"}) + 1 ELSE Told(tool, {"error"})
                  /\ Told(tool, {"ok"})' = Told(tool, {"ok"})
    <3>1. \A tool : Told(tool, Ran)' = Told(tool, Ran)
      BY <1>1, <2>1, <2>2, SameTold
    <3>0. c.told \in {"error"} /\ calls[i].told \notin {"error"} /\ c.tool = calls[i].tool
      BY <2>1, <2>2
    <3>2. \A tool : Told(tool, {"error"})' = IF tool = t THEN Told(tool, {"error"}) + 1 ELSE Told(tool, {"error"})
      BY <1>1, <2>1, <3>0, OneMoreTold, ZenonT(40)
    <3>3. \A tool : Told(tool, {"ok"})' = Told(tool, {"ok"})
      BY <1>1, <2>1, <2>2, SameTold
    <3>4. QED
      BY <3>1, <3>2, <3>3
  <2>7. AnswersRead' = AnswersRead
    BY <1>1, <2>1, <2>2, SameRead
  <2> HIDE DEF t
  <2>5. Counted'
    BY <1>1, <2>1, <2>3, <2>4, <2>7 DEF Counted
  <2>6. QED
    BY <1>1, <1>6, <2>1, <2>2, <2>3, <2>5 DEF t
<1>11. \A n \in 1..(MaxCalls - Len(calls)) : n \in Nat
  OBVIOUS
<1>12. QED
  BY <1>4, <1>5, <1>7, <1>8, <1>9, <1>10, <1>11 DEF ToolNext, ToolRunner

(***************************************************************************)
(* All kinds of nodes.                                                     *)
(***************************************************************************)

(* However an answer is cut into chunks and wherever its stream breaks,     *)
(* what a chat node published is what it returns; and however the calls of  *)
(* an agent's tools overlap and fail, the events the user sees of them are  *)
(* as many as the agent was told of; a call of the HTTP tool is reported as *)
(* completed when its answer was read once, and the agent is told so only   *)
(* if there was no body to read.                                            *)
THEOREM ReportsTrue == Spec => []ReportsAgree
<1>1. Init => ChatInv /\ ToolInv
  BY InitChat, InitTools DEF Init
<1>2. ChatInv /\ ToolInv /\ [Next]_nodeVars => (ChatInv /\ ToolInv)'
  <2>1. [Next]_nodeVars => [ChatNext]_chatVars /\ [ToolNext]_toolVars
    BY DEF Next, nodeVars
  <2>2. QED
    BY <2>1, ChatStep, ToolStep
<1>3. ChatInv /\ ToolInv => ReportsAgree
  BY DEF ChatInv, ToolInv, ReportsAgree
<1>4. QED
  BY <1>1, <1>2, <1>3, PTL DEF Spec

(***************************************************************************)
(* Code nodes: reading the output of a script.                             *)
(***************************************************************************)

(* A set of numbers has a least one: what there is for all of them can be  *)
(* shown of the least that would not have it.                              *)
LEMMA LeastNat ==
    ASSUME NEW T \in SUBSET Nat, T # {}
    PROVE  \E m \in T : \A n \in T : m <= n
<1> DEFINE R == {ss \in Nat \X Nat : ss[1] < ss[2]}
<1>1. IsWellFoundedOn(R, Nat)
  BY NatLessThanWellFounded DEF OpToRel
<1>2. PICK m \in T : \A y \in T : ~(<<y, m>> \in R)
  BY <1>1, WFMin
<1>3. \A x, y \in Nat : x < y => <<x, y>> \in R
  OBVIOUS
<1>4. \A x, y \in Nat : x < y \/ y <= x
  OBVIOUS
<1> HIDE DEF R
<1>5. QED
  BY <1>2, <1>3, <1>4

Texts == [lines : Seq(Seq(Sounds)), rest : Seq(Sounds)]
NoText == [lines |-> <<>>, rest |-> <<>>]

LEMMA ReadingText ==
    ASSUME NEW text \in Texts, NEW token \in Sounds
    PROVE  /\ Reading(text, token) \in Texts
           /\ token = "nl" => /\ Reading(text, token).lines = Append(text.lines, text.rest)
                              /\ Reading(text, token).rest = <<>>
           /\ token # "nl" => /\ Reading(text, token).lines = text.lines
                              /\ Reading(text, token).rest = Append(text.rest, token)
<1> DEFINE S == Seq(Sounds)
           L == Seq(S)
<1>1. text.lines \in L /\ text.rest \in S /\ <<>> \in S
  BY DEF Texts
<1>2. Append(text.lines, text.rest) \in L
  <2> HIDE DEF S
  <2>1. QED
    BY <1>1, AppendProperties
<1>3. Append(text.rest, token) \in S
  BY <1>1, AppendProperties
<1>4. Texts = [lines : L, rest : S]
  BY DEF Texts
<1> HIDE DEF L, S
<1>5. QED
  BY <1>1, <1>2, <1>3, <1>4 DEF Reading

(* What has been read after each token.                                    *)
LEMMA SplitBy ==
    ASSUME NEW output \in Seq(Sounds)
    PROVE  \E f \in [0..Len(output) -> Texts] :
              /\ f[0] = NoText
              /\ \A n \in 1..Len(output) : f[n] = Reading(f[n - 1], output[n])
              /\ Split(output) = f[Len(output)]
<1> DEFINE L == Len(output)
           Reads(f, k) == /\ f \in [0..k -> Texts] /\ f[0] = NoText
                          /\ \A n \in 1..k : f[n] = Reading(f[n - 1], output[n])
           step(f) == [n \in 0..L |-> IF n = 0 THEN [lines |-> <<>>, rest |-> <<>>]
                                      ELSE Reading(f[n - 1], output[n])]
           Bad == {k \in Nat : k <= L /\ ~\E f : Reads(f, k)}
<1>1. L \in Nat /\ \A n \in 1..L : output[n] \in Sounds
  OBVIOUS
<1>2. NoText \in Texts
  BY DEF NoText, Texts
<1>3. Split(output) = (CHOOSE f : f = step(f))[L]
  BY DEF Split
<1>4. Bad = {}
  <2> SUFFICES ASSUME Bad # {} PROVE FALSE
    OBVIOUS
  <2>1. PICK k \in Bad : \A n \in Bad : k <= n
    BY LeastNat
  <2>2. k \in Nat /\ k <= L /\ ~\E f : Reads(f, k)
    OBVIOUS
  <2>3. CASE k = 0
    <3>1. Reads([n \in 0..0 |-> NoText], 0)
      BY <1>2
    <3>2. QED
      BY <2>2, <2>3, <3>1
  <2>4. CASE k # 0
    <3>1. k - 1 \in Nat /\ k - 1 <= L /\ ~(k <= k - 1) /\ k \in 1..L
      BY <1>1, <2>2, <2>4
    <3>2. k - 1 \notin Bad
      BY <2>1, <3>1
    <3>3. PICK f : Reads(f, k - 1)
      BY <3>1, <3>2
    <3> DEFINE last == Reading(f[k - 1], output[k])
               g == [n \in 0..k |-> IF n = k THEN last ELSE f[n]]
    <3>4. last \in Texts
      BY <1>1, <3>1, <3>3, ReadingText
    <3>5. /\ \A n \in 0..(k - 1) : g[n] = f[n] /\ f[n] \in Texts
          /\ g[k] = last
      BY <3>1, <3>3
    <3>6. g \in [0..k -> Texts]
      BY <3>1, <3>3, <3>4
    <3> HIDE DEF last
    <3>7. ASSUME NEW n \in 1..k PROVE g[n] = Reading(g[n - 1], output[n])
      <4>1. n - 1 \in 0..(k - 1) /\ (n = k \/ n \in 1..(k - 1))
        BY <3>1
      <4>2. CASE n = k
        BY <3>5, <4>1, <4>2 DEF last
      <4>3. CASE n \in 1..(k - 1)
        BY <3>1, <3>3, <3>5, <4>1, <4>3
      <4>4. QED
        BY <4>1, <4>2, <4>3
    <3>8. g[0] = NoText
      BY <3>1, <3>3, <3>5
    <3>9. Reads(g, k)
      <4> HIDE DEF g
      <4>1. QED
        BY <3>6, <3>7, <3>8
    <3>10. QED
      BY <2>2, <3>9
  <2>5. QED
    BY <2>3, <2>4
<1>5. PICK f : Reads(f, L)
  BY <1>1, <1>4
<1>6. f = step(f)
  BY <1>1, <1>5 DEF NoText
<1>7. ASSUME NEW h, h = step(h) PROVE h = f
  <2>1. /\ h[0] = NoText /\ \A n \in 1..L : h[n] = Reading(h[n - 1], output[n])
        /\ h = [n \in 0..L |-> h[n]]
    BY <1>1, <1>7 DEF NoText
  <2> DEFINE Differ == {n \in Nat : n <= L /\ h[n] # f[n]}
  <2>2. Differ = {}
    <3> SUFFICES ASSUME Differ # {} PROVE FALSE
      OBVIOUS
    <3>1. PICK n \in Differ : \A k \in Differ : n <= k
      BY LeastNat
    <3>2. n # 0
      BY <1>5, <2>1
    <3>3. n \in 1..L /\ n - 1 \in Nat /\ n - 1 <= L /\ ~(n <= n - 1)
      BY <1>1, <3>2
    <3>4. h[n - 1] = f[n - 1]
      BY <3>1, <3>3
    <3>5. QED
      BY <1>5, <2>1, <3>3, <3>4
  <2>3. \A n \in 0..L : h[n] = f[n]
    BY <1>1, <2>2
  <2>4. QED
    BY <1>5, <2>1, <2>3
<1>8. (CHOOSE h : h = step(h)) = f
  <2> HIDE DEF step
  <2>1. QED
    BY <1>6, <1>7
<1>9. QED
  BY <1>3, <1>5, <1>8

LEMMA SplitText ==
    ASSUME NEW output \in Seq(Sounds)
    PROVE  Split(output) \in Texts
<1>1. PICK f \in [0..Len(output) -> Texts] : Split(output) = f[Len(output)]
  BY SplitBy
<1>2. QED
  BY <1>1

LEMMA SplitNone == Split(<<>>) = NoText
<1>1. <<>> \in Seq(Sounds) /\ Len(<<>>) = 0
  OBVIOUS
<1>2. PICK f : f[0] = NoText /\ Split(<<>>) = f[0]
  BY <1>1, SplitBy
<1>3. QED
  BY <1>2

(* One token more.                                                         *)
LEMMA SplitAppend ==
    ASSUME NEW output \in Seq(Sounds), NEW token \in Sounds
    PROVE  Split(Append(output, token)) = Reading(Split(output), token)
<1> DEFINE L == Len(output)
           more == Append(output, token)
<1>1. /\ L \in Nat /\ more \in Seq(Sounds) /\ Len(more) = L + 1 /\ more[L + 1] = token
      /\ \A n \in 1..L : more[n] = output[n]
  BY AppendProperties
<1>2. PICK f \in [0..L -> Texts] :
              /\ f[0] = NoText
              /\ \A n \in 1..L : f[n] = Reading(f[n - 1], output[n])
              /\ Split(output) = f[L]
  BY SplitBy
<1> HIDE DEF more
<1>3. PICK g \in [0..(L + 1) -> Texts] :
              /\ g[0] = NoText
              /\ \A n \in 1..(L + 1) : g[n] = Reading(g[n - 1], more[n])
              /\ Split(more) = g[L + 1]
  BY <1>1, SplitBy
<1> DEFINE Differ == {n \in Nat : n <= L /\ g[n] # f[n]}
<1>4. Differ = {}
  <2> SUFFICES ASSUME Differ # {} PROVE FALSE
    OBVIOUS
  <2>1. PICK n \in Differ : \A k \in Differ : n <= k
    BY LeastNat
  <2>2. n # 0
    BY <1>2, <1>3
  <2>3. n \in 1..L /\ n \in 1..(L + 1) /\ n - 1 \in Nat /\ n - 1 <= L /\ ~(n <= n - 1)
    BY <1>1, <2>2
  <2>4. g[n - 1] = f[n - 1]
    BY <2>1, <2>3
  <2>5. QED
    BY <1>1, <1>2, <1>3, <2>3, <2>4
<1>5. g[L] = f[L] /\ L + 1 \in 1..(L + 1) /\ L + 1 - 1 = L
  BY <1>1, <1>4
<1>6. QED
  BY <1>1, <1>2, <1>3, <1>5 DEF more

(* What follows the last line has no end of a line in it.                  *)
LEMMA RestUnended ==
    ASSUME NEW output \in Seq(Sounds)
    PROVE  Split(Split(output).rest) = [lines |-> <<>>, rest |-> Split(output).rest]
<1> DEFINE Right(s) == Split(Split(s).rest) = [lines |-> <<>>, rest |-> Split(s).rest]
           Bad == {k \in Nat : \E s \in Seq(Sounds) : Len(s) = k /\ ~Right(s)}
<1>1. Bad = {}
  <2> SUFFICES ASSUME Bad # {} PROVE FALSE
    OBVIOUS
  <2>1. PICK k \in Bad : \A n \in Bad : k <= n
    BY LeastNat
  <2>2. PICK s \in Seq(Sounds) : Len(s) = k /\ ~Right(s)
    OBVIOUS
  <2>3. CASE s = <<>>
    BY <2>2, <2>3, SplitNone DEF NoText
  <2>4. CASE s # <<>>
    <3>1. PICK before \in Seq(Sounds), token \in Sounds : s = Append(before, token)
      BY <2>4, SequenceEmptyOrAppend
    <3>2. Len(before) \in Nat /\ ~(k <= Len(before))
      BY <2>2, <3>1
    <3>3. Right(before)
      BY <2>1, <3>2
    <3>4. Split(before) \in Texts /\ Split(s) = Reading(Split(before), token)
      BY <3>1, SplitText, SplitAppend
    <3>5. CASE token = "nl"
      <4>1. Split(s).rest = <<>>
        BY <3>4, <3>5, ReadingText
      <4>2. QED
        BY <2>2, <4>1, SplitNone DEF NoText
    <3>6. CASE token # "nl"
      <4> DEFINE rest == Split(before).rest
      <4>1. rest \in Seq(Sounds)
        BY <3>4 DEF Texts
      <4> HIDE DEF rest
      <4>2. Split(s).rest = Append(rest, token)
        BY <3>4, <3>6, ReadingText DEF rest
      <4>3. Split(Append(rest, token)) = Reading(Split(rest), token)
        BY <4>1, SplitAppend
      <4>4. Split(rest) = [lines |-> <<>>, rest |-> rest]
        BY <3>3 DEF rest
      <4>5. Reading(Split(rest), token) = [lines |-> <<>>, rest |-> Append(rest, token)]
        BY <3>6, <4>4 DEF Reading
      <4>6. QED
        BY <2>2, <4>2, <4>3, <4>5
    <3>7. QED
      BY <3>5, <3>6
  <2>5. QED
    BY <2>3, <2>4
<1>2. Len(output) \in Nat
  OBVIOUS
<1>3. QED
  BY <1>1, <1>2

(* Output that is read in two pieces.                                      *)
LEMMA SplitConcat ==
    ASSUME NEW a \in Seq(Sounds), NEW b \in Seq(Sounds)
    PROVE  Split(a \o b) = [lines |-> Split(a).lines \o Split(Split(a).rest \o b).lines,
                            rest  |-> Split(Split(a).rest \o b).rest]
<1> DEFINE Known == Split(a).lines
           start == Split(a).rest
           Right(s) == Split(a \o s) = [lines |-> Known \o Split(start \o s).lines,
                                        rest  |-> Split(start \o s).rest]
           Bad == {k \in Nat : \E s \in Seq(Sounds) : Len(s) = k /\ ~Right(s)}
<1>0. Known \in Seq(Seq(Sounds)) /\ start \in Seq(Sounds)
  BY SplitText DEF Texts
<1>1. Bad = {}
  <2> SUFFICES ASSUME Bad # {} PROVE FALSE
    OBVIOUS
  <2>1. PICK k \in Bad : \A n \in Bad : k <= n
    BY LeastNat
  <2>2. PICK s \in Seq(Sounds) : Len(s) = k /\ ~Right(s)
    OBVIOUS
  <2>3. CASE s = <<>>
    <3>1. a \o s = a /\ start \o s = start
      BY <1>0, <2>3, ConcatEmptySeq
    <3>2. Split(start) = [lines |-> <<>>, rest |-> start]
      BY RestUnended
    <3>3. Split(a) = [lines |-> Known, rest |-> start]
      BY SplitText DEF Texts
    <3> DEFINE S == Seq(Sounds)
    <3>4. Known \in Seq(S)
      BY <1>0
    <3> HIDE DEF Known, S
    <3>5. Known \o <<>> = Known
      BY <3>4, ConcatEmptySeq
    <3> HIDE DEF start
    <3>6. Right(s)
      BY <3>1, <3>2, <3>3, <3>5
    <3>7. QED
      BY <2>2, <3>6
  <2>4. CASE s # <<>>
    <3>1. PICK before \in Seq(Sounds), token \in Sounds : s = Append(before, token)
      BY <2>4, SequenceEmptyOrAppend
    <3>2. Len(before) \in Nat /\ ~(k <= Len(before))
      BY <2>2, <3>1
    <3>3. Right(before)
      BY <2>1, <3>2
    <3> DEFINE one == Split(start \o before)
    <3>4. a \o s = Append(a \o before, token) /\ a \o before \in Seq(Sounds)
      BY <3>1
    <3>5. start \o s = Append(start \o before, token) /\ start \o before \in Seq(Sounds)
      <4> HIDE DEF start
      <4>1. QED
        BY <1>0, <3>1, SMTT(30)
    <3> HIDE DEF Known, start
    <3>6. one \in Texts
      BY <3>5, SplitText
    <3>7. Split(start \o s) = Reading(one, token)
      BY <3>5, SplitAppend
    <3>8. Split(a \o s) = Reading(Split(a \o before), token)
      BY <3>4, SplitAppend
    <3>9. Split(a \o before) = [lines |-> Known \o one.lines, rest |-> one.rest]
      BY <3>3
    <3> HIDE DEF one
    <3> DEFINE S == Seq(Sounds)
    <3>10. one.lines \in Seq(S) /\ one.rest \in S /\ Known \in Seq(S)
      BY <1>0, <3>6 DEF Texts
    <3> HIDE DEF S
    <3>11. Append(Known \o one.lines, one.rest) = Known \o Append(one.lines, one.rest)
      <4> DEFINE ll == one.lines
                 rr == one.rest
      <4>1. ll \in Seq(S) /\ rr \in S /\ Known \in Seq(S)
        BY <3>10
      <4> HIDE DEF ll, rr
      <4>2. <<rr>> \in Seq(S) /\ Known \o ll \in Seq(S)
        BY <4>1, ConcatProperties
      <4>3. Append(ll, rr) = ll \o <<rr>>
        BY <4>1, AppendIsConcat
      <4>4. Append(Known \o ll, rr) = (Known \o ll) \o <<rr>>
        BY <4>1, <4>2, AppendIsConcat
      <4> DEFINE r1 == <<rr>>
      <4>5. (Known \o ll) \o r1 = Known \o (ll \o r1)
        <5>1. ll \in Seq(S) /\ Known \in Seq(S) /\ r1 \in Seq(S)
          BY <4>1, <4>2
        <5> HIDE DEF r1, Bad
        <5>2. QED
          BY <5>1, ConcatAssociative, SMTT(30)
      <4>6. QED
        BY <4>3, <4>4, <4>5 DEF ll, rr
    <3>12. Right(s)
      <4>1. CASE token = "nl"
        <5>1. /\ Split(start \o s).lines = Append(one.lines, one.rest)
              /\ Split(start \o s).rest = <<>>
          BY <3>7, <4>1, SMTT(30) DEF Reading
        <5>2. Split(a \o s) = [lines |-> Append(Known \o one.lines, one.rest), rest |-> <<>>]
          BY <3>8, <3>9, <4>1 DEF Reading
        <5>3. QED
          BY <3>11, <5>1, <5>2
      <4>2. CASE token # "nl"
        BY <3>7, <3>8, <3>9, <4>2 DEF Reading
      <4>3. QED
        BY <4>1, <4>2
    <3>13. QED
      BY <2>2, <3>12
  <2>5. QED
    BY <2>3, <2>4
<1>2. Len(b) \in Nat
  OBVIOUS
<1> HIDE DEF Known, start
<1>3. Right(b)
  BY <1>1, <1>2
<1>4. QED
  BY <1>3 DEF Known, start

(***************************************************************************)
(* The first result among some lines.                                      *)
(***************************************************************************)

Lines == Seq(Seq(Sounds))

LEMMA FirstIs ==
    ASSUME NEW lines \in Lines
    PROVE  /\ FirstResult(lines) \in 0..Len(lines)
           /\ FirstResult(lines) = 0 => \A i \in 1..Len(lines) : ~IsResult(lines[i])
           /\ FirstResult(lines) # 0 =>
                 /\ IsResult(lines[FirstResult(lines)])
                 /\ \A i \in 1..Len(lines) : i < FirstResult(lines) => ~IsResult(lines[i])
<1> DEFINE found == {i \in 1..Len(lines) : IsResult(lines[i])}
           least == CHOOSE x \in found : \A y \in found : x <= y
<1>1. /\ found # {} => FirstResult(lines) = least
      /\ found = {} => FirstResult(lines) = 0
  BY DEF FirstResult, SelectInSeq, Min
<1>2. Len(lines) \in Nat /\ found \in SUBSET Nat
  BY DEF Lines
<1>3. CASE found = {}
  BY <1>1, <1>2, <1>3
<1>4. CASE found # {}
  <2>1. \E m \in found : \A n \in found : m <= n
    BY <1>2, <1>4, LeastNat
  <2> HIDE DEF found
  <2>2. least \in found /\ \A n \in found : least <= n
    BY <2>1
  <2>3. FirstResult(lines) = least
    BY <1>1, <1>4
  <2> USE DEF found
  <2> HIDE DEF least
  <2>4. least \in 1..Len(lines) /\ IsResult(lines[least])
    BY <2>2
  <2>5. ASSUME NEW i \in 1..Len(lines), i < least PROVE ~IsResult(lines[i])
    BY <1>2, <2>2, <2>4, <2>5
  <2> HIDE DEF found
  <2>6. least \in 0..Len(lines) /\ least # 0
    BY <1>2, <2>4
  <2>7. /\ FirstResult(lines) = 0 => \A i \in 1..Len(lines) : ~IsResult(lines[i])
        /\ IsResult(lines[FirstResult(lines)])
    BY <2>3, <2>4, <2>6
  <2>8. \A i \in 1..Len(lines) : i < FirstResult(lines) => ~IsResult(lines[i])
    BY <2>3, <2>5
  <2>9. FirstResult(lines) \in 0..Len(lines)
    BY <2>3, <2>6
  <2>10. QED
    BY <2>7, <2>8, <2>9
<1>5. QED
  BY <1>3, <1>4

LEMMA FirstUnique ==
    ASSUME NEW lines \in Lines, NEW n \in 1..Len(lines), IsResult(lines[n]),
           \A i \in 1..Len(lines) : i < n => ~IsResult(lines[i])
    PROVE  FirstResult(lines) = n
<1> DEFINE f == FirstResult(lines)
<1>1. Len(lines) \in Nat /\ f \in 0..Len(lines) /\ f # 0 /\ IsResult(lines[f]) /\ (n < f => ~IsResult(lines[n]))
  BY FirstIs DEF Lines
<1> HIDE DEF f
<1>2. ~(f < n) /\ ~(n < f)
  BY <1>1
<1>3. QED
  BY <1>1, <1>2 DEF f

LEMMA FirstNone ==
    ASSUME NEW lines \in Lines, \A i \in 1..Len(lines) : ~IsResult(lines[i])
    PROVE  FirstResult(lines) = 0
<1>1. Len(lines) \in Nat
  BY DEF Lines
<1>2. QED
  BY <1>1, FirstIs

(* In lines that were read one part after the other.                       *)
LEMMA FirstConcat ==
    ASSUME NEW a \in Lines, NEW b \in Lines
    PROVE  /\ a \o b \in Lines
           /\ FirstResult(a) # 0 => /\ FirstResult(a \o b) = FirstResult(a)
                                    /\ (a \o b)[FirstResult(a)] = a[FirstResult(a)]
           /\ FirstResult(a) = 0 /\ FirstResult(b) # 0 =>
                 /\ FirstResult(a \o b) = Len(a) + FirstResult(b)
                 /\ (a \o b)[Len(a) + FirstResult(b)] = b[FirstResult(b)]
           /\ FirstResult(a) = 0 /\ FirstResult(b) = 0 => FirstResult(a \o b) = 0
<1> DEFINE S == Seq(Sounds)
           m == Len(a)
           n == Len(b)
           c == a \o b
<1>1. a \in Seq(S) /\ b \in Seq(S)
  BY DEF Lines
<1> HIDE DEF S
<1>2. /\ c \in Seq(S) /\ m \in Nat /\ n \in Nat /\ Len(c) = m + n
      /\ \A i \in 1..m : c[i] = a[i]
      /\ \A i \in 1..n : c[m + i] = b[i]
  BY <1>1, ConcatProperties
<1>3. c \in Lines
  BY <1>2 DEF Lines, S
<1> HIDE DEF c
<1>4. \A i \in 1..(m + n) : i \in 1..m \/ (i - m \in 1..n /\ i = m + (i - m))
  BY <1>2
<1>5. CASE FirstResult(a) # 0
  <2> DEFINE f == FirstResult(a)
  <2>1. f \in 1..m /\ IsResult(a[f]) /\ \A i \in 1..m : i < f => ~IsResult(a[i])
    BY <1>2, <1>5, FirstIs
  <2> HIDE DEF f
  <2>2. f \in 1..Len(c) /\ c[f] = a[f] /\ \A i \in 1..Len(c) : i < f => i \in 1..m
    BY <1>2, <2>1
  <2>3. FirstResult(c) = f
    BY <1>2, <1>3, <2>1, <2>2, FirstUnique
  <2>4. QED
    BY <1>3, <1>5, <2>2, <2>3 DEF c, f
<1>6. CASE FirstResult(a) = 0 /\ FirstResult(b) # 0
  <2> DEFINE f == FirstResult(b)
  <2>1. f \in 1..n /\ IsResult(b[f]) /\ \A i \in 1..n : i < f => ~IsResult(b[i])
    BY <1>2, <1>6, FirstIs
  <2>2. \A i \in 1..m : ~IsResult(a[i])
    BY <1>6, FirstIs
  <2> HIDE DEF f
  <2>3. m + f \in 1..Len(c) /\ c[m + f] = b[f]
    BY <1>2, <2>1
  <2>4. ASSUME NEW i \in 1..Len(c), i < m + f PROVE ~IsResult(c[i])
    <3>1. CASE i \in 1..m
      BY <1>2, <2>2, <3>1
    <3>2. CASE i - m \in 1..n /\ i = m + (i - m)
      <4>1. i - m < f
        BY <1>2, <2>1, <2>4, <3>2
      <4>2. c[i] = b[i - m]
        BY <1>2, <3>2
      <4>3. QED
        BY <2>1, <3>2, <4>1, <4>2
    <3>3. QED
      BY <1>2, <1>4, <3>1, <3>2
  <2>5. FirstResult(c) = m + f
    BY <1>3, <2>1, <2>3, <2>4, FirstUnique
  <2>6. QED
    BY <1>3, <1>6, <2>3, <2>5 DEF c, f
<1>7. CASE FirstResult(a) = 0 /\ FirstResult(b) = 0
  <2>1. (\A i \in 1..m : ~IsResult(a[i])) /\ (\A i \in 1..n : ~IsResult(b[i]))
    BY <1>7, FirstIs
  <2>2. ASSUME NEW i \in 1..Len(c) PROVE ~IsResult(c[i])
    <3>1. CASE i \in 1..m
      BY <1>2, <2>1, <3>1
    <3>2. CASE i - m \in 1..n /\ i = m + (i - m)
      <4>1. c[i] = b[i - m]
        BY <1>2, <3>2
      <4>2. QED
        BY <2>1, <3>2, <4>1
    <3>3. QED
      BY <1>2, <1>4, <3>1, <3>2
  <2>3. FirstResult(c) = 0
    BY <1>3, <2>2, FirstNone
  <2>4. QED
    BY <1>3, <1>7, <2>3 DEF c
<1>8. QED
  BY <1>5, <1>6, <1>7

LEMMA BeforeConcat ==
    ASSUME NEW a \in Lines, NEW b \in Lines
    PROVE  /\ FirstResult(a) # 0 => Before(a \o b) = Before(a)
           /\ FirstResult(a) = 0 => Before(a \o b) = a \o Before(b)
<1> DEFINE S == Seq(Sounds)
           m == Len(a)
           c == a \o b
<1>1. a \in Seq(S) /\ b \in Seq(S)
  BY DEF Lines
<1>2. FirstResult(a) \in 0..m /\ FirstResult(b) \in 0..Len(b)
  BY FirstIs
<1> HIDE DEF S
<1>3. /\ c \in Seq(S) /\ m \in Nat /\ Len(b) \in Nat /\ Len(c) = m + Len(b)
      /\ \A i \in 1..m : c[i] = a[i]
      /\ \A i \in 1..Len(b) : c[m + i] = b[i]
  BY <1>1, ConcatProperties
<1>4. CASE FirstResult(a) # 0
  <2> DEFINE f == FirstResult(a)
  <2>1. FirstResult(c) = f
    BY <1>4, FirstConcat
  <2> HIDE DEF c, f
  <2>2. f \in 1..m
    BY <1>2, <1>3, <1>4 DEF f
  <2>3. /\ SubSeq(a, 1, f - 1) \in Seq(S) /\ SubSeq(c, 1, f - 1) \in Seq(S)
        /\ Len(SubSeq(a, 1, f - 1)) = f - 1 /\ Len(SubSeq(c, 1, f - 1)) = f - 1
        /\ \A i \in 1..(f - 1) : /\ SubSeq(a, 1, f - 1)[i] = a[i]
                                  /\ SubSeq(c, 1, f - 1)[i] = c[i]
    BY <1>1, <1>3, <2>2
  <2>4. SubSeq(c, 1, f - 1) = SubSeq(a, 1, f - 1)
    <3> DEFINE p == SubSeq(a, 1, f - 1)
               q == SubSeq(c, 1, f - 1)
    <3>1. p \in Seq(S) /\ q \in Seq(S) /\ Len(p) = Len(q) /\ Len(p) = f - 1
      BY <2>3
    <3>2. \A i \in 1..Len(p) : p[i] = q[i]
      BY <1>3, <2>2, <2>3
    <3> HIDE DEF p, q
    <3>3. p = q
      BY <3>1, <3>2, SeqEqual
    <3>4. QED
      BY <3>3 DEF p, q
  <2>5. Before(a) = SubSeq(a, 1, f - 1) /\ Before(c) = SubSeq(c, 1, f - 1)
    BY <1>4, <2>1 DEF Before, f
  <2>6. QED
    BY <1>4, <2>4, <2>5 DEF c
<1>5. CASE FirstResult(a) = 0 /\ FirstResult(b) # 0
  <2> DEFINE f == FirstResult(b)
             p == SubSeq(b, 1, f - 1)
             q == SubSeq(c, 1, (m + f) - 1)
             r == a \o p
  <2>1. FirstResult(c) = m + f
    BY <1>5, FirstConcat
  <2> HIDE DEF c, f
  <2>2. f \in 1..Len(b)
    BY <1>2, <1>3, <1>5 DEF f
  <2>3. p \in Seq(S) /\ Len(p) = f - 1 /\ \A i \in 1..(f - 1) : p[i] = b[i]
    BY <1>1, <1>3, <2>2
  <2>4. q \in Seq(S) /\ Len(q) = (m + f) - 1 /\ \A i \in 1..((m + f) - 1) : q[i] = c[i]
    BY <1>1, <1>3, <2>2
  <2> HIDE DEF p, q
  <2>5. /\ r \in Seq(S) /\ Len(r) = m + (f - 1)
        /\ \A i \in 1..m : r[i] = a[i]
        /\ \A i \in 1..(f - 1) : r[m + i] = p[i]
    <3>1. /\ r \in Seq(S) /\ Len(r) = Len(a) + Len(p)
          /\ \A i \in 1..Len(a) : r[i] = a[i]
          /\ \A i \in 1..Len(p) : r[Len(a) + i] = p[i]
      <4>1. a \in Seq(S) /\ p \in Seq(S)
        BY <1>1, <2>3
      <4>2. QED
        BY <4>1, ConcatProperties
    <3> HIDE DEF r
    <3>2. QED
      BY <2>3, <3>1
  <2> HIDE DEF r
  <2>6. ASSUME NEW i \in 1..((m + f) - 1) PROVE q[i] = r[i]
    <3>1. CASE i \in 1..m
      BY <1>3, <2>4, <2>5, <3>1
    <3>2. CASE i \notin 1..m
      <4>1. i - m \in 1..(f - 1) /\ i - m \in 1..Len(b) /\ i = m + (i - m)
        BY <1>3, <2>2, <3>2
      <4>2. q[i] = b[i - m] /\ r[i] = p[i - m]
        BY <1>3, <2>4, <2>5, <4>1, SMTT(30)
      <4>3. QED
        BY <2>3, <4>1, <4>2
    <3>3. QED
      BY <3>1, <3>2
  <2>7. q = r
    <3>1. f \in Nat /\ (m + f) - 1 = m + (f - 1)
      BY <1>3, <2>2
    <3>2. Len(q) = Len(r)
      BY <2>4, <2>5, <3>1
    <3>3. \A i \in 1..Len(q) : q[i] = r[i]
      BY <2>4, <2>6
    <3>4. QED
      BY <2>4, <2>5, <3>2, <3>3, SeqEqual
  <2>8. m + f # 0
    BY <1>3, <2>2
  <2>9. Before(c) = q /\ Before(b) = p
    <3>1. Before(c) = q
      <4>1. Before(c) = SubSeq(c, 1, FirstResult(c) - 1)
        BY <2>1, <2>8 DEF Before
      <4>2. QED
        BY <2>1, <4>1 DEF q
    <3>2. Before(b) = p
      BY <1>5 DEF Before, p, f
    <3>3. QED
      BY <3>1, <3>2
  <2>10. QED
    BY <1>5, <2>7, <2>9 DEF r, c
<1>6. CASE FirstResult(a) = 0 /\ FirstResult(b) = 0
  <2>1. FirstResult(c) = 0
    BY <1>6, FirstConcat
  <2>2. QED
    BY <1>6, <2>1 DEF Before
<1>7. QED
  BY <1>4, <1>5, <1>6

(* What is printed before the first result holds no result.                *)
LEMMA BeforeNone ==
    ASSUME NEW lines \in Lines
    PROVE  Before(lines) \in Lines /\ FirstResult(Before(lines)) = 0
<1> DEFINE S == Seq(Sounds)
           f == FirstResult(lines)
           p == SubSeq(lines, 1, f - 1)
<1>1. lines \in Seq(S) /\ f \in 0..Len(lines)
  BY FirstIs DEF Lines
<1>2. CASE f = 0
  BY <1>2 DEF Before
<1>3. CASE f # 0
  <2>1. \A i \in 1..Len(lines) : i < f => ~IsResult(lines[i])
    BY <1>3, FirstIs
  <2> HIDE DEF f, S
  <2>2. Len(lines) \in Nat /\ f \in 1..Len(lines)
    BY <1>1, <1>3
  <2>3. p \in Seq(S) /\ Len(p) = f - 1 /\ \A i \in 1..(f - 1) : p[i] = lines[i]
    BY <1>1, <2>2
  <2> HIDE DEF p
  <2>4. p \in Lines
    BY <2>3 DEF Lines, S
  <2>5. \A i \in 1..Len(p) : ~IsResult(p[i])
    BY <2>1, <2>2, <2>3
  <2>6. FirstResult(p) = 0
    BY <2>4, <2>5, FirstNone
  <2>7. Before(lines) = p
    BY <1>3 DEF Before, p, f
  <2> HIDE DEF p
  <2>8. QED
    BY <2>4, <2>6, <2>7
<1>4. QED
  BY <1>2, <1>3

LEMMA PrefixConcat ==
    ASSUME NEW a \in Lines, NEW b \in Lines, NEW c \in Lines, IsPrefix(a, b)
    PROVE  IsPrefix(a, b \o c) /\ IsPrefix(b, b \o c)
<1> DEFINE S == Seq(Sounds)
           d == b \o c
<1>1. a \in Seq(S) /\ b \in Seq(S) /\ c \in Seq(S)
  BY DEF Lines
<1> HIDE DEF S
<1>2. /\ d \in Seq(S) /\ Len(d) = Len(b) + Len(c) /\ Len(a) \in Nat /\ Len(b) \in Nat /\ Len(c) \in Nat
      /\ \A i \in 1..Len(b) : d[i] = b[i]
  BY <1>1, ConcatProperties
<1> HIDE DEF d
<1>3. Len(a) <= Len(b) /\ SubSeq(a, 1, Len(a)) = SubSeq(b, 1, Len(a))
  BY DEF IsPrefix
<1>4. ASSUME NEW k \in Nat, k <= Len(b) PROVE SubSeq(b, 1, k) = SubSeq(d, 1, k)
  <2> DEFINE p == SubSeq(b, 1, k)
             q == SubSeq(d, 1, k)
  <2>0. k <= Len(d)
    BY <1>2, <1>4
  <2>1. p \in Seq(S) /\ Len(p) = k /\ \A i \in 1..k : p[i] = b[i]
    BY <1>1, <1>2, <1>4, SubSeqProperties
  <2>2. q \in Seq(S) /\ Len(q) = k /\ \A i \in 1..k : q[i] = d[i]
    BY <1>2, <2>0, SubSeqProperties
  <2> HIDE DEF p, q
  <2>3. \A i \in 1..Len(p) : p[i] = q[i]
    BY <1>2, <1>4, <2>1, <2>2
  <2>4. p = q
    BY <2>1, <2>2, <2>3, SeqEqual
  <2>5. QED
    BY <2>4 DEF p, q
<1>5. Len(a) <= Len(d) /\ Len(b) <= Len(d)
  BY <1>2, <1>3
<1>6. QED
  BY <1>2, <1>3, <1>4, <1>5 DEF IsPrefix, d

LEMMA SplitParts ==
    ASSUME NEW a \in Seq(Sounds), NEW b \in Seq(Sounds)
    PROVE  /\ Split(a \o b).lines = Split(a).lines \o Split(Split(a).rest \o b).lines
           /\ Split(a \o b).rest = Split(Split(a).rest \o b).rest
<1> DEFINE x == Split(a).lines \o Split(Split(a).rest \o b).lines
           y == Split(Split(a).rest \o b).rest
<1>1. Split(a \o b) = [lines |-> x, rest |-> y]
  BY SplitConcat
<1> HIDE DEF x, y
<1>2. Split(a \o b).lines = x /\ Split(a \o b).rest = y
  BY <1>1
<1>3. QED
  BY <1>2 DEF x, y

(* Cutting a piece out of the output.                                      *)
LEMMA Cut ==
    ASSUME NEW S, NEW w \in Seq(S), NEW i \in Nat, NEW j \in Nat, i <= j, j <= Len(w)
    PROVE  /\ SubSeq(w, 1, i) \in Seq(S) /\ SubSeq(w, i + 1, j) \in Seq(S)
           /\ SubSeq(w, 1, j) = SubSeq(w, 1, i) \o SubSeq(w, i + 1, j)
<1> DEFINE p == SubSeq(w, 1, i)
           q == SubSeq(w, i + 1, j)
           r == SubSeq(w, 1, j)
           c == p \o q
<1>0. Len(w) \in Nat /\ i + 1 >= 1
  OBVIOUS
<1>1. p \in Seq(S) /\ Len(p) = i /\ \A n \in 1..i : p[n] = w[n]
  BY <1>0, SubSeqProperties
<1>2. q \in Seq(S) /\ Len(q) = j - i /\ \A n \in 1..(j - i) : q[n] = w[i + n]
  BY <1>0, SubSeqProperties
<1>3. r \in Seq(S) /\ Len(r) = j /\ \A n \in 1..j : r[n] = w[n]
  BY <1>0, SubSeqProperties
<1> HIDE DEF p, q, r
<1>4. /\ c \in Seq(S) /\ Len(c) = Len(p) + Len(q)
      /\ \A n \in 1..Len(p) : c[n] = p[n]
      /\ \A n \in 1..Len(q) : c[Len(p) + n] = q[n]
  <2>1. p \in Seq(S) /\ q \in Seq(S)
    BY <1>1, <1>2
  <2>2. QED
    BY <2>1, ConcatProperties
<1> HIDE DEF c
<1>5. ASSUME NEW n \in 1..j PROVE r[n] = c[n]
  <2>1. CASE n \in 1..i
    BY <1>1, <1>3, <1>4, <2>1
  <2>2. CASE n \notin 1..i
    <3>1. n - i \in 1..(j - i) /\ n = i + (n - i)
      BY <2>2
    <3>2. c[n] = q[n - i] /\ q[n - i] = w[n]
      BY <1>1, <1>2, <1>4, <3>1
    <3>3. QED
      BY <1>3, <3>2
  <2>3. QED
    BY <2>1, <2>2
<1>6. r = c
  <2>1. Len(r) = Len(c) /\ \A n \in 1..Len(r) : r[n] = c[n]
    BY <1>1, <1>2, <1>3, <1>4, <1>5
  <2>2. QED
    BY <1>3, <1>4, <2>1, SeqEqual
<1>7. QED
  BY <1>1, <1>2, <1>6 DEF c, p, q, r

LEMMA CutAll ==
    ASSUME NEW S, NEW w \in Seq(S)
    PROVE  SubSeq(w, 1, Len(w)) = w
<1> DEFINE r == SubSeq(w, 1, Len(w))
<1>1. Len(w) \in Nat
  OBVIOUS
<1>2. r \in Seq(S) /\ Len(r) = Len(w) /\ \A n \in 1..Len(w) : r[n] = w[n]
  BY <1>1, SubSeqProperties
<1> HIDE DEF r
<1>3. r = w
  BY <1>2, SeqEqual
<1>4. QED
  BY <1>3 DEF r

(* A result that was read stays the first one, whatever is written later.  *)
LEMMA ReadDecides ==
    ASSUME NEW w \in Seq(Sounds), NEW n \in 0..Len(w),
           FirstResult(Split(SubSeq(w, 1, n)).lines) # 0
    PROVE  LET old == Split(SubSeq(w, 1, n)).lines
               new == Split(w).lines
           IN  /\ FirstResult(new) = FirstResult(old)
               /\ new[FirstResult(new)] = old[FirstResult(old)]
<1> DEFINE r == SubSeq(w, 1, n)
           s == SubSeq(w, n + 1, Len(w))
           text == Split(r)
           more == Split(text.rest \o s)
<1>1. r \in Seq(Sounds) /\ s \in Seq(Sounds) /\ w = r \o s
  <2> DEFINE l == Len(w)
  <2>1. l \in Nat /\ n \in Nat /\ n <= l /\ l <= Len(w)
    OBVIOUS
  <2> HIDE DEF l
  <2>2. r \in Seq(Sounds) /\ SubSeq(w, n + 1, l) \in Seq(Sounds)
        /\ SubSeq(w, 1, l) = r \o SubSeq(w, n + 1, l)
    BY <2>1, Cut
  <2> USE DEF l
  <2>3. SubSeq(w, 1, Len(w)) = w
    BY CutAll
  <2>4. QED
    BY <2>2, <2>3
<1> HIDE DEF r, s
<1>2. text.lines \in Lines /\ text.rest \in Seq(Sounds)
  BY <1>1, SplitText DEF Texts, Lines
<1>3. text.rest \o s \in Seq(Sounds)
  <2> HIDE DEF text
  <2>1. QED
    BY <1>1, <1>2
<1>4. more.lines \in Lines
  BY <1>3, SplitText DEF Texts, Lines
<1>5. Split(w).lines = text.lines \o more.lines
  <2>1. r \in Seq(Sounds) /\ s \in Seq(Sounds)
    BY <1>1
  <2>2. Split(r \o s).lines = Split(r).lines \o Split(Split(r).rest \o s).lines
    BY <2>1, SplitParts
  <2>3. QED
    BY <1>1, <2>2, Zenon
<1>6. FirstResult(text.lines) # 0
  BY DEF r
<1> HIDE DEF text, more
<1>7. /\ FirstResult(Split(w).lines) = FirstResult(text.lines)
      /\ Split(w).lines[FirstResult(text.lines)] = text.lines[FirstResult(text.lines)]
  <2> DEFINE x == text.lines
             y == more.lines
  <2>1. x \in Lines /\ y \in Lines /\ FirstResult(x) # 0
    BY <1>2, <1>4, <1>6
  <2> HIDE DEF x, y
  <2>2. FirstResult(x \o y) = FirstResult(x) /\ (x \o y)[FirstResult(x)] = x[FirstResult(x)]
    BY <2>1, FirstConcat
  <2>3. Split(w).lines = x \o y
    BY <1>5 DEF x, y
  <2>4. QED
    BY <2>2, <2>3, Zenon DEF x
<1>8. QED
  BY <1>7, SMTT(30) DEF text, r

(***************************************************************************)
(* Texts that were cut into chunks.                                        *)
(***************************************************************************)

LEMMA HeardCases ==
    /\ HeardAs("lead") = {"lead", "lead?"} /\ HeardAs("trail") = {"trail", "trail?"}
    /\ \A b : b \notin {"lead", "trail"} => HeardAs(b) = {b}
BY DEF HeardAs, Replaced

LEMMA HeardFacts ==
    ASSUME NEW b \in Sounds, NEW a \in HeardAs(b)
    PROVE  /\ a \in Sounds
           /\ \A x \in Sounds : x \notin {"lead", "trail", "lead?", "trail?"} => (a = x <=> b = x)
           /\ a \in {"lead", "lead?"} <=> b \in {"lead", "lead?"}
           /\ a \in {"trail", "trail?"} <=> b \in {"trail", "trail?"}
           /\ (a = "lead" => b = "lead") /\ (a = "trail" => b = "trail")
<1>1. CASE b = "lead"
  <2>1. a \in {"lead", "lead?"}
    BY <1>1, HeardCases
  <2>2. QED
    BY <1>1, <2>1 DEF Sounds
<1>2. CASE b = "trail"
  <2>1. a \in {"trail", "trail?"}
    BY <1>2, HeardCases
  <2>2. QED
    BY <1>2, <2>1 DEF Sounds
<1>3. CASE b \notin {"lead", "trail"}
  <2>1. a = b
    BY <1>3, HeardCases
  <2>2. QED
    BY <2>1
<1>4. QED
  BY <1>1, <1>2, <1>3

LEMMA HeardSelf == \A b : b \in HeardAs(b)
BY DEF HeardAs

LEMMA ResemblesAppend ==
    ASSUME NEW h \in Text, NEW w \in Text, NEW a \in Sounds, NEW b \in Sounds
    PROVE  Resembles(Append(h, a), Append(w, b)) <=> (Resembles(h, w) /\ a \in HeardAs(b))
<1> DEFINE x == Append(h, a)
           y == Append(w, b)
<1>1. /\ Len(h) \in Nat /\ Len(x) = Len(h) + 1 /\ x[Len(h) + 1] = a
      /\ \A i \in 1..Len(h) : x[i] = h[i]
  BY AppendProperties DEF Text
<1>2. /\ Len(w) \in Nat /\ Len(y) = Len(w) + 1 /\ y[Len(w) + 1] = b
      /\ \A i \in 1..Len(w) : y[i] = w[i]
  BY AppendProperties DEF Text
<1> HIDE DEF x, y
<1>3. ASSUME Len(h) = Len(w) PROVE Resembles(x, y) <=> (Resembles(h, w) /\ a \in HeardAs(b))
  <2> DEFINE n == Len(w)
  <2>1. \A i \in 1..(n + 1) : i \in 1..n \/ i = n + 1
    BY <1>2
  <2>2. n + 1 \in 1..(n + 1) /\ \A i \in 1..n : i \in 1..(n + 1)
    BY <1>2
  <2>3. Len(x) = n + 1 /\ Len(y) = n + 1
    BY <1>1, <1>2, <1>3
  <2>4. Resembles(x, y) <=> \A i \in 1..(n + 1) : x[i] \in HeardAs(y[i])
    BY <2>3 DEF Resembles
  <2>5. Resembles(h, w) <=> \A i \in 1..n : h[i] \in HeardAs(w[i])
    BY <1>3 DEF Resembles
  <2>6. /\ \A i \in 1..n : x[i] = h[i] /\ y[i] = w[i]
        /\ x[n + 1] = a /\ y[n + 1] = b
    BY <1>1, <1>2, <1>3
  <2> HIDE DEF n
  <2>7. QED
    BY <2>1, <2>2, <2>4, <2>5, <2>6
<1>4. ASSUME Len(h) # Len(w) PROVE ~Resembles(x, y) /\ ~Resembles(h, w)
  BY <1>1, <1>2, <1>4 DEF Resembles
<1>5. QED
  BY <1>3, <1>4 DEF x, y

LEMMA ResemblesConcat ==
    ASSUME NEW a \in Text, NEW b \in Text, NEW c \in Text, NEW d \in Text,
           Resembles(a, b), Resembles(c, d)
    PROVE  Resembles(a \o c, b \o d)
<1> DEFINE x == a \o c
           y == b \o d
           m == Len(b)
           n == Len(d)
<1>1. /\ Len(a) = m /\ Len(c) = n /\ m \in Nat /\ n \in Nat
      /\ \A i \in 1..m : a[i] \in HeardAs(b[i])
      /\ \A i \in 1..n : c[i] \in HeardAs(d[i])
  BY DEF Resembles, Text
<1>2. /\ Len(x) = Len(a) + Len(c) /\ \A i \in 1..Len(a) : x[i] = a[i]
      /\ \A i \in 1..Len(c) : x[Len(a) + i] = c[i]
  BY ConcatProperties DEF Text
<1>3. /\ Len(y) = m + n /\ \A i \in 1..m : y[i] = b[i]
      /\ \A i \in 1..n : y[m + i] = d[i]
  BY ConcatProperties DEF Text
<1> HIDE DEF x, y, m, n
<1>4. ASSUME NEW i \in 1..(m + n) PROVE x[i] \in HeardAs(y[i])
  <2>1. CASE i \in 1..m
    BY <1>1, <1>2, <1>3, <2>1
  <2>2. CASE i \notin 1..m
    <3>1. i - m \in 1..n /\ i = m + (i - m)
      BY <1>1, <2>2
    <3>2. x[i] = c[i - m] /\ y[i] = d[i - m]
      BY <1>1, <1>2, <1>3, <3>1
    <3>3. QED
      BY <1>1, <3>1, <3>2
  <2>3. QED
    BY <2>1, <2>2
<1>5. QED
  BY <1>1, <1>2, <1>3, <1>4 DEF Resembles, x, y

LEMMA ResemblesEmpty == \A h \in Text : (Resembles(h, <<>>) <=> h = <<>>)
<1>1. \A h \in Text : (Len(h) = 0 <=> h = <<>>)
  BY DEF Text
<1>2. Len(<<>>) = 0
  OBVIOUS
<1>3. QED
  BY <1>1, <1>2 DEF Resembles

(* As many lines, each of which resembles the other.                       *)
SameLines(l, m) == Len(l) = Len(m) /\ \A i \in 1..Len(m) : Resembles(l[i], m[i])

LEMMA SameLinesAppend ==
    ASSUME NEW l \in Lines, NEW m \in Lines, NEW a \in Text, NEW b \in Text,
           SameLines(l, m), Resembles(a, b)
    PROVE  SameLines(Append(l, a), Append(m, b))
<1> DEFINE x == Append(l, a)
           y == Append(m, b)
           n == Len(m)
<1>0. Lines = Seq(Text)
  BY DEF Lines, Text
<1>1. n \in Nat /\ Len(l) = n /\ \A i \in 1..n : Resembles(l[i], m[i])
  BY <1>0 DEF SameLines
<1>2. Len(x) = Len(l) + 1 /\ x[Len(l) + 1] = a /\ \A i \in 1..Len(l) : x[i] = l[i]
  BY <1>0, AppendProperties
<1>3. Len(y) = n + 1 /\ y[n + 1] = b /\ \A i \in 1..n : y[i] = m[i]
  BY <1>0, AppendProperties
<1> HIDE DEF x, y, n
<1>4. \A i \in 1..(n + 1) : i \in 1..n \/ i = n + 1
  BY <1>1
<1>5. \A i \in 1..(n + 1) : Resembles(x[i], y[i])
  BY <1>1, <1>2, <1>3, <1>4
<1>6. QED
  BY <1>1, <1>2, <1>3, <1>5 DEF SameLines, x, y

(* A text that was cut has the lines of the text, and as much after them.  *)
LEMMA SplitResembles ==
    ASSUME NEW h \in Text, NEW w \in Text, Resembles(h, w)
    PROVE  SameLines(Split(h).lines, Split(w).lines) /\ Resembles(Split(h).rest, Split(w).rest)
<1> DEFINE Right(s, t) == /\ SameLines(Split(s).lines, Split(t).lines)
                          /\ Resembles(Split(s).rest, Split(t).rest)
           Bad == {k \in Nat : \E s, t \in Text : Len(t) = k /\ Resembles(s, t) /\ ~Right(s, t)}
<1>0. \A s : s \in Text <=> s \in Seq(Sounds)
  BY DEF Text
<1>1. Bad = {}
  <2> SUFFICES ASSUME Bad # {} PROVE FALSE
    OBVIOUS
  <2>1. PICK k \in Bad : \A n \in Bad : k <= n
    BY LeastNat
  <2>2. PICK s \in Text, t \in Text : Len(t) = k /\ Resembles(s, t) /\ ~Right(s, t)
    OBVIOUS
  <2>3. CASE t = <<>>
    <3>1. s = <<>>
      BY <2>2, <2>3, ResemblesEmpty
    <3>2. Split(s) = NoText /\ Split(t) = NoText
      BY <2>3, <3>1, SplitNone
    <3>3. SameLines(<<>>, <<>>) /\ Resembles(<<>>, <<>>)
      BY DEF SameLines, Resembles
    <3>4. QED
      BY <2>2, <3>2, <3>3 DEF NoText
  <2>4. CASE t # <<>>
    <3>1. s # <<>>
      <4>1. Len(t) # 0 /\ Len(s) = Len(t)
        BY <1>0, <2>2, <2>4 DEF Resembles
      <4>2. QED
        BY <4>1
    <3>2. PICK t0 \in Text, b \in Sounds : t = Append(t0, b)
      BY <1>0, <2>4, SequenceEmptyOrAppend
    <3>3. PICK s0 \in Text, a \in Sounds : s = Append(s0, a)
      BY <1>0, <3>1, SequenceEmptyOrAppend
    <3>4. Resembles(s0, t0) /\ a \in HeardAs(b)
      BY <2>2, <3>2, <3>3, ResemblesAppend
    <3>5. Len(t0) \in Nat /\ ~(k <= Len(t0))
      BY <1>0, <2>2, <3>2
    <3>6. Right(s0, t0)
      BY <2>1, <3>4, <3>5
    <3>7. /\ Split(s) = Reading(Split(s0), a) /\ Split(s0) \in Texts
          /\ Split(t) = Reading(Split(t0), b) /\ Split(t0) \in Texts
      BY <1>0, <3>2, <3>3, SplitAppend, SplitText
    <3>8. a = "nl" <=> b = "nl"
      BY <3>4, HeardFacts DEF Sounds, Tokens
    <3> DEFINE x == Split(s0)
               y == Split(t0)
    <3>9. /\ x.lines \in Lines /\ y.lines \in Lines /\ x.rest \in Text /\ y.rest \in Text
          /\ SameLines(x.lines, y.lines) /\ Resembles(x.rest, y.rest)
      BY <3>6, <3>7 DEF Texts, Lines, Text
    <3> HIDE DEF x, y
    <3>10. CASE b = "nl"
      <4>1. /\ Split(s).lines = Append(x.lines, x.rest) /\ Split(s).rest = <<>>
            /\ Split(t).lines = Append(y.lines, y.rest) /\ Split(t).rest = <<>>
        BY <3>7, <3>8, <3>10, ReadingText DEF x, y
      <4>2. Resembles(<<>>, <<>>)
        BY DEF Resembles
      <4>3. QED
        BY <2>2, <3>9, <4>1, <4>2, SameLinesAppend
    <3>11. CASE b # "nl"
      <4>1. /\ Split(s).lines = x.lines /\ Split(s).rest = Append(x.rest, a)
            /\ Split(t).lines = y.lines /\ Split(t).rest = Append(y.rest, b)
        BY <3>7, <3>8, <3>11, ReadingText DEF x, y
      <4>2. QED
        BY <2>2, <3>4, <3>9, <4>1, ResemblesAppend
    <3>12. QED
      BY <3>10, <3>11
  <2>5. QED
    BY <2>3, <2>4
<1>2. Len(w) \in Nat
  BY DEF Text
<1>3. QED
  BY <1>1, <1>2

(* The marker survives, and so does which line is the first with it.       *)
LEMMA SameResult ==
    ASSUME NEW a \in Text, NEW b \in Text, Resembles(a, b)
    PROVE  IsResult(a) <=> IsResult(b)
<1>1. Len(b) \in Nat /\ Len(a) = Len(b) /\ \A i \in 1..Len(b) : b[i] \in Sounds /\ a[i] \in HeardAs(b[i])
  BY DEF Resembles, Text
<1>2. Len(b) >= 2 => 1 \in 1..Len(b) /\ 2 \in 1..Len(b)
  BY <1>1
<1>3. "__FUNCTION" \in Sounds /\ "_RESULT__" \in Sounds
  BY DEF Sounds, Tokens
<1>4. \A i \in 1..Len(b) : (a[i] = "__FUNCTION" <=> b[i] = "__FUNCTION")
                           /\ (a[i] = "_RESULT__" <=> b[i] = "_RESULT__")
  BY <1>1, <1>3, HeardFacts
<1>5. QED
  BY <1>1, <1>2, <1>4 DEF IsResult

LEMMA SameFirst ==
    ASSUME NEW l \in Lines, NEW m \in Lines, SameLines(l, m)
    PROVE  FirstResult(l) = FirstResult(m)
<1> DEFINE f == FirstResult(m)
<1>1. Len(l) = Len(m) /\ Len(m) \in Nat /\ \A i \in 1..Len(m) : l[i] \in Text /\ m[i] \in Text /\ Resembles(l[i], m[i])
  BY DEF SameLines, Lines, Text
<1>2. \A i \in 1..Len(m) : IsResult(l[i]) <=> IsResult(m[i])
  BY <1>1, SameResult
<1>3. CASE f = 0
  <2>1. \A i \in 1..Len(l) : ~IsResult(l[i])
    BY <1>1, <1>2, <1>3, FirstIs
  <2>2. QED
    BY <1>3, <2>1, FirstNone
<1>4. CASE f # 0
  <2>1. f \in 1..Len(m) /\ IsResult(m[f]) /\ \A i \in 1..Len(m) : i < f => ~IsResult(m[i])
    BY <1>1, <1>4, FirstIs
  <2> HIDE DEF f
  <2>2. f \in 1..Len(l) /\ IsResult(l[f]) /\ \A i \in 1..Len(l) : i < f => ~IsResult(l[i])
    BY <1>1, <1>2, <2>1
  <2>3. QED
    BY <2>2, FirstUnique DEF f
<1>5. QED
  BY <1>3, <1>4

LEMMA SameBefore ==
    ASSUME NEW l \in Lines, NEW m \in Lines, SameLines(l, m)
    PROVE  SameLines(Before(l), Before(m))
<1> DEFINE f == FirstResult(m)
           x == SubSeq(l, 1, f - 1)
           y == SubSeq(m, 1, f - 1)
<1>0. Lines = Seq(Text)
  BY DEF Lines, Text
<1>1. Len(l) = Len(m) /\ Len(m) \in Nat /\ \A i \in 1..Len(m) : Resembles(l[i], m[i])
  BY <1>0 DEF SameLines
<1>2. FirstResult(l) = f /\ f \in 0..Len(m)
  BY SameFirst, FirstIs
<1>3. CASE f = 0
  BY <1>2, <1>3 DEF Before
<1>4. CASE f # 0
  <2> HIDE DEF f
  <2>1. f - 1 \in Nat /\ f - 1 <= Len(m) /\ 1 \in Nat
    BY <1>1, <1>2, <1>4
  <2>2. Len(x) = f - 1 /\ \A i \in 1..(f - 1) : x[i] = l[i]
    BY <1>0, <1>1, <2>1, SubSeqProperties
  <2>3. Len(y) = f - 1 /\ \A i \in 1..(f - 1) : y[i] = m[i]
    BY <1>0, <1>1, <2>1, SubSeqProperties
  <2> HIDE DEF x, y
  <2>4. SameLines(x, y)
    BY <1>1, <2>1, <2>2, <2>3 DEF SameLines
  <2>5. Before(l) = x /\ Before(m) = y
    BY <1>2, <1>4 DEF Before, x, y, f
  <2>6. QED
    BY <2>4, <2>5
<1>5. QED
  BY <1>3, <1>4

(* What is parsed, if a character of it was cut.                           *)
LEMMA ParseResembles ==
    ASSUME NEW a \in Text, NEW b \in Text, Resembles(a, b), IsResult(b)
    PROVE  \/ Parse(a) = Parse(b)
           \/ Parse(a) = "altered" /\ SubSeq(b, 3, Len(b)) = <<"lead", "trail">>
<1> DEFINE x == SubSeq(a, 3, Len(a))
           y == SubSeq(b, 3, Len(b))
           n == Len(b) - 2
<1>1. Len(b) \in Nat /\ Len(b) >= 2 /\ Len(a) = Len(b) /\ \A i \in 1..Len(b) : b[i] \in Sounds /\ a[i] \in HeardAs(b[i])
  BY DEF Resembles, Text, IsResult
<1>2. x \in Seq(Sounds) /\ Len(x) = n /\ \A i \in 1..n : x[i] = a[i + 2]
  BY <1>1 DEF Text
<1>3. y \in Seq(Sounds) /\ Len(y) = n /\ \A i \in 1..n : y[i] = b[i + 2]
  BY <1>1 DEF Text
<1>4. n \in Nat /\ \A i \in 1..n : i + 2 \in 1..Len(b)
  BY <1>1
<1>5. Parse(a) = CASE x \in {<<"object">>, <<"lead", "trail">>} -> "ok"
                   [] x \in {<<"lead?", "trail?">>, <<"lead?", "trail">>, <<"lead", "trail?">>} -> "altered"
                   [] x = <<"null">> -> "NotAnObject"
                   [] OTHER -> "ParseResult"
  BY DEF Parse
<1>6. Parse(b) = CASE y \in {<<"object">>, <<"lead", "trail">>} -> "ok"
                   [] y \in {<<"lead?", "trail?">>, <<"lead?", "trail">>, <<"lead", "trail?">>} -> "altered"
                   [] y = <<"null">> -> "NotAnObject"
                   [] OTHER -> "ParseResult"
  BY DEF Parse
<1>7. \A i \in 1..n : y[i] \in Sounds /\ x[i] \in HeardAs(y[i])
  BY <1>1, <1>2, <1>3, <1>4
<1> HIDE DEF x, y, n
<1>8. ASSUME NEW t \in {"object", "null"} PROVE x = <<t>> <=> y = <<t>>
  <2>1. \A s \in Seq(Sounds) : s = <<t>> <=> (Len(s) = 1 /\ s[1] = t)
    <3>1. ASSUME NEW s \in Seq(Sounds), Len(s) = 1, s[1] = t PROVE s = <<t>>
      BY <3>1
    <3>2. QED
      BY <3>1
  <2>2. n = 1 => (x[1] = t <=> y[1] = t)
    <3>1. t \in Sounds /\ t \notin {"lead", "trail", "lead?", "trail?"}
      BY <1>8 DEF Sounds, Tokens
    <3>2. n = 1 => 1 \in 1..n
      OBVIOUS
    <3>3. n = 1 => y[1] \in Sounds /\ x[1] \in HeardAs(y[1])
      BY <1>7, <3>2
    <3>4. QED
      BY <3>1, <3>3, HeardFacts
  <2>3. QED
    BY <1>2, <1>3, <2>1, <2>2
<1>9. \A s \in Seq(Sounds) : \A t, u : s = <<t, u>> <=> (Len(s) = 2 /\ s[1] = t /\ s[2] = u)
  <2>1. ASSUME NEW s \in Seq(Sounds), NEW t, NEW u, Len(s) = 2, s[1] = t, s[2] = u PROVE s = <<t, u>>
    BY <2>1
  <2>2. QED
    BY <2>1
<1>10. n = 2 => 1 \in 1..n /\ 2 \in 1..n
  OBVIOUS
<1> DEFINE Halves(s) == Len(s) = 2 /\ s[1] \in {"lead", "lead?"} /\ s[2] \in {"trail", "trail?"}
<1>11. Halves(x) <=> Halves(y)
  BY <1>2, <1>3, <1>7, <1>10, HeardFacts
<1>12. x = <<"lead", "trail">> => y = <<"lead", "trail">>
  <2>1. ASSUME x = <<"lead", "trail">> PROVE y = <<"lead", "trail">>
    <3>1. n = 2 /\ x[1] = "lead" /\ x[2] = "trail"
      BY <1>2, <1>9, <2>1
    <3>2. y[1] = "lead" /\ y[2] = "trail"
      BY <1>7, <1>10, <3>1, HeardFacts
    <3>3. QED
      BY <1>3, <1>9, <3>1, <3>2
  <2>2. QED
    BY <2>1
<1>13. \A s \in Seq(Sounds) : Halves(s) <=>
          s \in {<<"lead", "trail">>, <<"lead?", "trail?">>, <<"lead?", "trail">>, <<"lead", "trail?">>}
  BY <1>9
<1> HIDE DEF Halves
<1> DEFINE C == {<<"lead?", "trail?">>, <<"lead?", "trail">>, <<"lead", "trail?">>}
           good == <<"lead", "trail">>
           obj == <<"object">>
           nul == <<"null">>
<1>14. /\ x = obj <=> y = obj
       /\ x = nul <=> y = nul
       /\ x = good \/ x \in C <=> y = good \/ y \in C
       /\ x = good => y = good
  BY <1>2, <1>3, <1>8, <1>11, <1>12, <1>13
<1>15. /\ obj # nul /\ obj \notin C /\ nul \notin C /\ good \notin C /\ obj # good /\ nul # good
  OBVIOUS
<1>16. /\ Parse(a) = CASE x = obj \/ x = good -> "ok" [] x \in C -> "altered"
                       [] x = nul -> "NotAnObject" [] OTHER -> "ParseResult"
       /\ Parse(b) = CASE y = obj \/ y = good -> "ok" [] y \in C -> "altered"
                       [] y = nul -> "NotAnObject" [] OTHER -> "ParseResult"
  BY <1>5, <1>6
<1> HIDE DEF C, good, obj, nul
<1>17. Parse(a) = Parse(b) \/ (Parse(a) = "altered" /\ y = good)
  <2>1. CASE y = good /\ x # good
    BY <1>14, <1>15, <1>16, <2>1
  <2>2. CASE ~(y = good /\ x # good)
    BY <1>14, <1>15, <1>16, <2>2
  <2>3. QED
    BY <2>1, <2>2
<1>18. QED
  BY <1>17 DEF good, y


LEMMA PrefixBegins ==
    ASSUME NEW a \in Lines, NEW b \in Lines, NEW m \in Lines, IsPrefix(a, b), SameLines(a, m)
    PROVE  Begin(b, m)
<1> DEFINE S == Seq(Sounds)
<1>1. a \in Seq(S) /\ b \in Seq(S) /\ m \in Seq(S)
  BY DEF Lines
<1> HIDE DEF S
<1>2. Len(a) \in Nat /\ Len(b) \in Nat /\ Len(m) = Len(a)
  BY <1>1 DEF SameLines
<1> DEFINE n == Len(a)
           p == SubSeq(a, 1, n)
           q == SubSeq(b, 1, n)
<1>3. n <= Len(b) /\ p = q
  BY DEF IsPrefix
<1> HIDE DEF p, q
<1>4. \A i \in 1..n : p[i] = a[i]
  BY <1>1, <1>2, SubSeqProperties DEF p
<1>5. \A i \in 1..n : q[i] = b[i]
  BY <1>1, <1>2, <1>3, SubSeqProperties DEF q
<1>6. \A i \in 1..n : Resembles(b[i], m[i])
  BY <1>2, <1>3, <1>4, <1>5 DEF SameLines
<1>7. QED
  BY <1>2, <1>3, <1>6 DEF Begin

(* toString() keeps all tokens but for halves of a character.               *)
LEMMA DecodeResembles ==
    ASSUME NEW chunk \in Seq(Tokens)
    PROVE  Decode(chunk) \in Text /\ Resembles(Decode(chunk), chunk)
<1> DEFINE n == Len(chunk)
           Half(i) == \/ chunk[i] = "lead" /\ (i = Len(chunk) \/ chunk[i + 1] # "trail")
                      \/ chunk[i] = "trail" /\ (i = 1 \/ chunk[i - 1] # "lead")
           d == [i \in 1..n |-> IF Half(i) THEN Replaced[chunk[i]] ELSE chunk[i]]
<1>1. n \in Nat /\ DOMAIN chunk = 1..n /\ \A i \in 1..n : chunk[i] \in Tokens
  OBVIOUS
<1>2. Decode(chunk) = d
  BY <1>1 DEF Decode
<1>3. ASSUME NEW i \in 1..n PROVE d[i] \in HeardAs(chunk[i]) /\ d[i] \in Sounds
  <2>1. Half(i) => chunk[i] \in {"lead", "trail"}
    OBVIOUS
  <2>2. d[i] = IF Half(i) THEN Replaced[chunk[i]] ELSE chunk[i]
    OBVIOUS
  <2> HIDE DEF Half, d
  <2>3. Replaced["lead"] = "lead?" /\ Replaced["trail"] = "trail?"
    BY DEF Replaced
  <2>4. d[i] \in HeardAs(chunk[i])
    <3>1. CASE Half(i)
      BY <2>1, <2>2, <2>3, <3>1, HeardCases
    <3>2. CASE ~Half(i)
      BY <2>2, <3>2, HeardSelf
    <3>3. QED
      BY <3>1, <3>2
  <2>5. chunk[i] \in Sounds
    BY <1>1 DEF Sounds
  <2>6. QED
    BY <2>4, <2>5, HeardFacts
<1>4. Len(d) = n /\ d \in Seq(Sounds)
  <2>1. d \in [1..n -> Sounds]
    <3> HIDE DEF Half
    <3>1. \A i \in 1..n : (IF Half(i) THEN Replaced[chunk[i]] ELSE chunk[i]) \in Sounds
      BY <1>3
    <3>2. QED
      BY <3>1
  <2> HIDE DEF d
  <2>2. QED
    BY <1>1, <2>1
<1> HIDE DEF d
<1>5. QED
  BY <1>1, <1>2, <1>3, <1>4 DEF Resembles, Text

(***************************************************************************)
(* The sandbox.                                                            *)
(***************************************************************************)

(* Nothing is written before the script runs; while it runs no result was   *)
(* read, and a node that settled without one has read everything there will *)
(* ever be.                                                                 *)
SandboxState ==
    /\ SandboxTypeOK
    /\ phase \in {"called"} \cup DOMAIN Following => \A p \in Pipes : written[p] = <<>>
    /\ phase = "called" => process = "none" /\ ~directory
    /\ phase = "run" => FirstResult(Split(Read("out")).lines) = 0
    /\ phase = "settled" /\ FirstResult(Split(Read("out")).lines) = 0 =>
          process = "none" /\ \A p \in Pipes : unread[p] = 0
    /\ FirstResultDecides /\ SandboxRemoved

(* What has come of a pipe, all its chunks one after the other, decoded as  *)
(* they came: it resembles what was read, what follows its last line is     *)
(* buffered, and its lines are logged.                                      *)
Heard(h) ==
    /\ \A p \in Pipes : Resembles(h[p], Read(p)) /\ buffer[p] = Split(h[p]).rest
    /\ IsPrefix(Before(Split(h["out"]).lines), logs["out"])
    /\ FirstResult(Split(h["out"]).lines) = 0 => logs["out"] = Split(h["out"]).lines
    /\ FirstResult(logs["out"]) = 0
    /\ logs["err"] = Split(h["err"]).lines

SandboxInv == SandboxState /\ \E h \in [Pipes -> Text] : Heard(h)

(* What the node may return for the line that decides.                      *)
Fits(result) ==
    \/ result = IF IsResult(Decisive) THEN Parse(Decisive) ELSE "Execution"
    \/ /\ result = "altered" /\ IsResult(Decisive)
       /\ SubSeq(Decisive, 3, Len(Decisive)) = <<"lead", "trail">>

LEMMA Phases == DOMAIN Following = {"install", "compile"}
BY DEF Following

LEMMA TwoPipes == "out" \in Pipes /\ "err" \in Pipes /\ \A p \in Pipes : p = "out" \/ p = "err"
BY DEF Pipes

LEMMA TokensSound == \A s \in Seq(Tokens) : s \in Text /\ s \in Seq(Sounds)
BY DEF Text, Sounds

LEMMA EmptyLines ==
    /\ <<>> \in Lines /\ <<>> \in Seq(Sounds) /\ FirstResult(<<>>) = 0 /\ Before(<<>>) = <<>>
    /\ IsPrefix(<<>>, <<>>)
<1>1. <<>> \in Lines /\ <<>> \in Seq(Sounds) /\ Len(<<>>) = 0
  BY DEF Lines
<1>2. FirstResult(<<>>) = 0
  BY <1>1, FirstIs
<1>3. Before(<<>>) = <<>>
  BY <1>2 DEF Before
<1>4. IsPrefix(<<>>, <<>>)
  BY <1>1 DEF IsPrefix
<1>5. QED
  BY <1>1, <1>2, <1>3, <1>4

LEMMA InitSandbox == SandboxInit => SandboxInv
<1> SUFFICES ASSUME SandboxInit PROVE SandboxInv
  OBVIOUS
<1> DEFINE none == [p \in Pipes |-> <<>>]
<1>1. /\ phase = "called" /\ outcome = "none" /\ process = "none" /\ faults = 0
      /\ written = none /\ unread = [p \in Pipes |-> 0] /\ buffer = none /\ logs = none
      /\ directory = FALSE /\ jailed \in BOOLEAN
  BY DEF SandboxInit
<1>2. <<>> \in Seq(Tokens) /\ <<>> \in Text /\ <<>> \in Seq(Text) /\ Len(<<>>) = 0
  BY DEF Text
<1>3. \A p \in Pipes : none[p] = <<>> /\ unread[p] = 0 /\ Read(p) = <<>>
  <2>1. \A p \in Pipes : none[p] = <<>> /\ unread[p] = 0
    BY <1>1
  <2>2. SubSeq(<<>>, 1, 0) = <<>>
    BY <1>2, CutAll
  <2>3. QED
    BY <1>1, <1>2, <2>1, <2>2 DEF Read
<1>4. Split(<<>>).lines = <<>> /\ Split(<<>>).rest = <<>>
  BY SplitNone DEF NoText
<1>5. SandboxTypeOK
  <2>1. /\ none \in [Pipes -> Seq(Tokens)] /\ none \in [Pipes -> Text] /\ none \in [Pipes -> Seq(Text)]
        /\ unread \in [Pipes -> Nat] /\ \A p \in Pipes : unread[p] <= Len(none[p])
    BY <1>1, <1>2
  <2>2. 0 \in 0..MaxFaults
    BY BoundsAssumption
  <2> HIDE DEF none
  <2>3. QED
    BY <1>1, <2>1, <2>2, Phases DEF SandboxTypeOK, Outcomes, EarlyErrors
<1>6. FirstResultDecides /\ SandboxRemoved
  BY <1>1 DEF FirstResultDecides, SandboxRemoved, Outcomes, EarlyErrors
<1>7. SandboxState
  BY <1>1, <1>3, <1>5, <1>6 DEF SandboxState
<1>8. Heard(none)
  <2>1. Resembles(<<>>, <<>>)
    BY DEF Resembles
  <2>2. QED
    BY <1>1, <1>3, <1>4, <2>1, EmptyLines, TwoPipes DEF Heard
<1>9. none \in [Pipes -> Text]
  BY <1>2
<1>10. QED
  BY <1>7, <1>8, <1>9 DEF SandboxInv

(* How a node returns: with its result and without its directory, unless a *)
(* call of the file system failed.                                         *)
LEMMA Returned ==
    ASSUME faults \in 0..MaxFaults, NEW result, Return(result)
    PROVE  /\ phase' = "settled" /\ faults' \in 0..MaxFaults /\ faults <= faults'
           /\ \/ outcome' = result /\ directory' = FALSE
              \/ outcome' \in {"FileSystem", "ParseResult"} /\ faults' > 0
<1> DEFINE attempts == IF result \in {"ok", "altered", "NotAnObject"} THEN 2 ELSE 1
<1>1. phase' = "settled"
  BY DEF Return
<1>2. PICK failed \in 0..attempts :
          /\ faults + failed <= MaxFaults
          /\ faults' = faults + failed
          /\ directory' = (failed = attempts)
          /\ outcome' = CASE failed = 0        -> result
                          [] failed = attempts -> "FileSystem"
                          [] OTHER             -> "ParseResult"
  BY DEF Return
<1>3. attempts \in Nat /\ attempts # 0
  OBVIOUS
<1> HIDE DEF attempts
<1>4. MaxFaults \in Nat /\ faults \in Nat /\ failed \in Nat
  BY <1>3, BoundsAssumption
<1>5. CASE failed = 0
  <2>1. outcome' = result /\ directory' = FALSE
    BY <1>2, <1>3, <1>5
  <2>2. QED
    BY <1>1, <1>2, <1>4, <2>1
<1>6. CASE failed # 0
  <2>1. outcome' \in {"FileSystem", "ParseResult"}
    BY <1>2, <1>6
  <2>2. QED
    BY <1>1, <1>2, <1>4, <1>6, <2>1
<1>7. QED
  BY <1>5, <1>6

LEMMA ReadText ==
    ASSUME SandboxTypeOK, NEW p \in Pipes
    PROVE  /\ written[p] \in Seq(Tokens) /\ Len(written[p]) \in Nat
           /\ unread[p] \in Nat /\ unread[p] <= Len(written[p])
           /\ Len(written[p]) - unread[p] \in 0..Len(written[p])
           /\ Read(p) \in Text /\ Split(Read(p)) \in Texts
           /\ Split(Read(p)).lines \in Lines /\ Split(Read(p)).rest \in Text
           /\ unread[p] = 0 => Read(p) = written[p]
<1> DEFINE n == Len(written[p]) - unread[p]
<1>1. written[p] \in Seq(Tokens) /\ unread[p] \in Nat /\ unread[p] <= Len(written[p])
  BY DEF SandboxTypeOK
<1>2. Len(written[p]) \in Nat /\ n \in 0..Len(written[p])
  BY <1>1
<1>3. unread[p] = 0 => Read(p) = written[p]
  <2>1. unread[p] = 0 => n = Len(written[p])
    BY <1>2
  <2>2. SubSeq(written[p], 1, Len(written[p])) = written[p]
    BY <1>1, CutAll
  <2> HIDE DEF n
  <2>3. QED
    BY <2>1, <2>2 DEF Read, n
<1> HIDE DEF n
<1>4. SubSeq(written[p], 1, n) \in Seq(Tokens)
  BY <1>1, <1>2, SubSeqProperties
<1>5. Read(p) \in Text
  BY <1>4, TokensSound DEF Read, n
<1>6. Split(Read(p)) \in Texts
  BY <1>5, SplitText DEF Text
<1>7. Split(Read(p)).lines \in Lines /\ Split(Read(p)).rest \in Text
  BY <1>6 DEF Texts, Lines, Text
<1>8. QED
  BY <1>1, <1>2, <1>3, <1>5, <1>6, <1>7 DEF n

LEMMA HeardLines ==
    ASSUME NEW h \in [Pipes -> Text], NEW p \in Pipes
    PROVE  /\ h[p] \in Text /\ h[p] \in Seq(Sounds) /\ Split(h[p]) \in Texts
           /\ Split(h[p]).lines \in Lines /\ Split(h[p]).rest \in Text
BY SplitText DEF Text, Texts, Lines

(* The logs, if this is what has come.                                      *)
LEMMA HeardLogs ==
    ASSUME SandboxTypeOK, NEW h \in [Pipes -> Text], Heard(h)
    PROVE  LogsFaithful
<1> DEFINE lines == Split(Read("out")).lines
           notes == Split(Read("err")).lines
           x == Split(h["out"]).lines
           y == Split(h["err"]).lines
<1>1. Read("out") \in Text /\ Read("err") \in Text /\ lines \in Lines /\ notes \in Lines
  BY ReadText, TwoPipes
<1>2. h["out"] \in Text /\ h["err"] \in Text /\ x \in Lines /\ y \in Lines
  BY HeardLines, TwoPipes
<1>3. Resembles(h["out"], Read("out")) /\ Resembles(h["err"], Read("err"))
  BY TwoPipes DEF Heard
<1>4. SameLines(x, lines) /\ SameLines(y, notes)
  BY <1>1, <1>2, <1>3, SplitResembles
<1>5. /\ IsPrefix(Before(x), logs["out"]) /\ (FirstResult(x) = 0 => logs["out"] = x)
      /\ FirstResult(logs["out"]) = 0 /\ logs["err"] = y
  BY DEF Heard
<1>6. logs["out"] \in Lines
  BY TwoPipes DEF SandboxTypeOK, Lines, Text
<1> HIDE DEF lines, notes, x, y
<1>7. FirstResult(x) = FirstResult(lines) /\ SameLines(Before(x), Before(lines))
      /\ Before(x) \in Lines /\ Before(lines) \in Lines
  BY <1>1, <1>2, <1>4, SameFirst, SameBefore, BeforeNone
<1>8. Begin(logs["out"], Before(lines))
  BY <1>5, <1>6, <1>7, PrefixBegins
<1>9. Begin(logs["err"], notes) /\ Len(logs["err"]) = Len(notes)
  <2>1. Len(y) = Len(notes) /\ Len(notes) \in Nat /\ \A i \in 1..Len(notes) : Resembles(y[i], notes[i])
    BY <1>1, <1>4 DEF SameLines, Lines
  <2>2. QED
    BY <1>5, <2>1 DEF Begin
<1>10. FirstResult(lines) = 0 => Len(logs["out"]) = Len(lines)
  BY <1>4, <1>5, <1>7 DEF SameLines
<1>11. QED
  BY <1>5, <1>8, <1>9, <1>10 DEF LogsFaithful, lines, notes

(* Steps that do not touch the output.                                     *)
LEMMA SameScript ==
    ASSUME script' = script
    PROVE  /\ \A p \in Pipes : Read(p)' = Read(p)
           /\ Split(Read("out"))' = Split(Read("out")) /\ Decisive' = Decisive
           /\ written' = written /\ unread' = unread /\ buffer' = buffer /\ logs' = logs
           /\ \A h \in [Pipes -> Text] : Heard(h) => Heard(h)'
<1>1. written' = written /\ unread' = unread /\ buffer' = buffer /\ logs' = logs
  BY DEF script
<1>2. \A p \in Pipes : Read(p)' = Read(p)
  BY <1>1 DEF Read
<1>3. Decisive' = Decisive
  BY <1>1 DEF Decisive
<1>4. ASSUME NEW h \in [Pipes -> Text], Heard(h) PROVE Heard(h)'
  BY <1>1, <1>2, <1>4 DEF Heard
<1>5. QED
  BY <1>1, <1>2, <1>3, <1>4, TwoPipes

LEMMA KeptHeard == ASSUME SandboxInv, script' = script, SandboxState' PROVE SandboxInv'
<1>1. PICK h \in [Pipes -> Text] : Heard(h)
  BY DEF SandboxInv
<1>2. Heard(h)'
  BY <1>1, SameScript
<1>3. QED
  BY <1>2 DEF SandboxInv

(* What the runner does that does not touch the output: what is left to    *)
(* show about it.                                                          *)
LEMMA ControlStep ==
    ASSUME SandboxInv, script' = script, jailed' = jailed,
           phase' \in {"run", "settled"} \cup DOMAIN Following,
           outcome' \in Outcomes \cup {"none"},
           (phase' = "settled") = (outcome' # "none"),
           process' \in {"none", "running"} \cup Exits,
           phase' # "settled" => directory',
           faults' \in 0..MaxFaults,
           phase' \in DOMAIN Following => \A p \in Pipes : written[p] = <<>>,
           phase' = "run" => FirstResult(Split(Read("out")).lines) = 0,
           phase' = "settled" /\ FirstResult(Split(Read("out")).lines) = 0 =>
              process' = "none" /\ \A p \in Pipes : unread[p] = 0,
           FirstResultDecides', SandboxRemoved'
    PROVE  SandboxInv'
<1>1. /\ Split(Read("out"))' = Split(Read("out"))
      /\ written' = written /\ unread' = unread /\ buffer' = buffer /\ logs' = logs
  BY SameScript
<1>2. /\ written \in [Pipes -> Seq(Tokens)]
      /\ unread \in [Pipes -> Nat] /\ \A p \in Pipes : unread[p] <= Len(written[p])
      /\ buffer \in [Pipes -> Text] /\ logs \in [Pipes -> Seq(Text)] /\ jailed \in BOOLEAN
  BY DEF SandboxInv, SandboxState, SandboxTypeOK
<1>3. SandboxTypeOK'
  BY <1>1, <1>2, Phases DEF SandboxTypeOK
<1>4. phase' # "called"
  BY Phases
<1>5. SandboxState'
  BY <1>1, <1>3, <1>4 DEF SandboxState
<1>6. QED
  BY <1>5, KeptHeard

LEMMA RejectStep == ASSUME SandboxInv, Reject PROVE SandboxInv'
<1>1. /\ phase = "called" /\ phase' = "settled" /\ outcome' \in {"MissingArgument", "MainFunctionMissing", "TypeError"}
      /\ directory' = directory /\ process' = process /\ script' = script /\ faults' = faults /\ jailed' = jailed
  BY DEF Reject
<1>2. /\ \A p \in Pipes : written[p] = <<>> /\ unread[p] \in Nat /\ unread[p] <= Len(written[p])
      /\ process = "none" /\ ~directory /\ faults \in 0..MaxFaults
  BY <1>1 DEF SandboxInv, SandboxState, SandboxTypeOK
<1>3. \A p \in Pipes : unread[p] = 0
  <2>1. Len(<<>>) = 0
    OBVIOUS
  <2>2. QED
    BY <1>2, <2>1
<1>4. outcome' \in EarlyErrors
  BY <1>1 DEF EarlyErrors
<1>5. FirstResultDecides' /\ SandboxRemoved'
  BY <1>1, <1>2, <1>4 DEF FirstResultDecides, SandboxRemoved
<1>6. outcome' \in Outcomes /\ outcome' # "none"
  BY <1>4 DEF Outcomes, EarlyErrors
<1>7. QED
  BY <1>1, <1>2, <1>3, <1>5, <1>6, ControlStep, Phases

LEMMA PrepareStep == ASSUME SandboxInv, Prepare PROVE SandboxInv'
<1>1. phase = "called" /\ script' = script /\ jailed' = jailed
  BY DEF Prepare
<1>2. /\ \A p \in Pipes : written[p] = <<>> /\ unread[p] \in Nat /\ unread[p] <= Len(written[p])
      /\ process = "none" /\ faults \in 0..MaxFaults /\ outcome = "none"
  BY <1>1 DEF SandboxInv, SandboxState, SandboxTypeOK
<1>3. \A p \in Pipes : unread[p] = 0
  <2>1. Len(<<>>) = 0
    OBVIOUS
  <2>2. QED
    BY <1>2, <2>1
<1>4. CASE phase' = "install" /\ process' = "running" /\ directory' = TRUE /\ UNCHANGED <<outcome, faults>>
  <2>1. FirstResultDecides' /\ SandboxRemoved'
    BY <1>2, <1>4 DEF FirstResultDecides, SandboxRemoved, Outcomes, EarlyErrors
  <2>2. QED
    BY <1>1, <1>2, <1>4, <2>1, ControlStep, Phases
<1>5. CASE /\ faults < MaxFaults /\ faults' = faults + 1
           /\ phase' = "settled" /\ outcome' = "FileSystem" /\ UNCHANGED process
  <2>1. faults' \in 0..MaxFaults /\ faults' # 0
    BY <1>2, <1>5, BoundsAssumption
  <2>2. FirstResultDecides' /\ SandboxRemoved'
    BY <1>5, <2>1 DEF FirstResultDecides, SandboxRemoved
  <2>3. outcome' \in Outcomes /\ outcome' # "none"
    BY <1>5 DEF Outcomes
  <2>4. QED
    BY <1>1, <1>2, <1>3, <1>5, <2>1, <2>2, <2>3, ControlStep, Phases
<1>6. QED
  BY <1>4, <1>5 DEF Prepare

LEMMA ExitStep == ASSUME SandboxInv, NEW code \in Exits, Exit(code) PROVE SandboxInv'
<1>1. /\ process = "running" /\ process' = code /\ phase' = phase /\ outcome' = outcome
      /\ directory' = directory /\ script' = script /\ faults' = faults /\ jailed' = jailed
  BY DEF Exit
<1>2. Decisive' = Decisive
  BY <1>1, SameScript
<1>3. /\ phase \in {"run", "settled"} \cup DOMAIN Following
      /\ outcome \in Outcomes \cup {"none"} /\ (phase = "settled") = (outcome # "none")
      /\ phase # "settled" => directory
      /\ faults \in 0..MaxFaults
      /\ phase \in DOMAIN Following => \A p \in Pipes : written[p] = <<>>
      /\ phase = "run" => FirstResult(Split(Read("out")).lines) = 0
      /\ ~(phase = "settled" /\ FirstResult(Split(Read("out")).lines) = 0)
  BY <1>1, Phases DEF SandboxInv, SandboxState, SandboxTypeOK
<1>4. FirstResultDecides' /\ SandboxRemoved'
  BY <1>1, <1>2 DEF SandboxInv, SandboxState, FirstResultDecides, SandboxRemoved
<1>5. QED
  BY <1>1, <1>3, <1>4, ControlStep

(* A node that returns what its output says.                               *)
LEMMA ReturnStep ==
    ASSUME SandboxInv, script' = script, jailed' = jailed, NEW result \in Outcomes, Return(result),
           process' = "none", \A p \in Pipes : unread[p] = 0,
           result \in EarlyErrors \/ Fits(result)
    PROVE  SandboxInv'
<1>1. faults \in 0..MaxFaults
  BY DEF SandboxInv, SandboxState, SandboxTypeOK
<1>2. /\ phase' = "settled" /\ faults' \in 0..MaxFaults
      /\ \/ outcome' = result /\ directory' = FALSE
         \/ outcome' \in {"FileSystem", "ParseResult"} /\ faults' > 0
  BY <1>1, Returned
<1>3. outcome' \in Outcomes /\ outcome' # "none"
  BY <1>2 DEF Outcomes, EarlyErrors
<1>4. Decisive' = Decisive
  BY SameScript
<1>5. FirstResultDecides' /\ SandboxRemoved'
  <2>1. faults' # 0 => faults' > 0
    BY <1>2, BoundsAssumption
  <2>2. FirstResultDecides'
    BY <1>2, <1>4 DEF FirstResultDecides, Fits
  <2>3. faults' > 0 => faults' # 0
    BY <1>2, BoundsAssumption
  <2>4. SandboxRemoved'
    BY <1>2, <2>3 DEF SandboxRemoved
  <2>5. QED
    BY <2>2, <2>4
<1>6. QED
  BY <1>2, <1>3, <1>5, ControlStep, Phases

LEMMA ClosePreparationStep == ASSUME SandboxInv, ClosePreparation PROVE SandboxInv'
<1>1. phase \in DOMAIN Following /\ process \in Exits /\ script' = script /\ jailed' = jailed
  BY DEF ClosePreparation
<1>2. /\ \A p \in Pipes : written[p] = <<>> /\ unread[p] \in Nat /\ unread[p] <= Len(written[p])
      /\ faults \in 0..MaxFaults /\ outcome = "none" /\ directory /\ SandboxTypeOK
  BY <1>1, Phases DEF SandboxInv, SandboxState, SandboxTypeOK
<1>3. \A p \in Pipes : unread[p] = 0
  <2>1. Len(<<>>) = 0
    OBVIOUS
  <2>2. QED
    BY <1>2, <2>1
<1>4. FirstResult(Split(Read("out")).lines) = 0
  <2>1. Read("out") = <<>>
    BY <1>2, <1>3, ReadText, TwoPipes
  <2>2. Split(Read("out")).lines = <<>>
    BY <2>1, SplitNone DEF NoText
  <2>3. QED
    BY <2>2, EmptyLines
<1>5. CASE process = "nonzero"
  <2>1. process' = "none" /\ Return(Failure[phase])
    BY <1>5 DEF ClosePreparation
  <2>2. Failure[phase] \in EarlyErrors /\ Failure[phase] \in Outcomes
    BY <1>1, Phases DEF Failure, EarlyErrors, Outcomes
  <2>3. QED
    BY <1>1, <1>3, <2>1, <2>2, ReturnStep
<1>6. CASE process # "nonzero"
  <2>1. process' = "running" /\ phase' = Following[phase] /\ UNCHANGED <<outcome, directory, faults>>
    BY <1>6 DEF ClosePreparation
  <2>2. phase' \in {"compile", "run"}
    BY <1>1, <2>1, Phases DEF Following
  <2>3. FirstResultDecides' /\ SandboxRemoved'
    BY <1>2, <2>1, <2>2 DEF FirstResultDecides, SandboxRemoved, Outcomes, EarlyErrors
  <2>4. QED
    BY <1>1, <1>2, <1>3, <1>4, <2>1, <2>2, <2>3, ControlStep, Phases
<1>7. QED
  BY <1>5, <1>6

LEMMA ParseOutcomes == \A line : Parse(line) \in {"ok", "altered", "NotAnObject", "ParseResult"}
BY DEF Parse

(* The line that is parsed, and the line that decides.                     *)
LEMMA ResultFits ==
    ASSUME NEW line \in Text, Decisive \in Text, Resembles(line, Decisive)
    PROVE  Fits(IF IsResult(line) THEN Parse(line) ELSE "Execution")
<1>1. IsResult(line) <=> IsResult(Decisive)
  BY SameResult
<1>2. CASE IsResult(line)
  <2>1. \/ Parse(line) = Parse(Decisive)
        \/ Parse(line) = "altered" /\ SubSeq(Decisive, 3, Len(Decisive)) = <<"lead", "trail">>
    BY <1>1, <1>2, ParseResembles
  <2>2. QED
    BY <1>1, <1>2, <2>1 DEF Fits
<1>3. CASE ~IsResult(line)
  BY <1>1, <1>3 DEF Fits
<1>4. QED
  BY <1>2, <1>3

LEMMA CloseScriptStep == ASSUME SandboxInv, CloseScript PROVE SandboxInv'
<1>1. /\ phase \notin DOMAIN Following /\ process \in Exits /\ (\A p \in Pipes : unread[p] = 0)
      /\ process' = "none" /\ script' = script /\ jailed' = jailed
  BY DEF CloseScript
<1>2. SandboxTypeOK
  BY DEF SandboxInv, SandboxState
<1>3. CASE phase = "run"
  <2> DEFINE last == buffer["out"]
             result == IF IsResult(last) THEN Parse(last) ELSE "Execution"
  <2>1. Return(result)
    BY <1>3 DEF CloseScript
  <2>2. Read("out") = written["out"] /\ Read("out") \in Text /\ Split(Read("out")).rest \in Text
    BY <1>1, <1>2, ReadText, TwoPipes
  <2>3. FirstResult(Split(Read("out")).lines) = 0
    BY <1>3 DEF SandboxInv, SandboxState
  <2>4. Decisive = Split(Read("out")).rest
    BY <2>2, <2>3 DEF Decisive
  <2>5. last \in Text /\ Resembles(last, Split(Read("out")).rest)
    <3>1. PICK h \in [Pipes -> Text] : Heard(h)
      BY DEF SandboxInv
    <3>2. h["out"] \in Text /\ Resembles(h["out"], Read("out")) /\ last = Split(h["out"]).rest
      BY <3>1, TwoPipes, HeardLines DEF Heard
    <3>3. Split(h["out"]).rest \in Text
      BY TwoPipes, HeardLines
    <3>4. QED
      BY <2>2, <3>2, <3>3, SplitResembles
  <2>6. result \in Outcomes
    BY ParseOutcomes DEF Outcomes
  <2> HIDE DEF last
  <2>7. Fits(result)
    BY <2>2, <2>4, <2>5, ResultFits
  <2> HIDE DEF result
  <2>8. QED
    BY <1>1, <2>1, <2>6, <2>7, ReturnStep
<1>4. CASE phase # "run"
  <2>1. phase' = phase /\ outcome' = outcome /\ directory' = directory /\ faults' = faults
    BY <1>4 DEF CloseScript
  <2>2. phase = "settled"
    <3>1. phase # "called"
      BY <1>1 DEF SandboxInv, SandboxState, Exits
    <3>2. QED
      BY <1>1, <1>2, <1>4, <3>1 DEF SandboxTypeOK
  <2>3. Decisive' = Decisive
    BY <1>1, SameScript
  <2>4. FirstResultDecides' /\ SandboxRemoved'
    BY <2>1, <2>3 DEF SandboxInv, SandboxState, FirstResultDecides, SandboxRemoved
  <2>5. outcome \in Outcomes \cup {"none"} /\ (phase = "settled") = (outcome # "none") /\ faults \in 0..MaxFaults
    BY <1>2 DEF SandboxTypeOK
  <2>6. QED
    BY <1>1, <2>1, <2>2, <2>4, <2>5, ControlStep, Phases
<1>5. QED
  BY <1>3, <1>4

LEMMA CutMore ==
    ASSUME NEW S, NEW w \in Seq(S), NEW t \in Seq(S), NEW n \in 0..Len(w)
    PROVE  SubSeq(w \o t, 1, n) = SubSeq(w, 1, n)
<1> DEFINE more == w \o t
           p == SubSeq(w, 1, n)
           q == SubSeq(more, 1, n)
<1>1. more \in Seq(S) /\ Len(more) = Len(w) + Len(t) /\ \A i \in 1..Len(w) : more[i] = w[i]
  BY ConcatProperties
<1>2. Len(w) \in Nat /\ Len(t) \in Nat /\ n \in Nat /\ n <= Len(w)
  OBVIOUS
<1> HIDE DEF more
<1>3. p \in Seq(S) /\ Len(p) = n /\ \A i \in 1..n : p[i] = w[i]
  BY <1>2, SubSeqProperties
<1>4. q \in Seq(S) /\ Len(q) = n /\ \A i \in 1..n : q[i] = more[i]
  BY <1>1, <1>2, SubSeqProperties
<1> HIDE DEF p, q
<1>5. \A i \in 1..Len(q) : q[i] = p[i]
  BY <1>1, <1>2, <1>3, <1>4, SMTT(30)
<1>6. q = p
  BY <1>3, <1>4, <1>5, SeqEqual
<1>7. QED
  BY <1>6 DEF more, p, q

(* Once the node has returned, what the script writes changes nothing.     *)
LEMMA PutStep ==
    ASSUME SandboxInv, NEW pipe \in Pipes, NEW tokens \in Seq(Tokens), Put(pipe, tokens),
           process' \in {"running", "signal"}
    PROVE  SandboxInv'
<1>1. /\ process = "running" /\ phase \notin DOMAIN Following
      /\ written' = [written EXCEPT ![pipe] = @ \o tokens]
      /\ unread' = [unread EXCEPT ![pipe] = @ + Len(tokens)]
      /\ phase' = phase /\ outcome' = outcome /\ directory' = directory
      /\ buffer' = buffer /\ logs' = logs /\ faults' = faults /\ jailed' = jailed
  BY DEF Put
<1>2. SandboxTypeOK /\ written \in [Pipes -> Seq(Tokens)] /\ unread \in [Pipes -> Nat]
  BY DEF SandboxInv, SandboxState, SandboxTypeOK
<1> DEFINE w == written[pipe]
           n == Len(w) - unread[pipe]
           more == w \o tokens
<1>3. w \in Seq(Tokens) /\ Len(w) \in Nat /\ unread[pipe] \in Nat /\ unread[pipe] <= Len(w) /\ n \in 0..Len(w)
  BY <1>2, ReadText
<1>4. more \in Seq(Tokens) /\ Len(more) = Len(w) + Len(tokens) /\ Len(tokens) \in Nat
  BY <1>3, ConcatProperties
<1>5. /\ written'[pipe] = more /\ unread'[pipe] = unread[pipe] + Len(tokens)
      /\ \A q \in Pipes : q # pipe => written'[q] = written[q] /\ unread'[q] = unread[q]
  BY <1>1, <1>2
<1>6. SubSeq(more, 1, n) = SubSeq(w, 1, n)
  BY <1>3, CutMore
<1> HIDE DEF more, w
<1>7. Len(more) - unread'[pipe] = n /\ unread'[pipe] \in Nat /\ unread'[pipe] <= Len(more) /\ n \in 0..Len(more)
  BY <1>3, <1>4, <1>5
<1>8. ASSUME NEW q \in Pipes PROVE Read(q)' = Read(q)
  <2>1. CASE q = pipe
    BY <1>5, <1>6, <1>7, <2>1 DEF Read, w
  <2>2. CASE q # pipe
    BY <1>5, <2>2 DEF Read
  <2>3. QED
    BY <2>1, <2>2
<1>9. phase \in {"run", "settled"}
  <2>1. phase # "called"
    BY <1>1 DEF SandboxInv, SandboxState
  <2>2. QED
    BY <1>1, <1>2, <2>1 DEF SandboxTypeOK
<1>10. SandboxTypeOK'
  <2>1. written' \in [Pipes -> Seq(Tokens)] /\ unread' \in [Pipes -> Nat]
    BY <1>1, <1>2, <1>4, <1>7 DEF more, w
  <2>2. \A q \in Pipes : unread'[q] <= Len(written'[q])
    BY <1>2, <1>5, <1>7 DEF SandboxTypeOK
  <2>3. process' \in {"none", "running"} \cup Exits
    BY DEF Exits
  <2> HIDE DEF n
  <2>4. QED
    BY <1>1, <1>2, <2>1, <2>2, <2>3 DEF SandboxTypeOK
<1> DEFINE lines == Split(Read("out")).lines
<1>11. /\ Read("out")' = Read("out")
       /\ phase = "run" => FirstResult(lines) = 0
       /\ phase = "settled" => FirstResult(lines) # 0
  BY <1>1, <1>8, TwoPipes DEF SandboxInv, SandboxState
<1>12. FirstResultDecides'
  <2>1. CASE phase = "run"
    <3>1. outcome' = "none"
      BY <1>1, <1>2, <2>1 DEF SandboxTypeOK
    <3>2. QED
      BY <3>1 DEF FirstResultDecides, Outcomes, EarlyErrors
  <2>2. CASE phase = "settled"
    <3> DEFINE u == written["out"]
               v == written'["out"]
               old == Split(u).lines
               new == Split(v).lines
               k == Len(u) - unread["out"]
               j == Len(v) - unread'["out"]
    <3>1. FirstResult(lines) # 0
      BY <1>11, <2>2
    <3>2. u \in Text /\ k \in 0..Len(u) /\ Read("out") = SubSeq(u, 1, k)
      BY <1>2, ReadText, TwoPipes, TokensSound DEF Read
    <3>3. v \in Text /\ j \in 0..Len(v) /\ Read("out") = SubSeq(v, 1, j)
      <4>1. v \in Seq(Tokens) /\ unread'["out"] \in Nat /\ unread'["out"] <= Len(v)
        BY <1>10, TwoPipes DEF SandboxTypeOK
      <4>2. Read("out")' = SubSeq(v, 1, j)
        BY DEF Read
      <4>3. j \in 0..Len(v)
        <5>1. Len(v) \in Nat
          BY <4>1
        <5> HIDE DEF v
        <5>2. QED
          BY <4>1, <5>1
      <4>4. QED
        BY <1>11, <4>1, <4>2, <4>3, TokensSound
    <3> HIDE DEF u, v, k, j
    <3>4. FirstResult(old) = FirstResult(lines) /\ old[FirstResult(old)] = lines[FirstResult(lines)]
      BY <3>1, <3>2, ReadDecides DEF Text
    <3>5. FirstResult(new) = FirstResult(lines) /\ new[FirstResult(new)] = lines[FirstResult(lines)]
      BY <3>1, <3>3, ReadDecides DEF Text
    <3>6. Decisive = old[FirstResult(old)] /\ Decisive' = new[FirstResult(new)]
      BY <3>1, <3>4, <3>5 DEF Decisive, u, v
    <3>7. Decisive' = Decisive
      BY <3>4, <3>5, <3>6
    <3>8. QED
      BY <1>1, <3>7 DEF SandboxInv, SandboxState, FirstResultDecides
  <2>3. QED
    BY <1>9, <2>1, <2>2
<1>13. SandboxRemoved'
  BY <1>1 DEF SandboxInv, SandboxState, SandboxRemoved
<1>14. SandboxState'
  <2>1. phase' \notin {"called"} \cup DOMAIN Following
    BY <1>1, <1>9
  <2>2. /\ phase' = "run" => FirstResult(Split(Read("out"))'.lines) = 0
        /\ ~(phase' = "settled" /\ FirstResult(Split(Read("out"))'.lines) = 0)
    BY <1>1, <1>11
  <2> HIDE DEF lines, n
  <2>3. QED
    BY <1>10, <1>12, <1>13, <2>1, <2>2 DEF SandboxState
<1>15. PICK h \in [Pipes -> Text] : Heard(h)
  BY DEF SandboxInv
<1>16. Heard(h)'
  BY <1>1, <1>8, <1>15 DEF Heard
<1>17. QED
  BY <1>14, <1>16 DEF SandboxInv

LEMMA CharactersAre == \A c \in Characters : c \in Seq(Tokens) /\ <<Head(c)>> \in Seq(Tokens)
<1>1. SUFFICES ASSUME NEW c \in Characters PROVE c \in Seq(Tokens) /\ Head(c) \in Tokens
  OBVIOUS
<1>2. \A a, b \in Tokens : /\ <<a>> \in Seq(Tokens) /\ Head(<<a>>) = a
                           /\ <<a, b>> \in Seq(Tokens) /\ Head(<<a, b>>) = a
  OBVIOUS
<1>3. /\ "nl" \in Tokens /\ "__FUNCTION" \in Tokens /\ "_RESULT__" \in Tokens /\ "object" \in Tokens
      /\ "null" \in Tokens /\ "lead" \in Tokens /\ "trail" \in Tokens
  BY DEF Tokens
<1>4. c \in {<<"nl">>, <<"__FUNCTION", "_RESULT__">>, <<"object">>, <<"null">>, <<"lead", "trail">>}
  BY DEF Characters
<1>5. \E a, b \in Tokens : c = <<a>> \/ c = <<a, b>>
  BY <1>3, <1>4, Zenon
<1>6. QED
  BY <1>2, <1>5

LEMMA WriteStep ==
    ASSUME SandboxInv, NEW pipe \in Pipes, NEW c \in Characters, Write(pipe, c) \/ Die(pipe, c)
    PROVE  SandboxInv'
<1>1. c \in Seq(Tokens) /\ <<Head(c)>> \in Seq(Tokens)
  BY CharactersAre
<1>2. CASE Write(pipe, c)
  <2>1. Put(pipe, c) /\ process' = process
    BY <1>2 DEF Write
  <2>2. process = "running"
    BY <2>1 DEF Put
  <2>3. QED
    BY <1>1, <2>1, <2>2, PutStep
<1>3. CASE Die(pipe, c)
  <2>1. Put(pipe, <<Head(c)>>) /\ process' = "signal"
    BY <1>3 DEF Die
  <2>2. QED
    BY <1>1, <2>1, PutStep
<1>4. QED
  BY <1>2, <1>3

(* A chunk of a pipe is read, and nothing else of either pipe.             *)
LEMMA PieceRead ==
    ASSUME SandboxTypeOK, NEW p \in Pipes, NEW size \in 1..unread[p],
           written' = written, unread' = [unread EXCEPT ![p] = @ - size]
    PROVE  /\ Piece(p, size) \in Text /\ Read(p)' \in Text
           /\ \A s \in Text : Resembles(s, Read(p)) => Resembles(s \o Piece(p, size), Read(p)')
           /\ \A q \in Pipes : q # p => Read(q)' = Read(q) /\ unread'[q] = unread[q]
           /\ unread' \in [Pipes -> Nat] /\ \A q \in Pipes : unread'[q] <= Len(written[q])
           /\ \E n \in 0..Len(written[p]) : Read(p)' = SubSeq(written[p], 1, n)
<1> DEFINE w == written[p]
           n == Len(w) - unread[p]
           chunk == SubSeq(w, n + 1, n + size)
<1>1. /\ w \in Seq(Tokens) /\ Len(w) \in Nat /\ unread[p] \in Nat /\ unread[p] <= Len(w)
      /\ n \in 0..Len(w) /\ Read(p) \in Text
  BY ReadText
<1>2. unread \in [Pipes -> Nat] /\ \A q \in Pipes : unread[q] <= Len(written[q])
  BY DEF SandboxTypeOK
<1>3. unread'[p] = unread[p] - size /\ \A q \in Pipes : q # p => unread'[q] = unread[q]
  BY <1>2
<1> HIDE DEF w
<1>4. /\ unread'[p] \in Nat /\ unread'[p] <= Len(w) /\ Len(w) - unread'[p] = n + size
      /\ size \in Nat /\ n \in Nat /\ n <= n + size /\ n + size <= Len(w) /\ n + size \in 0..Len(w)
      /\ n + size \in Nat
  BY <1>1, <1>3
<1>5. unread' \in [Pipes -> Nat] /\ \A q \in Pipes : unread'[q] <= Len(written[q])
  BY <1>2, <1>3, <1>4 DEF w
<1>6. \A q \in Pipes : q # p => Read(q)' = Read(q)
  BY <1>3 DEF Read
<1> HIDE DEF n
<1>7. /\ SubSeq(w, 1, n) \in Seq(Tokens) /\ chunk \in Seq(Tokens)
      /\ SubSeq(w, 1, n + size) = SubSeq(w, 1, n) \o chunk
  <2>1. \A i, j \in Nat : i <= j /\ j <= Len(w) =>
           /\ SubSeq(w, 1, i) \in Seq(Tokens) /\ SubSeq(w, i + 1, j) \in Seq(Tokens)
           /\ SubSeq(w, 1, j) = SubSeq(w, 1, i) \o SubSeq(w, i + 1, j)
    BY <1>1, Cut
  <2>2. QED
    BY <1>4, <2>1
<1>8. Piece(p, size) = Decode(chunk)
  BY DEF Piece, w, n
<1>9. Read(p) = SubSeq(w, 1, n) /\ Read(p)' = SubSeq(w, 1, n + size)
  BY <1>4 DEF Read, w, n
<1> HIDE DEF chunk
<1>10. Read(p)' = Read(p) \o chunk /\ chunk \in Text
  BY <1>7, <1>9, TokensSound
<1>11. Piece(p, size) \in Text /\ Resembles(Piece(p, size), chunk)
  BY <1>7, <1>8, DecodeResembles
<1>12. Read(p)' \in Text
  <2>1. SubSeq(w, 1, n + size) \in Seq(Tokens)
    BY <1>1, <1>4, Cut
  <2>2. QED
    BY <1>9, <2>1, TokensSound
<1>13. \A s \in Text : Resembles(s, Read(p)) => Resembles(s \o Piece(p, size), Read(p)')
  BY <1>1, <1>10, <1>11, ResemblesConcat
<1>14. QED
  BY <1>3, <1>4, <1>5, <1>6, <1>9, <1>11, <1>12, <1>13 DEF w

(* The chunk follows what has come before.                                 *)
Grows(g, h, p, size) ==
    /\ \A q \in Pipes : q # p => g[q] = h[q]
    /\ \A q \in Pipes : Resembles(g[q], Read(q)') /\ buffer'[q] = Split(g[q]).rest
    /\ Split(g[p]).lines = Split(h[p]).lines \o Received(p, size).lines

LEMMA HeardChunk ==
    ASSUME SandboxTypeOK, NEW p \in Pipes, NEW size \in 1..unread[p],
           written' = written, unread' = [unread EXCEPT ![p] = @ - size],
           buffer' = [buffer EXCEPT ![p] = Received(p, size).rest],
           NEW h \in [Pipes -> Text], Heard(h)
    PROVE  /\ Received(p, size).lines \in Lines /\ buffer' \in [Pipes -> Text]
           /\ \E g \in [Pipes -> Text] : Grows(g, h, p, size)
<1> DEFINE piece == Piece(p, size)
           g == [h EXCEPT ![p] = @ \o piece]
           text == Received(p, size)
<1>1. /\ piece \in Text /\ Read(p)' \in Text
      /\ \A s \in Text : Resembles(s, Read(p)) => Resembles(s \o piece, Read(p)')
      /\ \A q \in Pipes : q # p => Read(q)' = Read(q)
  BY PieceRead
<1>2. h[p] \in Text /\ Split(h[p]) \in Texts /\ Split(h[p]).rest \in Text
  BY HeardLines
<1>3. \A q \in Pipes : Resembles(h[q], Read(q)) /\ buffer[q] = Split(h[q]).rest
  BY DEF Heard
<1>4. buffer \in [Pipes -> Text]
  BY DEF SandboxTypeOK
<1>5. text = Split(Split(h[p]).rest \o piece)
  BY <1>3 DEF Received
<1> HIDE DEF piece
<1>6. h[p] \o piece \in Text /\ Split(h[p]).rest \o piece \in Text
  BY <1>1, <1>2, ConcatProperties DEF Text
<1>7. /\ Split(h[p] \o piece).lines = Split(h[p]).lines \o Split(Split(h[p]).rest \o piece).lines
      /\ Split(h[p] \o piece).rest = Split(Split(h[p]).rest \o piece).rest
  BY <1>1, <1>2, SplitParts DEF Text
<1>8. text.lines \in Lines /\ text.rest \in Text
  BY <1>5, <1>6, SplitText DEF Text, Texts, Lines
<1>9. g \in [Pipes -> Text] /\ g[p] = h[p] \o piece /\ \A q \in Pipes : q # p => g[q] = h[q]
  BY <1>6
<1>10. /\ buffer' \in [Pipes -> Text] /\ buffer'[p] = text.rest
       /\ \A q \in Pipes : q # p => buffer'[q] = buffer[q]
  BY <1>4, <1>8
<1> HIDE DEF g, text
<1>11. ASSUME NEW q \in Pipes PROVE Resembles(g[q], Read(q)') /\ buffer'[q] = Split(g[q]).rest
  <2>1. CASE q = p
    <3>1. Resembles(g[q], Read(q)')
      BY <1>1, <1>2, <1>3, <1>9, <2>1
    <3>2. buffer'[q] = Split(g[q]).rest
      BY <1>5, <1>7, <1>9, <1>10, <2>1
    <3>3. QED
      BY <3>1, <3>2
  <2>2. CASE q # p
    BY <1>1, <1>3, <1>9, <1>10, <2>2
  <2>3. QED
    BY <2>1, <2>2
<1>12. Split(g[p]).lines = Split(h[p]).lines \o text.lines
  BY <1>5, <1>7, <1>9
<1>13. QED
  BY <1>8, <1>9, <1>10, <1>11, <1>12 DEF text, Grows

(* Nothing is there to be read before the script runs.                     *)
LEMMA ScriptRan ==
    ASSUME SandboxState, NEW p \in Pipes, NEW size \in 1..unread[p]
    PROVE  /\ phase \in {"run", "settled"}
           /\ phase = "settled" => FirstResult(Split(Read("out")).lines) # 0
<1>1. SandboxTypeOK /\ unread[p] \in Nat /\ unread[p] <= Len(written[p]) /\ unread[p] # 0
  <2>1. SandboxTypeOK
    BY DEF SandboxState
  <2>2. QED
    BY <2>1, ReadText
<1>2. written[p] # <<>>
  <2>1. written[p] = <<>> => Len(written[p]) = 0
    OBVIOUS
  <2>2. QED
    BY <1>1, <2>1
<1>3. phase \notin {"called"} \cup DOMAIN Following
  BY <1>2 DEF SandboxState
<1>4. phase \in {"run", "settled"}
  BY <1>1, <1>3 DEF SandboxTypeOK
<1>5. QED
  BY <1>1, <1>4 DEF SandboxState

(* A chunk of stderr is read.                                              *)
LEMMA DataErrStep == ASSUME SandboxInv, NEW size \in 1..unread["err"], DataErr(size) PROVE SandboxInv'
<1> DEFINE lines == Received("err", size).lines
<1>1. /\ unread' = [unread EXCEPT !["err"] = @ - size]
      /\ buffer' = [buffer EXCEPT !["err"] = Received("err", size).rest]
      /\ logs' = [logs EXCEPT !["err"] = @ \o lines]
      /\ process' = process /\ written' = written /\ jailed' = jailed
      /\ phase' = phase /\ outcome' = outcome /\ directory' = directory /\ faults' = faults
  BY DEF DataErr, Log
<1>2. SandboxState /\ SandboxTypeOK
  BY DEF SandboxInv, SandboxState
<1>3. PICK h \in [Pipes -> Text] : Heard(h)
  BY DEF SandboxInv
<1>4. /\ lines \in Lines /\ buffer' \in [Pipes -> Text]
      /\ \E g \in [Pipes -> Text] : Grows(g, h, "err", size)
  BY <1>1, <1>2, <1>3, HeardChunk, TwoPipes
<1> HIDE DEF lines
<1>0. PICK g \in [Pipes -> Text] :
            /\ \A q \in Pipes : q # "err" => g[q] = h[q]
            /\ \A q \in Pipes : Resembles(g[q], Read(q)') /\ buffer'[q] = Split(g[q]).rest
            /\ Split(g["err"]).lines = Split(h["err"]).lines \o lines
  BY <1>4 DEF Grows, lines
<1>5. /\ Read("out")' = Read("out") /\ unread' \in [Pipes -> Nat]
      /\ \A q \in Pipes : unread'[q] <= Len(written[q])
  BY <1>1, <1>2, PieceRead, TwoPipes
<1>6. logs \in [Pipes -> Seq(Text)] /\ Lines = Seq(Text)
  BY <1>2 DEF SandboxTypeOK, Lines, Text
<1>7. /\ logs' \in [Pipes -> Seq(Text)] /\ logs'["out"] = logs["out"]
      /\ logs'["err"] = logs["err"] \o lines
  <2>1. logs["err"] \o lines \in Lines
    BY <1>4, <1>6, FirstConcat, TwoPipes
  <2>2. QED
    BY <1>1, <1>6, <2>1, TwoPipes
<1>8. Heard(g)'
  <2>1. /\ IsPrefix(Before(Split(h["out"]).lines), logs["out"])
        /\ FirstResult(Split(h["out"]).lines) = 0 => logs["out"] = Split(h["out"]).lines
        /\ FirstResult(logs["out"]) = 0 /\ logs["err"] = Split(h["err"]).lines
    BY <1>3 DEF Heard
  <2>2. QED
    BY <1>0, <1>7, <2>1, TwoPipes DEF Heard
<1>9. phase \in {"run", "settled"} /\ (phase = "settled" => FirstResult(Split(Read("out")).lines) # 0)
  BY <1>2, ScriptRan, TwoPipes
<1>10. SandboxTypeOK'
  BY <1>1, <1>2, <1>4, <1>5, <1>7 DEF SandboxTypeOK
<1>11. FirstResultDecides' /\ SandboxRemoved'
  <2>1. Decisive' = Decisive
    BY <1>1 DEF Decisive
  <2>2. QED
    BY <1>1, <1>2, <2>1 DEF SandboxState, FirstResultDecides, SandboxRemoved
<1>12. SandboxState'
  <2>1. phase = "run" => FirstResult(Split(Read("out")).lines) = 0
    BY <1>2 DEF SandboxState
  <2>2. phase' \notin {"called"} \cup DOMAIN Following
    BY <1>1, <1>9, Phases
  <2>3. Split(Read("out"))' = Split(Read("out"))
    BY <1>5
  <2>4. QED
    BY <1>1, <1>9, <1>10, <1>11, <2>1, <2>2, <2>3 DEF SandboxState
<1>13. QED
  BY <1>0, <1>8, <1>12 DEF SandboxInv

(* A chunk of stdout is read: its lines follow those that were read before. *)
LEMMA DataOutStep == ASSUME SandboxInv, NEW size \in 1..unread["out"], DataOut(size) PROVE SandboxInv'
<1> DEFINE lines == Received("out", size).lines
           first == FirstResult(lines)
<1>1. /\ unread' = [unread EXCEPT !["out"] = @ - size]
      /\ buffer' = [buffer EXCEPT !["out"] = Received("out", size).rest]
      /\ logs' = [logs EXCEPT !["out"] = @ \o Before(lines)]
      /\ process' = process /\ written' = written /\ jailed' = jailed
      /\ (first # 0 /\ phase = "run" => Return(Parse(lines[first])))
      /\ (~(first # 0 /\ phase = "run") => UNCHANGED <<phase, outcome, directory, faults>>)
  BY DEF DataOut, Log
<1>2. SandboxState /\ SandboxTypeOK
  BY DEF SandboxInv, SandboxState
<1>3. PICK h \in [Pipes -> Text] : Heard(h)
  BY DEF SandboxInv
<1> DEFINE known == Split(h["out"]).lines
           all == known \o lines
           real == Split(Read("out"))'.lines
<1>0. /\ lines \in Lines /\ buffer' \in [Pipes -> Text]
      /\ \E g \in [Pipes -> Text] : Grows(g, h, "out", size)
  BY <1>1, <1>2, <1>3, HeardChunk, TwoPipes
<1> HIDE DEF lines
<1>4. PICK g \in [Pipes -> Text] :
            /\ \A q \in Pipes : q # "out" => g[q] = h[q]
            /\ \A q \in Pipes : Resembles(g[q], Read(q)') /\ buffer'[q] = Split(g[q]).rest
            /\ Split(g["out"]).lines = all
  BY <1>0 DEF Grows, lines
<1>5. /\ Read("out")' \in Text /\ unread' \in [Pipes -> Nat]
      /\ \A q \in Pipes : unread'[q] <= Len(written[q])
      /\ \E n \in 0..Len(written["out"]) : Read("out")' = SubSeq(written["out"], 1, n)
  BY <1>1, <1>2, PieceRead, TwoPipes
<1>6. known \in Lines /\ g["out"] \in Text /\ real \in Lines
  <2>1. known \in Lines /\ g["out"] \in Text
    BY <1>0, <1>4, HeardLines, TwoPipes
  <2> HIDE DEF known
  <2>2. real \in Lines
    BY <1>5, SplitText DEF Text, Texts, Lines
  <2>3. QED
    BY <2>1, <2>2
<1>7. /\ all \in Lines
      /\ FirstResult(known) # 0 => FirstResult(all) = FirstResult(known)
      /\ FirstResult(known) = 0 /\ first # 0 =>
            FirstResult(all) = Len(known) + first /\ all[Len(known) + first] = lines[first]
      /\ FirstResult(known) = 0 /\ first = 0 => FirstResult(all) = 0
  BY <1>0, <1>4, <1>6, FirstConcat
<1>8. SameLines(all, real) /\ FirstResult(all) = FirstResult(real)
  <2>1. SameLines(all, real)
    BY <1>0, <1>4, <1>5, <1>6, SplitResembles, TwoPipes
  <2> HIDE DEF all, real
  <2>2. QED
    BY <1>6, <1>7, <2>1, SameFirst
<1>9. FirstResult(known) = FirstResult(Split(Read("out")).lines)
  <2>1. h["out"] \in Text /\ Read("out") \in Text /\ Resembles(h["out"], Read("out"))
    BY <1>2, <1>3, HeardLines, ReadText, TwoPipes DEF Heard
  <2>2. SameLines(known, Split(Read("out")).lines) /\ Split(Read("out")).lines \in Lines
    BY <1>2, <2>1, SplitResembles, ReadText, TwoPipes
  <2>3. QED
    BY <1>6, <2>2, SameFirst
<1> HIDE DEF known, real
<1>10. /\ phase \in {"run", "settled"} /\ (phase = "settled" => FirstResult(known) # 0)
       /\ phase = "run" => FirstResult(known) = 0
  BY <1>2, <1>9, ScriptRan, TwoPipes DEF SandboxState
<1>11. logs \in [Pipes -> Lines] /\ Lines = Seq(Text)
  BY <1>2 DEF SandboxTypeOK, Lines, Text
<1> DEFINE before == Before(lines)
           log == logs["out"]
<1>12. before \in Lines /\ FirstResult(before) = 0 /\ log \in Lines
  BY <1>0, <1>4, <1>11, BeforeNone, TwoPipes
<1>13. /\ IsPrefix(Before(known), log) /\ (FirstResult(known) = 0 => log = known)
       /\ FirstResult(log) = 0 /\ logs["err"] = Split(h["err"]).lines
  BY <1>3 DEF Heard, known
<1>14. log \o before \in Lines /\ FirstResult(log \o before) = 0
  <2> HIDE DEF log, before
  <2>1. QED
    BY <1>12, <1>13, FirstConcat
<1>15. /\ logs' \in [Pipes -> Lines] /\ logs'["err"] = logs["err"]
       /\ logs'["out"] = log \o before
  BY <1>1, <1>11, <1>14, TwoPipes
<1>16. IsPrefix(Before(all), log \o before) /\ (FirstResult(all) = 0 => log \o before = all)
  <2> HIDE DEF log
  <2>1. CASE FirstResult(known) # 0
    <3>1. Before(all) = Before(known) /\ FirstResult(all) # 0 /\ Before(known) \in Lines
      BY <1>0, <1>4, <1>6, <1>7, <2>1, BeforeConcat, BeforeNone
    <3> HIDE DEF before, all
    <3>2. IsPrefix(Before(known), log \o before)
      BY <1>12, <1>13, <3>1, PrefixConcat
    <3>3. QED
      BY <3>1, <3>2
  <2>2. CASE FirstResult(known) = 0
    <3>1. Before(all) = known \o before
      BY <1>0, <1>4, <1>6, <2>2, BeforeConcat
    <3>2. log \o before = Before(all)
      BY <1>13, <2>2, <3>1, Zenon
    <3> DEFINE both == log \o before
    <3>3. IsPrefix(both, both)
      <4> DEFINE S == Seq(Sounds)
      <4>1. both \in Seq(S)
        BY <1>14 DEF Lines
      <4> HIDE DEF S, both
      <4>2. Len(both) \in Nat
        BY <4>1
      <4>3. QED
        BY <4>2 DEF IsPrefix
    <3>4. FirstResult(all) = 0 => Before(all) = all
      BY DEF Before
    <3> HIDE DEF all, before
    <3>5. QED
      BY <3>2, <3>3, <3>4
  <2>3. QED
    BY <2>1, <2>2
<1> HIDE DEF all, before, log
<1>17. Heard(g)'
  <2>1. Split(g["out"]).lines = all
    BY <1>0, <1>4
  <2>2. QED
    BY <1>4, <1>13, <1>14, <1>15, <1>16, <2>1, TwoPipes DEF Heard
<1>18. Decisive' = Decisive
  BY <1>1 DEF Decisive
<1>19. FirstResult(real) # 0 => Decisive = real[FirstResult(real)]
  <2>1. PICK n \in 0..Len(written["out"]) : Read("out")' = SubSeq(written["out"], 1, n)
    BY <1>5
  <2>2. real = Split(SubSeq(written["out"], 1, n)).lines
    BY <2>1 DEF real
  <2> DEFINE w == written["out"]
             end == Split(w).lines
  <2>3. w \in Seq(Sounds)
    BY <1>2, ReadText, TwoPipes, TokensSound
  <2> HIDE DEF w
  <2>4. ASSUME FirstResult(real) # 0
        PROVE  FirstResult(end) = FirstResult(real) /\ end[FirstResult(end)] = real[FirstResult(real)]
    BY <2>2, <2>3, <2>4, ReadDecides DEF w
  <2>5. QED
    BY <2>4 DEF Decisive, w
<1>20. phase' \in {"run", "settled"} => phase' \notin {"called"} \cup DOMAIN Following
  BY Phases
<1>21. CASE first # 0 /\ phase = "run"
  <2> DEFINE line == lines[first]
             f == FirstResult(real)
             result == Parse(line)
  <2>1. first \in 1..Len(lines) /\ IsResult(line) /\ Len(known) \in Nat /\ Len(lines) \in Nat
    BY <1>0, <1>4, <1>6, <1>21, FirstIs DEF Lines
  <2>2. line \in Text
    BY <1>0, <1>4, <2>1 DEF Lines, Text
  <2> HIDE DEF first
  <2>3. FirstResult(all) # 0 /\ all[FirstResult(all)] = line
    BY <1>7, <1>10, <1>21, <2>1
  <2>4. f \in 1..Len(real) /\ real[f] \in Text /\ Resembles(line, real[f])
    <3>1. f \in 1..Len(real)
      BY <1>6, <1>8, <2>3, FirstIs DEF Lines
    <3>2. \A i \in 1..Len(real) : Resembles(all[i], real[i]) /\ real[i] \in Text
      BY <1>6, <1>8 DEF SameLines, Lines, Text
    <3>3. QED
      BY <1>8, <2>3, <3>1, <3>2
  <2>5. Decisive = real[f]
    BY <1>8, <1>19, <2>3
  <2>6. result \in {"ok", "altered", "NotAnObject", "ParseResult"}
    BY ParseOutcomes
  <2>7. Return(result)
    BY <1>1, <1>21 DEF first
  <2> HIDE DEF line
  <2>8. Fits(result)
    <3>1. Fits(IF IsResult(line) THEN Parse(line) ELSE "Execution")
      BY <2>2, <2>4, <2>5, ResultFits DEF line
    <3>2. QED
      BY <2>1, <3>1
  <2> HIDE DEF result
  <2>9. /\ phase' = "settled" /\ faults' \in 0..MaxFaults
        /\ \/ outcome' = result /\ directory' = FALSE
           \/ outcome' \in {"FileSystem", "ParseResult"} /\ faults' > 0
    <3>1. faults \in 0..MaxFaults
      BY <1>2 DEF SandboxTypeOK
    <3>2. QED
      BY <2>7, <3>1, Returned
  <2>10. FirstResultDecides'
    BY <1>18, <2>8, <2>9 DEF FirstResultDecides, Fits
  <2>11. SandboxRemoved'
    <3>1. faults' > 0 => faults' # 0
      BY <2>9, BoundsAssumption
    <3>2. QED
      BY <2>9, <3>1 DEF SandboxRemoved
  <2>12. outcome' \in Outcomes /\ outcome' # "none"
    BY <2>6, <2>9 DEF Outcomes, EarlyErrors
  <2>13. SandboxTypeOK'
    BY <1>1, <1>2, <1>0, <1>4, <1>5, <1>11, <1>15, <2>9, <2>12, Phases DEF SandboxTypeOK
  <2>14. SandboxState'
    BY <1>8, <1>20, <2>3, <2>9, <2>10, <2>11, <2>13 DEF SandboxState, real
  <2>15. QED
    BY <1>0, <1>4, <1>17, <2>14 DEF SandboxInv
<1>22. CASE ~(first # 0 /\ phase = "run")
  <2>1. phase' = phase /\ outcome' = outcome /\ directory' = directory /\ faults' = faults
    BY <1>1, <1>22
  <2>2. FirstResultDecides' /\ SandboxRemoved'
    BY <1>2, <1>18, <2>1 DEF SandboxState, FirstResultDecides, SandboxRemoved
  <2>3. SandboxTypeOK'
    BY <1>1, <1>2, <1>0, <1>4, <1>5, <1>11, <1>15, <2>1 DEF SandboxTypeOK
  <2>4. /\ phase' = "run" => FirstResult(real) = 0
        /\ phase' = "settled" => FirstResult(real) # 0
    BY <1>7, <1>8, <1>10, <1>22, <2>1
  <2>5. SandboxState'
    BY <1>10, <1>20, <2>1, <2>2, <2>3, <2>4 DEF SandboxState, real
  <2>6. QED
    BY <1>0, <1>4, <1>17, <2>5 DEF SandboxInv
<1>23. QED
  BY <1>21, <1>22

LEMMA SandboxStep == ASSUME SandboxInv, SandboxNext PROVE SandboxInv'
<1>1. CASE Reject
  BY <1>1, RejectStep
<1>2. CASE Prepare
  BY <1>2, PrepareStep
<1>3. CASE \E size \in 1..unread["out"] : DataOut(size)
  BY <1>3, DataOutStep
<1>4. CASE \E size \in 1..unread["err"] : DataErr(size)
  BY <1>4, DataErrStep
<1>5. CASE ClosePreparation
  BY <1>5, ClosePreparationStep
<1>6. CASE CloseScript
  BY <1>6, CloseScriptStep
<1>7. CASE \E pipe \in Pipes, c \in Characters : Write(pipe, c) \/ Die(pipe, c)
  BY <1>7, WriteStep
<1>8. CASE \E code \in Exits : Exit(code)
  BY <1>8, ExitStep
<1>9. QED
  BY <1>1, <1>2, <1>3, <1>4, <1>5, <1>6, <1>7, <1>8 DEF SandboxNext, SandboxRunner

(* Nodes of the other kinds share nothing with the sandbox.                *)
LEMMA SandboxKept == ASSUME SandboxInv, UNCHANGED sandboxVars PROVE SandboxInv'
<1>1. /\ phase' = phase /\ outcome' = outcome /\ directory' = directory /\ process' = process
      /\ written' = written /\ unread' = unread /\ buffer' = buffer /\ logs' = logs /\ faults' = faults
      /\ jailed' = jailed /\ script' = script
  BY DEF sandboxVars, script
<1>2. Read("out")' = Read("out") /\ Decisive' = Decisive
  BY <1>1 DEF Read, Decisive
<1>3. SandboxTypeOK'
  BY <1>1 DEF SandboxInv, SandboxState, SandboxTypeOK
<1>4. FirstResultDecides' /\ SandboxRemoved'
  BY <1>1, <1>2 DEF SandboxInv, SandboxState, FirstResultDecides, SandboxRemoved
<1>5. SandboxState'
  BY <1>1, <1>2, <1>3, <1>4 DEF SandboxInv, SandboxState
<1>6. QED
  BY <1>1, <1>5, KeptHeard

(* Whatever a script writes and however it is read, what the runner has     *)
(* made of each pipe is what was written to it as far as it was read, in    *)
(* one piece, but for characters of several bytes that a chunk cut: the     *)
(* lines of this text are logged, what follows the last one is buffered,    *)
(* and its first result is the one that the node returned.                  *)
THEOREM SandboxInductive == Spec => []SandboxInv
<1>1. Init => SandboxInv
  BY InitSandbox DEF Init
<1>2. SandboxInv /\ [Next]_nodeVars => SandboxInv'
  <2> SUFFICES ASSUME SandboxInv, [Next]_nodeVars PROVE SandboxInv'
    OBVIOUS
  <2>1. CASE SandboxNext
    BY <2>1, SandboxStep
  <2>2. CASE UNCHANGED sandboxVars
    BY <2>2, SandboxKept
  <2>3. QED
    BY <2>1, <2>2 DEF Next, nodeVars
<1>3. QED
  BY <1>1, <1>2, PTL DEF Spec

(* Every code node returns what the first result line of its script says,  *)
(* however its output is cut into chunks and however the script ends, logs *)
(* what was printed before it and to stderr, and leaves no directory. A cut *)
(* inside a character replaces this character and does nothing else: not    *)
(* to another character, nor to which lines there are and which of them     *)
(* decides.                                                                 *)
THEOREM SandboxCorrect == Spec => []SandboxSound
<1>1. SandboxInv => SandboxSound
  BY HeardLogs DEF SandboxInv, SandboxState, SandboxSound
<1>2. QED
  BY <1>1, SandboxInductive, PTL
=============================================================================
