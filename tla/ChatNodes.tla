----------------------------- MODULE ChatNodes -----------------------------
(***************************************************************************)
(* One execution of a chat node (runner/src/nodes/llm): the node checks    *)
(* its inputs and its configuration, calls the model of its provider, and  *)
(* passes the answer on, chunk by chunk when it is streamed.               *)
(*                                                                         *)
(* The seven providers are the same code but for what the records below    *)
(* say.  Everything up to the first chunk answers with an error; what the  *)
(* stream throws later is not caught and leaves the node as an exception.  *)
(*                                                                         *)
(* A chunk is "text", or "blank" when it has no content; an answer is the  *)
(* sequence of the positions of its chunks.  LangChain is external: its    *)
(* calls succeed or fail.                                                  *)
(***************************************************************************)
EXTENDS Naturals, SequencesExt

CONSTANTS MaxChunks  \* bound: chunks of an answer

ASSUME ChunksAssumption == MaxChunks \in Nat

VARIABLES
    chat,       \* the provider and the configuration of the node
    calling,    \* "called", "generating", "streaming" or "settled"
    spoken,     \* the chunks the model has produced
    published,  \* the chunks published as NODE_RESULT
    response,   \* fullResponse
    reply       \* "ok", "error" or "thrown", or "none" so far

chatVars == <<chat, calling, spoken, published, response, reply>>

\* requires: what a provider checks besides what all of them do. models: the
\* kinds of models it offers.
Anthropic == [requires |-> {}, models |-> {"chat"}]
DeepSeek  == [requires |-> {}, models |-> {"chat"}]
Gemini    == [requires |-> {}, models |-> {"chat"}]
Grok      == [requires |-> {}, models |-> {"chat"}]
Mistral   == [requires |-> {}, models |-> {"chat"}]
Ollama    == [requires |-> {"baseUrl"}, models |-> {"chat"}]
OpenAI    == [requires |-> {}, models |-> {"chat", "completion"}]

Provider ==
    [anthropic |-> Anthropic, deepseek |-> DeepSeek, gemini |-> Gemini, grok |-> Grok,
     mistral |-> Mistral, ollama |-> Ollama, openai |-> OpenAI]

\* What all providers check: the inputs, the outputs, the model, and that the
\* key, if there is one, can be decrypted.
Checked == {"prompt", "images", "response", "model", "key"}

\* outputMode, whether the response has a result_key, and what is missing or
\* malformed.
ChatConfigs ==
    UNION {[provider : {p}, model : Provider[p].models, stream : BOOLEAN, field : BOOLEAN,
            flaws : {{}} \cup {{f} : f \in Checked \cup {"baseUrl"}}] : p \in DOMAIN Provider}

Answered(result) == calling' = "settled" /\ reply' = result

ChatInit ==
    /\ chat \in ChatConfigs
    /\ calling = "called"
    /\ spoken = <<>> /\ published = <<>> /\ response = <<>>
    /\ reply = "none"

\* validateAndPrepare and the provider's own check.
Validate ==
    /\ calling = "called"
    /\ IF chat.flaws \cap (Checked \cup Provider[chat.provider].requires) # {}
       THEN Answered("error")
       ELSE calling' = "generating" /\ UNCHANGED reply
    /\ UNCHANGED <<chat, spoken, published, response>>

\* generateResponse: the client cannot be made (some refuse an empty key), or
\* stream or invoke rejects: the error is returned. Otherwise there is an
\* answer to iterate over.
Generate ==
    /\ calling = "generating"
    /\ Answered("error") \/ (calling' = "streaming" /\ UNCHANGED reply)
    /\ UNCHANGED <<chat, spoken, published, response>>

\* handleStreamingResponse, or handleNonStreamingResponse, whose answer is one
\* chunk: a completion model is never streamed.
Streamed == chat.stream /\ chat.model = "chat"

\* The loop of execute over a chunk: NODE_RESULT if the response is a field of
\* the result, and the chunk is added to the response. Blank ones are skipped.
Chunk(kind) ==
    /\ calling = "streaming"
    /\ Len(spoken) < IF Streamed THEN MaxChunks ELSE 1
    /\ spoken' = Append(spoken, kind)
    /\ IF kind = "text"
       THEN /\ response' = Append(response, Len(spoken'))
            /\ published' = IF chat.field THEN response' ELSE published
       ELSE UNCHANGED <<published, response>>
    /\ UNCHANGED <<chat, calling, reply>>

\* The iteration is over, or throws.
AnswerOver ==
    /\ calling = "streaming"
    /\ \/ (Streamed \/ Len(spoken) = 1) /\ Answered("ok")
       \/ Streamed /\ Answered("thrown")
    /\ UNCHANGED <<chat, spoken, published, response>>

ChatNext == Validate \/ Generate \/ (\E kind \in {"text", "blank"} : Chunk(kind)) \/ AnswerOver
-----------------------------------------------------------------------------
ChatTypeOK ==
    /\ chat \in ChatConfigs
    /\ calling \in {"called", "generating", "streaming", "settled"}
    /\ spoken \in Seq({"text", "blank"})
    /\ published \in Seq(Nat) /\ response \in Seq(Nat)
    /\ reply \in {"none", "ok", "error", "thrown"}
    /\ (calling = "settled") = (reply # "none")

\* What is published while the answer comes in is what the node returns, or
\* nothing if no field takes it; it is the answer without its blanks, in order.
\* A node that returns an error has published nothing: results without an end
\* come from a stream that broke only.
AnswerPublished ==
    /\ published = IF chat.field THEN response ELSE <<>>
    /\ ToSet(response) = {i \in DOMAIN spoken : spoken[i] = "text"}
    /\ \A i, j \in DOMAIN response : i < j => response[i] < response[j]
    /\ reply = "error" => published = <<>>
=============================================================================
