----------------------------- MODULE FlowNodes -----------------------------
(***************************************************************************)
(* The nodes one can add in the flow builder, each a React component under *)
(* frontend/src/components/builder/nodes: the handles it draws from its    *)
(* data, and whether its form asks for a credential.                       *)
(*                                                                         *)
(* from: the handles that need something (inputHandles and configHandles). *)
(* to: the handles that offer something (outputHandles).  A form writes    *)
(* all its fields into the data of its node, whether they are valid or     *)
(* not; of them only the credential has consequences for the definition.   *)
(***************************************************************************)
EXTENDS FlowCompiler

Handles(type, names) == {[type |-> type, name |-> x] : x \in names}

Prompt == Handles("text", {"prompt"})
Answer == Handles("text", {"response"})

EntrypointNode(data) == [from |-> {}, to |-> Handles("text", ToSet(data.outs)), credential |-> FALSE]
ResultsNode(data) == [from |-> Handles("text", ToSet(data.ins)), to |-> {}, credential |-> FALSE]

\* The arguments and the results of the code.
CodeExecutorNode(data) ==
    [from |-> Handles("any", ToSet(data.ins)), to |-> Handles("any", ToSet(data.outs)),
     credential |-> FALSE]

OpenAIChatNode    == [from |-> Prompt, to |-> Answer, credential |-> TRUE]
AnthropicChatNode == [from |-> Prompt, to |-> Answer, credential |-> TRUE]
MistralChatNode   == [from |-> Prompt, to |-> Answer, credential |-> TRUE]
OllamaChatNode    == [from |-> Prompt, to |-> Answer, credential |-> FALSE]

AIAgentNode ==
    [from |-> Prompt \cup Handles("memory", {"conversation-memory"})
              \cup Handles("ai-model", {"model"}) \cup Handles("tools", {"tools"}),
     to |-> Answer, credential |-> FALSE]

ModelOpenAINode == [from |-> {}, to |-> Handles("ai-model", {"ai-agent"}), credential |-> TRUE]
LocalMemoryNode == [from |-> {}, to |-> Handles("memory", {"connection"}), credential |-> FALSE]

OpenAIToolNode    == [from |-> {}, to |-> Handles("tools", {"connection"}), credential |-> TRUE]
SDKNotifierNode   == [from |-> {}, to |-> Handles("tools", {"ai-agent"}), credential |-> FALSE]
PostgresQueryNode == [from |-> {}, to |-> Handles("tools", {"ai-agent"}), credential |-> TRUE]
BraveSearchNode   == [from |-> {}, to |-> Handles("tools", {"ai-agent"}), credential |-> TRUE]
SonarSearchNode   == [from |-> {}, to |-> Handles("tools", {"AI Agent"}), credential |-> TRUE]
FirecrawlNode     == [from |-> {}, to |-> Handles("tools", {"output"}), credential |-> TRUE]

\* nodeTypes: the component of a node.
Component(data) ==
    CASE data.type = "entrypoint"             -> EntrypointNode(data)
      [] data.type = "result"                 -> ResultsNode(data)
      [] data.type = "code-executor"          -> CodeExecutorNode(data)
      [] data.type = "chat-openai"            -> OpenAIChatNode
      [] data.type = "chat-anthropic"         -> AnthropicChatNode
      [] data.type = "chat-mistral"           -> MistralChatNode
      [] data.type = "chat-ollama"            -> OllamaChatNode
      [] data.type = "ai-agent"               -> AIAgentNode
      [] data.type = "model-openai"           -> ModelOpenAINode
      [] data.type = "local-memory"           -> LocalMemoryNode
      [] data.type = "chat-openai-as-tool"    -> OpenAIToolNode
      [] data.type = "sdk-notifier-tool"      -> SDKNotifierNode
      [] data.type = "postgres-query-tool"    -> PostgresQueryNode
      [] data.type = "brave-search-tool"      -> BraveSearchNode
      [] data.type = "sonar-search-tool"      -> SonarSearchNode
      [] data.type = "firecrawl-scraper-tool" -> FirecrawlNode

SourceHandles(data) == Component(data).from
TargetHandles(data) == Component(data).to
=============================================================================
