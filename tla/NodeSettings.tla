---------------------------- MODULE NodeSettings ----------------------------
(***************************************************************************)
(* The sheets in which the settings of a node are edited                   *)
(* (the dialogs under frontend/src/components/builder/nodes).              *)
(*                                                                         *)
(* The same settings exist four times: in the data of the node, which is   *)
(* saved; in the form of the node, which overwrites the data whenever any  *)
(* of its fields changes; in the form of the sheet; and in the values that *)
(* form was created with, to which it can be reset.  A sheet is modal and  *)
(* belongs to one node, so one node is enough here.                        *)
(*                                                                         *)
(* In the sheets of the chat models Cancel is a button without a type       *)
(* inside the form: after it reset the form, it also submits it, as the     *)
(* sheet stays mounted while it slides out (ui/sheet.tsx:61).               *)
(*                                                                         *)
(* Of the settings, text stands for the fields a sheet validates each on   *)
(* its own, format for the response format of a model and the format of    *)
(* Firecrawl, and prompt for Firecrawl's prompt, required for "json".      *)
(***************************************************************************)
CONSTANT Untouched  \* the data of a node that was added and not edited

VARIABLES
    sheet,      \* the type of the node, or "none"
    data,       \* the data of the node in React Flow
    own,        \* the settings in the form of the node
    initial,    \* the default values of the form of the sheet
    draft,      \* the values of the form of the sheet
    typed,      \* whether a header is half typed in the sheet of the HTTP tool
    open,       \* whether the sheet is open
    confirmed   \* what was confirmed last, or stored when the node was mounted

settingsVars == <<sheet, data, own, initial, draft, typed, open, confirmed>>

Texts == {"loaded", "first", "second", "invalid"}
Formats == {"text", "json"}
Settings == [text : Texts, format : Formats, prompt : BOOLEAN]

(* What the inputs of each form let a user enter. A field that has no input *)
(* keeps the value that it has in nodes of that type. The editors ignore an *)
(* empty text, and the form of the HTTP tool adds and removes whole headers.*)
Fields == [text : Texts, format : {"text"}, prompt : {FALSE}]
FormatFields == [text : Texts, format : Formats, prompt : {FALSE}]
CheckedFields == [text : Texts \ {"invalid"}, format : {"text"}, prompt : {FALSE}]

OpenAIChatForm    == FormatFields
AnthropicChatForm == Fields
MistralChatForm   == FormatFields
OllamaChatForm    == FormatFields
AIAgentForm       == Fields
OpenAIToolForm    == FormatFields
SDKNotifierForm   == Fields
SonarForm         == Fields
FirecrawlForm     == Settings
HttpToolForm      == CheckedFields
CodeEditorForm    == CheckedFields
SqlEditorForm     == CheckedFields

(* The sheets: what can be entered, whether one opens with the stored       *)
(* response format (or does without one), what Cancel does to its form (and *)
(* whether it submits it then), whether what is confirmed is validated, and *)
(* whether the form of the node has fields of its own beside those in the   *)
(* sheet.                                                                   *)
OpenAIChatSheet == [form |-> OpenAIChatForm, format |-> "text", cancel |-> "submit",
                    validated |-> TRUE, fields |-> TRUE]
AnthropicChatSheet == [form |-> AnthropicChatForm, format |-> "none", cancel |-> "submit",
                       validated |-> TRUE, fields |-> TRUE]
MistralChatSheet == [form |-> MistralChatForm, format |-> "stored", cancel |-> "submit",
                     validated |-> TRUE, fields |-> TRUE]
OllamaChatSheet == [form |-> OllamaChatForm, format |-> "stored", cancel |-> "submit",
                    validated |-> TRUE, fields |-> TRUE]
AIAgentSheet == [form |-> AIAgentForm, format |-> "none", cancel |-> "reset",
                 validated |-> FALSE, fields |-> FALSE]
OpenAIToolSheet == [form |-> OpenAIToolForm, format |-> "text", cancel |-> "reset",
                    validated |-> TRUE, fields |-> FALSE]
SDKNotifierSheet == [form |-> SDKNotifierForm, format |-> "none", cancel |-> "reset",
                     validated |-> TRUE, fields |-> FALSE]
SonarSheet == [form |-> SonarForm, format |-> "none", cancel |-> "reset",
               validated |-> TRUE, fields |-> TRUE]
FirecrawlSheet == [form |-> FirecrawlForm, format |-> "stored", cancel |-> "reset",
                   validated |-> TRUE, fields |-> TRUE]
HttpToolSheet == [form |-> HttpToolForm, format |-> "none", cancel |-> "stored",
                  validated |-> FALSE, fields |-> FALSE]
CodeEditorSheet == [form |-> CodeEditorForm, format |-> "none", cancel |-> "keep",
                    validated |-> TRUE, fields |-> FALSE]
SqlEditorSheet == [form |-> SqlEditorForm, format |-> "none", cancel |-> "keep",
                   validated |-> TRUE, fields |-> TRUE]

SheetOf ==
    [type \in {"chat-openai", "chat-anthropic", "chat-mistral", "chat-ollama", "ai-agent",
               "chat-openai-as-tool", "sdk-notifier-tool", "sonar-search-tool",
               "firecrawl-scraper-tool", "http-tool", "code-executor", "postgres-query-tool"} |->
       CASE type = "chat-openai"            -> OpenAIChatSheet
         [] type = "chat-anthropic"         -> AnthropicChatSheet
         [] type = "chat-mistral"           -> MistralChatSheet
         [] type = "chat-ollama"            -> OllamaChatSheet
         [] type = "ai-agent"               -> AIAgentSheet
         [] type = "chat-openai-as-tool"    -> OpenAIToolSheet
         [] type = "sdk-notifier-tool"      -> SDKNotifierSheet
         [] type = "sonar-search-tool"      -> SonarSheet
         [] type = "firecrawl-scraper-tool" -> FirecrawlSheet
         [] type = "http-tool"              -> HttpToolSheet
         [] type = "code-executor"          -> CodeEditorSheet
         [] type = "postgres-query-tool"    -> SqlEditorSheet]

\* The default values of the form of a node. Firecrawl's format is "json" by
\* default, and a missing prompt becomes the default prompt.
FormOf(stored) ==
    LET s == IF stored = Untouched
             THEN [text |-> "loaded", prompt |-> FALSE,
                   format |-> IF sheet = "firecrawl-scraper-tool" THEN "json" ELSE "text"]
             ELSE stored
    IN  IF sheet = "firecrawl-scraper-tool" THEN [s EXCEPT !.prompt = TRUE] ELSE s

\* The default values of the form of a sheet. OpenAI's two sheets begin with
\* the response format "text", whatever was stored.
DefaultsOf(settings) ==
    IF SheetOf[sheet].format = "text" THEN [settings EXCEPT !.format = "text"] ELSE settings

\* Firecrawl's sheet forgets the prompt whenever the format is another one
\* than "json".
Effects(values) ==
    IF sheet = "firecrawl-scraper-tool" /\ values.format # "json"
    THEN [values EXCEPT !.prompt = FALSE]
    ELSE values

\* Mutant: the prompt is not looked at.
FieldsValid(values) == values.text # "invalid"

\* formSchema
Valid(values) ==
    /\ values.text # "invalid"
    /\ sheet = "firecrawl-scraper-tool" /\ values.format = "json" => values.prompt

\* The component of the node is mounted: its form, and that of the sheet.
Mount(stored) ==
    /\ own' = FormOf(stored)
    /\ initial' = DefaultsOf(own')
    /\ draft' = Effects(initial')
    /\ typed' = FALSE
    /\ open' = FALSE
    /\ confirmed' = stored

SettingsInit ==
    /\ sheet \in DOMAIN SheetOf
    /\ data \in {Untouched} \cup
                {s \in SheetOf[sheet].form :
                    /\ s.text = "loaded"
                    /\ sheet = "firecrawl-scraper-tool" /\ s.format = "json" => s.prompt}
    /\ own = FormOf(data)
    /\ initial = DefaultsOf(own)
    /\ draft = Effects(initial)
    /\ typed = FALSE
    /\ open = FALSE
    /\ confirmed = data

\* The page is left, or reloaded, and opened again on what was saved.
Remount == Mount(data) /\ UNCHANGED <<sheet, data>>

Open ==
    /\ ~open
    /\ open' = TRUE
    /\ UNCHANGED <<sheet, data, own, initial, draft, typed, confirmed>>

Enter ==
    /\ open
    /\ \E values \in SheetOf[sheet].form : draft' = Effects(values)
    /\ UNCHANGED <<sheet, data, own, initial, typed, open, confirmed>>

\* setNewHeader, and onAddHeader, which takes a whole header into the draft.
TypeHeader ==
    /\ open
    /\ sheet = "http-tool"
    /\ typed' = ~typed
    /\ IF typed THEN \E values \in HttpToolForm : draft' = values
                ELSE UNCHANGED draft
    /\ UNCHANGED <<sheet, data, own, initial, open, confirmed>>

\* form.reset(). The sheet of the HTTP tool goes back to the stored headers.
Reset == IF SheetOf[sheet].cancel = "stored" THEN own ELSE Effects(initial)

\* onOpenChange(false): the cross, or a click beside the sheet.
CloseSheet ==
    /\ open
    /\ open' = FALSE
    /\ draft' = Reset
    /\ UNCHANGED <<sheet, data, own, initial, typed, confirmed>>

\* Mutant: the button only closes the sheet, as that of the editors does.
CancelKeepsDraft ==
    /\ open
    /\ open' = FALSE
    /\ UNCHANGED <<sheet, data, own, initial, draft, typed, confirmed>>

\* handleCancel, and the submit event that the button brings about after it.
Cancel ==
    /\ open
    /\ open' = FALSE
    /\ draft' = IF SheetOf[sheet].cancel = "keep" THEN draft ELSE Reset
    /\ IF SheetOf[sheet].cancel = "submit" /\ Valid(Reset)
       THEN own' = Reset /\ data' = Reset
       ELSE UNCHANGED <<own, data>>
    /\ UNCHANGED <<sheet, initial, typed, confirmed>>

\* onSubmit, for valid values only; but the agent's button calls it with any.
\* The form of the node, changed, is written into its data.
Submit ==
    /\ open
    /\ SheetOf[sheet].validated => Valid(draft)
    /\ open' = FALSE
    /\ own' = draft /\ data' = draft /\ confirmed' = draft
    /\ UNCHANGED <<sheet, initial, draft, typed>>

\* Another field of the form of the node is changed (its model, for example).
EditField ==
    /\ ~open
    /\ SheetOf[sheet].fields
    /\ data' = own
    /\ UNCHANGED <<sheet, own, initial, draft, typed, open, confirmed>>

SettingsNext ==
    Remount \/ Open \/ Enter \/ TypeHeader \/ CloseSheet \/ Cancel \/ Submit \/ EditField

SettingsSpec == SettingsInit /\ [][SettingsNext]_settingsVars
-----------------------------------------------------------------------------
(* Properties.                                                             *)

\* What was entered and not confirmed is gone when the sheet is closed: it
\* next opens on the settings of the node's form or on what the node was
\* mounted with (which need not be the newer of the two). Two drafts survive:
\* the text in an editor that was left by Cancel, and the header that is half
\* typed in the sheet of the HTTP tool.
DraftsDiscarded ==
    sheet \in DOMAIN SheetOf /\ ~open =>
        /\ SheetOf[sheet].cancel # "keep" => draft \in {own, Effects(initial)}
        /\ typed => sheet = "http-tool"

\* Through every sequence of sheets, fields and reloads, what is stored is what
\* was confirmed last or what the node was mounted with (which Cancel may bring
\* back), never a draft that was given up; and it could have been confirmed:
\* every field is valid (but for the agent's), and a Firecrawl node that asks
\* for JSON has the prompt that the format requires.
StoredSettingsSound ==
    sheet \in DOMAIN SheetOf /\ data # Untouched =>
        /\ data \in {confirmed, FormOf(confirmed), initial}
        /\ data \in Settings
        /\ sheet # "ai-agent" => data.text # "invalid"
        /\ sheet = "firecrawl-scraper-tool" /\ data.format = "json" => data.prompt
=============================================================================
