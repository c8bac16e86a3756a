------------------------------ MODULE Adapters ------------------------------
(***************************************************************************)
(* adapters.py, anthropic_adapter.py and gemini_adapter.py: the blocks an  *)
(* adapter finds in a payload, whether it understood all of it, and the    *)
(* payload with the texts of the blocks put back.                          *)
(*                                                                         *)
(* JSON is abstracted to what the four parsers tell apart.  A value is     *)
(* null (or missing), a string, a list of elements or something else; an   *)
(* element is an object, or something else.  The field content of an       *)
(* object is the one its protocol reads text or parts from (content,       *)
(* output, text or parts); encoded is its json.dumps; marks are the        *)
(* features a guard asks for:                                              *)
(*   cited      it has citations                                           *)
(*   extra      it has keys besides the one that says what it is           *)
(*   invalid    a field of a tool call, result or schema is ill-typed      *)
(*   calls, bad_calls   a tool_calls list, or something else there         *)
(* The role or type "unhashable" is a list or an object: a test for        *)
(* membership in a Python set raises TypeError.                            *)
(***************************************************************************)
EXTENDS Planner, SequencesExt

System == 1     \* instructions, system or systemInstruction
Body   == 2     \* input, messages or contents

\* A path leads to a text: a field, an element of its list, a part, a nested
\* part.  A block without a path has the empty one: serialize skips it.
NoPath == <<>>

Protocols == {"responses", "chat_completions", "anthropic_messages",
              "gemini_generate_content"}

-----------------------------------------------------------------------------
(* The JSON of a payload, as deep as a parser looks *)

Marks == {"cited", "extra", "invalid", "calls", "bad_calls"}

JsonValue(elements) ==
    [is : {"null", "other"}]
        \cup [is : {"str"}, text : Texts] \cup [is : {"list"}, items : Seq(elements)]

JsonElement(values) ==
    [is : {"other"}, encoded : Texts]
        \cup [is : {"map"}, type : STRING, role : STRING, content : values,
              marks : SUBSET Marks, encoded : Texts]

NestedElements == JsonElement(JsonValue({}))
PartElements   == JsonElement(JsonValue(NestedElements))
ItemElements   == JsonElement(JsonValue(PartElements))

Payloads == [value : JsonValue(ItemElements) \X JsonValue(ItemElements),
             tools : JsonValue(ItemElements), cached : {"absent", "valid", "invalid"}]

-----------------------------------------------------------------------------
(* What a parser returns for a part of the payload *)

Nothing == [blocks |-> <<>>, safe |-> TRUE, raises |-> FALSE]
Unsafe  == [blocks |-> <<>>, safe |-> FALSE, raises |-> FALSE]
Raises  == [blocks |-> <<>>, safe |-> TRUE, raises |-> TRUE]

Leaf(kind, turn, text, path) ==
    [blocks |-> <<[kind |-> kind, turn |-> turn, text |-> text, path |-> path]>>,
     safe |-> TRUE, raises |-> FALSE]

SafeIf(ok, parsed) == [parsed EXCEPT !.safe = @ /\ ok]

Join(parsed) ==
    [blocks |-> FlattenSeq([i \in DOMAIN parsed |-> parsed[i].blocks]),
     safe   |-> \A i \in DOMAIN parsed : parsed[i].safe,
     raises |-> \E i \in DOMAIN parsed : parsed[i].raises]

IsStr(value)  == value.is = "str"
IsList(value) == value.is = "list"
IsMap(elem)   == elem.is = "map"
Items(value)  == IF IsList(value) THEN value.items ELSE <<>>

TypeOf(elem) == IF IsMap(elem) THEN elem.type ELSE "no object"
RoleOf(elem) == IF IsMap(elem) THEN elem.role ELSE "none"

IsText(part, types) == TypeOf(part) \in types /\ IsStr(part.content)

\* A chat has no instructions, and a call has arguments but no content.
PayloadsOf(protocol) ==
    {p \in Payloads :
        LET input == Items(p.value[Body])
            parts(item) == IF IsMap(item) THEN Items(item.content) ELSE <<>>
        IN  /\ protocol = "chat_completions" => p.value[System].is = "null"
            /\ protocol = "responses" =>
                  \A i \in DOMAIN input :
                     TypeOf(input[i]) = "function_call" => input[i].content.is = "null"
            /\ protocol \in {"anthropic_messages", "gemini_generate_content"} =>
                  \A i \in DOMAIN input : \A j \in DOMAIN parts(input[i]) :
                     TypeOf(parts(input[i])[j]) \in {"tool_use", "functionCall"}
                        => parts(input[i])[j].content.is = "null"}

-----------------------------------------------------------------------------
(* _AdapterBase, ResponsesAdapter, ChatCompletionsAdapter *)

KindForRole(role) ==
    CASE role \in {"system", "developer", "user"} -> role
      [] role = "tool" -> "tool_output"
      [] OTHER -> "assistant"

HasRole(item) == RoleOf(item) \notin {"none", "unhashable"}

\* The content of an item or message with a role: a string, parts, or nothing.
Content(item, i, parts) ==
    CASE IsStr(item.content) ->
            Leaf(KindForRole(item.role), i - 1, item.content.text, <<Body, i>>)
      [] IsList(item.content) -> Join(parts)
      [] OTHER -> SafeIf(item.content.is = "null", Nothing)

ToolBlocks(tools) ==
    Join([j \in DOMAIN Items(tools) |->
              Leaf("tool_schema", 0, tools.items[j].encoded, NoPath)])

\* Mutant of ResponsesPart: a part without its turn, as a tool call is.
ResponsesPartNoTurn(kind, i, j, part) ==
    CASE TypeOf(part) = "unhashable" -> Raises
      [] IsText(part, {"input_text", "output_text", "text"}) ->
            Leaf(kind, 0, part.content.text, <<Body, i, j>>)
      [] OTHER -> Unsafe

ResponsesPart(kind, i, j, part) ==
    CASE TypeOf(part) = "unhashable" -> Raises
      [] IsText(part, {"input_text", "output_text", "text"}) ->
            Leaf(kind, i - 1, part.content.text, <<Body, i, j>>)
      [] OTHER -> Unsafe

ResponsesItem(i, item) ==
    CASE TypeOf(item) = "function_call_output" ->
            IF IsStr(item.content)
            THEN Leaf("tool_output", i - 1, item.content.text, <<Body, i>>) ELSE Unsafe
      [] TypeOf(item) = "function_call" -> Leaf("tool_call", 0, item.encoded, NoPath)
      [] OTHER ->
            IF ~HasRole(item) THEN Unsafe
            ELSE Content(item, i, [j \in DOMAIN Items(item.content) |->
                     ResponsesPart(KindForRole(item.role), i, j, item.content.items[j])])

Responses(p) ==
    LET input == p.value[Body]
        instructions == p.value[System] IN
    Join(<<IF IsStr(instructions)
           THEN Leaf("system", 0, instructions.text, <<System>>)
           ELSE SafeIf(instructions.is = "null", Nothing),
           ToolBlocks(p.tools),
           CASE IsStr(input) -> Leaf("user", 0, input.text, <<Body>>)
             [] IsList(input) ->
                    Join([i \in DOMAIN input.items |-> ResponsesItem(i, input.items[i])])
             [] OTHER -> SafeIf(input.is = "null", Nothing)>>)

\* Mutant of ChatPart: a part that is not understood is skipped without a word.
ChatPartSkipped(kind, i, j, part) ==
    IF IsText(part, {"text"})
    THEN Leaf(kind, i - 1, part.content.text, <<Body, i, j>>) ELSE Nothing

ChatPart(kind, i, j, part) ==
    IF IsText(part, {"text"})
    THEN Leaf(kind, i - 1, part.content.text, <<Body, i, j>>) ELSE Unsafe

ChatMessage(i, message) ==
    IF ~HasRole(message) THEN Unsafe
    ELSE Join(<<Content(message, i, [j \in DOMAIN Items(message.content) |->
                    ChatPart(KindForRole(message.role), i, j, message.content.items[j])]),
                CASE "calls" \in message.marks ->
                        Leaf("tool_call", i - 1, message.encoded, NoPath)
                  [] OTHER -> SafeIf("bad_calls" \notin message.marks, Nothing)>>)

ChatCompletions(p) ==
    Join(<<ToolBlocks(p.tools),
           IF IsList(p.value[Body])
           THEN Join([i \in DOMAIN p.value[Body].items |->
                          ChatMessage(i, p.value[Body].items[i])])
           ELSE Unsafe>>)

-----------------------------------------------------------------------------
(* AnthropicMessagesAdapter *)

\* A text with citations is a block nobody may write to, and makes the whole
\* payload unsafe.
Cited(part) == "cited" \in part.marks

\* Mutant of Quotable: the citations of a text do not matter.
QuotableCited(part, ok, kind, turn, path) ==
    SafeIf(ok, Leaf(kind, turn, part.content.text, IF ok THEN path ELSE NoPath))

Quotable(part, ok, kind, turn, path) ==
    LET free == ok /\ ~Cited(part) IN
    SafeIf(free, Leaf(kind, turn, part.content.text, IF free THEN path ELSE NoPath))

AnthropicSystem(system) ==
    CASE system.is = "null" -> Nothing
      [] IsStr(system) -> Leaf("system", 0, system.text, <<System>>)
      [] IsList(system) ->
            Join([j \in DOMAIN system.items |->
                IF IsText(system.items[j], {"text"})
                THEN Quotable(system.items[j], TRUE, "system", 0, <<System, j>>)
                ELSE Unsafe])
      [] OTHER -> Unsafe

\* Also GeminiTools, which refuses some tools.
SchemaBlocks(tools, refused) ==
    CASE tools.is = "null" -> Nothing
      [] IsList(tools) ->
            Join([j \in DOMAIN tools.items |->
                LET tool == tools.items[j] IN
                IF IsMap(tool)
                THEN SafeIf(tool.marks \cap refused = {},
                            Leaf("tool_schema", 0, tool.encoded, NoPath))
                ELSE Unsafe])
      [] OTHER -> Unsafe

AnthropicToolResult(i, j, role, part) ==
    LET valid == role = "user" /\ "invalid" \notin part.marks
        Nested(k, nested) ==
            IF IsText(nested, {"text"})
            THEN Quotable(nested, valid, "tool_output", i - 1, <<Body, i, j, k>>)
            ELSE Unsafe
    IN  CASE IsStr(part.content) ->
                SafeIf(valid, Leaf("tool_output", i - 1, part.content.text,
                                   IF valid THEN <<Body, i, j>> ELSE NoPath))
          [] IsList(part.content) ->
                SafeIf(valid, Join([k \in DOMAIN part.content.items |->
                                        Nested(k, part.content.items[k])]))
          [] OTHER -> Unsafe

AnthropicPart(i, j, role, part) ==
    CASE TypeOf(part) = "text" ->
            IF IsStr(part.content) THEN Quotable(part, TRUE, role, i - 1, <<Body, i, j>>)
            ELSE Unsafe
      [] TypeOf(part) = "tool_use" ->
            SafeIf(role = "assistant" /\ "invalid" \notin part.marks,
                   Leaf("tool_call", i - 1, part.encoded, NoPath))
      [] TypeOf(part) = "tool_result" -> AnthropicToolResult(i, j, role, part)
      [] TypeOf(part) \in {"thinking", "redacted_thinking"} ->
            SafeIf(FALSE, Leaf("protocol_state", i - 1, part.encoded, NoPath))
      [] TypeOf(part) = "unhashable" -> Raises
      [] OTHER -> Unsafe

AnthropicMessage(i, message) ==
    CASE RoleOf(message) = "unhashable" -> Raises
      [] RoleOf(message) \in {"user", "assistant"} ->
            CASE IsStr(message.content) ->
                    Leaf(message.role, i - 1, message.content.text, <<Body, i>>)
              [] IsList(message.content) ->
                    Join([j \in DOMAIN message.content.items |->
                              AnthropicPart(i, j, message.role, message.content.items[j])])
              [] OTHER -> Unsafe
      [] OTHER -> Unsafe

AnthropicMessages(p) ==
    Join(<<AnthropicSystem(p.value[System]),
           SchemaBlocks(p.tools, {}),
           IF IsList(p.value[Body])
           THEN Join([i \in DOMAIN p.value[Body].items |->
                          AnthropicMessage(i, p.value[Body].items[i])])
           ELSE Unsafe>>)

-----------------------------------------------------------------------------
(* GeminiGenerateContentAdapter *)

Pure(part) == IsText(part, {"text"}) /\ "extra" \notin part.marks

GeminiSystem(system) ==
    CASE system.is = "null" -> Nothing
      [] IsList(system) /\ system.items # <<>> ->
            Join([j \in DOMAIN system.items |->
                IF Pure(system.items[j])
                THEN Leaf("system", 0, system.items[j].content.text, <<System, j>>)
                ELSE Unsafe])
      [] OTHER -> Unsafe

GeminiPart(i, j, role, part) ==
    CASE TypeOf(part) = "thought" ->
            SafeIf(FALSE, Leaf("protocol_state", i - 1, part.encoded, NoPath))
      [] TypeOf(part) = "text" ->
            IF role \in {"user", "model"} /\ Pure(part)
            THEN Leaf(IF role = "model" THEN "assistant" ELSE "user",
                      i - 1, part.content.text, <<Body, i, j>>)
            ELSE Unsafe
      [] TypeOf(part) = "functionCall" ->
            SafeIf(role = "model" /\ part.marks \cap {"extra", "invalid"} = {},
                   Leaf("tool_call", i - 1, part.encoded, NoPath))
      [] TypeOf(part) = "functionResponse" ->
            SafeIf(FALSE,
                   Leaf(IF /\ role \in {"user", "function"}
                           /\ part.marks \cap {"extra", "invalid"} = {}
                        THEN "tool_output" ELSE "protocol_state",
                        i - 1, part.encoded, NoPath))
      [] OTHER -> Unsafe

GeminiContent(i, content) ==
    IF ~IsMap(content) THEN Unsafe
    ELSE IF ~IsList(content.content) THEN Unsafe
    ELSE LET parts == content.content.items
             roleless == \A j \in DOMAIN parts : Pure(parts[j])
             role == IF content.role = "none" THEN "user" ELSE content.role
         IN  CASE parts = <<>> -> Unsafe
               [] parts # <<>> /\ content.role = "none" /\ ~roleless -> Unsafe
               [] parts # <<>> /\ role = "unhashable" -> Raises
               [] parts # <<>> /\ role \in {"user", "model", "function"}
                  /\ (content.role = "none" => roleless) ->
                     Join([j \in DOMAIN parts |-> GeminiPart(i, j, role, parts[j])])
               [] OTHER -> Unsafe

GeminiGenerateContent(p) ==
    LET contents == p.value[Body] IN
    Join(<<SafeIf(p.cached # "invalid", Nothing),
           GeminiSystem(p.value[System]),
           SchemaBlocks(p.tools, {"extra", "invalid"}),
           IF ~IsList(contents) THEN Unsafe
           ELSE SafeIf(contents.items # <<>>,
                       Join([i \in DOMAIN contents.items |->
                                 GeminiContent(i, contents.items[i])]))>>)

-----------------------------------------------------------------------------
(* parse and serialize *)

Parse(protocol, p) ==
    CASE protocol = "responses" -> Responses(p)
      [] protocol = "chat_completions" -> ChatCompletions(p)
      [] protocol = "anthropic_messages" -> AnthropicMessages(p)
      [] protocol = "gemini_generate_content" -> GeminiGenerateContent(p)

\* Mutant of SetPath: every part of an element is taken for the first one.
SetPathFirstPart(p, path, text) ==
    CASE Len(path) =< 2 -> p
      [] Len(path) > 2 ->
            [p EXCEPT !.value[path[1]].items[path[2]].content.items[1].content.text = text]

SetPath(p, path, text) ==
    CASE Len(path) = 1 -> [p EXCEPT !.value[path[1]].text = text]
      [] Len(path) = 2 -> [p EXCEPT !.value[path[1]].items[path[2]].content.text = text]
      [] Len(path) = 3 ->
            [p EXCEPT !.value[path[1]].items[path[2]].content.items[path[3]].content.text
                = text]
      [] Len(path) = 4 ->
            [p EXCEPT !.value[path[1]].items[path[2]].content.items[path[3]]
                       .content.items[path[4]].content.text = text]

\* Mutant of SerializeBlocks: texts are counted over the blocks with a path only.
SerializeByCount(p, blocks, texts) ==
    FoldLeft(LAMBDA q, i : IF blocks[i].path = NoPath THEN q
                           ELSE SetPath(q, blocks[i].path,
                                        texts[Cardinality({j \in 1 .. i : blocks[j].path # NoPath})]),
             p, [i \in DOMAIN blocks |-> i])

\* The original payload with texts[i] at the path of block i.
SerializeBlocks(p, blocks, texts) ==
    LET written[i \in 0 .. Len(blocks)] ==
            IF i = 0 THEN p
            ELSE IF blocks[i].path = NoPath THEN written[i - 1]
            ELSE SetPath(written[i - 1], blocks[i].path, texts[i])
    IN  written[Len(blocks)]
=============================================================================
