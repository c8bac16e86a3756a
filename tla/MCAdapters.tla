----------------------------- MODULE MCAdapters -----------------------------
(***************************************************************************)
(* The payloads of AdaptedRequests for TLC: per protocol a palette with    *)
(* one item for each way its parser can treat it, in conversations of up   *)
(* to three items, and the odd values of the other fields.                 *)
(***************************************************************************)
EXTENDS AdaptedRequests, MCEngine

Str(t)  == [is |-> "str", text |-> t]
List(s) == [is |-> "list", items |-> s]
Null    == [is |-> "null"]
Number  == [is |-> "other"]

Node(type, role, content, marks) ==
    [is |-> "map", type |-> type, role |-> role, content |-> content,
     marks |-> marks, encoded |-> "note"]
Scalar == [is |-> "other", encoded |-> "note"]

Part(type, content) == Node(type, "none", content, {})
Text(t) == Part("text", Str(t))
Marked(node, marks) == [node EXCEPT !.marks = marks]
Say(role, content) == Node("none", role, content, {})

Image == Part("image", Null)
Refusal == Part("refusal", Str("patch"))
Odd == Part("unhashable", Str("log"))

ResponsesPalette ==
    {Say("user", Str("note")),
     Say("assistant", List(<<Part("output_text", Str("log")), Part("output_text", Str("echo"))>>)),
     Node("function_call", "none", Null, {}),
     Node("function_call_output", "none", Str("log"), {}),
     Node("function_call_output", "none", Str("echo"), {}),
     Node("function_call_output", "none", List(<<Text("patch")>>), {}),
     Say("user", List(<<Text("log"), Refusal>>)),
     Say("user", List(<<Odd>>)),
     Say("none", Str("patch")), Say("critic", Null), Say("tool", Number), Scalar}

ChatPalette ==
    {Say("system", List(<<Text("rule")>>)), Say("user", Str("note")),
     Node("none", "assistant", Null, {"calls"}),
     Node("none", "assistant", Str("log"), {"calls"}),
     Node("none", "assistant", Str("log"), {"bad_calls"}),
     Say("tool", Str("echo")), Say("tool", List(<<Text("log"), Text("echo")>>)),
     Say("assistant", List(<<Text("log"), Refusal>>)),
     Say("unhashable", Str("patch")), Say("user", Number), Scalar}

AnthropicPalette ==
    {Say("user", Str("note")),
     Say("assistant", List(<<Text("log"), Part("tool_use", Null)>>)),
     Say("user", List(<<Part("tool_result", Str("echo")),
                        Part("tool_result", List(<<Text("log"), Text("echo")>>))>>)),
     Say("user", List(<<Part("tool_result", Str("log"))>>)),
     Say("user", List(<<Part("tool_result",
                             List(<<Text("log"), Marked(Text("echo"), {"cited"})>>))>>)),
     Say("assistant", List(<<Marked(Text("log"), {"cited"})>>)),
     Say("assistant", List(<<Part("thinking", Null), Text("log")>>)),
     Say("user", List(<<Part("tool_use", Null)>>)),
     Say("user", List(<<Marked(Part("tool_result", Str("log")), {"invalid"})>>)),
     Say("user", List(<<Marked(Part("tool_result", List(<<Text("log"), Image>>)), {"invalid"})>>)),
     Say("user", List(<<Part("tool_result", Null)>>)),
     Say("user", List(<<Image, Part("text", Number), Scalar>>)),
     Say("user", List(<<Odd>>)), Say("unhashable", Str("log")),
     Say("system", Str("rule")), Say("user", Null), Scalar}

GeminiPalette ==
    {Say("user", List(<<Text("note")>>)),
     Say("model", List(<<Text("log"), Text("echo")>>)),
     Say("none", List(<<Text("log")>>)),
     Say("none", List(<<Text("log"), Part("functionCall", Null)>>)),
     Say("model", List(<<Part("functionCall", Null), Text("log")>>)),
     Say("user", List(<<Part("functionCall", Null)>>)),
     Say("function", List(<<Part("functionResponse", Null)>>)),
     Say("model", List(<<Part("functionResponse", Null)>>)),
     Say("model", List(<<Part("thought", Str("log")), Text("log")>>)),
     Say("model", List(<<Marked(Text("log"), {"extra"})>>)),
     Say("function", List(<<Text("log")>>)),
     Say("user", List(<<Image, Scalar>>)), Say("user", List(<<>>)),
     Say("user", Str("log")), Say("critic", List(<<Text("log")>>)),
     Say("unhashable", List(<<Text("log")>>)), Scalar}

Question == Say("user", Str("note"))
AskParts == Say("user", List(<<Text("note")>>))

With(system, body) == [NoPayload EXCEPT !.value = <<system, body>>]

\* Conversations of up to two items, and of a question and two, in either order.
Talks(palette, ask) ==
    {With(Null, List(s)) : s \in Upto(2, palette)}
    \cup UNION {{With(Null, List(s \o <<ask>>)), With(Null, List(<<ask>> \o s))} :
                   s \in [1 .. 2 -> palette]}

Tool(marks) == Marked(Part("none", Null), marks)
OddTools == {List(<<Tool({})>>), List(<<Tool({"invalid"}), Scalar>>), Number}
OddSystems == {Str("log"), Number, List(<<>>),
               List(<<Text("log"), Marked(Text("rule"), {"cited"}), Scalar>>),
               List(<<Text("log"), Marked(Text("rule"), {"extra"})>>)}

Fields(talk) ==
    {[With(Null, body) EXCEPT !.tools = tools] :
        body \in {talk, Str("log"), Number, Null}, tools \in OddTools}
    \cup {[With(Null, talk) EXCEPT !.cached = cached] : cached \in {"valid", "invalid"}}

Systems(talk) == {With(system, talk) : system \in OddSystems}

Talk == List(<<Say("assistant", List(<<Text("log")>>)), Question>>)
GeminiTalk == List(<<Say("model", List(<<Text("log")>>)), AskParts>>)

MCPayloads ==
    "/v1/responses" :> (Talks(ResponsesPalette, Question)
                          \cup Fields(Talk) \cup Systems(Talk)) @@
    "/v1/chat/completions" :> (Talks(ChatPalette, Question) \cup Fields(Talk)) @@
    "/v1/messages" :> (Talks(AnthropicPalette, Question)
                         \cup Fields(Talk) \cup Systems(Talk)) @@
    "/v1beta/generateContent" :> (Talks(GeminiPalette, AskParts)
                                    \cup Fields(GeminiTalk) \cup Systems(GeminiTalk))

MCPaths == {<<"/v1/responses", "">>, <<"/v1/chat/completions", "">>,
            <<"/v1/messages", "?beta=true">>, <<"/v1beta/generateContent", "">>}

\* Two new endpoints, and one that is taken.
MCRegistrations == {<< <<"/v1/responses", "?beta=true">>, "anthropic_messages">>,
                    << <<"/v1/messages", "">>, "anthropic_messages">>,
                    << <<"/v1beta/generateContent", "">>, "gemini_generate_content">>}
=============================================================================
