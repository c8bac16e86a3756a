----------------------------- MODULE MCGateway -----------------------------
(***************************************************************************)
(* The constants of Gateway for TLC, on top of the texts of MCEngine.      *)
(***************************************************************************)
EXTENDS Gateway, MCEngine

In(endpoint, payload, seq) ==
    [endpoint |-> endpoint, payload |-> payload,
     env |-> [blocks |-> seq, wireSafe |-> TRUE]]

\* Two old equal outputs and an active one; a JSON table; both as adapters
\* build them (turn = position of the item, the last item in the active turn).
Repeats == <<B("tool_output", 0, "echo"), B("tool_output", 1, "echo"), B("user", 2, "note")>>
Tables  == <<B("tool_output", 0, "table"), B("assistant", 1, "log"), B("tool_output", 2, "log")>>
Patches == <<B("assistant", 0, "patch"), B("user", 1, "note")>>
Chats   == <<B("assistant", 0, "log"), B("user", 1, "note")>>

GatewayEnvelopes == {i.env : i \in {In("supported", "object", s) :
                                       s \in {Repeats, Tables, Patches, Chats, <<>>}}}

Supported == {In("supported", "object", s) : s \in {Tables, Chats, Patches}}
Odd == {In("unsupported", "object", <<>>), In("supported", "invalid", <<>>),
        In("supported", "too_deep", <<>>)}

AllInputs     == Supported \cup Odd
DecodedInputs == Supported \cup {In("unsupported", "object", <<>>),
                                 In("supported", "invalid", <<>>),
                                 In("supported", "object", Repeats)}
OneOfEach     == {In("supported", "object", Chats), In("unsupported", "object", <<>>)}
=============================================================================
