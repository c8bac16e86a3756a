-------------------------- MODULE AdaptedRequests --------------------------
(***************************************************************************)
(* protocol_registry.py and the try block of GatewayCore.prepare, with the *)
(* payload in place of the abstract request of Gateway: the adapter the    *)
(* path selects, its parse, the engine's call, its serialize.              *)
(***************************************************************************)
EXTENDS Engine, Adapters

CONSTANTS Registrations,   \* what a program may register: <<path, protocol>>
          Paths,           \* the paths requests come on
          PayloadsFor,     \* [endpoints -> sets of payloads]
          Marker           \* the text of a duplicate marker

ASSUME OneCall == \E c \in Calls : Calls = {c}

DefaultRegistry ==
    [e \in {"/v1/responses", "/v1/chat/completions"} |->
        IF e = "/v1/responses" THEN "responses" ELSE "chat_completions"]

\* A path is an endpoint and, or not, a query: only the endpoint counts.
Normalize(path) == path[1]

\* The protocols an endpoint may be parsed as: a registration does not replace.
ProtocolsAt(e) ==
    IF e \in DOMAIN DefaultRegistry THEN {DefaultRegistry[e]}
    ELSE {r[2] : r \in {x \in Registrations : Normalize(x[1]) = e}}

ASSUME RequestAssumption ==
    /\ \A r \in Registrations : r[2] \in Protocols
    /\ \A path \in Paths : \A protocol \in ProtocolsAt(Normalize(path)) :
          PayloadsFor[Normalize(path)] \subseteq PayloadsOf(protocol)

VARIABLES
    registry,   \* _factories: [endpoints -> Protocols]
    progress,   \* "setup", "parse", "optimize", "sent", or "refused" (register raised)
    endpoint,   \* the path of the request, as register and resolve normalise it
    payload,    \* the JSON object of the request
    parsed,     \* what parse returned
    upstream    \* the payload the upstream receives

requestVars == <<registry, progress, endpoint, payload, parsed, upstream>>
adaptedVars == <<engineVars, requestVars>>

NoPayload == [value |-> <<[is |-> "null"], [is |-> "null"]>>,
              tools |-> [is |-> "null"], cached |-> "absent"]

AdaptedInit ==
    /\ EngineInit
    /\ registry = DefaultRegistry
    /\ progress = "setup"
    /\ endpoint = ""
    /\ payload = NoPayload
    /\ parsed = Nothing
    /\ upstream = NoPayload

Register(path, protocol) ==
    /\ progress = "setup"
    /\ IF Normalize(path) \in DOMAIN registry
       THEN progress' = "refused" /\ UNCHANGED registry
       ELSE /\ registry' = [e \in DOMAIN registry \cup {Normalize(path)} |->
                                IF e \in DOMAIN registry THEN registry[e] ELSE protocol]
            /\ UNCHANGED progress
    /\ UNCHANGED <<engineVars, endpoint, payload, parsed, upstream>>

\* A path no adapter is registered for, or a body that is no JSON object, is
\* forwarded as it came; Gateway has both.
Receive(path) ==
    /\ progress = "setup"
    /\ Normalize(path) \in DOMAIN registry
    /\ endpoint' = Normalize(path)
    /\ payload' \in PayloadsFor[Normalize(path)]
    /\ progress' = "parse"
    /\ UNCHANGED <<engineVars, registry, parsed, upstream>>

\* The blocks as the planner sees them, and what parse raises as an exception
\* that makes prepare forward the payload as it came.
Plain(blocks) == [i \in DOMAIN blocks |-> [kind |-> blocks[i].kind,
                                          turn |-> blocks[i].turn,
                                          text |-> blocks[i].text]]

ParsePayload ==
    /\ progress = "parse"
    /\ parsed' = Parse(registry[endpoint], payload)
    /\ IF parsed'.raises
       THEN progress' = "sent" /\ upstream' = payload
       ELSE progress' = "optimize" /\ UNCHANGED upstream
    /\ UNCHANGED <<engineVars, registry, endpoint, payload>>

OptimizeParsed(c) ==
    /\ progress = "optimize"
    /\ \/ Optimize(c, [blocks |-> Plain(parsed.blocks), wireSafe |-> parsed.safe])
       \/ CallStep(c)
    /\ UNCHANGED requestVars

Rendered(body) ==
    [i \in DOMAIN body |-> IF body[i].dup = 0 THEN body[i].text ELSE Marker]

SerializeResult(c) ==
    /\ progress = "optimize"
    /\ stage[c] = "returned"
    /\ progress' = "sent"
    /\ upstream' = IF result[c].optimized
                   THEN SerializeBlocks(payload, parsed.blocks, Rendered(result[c].body))
                   ELSE payload
    /\ UNCHANGED <<engineVars, registry, endpoint, payload, parsed>>

AdaptedNext ==
    \/ \E r \in Registrations : Register(r[1], r[2])
    \/ \E path \in Paths : Receive(path)
    \/ ParsePayload
    \/ \E c \in Calls : OptimizeParsed(c) \/ SerializeResult(c)

AdaptedSpec == AdaptedInit /\ [][AdaptedNext]_adaptedVars
-----------------------------------------------------------------------------
(* Properties *)

Rewritten == progress = "sent" /\ \E c \in Calls : stage[c] = "returned" /\ result[c].optimized
Originals(blocks) == [i \in DOMAIN blocks |-> blocks[i].text]

\* "Reversible", down to the wire: the originals of the blocks, put back at their
\* paths, make the payload the client sent; whatever no block stands for (roles,
\* ids, citations, calls, unknown fields) is as the client sent it.
OriginalsRestorePayload ==
    progress = "sent" =>
        SerializeBlocks(upstream, parsed.blocks, Originals(parsed.blocks)) = payload

\* The upstream reads the rewritten request as the planner decided it: parsing
\* what was sent gives the blocks of the payload, in the same order and turns,
\* with the rewritten texts, and nothing that is not understood.
SentParsesAsDecided ==
    Rewritten => \A c \in Calls :
        Parse(registry[endpoint], upstream) =
            [parsed EXCEPT !.blocks = [i \in DOMAIN parsed.blocks |->
                [parsed.blocks[i] EXCEPT !.text =
                    IF parsed.blocks[i].path = NoPath THEN @
                    ELSE Rendered(result[c].body)[i]]]]

\* The elements of a value, and those below a set of elements.
Kids(v)  == IF IsList(v) THEN {v.items[i] : i \in DOMAIN v.items} ELSE {}
Below(S) == UNION {Kids(e.content) : e \in {x \in S : IsMap(x)}}

\* Every element and every text of the conversation, at any depth.
Elements(p) ==
    LET top == Kids(p.value[System]) \cup Kids(p.value[Body])
    IN  top \cup Below(top) \cup Below(Below(top))

TextsOf(p) ==
    {v.text : v \in {w \in {p.value[System], p.value[Body]}
                           \cup {e.content : e \in {x \in Elements(p) : IsMap(x)}} :
                      IsStr(w)}}

\* The elements a type says something about: what the instructions and the items
\* are made of, not the items themselves.
PartsOf(p) ==
    LET items == Kids(p.value[Body])
    IN  Kids(p.value[System]) \cup Below(items) \cup Below(Below(items))

\* A request is rewritten only when the planner saw all of its conversation: no
\* constraint, decision or exact edit stands in a text it was not given.
EveryTextWasPlanned ==
    Rewritten => TextsOf(payload) \subseteq {parsed.blocks[i].text : i \in DOMAIN parsed.blocks}

\* What is bound to the bytes around it is never in a rewritten request: signed
\* thinking, thoughts, and texts citations point into.
SignedAndCitedUntouched ==
    Rewritten => \A e \in PartsOf(payload) :
        /\ TypeOf(e) \notin {"thinking", "redacted_thinking", "thought"}
        /\ registry[endpoint] = "anthropic_messages" /\ TypeOf(e) = "text" => ~Cited(e)

\* README "Active/latest turn | Byte-protected": the last item or message reaches
\* the upstream as it came, as do instructions and tools, whatever turn the
\* adapter gave its parts.
ActiveItemUntouched ==
    progress = "sent" =>
        /\ upstream.value[System] = payload.value[System]
        /\ upstream.tools = payload.tools
        /\ IsList(payload.value[Body]) =>
              LET items == payload.value[Body].items
                  sent  == upstream.value[Body].items
              IN  items # <<>> => sent[Len(items)] = items[Len(items)]
=============================================================================
