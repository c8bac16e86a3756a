------------------------------ MODULE Gateway ------------------------------
(***************************************************************************)
(* gateway.py and metrics.py: the handler threads of the HTTP gateway.     *)
(*                                                                         *)
(* ThreadingHTTPServer runs do_POST of every request in a thread of its    *)
(* own: GatewayCore.prepare decides what to send, with one call of the     *)
(* engine and one row in the metrics table, then the handler forwards and  *)
(* relays.  Threads share the recovery store and the metrics table.        *)
(***************************************************************************)
EXTENDS Engine

CONSTANTS Inputs      \* what a client may send

Requests == Calls     \* a request makes at most one call of the engine

\* payload: what json.loads makes of the body: an object, something prepare
\* rejects as invalid_json, or an exception it does not catch (RecursionError).
Input == [endpoint : {"supported", "unsupported"},
          payload  : {"object", "invalid", "too_deep"},
          env      : Envelopes]   \* what adapter.parse makes of an object

ASSUME GatewayAssumption == Inputs \subseteq Input

VARIABLES
    request,    \* what each client sends
    phase,      \* where its handler is
    prepared,   \* its PreparedRequest
    events,     \* the rows of the metrics table, grouped by request
    wire        \* the bodies the upstream has received for it

handlerVars == <<request, phase, prepared, events, wire>>
gatewayVars == <<engineVars, handlerVars>>

Phases == {"new", "bare", "optimizing", "record", "record_last", "send",
           "await", "relaying", "answered", "truncated", "dropped"}

GatewayReasons == Reasons \cup {"unsupported_endpoint", "invalid_json"}

Prepared == [rewritten : BOOLEAN, body : Seq(WireBlock),
             reasons : SUBSET GatewayReasons]

Raw(reasons) == [rewritten |-> FALSE, body |-> <<>>, reasons |-> reasons]

Message(p) == [rewritten |-> p.rewritten, body |-> p.body]

GatewayInit ==
    /\ EngineInit
    /\ request \in [Requests -> Inputs]
    /\ phase    = [q \in Requests |-> "new"]
    /\ prepared = [q \in Requests |-> Raw({})]
    /\ events   = [q \in Requests |-> <<>>]
    /\ wire     = [q \in Requests |-> <<>>]

Goto(q, from, to) ==
    /\ phase[q] = from
    /\ phase' = [phase EXCEPT ![q] = to]

-----------------------------------------------------------------------------
(* prepare(): the endpoint, the JSON, and the two early returns *)

\* The whole of prepare's first half, up to adapter.parse.
Resolve(q) ==
    /\ \/ /\ request[q].endpoint = "unsupported"
          /\ Goto(q, "new", "bare")
          /\ prepared' = [prepared EXCEPT ![q] = Raw({"unsupported_endpoint"})]
       \/ /\ request[q].endpoint = "supported"
          /\ request[q].payload = "invalid"
          /\ Goto(q, "new", "bare")
          /\ prepared' = [prepared EXCEPT ![q] = Raw({"invalid_json"})]
       \/ /\ request[q].endpoint = "supported"
          /\ request[q].payload = "too_deep"
          /\ Goto(q, "new", "dropped")
          /\ UNCHANGED prepared
       \/ /\ request[q].endpoint = "supported"
          /\ request[q].payload = "object"
          /\ Goto(q, "new", "optimizing")
          /\ UNCHANGED prepared
    /\ UNCHANGED <<engineVars, request, events, wire>>

-----------------------------------------------------------------------------
(* prepare(): the try block *)

\* Mutant of FallBack: the reasons change, the rewritten body stays.
FallBackKeepingBody(q, from) ==
    /\ Goto(q, from, "record_last")
    /\ prepared' = [prepared EXCEPT ![q].reasons = {"fallback_internal_error"}]

\* Mutant of FallBack: what went wrong is named by the step it happened in.
FallBackNamingStep(q, from) ==
    /\ Goto(q, from, "record_last")
    /\ prepared' = [prepared EXCEPT ![q] = Raw({"fallback_internal_error", from})]

\* The except branch: the raw body, whatever the try block had prepared.
FallBack(q, from) ==
    /\ Goto(q, from, "record_last")
    /\ prepared' = [prepared EXCEPT ![q] = Raw({"fallback_internal_error"})]

ParseRaises(q) ==
    /\ "parse" \in Faults
    /\ stage[q] = "idle"
    /\ FallBack(q, "optimizing")
    /\ UNCHANGED <<engineVars, request, events, wire>>

\* adapter.parse succeeds, and engine.optimize runs in this thread.
EngineStep(q) ==
    /\ phase[q] = "optimizing"
    /\ \/ Optimize(q, request[q].env)
       \/ PlanRaises(q, request[q].env)
       \/ CallStep(q)
    /\ UNCHANGED handlerVars

\* Mutant of Serialize: any result that changed something is sent.
SerializeAnyway(q) ==
    /\ stage[q] = "returned"
    /\ Goto(q, "optimizing", "record")
    /\ prepared' = [prepared EXCEPT ![q] =
                       [rewritten |-> changed[q] # {}, body |-> work[q],
                        reasons |-> result[q].reasons]]
    /\ UNCHANGED <<engineVars, request, events, wire>>

Serialize(q) ==
    /\ stage[q] = "returned"
    /\ Goto(q, "optimizing", "record")
    /\ prepared' = [prepared EXCEPT ![q] =
                       IF result[q].optimized
                       THEN [rewritten |-> TRUE, body |-> result[q].body,
                             reasons |-> result[q].reasons]
                       ELSE Raw(result[q].reasons)]
    /\ UNCHANGED <<engineVars, request, events, wire>>

SerializeRaises(q) ==
    /\ "serialize" \in Faults
    /\ stage[q] = "returned" /\ result[q].optimized
    /\ FallBack(q, "optimizing")
    /\ UNCHANGED <<engineVars, request, events, wire>>

\* Mutant of EngineRaised: optimize is called outside the try block.
EngineRaisedEscapes(q) ==
    /\ stage[q] = "raised"
    /\ Goto(q, "optimizing", "dropped")
    /\ UNCHANGED <<engineVars, request, prepared, events, wire>>

EngineRaised(q) ==
    /\ stage[q] = "raised"
    /\ FallBack(q, "optimizing")
    /\ UNCHANGED <<engineVars, request, events, wire>>

-----------------------------------------------------------------------------
(* _record: one INSERT, committed or not.  In the try block it carries the *)
(* engine's estimates; a failure there is one more reason to fall back.    *)
(* The other two calls are outside any try: their failure ends do_POST.    *)

\* Mutant of Row: an event that does not get the result.
RowWithoutEstimates(q) ==
    [optimized |-> prepared[q].rewritten, before |-> 0, after |-> 0]

\* A row; NULL estimates are 0, as SUM counts them.
Row(q) == IF phase[q] = "record"
          THEN [optimized |-> prepared[q].rewritten,
                before |-> result[q].before, after |-> result[q].after]
          ELSE [optimized |-> prepared[q].rewritten, before |-> 0, after |-> 0]

Record(q) ==
    /\ phase[q] \in {"bare", "record", "record_last"}
    /\ phase'  = [phase EXCEPT ![q] = "send"]
    /\ events' = [events EXCEPT ![q] = Append(@, Row(q))]
    /\ UNCHANGED <<engineVars, request, prepared, wire>>

\* Mutant of RecordRaises: the row survives its exception.
RecordRaisesCommitted(q) ==
    /\ "metrics" \in Faults
    /\ FallBack(q, "record")
    /\ events' = [events EXCEPT ![q] = Append(@, Row(q))]
    /\ UNCHANGED <<engineVars, request, wire>>

RecordRaises(q) ==
    /\ "metrics" \in Faults
    /\ FallBack(q, "record")
    /\ UNCHANGED <<engineVars, request, events, wire>>

RecordRaisesLast(q) ==
    /\ "metrics" \in Faults
    /\ Goto(q, phase[q], "dropped")
    /\ phase[q] \in {"bare", "record_last"}
    /\ UNCHANGED <<engineVars, request, prepared, events, wire>>

-----------------------------------------------------------------------------
(* do_POST after prepare: urlopen and _write_upstream_response *)

Send(q) ==
    /\ Goto(q, "send", "await")
    /\ wire' = [wire EXCEPT ![q] = Append(@, Message(prepared[q]))]
    /\ UNCHANGED <<engineVars, request, prepared, events>>

\* Connection refused, or no answer within the timeout: URLError and
\* TimeoutError are not caught.
UpstreamFails(q) ==
    /\ "upstream" \in Faults
    /\ phase[q] \in {"send", "await"}
    /\ phase' = [phase EXCEPT ![q] = "dropped"]
    /\ UNCHANGED <<engineVars, request, prepared, events, wire>>

\* The status line and the headers, of an answer or of an HTTPError.
Respond(q) ==
    /\ Goto(q, "await", "relaying")
    /\ UNCHANGED <<engineVars, request, prepared, events, wire>>

\* The body, chunk by chunk, to its end.
Relay(q) ==
    /\ Goto(q, "relaying", "answered")
    /\ UNCHANGED <<engineVars, request, prepared, events, wire>>

\* A read fails or the upstream closes early.  content-length was stripped, so
\* the client sees an answer that merely ends.
RelayStops(q) ==
    /\ "upstream" \in Faults
    /\ Goto(q, "relaying", "truncated")
    /\ UNCHANGED <<engineVars, request, prepared, events, wire>>

-----------------------------------------------------------------------------
Open(q) == phase[q] \notin {"new", "answered", "truncated", "dropped"}

\* The process dies.  Both databases keep what was committed; requests that
\* arrive after the restart start from "new".
Crash ==
    /\ "crash" \in Faults
    /\ \E q \in Requests : Open(q)
    /\ phase' = [q \in Requests |-> IF Open(q) THEN "dropped" ELSE phase[q]]
    /\ stage' = [q \in Requests |-> IF InFlight(q) THEN "lost" ELSE stage[q]]
    /\ UNCHANGED <<store, env, cursor, work, changed, refs, result,
                   request, prepared, events, wire>>

HandlerStep(q) ==
    \/ ParseRaises(q) \/ EngineStep(q) \/ EngineRaised(q)
    \/ Serialize(q) \/ SerializeRaises(q)
    \/ Record(q) \/ RecordRaises(q) \/ RecordRaisesLast(q)
    \/ Send(q) \/ UpstreamFails(q) \/ Respond(q) \/ Relay(q) \/ RelayStops(q)

GatewayNext ==
    \/ \E q \in Requests : Resolve(q) \/ HandlerStep(q)
    \/ Crash

\* What a handler thread does when nothing fails; urlopen's timeout bounds its
\* wait for the upstream.
HandlerProgress(q) ==
    \/ /\ EngineStep(q)
       /\ Optimize(q, request[q].env) \/ CallProgress(q)
    \/ EngineRaised(q) \/ Serialize(q) \/ Record(q) \/ Send(q)
    \/ Respond(q) \/ UpstreamFails(q) \/ Relay(q)

\* A started handler thread keeps running; no fault has to happen.
GatewaySpec == GatewayInit /\ [][GatewayNext]_gatewayVars
                           /\ \A q \in Requests : WF_gatewayVars(HandlerProgress(q))

-----------------------------------------------------------------------------
(* metrics.summary *)

Sum(f(_)) == MapThenSumSet(LAMBDA q : MapThenSumSet(LAMBDA k : f(events[q][k]),
                                                    DOMAIN events[q]), Requests)
Saved == Sum(LAMBDA e : e.before - e.after)

-----------------------------------------------------------------------------
(* Properties *)

\* The shape of the handlers' variables; what _record writes as reason_codes are
\* codes, whichever step failed.
GatewayTypeOK ==
    /\ EngineTypeOK
    /\ request \in [Requests -> Inputs]
    /\ phase \in [Requests -> Phases]
    /\ prepared \in [Requests -> Prepared]
    /\ DOMAIN events = Requests
    /\ \A q \in Requests : \A k \in DOMAIN events[q] : events[q][k].optimized \in BOOLEAN
    /\ wire \in [Requests -> Seq([rewritten : BOOLEAN, body : Seq(WireBlock)])]

\* SECURITY "Failure behavior": no error, in whatever step and combination,
\* lets a partially rewritten body reach the upstream: what is forwarded is
\* the client's bytes or the whole rewriting of a request nothing told the
\* planner to leave alone, faithful as long as the store lasts, and it is
\* forwarded once.
OnlyWholeRewritings ==
    \A q \in Requests :
        /\ Len(wire[q]) =< 1
        /\ \A k \in DOMAIN wire[q] : wire[q][k].rewritten =>
              /\ request[q].endpoint = "supported"
              /\ request[q].payload = "object"
              /\ BypassReasons(request[q].env) = {}
              /\ wire[q][k].body = WholeRewriting(request[q].env.blocks)
              /\ Faithful(request[q].env.blocks, wire[q][k].body, store)

\* metrics.py: the table tells what went over the wire.  A request the upstream
\* received has exactly one row, of the decision it was forwarded with and of
\* the estimates of both bodies; no request ever has two, though a failed
\* INSERT is retried with another row.
WireIsAccounted ==
    \A q \in Requests :
        /\ Len(events[q]) =< 1
        /\ wire[q] # <<>> =>
              /\ Len(events[q]) = 1
              /\ events[q][1].optimized = wire[q][1].rewritten
              /\ wire[q][1].rewritten =>
                    /\ events[q][1].before = EstimateTokens(Original(request[q].env.blocks))
                    /\ events[q][1].after = EstimateTokens(wire[q][1].body)

\* summary()'s estimated_input_saved never falls short of the estimates the
\* upstream was spared: crashes and failed sends can only make it too high.
SavingsCoverTheWire ==
    Saved >= MapThenSumSet(
                 LAMBDA q : IF wire[q] # <<>> /\ wire[q][1].rewritten
                            THEN EstimateTokens(Original(request[q].env.blocks))
                                   - EstimateTokens(wire[q][1].body)
                            ELSE 0, Requests)

\* README "Risky or unsupported requests are forwarded unchanged", with a
\* parser, planner, reducer, serializer or recovery store that may fail at any
\* step: the request still reaches the upstream and the client gets an answer.
FailsOpen ==
    \A q \in Requests : Open(q) ~> phase[q] = "answered"

\* The two refinements of the promise that a client can see broken: an
\* unsupported endpoint, and a body whose JSON does not parse.
UnsupportedIsForwarded ==
    \A q \in Requests :
        request[q].endpoint = "unsupported" /\ phase[q] = "dropped" => wire[q] # <<>>

MalformedIsForwarded ==
    \A q \in Requests :
        request[q].payload # "object" /\ phase[q] = "dropped" => wire[q] # <<>>

-----------------------------------------------------------------------------
(* The inductive invariant of the handlers, next to EngineInv: what each   *)
(* phase knows of the call, the prepared request, the row and the wire.    *)

Unrecorded == {"new", "bare", "optimizing", "record", "record_last"}
Forwarded  == {"await", "relaying", "answered", "truncated"}

\* The handler's local state agrees with its call of the engine.
HandlerKnows(q) ==
    /\ phase[q] \in {"new", "bare"} => stage[q] = "idle"
    /\ phase[q] = "optimizing" \/ stage[q] # "idle" =>
          request[q].endpoint = "supported" /\ request[q].payload = "object"
    /\ stage[q] # "idle" => env[q] = request[q].env
    /\ phase[q] = "record" => stage[q] = "returned"
    /\ phase[q] \in Unrecorded \ {"record"} => ~prepared[q].rewritten
    /\ IF prepared[q].rewritten
       THEN ReturnedOptimized(q) /\ prepared[q].body = result[q].body
       ELSE prepared[q].body = <<>>

\* The row and the wire agree with the prepared request.
RowAndWire(q) ==
    /\ phase[q] \in Unrecorded => events[q] = <<>>
    /\ phase[q] \in Unrecorded \cup {"send"} => wire[q] = <<>>
    /\ phase[q] \in Forwarded \cup {"send"} => events[q] # <<>>
    /\ events[q] # <<>> =>
          /\ Len(events[q]) = 1
          /\ events[q][1].optimized = prepared[q].rewritten
          /\ prepared[q].rewritten => /\ events[q][1].before = result[q].before
                                     /\ events[q][1].after = result[q].after
    /\ wire[q] # <<>> => wire[q] = <<Message(prepared[q])>> /\ events[q] # <<>>

\* Every handler's phase, call, row and message agree.
HandlersOnTrack == \A q \in Requests : HandlerKnows(q) /\ RowAndWire(q)

GatewayInv == EngineInv /\ GatewayTypeOK /\ HandlersOnTrack

\* No result and no row says that optimizing cost anything.
NeverCosts(r) == r.before \in Nat /\ r.after \in Nat /\ r.after =< r.before

EstimatesInv ==
    /\ \A q \in Requests : NeverCosts(result[q])
    /\ \A q \in Requests :
          events[q] # <<>> => DOMAIN events[q] = {1} /\ NeverCosts(events[q][1])

-----------------------------------------------------------------------------
(* The gateway implements the fail-open proxy. *)

FateOf(p) ==
    CASE p = "new" -> "new"
      [] p \in {"bare", "optimizing", "record", "record_last", "send"} -> "open"
      [] p \in {"await", "relaying"} -> "sent"
      [] p = "answered" -> "answered"
      [] p \in {"truncated", "dropped"} -> "dropped"

Proxy == INSTANCE FailOpenProxy WITH
            fate <- [q \in Requests |-> FateOf(phase[q])],
            kept <- store

\* Every behaviour of the handlers, the engine and the databases is one of the
\* proxy: FailOpenProxy is what a client can rely on.
ImplementsProxy == Proxy!ProxySpec
=============================================================================
