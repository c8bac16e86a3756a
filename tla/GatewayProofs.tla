---------------------------- MODULE GatewayProofs ----------------------------
(***************************************************************************)
(* Proofs about Gateway: the inductive invariant GatewayInv, what reaches  *)
(* the upstream, what the metrics table says of it and adds up to, and the *)
(* refinement of FailOpenProxy, for any texts, inputs, faults and requests.*)
(***************************************************************************)
EXTENDS Gateway, EngineProofs, FiniteSetTheorems

-----------------------------------------------------------------------------
(* What the steps leave alone *)

LEMMA InputType ==
    ASSUME GatewayTypeOK, NEW q \in Requests
    PROVE  request[q] \in Input /\ request[q].env \in Envelopes
BY GatewayAssumption DEF GatewayTypeOK, Input

\* A step of one handler leaves what the others know as it is.
LEMMA OthersKnow ==
    ASSUME HandlersOnTrack, NEW q \in Requests,
           HandlerKnows(q)', RowAndWire(q)', request' = request,
           \A d \in Requests \ {q} :
              /\ phase'[d] = phase[d] /\ stage'[d] = stage[d]
              /\ env'[d] = env[d] /\ result'[d] = result[d]
              /\ prepared'[d] = prepared[d]
              /\ events'[d] = events[d] /\ wire'[d] = wire[d]
    PROVE  HandlersOnTrack'
<1>1. ASSUME NEW d \in Requests \ {q} PROVE HandlerKnows(d)' /\ RowAndWire(d)'
  <2>1. HandlerKnows(d) /\ RowAndWire(d)
    BY DEF HandlersOnTrack
  <2>2. HandlerKnows(d)'
    BY <2>1 DEF HandlerKnows, ReturnedOptimized
  <2>3. RowAndWire(d)'
    BY <2>1 DEF RowAndWire, Message
  <2> QED BY <2>2, <2>3
<1> QED BY <1>1 DEF HandlersOnTrack

\* One step of the engine, seen from the handlers: only the call of one request
\* moves, and the store only grows.
LEMMA EngineMoves ==
    ASSUME EngineInv, NEW q \in Requests, NEW e \in Envelopes,
           Optimize(q, e) \/ PlanRaises(q, e) \/ CallStep(q)
    PROVE  /\ EngineInv'
           /\ store \subseteq store'
           /\ \A d \in Requests \ {q} :
                 stage'[d] = stage[d] /\ env'[d] = env[d] /\ result'[d] = result[d]
           /\ IF stage[q] = "idle" THEN env'[q] = e ELSE env'[q] = env[q]
           /\ stage'[q] # "idle"
<1> USE DEF Requests
<1>1. EngineInv'
  BY OptimizeStep, PlanRaisesStep, CallStepInv, EngineAssumption
<1>2. CASE Optimize(q, e)
  BY <1>1, <1>2 DEF Optimize, Return, EngineInv, EngineTypeOK
<1>3. CASE PlanRaises(q, e)
  BY <1>1, <1>3 DEF PlanRaises, EngineInv, EngineTypeOK
<1>4. CASE Reduce(q)
  BY <1>1, <1>4 DEF Reduce, MoveOn, EngineInv, EngineTypeOK
<1>5. CASE ReduceRaises(q)
  BY <1>1, <1>5 DEF ReduceRaises, Return, EngineInv, EngineTypeOK
<1>6. CASE Dedup(q)
  BY <1>1, <1>6 DEF Dedup, EngineInv, EngineTypeOK
<1>7. CASE DedupRaises(q)
  BY <1>1, <1>7 DEF DedupRaises, EngineInv, EngineTypeOK
<1>8. CASE Decide(q)
  BY <1>1, <1>8 DEF Decide, Return, EngineInv, EngineTypeOK
<1> QED BY <1>2, <1>3, <1>4, <1>5, <1>6, <1>7, <1>8 DEF CallStep, CallProgress
-----------------------------------------------------------------------------
(* The steps *)

LEMMA GatewayInitInv == GatewayInit => GatewayInv
<1> SUFFICES ASSUME GatewayInit PROVE GatewayInv
  OBVIOUS
<1>1. EngineInv
  BY EngineInitInv DEF GatewayInit
<1>2. GatewayTypeOK
  <2>1. Raw({}) \in Prepared
    BY DEF Raw, Prepared
  <2> QED BY <1>1, <2>1 DEF GatewayInit, GatewayTypeOK, EngineInv, Phases
<1>3. \A q \in Requests : stage[q] = "idle"
  BY DEF GatewayInit, EngineInit, Requests
<1>4. ASSUME NEW q \in Requests PROVE HandlerKnows(q) /\ RowAndWire(q)
  <2>1. /\ phase[q] = "new" /\ prepared[q] = Raw({}) /\ events[q] = <<>> /\ wire[q] = <<>>
        /\ stage[q] = "idle"
    BY <1>3 DEF GatewayInit
  <2> QED BY <2>1 DEF HandlerKnows, RowAndWire, Raw, Unrecorded, Forwarded
<1> QED BY <1>1, <1>2, <1>4 DEF GatewayInv, HandlersOnTrack

\* A step outside the engine keeps the engine's invariant.
LEMMA EngineRests ==
    ASSUME GatewayInv, UNCHANGED engineVars
    PROVE  /\ EngineInv' /\ EngineTypeOK'
           /\ stage' = stage /\ env' = env /\ result' = result /\ store' = store
BY EngineStutterStep DEF GatewayInv, EngineInv, engineVars, callVars

\* The shape of a request prepared by one of the early returns or fallbacks.
LEMMA RawType ==
    ASSUME NEW reasons \in SUBSET GatewayReasons
    PROVE  Raw(reasons) \in Prepared /\ ~Raw(reasons).rewritten /\ Raw(reasons).body = <<>>
BY DEF Raw, Prepared

LEMMA ResolveStep ==
    ASSUME GatewayInv, NEW q \in Requests, Resolve(q)
    PROVE  GatewayInv'
<1> USE DEF GatewayInv
<1>1. /\ EngineInv' /\ EngineTypeOK'
      /\ stage' = stage /\ env' = env /\ result' = result
      /\ request' = request /\ events' = events /\ wire' = wire
  BY EngineRests DEF Resolve
<1>2. PICK to \in {"bare", "dropped", "optimizing"} :
         /\ phase[q] = "new" /\ phase' = [phase EXCEPT ![q] = to]
         /\ to = "optimizing" =>
               request[q].endpoint = "supported" /\ request[q].payload = "object"
  BY DEF Resolve, Goto
<1>3. \/ prepared' = prepared
      \/ \E reasons \in SUBSET GatewayReasons : prepared' = [prepared EXCEPT ![q] = Raw(reasons)]
  <2>1. {"unsupported_endpoint"} \in SUBSET GatewayReasons /\ {"invalid_json"} \in SUBSET GatewayReasons
    BY DEF GatewayReasons
  <2> QED BY <2>1 DEF Resolve
<1>4. prepared' \in [Requests -> Prepared] /\ ~prepared'[q].rewritten /\ prepared'[q].body = <<>>
  <2>1. ~prepared[q].rewritten /\ prepared[q].body = <<>>
    BY <1>2 DEF HandlersOnTrack, HandlerKnows, Unrecorded
  <2>2. CASE prepared' = prepared
    BY <2>1, <2>2 DEF GatewayTypeOK
  <2>3. ASSUME NEW reasons \in SUBSET GatewayReasons,
               prepared' = [prepared EXCEPT ![q] = Raw(reasons)]
        PROVE  prepared' \in [Requests -> Prepared] /\ ~prepared'[q].rewritten /\ prepared'[q].body = <<>>
    BY <2>3, RawType DEF GatewayTypeOK
  <2> QED BY <1>3, <2>2, <2>3
<1>5. GatewayTypeOK'
  BY <1>1, <1>2, <1>4 DEF GatewayTypeOK, Phases
<1>6. HandlerKnows(q)' /\ RowAndWire(q)'
  <2>1. HandlerKnows(q) /\ RowAndWire(q) /\ phase'[q] = to
    BY <1>2 DEF HandlersOnTrack, GatewayTypeOK
  <2>2. events[q] = <<>> /\ wire[q] = <<>> /\ stage[q] = "idle"
    BY <1>2, <2>1 DEF HandlerKnows, RowAndWire, Unrecorded
  <2> QED BY <1>1, <1>2, <1>4, <2>1, <2>2 DEF HandlerKnows, RowAndWire, Unrecorded, Forwarded
<1>7. \A d \in Requests \ {q} : phase'[d] = phase[d] /\ prepared'[d] = prepared[d]
  BY <1>2, <1>3 DEF GatewayTypeOK
<1> QED BY <1>1, <1>5, <1>6, <1>7, OthersKnow

LEMMA EngineStepStep ==
    ASSUME GatewayInv, NEW q \in Requests, EngineStep(q)
    PROVE  GatewayInv'
<1> USE DEF GatewayInv
<1> DEFINE e == request[q].env
<1>1. e \in Envelopes
  BY InputType
<1>2. /\ EngineInv'
      /\ \A d \in Requests \ {q} :
            stage'[d] = stage[d] /\ env'[d] = env[d] /\ result'[d] = result[d]
      /\ IF stage[q] = "idle" THEN env'[q] = e ELSE env'[q] = env[q]
  BY <1>1, EngineMoves DEF EngineStep
<1>3. /\ phase[q] = "optimizing" /\ phase' = phase /\ request' = request
      /\ prepared' = prepared /\ events' = events /\ wire' = wire
  BY DEF EngineStep, handlerVars
<1>4. GatewayTypeOK'
  BY <1>2, <1>3 DEF GatewayTypeOK, EngineInv
<1>5. HandlerKnows(q) /\ RowAndWire(q)
  BY DEF HandlersOnTrack
<1>6. env'[q] = e
  BY <1>2, <1>5 DEF HandlerKnows
<1>7. HandlerKnows(q)' /\ RowAndWire(q)'
  BY <1>3, <1>5, <1>6 DEF HandlerKnows, RowAndWire, Unrecorded, Forwarded, Message
<1> QED BY <1>2, <1>3, <1>4, <1>7, OthersKnow

\* The except branch, from wherever the try block was.
LEMMA FallBackStep ==
    ASSUME GatewayInv, NEW q \in Requests, NEW from \in {"optimizing", "record"},
           FallBack(q, from), UNCHANGED <<engineVars, request, events, wire>>
    PROVE  GatewayInv'
<1> USE DEF GatewayInv
<1>1. /\ EngineInv' /\ EngineTypeOK'
      /\ stage' = stage /\ env' = env /\ result' = result
      /\ request' = request /\ events' = events /\ wire' = wire
  BY EngineRests
<1> DEFINE raw == Raw({"fallback_internal_error"})
<1>2. /\ phase[q] = from /\ phase' = [phase EXCEPT ![q] = "record_last"]
      /\ prepared' = [prepared EXCEPT ![q] = raw]
  BY DEF FallBack, Goto
<1>3. raw \in Prepared /\ ~raw.rewritten /\ raw.body = <<>>
  <2>1. {"fallback_internal_error"} \in SUBSET GatewayReasons
    BY DEF GatewayReasons, Reasons
  <2> QED BY <2>1, RawType
<1> HIDE DEF raw
<1>4. GatewayTypeOK'
  BY <1>1, <1>2, <1>3 DEF GatewayTypeOK, Phases
<1>5. HandlerKnows(q)' /\ RowAndWire(q)'
  <2>1. phase'[q] = "record_last" /\ prepared'[q] = raw
    BY <1>2 DEF GatewayTypeOK
  <2>2. HandlerKnows(q) /\ RowAndWire(q)
    BY DEF HandlersOnTrack
  <2>3. events[q] = <<>> /\ wire[q] = <<>>
    BY <1>2, <2>2 DEF RowAndWire, Unrecorded
  <2> QED BY <1>1, <1>3, <2>1, <2>2, <2>3 DEF HandlerKnows, RowAndWire, Unrecorded, Forwarded
<1>6. \A d \in Requests \ {q} : phase'[d] = phase[d] /\ prepared'[d] = prepared[d]
  BY <1>2 DEF GatewayTypeOK
<1> QED BY <1>1, <1>4, <1>5, <1>6, OthersKnow
LEMMA SerializeStep ==
    ASSUME GatewayInv, NEW q \in Requests, Serialize(q)
    PROVE  GatewayInv'
<1> USE DEF GatewayInv
<1> DEFINE p == IF result[q].optimized
                THEN [rewritten |-> TRUE, body |-> result[q].body,
                      reasons |-> result[q].reasons]
                ELSE Raw(result[q].reasons)
<1>1. /\ EngineInv' /\ EngineTypeOK'
      /\ stage' = stage /\ env' = env /\ result' = result
      /\ request' = request /\ events' = events /\ wire' = wire
  BY EngineRests DEF Serialize
<1>2. /\ stage[q] = "returned" /\ phase[q] = "optimizing"
      /\ phase' = [phase EXCEPT ![q] = "record"]
      /\ prepared' = [prepared EXCEPT ![q] = p]
  BY DEF Serialize, Goto
<1>3. /\ result[q].optimized \in BOOLEAN /\ result[q].body \in Seq(WireBlock)
      /\ result[q].reasons \in SUBSET GatewayReasons
  BY DEF EngineInv, EngineTypeOK, GatewayReasons, Requests
<1>4. p \in Prepared
  BY <1>3, RawType DEF Prepared
<1>5. IF p.rewritten THEN result[q].optimized /\ p.body = result[q].body ELSE p.body = <<>>
  BY <1>3 DEF Raw
<1> HIDE DEF p
<1>6. GatewayTypeOK'
  BY <1>1, <1>2, <1>4 DEF GatewayTypeOK, Phases
<1>7. HandlerKnows(q)' /\ RowAndWire(q)'
  <2>1. phase'[q] = "record" /\ prepared'[q] = p
    BY <1>2 DEF GatewayTypeOK
  <2>2. HandlerKnows(q) /\ RowAndWire(q)
    BY DEF HandlersOnTrack
  <2>3. events[q] = <<>> /\ wire[q] = <<>>
    BY <1>2, <2>2 DEF RowAndWire, Unrecorded
  <2>4. HandlerKnows(q)'
    BY <1>1, <1>2, <1>5, <2>1, <2>2 DEF HandlerKnows, Unrecorded, ReturnedOptimized
  <2>5. RowAndWire(q)'
    BY <1>1, <2>1, <2>3 DEF RowAndWire, Unrecorded, Forwarded
  <2> QED BY <2>4, <2>5
<1>8. \A d \in Requests \ {q} : phase'[d] = phase[d] /\ prepared'[d] = prepared[d]
  BY <1>2 DEF GatewayTypeOK
<1> QED BY <1>1, <1>6, <1>7, <1>8, OthersKnow

LEMMA RecordStep ==
    ASSUME GatewayInv, NEW q \in Requests, Record(q)
    PROVE  GatewayInv'
<1> USE DEF GatewayInv
<1>1. /\ EngineInv' /\ EngineTypeOK'
      /\ stage' = stage /\ env' = env /\ result' = result
      /\ request' = request /\ prepared' = prepared /\ wire' = wire
  BY EngineRests DEF Record
<1>2. /\ phase[q] \in {"bare", "record", "record_last"}
      /\ phase' = [phase EXCEPT ![q] = "send"]
      /\ events' = [events EXCEPT ![q] = Append(events[q], Row(q))]
  BY DEF Record
<1>3. HandlerKnows(q) /\ RowAndWire(q)
  BY DEF HandlersOnTrack
<1>4. events[q] = <<>> /\ wire[q] = <<>>
  BY <1>2, <1>3 DEF RowAndWire, Unrecorded
<1>5. phase'[q] = "send" /\ events'[q] = <<Row(q)>>
  BY <1>2, <1>4 DEF GatewayTypeOK
<1>6. /\ Row(q).optimized = prepared[q].rewritten
      /\ prepared[q].rewritten => /\ Row(q).before = result[q].before
                                  /\ Row(q).after = result[q].after
  <2>1. prepared[q].rewritten => phase[q] = "record"
    BY <1>2, <1>3 DEF HandlerKnows, Unrecorded
  <2> QED BY <2>1 DEF Row
<1>7. GatewayTypeOK'
  <2>1. prepared[q].rewritten \in BOOLEAN
    BY DEF GatewayTypeOK, Prepared
  <2>2. DOMAIN events' = Requests /\ \A d \in Requests \ {q} : events'[d] = events[d]
    BY <1>2 DEF GatewayTypeOK
  <2>3. \A d \in Requests : \A k \in DOMAIN events'[d] : events'[d][k].optimized \in BOOLEAN
    <3> DEFINE row == Row(q)
    <3> HIDE DEF row
    <3>1. events'[q] = <<row>> /\ row.optimized \in BOOLEAN
      BY <1>5, <1>6, <2>1 DEF row
    <3>2. ASSUME NEW k \in DOMAIN events'[q] PROVE events'[q][k].optimized \in BOOLEAN
      <4>1. k = 1
        BY <3>1
      <4> QED BY <3>1, <4>1
    <3>3. ASSUME NEW d \in Requests, d # q
          PROVE  \A k \in DOMAIN events'[d] : events'[d][k].optimized \in BOOLEAN
      BY <2>2, <3>3 DEF GatewayTypeOK
    <3> QED BY <3>2, <3>3
  <2> QED BY <1>1, <1>2, <2>2, <2>3 DEF GatewayTypeOK, Phases
<1>8. HandlerKnows(q)'
  BY <1>1, <1>2, <1>3, <1>5 DEF HandlerKnows, Unrecorded, ReturnedOptimized
<1>9. RowAndWire(q)'
  <2> DEFINE row == Row(q)
  <2> HIDE DEF row
  <2>1. events'[q] = <<row>>
    BY <1>5 DEF row
  <2>2. /\ row.optimized = prepared[q].rewritten
        /\ prepared[q].rewritten => /\ row.before = result[q].before
                                    /\ row.after = result[q].after
    BY <1>6 DEF row
  <2> QED BY <1>1, <1>4, <1>5, <2>1, <2>2 DEF RowAndWire, Unrecorded, Forwarded
<1>10. \A d \in Requests \ {q} : phase'[d] = phase[d] /\ events'[d] = events[d]
  BY <1>2 DEF GatewayTypeOK
<1> QED BY <1>1, <1>7, <1>8, <1>9, <1>10, OthersKnow

LEMMA SendStep ==
    ASSUME GatewayInv, NEW q \in Requests, Send(q)
    PROVE  /\ GatewayInv'
           /\ wire' = [wire EXCEPT ![q] = <<Message(prepared[q])>>]
<1> USE DEF GatewayInv
<1>1. /\ EngineInv' /\ EngineTypeOK'
      /\ stage' = stage /\ env' = env /\ result' = result
      /\ request' = request /\ prepared' = prepared /\ events' = events
  BY EngineRests DEF Send
<1>2. /\ phase[q] = "send" /\ phase' = [phase EXCEPT ![q] = "await"]
      /\ wire' = [wire EXCEPT ![q] = Append(wire[q], Message(prepared[q]))]
  BY DEF Send, Goto
<1>3. HandlerKnows(q) /\ RowAndWire(q)
  BY DEF HandlersOnTrack
<1>4. wire[q] = <<>> /\ events[q] # <<>>
  BY <1>2, <1>3 DEF RowAndWire
<1>5. wire' = [wire EXCEPT ![q] = <<Message(prepared[q])>>]
  <2>1. Append(wire[q], Message(prepared[q])) = <<Message(prepared[q])>>
    BY <1>4
  <2> QED BY <1>2, <2>1
<1>6. phase'[q] = "await" /\ wire'[q] = <<Message(prepared[q])>>
  BY <1>2, <1>5 DEF GatewayTypeOK
<1>7. GatewayTypeOK'
  <2>1. Message(prepared[q]) \in [rewritten : BOOLEAN, body : Seq(WireBlock)]
    BY DEF GatewayTypeOK, Prepared, Message
  <2>2. <<Message(prepared[q])>> \in Seq([rewritten : BOOLEAN, body : Seq(WireBlock)])
    BY <2>1
  <2> QED BY <1>1, <1>2, <1>5, <2>2 DEF GatewayTypeOK, Phases
<1>8. HandlerKnows(q)'
  BY <1>1, <1>2, <1>3, <1>6 DEF HandlerKnows, Unrecorded, ReturnedOptimized
<1>9. RowAndWire(q)'
  BY <1>1, <1>3, <1>4, <1>6 DEF RowAndWire, Unrecorded, Forwarded, Message
<1>10. \A d \in Requests \ {q} : phase'[d] = phase[d] /\ wire'[d] = wire[d]
  BY <1>2 DEF GatewayTypeOK
<1> QED BY <1>1, <1>5, <1>7, <1>8, <1>9, <1>10, OthersKnow

\* A step that only moves the phase: to "dropped" from anywhere, or on from the
\* moment the request was sent.
LEMMA PhaseStep ==
    ASSUME GatewayInv, NEW q \in Requests, NEW to \in Phases,
           phase' = [phase EXCEPT ![q] = to],
           \/ to = "dropped"
           \/ phase[q] \in Forwarded /\ to \in Forwarded,
           UNCHANGED <<engineVars, request, prepared, events, wire>>
    PROVE  GatewayInv'
<1> USE DEF GatewayInv
<1>1. /\ EngineInv' /\ EngineTypeOK'
      /\ stage' = stage /\ env' = env /\ result' = result
      /\ request' = request /\ prepared' = prepared /\ events' = events /\ wire' = wire
  BY EngineRests
<1>2. GatewayTypeOK'
  BY <1>1 DEF GatewayTypeOK
<1>3. HandlerKnows(q) /\ RowAndWire(q) /\ phase'[q] = to
  BY DEF HandlersOnTrack, GatewayTypeOK
<1>4. HandlerKnows(q)'
  BY <1>1, <1>3 DEF HandlerKnows, ReturnedOptimized, Unrecorded, Forwarded
<1>5. RowAndWire(q)'
  BY <1>1, <1>3 DEF RowAndWire, Unrecorded, Forwarded, Message
<1>6. \A d \in Requests \ {q} : phase'[d] = phase[d]
  BY DEF GatewayTypeOK
<1> QED BY <1>1, <1>2, <1>4, <1>5, <1>6, OthersKnow
LEMMA CrashStep ==
    ASSUME GatewayInv, Crash
    PROVE  GatewayInv'
<1> USE DEF GatewayInv
<1>1. /\ phase' = [q \in Requests |-> IF Open(q) THEN "dropped" ELSE phase[q]]
      /\ stage' = [q \in Requests |-> IF InFlight(q) THEN "lost" ELSE stage[q]]
      /\ UNCHANGED <<store, env, cursor, work, changed, refs, result,
                     request, prepared, events, wire>>
  BY DEF Crash
<1>2. EngineInv'
  <2>1. CASE \E q \in Requests : InFlight(q)
    BY <1>1, <2>1, EngineCrashStep DEF EngineCrash, Requests
  <2>2. CASE ~\E q \in Requests : InFlight(q)
    <3>1. stage' = stage
      BY <1>1, <2>2 DEF EngineInv, EngineTypeOK, Requests
    <3> QED BY <1>1, <3>1, EngineStutterStep DEF engineVars, callVars
  <2> QED BY <2>1, <2>2
<1>3. GatewayTypeOK'
  BY <1>1, <1>2 DEF GatewayTypeOK, EngineInv, Phases
<1>4. ASSUME NEW q \in Requests PROVE HandlerKnows(q)' /\ RowAndWire(q)'
  <2>1. HandlerKnows(q) /\ RowAndWire(q)
    BY DEF HandlersOnTrack
  <2>2. /\ \/ phase'[q] = "dropped"
           \/ phase'[q] = phase[q] /\ ~Open(q)
        /\ \/ stage'[q] = "lost" /\ InFlight(q)
           \/ stage'[q] = stage[q]
    BY <1>1
  <2>3. HandlerKnows(q)'
    BY <1>1, <2>1, <2>2
       DEF HandlerKnows, ReturnedOptimized, Unrecorded, Open, InFlight
  <2>4. RowAndWire(q)'
    BY <1>1, <2>1, <2>2 DEF RowAndWire, Unrecorded, Forwarded, Message
  <2> QED BY <2>3, <2>4
<1> QED BY <1>2, <1>3, <1>4 DEF HandlersOnTrack

LEMMA GatewayStutterStep ==
    ASSUME GatewayInv, UNCHANGED gatewayVars
    PROVE  GatewayInv'
<1> USE DEF GatewayInv
<1>1. /\ EngineInv' /\ EngineTypeOK'
      /\ stage' = stage /\ env' = env /\ result' = result
  BY EngineRests DEF gatewayVars
<1>2. UNCHANGED handlerVars
  BY DEF gatewayVars
<1>3. GatewayTypeOK'
  BY <1>1, <1>2 DEF GatewayTypeOK, handlerVars
<1>4. HandlersOnTrack'
  BY <1>1, <1>2 DEF HandlersOnTrack, HandlerKnows, RowAndWire, ReturnedOptimized,
                    Message, handlerVars
<1> QED BY <1>1, <1>3, <1>4

LEMMA HandlerStepInv ==
    ASSUME GatewayInv, NEW q \in Requests, Resolve(q) \/ HandlerStep(q)
    PROVE  GatewayInv'
<1>1. CASE Resolve(q)
  BY <1>1, ResolveStep
<1>2. CASE EngineStep(q)
  BY <1>2, EngineStepStep
<1>3. CASE ParseRaises(q) \/ SerializeRaises(q) \/ EngineRaised(q) \/ RecordRaises(q)
  BY <1>3, FallBackStep DEF ParseRaises, SerializeRaises, EngineRaised, RecordRaises
<1>4. CASE Serialize(q)
  BY <1>4, SerializeStep
<1>5. CASE Record(q)
  BY <1>5, RecordStep
<1>6. CASE Send(q)
  BY <1>6, SendStep
<1>7. CASE RecordRaisesLast(q) \/ UpstreamFails(q)
  BY <1>7, PhaseStep DEF RecordRaisesLast, UpstreamFails, Goto, Phases
<1>8. CASE Respond(q) \/ Relay(q) \/ RelayStops(q)
  BY <1>8, PhaseStep DEF Respond, Relay, RelayStops, Goto, Phases, Forwarded
<1> QED BY <1>1, <1>2, <1>3, <1>4, <1>5, <1>6, <1>7, <1>8 DEF HandlerStep

-----------------------------------------------------------------------------
(* The theorems *)

\* Every variable keeps its shape, every call is where its loops put it and
\* every handler agrees with its call, its row and its message.
THEOREM GatewayInvariant == GatewaySpec => []GatewayInv
<1>1. GatewayInv /\ [GatewayNext]_gatewayVars => GatewayInv'
  <2> SUFFICES ASSUME GatewayInv, [GatewayNext]_gatewayVars PROVE GatewayInv'
    OBVIOUS
  <2>1. CASE \E q \in Requests : Resolve(q) \/ HandlerStep(q)
    BY <2>1, HandlerStepInv
  <2>2. CASE Crash
    BY <2>2, CrashStep
  <2>3. CASE UNCHANGED gatewayVars
    BY <2>3, GatewayStutterStep
  <2> QED BY <2>1, <2>2, <2>3 DEF GatewayNext
<1> QED BY <1>1, GatewayInitInv, PTL DEF GatewaySpec

\* The shape of the handlers' variables.
THEOREM GatewayTypes == GatewaySpec => []GatewayTypeOK
BY GatewayInvariant, PTL DEF GatewayInv

\* Every handler's phase, call, row and message agree.
THEOREM HandlersStayOnTrack == GatewaySpec => []HandlersOnTrack
BY GatewayInvariant, PTL DEF GatewayInv

\* A message that went out rewritten is the faithful, whole rewriting of its
\* request, and the request was one that may be rewritten.
LEMMA MessageFacts ==
    ASSUME GatewayInv, NEW q \in Requests, prepared[q].rewritten
    PROVE  LET blocks == request[q].env.blocks IN
           /\ blocks \in Seq(Block)
           /\ request[q].endpoint = "supported" /\ request[q].payload = "object"
           /\ BypassReasons(request[q].env) = {}
           /\ prepared[q].body = WholeRewriting(blocks)
           /\ Faithful(blocks, prepared[q].body, store)
           /\ result[q].before = EstimateTokens(Original(blocks))
           /\ result[q].after = EstimateTokens(prepared[q].body)
<1> USE DEF GatewayInv
<1>1. HandlerKnows(q)
  BY DEF HandlersOnTrack
<1>2. ReturnedOptimized(q) /\ prepared[q].body = result[q].body
  BY <1>1 DEF HandlerKnows
<1>3. /\ env[q] = request[q].env
      /\ request[q].endpoint = "supported" /\ request[q].payload = "object"
  BY <1>1, <1>2 DEF HandlerKnows, ReturnedOptimized
<1>4. /\ env[q].blocks \in Seq(Block)
      /\ result[q].body = WholeRewriting(env[q].blocks)
      /\ IsRecoverable(env[q].blocks, result[q].body, refs[q])
      /\ refs[q] \subseteq store
      /\ result[q].before = EstimateTokens(Original(env[q].blocks))
      /\ result[q].after = EstimateTokens(result[q].body)
  BY <1>2, ResultFacts DEF Requests
<1>5. BypassReasons(env[q]) = {}
  BY <1>2 DEF EngineInv, CallsOnTrack, Finished, ReturnedOptimized, Requests
<1>6. IsRecoverable(env[q].blocks, result[q].body, store)
  BY <1>4 DEF IsRecoverable
<1>7. Faithful(env[q].blocks, result[q].body, store)
  BY <1>4, <1>6, WholeRewritingType, RewritingKeepsContext, RewritingMarkersResolve
     DEF Faithful
<1> QED BY <1>2, <1>3, <1>4, <1>5, <1>7

\* Whatever fails, and in whatever combination, what is forwarded is the
\* client's bytes or the whole, faithful rewriting of a request that may be
\* rewritten, and it is forwarded once.
THEOREM OnlyWholeRewritingsAreSent == GatewaySpec => []OnlyWholeRewritings
<1>1. GatewayInv => OnlyWholeRewritings
  <2> SUFFICES ASSUME GatewayInv, NEW q \in Requests
               PROVE  /\ Len(wire[q]) =< 1
                      /\ \A k \in DOMAIN wire[q] : wire[q][k].rewritten =>
                           /\ request[q].endpoint = "supported"
                           /\ request[q].payload = "object"
                           /\ BypassReasons(request[q].env) = {}
                           /\ wire[q][k].body = WholeRewriting(request[q].env.blocks)
                           /\ Faithful(request[q].env.blocks, wire[q][k].body, store)
    BY DEF OnlyWholeRewritings
  <2>1. wire[q] = <<>> \/ wire[q] = <<Message(prepared[q])>>
    BY DEF GatewayInv, HandlersOnTrack, RowAndWire
  <2>2. CASE wire[q] = <<>>
    BY <2>2
  <2>3. CASE wire[q] = <<Message(prepared[q])>>
    <3> DEFINE message == Message(prepared[q])
    <3>1. message.rewritten = prepared[q].rewritten /\ message.body = prepared[q].body
      BY DEF Message
    <3> HIDE DEF message
    <3>2. Len(wire[q]) = 1 /\ DOMAIN wire[q] = {1} /\ wire[q][1] = message
      BY <2>3 DEF message
    <3> QED BY <3>1, <3>2, MessageFacts
  <2> QED BY <2>1, <2>2, <2>3
<1> QED BY <1>1, GatewayInvariant, PTL

\* A request the upstream received has exactly one row, of its decision and of
\* the estimates of both bodies.
THEOREM TheWireIsAccounted == GatewaySpec => []WireIsAccounted
<1>1. GatewayInv => WireIsAccounted
  <2> SUFFICES ASSUME GatewayInv, NEW q \in Requests
               PROVE  /\ Len(events[q]) =< 1
                      /\ wire[q] # <<>> =>
                           /\ Len(events[q]) = 1
                           /\ events[q][1].optimized = wire[q][1].rewritten
                           /\ wire[q][1].rewritten =>
                                /\ events[q][1].before =
                                      EstimateTokens(Original(request[q].env.blocks))
                                /\ events[q][1].after = EstimateTokens(wire[q][1].body)
    BY DEF WireIsAccounted
  <2>1. RowAndWire(q)
    BY DEF GatewayInv, HandlersOnTrack
  <2>2. Len(events[q]) =< 1
    <3>1. Len(events[q]) = 0 \/ Len(events[q]) = 1
      BY <2>1 DEF RowAndWire
    <3>2. 0 =< 1 /\ 1 =< 1
      OBVIOUS
    <3> QED BY ONLY <3>1, <3>2
  <2>3. ASSUME wire[q] # <<>>
        PROVE  /\ Len(events[q]) = 1
               /\ events[q][1].optimized = wire[q][1].rewritten
               /\ wire[q][1].rewritten =>
                    /\ events[q][1].before =
                          EstimateTokens(Original(request[q].env.blocks))
                    /\ events[q][1].after = EstimateTokens(wire[q][1].body)
    <3>1. wire[q][1].rewritten = prepared[q].rewritten /\ wire[q][1].body = prepared[q].body
      BY <2>1, <2>3 DEF RowAndWire, Message
    <3>2. /\ Len(events[q]) = 1 /\ events[q][1].optimized = prepared[q].rewritten
          /\ prepared[q].rewritten => /\ events[q][1].before = result[q].before
                                      /\ events[q][1].after = result[q].after
      BY <2>1, <2>3 DEF RowAndWire
    <3> QED BY <3>1, <3>2, MessageFacts
  <2> QED BY <2>2, <2>3
<1> QED BY <1>1, GatewayInvariant, PTL
-----------------------------------------------------------------------------
(* Sums over a finite set, as MapThenSumSet computes them: by a recursive    *)
(* function on the subsets, of which one must first show that there is one.  *)

LEMMA LeastNumber ==
    ASSUME NEW S \in SUBSET Nat, S # {}
    PROVE  \E m \in S : \A k \in S : m =< k
<1> DEFINE R == {ss \in Nat \X Nat : ss[1] < ss[2]}
<1>1. IsWellFoundedOn(R, Nat)
  BY NatLessThanWellFounded DEF OpToRel
<1>2. PICK x \in S : \A y \in S : <<y, x>> \notin R
  <2> HIDE DEF R
  <2>1. QED
    BY <1>1, WFMin
<1>3. ASSUME NEW y \in S PROVE ~(y < x)
  <2>1. /\ x \in Nat /\ y \in Nat /\ <<y, x>> \in Nat \X Nat
        /\ <<y, x>>[1] = y /\ <<y, x>>[2] = x
    OBVIOUS
  <2>2. <<y, x>> \notin R
    BY <1>2
  <2>3. QED
    BY <2>1, <2>2
<1>4. QED
  BY <1>3

LEMMA Induction ==
    ASSUME NEW S, 0 \in S, \A n \in Nat : n \in S => n + 1 \in S
    PROVE  Nat \subseteq S
<1> SUFFICES ASSUME Nat \ S # {} PROVE FALSE
  OBVIOUS
<1>1. PICK m \in Nat \ S : \A k \in Nat \ S : m =< k
  BY LeastNumber
<1>2. m # 0 /\ m - 1 \in Nat /\ m - 1 \notin Nat \ S
  BY <1>1
<1>3. QED
  BY <1>2

First(s) == CHOOSE x \in s : TRUE

\* The recursive function MapThenSumSet evaluates at S, for the weights w.
IsSum(it, S, w) ==
    it = [s \in SUBSET S |-> IF s = {} THEN 0 ELSE w[First(s)] + it[s \ {First(s)}]]

UpTo(S, n) == {s \in SUBSET S : Cardinality(s) =< n}

\* Without its first element a set is smaller by one.
LEMMA Smaller ==
    ASSUME NEW S, IsFiniteSet(S), NEW n \in Nat, NEW s \in UpTo(S, n + 1), s # {}
    PROVE  /\ First(s) \in s
           /\ s \ {First(s)} \in UpTo(S, n)
           /\ s \ {First(s)} \in SUBSET S
<1>1. First(s) \in s
  BY DEF First
<1>2. IsFiniteSet(s) /\ s \in SUBSET S /\ Cardinality(s) =< n + 1
  BY FS_Subset DEF UpTo
<1>3. Cardinality(s) \in Nat /\ Cardinality(s \ {First(s)}) = Cardinality(s) - 1
  BY <1>1, <1>2, FS_CardinalityType, FS_RemoveElement
<1>4. Cardinality(s \ {First(s)}) =< n
  BY <1>2, <1>3
<1>5. QED
  BY <1>1, <1>2, <1>4 DEF UpTo

LEMMA UpToNone ==
    ASSUME NEW S, IsFiniteSet(S)
    PROVE  UpTo(S, 0) = {{}}
<1>1. ASSUME NEW s \in SUBSET S, Cardinality(s) =< 0 PROVE s = {}
  <2>1. IsFiniteSet(s) /\ Cardinality(s) \in Nat
    BY FS_Subset, FS_CardinalityType
  <2>2. Cardinality(s) = 0
    BY <1>1, <2>1
  <2>3. QED
    BY <2>1, <2>2, FS_EmptySet
<1>2. Cardinality({}) =< 0
  BY FS_EmptySet
<1>3. QED
  BY <1>1, <1>2 DEF UpTo

LEMMA UpToAll ==
    ASSUME NEW S, IsFiniteSet(S)
    PROVE  Cardinality(S) \in Nat /\ UpTo(S, Cardinality(S)) = SUBSET S
BY FS_Subset, FS_CardinalityType DEF UpTo

\* There is such a function: it is extended from the sets of n elements to those
\* of n + 1.
LEMMA SumExists ==
    ASSUME NEW S, IsFiniteSet(S), NEW w
    PROVE  \E it : IsSum(it, S, w)
<1> DEFINE Fold(n, it) ==
              it = [s \in UpTo(S, n) |->
                       IF s = {} THEN 0 ELSE w[First(s)] + it[s \ {First(s)}]]
           N == {n \in Nat : \E it : Fold(n, it)}
<1>1. 0 \in N
  <2>1. Fold(0, [s \in {{}} |-> 0])
    BY UpToNone
  <2> HIDE DEF Fold
  <2>2. QED
    BY <2>1
<1>2. ASSUME NEW n \in Nat, n \in N PROVE n + 1 \in N
  <2>1. PICK it : Fold(n, it)
    BY <1>2
  <2> DEFINE Value(s) == IF s = {} THEN 0 ELSE w[First(s)] + it[s \ {First(s)}]
             more == [s \in UpTo(S, n + 1) |-> Value(s)]
  <2>2. ASSUME NEW s \in UpTo(S, n + 1), s # {}
        PROVE  more[s \ {First(s)}] = it[s \ {First(s)}]
    <3>1. s \ {First(s)} \in UpTo(S, n)
      BY <2>2, Smaller
    <3>2. s \ {First(s)} \in UpTo(S, n + 1)
      <4>1. ASSUME NEW c, c =< n, c \in Int PROVE c =< n + 1
        BY <4>1
      <4>2. Cardinality(s \ {First(s)}) \in Nat
        BY <3>1, FS_Subset, FS_CardinalityType DEF UpTo
      <4>3. QED
        BY <3>1, <4>1, <4>2 DEF UpTo
    <3>3. it[s \ {First(s)}] = Value(s \ {First(s)})
      <4> DEFINE r == s \ {First(s)}
      <4>1. r \in UpTo(S, n)
        BY <3>1
      <4> HIDE DEF r
      <4>2. it[r] = Value(r)
        BY <2>1, <4>1
      <4>3. QED
        BY <4>2 DEF r
    <3>4. more[s \ {First(s)}] = Value(s \ {First(s)})
      <4> HIDE DEF Value
      <4>1. QED
        BY <3>2
    <3>5. QED
      BY <3>3, <3>4
  <2>3. Fold(n + 1, more)
    <3>1. ASSUME NEW s \in UpTo(S, n + 1)
          PROVE  Value(s) = IF s = {} THEN 0 ELSE w[First(s)] + more[s \ {First(s)}]
      BY <2>2
    <3>2. more = [s \in UpTo(S, n + 1) |-> Value(s)]
      OBVIOUS
    <3> HIDE DEF more, Value
    <3>3. QED
      BY <3>1, <3>2
  <2> HIDE DEF Fold, more
  <2>4. QED
    BY <2>3
<1>3. \E it : Fold(Cardinality(S), it)
  <2> HIDE DEF Fold
  <2>1. Nat \subseteq N
    <3> HIDE DEF N
    <3>1. QED
      BY <1>1, <1>2, Induction
  <2>2. QED
    BY <2>1, UpToAll
<1>4. QED
  BY <1>3, UpToAll DEF IsSum

\* Sums are integers, and grow with their terms.
LEMMA SumAtLeast ==
    ASSUME NEW S, IsFiniteSet(S), NEW v \in [S -> Int], NEW w \in [S -> Int],
           \A x \in S : w[x] =< v[x],
           NEW a, IsSum(a, S, v), NEW b, IsSum(b, S, w)
    PROVE  /\ a[S] \in Int /\ b[S] \in Int /\ b[S] =< a[S]
           /\ (\A x \in S : 0 =< w[x]) => 0 =< b[S]
<1> DEFINE Positive == \A x \in S : 0 =< w[x]
           Right(s) == /\ a[s] \in Int /\ b[s] \in Int /\ b[s] =< a[s]
                       /\ Positive => 0 =< b[s]
           N == {n \in Nat : \A s \in UpTo(S, n) : Right(s)}
<1>1. ASSUME NEW s \in SUBSET S
      PROVE  /\ a[s] = IF s = {} THEN 0 ELSE v[First(s)] + a[s \ {First(s)}]
             /\ b[s] = IF s = {} THEN 0 ELSE w[First(s)] + b[s \ {First(s)}]
  BY DEF IsSum
<1>2. 0 \in N
  <2>1. a[{}] = 0 /\ b[{}] = 0
    BY <1>1
  <2>2. Right({})
    BY <2>1
  <2> HIDE DEF Right
  <2>3. QED
    BY <2>2, UpToNone
<1>3. ASSUME NEW n \in Nat, n \in N PROVE n + 1 \in N
  <2>1. ASSUME NEW s \in UpTo(S, n + 1) PROVE Right(s)
    <3>1. CASE s = {}
      <4>1. a[s] = 0 /\ b[s] = 0
        BY <1>1, <3>1 DEF UpTo
      <4>2. QED
        BY <4>1
    <3>2. CASE s # {}
      <4>1. First(s) \in s /\ s \ {First(s)} \in UpTo(S, n) /\ s \in SUBSET S
        BY <3>2, Smaller DEF UpTo
      <4>2. Right(s \ {First(s)})
        BY <1>3, <4>1
      <4>3. /\ v[First(s)] \in Int /\ w[First(s)] \in Int /\ w[First(s)] =< v[First(s)]
            /\ Positive => 0 =< w[First(s)]
        BY <4>1
      <4>4. a[s] = v[First(s)] + a[s \ {First(s)}] /\ b[s] = w[First(s)] + b[s \ {First(s)}]
        BY <1>1, <3>2, <4>1
      <4> HIDE DEF Positive
      <4>5. QED
        BY <4>2, <4>3, <4>4
    <3>3. QED
      BY <3>1, <3>2
  <2> HIDE DEF Right
  <2>2. QED
    BY <2>1
<1>4. Right(S)
  <2>1. Nat \subseteq N
    <3> HIDE DEF N
    <3>1. QED
      BY <1>2, <1>3, Induction
  <2> HIDE DEF Right
  <2>2. QED
    BY <2>1, UpToAll
<1>5. QED
  BY <1>4
\* The sum over one place is what stands there.
LEMMA SumOfOne ==
    ASSUME NEW x, NEW w, w[x] \in Int, NEW it, IsSum(it, {x}, w)
    PROVE  it[{x}] = w[x]
<1>1. {x} # {} /\ First({x}) = x /\ {x} \ {First({x})} = {}
  BY DEF First
<1>2. it[{x}] = w[x] + it[{}] /\ it[{}] = 0
  BY <1>1 DEF IsSum
<1>3. QED
  BY <1>2

-----------------------------------------------------------------------------
(* What the metrics table says that was saved *)

LEMMA RoundType ==
    ASSUME NEW n \in Nat
    PROVE  RoundHundredths(133 * n) \in Nat
<1> DEFINE m == 133 * n
<1>1. m \in Nat
  OBVIOUS
<1> HIDE DEF m
<1>2. m \div 100 \in Nat
  BY <1>1
<1>3. QED
  BY <1>2 DEF RoundHundredths, m

\* An estimate is a natural number.
LEMMA EstimateType ==
    ASSUME NEW body \in Seq(WireBlock)
    PROVE  EstimateTokens(body) \in Nat
<1> DEFINE w == [i \in DOMAIN body |-> Units(body[i])]
           Iter(it) == it = [s \in SUBSET DOMAIN body |->
                               IF s = {} THEN 0
                               ELSE Units(body[CHOOSE x \in s : TRUE]) + it[s \ {CHOOSE x \in s : TRUE}]]
           total == CHOOSE it : Iter(it)
<1>1. MapThenSumSet(LAMBDA i : Units(body[i]), DOMAIN body) = total[DOMAIN body]
  BY DEF MapThenSumSet, MapThenFoldSet
<1>2. /\ IsFiniteSet(DOMAIN body)
      /\ w \in [DOMAIN body -> Int] /\ \A i \in DOMAIN body : 0 =< w[i] /\ w[i] =< w[i]
  <2>1. IsFiniteSet(DOMAIN body)
    BY FS_Interval
  <2>2. ASSUME NEW i \in DOMAIN body PROVE Units(body[i]) \in Nat
    <3>1. body[i] \in WireBlock
      OBVIOUS
    <3>2. Attr[body[i].text].units \in Nat
      BY <3>1, AttrAssumption DEF WireBlock, Features
    <3>3. QED
      BY <3>2, EngineAssumption DEF Units
  <2>3. QED
    BY <2>1, <2>2
<1>3. ASSUME NEW it PROVE Iter(it) = IsSum(it, DOMAIN body, w)
  <2>1. ASSUME NEW s \in SUBSET DOMAIN body, s # {} PROVE w[First(s)] = Units(body[First(s)])
    BY <2>1 DEF First
  <2>2. QED
    BY <2>1 DEF First, IsSum
<1> HIDE DEF Iter, w
<1>4. IsSum(total, DOMAIN body, w)
  <2>1. \E it : Iter(it)
    BY <1>2, <1>3, SumExists
  <2>2. QED
    BY <2>1, <1>3
<1>5. total[DOMAIN body] \in Nat
  <2> HIDE DEF total
  <2>1. total[DOMAIN body] \in Int /\ 0 =< total[DOMAIN body]
    BY <1>2, <1>4, SumAtLeast
  <2>2. QED
    BY <2>1
<1>6. QED
  BY <1>1, <1>5, RoundType DEF EstimateTokens

LEMMA UnoptimizedCosts ==
    ASSUME NEW blocks \in Seq(Block), NEW reasons
    PROVE  NeverCosts(Unoptimized(blocks, reasons))
<1>1. EstimateTokens(Original(blocks)) \in Nat
  BY OriginalType, EstimateType
<1>2. QED
  BY <1>1 DEF Unoptimized, NeverCosts

\* The engine returns no result that says it cost anything.
LEMMA ReturnCosts ==
    ASSUME GatewayInv, \A d \in Requests : NeverCosts(result[d]),
           NEW q \in Requests, NEW r, NeverCosts(r), Return(q, r)
    PROVE  \A d \in Requests : NeverCosts(result'[d])
<1>1. DOMAIN result = Requests
  BY DEF GatewayInv, EngineInv, EngineTypeOK, Requests
<1>2. result' = [result EXCEPT ![q] = r]
  BY DEF Return
<1>3. ASSUME NEW d \in Requests PROVE result'[d] = IF d = q THEN r ELSE result[d]
  BY <1>1, <1>2
<1>4. QED
  BY <1>3

LEMMA CallCosts ==
    ASSUME GatewayInv, EstimatesInv, NEW q \in Requests, EngineStep(q)
    PROVE  \A d \in Requests : NeverCosts(result'[d])
<1>1. \A d \in Requests : NeverCosts(result[d])
  BY DEF EstimatesInv
<1>2. request[q].env.blocks \in Seq(Block) /\ env[q].blocks \in Seq(Block)
  BY InputType, TypeFacts, EngineAssumption DEF GatewayInv, EngineInv, Envelope, Requests
<1>3. CASE Optimize(q, request[q].env)
  <2> DEFINE e == request[q].env
             r == Unoptimized(e.blocks, BypassReasons(e))
  <2>1. Return(q, r) \/ result' = result
    BY <1>3 DEF Optimize
  <2>2. NeverCosts(r)
    BY <1>2, UnoptimizedCosts
  <2> HIDE DEF r
  <2>3. QED
    BY <1>1, <2>1, <2>2, ReturnCosts
<1>4. CASE ReduceRaises(q)
  <2> DEFINE r == Unoptimized(env[q].blocks, {"fallback_internal_error"})
  <2>1. Return(q, r)
    BY <1>4 DEF ReduceRaises
  <2>2. NeverCosts(r)
    BY <1>2, UnoptimizedCosts
  <2> HIDE DEF r
  <2>3. QED
    BY <1>1, <2>1, <2>2, ReturnCosts
<1>5. CASE Decide(q)
  <2> DEFINE blocks == env[q].blocks
             cheap == [optimized |-> TRUE, body |-> work[q], reasons |-> {"optimized"},
                       before |-> EstimateTokens(Original(blocks)),
                       after  |-> EstimateTokens(work[q])]
             plain == Unoptimized(blocks, {"no_eligible_reduction"})
             r == IF Worthwhile(q) THEN cheap ELSE plain
  <2>1. Return(q, r)
    BY <1>5 DEF Decide
  <2>2. NeverCosts(plain)
    BY <1>2, UnoptimizedCosts
  <2>3. Worthwhile(q) => NeverCosts(cheap)
    <3>1. EstimateTokens(Original(blocks)) \in Nat
      BY <1>2, OriginalType, EstimateType
    <3>2. EstimateTokens(work[q]) \in Nat
      BY EstimateType, TypeFacts DEF GatewayInv, EngineInv, Requests
    <3>3. QED
      BY <3>1, <3>2 DEF Worthwhile, NeverCosts
  <2>4. NeverCosts(r)
    <3> HIDE DEF cheap, plain
    <3>1. QED
      BY <2>2, <2>3
  <2> HIDE DEF r
  <2>5. QED
    BY <1>1, <2>1, <2>4, ReturnCosts
<1>6. CASE PlanRaises(q, request[q].env) \/ Reduce(q) \/ Dedup(q) \/ DedupRaises(q)
  BY <1>1, <1>6 DEF PlanRaises, Reduce, Dedup, DedupRaises
<1>7. QED
  BY <1>3, <1>4, <1>5, <1>6 DEF EngineStep, CallStep, CallProgress

\* A row is written once, of a result or of no estimates.
LEMMA RecordCosts ==
    ASSUME GatewayInv, EstimatesInv, NEW q \in Requests, Record(q)
    PROVE  EstimatesInv'
<1> DEFINE row == Row(q)
<1>1. NeverCosts(row)
  BY DEF Row, EstimatesInv, NeverCosts
<1>2. result' = result /\ events' = [events EXCEPT ![q] = Append(events[q], row)]
  BY DEF Record, engineVars, callVars
<1> HIDE DEF row
<1>3. events[q] = <<>> /\ DOMAIN events = Requests
  BY DEF GatewayInv, GatewayTypeOK, HandlersOnTrack, RowAndWire, Unrecorded, Record
<1>4. ASSUME NEW d \in Requests
      PROVE  events'[d] # <<>> => DOMAIN events'[d] = {1} /\ NeverCosts(events'[d][1])
  <2>1. CASE d = q
    <3>1. events'[q] = <<row>>
      BY <1>2, <1>3
    <3>2. DOMAIN events'[q] = {1} /\ events'[q][1] = row
      BY <3>1
    <3>3. QED
      BY <1>1, <2>1, <3>2
  <2>2. CASE d # q
    <3>1. events'[d] = events[d]
      BY <1>2, <1>3, <2>2
    <3>2. QED
      BY <3>1 DEF EstimatesInv
  <2>3. QED
    BY <2>1, <2>2
<1>5. QED
  BY <1>2, <1>4 DEF EstimatesInv

LEMMA EstimatesStep ==
    ASSUME GatewayInv, EstimatesInv, [GatewayNext]_gatewayVars
    PROVE  EstimatesInv'
<1>1. ASSUME result' = result, events' = events PROVE EstimatesInv'
  BY <1>1 DEF EstimatesInv
<1>2. CASE \E q \in Requests : Record(q)
  BY <1>2, RecordCosts
<1>3. CASE \E q \in Requests : EngineStep(q)
  <2>1. PICK q \in Requests : EngineStep(q)
    BY <1>3
  <2>2. events' = events
    BY <2>1 DEF EngineStep, handlerVars
  <2>3. QED
    BY <2>1, <2>2, CallCosts DEF EstimatesInv
<1>4. ASSUME NEW q \in Requests, Resolve(q) \/ HandlerStep(q), ~Record(q), ~EngineStep(q)
      PROVE  result' = result /\ events' = events
  <2>1. CASE Resolve(q) \/ ParseRaises(q) \/ EngineRaised(q) \/ Serialize(q) \/ SerializeRaises(q)
    BY <2>1 DEF Resolve, ParseRaises, EngineRaised, Serialize, SerializeRaises, engineVars, callVars
  <2>2. CASE RecordRaises(q) \/ RecordRaisesLast(q) \/ Send(q) \/ UpstreamFails(q)
    BY <2>2 DEF RecordRaises, RecordRaisesLast, Send, UpstreamFails, engineVars, callVars
  <2>3. CASE Respond(q) \/ Relay(q) \/ RelayStops(q)
    BY <2>3 DEF Respond, Relay, RelayStops, engineVars, callVars
  <2>4. QED
    BY <1>4, <2>1, <2>2, <2>3 DEF HandlerStep
<1>5. CASE Crash
  BY <1>1, <1>5 DEF Crash
<1>6. CASE UNCHANGED gatewayVars
  BY <1>1, <1>6 DEF gatewayVars, engineVars, callVars, handlerVars
<1>7. QED
  BY <1>1, <1>2, <1>3, <1>4, <1>5, <1>6 DEF GatewayNext

LEMMA EstimatesInit == GatewayInit => EstimatesInv
<1> SUFFICES ASSUME GatewayInit PROVE EstimatesInv
  OBVIOUS
<1>1. NeverCosts(NoResult)
  BY DEF NeverCosts, NoResult
<1>2. ASSUME NEW q \in Requests PROVE result[q] = NoResult /\ events[q] = <<>>
  BY DEF GatewayInit, EngineInit, Requests
<1>3. \A q \in Requests : NeverCosts(result[q])
  <2>1. ASSUME NEW q \in Requests PROVE NeverCosts(result[q])
    <3>1. result[q] = NoResult
      BY <1>2
    <3>2. QED
      BY ONLY <1>1, <3>1
  <2>2. QED
    BY <2>1
<1>4. \A q \in Requests : events[q] = <<>>
  BY <1>2
<1>5. QED
  BY <1>3, <1>4 DEF EstimatesInv

\* One request: the table says no less than the wire was spared.
LEMMA SpareOf ==
    ASSUME GatewayInv, EstimatesInv, NEW q \in Requests
    PROVE  LET row == events[q][1]
               spared == IF wire[q] # <<>> /\ wire[q][1].rewritten
                         THEN EstimateTokens(Original(request[q].env.blocks))
                                - EstimateTokens(wire[q][1].body)
                         ELSE 0
           IN  /\ spared \in Int
               /\ \/ events[q] = <<>> /\ spared = 0
                  \/ /\ DOMAIN events[q] = {1}
                     /\ row.before - row.after \in Int
                     /\ spared =< row.before - row.after
<1> DEFINE row == events[q][1]
           spared == IF wire[q] # <<>> /\ wire[q][1].rewritten
                     THEN EstimateTokens(Original(request[q].env.blocks))
                            - EstimateTokens(wire[q][1].body)
                     ELSE 0
<1>1. RowAndWire(q)
  BY DEF GatewayInv, HandlersOnTrack
<1>2. ASSUME events[q] = <<>> PROVE spared = 0
  BY <1>1, <1>2 DEF RowAndWire
<1>3. ASSUME events[q] # <<>>
      PROVE  /\ DOMAIN events[q] = {1} /\ spared \in Int
             /\ row.before - row.after \in Int /\ spared =< row.before - row.after
  <2>1. DOMAIN events[q] = {1} /\ NeverCosts(row)
    BY <1>3 DEF EstimatesInv
  <2>2. row.before - row.after \in Int /\ 0 =< row.before - row.after
    BY <2>1 DEF NeverCosts
  <2>3. spared = 0 \/ spared = row.before - row.after
    <3>1. CASE wire[q] = <<>> \/ ~prepared[q].rewritten
      BY <1>1, <3>1 DEF RowAndWire, Message
    <3>2. CASE wire[q] # <<>> /\ prepared[q].rewritten
      <4>1. wire[q][1] = Message(prepared[q])
        BY <1>1, <3>2 DEF RowAndWire
      <4>2. wire[q][1].rewritten /\ wire[q][1].body = prepared[q].body
        BY <3>2, <4>1 DEF Message
      <4>3. row.before = result[q].before /\ row.after = result[q].after
        BY <1>1, <1>3, <3>2 DEF RowAndWire
      <4>4. /\ result[q].before = EstimateTokens(Original(request[q].env.blocks))
            /\ result[q].after = EstimateTokens(prepared[q].body)
        BY <3>2, MessageFacts
      <4>5. QED
        BY <3>2, <4>2, <4>3, <4>4
    <3>3. QED
      BY <3>1, <3>2
  <2> HIDE DEF row, spared
  <2>4. QED
    BY <2>1, <2>2, <2>3
<1>4. QED
  BY <1>2, <1>3

\* A row's share of the savings, as summary adds it up.
LEMMA ShareOf ==
    ASSUME NEW q \in Requests, events[q] = <<>> \/ DOMAIN events[q] = {1},
           DOMAIN events[q] = {1} => events[q][1].before - events[q][1].after \in Int
    PROVE  MapThenSumSet(LAMBDA k : events[q][k].before - events[q][k].after, DOMAIN events[q])
             = IF events[q] = <<>> THEN 0 ELSE events[q][1].before - events[q][1].after
<1> DEFINE S == DOMAIN events[q]
           w == [k \in S |-> events[q][k].before - events[q][k].after]
           Iter(it) == it = [s \in SUBSET S |->
                               IF s = {} THEN 0
                               ELSE (events[q][CHOOSE x \in s : TRUE].before
                                       - events[q][CHOOSE x \in s : TRUE].after)
                                    + it[s \ {CHOOSE x \in s : TRUE}]]
           total == CHOOSE it : Iter(it)
<1>1. MapThenSumSet(LAMBDA k : events[q][k].before - events[q][k].after, S) = total[S]
  BY DEF MapThenSumSet, MapThenFoldSet
<1>2. ASSUME NEW it PROVE Iter(it) = IsSum(it, S, w)
  <2>1. ASSUME NEW s \in SUBSET S, s # {}
        PROVE  w[First(s)] = events[q][First(s)].before - events[q][First(s)].after
    BY <2>1 DEF First
  <2>2. QED
    BY <2>1 DEF First, IsSum
<1>3. IsFiniteSet(S)
  <2>1. S = {} \/ S = {1}
    OBVIOUS
  <2> HIDE DEF S
  <2>2. CASE S = {}
    BY <2>2, FS_EmptySet
  <2>3. CASE S = {1}
    BY <2>3, FS_Singleton
  <2>4. QED
    BY <2>1, <2>2, <2>3
<1> HIDE DEF Iter
<1>4. IsSum(total, S, w)
  <2>1. \E it : Iter(it)
    BY <1>2, <1>3, SumExists
  <2>2. QED
    BY <2>1, <1>2
<1>5. CASE events[q] = <<>>
  <2>1. S = {}
    BY <1>5
  <2> HIDE DEF S, w, total
  <2>2. total[S] = 0
    BY <1>4, <2>1 DEF IsSum
  <2>3. QED
    BY <1>1, <1>5, <2>2 DEF S
<1>6. CASE events[q] # <<>>
  <2>1. S = {1} /\ w[1] \in Int /\ w[1] = events[q][1].before - events[q][1].after
    BY <1>6
  <2> HIDE DEF S, w, total
  <2>2. total[S] = w[1]
    <3>1. IsSum(total, {1}, w)
      BY <1>4, <2>1
    <3>2. total[{1}] = w[1]
      BY <2>1, <3>1, SumOfOne
    <3>3. QED
      BY <2>1, <3>2
  <2>3. QED
    BY <1>1, <1>6, <2>1, <2>2 DEF S
<1>7. QED
  BY <1>5, <1>6

\* The sum of the shares is the sum summary makes.
LEMMA SavingsCover ==
    ASSUME IsFiniteSet(Requests), GatewayInv, EstimatesInv
    PROVE  SavingsCoverTheWire
<1> DEFINE Share(q) == MapThenSumSet(LAMBDA k : events[q][k].before - events[q][k].after,
                                     DOMAIN events[q])
           Spared(q) == IF wire[q] # <<>> /\ wire[q][1].rewritten
                        THEN EstimateTokens(Original(request[q].env.blocks))
                               - EstimateTokens(wire[q][1].body)
                        ELSE 0
           v == [q \in Requests |-> Share(q)]
           w == [q \in Requests |-> Spared(q)]
           Rows(it) == it = [s \in SUBSET Requests |->
                               IF s = {} THEN 0
                               ELSE Share(CHOOSE x \in s : TRUE) + it[s \ {CHOOSE x \in s : TRUE}]]
           Wire(it) == it = [s \in SUBSET Requests |->
                               IF s = {} THEN 0
                               ELSE Spared(CHOOSE x \in s : TRUE) + it[s \ {CHOOSE x \in s : TRUE}]]
           a == CHOOSE it : Rows(it)
           b == CHOOSE it : Wire(it)
<1>1. Saved = a[Requests]
  BY DEF Saved, Sum, MapThenSumSet, MapThenFoldSet
<1>2. SavingsCoverTheWire = (Saved >= b[Requests])
  BY DEF SavingsCoverTheWire, MapThenSumSet, MapThenFoldSet
<1>3. v \in [Requests -> Int] /\ w \in [Requests -> Int]
      /\ \A q \in Requests : w[q] =< v[q]
  <2>1. ASSUME NEW q \in Requests
        PROVE  Share(q) \in Int /\ Spared(q) \in Int /\ Spared(q) =< Share(q)
    <3> DEFINE row == events[q][1]
    <3>1. /\ Spared(q) \in Int
          /\ \/ events[q] = <<>> /\ Spared(q) = 0
             \/ /\ DOMAIN events[q] = {1}
                /\ row.before - row.after \in Int
                /\ Spared(q) =< row.before - row.after
      BY SpareOf
    <3>2. Share(q) = IF events[q] = <<>> THEN 0 ELSE row.before - row.after
      <4>1. DOMAIN events[q] = {1} => row.before - row.after \in Int
        <5>1. events[q] = <<>> => DOMAIN events[q] # {1}
          OBVIOUS
        <5>2. QED
          BY <3>1, <5>1
      <4> HIDE DEF Spared
      <4>2. QED
        BY <3>1, <4>1, ShareOf
    <3> HIDE DEF Share, Spared, row
    <3>3. CASE events[q] = <<>>
      <4>1. DOMAIN events[q] # {1}
        BY <3>3
      <4>2. QED
        BY <3>1, <3>2, <3>3, <4>1
    <3>4. CASE events[q] # <<>>
      BY <3>1, <3>2, <3>4
    <3>5. QED
      BY <3>3, <3>4
  <2> HIDE DEF Share, Spared
  <2>2. QED
    BY <2>1
<1>4. ASSUME NEW it PROVE Rows(it) = IsSum(it, Requests, v) /\ Wire(it) = IsSum(it, Requests, w)
  <2>1. ASSUME NEW s \in SUBSET Requests, s # {}
        PROVE  v[First(s)] = Share(First(s)) /\ w[First(s)] = Spared(First(s))
    <3>1. First(s) \in Requests
      BY <2>1 DEF First
    <3> HIDE DEF Share, Spared
    <3>2. QED
      BY <3>1
  <2> HIDE DEF Share, Spared, v, w
  <2>2. Rows(it) = IsSum(it, Requests, v)
    BY <2>1 DEF First, IsSum
  <2>3. Wire(it) = IsSum(it, Requests, w)
    <3> DEFINE Value(s) == IF s = {} THEN 0
                           ELSE Spared(CHOOSE x \in s : TRUE) + it[s \ {CHOOSE x \in s : TRUE}]
               Sought(s) == IF s = {} THEN 0 ELSE w[First(s)] + it[s \ {First(s)}]
    <3>1. ASSUME NEW s \in SUBSET Requests PROVE Value(s) = Sought(s)
      BY <2>1 DEF First
    <3>2. Wire(it) = (it = [s \in SUBSET Requests |-> Value(s)])
      OBVIOUS
    <3>3. IsSum(it, Requests, w) = (it = [s \in SUBSET Requests |-> Sought(s)])
      BY DEF IsSum
    <3> HIDE DEF Value, Sought, Wire
    <3>4. QED
      BY <3>1, <3>2, <3>3
  <2>4. QED
    BY <2>2, <2>3
<1> HIDE DEF Rows, Wire, v, w
<1>5. IsSum(a, Requests, v) /\ IsSum(b, Requests, w)
  <2>1. (\E it : Rows(it)) /\ (\E it : Wire(it))
    BY <1>4, SumExists
  <2>2. QED
    BY <2>1, <1>4
<1>6. a[Requests] \in Int /\ b[Requests] \in Int /\ b[Requests] =< a[Requests]
  <2> HIDE DEF a, b
  <2>1. QED
    BY <1>3, <1>5, SumAtLeast
<1>7. QED
  <2> HIDE DEF a, b
  <2>1. QED
    BY <1>1, <1>2, <1>6

\* summary()'s estimated_input_saved never falls short of what the upstream was
\* spared, however many requests fail or are retried between the engine and the
\* wire.  There are finitely many requests: the sums are over all of them.
THEOREM SavingsAlwaysCoverTheWire ==
    ASSUME IsFiniteSet(Requests)
    PROVE  GatewaySpec => []SavingsCoverTheWire
<1>1. GatewayInv /\ EstimatesInv => SavingsCoverTheWire
  BY SavingsCover
<1>2. GatewayInv /\ EstimatesInv /\ [GatewayNext]_gatewayVars => EstimatesInv'
  BY EstimatesStep
<1>3. QED
  BY <1>1, <1>2, EstimatesInit, GatewayInvariant, PTL DEF GatewaySpec
-----------------------------------------------------------------------------
(* The gateway implements FailOpenProxy *)

LEMMA Fates ==
    /\ FateOf("new") = "new" /\ FateOf("bare") = "open" /\ FateOf("optimizing") = "open"
    /\ FateOf("record") = "open" /\ FateOf("record_last") = "open" /\ FateOf("send") = "open"
    /\ FateOf("await") = "sent" /\ FateOf("relaying") = "sent"
    /\ FateOf("answered") = "answered"
    /\ FateOf("truncated") = "dropped" /\ FateOf("dropped") = "dropped"
BY DEF FateOf

\* The proxy's vocabulary is the gateway's.
LEMMA SameVocabulary ==
    /\ \A b, m, k : Proxy!Faithful(b, m, k) <=> Faithful(b, m, k)
    /\ \A e : Proxy!BypassReasons(e) = BypassReasons(e)
<1>1. ASSUME NEW b, NEW m, NEW k PROVE Proxy!Faithful(b, m, k) <=> Faithful(b, m, k)
  BY DEF Proxy!Faithful, Faithful, Proxy!KeepsContext, KeepsContext,
         Proxy!Replaced, Replaced, Proxy!Original, Original,
         Proxy!ActiveContext, ActiveContext, Proxy!ProtocolKinds, ProtocolKinds,
         Proxy!IsRecoverable, IsRecoverable, Proxy!MarkersResolve, MarkersResolve
<1>2. ASSUME NEW e PROVE Proxy!BypassReasons(e) = BypassReasons(e)
  BY DEF Proxy!BypassReasons, BypassReasons, Proxy!ActiveDecisions, ActiveDecisions,
         Proxy!InLatestTurn, InLatestTurn, Proxy!ProtocolKinds, ProtocolKinds,
         Proxy!StructuredDecision, StructuredDecision,
         Proxy!StatesDecision, StatesDecision
<1> QED BY <1>1, <1>2
LEMMA ProxyStarts == GatewayInit => Proxy!ProxyInit
BY Fates DEF GatewayInit, EngineInit, Proxy!ProxyInit

\* A step that only moves a handler to a phase with the same fate is no step of
\* the proxy, unless it keeps more texts.
LEMMA SameFate ==
    ASSUME GatewayTypeOK, NEW q \in Requests, NEW to \in Phases,
           phase' = [phase EXCEPT ![q] = to], FateOf(to) = FateOf(phase[q]),
           UNCHANGED <<engineVars, request, wire>>
    PROVE  UNCHANGED Proxy!proxyVars
<1>1. [d \in Requests |-> FateOf(phase[d])]' = [d \in Requests |-> FateOf(phase[d])]
  BY DEF GatewayTypeOK
<1> QED BY <1>1 DEF Proxy!proxyVars, engineVars

\* A handler that ends early drops its request.
LEMMA DropsOne ==
    ASSUME GatewayTypeOK, NEW q \in Requests,
           phase[q] \notin {"answered", "truncated", "dropped"},
           NEW to \in {"truncated", "dropped"}, phase' = [phase EXCEPT ![q] = to],
           UNCHANGED <<engineVars, request, wire>>
    PROVE  Proxy!Drop({q})
<1> DEFINE fate == [d \in Requests |-> FateOf(phase[d])]
<1>1. FateOf(phase[q]) \in {"new", "open", "sent"} /\ FateOf(to) = "dropped"
  BY Fates DEF GatewayTypeOK, Phases
<1>2. phase'[q] = to /\ \A d \in Requests \ {q} : phase'[d] = phase[d]
  BY DEF GatewayTypeOK
<1>3. fate' = [d \in Requests |-> IF d \in {q} THEN "dropped" ELSE fate[d]]
  BY <1>1, <1>2
<1> QED BY <1>1, <1>3 DEF Proxy!Drop, engineVars

LEMMA ResolveSimulates ==
    ASSUME GatewayInv, NEW q \in Requests, Resolve(q)
    PROVE  Proxy!ProxyNext
<1> USE DEF GatewayInv
<1>1. UNCHANGED <<engineVars, request, wire>> /\ phase[q] = "new"
  BY DEF Resolve, Goto
<1>2. CASE phase' = [phase EXCEPT ![q] = "dropped"]
  BY <1>1, <1>2, DropsOne DEF Proxy!ProxyNext
<1>3. ASSUME NEW to \in {"bare", "optimizing"}, phase' = [phase EXCEPT ![q] = to]
      PROVE  Proxy!Open(q)
  <2> DEFINE fate == [d \in Requests |-> FateOf(phase[d])]
  <2>1. FateOf(to) = "open" /\ FateOf(phase[q]) = "new"
    BY <1>1, Fates
  <2>2. fate' = [fate EXCEPT ![q] = "open"]
    BY <1>3, <2>1 DEF GatewayTypeOK
  <2> QED BY <1>1, <2>1, <2>2 DEF Proxy!Open, engineVars
<1>4. phase' = [phase EXCEPT ![q] = "dropped"]
      \/ \E to \in {"bare", "optimizing"} : phase' = [phase EXCEPT ![q] = to]
  BY DEF Resolve, Goto
<1> QED BY <1>2, <1>3, <1>4 DEF Proxy!ProxyNext

LEMMA EngineStepSimulates ==
    ASSUME GatewayInv, NEW q \in Requests, EngineStep(q)
    PROVE  Proxy!ProxyNext
<1>1. request[q].env \in Envelopes
  BY InputType DEF GatewayInv
<1>2. store \subseteq store'
  BY <1>1, EngineMoves DEF EngineStep, GatewayInv
<1>3. phase' = phase /\ request' = request /\ wire' = wire
  BY DEF EngineStep, handlerVars
<1>4. Proxy!Keep
  BY <1>2, <1>3 DEF Proxy!Keep
<1> QED BY <1>4 DEF Proxy!ProxyNext

\* What a handler sends is admissible.
LEMMA SendSimulates ==
    ASSUME GatewayInv, NEW q \in Requests, Send(q)
    PROVE  Proxy!ProxyNext
<1> USE DEF GatewayInv
<1> DEFINE fate == [d \in Requests |-> FateOf(phase[d])]
           message == Message(prepared[q])
<1>1. wire' = [wire EXCEPT ![q] = <<message>>]
  BY SendStep
<1>2. UNCHANGED <<engineVars, request>> /\ phase[q] = "send"
      /\ phase' = [phase EXCEPT ![q] = "await"]
  BY DEF Send, Goto
<1>3. fate[q] = "open" /\ fate' = [fate EXCEPT ![q] = "sent"]
  BY <1>2, Fates DEF GatewayTypeOK
<1>4. Proxy!Admissible(request[q], message, store)
  <2>1. HandlerKnows(q)
    BY DEF HandlersOnTrack
  <2>2. CASE ~prepared[q].rewritten
    <3>1. prepared[q].rewritten = FALSE /\ prepared[q].body = <<>>
      BY <2>1, <2>2 DEF HandlerKnows, GatewayTypeOK, Prepared
    <3>2. message = Proxy!RawMessage
      BY <3>1 DEF Message, Proxy!RawMessage
    <3> QED BY <3>2 DEF Proxy!Admissible
  <2>3. CASE prepared[q].rewritten
    <3>1. message.rewritten /\ message.body = prepared[q].body
      BY <2>3 DEF Message
    <3>2. /\ request[q].endpoint = "supported" /\ request[q].payload = "object"
          /\ BypassReasons(request[q].env) = {}
          /\ Faithful(request[q].env.blocks, prepared[q].body, store)
      BY <2>3, MessageFacts
    <3> HIDE DEF message
    <3> QED BY <3>1, <3>2, SameVocabulary DEF Proxy!Admissible, Proxy!MayRewrite
  <2> QED BY <2>2, <2>3
<1> HIDE DEF message
<1>5. wire'[q] = <<message>> /\ wire' = [wire EXCEPT ![q] = wire'[q]]
  BY <1>1 DEF GatewayTypeOK
<1>6. DOMAIN wire'[q] = {1} /\ wire'[q][1] = message
  BY <1>5
<1>7. Proxy!Forward(q)
  BY <1>2, <1>3, <1>4, <1>5, <1>6 DEF Proxy!Forward, engineVars
<1> QED BY <1>7 DEF Proxy!ProxyNext

LEMMA RelaySimulates ==
    ASSUME GatewayInv, NEW q \in Requests, Relay(q)
    PROVE  Proxy!ProxyNext
<1> USE DEF GatewayInv
<1> DEFINE fate == [d \in Requests |-> FateOf(phase[d])]
<1>1. UNCHANGED <<engineVars, request, wire>> /\ phase[q] = "relaying"
      /\ phase' = [phase EXCEPT ![q] = "answered"]
  BY DEF Relay, Goto
<1>2. fate[q] = "sent" /\ fate' = [fate EXCEPT ![q] = "answered"]
  BY <1>1, Fates DEF GatewayTypeOK
<1>3. Proxy!Answer(q)
  BY <1>1, <1>2 DEF Proxy!Answer, engineVars
<1> QED BY <1>3 DEF Proxy!ProxyNext

LEMMA CrashSimulates ==
    ASSUME GatewayInv, Crash
    PROVE  Proxy!ProxyNext
<1> USE DEF GatewayInv
<1> DEFINE Q == {q \in Requests : Open(q)}
           fate == [q \in Requests |-> FateOf(phase[q])]
<1>1. ASSUME NEW q \in Requests
      PROVE  /\ q \in Q => fate[q] \in {"new", "open", "sent"}
             /\ fate'[q] = IF q \in Q THEN "dropped" ELSE fate[q]
  <2>1. CASE Open(q)
    BY <2>1, Fates DEF Crash, Open, GatewayTypeOK, Phases
  <2>2. CASE ~Open(q)
    BY <2>2 DEF Crash
  <2> QED BY <2>1, <2>2
<1>2. fate' = [q \in Requests |-> IF q \in Q THEN "dropped" ELSE fate[q]]
  BY <1>1
<1>3. Proxy!Drop(Q)
  BY <1>1, <1>2 DEF Proxy!Drop, Crash
<1>4. Q \in SUBSET Requests
  OBVIOUS
<1> HIDE DEF Q
<1> QED BY <1>3, <1>4 DEF Proxy!ProxyNext

\* FailOpenProxy is what a client can rely on: every behaviour of the handlers,
\* the engine and the databases is one of the proxy.
THEOREM GatewayImplementsProxy == GatewaySpec => ImplementsProxy
<1>1. GatewayInv /\ [GatewayNext]_gatewayVars
         => Proxy!ProxyNext \/ UNCHANGED Proxy!proxyVars
  <2> SUFFICES ASSUME GatewayInv, [GatewayNext]_gatewayVars
               PROVE  Proxy!ProxyNext \/ UNCHANGED Proxy!proxyVars
    OBVIOUS
  <2> USE DEF GatewayInv
  <2>1. ASSUME NEW q \in Requests, Resolve(q) PROVE Proxy!ProxyNext
    BY <2>1, ResolveSimulates
  <2>2. ASSUME NEW q \in Requests, EngineStep(q) PROVE Proxy!ProxyNext
    BY <2>2, EngineStepSimulates
  <2>3. ASSUME NEW q \in Requests,
               ParseRaises(q) \/ SerializeRaises(q) \/ EngineRaised(q) \/ RecordRaises(q)
        PROVE  UNCHANGED Proxy!proxyVars
    BY <2>3, SameFate, Fates
       DEF ParseRaises, SerializeRaises, EngineRaised, RecordRaises, FallBack, Goto, Phases
  <2>4. ASSUME NEW q \in Requests, Serialize(q) \/ Record(q) \/ Respond(q)
        PROVE  UNCHANGED Proxy!proxyVars
    BY <2>4, SameFate, Fates DEF Serialize, Record, Respond, Goto, Phases
  <2>5. ASSUME NEW q \in Requests, RecordRaisesLast(q) \/ UpstreamFails(q) \/ RelayStops(q)
        PROVE  Proxy!ProxyNext
    BY <2>5, DropsOne
       DEF RecordRaisesLast, UpstreamFails, RelayStops, Goto, Proxy!ProxyNext
  <2>6. ASSUME NEW q \in Requests, Send(q) PROVE Proxy!ProxyNext
    BY <2>6, SendSimulates
  <2>7. ASSUME NEW q \in Requests, Relay(q) PROVE Proxy!ProxyNext
    BY <2>7, RelaySimulates
  <2>8. CASE Crash
    BY <2>8, CrashSimulates
  <2>9. CASE UNCHANGED gatewayVars
    BY <2>9 DEF gatewayVars, engineVars, handlerVars, Proxy!proxyVars
  <2> QED BY <2>1, <2>2, <2>3, <2>4, <2>5, <2>6, <2>7, <2>8, <2>9
          DEF GatewayNext, HandlerStep
<1> QED BY <1>1, ProxyStarts, GatewayInvariant, PTL
        DEF GatewaySpec, ImplementsProxy, Proxy!ProxySpec

=============================================================================
