---------------------------- MODULE AdaptedProofs -----------------------------
(***************************************************************************)
(* One request through its adapter and the engine: what is sent holds the  *)
(* payload of the client under the texts the engine chose, the last item is*)
(* as it came, and nothing is rewritten that the planner has not seen.     *)
(*                                                                         *)
(* AdaptedInv adds to the engine's own invariant what the request is at each*)
(* step; the properties follow from it and the lemmas about the parsers: what*)
(* is parsed without a doubt has been seen to the last text (ParseSeen), and*)
(* what is sent is read again as it was decided (ParseMirrors).            *)
(***************************************************************************)
EXTENDS AdaptedRequests, EngineProofs, AdaptersProofs

-----------------------------------------------------------------------------
(* The inductive invariant.                                                  *)

\* What the only call was given: the blocks of the payload, without their paths.
Given == [blocks |-> Plain(parsed.blocks), wireSafe |-> parsed.safe]

RegistryKept ==
    /\ DOMAIN DefaultRegistry \subseteq DOMAIN registry
    /\ \A e \in DOMAIN registry : registry[e] \in ProtocolsAt(e)

RequestOnTrack ==
    /\ progress \in {"setup", "refused", "parse", "optimize", "sent"}
    /\ progress \in {"parse", "optimize", "sent"} =>
          endpoint \in DOMAIN registry /\ payload \in PayloadsOf(registry[endpoint])
    /\ progress \in {"optimize", "sent"} => parsed = Parse(registry[endpoint], payload)
    /\ progress = "optimize" => ~parsed.raises
    /\ \A c \in Calls :
          /\ progress \notin {"optimize", "sent"} => stage[c] = "idle"
          /\ stage[c] # "idle" => env[c] = Given /\ ~parsed.raises
          /\ progress = "sent" =>
                upstream = IF stage[c] = "returned" /\ result[c].optimized
                           THEN SerializeBlocks(payload, parsed.blocks, Rendered(result[c].body))
                           ELSE payload

AdaptedInv == EngineInv /\ RegistryKept /\ RequestOnTrack

LEMMA ProtocolsKnown ==
    ASSUME NEW e
    PROVE  ProtocolsAt(e) \subseteq Protocols
<1>1. \A x \in DOMAIN DefaultRegistry : DefaultRegistry[x] \in Protocols
  BY DEF DefaultRegistry, Protocols
<1>2. QED
  BY <1>1, RequestAssumption DEF ProtocolsAt

\* The blocks of a payload, as the planner sees them, make an envelope.
LEMMA PlainType ==
    ASSUME NEW p \in Payloads, NEW blocks \in Seq(Sound(p))
    PROVE  /\ Plain(blocks) \in Seq(Block)
           /\ DOMAIN Plain(blocks) = DOMAIN blocks /\ Len(Plain(blocks)) = Len(blocks)
           /\ \A i \in DOMAIN blocks : /\ Plain(blocks)[i].kind = blocks[i].kind
                                       /\ Plain(blocks)[i].turn = blocks[i].turn
                                       /\ Plain(blocks)[i].text = blocks[i].text
<1>1. ASSUME NEW i \in DOMAIN blocks
      PROVE  [kind |-> blocks[i].kind, turn |-> blocks[i].turn, text |-> blocks[i].text] \in Block
  <2>1. blocks[i] \in Sound(p)
    BY SeqPlace
  <2>2. blocks[i].kind \in Kinds /\ blocks[i].turn \in Turns(p) /\ blocks[i].text \in Texts
    BY <2>1 DEF Sound
  <2>3. QED
    BY <2>2, Turned DEF Block
<1>2. DOMAIN blocks = 1 .. Len(blocks) /\ Len(blocks) \in Nat
  OBVIOUS
<1>3. Plain(blocks) \in [1 .. Len(blocks) -> Block]
  BY <1>1, <1>2 DEF Plain
<1>4. Plain(blocks) \in Seq(Block)
  BY <1>2, <1>3
<1>5. DOMAIN Plain(blocks) = DOMAIN blocks
  BY DEF Plain
<1>6. Len(Plain(blocks)) = Len(blocks)
  BY <1>2, <1>4, <1>5
<1>7. QED
  BY <1>4, <1>5, <1>6 DEF Plain

LEMMA ParsedType ==
    ASSUME NEW e \in DOMAIN registry, RegistryKept, payload \in PayloadsOf(registry[e]),
           parsed = Parse(registry[e], payload)
    PROVE  /\ payload \in Payloads /\ registry[e] \in Protocols
           /\ parsed \in Findings(Sound(payload))
           /\ parsed.blocks \in Seq(Sound(payload))
           /\ Given \in Envelope
<1>1. registry[e] \in Protocols /\ payload \in Payloads
  BY ProtocolsKnown DEF RegistryKept, PayloadsOf
<1>2. parsed \in Findings(Sound(payload))
  BY <1>1, ParseSound
<1>3. parsed.blocks \in Seq(Sound(payload)) /\ parsed.safe \in BOOLEAN
  BY <1>2 DEF Findings
<1>4. Given \in Envelope
  BY <1>1, <1>3, PlainType DEF Given, Envelope
<1>5. QED
  BY <1>1, <1>2, <1>3, <1>4

-----------------------------------------------------------------------------
(* The steps.                                                                *)

LEMMA AdaptedInitInv == AdaptedInit => AdaptedInv
<1> SUFFICES ASSUME AdaptedInit PROVE AdaptedInv
  OBVIOUS
<1>1. EngineInv
  BY EngineInitInv DEF AdaptedInit
<1>2. RegistryKept
  BY DEF AdaptedInit, RegistryKept, ProtocolsAt
<1>3. RequestOnTrack
  BY DEF AdaptedInit, EngineInit, RequestOnTrack
<1>4. QED
  BY <1>1, <1>2, <1>3 DEF AdaptedInv

LEMMA RegisterStep ==
    ASSUME AdaptedInv, NEW r \in Registrations, Register(r[1], r[2])
    PROVE  AdaptedInv'
<1> DEFINE e == Normalize(r[1])
<1>1. EngineInv'
  BY EngineStutterStep DEF Register, AdaptedInv
<1>2. RegistryKept'
  <2>1. CASE e \in DOMAIN registry
    BY <2>1 DEF Register, AdaptedInv, RegistryKept
  <2>2. CASE e \notin DOMAIN registry
    <3>1. registry' = [x \in DOMAIN registry \cup {e} |->
                          IF x \in DOMAIN registry THEN registry[x] ELSE r[2]]
      BY <2>2 DEF Register
    <3>2. /\ DOMAIN registry' = DOMAIN registry \cup {e}
          /\ registry'[e] = r[2]
          /\ \A x \in DOMAIN registry : registry'[x] = registry[x]
      BY <2>2, <3>1
    <3>3. r[2] \in ProtocolsAt(e)
      BY <2>2 DEF ProtocolsAt, AdaptedInv, RegistryKept
    <3>4. QED
      BY <3>2, <3>3 DEF AdaptedInv, RegistryKept
  <2>3. QED
    BY <2>1, <2>2
<1>3. RequestOnTrack'
  BY DEF Register, AdaptedInv, RequestOnTrack, Given, engineVars, callVars
<1>4. QED
  BY <1>1, <1>2, <1>3 DEF AdaptedInv

LEMMA ReceiveStep ==
    ASSUME AdaptedInv, NEW path \in Paths, Receive(path)
    PROVE  AdaptedInv'
<1>1. EngineInv'
  BY EngineStutterStep DEF Receive, AdaptedInv
<1>2. RegistryKept'
  BY DEF Receive, AdaptedInv, RegistryKept
<1>3. payload' \in PayloadsOf(registry'[endpoint'])
  BY RequestAssumption DEF Receive, AdaptedInv, RegistryKept
<1>4. RequestOnTrack'
  BY <1>3 DEF Receive, AdaptedInv, RequestOnTrack, Given, engineVars, callVars
<1>5. QED
  BY <1>1, <1>2, <1>4 DEF AdaptedInv

LEMMA ParsePayloadStep ==
    ASSUME AdaptedInv, ParsePayload
    PROVE  AdaptedInv'
<1>1. EngineInv'
  BY EngineStutterStep DEF ParsePayload, AdaptedInv
<1>2. RegistryKept'
  BY DEF ParsePayload, AdaptedInv, RegistryKept
<1>3. RequestOnTrack'
  <2>1. /\ registry' = registry /\ endpoint' = endpoint /\ payload' = payload
        /\ stage' = stage /\ env' = env /\ result' = result
        /\ endpoint \in DOMAIN registry /\ payload \in PayloadsOf(registry[endpoint])
        /\ \A c \in Calls : stage[c] = "idle"
        /\ parsed' = Parse(registry[endpoint], payload)
        /\ \/ parsed'.raises /\ progress' = "sent" /\ upstream' = payload
           \/ ~parsed'.raises /\ progress' = "optimize"
    BY DEF ParsePayload, AdaptedInv, RequestOnTrack, engineVars, callVars
  <2>2. QED
    BY <2>1 DEF RequestOnTrack
<1>4. QED
  BY <1>1, <1>2, <1>3 DEF AdaptedInv

LEMMA OptimizeParsedStep ==
    ASSUME AdaptedInv, NEW c \in Calls, OptimizeParsed(c)
    PROVE  AdaptedInv'
<1>0. /\ EngineInv /\ RegistryKept /\ RequestOnTrack
      /\ progress = "optimize" /\ UNCHANGED requestVars
      /\ Optimize(c, Given) \/ CallStep(c)
  BY DEF OptimizeParsed, AdaptedInv, Given
<1>1. /\ registry' = registry /\ progress' = progress /\ endpoint' = endpoint
      /\ payload' = payload /\ parsed' = parsed /\ upstream' = upstream /\ Given' = Given
  BY <1>0 DEF requestVars, Given
<1>2. RegistryKept'
  BY <1>0, <1>1 DEF RegistryKept
<1>3. Given \in Envelope
  BY <1>0, ParsedType DEF RequestOnTrack
<1>4. EngineInv'
  BY <1>0, <1>3, OptimizeStep, CallStepInv
<1>5. ASSUME NEW d \in Calls, stage'[d] # "idle" PROVE env'[d] = Given
  <2>1. d = c
    BY OneCall
  <2>2. CASE Optimize(c, Given)
    BY <1>0, <2>1, <2>2 DEF Optimize, EngineInv, EngineTypeOK
  <2>3. CASE CallStep(c)
    <3>1. env' = env /\ stage[c] # "idle"
      BY <2>3 DEF CallStep, CallProgress, Reduce, ReduceRaises, Dedup, DedupRaises, Decide
    <3>2. QED
      BY <1>0, <2>1, <3>1 DEF RequestOnTrack
  <2>4. QED
    BY <1>0, <2>2, <2>3
<1>6. RequestOnTrack'
  BY <1>0, <1>1, <1>5 DEF RequestOnTrack
<1>7. QED
  BY <1>2, <1>4, <1>6 DEF AdaptedInv

LEMMA SerializeResultStep ==
    ASSUME AdaptedInv, NEW c \in Calls, SerializeResult(c)
    PROVE  AdaptedInv'
<1>1. EngineInv'
  BY EngineStutterStep DEF SerializeResult, AdaptedInv
<1>2. RegistryKept'
  BY DEF SerializeResult, AdaptedInv, RegistryKept
<1>3. /\ registry' = registry /\ endpoint' = endpoint /\ payload' = payload /\ parsed' = parsed
      /\ stage' = stage /\ env' = env /\ result' = result /\ Given' = Given
      /\ progress = "optimize" /\ progress' = "sent" /\ stage[c] = "returned"
      /\ upstream' = IF result[c].optimized
                     THEN SerializeBlocks(payload, parsed.blocks, Rendered(result[c].body))
                     ELSE payload
  BY DEF SerializeResult, engineVars, callVars, Given
<1>4. \A d \in Calls : d = c
  BY OneCall
<1>5. RequestOnTrack'
  BY <1>3, <1>4 DEF AdaptedInv, RequestOnTrack
<1>6. QED
  BY <1>1, <1>2, <1>5 DEF AdaptedInv

\* The invariant the theorems follow from.
THEOREM AdaptedInvariant == AdaptedSpec => []AdaptedInv
<1>1. AdaptedInv /\ [AdaptedNext]_adaptedVars => AdaptedInv'
  <2> SUFFICES ASSUME AdaptedInv, [AdaptedNext]_adaptedVars PROVE AdaptedInv'
    OBVIOUS
  <2>1. CASE UNCHANGED adaptedVars
    <3>1. EngineInv'
      BY <2>1, EngineStutterStep DEF AdaptedInv, adaptedVars
    <3>2. RegistryKept' /\ RequestOnTrack'
      BY <2>1 DEF AdaptedInv, RegistryKept, RequestOnTrack, Given, adaptedVars, requestVars,
                  engineVars, callVars
    <3>3. QED
      BY <3>1, <3>2 DEF AdaptedInv
  <2>2. CASE AdaptedNext
    BY <2>2, RegisterStep, ReceiveStep, ParsePayloadStep, OptimizeParsedStep,
       SerializeResultStep DEF AdaptedNext
  <2>3. QED
    BY <2>1, <2>2
<1>2. QED
  BY <1>1, AdaptedInitInv, PTL DEF AdaptedSpec

-----------------------------------------------------------------------------
(* Reversible.                                                               *)

LEMMA SoundPlaced ==
    ASSUME NEW p, NEW blocks \in Seq(Sound(p))
    PROVE  /\ Len(blocks) \in Nat /\ DOMAIN blocks = 1 .. Len(blocks)
           /\ Placed(p, blocks)
           /\ \A i \in 1 .. Len(blocks) :
                 /\ blocks[i] \in Sound(p)
                 /\ blocks[i].path # NoPath => TextAt(p, blocks[i].path) = blocks[i].text
<1>1. Len(blocks) \in Nat /\ DOMAIN blocks = 1 .. Len(blocks)
  OBVIOUS
<1>2. \A i \in 1 .. Len(blocks) : blocks[i] \in Sound(p)
  BY <1>1, SeqPlace
<1>3. QED
  BY <1>1, <1>2 DEF Sound, Placed

\* The originals, put back, make the payload, whatever was written before.
LEMMA RestoresPayload ==
    ASSUME NEW p, NEW blocks \in Seq(Sound(p)), NEW texts
    PROVE  /\ SerializeBlocks(p, blocks, Originals(blocks)) = p
           /\ SerializeBlocks(SerializeBlocks(p, blocks, texts), blocks, Originals(blocks)) = p
<1>1. \A i \in 1 .. Len(blocks) :
         blocks[i].path # NoPath => TextAt(p, blocks[i].path) = Originals(blocks)[i]
  BY SoundPlaced DEF Originals
<1>2. SerializeBlocks(p, blocks, Originals(blocks)) = p
  BY <1>1, SoundPlaced, SerializeSame
<1>3. QED
  BY <1>2, SoundPlaced, SerializeTwice

\* The originals of the blocks, put back into what the upstream received, make
\* the payload the client sent.
THEOREM RewritingIsReversible == AdaptedSpec => []OriginalsRestorePayload
<1>1. AdaptedInv => OriginalsRestorePayload
  <2> SUFFICES ASSUME AdaptedInv, progress = "sent"
               PROVE  SerializeBlocks(upstream, parsed.blocks, Originals(parsed.blocks)) = payload
    BY DEF OriginalsRestorePayload
  <2>1. parsed.blocks \in Seq(Sound(payload))
    BY ParsedType DEF AdaptedInv, RequestOnTrack
  <2>2. PICK c : c \in Calls
    BY OneCall
  <2>3. \/ upstream = SerializeBlocks(payload, parsed.blocks, Rendered(result[c].body))
        \/ upstream = payload
    BY <2>2 DEF AdaptedInv, RequestOnTrack
  <2>4. QED
    BY <2>1, <2>3, RestoresPayload
<1>2. QED
  BY <1>1, AdaptedInvariant, PTL

-----------------------------------------------------------------------------
(* The last item.                                                            *)

\* What a write leaves of the payload: the instructions, the tools and item n.
Kept(p, q, n) ==
    /\ q.value[System] = p.value[System] /\ q.tools = p.tools
    /\ IsList(p.value[Body]) /\ n \in DOMAIN p.value[Body].items =>
          /\ n \in DOMAIN q.value[Body].items
          /\ q.value[Body].items[n] = p.value[Body].items[n]

LEMMA SecondStep ==
    ASSUME NEW k \in {1, 2, 3, 4}, k # 1
    PROVE  2 \in 1 .. k
OBVIOUS

LEMMA WriteKeeps ==
    ASSUME NEW p, NEW q, NEW n, NEW b \in Sound(p), NEW text,
           b.path # NoPath, Points(q, b.path), Kept(p, q, n),
           b.kind = "system" \/ b.turn = n - 1 => text = b.text,
           n \in Nat
    PROVE  Kept(p, SetPath(q, b.path, text), n)
<1> DEFINE a == b.path
           v == q.value[Body]
<1>1. /\ Points(p, a) /\ TextAt(p, a) = b.text
      /\ a[1] = System => b.kind = "system"
      /\ a[1] = Body /\ Len(a) # 1 => b.turn = a[2] - 1
      /\ a[1] \in {System, Body} /\ Len(a) \in {1, 2, 3, 4}
      /\ Leads1(p.value[a[1]], a) /\ Leads1(q.value[a[1]], a) /\ IsPayload(q)
      /\ a \in Seq(Nat)
  BY DEF Sound, Points
<1>2. ASSUME text = b.text, TextAt(q, a) = TextAt(p, a)
      PROVE  Kept(p, SetPath(q, a, text), n)
  <2>1. SetPath(q, a, TextAt(q, a)) = q
    BY SetPathLaws
  <2>2. QED
    BY <1>1, <1>2, <2>1
<1>3. CASE a[1] = System
  <2>1. TextAt(q, a) = TextAt(p, a)
    BY <1>3 DEF TextAt, Kept
  <2>2. QED
    BY <1>1, <1>2, <1>3, <2>1
<1>4. CASE a[1] = Body
  <2> DEFINE w == Write1(v, a, text)
  <2>1. SetPath(q, a, text) = WithValue(q, Body, w)
    BY <1>4, SetPathIsWrite
  <2>2. /\ WithValue(q, Body, w).value[System] = q.value[System]
        /\ WithValue(q, Body, w).value[Body] = w
        /\ WithValue(q, Body, w).tools = q.tools
    <3> HIDE DEF w
    <3>1. Body # System
      BY DEF Body, System
    <3>2. QED
      BY <1>1, <3>1, ValueLaws
  <2>3. CASE ~(IsList(p.value[Body]) /\ n \in DOMAIN p.value[Body].items)
    BY <2>1, <2>2, <2>3 DEF Kept
  <2>4. CASE IsList(p.value[Body]) /\ n \in DOMAIN p.value[Body].items
    <3>1. Len(a) # 1
      BY <1>1, <1>4, <2>4 DEF Leads1, Holds, IsList
    <3>2. Opens(v, a[2]) /\ b.turn = a[2] - 1 /\ a[2] \in Nat
      <4>1. 2 \in 1 .. Len(a)
        BY <1>1, <3>1, SecondStep
      <4>2. QED
        BY <1>1, <1>4, <3>1, <4>1 DEF Leads1
    <3>3. n \in DOMAIN v.items /\ v.items[n] = p.value[Body].items[n]
      BY <2>4 DEF Kept
    <3>4. CASE a[2] = n
      <4>1. text = b.text
        BY <3>2, <3>4
      <4>2. TextAt(q, a) = TextAt(p, a)
        BY <1>4, <3>1, <3>3, <3>4 DEF TextAt, Read1, Sub
      <4>3. QED
        BY <1>2, <4>1, <4>2
    <3>5. CASE a[2] # n
      <4> DEFINE x == Write2(Sub(v, a[2]), a, text)
      <4>1. w = WithSub(v, a[2], x)
        BY <3>1 DEF Write1
      <4>2. w = [is |-> "list",
                 items |-> [l \in DOMAIN v.items |->
                               IF l = a[2] THEN WithContent(v.items[a[2]], x) ELSE v.items[l]]]
        <5> HIDE DEF x, w, v
        <5>1. QED
          BY <3>2, <4>1, SubForm
      <4>3. n \in DOMAIN w.items /\ w.items[n] = v.items[n]
        <5> HIDE DEF x, w
        <5>1. QED
          BY <3>3, <3>5, <4>2
      <4> HIDE DEF w
      <4>4. QED
        BY <2>1, <2>2, <3>3, <4>3 DEF Kept
    <3>6. QED
      BY <3>4, <3>5
  <2>5. QED
    BY <2>3, <2>4
<1>5. QED
  BY <1>1, <1>3, <1>4

\* When the texts of the instructions and of turn n - 1 are the originals, the
\* instructions and item n stay as they are.
LEMMA SerializeKeepsItem ==
    ASSUME NEW p, NEW blocks \in Seq(Sound(p)), NEW texts, NEW n \in Nat,
           \A i \in 1 .. Len(blocks) :
              blocks[i].kind = "system" \/ blocks[i].turn = n - 1 => texts[i] = blocks[i].text
    PROVE  Kept(p, SerializeBlocks(p, blocks, texts), n)
<1> DEFINE m == Len(blocks)
           Fine(q) == Placed(q, blocks) /\ Kept(p, q, n)
<1>0. m \in Nat
  OBVIOUS
<1>1. Fine(p)
  BY SoundPlaced DEF Kept
<1>2. ASSUME NEW q, NEW i \in 1 .. m, Fine(q), blocks[i].path # NoPath
      PROVE  Fine(SetPath(q, blocks[i].path, texts[i]))
  <2>1. Placed(SetPath(q, blocks[i].path, texts[i]), blocks)
    BY <1>2, PlacedAfter
  <2>2. Points(q, blocks[i].path) /\ blocks[i] \in Sound(p)
    BY <1>2, SoundPlaced DEF Placed
  <2>3. Kept(p, SetPath(q, blocks[i].path, texts[i]), n)
    BY <1>2, <2>2, WriteKeeps
  <2>4. QED
    BY <2>1, <2>3
<1>3. PICK h : Steps(h, p, blocks, texts, m) /\ SerializeBlocks(p, blocks, texts) = h[m]
  BY <1>0, SerializeIsFold
<1> HIDE DEF m, Fine
<1> DEFINE T == {i \in Nat : i =< m => Fine(h[i])}
<1>4. 0 \in T
  BY <1>1, <1>3 DEF Steps
<1>5. ASSUME NEW i \in Nat, i \in T PROVE i + 1 \in T
  <2>1. SUFFICES ASSUME i + 1 =< m PROVE Fine(h[i + 1])
    OBVIOUS
  <2>2. i =< m /\ i + 1 \in 1 .. m /\ (i + 1) - 1 = i
    BY <1>0, <2>1
  <2>3. Fine(h[i])
    BY <1>5, <2>2
  <2>4. h[i + 1] = IF blocks[i + 1].path = NoPath THEN h[i]
                   ELSE SetPath(h[i], blocks[i + 1].path, texts[i + 1])
    BY <1>3, <2>2 DEF Steps
  <2>5. QED
    BY <1>2, <2>2, <2>3, <2>4
<1>6. Nat \subseteq T
  <2> HIDE DEF T
  <2>1. QED
    BY <1>4, <1>5, Induction
<1>7. Fine(h[m])
  BY <1>0, <1>6
<1>8. QED
  BY <1>3, <1>7 DEF Fine

\* The engine leaves alone the texts of the instructions and of the last item.
LEMMA ProtectedTexts ==
    ASSUME AdaptedInv, NEW c \in Calls, progress = "sent", stage[c] = "returned",
           result[c].optimized, NEW n \in Nat,
           \A t \in Turns(payload) : t =< n - 1
    PROVE  \A i \in 1 .. Len(parsed.blocks) :
              parsed.blocks[i].kind = "system" \/ parsed.blocks[i].turn = n - 1
                 => Rendered(result[c].body)[i] = parsed.blocks[i].text
<1> DEFINE blocks == parsed.blocks
           plain == Plain(blocks)
           body == result[c].body
<1>1. payload \in Payloads /\ blocks \in Seq(Sound(payload))
  BY ParsedType DEF AdaptedInv, RequestOnTrack
<1>2. env[c] = Given
  BY DEF AdaptedInv, RequestOnTrack
<1>3. plain \in Seq(Block) /\ body = WholeRewriting(plain)
  <2>1. env[c].blocks = plain
    BY <1>2 DEF Given
  <2>2. QED
    BY <2>1, ResultFacts DEF AdaptedInv, ReturnedOptimized
<1>4. KeepsContext(plain, body) /\ DOMAIN body = DOMAIN plain
  BY <1>3, RewritingKeepsContext DEF WholeRewriting
<1>5. /\ DOMAIN plain = DOMAIN blocks /\ DOMAIN blocks = 1 .. Len(blocks)
      /\ \A i \in DOMAIN blocks : /\ plain[i].kind = blocks[i].kind
                                  /\ plain[i].turn = blocks[i].turn
                                  /\ plain[i].text = blocks[i].text
  BY <1>1, PlainType
<1>6. \A i \in DOMAIN blocks : blocks[i].turn \in Turns(payload) /\ blocks[i].turn \in Nat
  <2>1. \A i \in DOMAIN blocks : blocks[i].turn \in Turns(payload)
    BY <1>1, SoundPlaced DEF Sound
  <2>2. QED
    BY <1>1, <2>1, Turned
<1>7. ASSUME NEW i \in DOMAIN blocks, blocks[i].kind = "system" \/ blocks[i].turn = n - 1
      PROVE  Rendered(body)[i] = blocks[i].text
  <2>1. i \in ActiveContext(plain)
    <3>1. CASE blocks[i].kind = "system"
      BY <1>5, <3>1 DEF ActiveContext, ProtocolKinds
    <3>2. CASE blocks[i].turn = n - 1
      <4>1. ~\E j \in DOMAIN plain : plain[j].turn > plain[i].turn
        BY <1>5, <1>6, <3>2
      <4>2. QED
        BY <1>5, <4>1 DEF ActiveContext
    <3>3. QED
      BY <1>7, <3>1, <3>2
  <2>2. body[i] = Original(plain)[i]
    BY <1>4, <1>5, <2>1 DEF KeepsContext, Replaced
  <2>3. body[i].dup = 0 /\ body[i].text = blocks[i].text
    BY <1>5, <2>2 DEF Original
  <2>4. QED
    BY <1>4, <1>5, <2>3 DEF Rendered
<1>8. QED
  BY <1>5, <1>7

LEMMA LastTurn ==
    ASSUME NEW p \in Payloads, IsList(p.value[Body]), p.value[Body].items # <<>>
    PROVE  LET n == Len(p.value[Body].items) IN
           /\ n \in Nat /\ n \in DOMAIN p.value[Body].items
           /\ \A t \in Turns(p) : t =< n - 1
<1>1. /\ Items(p.value[Body]) = p.value[Body].items
      /\ p.value[Body].items \in Seq(ItemElements)
  BY PayloadType, ValueType DEF Items
<1> DEFINE s == p.value[Body].items
<1>2. /\ Len(s) \in Nat /\ Len(s) \in DOMAIN s
      /\ \A i \in DOMAIN s : i - 1 =< Len(s) - 1
      /\ 0 =< Len(s) - 1
  <2> HIDE DEF s
  <2>1. s \in Seq(ItemElements) /\ s # <<>>
    BY <1>1 DEF s
  <2>2. QED
    BY <2>1
<1>3. \A t \in Turns(p) : t =< Len(s) - 1
  BY <1>1, <1>2 DEF Turns
<1>4. QED
  BY <1>2, <1>3

\* The last item, the instructions and the tools reach the upstream as they came.
THEOREM TheActiveItemIsUntouched == AdaptedSpec => []ActiveItemUntouched
<1>1. AdaptedInv => ActiveItemUntouched
  <2> SUFFICES ASSUME AdaptedInv, progress = "sent"
               PROVE  /\ upstream.value[System] = payload.value[System]
                      /\ upstream.tools = payload.tools
                      /\ IsList(payload.value[Body]) /\ payload.value[Body].items # <<>> =>
                            LET items == payload.value[Body].items
                                sent  == upstream.value[Body].items
                            IN  sent[Len(items)] = items[Len(items)]
    BY DEF ActiveItemUntouched
  <2>1. payload \in Payloads /\ parsed.blocks \in Seq(Sound(payload))
    BY ParsedType DEF AdaptedInv, RequestOnTrack
  <2>2. PICK c : c \in Calls
    BY OneCall
  <2>3. upstream = IF stage[c] = "returned" /\ result[c].optimized
                   THEN SerializeBlocks(payload, parsed.blocks, Rendered(result[c].body))
                   ELSE payload
    BY <2>2 DEF AdaptedInv, RequestOnTrack
  <2>4. CASE ~(stage[c] = "returned" /\ result[c].optimized)
    BY <2>3, <2>4
  <2>5. CASE stage[c] = "returned" /\ result[c].optimized
    <3>1. ASSUME NEW n \in Nat, \A t \in Turns(payload) : t =< n - 1
          PROVE  Kept(payload, upstream, n)
      <4>1. upstream = SerializeBlocks(payload, parsed.blocks, Rendered(result[c].body))
        BY <2>3, <2>5
      <4>2. \A i \in 1 .. Len(parsed.blocks) :
               parsed.blocks[i].kind = "system" \/ parsed.blocks[i].turn = n - 1
                  => Rendered(result[c].body)[i] = parsed.blocks[i].text
        BY <2>2, <2>5, <3>1, ProtectedTexts
      <4>3. QED
        BY <2>1, <4>1, <4>2, SerializeKeepsItem
    <3>2. CASE IsList(payload.value[Body]) /\ payload.value[Body].items # <<>>
      BY <2>1, <3>1, <3>2, LastTurn DEF Kept
    <3>3. CASE ~(IsList(payload.value[Body]) /\ payload.value[Body].items # <<>>)
      <4>1. Turns(payload) = {0}
        <5>1. Items(payload.value[Body]) = <<>>
          BY <3>3 DEF Items
        <5>2. QED
          BY <5>1 DEF Turns
      <4>2. \A t \in Turns(payload) : t =< 1 - 1
        BY <4>1
      <4>3. Kept(payload, upstream, 1)
        BY <3>1, <4>2
      <4>4. QED
        BY <3>3, <4>3 DEF Kept
    <3>4. QED
      BY <3>2, <3>3
  <2>6. QED
    BY <2>4, <2>5
<1>2. QED
  BY <1>1, AdaptedInvariant, PTL

-----------------------------------------------------------------------------
(* What a parser has seen when it understands the payload.                   *)

Tells(f, text) == \E i \in DOMAIN f.blocks : f.blocks[i].text = text
Clean(f)       == f.safe /\ ~f.raises
Told(f, v)     == IsStr(v) => Tells(f, v.text)

\* A part that is bound to no bytes around it.
FreePart(protocol, e) ==
    /\ TypeOf(e) \notin {"thinking", "redacted_thinking", "thought"}
    /\ protocol = "anthropic_messages" /\ TypeOf(e) = "text" => ~Cited(e)

SeenText(f, protocol, e) == FreePart(protocol, e) /\ (IsMap(e) => Told(f, e.content))

SeenPart(f, protocol, e) ==
    /\ SeenText(f, protocol, e)
    /\ IsMap(e) /\ IsList(e.content)
          => \A k \in DOMAIN e.content.items : SeenText(f, protocol, e.content.items[k])

SeenItem(f, protocol, e) ==
    IsMap(e) => /\ Told(f, e.content)
                /\ IsList(e.content)
                     => \A j \in DOMAIN e.content.items : SeenPart(f, protocol, e.content.items[j])

SeenBody(f, protocol, v) ==
    /\ Told(f, v)
    /\ IsList(v) => \A i \in DOMAIN v.items : SeenItem(f, protocol, v.items[i])

SeenSystem(f, protocol, v) ==
    /\ Told(f, v)
    /\ IsList(v) => \A j \in DOMAIN v.items :
                       /\ SeenText(f, protocol, v.items[j])
                       /\ IsMap(v.items[j]) => ~IsList(v.items[j].content)

\* What one tells, another that tells at least as much tells too.
Covers(f, g) == \A text : Tells(f, text) => Tells(g, text)

LEMMA SeenMore ==
    ASSUME NEW f, NEW g, Covers(f, g), NEW protocol, NEW x
    PROVE  /\ SeenText(f, protocol, x) => SeenText(g, protocol, x)
           /\ SeenPart(f, protocol, x) => SeenPart(g, protocol, x)
           /\ SeenItem(f, protocol, x) => SeenItem(g, protocol, x)
           /\ SeenBody(f, protocol, x) => SeenBody(g, protocol, x)
           /\ SeenSystem(f, protocol, x) => SeenSystem(g, protocol, x)
<1>1. \A v : Told(f, v) => Told(g, v)
  BY DEF Told, Covers
<1>2. \A e : SeenText(f, protocol, e) => SeenText(g, protocol, e)
  BY <1>1 DEF SeenText
<1>3. \A e : SeenPart(f, protocol, e) => SeenPart(g, protocol, e)
  BY <1>2 DEF SeenPart
<1>4. \A e : SeenItem(f, protocol, e) => SeenItem(g, protocol, e)
  BY <1>1, <1>3 DEF SeenItem
<1>5. SeenBody(f, protocol, x) => SeenBody(g, protocol, x)
  BY <1>1, <1>4 DEF SeenBody
<1>6. SeenSystem(f, protocol, x) => SeenSystem(g, protocol, x)
  BY <1>1, <1>2 DEF SeenSystem
<1>7. QED
  BY <1>2, <1>3, <1>4, <1>5, <1>6

\* Findings are joined without a loss, and no part may hide its own doubts.
LEMMA JoinCovers ==
    ASSUME NEW S, NEW n \in Nat, NEW found, DOMAIN found = 1 .. n,
           \A i \in 1 .. n : found[i] \in Findings(S), Clean(Join(found))
    PROVE  \A i \in 1 .. n : Clean(found[i]) /\ Covers(found[i], Join(found))
<1>1. \A i \in 1 .. n : Covers(found[i], Join(found))
  BY JoinKeeps DEF Covers, Tells
<1>2. /\ Join(found).safe = \A i \in DOMAIN found : found[i].safe
      /\ Join(found).raises = \E i \in DOMAIN found : found[i].raises
  BY DEF Join
<1>3. \A i \in 1 .. n : Clean(found[i])
  BY <1>2 DEF Clean
<1>4. QED
  BY <1>1, <1>3

LEMMA JoinCoversSeq ==
    ASSUME NEW S, NEW E, NEW s \in Seq(E), NEW found, DOMAIN found = DOMAIN s,
           \A i \in DOMAIN s : found[i] \in Findings(S), Clean(Join(found))
    PROVE  \A i \in DOMAIN s : Clean(found[i]) /\ Covers(found[i], Join(found))
<1> DEFINE n == Len(s)
<1>1. n \in Nat /\ DOMAIN s = 1 .. n
  OBVIOUS
<1> HIDE DEF n
<1>2. QED
  BY <1>1, JoinCovers

LEMMA JoinCoversTwo ==
    ASSUME NEW S, NEW a \in Findings(S), NEW b \in Findings(S), Clean(Join(<<a, b>>))
    PROVE  /\ Clean(a) /\ Covers(a, Join(<<a, b>>))
           /\ Clean(b) /\ Covers(b, Join(<<a, b>>))
<1> DEFINE s == <<a, b>>
<1>1. DOMAIN s = 1 .. 2 /\ s[1] = a /\ s[2] = b
  OBVIOUS
<1>2. \A i \in 1 .. 2 : s[i] \in Findings(S)
  BY <1>1
<1> HIDE DEF s
<1>3. Clean(Join(s))
  BY DEF s
<1>4. \A i \in 1 .. 2 : Clean(s[i]) /\ Covers(s[i], Join(s))
  BY <1>1, <1>2, <1>3, JoinCovers
<1>5. QED
  BY <1>1, <1>4 DEF s

LEMMA JoinCoversThree ==
    ASSUME NEW S, NEW a \in Findings(S), NEW b \in Findings(S), NEW c \in Findings(S),
           Clean(Join(<<a, b, c>>))
    PROVE  /\ Clean(a) /\ Covers(a, Join(<<a, b, c>>))
           /\ Clean(c) /\ Covers(c, Join(<<a, b, c>>))
<1> DEFINE s == <<a, b, c>>
<1>1. DOMAIN s = 1 .. 3 /\ s[1] = a /\ s[2] = b /\ s[3] = c
  OBVIOUS
<1>2. \A i \in 1 .. 3 : s[i] \in Findings(S)
  BY <1>1
<1> HIDE DEF s
<1>3. Clean(Join(s))
  BY DEF s
<1>4. \A i \in 1 .. 3 : Clean(s[i]) /\ Covers(s[i], Join(s))
  BY <1>1, <1>2, <1>3, JoinCovers
<1>5. QED
  BY <1>1, <1>4 DEF s

LEMMA JoinCoversFour ==
    ASSUME NEW S, NEW a \in Findings(S), NEW b \in Findings(S), NEW c \in Findings(S),
           NEW d \in Findings(S), Clean(Join(<<a, b, c, d>>))
    PROVE  /\ Clean(b) /\ Covers(b, Join(<<a, b, c, d>>))
           /\ Clean(d) /\ Covers(d, Join(<<a, b, c, d>>))
<1> DEFINE s == <<a, b, c, d>>
<1>1. DOMAIN s = 1 .. 4 /\ s[1] = a /\ s[2] = b /\ s[3] = c /\ s[4] = d
  OBVIOUS
<1>2. \A i \in 1 .. 4 : s[i] \in Findings(S)
  BY <1>1
<1> HIDE DEF s
<1>3. Clean(Join(s))
  BY DEF s
<1>4. \A i \in 1 .. 4 : Clean(s[i]) /\ Covers(s[i], Join(s))
  BY <1>1, <1>2, <1>3, JoinCovers
<1>5. QED
  BY <1>1, <1>4 DEF s

LEMMA Unclean == ~Clean(Unsafe) /\ ~Clean(Raises)
BY NoBlocks DEF Clean

LEMMA LeafTells ==
    ASSUME NEW kind, NEW turn, NEW text, NEW path
    PROVE  Tells(Leaf(kind, turn, text, path), text)
<1> DEFINE b == [kind |-> kind, turn |-> turn, text |-> text, path |-> path]
<1>1. Leaf(kind, turn, text, path).blocks = <<b>> /\ b.text = text
  BY DEF Leaf
<1> HIDE DEF b
<1>2. 1 \in DOMAIN <<b>> /\ <<b>>[1] = b
  OBVIOUS
<1>3. QED
  BY <1>1, <1>2 DEF Tells

LEMMA SafeIfClean ==
    ASSUME NEW S, NEW f \in Findings(S), NEW ok \in BOOLEAN, Clean(SafeIf(ok, f))
    PROVE  ok /\ Clean(f) /\ Covers(f, SafeIf(ok, f))
BY SafeIfType DEF Clean, Covers, Tells

LEMMA QuotableClean ==
    ASSUME NEW S, NEW part, NEW ok \in BOOLEAN, NEW kind, NEW turn, NEW path,
           Leaf(kind, turn, part.content.text, path) \in Findings(S),
           Leaf(kind, turn, part.content.text, NoPath) \in Findings(S),
           Clean(Quotable(part, ok, kind, turn, path))
    PROVE  ~Cited(part) /\ Tells(Quotable(part, ok, kind, turn, path), part.content.text)
<1> DEFINE free == ok /\ ~Cited(part)
           leaf == Leaf(kind, turn, part.content.text, IF free THEN path ELSE NoPath)
<1>1. free \in BOOLEAN
  OBVIOUS
<1>2. Quotable(part, ok, kind, turn, path) = SafeIf(free, leaf)
  BY DEF Quotable
<1>3. leaf \in Findings(S)
  <2> HIDE DEF free
  <2>1. QED
    BY <1>1
<1>4. Tells(leaf, part.content.text)
  BY LeafTells
<1>5. free /\ Covers(leaf, SafeIf(free, leaf))
  <2> HIDE DEF free, leaf
  <2>1. QED
    BY <1>1, <1>2, <1>3, SafeIfClean
<1>6. QED
  BY <1>2, <1>4, <1>5 DEF Covers

\* A text in plain words, seen.
LEMMA TextIsSeen ==
    ASSUME NEW f, NEW protocol, NEW e, NEW types, IsText(e, types),
           types \cap {"no object", "thinking", "redacted_thinking", "thought"} = {},
           protocol = "anthropic_messages" => ~Cited(e), Tells(f, e.content.text)
    PROVE  SeenPart(f, protocol, e) /\ SeenText(f, protocol, e) /\ ~IsList(e.content)
BY DEF SeenPart, SeenText, FreePart, Told, IsText, IsStr, IsList

\* A part nobody reads: no text of its own, and nothing below.
LEMMA SilentIsSeen ==
    ASSUME NEW f, NEW protocol, NEW e, IsMap(e) => e.content.is = "null",
           TypeOf(e) \notin {"text", "thinking", "redacted_thinking", "thought"}
    PROVE  SeenPart(f, protocol, e)
BY DEF SeenPart, SeenText, FreePart, Told, IsStr, IsList

-----------------------------------------------------------------------------
(* Parts, items and bodies that are seen.                                    *)

LEMMA PartsSeen ==
    ASSUME NEW S, NEW E, NEW items \in Seq(E), NEW parts, NEW protocol,
           DOMAIN parts = DOMAIN items,
           \A j \in DOMAIN items : parts[j] \in Findings(S),
           \A j \in DOMAIN items : Clean(parts[j]) => SeenPart(parts[j], protocol, items[j]),
           Clean(Join(parts))
    PROVE  \A j \in DOMAIN items : SeenPart(Join(parts), protocol, items[j])
<1>1. \A j \in DOMAIN items : Clean(parts[j]) /\ Covers(parts[j], Join(parts))
  BY JoinCoversSeq
<1>2. QED
  BY <1>1, SeenMore

LEMMA ItemsSeen ==
    ASSUME NEW p \in Payloads, IsList(p.value[Body]), NEW found, NEW protocol,
           DOMAIN found = DOMAIN p.value[Body].items,
           \A i \in DOMAIN p.value[Body].items : found[i] \in Findings(Sound(p)),
           \A i \in DOMAIN p.value[Body].items :
              Clean(found[i]) => SeenItem(found[i], protocol, p.value[Body].items[i]),
           Clean(Join(found))
    PROVE  SeenBody(Join(found), protocol, p.value[Body])
<1>1. p.value[Body].items \in Seq(ItemElements)
  BY ItemsOf
<1>2. \A i \in DOMAIN p.value[Body].items : Clean(found[i]) /\ Covers(found[i], Join(found))
  BY <1>1, JoinCoversSeq
<1>3. \A i \in DOMAIN p.value[Body].items : SeenItem(Join(found), protocol, p.value[Body].items[i])
  BY <1>2, SeenMore
<1>4. Told(Join(found), p.value[Body])
  BY DEF Told, IsStr, IsList
<1>5. QED
  BY <1>3, <1>4 DEF SeenBody

LEMMA TextItemSeen ==
    ASSUME NEW f, NEW protocol, NEW item, IsStr(item.content), Tells(f, item.content.text)
    PROVE  SeenItem(f, protocol, item)
BY DEF SeenItem, Told, IsStr, IsList

LEMMA SilentItemSeen ==
    ASSUME NEW f, NEW protocol, NEW item, IsMap(item) => item.content.is = "null"
    PROVE  SeenItem(f, protocol, item)
BY DEF SeenItem, Told, IsStr, IsList

LEMMA ListItemSeen ==
    ASSUME NEW f, NEW protocol, NEW item, IsList(item.content),
           \A j \in DOMAIN item.content.items : SeenPart(f, protocol, item.content.items[j])
    PROVE  SeenItem(f, protocol, item)
BY DEF SeenItem, Told, IsStr, IsList

LEMMA NullIsSeen ==
    ASSUME NEW f, NEW protocol, NEW v, v.is = "null"
    PROVE  SeenBody(f, protocol, v) /\ SeenSystem(f, protocol, v)
BY DEF SeenBody, SeenSystem, Told, IsStr, IsList

LEMMA StringIsSeen ==
    ASSUME NEW f, NEW protocol, NEW v, IsStr(v), Tells(f, v.text)
    PROVE  SeenBody(f, protocol, v) /\ SeenSystem(f, protocol, v)
BY DEF SeenBody, SeenSystem, Told, IsStr, IsList

LEMMA ContentSeen ==
    ASSUME NEW p \in Payloads, IsList(p.value[Body]), NEW i \in DOMAIN p.value[Body].items,
           IsMap(p.value[Body].items[i]), NEW parts, NEW protocol,
           IsList(p.value[Body].items[i].content)
              => /\ DOMAIN parts = DOMAIN p.value[Body].items[i].content.items
                 /\ \A j \in DOMAIN parts : parts[j] \in Findings(Sound(p))
                 /\ \A j \in DOMAIN parts :
                       Clean(parts[j])
                          => SeenPart(parts[j], protocol, p.value[Body].items[i].content.items[j]),
           Clean(Content(p.value[Body].items[i], i, parts))
    PROVE  SeenItem(Content(p.value[Body].items[i], i, parts), protocol, p.value[Body].items[i])
<1> DEFINE item == p.value[Body].items[i]
<1>1. CASE IsStr(item.content)
  <2>1. Content(item, i, parts) = Leaf(KindForRole(item.role), i - 1, item.content.text, <<Body, i>>)
    BY <1>1 DEF Content, IsStr, IsList
  <2>2. QED
    BY <1>1, <2>1, LeafTells, TextItemSeen
<1>2. CASE IsList(item.content)
  <2>1. Content(item, i, parts) = Join(parts)
    BY <1>2 DEF Content, IsStr, IsList
  <2>2. item.content.items \in Seq(PartElements)
    BY <1>2, ItemsOf, ValueType
  <2>3. \A j \in DOMAIN item.content.items : SeenPart(Join(parts), protocol, item.content.items[j])
    <3>1. /\ DOMAIN parts = DOMAIN item.content.items
          /\ \A j \in DOMAIN item.content.items : parts[j] \in Findings(Sound(p))
          /\ \A j \in DOMAIN item.content.items :
                Clean(parts[j]) => SeenPart(parts[j], protocol, item.content.items[j])
          /\ Clean(Join(parts))
      BY <1>2, <2>1
    <3> HIDE DEF item
    <3>2. QED
      BY <2>2, <3>1, PartsSeen
  <2>4. QED
    BY <1>2, <2>1, <2>3, ListItemSeen
<1>3. CASE ~IsStr(item.content) /\ ~IsList(item.content)
  <2>1. Content(item, i, parts) = SafeIf(item.content.is = "null", Nothing)
    BY <1>3 DEF Content
  <2>2. Nothing \in Findings(Sound(p))
    BY NoBlocks
  <2>3. Clean(SafeIf(item.content.is = "null", Nothing))
    BY <2>1
  <2>4. item.content.is = "null"
    BY <2>2, <2>3, SafeIfClean
  <2>5. QED
    BY <2>4, SilentItemSeen
<1>4. QED
  BY <1>1, <1>2, <1>3

-----------------------------------------------------------------------------
(* responses                                                                 *)

LEMMA ResponsesPartSeen ==
    ASSUME NEW kind, NEW i, NEW j, NEW part, Clean(ResponsesPart(kind, i, j, part))
    PROVE  SeenPart(ResponsesPart(kind, i, j, part), "responses", part)
<1>1. IsText(part, {"input_text", "output_text", "text"})
  BY Unclean DEF ResponsesPart
<1>2. ResponsesPart(kind, i, j, part) = Leaf(kind, i - 1, part.content.text, <<Body, i, j>>)
  BY <1>1 DEF ResponsesPart, IsText
<1>3. QED
  BY <1>1, <1>2, LeafTells, TextIsSeen

LEMMA ResponsesItemSeen ==
    ASSUME NEW p \in PayloadsOf("responses"), IsList(p.value[Body]),
           NEW i \in DOMAIN p.value[Body].items, Clean(ResponsesItem(i, p.value[Body].items[i]))
    PROVE  SeenItem(ResponsesItem(i, p.value[Body].items[i]), "responses", p.value[Body].items[i])
<1> DEFINE item == p.value[Body].items[i]
           kind == KindForRole(item.role)
           parts == [j \in DOMAIN Items(item.content) |->
                        ResponsesPart(kind, i, j, item.content.items[j])]
<1>0. p \in Payloads /\ kind \in Kinds
  BY RoleKinds DEF PayloadsOf
<1>1. CASE TypeOf(item) = "function_call_output"
  <2>1. IsStr(item.content)
    BY <1>1, Unclean DEF ResponsesItem
  <2>2. ResponsesItem(i, item) = Leaf("tool_output", i - 1, item.content.text, <<Body, i>>)
    BY <1>1, <2>1 DEF ResponsesItem
  <2>3. QED
    BY <2>1, <2>2, LeafTells, TextItemSeen
<1>2. CASE TypeOf(item) = "function_call"
  <2>1. item.content.is = "null"
    BY <1>2 DEF PayloadsOf, Items
  <2>2. QED
    BY <2>1, SilentItemSeen
<1>3. CASE TypeOf(item) \notin {"function_call_output", "function_call"}
  <2>1. HasRole(item)
    BY <1>3, Unclean DEF ResponsesItem
  <2>2. IsMap(item)
    BY <2>1 DEF HasRole, RoleOf
  <2>3. ResponsesItem(i, item) = Content(item, i, parts)
    BY <1>3, <2>1 DEF ResponsesItem
  <2>4. ASSUME IsList(item.content)
        PROVE  /\ DOMAIN parts = DOMAIN item.content.items
               /\ \A j \in DOMAIN parts : parts[j] \in Findings(Sound(p))
               /\ \A j \in DOMAIN parts :
                     Clean(parts[j]) => SeenPart(parts[j], "responses", item.content.items[j])
    <3>1. DOMAIN parts = DOMAIN item.content.items
      BY <2>4 DEF Items
    <3>2. \A j \in DOMAIN parts : parts[j] = ResponsesPart(kind, i, j, item.content.items[j])
      OBVIOUS
    <3>3. \A j \in DOMAIN item.content.items :
             ResponsesPart(kind, i, j, item.content.items[j]) \in Findings(Sound(p))
      BY <1>0, <2>2, <2>4, ResponsesPartSound
    <3> HIDE DEF parts
    <3>4. QED
      BY <3>1, <3>2, <3>3, ResponsesPartSeen
  <2> HIDE DEF parts
  <2>5. QED
    BY <1>0, <2>2, <2>3, <2>4, ContentSeen
<1>4. QED
  BY <1>1, <1>2, <1>3

LEMMA ResponsesSeen ==
    ASSUME NEW p \in PayloadsOf("responses"), Clean(Responses(p))
    PROVE  /\ SeenSystem(Responses(p), "responses", p.value[System])
           /\ SeenBody(Responses(p), "responses", p.value[Body])
<1> DEFINE input == p.value[Body]
           instructions == p.value[System]
           found == [i \in DOMAIN input.items |-> ResponsesItem(i, input.items[i])]
           a == IF IsStr(instructions)
                THEN Leaf("system", 0, instructions.text, <<System>>)
                ELSE SafeIf(instructions.is = "null", Nothing)
           c == CASE IsStr(input) -> Leaf("user", 0, input.text, <<Body>>)
                  [] IsList(input) -> Join(found)
                  [] OTHER -> SafeIf(input.is = "null", Nothing)
<1>0. p \in Payloads
  BY DEF PayloadsOf
<1>1. a \in Findings(Sound(p))
  BY <1>0, SystemLeaf, SafeIfType, NoBlocks
<1>2. Nothing \in Findings(Sound(p))
  BY NoBlocks
<1>3. ToolBlocks(p.tools) \in Findings(Sound(p))
  BY <1>0, ToolBlocksSound
<1>4. Responses(p) = Join(<<a, ToolBlocks(p.tools), c>>)
  BY DEF Responses
<1>5. ASSUME Clean(a) PROVE SeenSystem(a, "responses", instructions)
  <2>1. CASE IsStr(instructions)
    BY <2>1, LeafTells, StringIsSeen
  <2>2. CASE ~IsStr(instructions)
    <3>1. Clean(SafeIf(instructions.is = "null", Nothing))
      BY <1>5, <2>2
    <3>2. instructions.is = "null"
      BY <1>2, <3>1, SafeIfClean
    <3>3. QED
      BY <3>2, NullIsSeen
  <2>3. QED
    BY <2>1, <2>2
<1>6. c \in Findings(Sound(p)) /\ (Clean(c) => SeenBody(c, "responses", input))
  <2>1. CASE IsStr(input)
    <3>1. /\ Points(p, <<Body>>) /\ TextAt(p, <<Body>>) = input.text /\ input.text \in Texts
          /\ <<Body>>[1] = Body /\ Len(<<Body>>) = 1 /\ Body # System
      BY <1>0, <2>1, Paths12 DEF Body, System
    <3>2. Leaf("user", 0, input.text, <<Body>>) \in Findings(Sound(p))
      BY <1>0, <3>1, LeafAt, Turned, RoleKinds
    <3>3. c = Leaf("user", 0, input.text, <<Body>>)
      BY <2>1 DEF IsStr, IsList
    <3> HIDE DEF c
    <3>4. QED
      BY <2>1, <3>2, <3>3, LeafTells, StringIsSeen
  <2>2. CASE IsList(input)
    <3>1. /\ DOMAIN found = DOMAIN input.items
          /\ \A i \in DOMAIN input.items : found[i] \in Findings(Sound(p))
          /\ \A i \in DOMAIN input.items :
                Clean(found[i]) => SeenItem(found[i], "responses", input.items[i])
      BY <1>0, <2>2, ResponsesItemSound, ResponsesItemSeen
    <3>2. c = Join(found)
      BY <2>2 DEF IsStr, IsList
    <3>3. Join(found) \in Findings(Sound(p)) /\ (Clean(Join(found)) => SeenBody(Join(found), "responses", input))
      <4> HIDE DEF found
      <4>1. QED
        BY <1>0, <2>2, <3>1, ItemsSound, ItemsSeen
    <3> HIDE DEF c
    <3>4. QED
      BY <3>2, <3>3
  <2>3. CASE ~IsStr(input) /\ ~IsList(input)
    <3>1. c = SafeIf(input.is = "null", Nothing)
      BY <2>3
    <3>2. SafeIf(input.is = "null", Nothing) \in Findings(Sound(p))
      BY <1>2, SafeIfType
    <3>3. Clean(SafeIf(input.is = "null", Nothing)) => input.is = "null"
      BY <1>2, SafeIfClean
    <3> HIDE DEF c
    <3>4. QED
      BY <3>1, <3>2, <3>3, NullIsSeen
  <2>4. QED
    BY <2>1, <2>2, <2>3
<1> HIDE DEF a, c
<1>7. Clean(Join(<<a, ToolBlocks(p.tools), c>>))
  BY <1>4
<1>8. /\ Clean(a) /\ Covers(a, Responses(p))
      /\ Clean(c) /\ Covers(c, Responses(p))
  BY <1>1, <1>3, <1>4, <1>6, <1>7, JoinCoversThree
<1>9. QED
  BY <1>5, <1>6, <1>8, SeenMore

-----------------------------------------------------------------------------
(* chat completions                                                          *)

LEMMA ChatPartSeen ==
    ASSUME NEW kind, NEW i, NEW j, NEW part, Clean(ChatPart(kind, i, j, part))
    PROVE  SeenPart(ChatPart(kind, i, j, part), "chat_completions", part)
<1>1. IsText(part, {"text"})
  BY Unclean DEF ChatPart
<1>2. ChatPart(kind, i, j, part) = Leaf(kind, i - 1, part.content.text, <<Body, i, j>>)
  BY <1>1 DEF ChatPart
<1>3. QED
  BY <1>1, <1>2, LeafTells, TextIsSeen

LEMMA ChatMessageSeen ==
    ASSUME NEW p \in Payloads, IsList(p.value[Body]),
           NEW i \in DOMAIN p.value[Body].items, Clean(ChatMessage(i, p.value[Body].items[i]))
    PROVE  SeenItem(ChatMessage(i, p.value[Body].items[i]), "chat_completions",
                    p.value[Body].items[i])
<1> DEFINE message == p.value[Body].items[i]
           kind == KindForRole(message.role)
           parts == [j \in DOMAIN Items(message.content) |->
                        ChatPart(kind, i, j, message.content.items[j])]
           a == Content(message, i, parts)
           b == CASE "calls" \in message.marks ->
                         Leaf("tool_call", i - 1, message.encoded, NoPath)
                  [] OTHER -> SafeIf("bad_calls" \notin message.marks, Nothing)
<1>0. kind \in Kinds
  BY RoleKinds
<1>1. HasRole(message)
  BY Unclean DEF ChatMessage
<1>2. IsMap(message)
  BY <1>1 DEF HasRole, RoleOf
<1>3. ChatMessage(i, message) = Join(<<a, b>>)
  BY <1>1 DEF ChatMessage
<1>4. ASSUME IsList(message.content)
      PROVE  /\ DOMAIN parts = DOMAIN message.content.items
             /\ \A j \in DOMAIN parts : parts[j] \in Findings(Sound(p))
             /\ \A j \in DOMAIN parts :
                   Clean(parts[j]) => SeenPart(parts[j], "chat_completions", message.content.items[j])
             /\ Join(parts) \in Findings(Sound(p))
  <2>1. DOMAIN parts = DOMAIN message.content.items
    BY <1>4 DEF Items
  <2>2. \A j \in DOMAIN parts : parts[j] = ChatPart(kind, i, j, message.content.items[j])
    OBVIOUS
  <2>3. \A j \in DOMAIN message.content.items :
           ChatPart(kind, i, j, message.content.items[j]) \in Findings(Sound(p))
    BY <1>0, <1>2, <1>4, ChatPartSound
  <2>4. message.content.items \in Seq(PartElements)
    BY <1>2, <1>4, ItemsOf, ValueType
  <2> HIDE DEF parts, message
  <2>5. \A j \in DOMAIN message.content.items : parts[j] \in Findings(Sound(p))
    BY <2>1, <2>2, <2>3
  <2>6. Join(parts) \in Findings(Sound(p))
    BY <2>1, <2>4, <2>5, JoinPlaces
  <2>7. QED
    BY <2>1, <2>2, <2>5, <2>6, ChatPartSeen
<1>5. a \in Findings(Sound(p)) /\ (Clean(a) => SeenItem(a, "chat_completions", message))
  <2> HIDE DEF parts
  <2>1. QED
    BY <1>2, <1>4, ContentSound, ContentSeen
<1>6. b \in Findings(Sound(p))
  <2>1. Leaf("tool_call", i - 1, message.encoded, NoPath) \in Findings(Sound(p))
    BY ItemsOf, LeafAlone, RoleKinds
  <2>2. SafeIf("bad_calls" \notin message.marks, Nothing) \in Findings(Sound(p))
    BY SafeIfType, NoBlocks
  <2>3. QED
    BY <2>1, <2>2
<1> HIDE DEF a, b
<1>7. Clean(a) /\ Covers(a, Join(<<a, b>>))
  BY <1>3, <1>5, <1>6, JoinCoversTwo
<1>8. QED
  BY <1>3, <1>5, <1>7, SeenMore

LEMMA ChatCompletionsSeen ==
    ASSUME NEW p \in PayloadsOf("chat_completions"), Clean(ChatCompletions(p))
    PROVE  /\ SeenSystem(ChatCompletions(p), "chat_completions", p.value[System])
           /\ SeenBody(ChatCompletions(p), "chat_completions", p.value[Body])
<1> DEFINE input == p.value[Body]
           found == [i \in DOMAIN input.items |-> ChatMessage(i, input.items[i])]
           b == IF IsList(input) THEN Join(found) ELSE Unsafe
<1>0. p \in Payloads /\ p.value[System].is = "null"
  BY DEF PayloadsOf
<1>1. b \in Findings(Sound(p)) /\ (Clean(b) => SeenBody(b, "chat_completions", input))
  <2>1. CASE IsList(input)
    <3>1. /\ DOMAIN found = DOMAIN input.items
          /\ \A i \in DOMAIN input.items : found[i] \in Findings(Sound(p))
          /\ \A i \in DOMAIN input.items :
                Clean(found[i]) => SeenItem(found[i], "chat_completions", input.items[i])
      BY <1>0, <2>1, ChatMessageSound, ChatMessageSeen
    <3>2. b = Join(found)
      BY <2>1
    <3>3. Join(found) \in Findings(Sound(p)) /\ (Clean(Join(found)) => SeenBody(Join(found), "chat_completions", input))
      <4> HIDE DEF found
      <4>1. QED
        BY <1>0, <2>1, <3>1, ItemsSound, ItemsSeen
    <3> HIDE DEF b
    <3>4. QED
      BY <3>2, <3>3
  <2>2. CASE ~IsList(input)
    BY <2>2, NoBlocks, Unclean
  <2>3. QED
    BY <2>1, <2>2
<1>2. ChatCompletions(p) = Join(<<ToolBlocks(p.tools), b>>)
  BY DEF ChatCompletions
<1> HIDE DEF b
<1>3. Clean(b) /\ Covers(b, ChatCompletions(p))
  BY <1>0, <1>1, <1>2, ToolBlocksSound, JoinCoversTwo
<1>4. QED
  BY <1>0, <1>1, <1>3, SeenMore, NullIsSeen

-----------------------------------------------------------------------------
(* Anthropic messages                                                        *)

LEMMA PartsSeenSystem ==
    ASSUME NEW p \in Payloads, IsList(p.value[System]), NEW found, NEW protocol,
           DOMAIN found = DOMAIN p.value[System].items,
           \A j \in DOMAIN p.value[System].items : found[j] \in Findings(Sound(p)),
           \A j \in DOMAIN p.value[System].items :
              Clean(found[j]) => /\ SeenText(found[j], protocol, p.value[System].items[j])
                                 /\ ~IsList(p.value[System].items[j].content),
           Clean(Join(found))
    PROVE  SeenSystem(Join(found), protocol, p.value[System])
<1>1. p.value[System].items \in Seq(ItemElements)
  BY SystemLeaf
<1>2. \A j \in DOMAIN p.value[System].items : Clean(found[j]) /\ Covers(found[j], Join(found))
  BY <1>1, JoinCoversSeq
<1>3. \A j \in DOMAIN p.value[System].items :
         /\ SeenText(Join(found), protocol, p.value[System].items[j])
         /\ ~IsList(p.value[System].items[j].content)
  BY <1>2, SeenMore
<1>4. Told(Join(found), p.value[System])
  BY DEF Told, IsStr, IsList
<1>5. QED
  BY <1>3, <1>4 DEF SeenSystem

LEMMA AnthropicSystemSeen ==
    ASSUME NEW p \in Payloads, Clean(AnthropicSystem(p.value[System]))
    PROVE  SeenSystem(AnthropicSystem(p.value[System]), "anthropic_messages", p.value[System])
<1> DEFINE system == p.value[System]
           One(j) == IF IsText(system.items[j], {"text"})
                     THEN Quotable(system.items[j], TRUE, "system", 0, <<System, j>>)
                     ELSE Unsafe
           found == [j \in DOMAIN system.items |-> One(j)]
<1>1. CASE system.is = "null"
  BY <1>1, NullIsSeen
<1>2. CASE IsStr(system)
  <2>1. AnthropicSystem(system) = Leaf("system", 0, system.text, <<System>>)
    BY <1>2 DEF AnthropicSystem, IsStr, IsList
  <2>2. QED
    BY <1>2, <2>1, LeafTells, StringIsSeen
<1>3. CASE IsList(system)
  <2>1. AnthropicSystem(system) = Join(found)
    BY <1>3 DEF AnthropicSystem, IsStr, IsList
  <2>2. ASSUME NEW j \in DOMAIN system.items
        PROVE  /\ One(j) \in Findings(Sound(p))
               /\ Clean(One(j)) => /\ SeenText(One(j), "anthropic_messages", system.items[j])
                                   /\ ~IsList(system.items[j].content)
    <3> DEFINE part == system.items[j]
    <3>1. CASE IsText(part, {"text"})
      <4>1. IsMap(part) /\ IsStr(part.content)
        BY <3>1, TypedIsMap
      <4>2. /\ Leaf("system", 0, part.content.text, <<System, j>>) \in Findings(Sound(p))
            /\ Leaf("system", 0, part.content.text, NoPath) \in Findings(Sound(p))
        BY <1>3, <4>1, SystemLeaf
      <4> DEFINE q == Quotable(part, TRUE, "system", 0, <<System, j>>)
      <4>3. q \in Findings(Sound(p)) /\ (Clean(q) => ~Cited(part) /\ Tells(q, part.content.text))
        BY <4>2, QuotableSound, QuotableClean
      <4>4. One(j) = q
        BY <3>1
      <4> HIDE DEF q, One, part
      <4>5. Clean(q) => SeenText(q, "anthropic_messages", part) /\ ~IsList(part.content)
        BY <3>1, <4>3, TextIsSeen
      <4>6. QED
        BY <4>3, <4>4, <4>5 DEF part
    <3>2. CASE ~IsText(part, {"text"})
      BY <3>2, NoBlocks, Unclean
    <3>3. QED
      BY <3>1, <3>2
  <2>3. /\ DOMAIN found = DOMAIN system.items
        /\ \A j \in DOMAIN system.items : found[j] = One(j)
    OBVIOUS
  <2> HIDE DEF found, One
  <2>4. QED
    BY <1>3, <2>1, <2>2, <2>3, PartsSeenSystem
<1>4. CASE system.is # "null" /\ ~IsStr(system) /\ ~IsList(system)
  BY <1>4, Unclean DEF AnthropicSystem
<1>5. QED
  BY <1>1, <1>2, <1>3, <1>4

LEMMA AnthropicToolResultSeen ==
    ASSUME NEW p \in Payloads, IsList(p.value[Body]), NEW i \in DOMAIN p.value[Body].items,
           IsMap(p.value[Body].items[i]), IsList(p.value[Body].items[i].content),
           NEW j \in DOMAIN p.value[Body].items[i].content.items, NEW role,
           TypeOf(p.value[Body].items[i].content.items[j]) = "tool_result",
           Clean(AnthropicToolResult(i, j, role, p.value[Body].items[i].content.items[j]))
    PROVE  SeenPart(AnthropicToolResult(i, j, role, p.value[Body].items[i].content.items[j]),
                    "anthropic_messages", p.value[Body].items[i].content.items[j])
<1> DEFINE part == p.value[Body].items[i].content.items[j]
           w == part.content
           valid == role = "user" /\ "invalid" \notin part.marks
           Nested(k, nested) ==
              IF IsText(nested, {"text"})
              THEN Quotable(nested, valid, "tool_output", i - 1, <<Body, i, j, k>>)
              ELSE Unsafe
           found == [k \in DOMAIN w.items |-> Nested(k, w.items[k])]
           outcome == AnthropicToolResult(i, j, role, part)
<1>0. valid \in BOOLEAN /\ "tool_output" \in Kinds /\ IsMap(part)
  BY RoleKinds DEF TypeOf
<1>a. part \in PartElements /\ w \in JsonValue(NestedElements)
  <2>1. Body \in {System, Body}
    OBVIOUS
  <2>2. part \in PartElements
    BY <2>1, Paths3
  <2>3. QED
    BY <1>0, <2>2, ElementType DEF PartElements
<1>b. FreePart("anthropic_messages", part)
  BY DEF FreePart
<1>1. CASE IsStr(w)
  <2> DEFINE leaf == Leaf("tool_output", i - 1, w.text, IF valid THEN <<Body, i, j>> ELSE NoPath)
  <2>1. outcome = SafeIf(valid, leaf)
    BY <1>1 DEF AnthropicToolResult, IsStr, IsList
  <2>2. /\ Leaf("tool_output", i - 1, w.text, <<Body, i, j>>) \in Findings(Sound(p))
        /\ Leaf("tool_output", i - 1, w.text, NoPath) \in Findings(Sound(p))
    BY <1>0, <1>1, PartLeaf
  <2>3. leaf \in Findings(Sound(p)) /\ Tells(leaf, w.text)
    <3> HIDE DEF valid, w, part
    <3>1. QED
      BY <1>0, <2>2, LeafTells
  <2>4. Covers(leaf, outcome)
    <3>1. Clean(outcome)
      OBVIOUS
    <3> HIDE DEF leaf, valid, outcome
    <3>2. QED
      BY <1>0, <2>1, <2>3, <3>1, SafeIfClean
  <2>5. Tells(outcome, w.text) /\ ~IsList(w)
    BY <1>1, <2>3, <2>4 DEF Covers, IsStr, IsList
  <2> HIDE DEF outcome
  <2>6. QED
    BY <1>b, <2>5 DEF SeenPart, SeenText, Told, outcome
<1>2. CASE IsList(w)
  <2>1. outcome = SafeIf(valid, Join(found))
    BY <1>2 DEF AnthropicToolResult, IsStr, IsList
  <2>2. ASSUME NEW k \in DOMAIN w.items
        PROVE  /\ Nested(k, w.items[k]) \in Findings(Sound(p))
               /\ Clean(Nested(k, w.items[k]))
                    => SeenText(Nested(k, w.items[k]), "anthropic_messages", w.items[k])
    <3> DEFINE nested == w.items[k]
    <3>1. CASE IsText(nested, {"text"})
      <4>1. IsMap(nested) /\ IsStr(nested.content)
        BY <3>1, TypedIsMap
      <4>2. /\ Leaf("tool_output", i - 1, nested.content.text, <<Body, i, j, k>>) \in Findings(Sound(p))
            /\ Leaf("tool_output", i - 1, nested.content.text, NoPath) \in Findings(Sound(p))
        BY <1>0, <1>2, <4>1, PartLeaf
      <4> DEFINE q == Quotable(nested, valid, "tool_output", i - 1, <<Body, i, j, k>>)
      <4>3. q \in Findings(Sound(p)) /\ (Clean(q) => ~Cited(nested) /\ Tells(q, nested.content.text))
        <5> HIDE DEF valid, nested
        <5>1. QED
          BY <1>0, <4>2, QuotableSound, QuotableClean
      <4>4. Nested(k, w.items[k]) = q
        BY <3>1
      <4> HIDE DEF q, Nested, w
      <4>5. QED
        BY <3>1, <4>3, <4>4, TextIsSeen
    <3>2. CASE ~IsText(nested, {"text"})
      BY <3>2, NoBlocks, Unclean
    <3>3. QED
      BY <3>1, <3>2
  <2>3. w.items \in Seq(NestedElements)
    BY <1>2, <1>a, ValueType
  <2>4. /\ DOMAIN found = DOMAIN w.items
        /\ \A k \in DOMAIN w.items : found[k] = Nested(k, w.items[k])
    OBVIOUS
  <2>5. Clean(outcome)
    OBVIOUS
  <2> HIDE DEF found, Nested, valid, w, outcome
  <2>6. Join(found) \in Findings(Sound(p))
    BY <2>2, <2>3, <2>4, JoinPlaces
  <2>7. Clean(Join(found)) /\ Covers(Join(found), outcome)
    BY <1>0, <2>1, <2>5, <2>6, SafeIfClean
  <2>8. \A k \in DOMAIN w.items : Clean(found[k]) /\ Covers(found[k], Join(found))
    BY <2>2, <2>3, <2>4, <2>7, JoinCoversSeq
  <2>9. \A k \in DOMAIN w.items : SeenText(outcome, "anthropic_messages", w.items[k])
    BY <2>2, <2>4, <2>7, <2>8, SeenMore
  <2>10. SeenText(outcome, "anthropic_messages", part)
    BY <1>2, <1>b DEF SeenText, Told, IsStr, IsList, w
  <2>11. QED
    BY <2>9, <2>10 DEF SeenPart, w, outcome
<1>3. CASE ~IsStr(w) /\ ~IsList(w)
  BY <1>3, Unclean DEF AnthropicToolResult
<1>4. QED
  BY <1>1, <1>2, <1>3

LEMMA AnthropicPartSeen ==
    ASSUME NEW p \in PayloadsOf("anthropic_messages"), IsList(p.value[Body]),
           NEW i \in DOMAIN p.value[Body].items,
           IsMap(p.value[Body].items[i]), IsList(p.value[Body].items[i].content),
           NEW j \in DOMAIN p.value[Body].items[i].content.items, NEW role \in {"user", "assistant"},
           Clean(AnthropicPart(i, j, role, p.value[Body].items[i].content.items[j]))
    PROVE  SeenPart(AnthropicPart(i, j, role, p.value[Body].items[i].content.items[j]),
                    "anthropic_messages", p.value[Body].items[i].content.items[j])
<1> DEFINE part == p.value[Body].items[i].content.items[j]
           found == AnthropicPart(i, j, role, part)
<1>0. p \in Payloads /\ role \in Kinds
  BY RoleKinds DEF PayloadsOf
<1>1. CASE TypeOf(part) = "text"
  <2>1. IsStr(part.content)
    BY <1>1, Unclean DEF AnthropicPart
  <2>2. IsMap(part)
    BY <1>1 DEF TypeOf
  <2>3. found = Quotable(part, TRUE, role, i - 1, <<Body, i, j>>)
    BY <1>1, <2>1 DEF AnthropicPart
  <2>4. /\ Leaf(role, i - 1, part.content.text, <<Body, i, j>>) \in Findings(Sound(p))
        /\ Leaf(role, i - 1, part.content.text, NoPath) \in Findings(Sound(p))
    BY <1>0, <2>1, <2>2, PartLeaf
  <2>5. Clean(found)
    OBVIOUS
  <2> HIDE DEF found, part
  <2>6. ~Cited(part) /\ Tells(found, part.content.text)
    BY <2>3, <2>4, <2>5, QuotableClean
  <2>7. IsText(part, {"text"})
    BY <1>1, <2>1 DEF IsText
  <2>8. SeenPart(found, "anthropic_messages", part)
    BY <2>6, <2>7, TextIsSeen
  <2>9. QED
    BY <2>8 DEF found, part
<1>2. CASE TypeOf(part) = "tool_use"
  <2>1. part.content.is = "null"
    BY <1>2 DEF PayloadsOf, Items
  <2>2. QED
    BY <1>2, <2>1, SilentIsSeen
<1>3. CASE TypeOf(part) = "tool_result"
  <2>1. found = AnthropicToolResult(i, j, role, part)
    BY <1>3 DEF AnthropicPart
  <2>2. QED
    BY <1>0, <1>3, <2>1, AnthropicToolResultSeen
<1>4. CASE TypeOf(part) \in {"thinking", "redacted_thinking"}
  <2> DEFINE leaf == Leaf("protocol_state", i - 1, part.encoded, NoPath)
  <2>1. found = SafeIf(FALSE, leaf)
    BY <1>4 DEF AnthropicPart
  <2>2. leaf \in Findings(Sound(p))
    BY <1>0, PartLeaf, RoleKinds
  <2>3. QED
    <3> HIDE DEF leaf
    <3>1. QED
      BY <2>1, <2>2, SafeIfClean
<1>5. CASE TypeOf(part) \notin {"text", "tool_use", "tool_result", "thinking", "redacted_thinking"}
  BY <1>5, Unclean DEF AnthropicPart
<1>6. QED
  BY <1>1, <1>2, <1>3, <1>4, <1>5

LEMMA AnthropicMessageSeen ==
    ASSUME NEW p \in PayloadsOf("anthropic_messages"), IsList(p.value[Body]),
           NEW i \in DOMAIN p.value[Body].items, Clean(AnthropicMessage(i, p.value[Body].items[i]))
    PROVE  SeenItem(AnthropicMessage(i, p.value[Body].items[i]), "anthropic_messages",
                    p.value[Body].items[i])
<1> DEFINE message == p.value[Body].items[i]
           found == [j \in DOMAIN message.content.items |->
                        AnthropicPart(i, j, message.role, message.content.items[j])]
<1>0. p \in Payloads
  BY DEF PayloadsOf
<1>1. RoleOf(message) \in {"user", "assistant"}
  BY Unclean DEF AnthropicMessage
<1>2. IsMap(message) /\ message.role \in {"user", "assistant"}
  BY <1>1 DEF RoleOf
<1>3. CASE IsStr(message.content)
  <2>1. AnthropicMessage(i, message) = Leaf(message.role, i - 1, message.content.text, <<Body, i>>)
    BY <1>1, <1>3 DEF AnthropicMessage, IsStr, IsList
  <2>2. QED
    BY <1>3, <2>1, LeafTells, TextItemSeen
<1>4. CASE IsList(message.content)
  <2>1. AnthropicMessage(i, message) = Join(found)
    BY <1>1, <1>4 DEF AnthropicMessage, IsStr, IsList
  <2>2. message.content.items \in Seq(PartElements)
    BY <1>0, <1>2, <1>4, ItemsOf, ValueType
  <2>3. /\ DOMAIN found = DOMAIN message.content.items
        /\ \A j \in DOMAIN message.content.items : found[j] \in Findings(Sound(p))
        /\ \A j \in DOMAIN message.content.items :
              Clean(found[j]) => SeenPart(found[j], "anthropic_messages", message.content.items[j])
    BY <1>0, <1>2, <1>4, AnthropicPartSound, AnthropicPartSeen
  <2>4. Clean(Join(found))
    BY <2>1
  <2>5. \A j \in DOMAIN message.content.items :
           SeenPart(Join(found), "anthropic_messages", message.content.items[j])
    <3> HIDE DEF found, message
    <3>1. QED
      BY <2>2, <2>3, <2>4, PartsSeen
  <2>6. QED
    BY <1>4, <2>1, <2>5, ListItemSeen
<1>5. CASE ~IsStr(message.content) /\ ~IsList(message.content)
  BY <1>1, <1>5, Unclean DEF AnthropicMessage
<1>6. QED
  BY <1>3, <1>4, <1>5

LEMMA AnthropicMessagesSeen ==
    ASSUME NEW p \in PayloadsOf("anthropic_messages"), Clean(AnthropicMessages(p))
    PROVE  /\ SeenSystem(AnthropicMessages(p), "anthropic_messages", p.value[System])
           /\ SeenBody(AnthropicMessages(p), "anthropic_messages", p.value[Body])
<1> DEFINE input == p.value[Body]
           found == [i \in DOMAIN input.items |-> AnthropicMessage(i, input.items[i])]
           a == AnthropicSystem(p.value[System])
           c == IF IsList(input) THEN Join(found) ELSE Unsafe
<1>0. p \in Payloads
  BY DEF PayloadsOf
<1>1. c \in Findings(Sound(p)) /\ (Clean(c) => SeenBody(c, "anthropic_messages", input))
  <2>1. CASE IsList(input)
    <3>1. /\ DOMAIN found = DOMAIN input.items
          /\ \A i \in DOMAIN input.items : found[i] \in Findings(Sound(p))
          /\ \A i \in DOMAIN input.items :
                Clean(found[i]) => SeenItem(found[i], "anthropic_messages", input.items[i])
      BY <1>0, <2>1, AnthropicMessageSound, AnthropicMessageSeen
    <3>2. c = Join(found)
      BY <2>1
    <3>3. Join(found) \in Findings(Sound(p)) /\ (Clean(Join(found)) => SeenBody(Join(found), "anthropic_messages", input))
      <4> HIDE DEF found
      <4>1. QED
        BY <1>0, <2>1, <3>1, ItemsSound, ItemsSeen
    <3> HIDE DEF c
    <3>4. QED
      BY <3>2, <3>3
  <2>2. CASE ~IsList(input)
    BY <2>2, NoBlocks, Unclean
  <2>3. QED
    BY <2>1, <2>2
<1>2. AnthropicMessages(p) = Join(<<a, SchemaBlocks(p.tools, {}), c>>)
  BY DEF AnthropicMessages
<1>3. a \in Findings(Sound(p)) /\ SchemaBlocks(p.tools, {}) \in Findings(Sound(p))
  BY <1>0, AnthropicSystemSound, SchemaBlocksSound
<1>4. Clean(a) => SeenSystem(a, "anthropic_messages", p.value[System])
  BY <1>0, AnthropicSystemSeen
<1> HIDE DEF a, c
<1>5. /\ Clean(a) /\ Covers(a, AnthropicMessages(p))
      /\ Clean(c) /\ Covers(c, AnthropicMessages(p))
  BY <1>1, <1>2, <1>3, JoinCoversThree
<1>6. QED
  BY <1>1, <1>4, <1>5, SeenMore

-----------------------------------------------------------------------------
(* Gemini generateContent                                                    *)

LEMMA PlainTextIsSeen ==
    ASSUME NEW f, NEW e, IsText(e, {"text"}), Tells(f, e.content.text)
    PROVE  SeenText(f, "gemini_generate_content", e) /\ ~IsList(e.content)
BY DEF SeenText, FreePart, Told, IsText, IsStr, IsList

LEMMA GeminiSystemSeen ==
    ASSUME NEW p \in Payloads, Clean(GeminiSystem(p.value[System]))
    PROVE  SeenSystem(GeminiSystem(p.value[System]), "gemini_generate_content", p.value[System])
<1> DEFINE system == p.value[System]
           One(j) == IF Pure(system.items[j])
                     THEN Leaf("system", 0, system.items[j].content.text, <<System, j>>)
                     ELSE Unsafe
           found == [j \in DOMAIN system.items |-> One(j)]
<1>1. CASE system.is = "null"
  BY <1>1, NullIsSeen
<1>2. CASE IsList(system) /\ system.items # <<>>
  <2>1. GeminiSystem(system) = Join(found)
    BY <1>2 DEF GeminiSystem, IsList
  <2>2. ASSUME NEW j \in DOMAIN system.items
        PROVE  /\ One(j) \in Findings(Sound(p))
               /\ Clean(One(j)) => /\ SeenText(One(j), "gemini_generate_content", system.items[j])
                                   /\ ~IsList(system.items[j].content)
    <3> DEFINE part == system.items[j]
    <3>1. CASE Pure(part)
      <4>1. IsMap(part) /\ IsStr(part.content) /\ IsText(part, {"text"})
        BY <3>1, TypedIsMap DEF Pure
      <4> DEFINE q == Leaf("system", 0, part.content.text, <<System, j>>)
      <4>2. q \in Findings(Sound(p)) /\ Tells(q, part.content.text)
        BY <1>2, <4>1, SystemLeaf, LeafTells
      <4>3. One(j) = q
        BY <3>1
      <4> HIDE DEF q, One, part
      <4>4. SeenText(q, "gemini_generate_content", part) /\ ~IsList(part.content)
        BY <4>1, <4>2, PlainTextIsSeen
      <4>5. QED
        BY <4>2, <4>3, <4>4 DEF part
    <3>2. CASE ~Pure(part)
      BY <3>2, NoBlocks, Unclean
    <3>3. QED
      BY <3>1, <3>2
  <2>3. /\ DOMAIN found = DOMAIN system.items
        /\ \A j \in DOMAIN system.items : found[j] = One(j)
    OBVIOUS
  <2> HIDE DEF found, One
  <2>4. QED
    BY <1>2, <2>1, <2>2, <2>3, PartsSeenSystem
<1>3. CASE system.is # "null" /\ ~(IsList(system) /\ system.items # <<>>)
  BY <1>3, Unclean DEF GeminiSystem
<1>4. QED
  BY <1>1, <1>2, <1>3

LEMMA GeminiPartSeen ==
    ASSUME NEW p \in PayloadsOf("gemini_generate_content"), IsList(p.value[Body]),
           NEW i \in DOMAIN p.value[Body].items,
           IsMap(p.value[Body].items[i]), IsList(p.value[Body].items[i].content),
           NEW j \in DOMAIN p.value[Body].items[i].content.items, NEW role,
           Clean(GeminiPart(i, j, role, p.value[Body].items[i].content.items[j]))
    PROVE  SeenPart(GeminiPart(i, j, role, p.value[Body].items[i].content.items[j]),
                    "gemini_generate_content", p.value[Body].items[i].content.items[j])
<1> DEFINE part == p.value[Body].items[i].content.items[j]
           found == GeminiPart(i, j, role, part)
<1>0. p \in Payloads
  BY DEF PayloadsOf
<1>1. CASE TypeOf(part) = "text"
  <2>1. role \in {"user", "model"} /\ Pure(part)
    BY <1>1, Unclean DEF GeminiPart
  <2> DEFINE kind == IF role = "model" THEN "assistant" ELSE "user"
  <2>2. found = Leaf(kind, i - 1, part.content.text, <<Body, i, j>>)
    BY <1>1, <2>1 DEF GeminiPart
  <2>3. IsText(part, {"text"})
    BY <2>1 DEF Pure
  <2> HIDE DEF kind, found
  <2>4. Tells(found, part.content.text)
    BY <2>2, LeafTells
  <2> HIDE DEF part
  <2>5. SeenPart(found, "gemini_generate_content", part)
    BY <2>3, <2>4, TextIsSeen
  <2>6. QED
    BY <2>5 DEF found, part
<1>2. CASE TypeOf(part) = "functionCall"
  <2>1. part.content.is = "null"
    BY <1>2 DEF PayloadsOf, Items
  <2>2. QED
    BY <1>2, <2>1, SilentIsSeen
<1>3. CASE TypeOf(part) \in {"thought", "functionResponse"}
  <2>1. \E kind \in Kinds : found = SafeIf(FALSE, Leaf(kind, i - 1, part.encoded, NoPath))
    <3>1. CASE TypeOf(part) = "thought"
      BY <3>1, RoleKinds DEF GeminiPart
    <3>2. CASE TypeOf(part) = "functionResponse"
      BY <3>2, RoleKinds DEF GeminiPart
    <3>3. QED
      BY <1>3, <3>1, <3>2
  <2>2. PICK kind \in Kinds : found = SafeIf(FALSE, Leaf(kind, i - 1, part.encoded, NoPath))
    BY <2>1
  <2> DEFINE leaf == Leaf(kind, i - 1, part.encoded, NoPath)
  <2>3. leaf \in Findings(Sound(p))
    BY <1>0, PartLeaf
  <2>4. Clean(found)
    OBVIOUS
  <2> HIDE DEF leaf, found
  <2>5. FALSE
    BY <2>2, <2>3, <2>4, SafeIfClean DEF leaf
  <2>6. QED
    BY <2>5
<1>4. CASE TypeOf(part) \notin {"text", "thought", "functionCall", "functionResponse"}
  BY <1>4, Unclean DEF GeminiPart
<1>5. QED
  BY <1>1, <1>2, <1>3, <1>4

LEMMA GeminiContentSeen ==
    ASSUME NEW p \in PayloadsOf("gemini_generate_content"), IsList(p.value[Body]),
           NEW i \in DOMAIN p.value[Body].items, Clean(GeminiContent(i, p.value[Body].items[i]))
    PROVE  SeenItem(GeminiContent(i, p.value[Body].items[i]), "gemini_generate_content",
                    p.value[Body].items[i])
<1> DEFINE content == p.value[Body].items[i]
           parts == content.content.items
           roleless == \A j \in DOMAIN parts : Pure(parts[j])
           role == IF content.role = "none" THEN "user" ELSE content.role
           found == [j \in DOMAIN parts |-> GeminiPart(i, j, role, parts[j])]
<1>0. p \in Payloads
  BY DEF PayloadsOf
<1>1. IsMap(content) /\ IsList(content.content)
  BY Unclean DEF GeminiContent
<1>2. parts \in Seq(PartElements)
  BY <1>0, <1>1, ItemsOf, ValueType
<1>3. /\ DOMAIN found = DOMAIN parts
      /\ \A j \in DOMAIN parts : found[j] \in Findings(Sound(p))
      /\ \A j \in DOMAIN parts :
            Clean(found[j]) => SeenPart(found[j], "gemini_generate_content", parts[j])
  BY <1>0, <1>1, GeminiPartSound, GeminiPartSeen
<1>4. GeminiContent(i, content)
        = CASE parts = <<>> -> Unsafe
            [] parts # <<>> /\ content.role = "none" /\ ~roleless -> Unsafe
            [] parts # <<>> /\ role = "unhashable" -> Raises
            [] parts # <<>> /\ role \in {"user", "model", "function"}
               /\ (content.role = "none" => roleless) -> Join(found)
            [] OTHER -> Unsafe
  BY <1>1 DEF GeminiContent
<1>5. Clean(GeminiContent(i, content))
  OBVIOUS
<1>6. GeminiContent(i, content) = Join(found)
  <2> HIDE DEF found, roleless, role, parts
  <2>1. QED
    BY <1>4, <1>5, Unclean
<1>7. \A j \in DOMAIN parts : SeenPart(Join(found), "gemini_generate_content", parts[j])
  <2> HIDE DEF found, parts, content
  <2>1. QED
    BY <1>2, <1>3, <1>5, <1>6, PartsSeen
<1>8. QED
  BY <1>1, <1>6, <1>7, ListItemSeen

LEMMA GeminiGenerateContentSeen ==
    ASSUME NEW p \in PayloadsOf("gemini_generate_content"), Clean(GeminiGenerateContent(p))
    PROVE  /\ SeenSystem(GeminiGenerateContent(p), "gemini_generate_content", p.value[System])
           /\ SeenBody(GeminiGenerateContent(p), "gemini_generate_content", p.value[Body])
<1> DEFINE contents == p.value[Body]
           found == [i \in DOMAIN contents.items |-> GeminiContent(i, contents.items[i])]
           a == SafeIf(p.cached # "invalid", Nothing)
           b == GeminiSystem(p.value[System])
           c == SchemaBlocks(p.tools, {"extra", "invalid"})
           d == IF ~IsList(contents) THEN Unsafe ELSE SafeIf(contents.items # <<>>, Join(found))
<1>0. p \in Payloads
  BY DEF PayloadsOf
<1>1. d \in Findings(Sound(p)) /\ (Clean(d) => SeenBody(d, "gemini_generate_content", contents))
  <2>1. CASE IsList(contents)
    <3>1. /\ DOMAIN found = DOMAIN contents.items
          /\ \A i \in DOMAIN contents.items : found[i] \in Findings(Sound(p))
          /\ \A i \in DOMAIN contents.items :
                Clean(found[i]) => SeenItem(found[i], "gemini_generate_content", contents.items[i])
      BY <1>0, <2>1, GeminiContentSound, GeminiContentSeen
    <3> DEFINE ok == contents.items # <<>>
    <3>2. d = SafeIf(ok, Join(found)) /\ ok \in BOOLEAN
      BY <2>1
    <3>3. Join(found) \in Findings(Sound(p)) /\ (Clean(Join(found)) => SeenBody(Join(found), "gemini_generate_content", contents))
      <4> HIDE DEF found
      <4>1. QED
        BY <1>0, <2>1, <3>1, ItemsSound, ItemsSeen
    <3> HIDE DEF d, ok, found
    <3>4. d \in Findings(Sound(p)) /\ (Clean(d) => Clean(Join(found)) /\ Covers(Join(found), d))
      BY <3>2, <3>3, SafeIfType, SafeIfClean
    <3>5. QED
      BY <3>3, <3>4, SeenMore
  <2>2. CASE ~IsList(contents)
    BY <2>2, NoBlocks, Unclean
  <2>3. QED
    BY <2>1, <2>2
<1>2. GeminiGenerateContent(p) = Join(<<a, b, c, d>>)
  BY DEF GeminiGenerateContent
<1>3. a \in Findings(Sound(p)) /\ b \in Findings(Sound(p)) /\ c \in Findings(Sound(p))
  BY <1>0, NoBlocks, SafeIfType, GeminiSystemSound, SchemaBlocksSound
<1>4. Clean(b) => SeenSystem(b, "gemini_generate_content", p.value[System])
  BY <1>0, GeminiSystemSeen
<1> HIDE DEF a, b, c, d
<1>5. /\ Clean(b) /\ Covers(b, GeminiGenerateContent(p))
      /\ Clean(d) /\ Covers(d, GeminiGenerateContent(p))
  BY <1>1, <1>2, <1>3, JoinCoversFour
<1>6. QED
  BY <1>1, <1>4, <1>5, SeenMore

\* What is parsed without a doubt has been seen to the last text.
THEOREM ParseSeen ==
    ASSUME NEW protocol \in Protocols, NEW p \in PayloadsOf(protocol), Clean(Parse(protocol, p))
    PROVE  /\ SeenSystem(Parse(protocol, p), protocol, p.value[System])
           /\ SeenBody(Parse(protocol, p), protocol, p.value[Body])
BY ResponsesSeen, ChatCompletionsSeen, AnthropicMessagesSeen, GeminiGenerateContentSeen
   DEF Parse, Protocols

-----------------------------------------------------------------------------
(* What the planner saw.                                                     *)

\* A rewritten request was parsed without a doubt.
LEMMA RewrittenIsClean ==
    ASSUME AdaptedInv, Rewritten
    PROVE  /\ endpoint \in DOMAIN registry /\ registry[endpoint] \in Protocols
           /\ payload \in PayloadsOf(registry[endpoint])
           /\ parsed = Parse(registry[endpoint], payload) /\ Clean(parsed)
<1>1. PICK c \in Calls : stage[c] = "returned" /\ result[c].optimized
  BY DEF Rewritten
<1>2. /\ progress = "sent" /\ endpoint \in DOMAIN registry
      /\ payload \in PayloadsOf(registry[endpoint])
      /\ parsed = Parse(registry[endpoint], payload)
      /\ env[c] = Given /\ ~parsed.raises
  BY <1>1 DEF Rewritten, AdaptedInv, RequestOnTrack
<1>3. parsed.safe
  <2>1. BypassReasons(env[c]) = {}
    BY <1>1 DEF AdaptedInv, EngineInv, CallsOnTrack, Finished
  <2>2. ~env[c].wireSafe => "unsupported_wire_shape" \in BypassReasons(env[c])
    BY DEF BypassReasons
  <2>3. env[c].wireSafe = parsed.safe
    BY <1>2 DEF Given
  <2>4. QED
    BY <2>1, <2>2, <2>3
<1>4. registry[endpoint] \in Protocols
  BY <1>2, ProtocolsKnown DEF AdaptedInv, RegistryKept
<1>5. QED
  BY <1>2, <1>3, <1>4 DEF Clean

LEMMA KidsOf ==
    ASSUME NEW v, NEW e \in Kids(v)
    PROVE  IsList(v) /\ \E i \in DOMAIN v.items : e = v.items[i]
BY DEF Kids

LEMMA BelowOf ==
    ASSUME NEW S, NEW e \in Below(S)
    PROVE  \E x \in S : IsMap(x) /\ e \in Kids(x.content)
BY DEF Below

\* What is seen of the instructions and the body is seen of all there is.
LEMMA SeenThroughout ==
    ASSUME NEW f, NEW protocol, NEW p,
           SeenSystem(f, protocol, p.value[System]), SeenBody(f, protocol, p.value[Body])
    PROVE  /\ Told(f, p.value[System]) /\ Told(f, p.value[Body])
           /\ \A e \in Elements(p) : IsMap(e) => Told(f, e.content)
           /\ \A e \in PartsOf(p) : FreePart(protocol, e)
<1> DEFINE instructions == Kids(p.value[System])
           items == Kids(p.value[Body])
<1>1. ASSUME NEW e \in instructions
      PROVE  FreePart(protocol, e) /\ (IsMap(e) => Told(f, e.content) /\ Kids(e.content) = {})
  BY KidsOf DEF SeenSystem, SeenText, Kids
<1>2. ASSUME NEW e \in items PROVE SeenItem(f, protocol, e)
  BY KidsOf DEF SeenBody
<1>3. ASSUME NEW e \in Below(items) PROVE SeenPart(f, protocol, e)
  <2>1. PICK x \in items : IsMap(x) /\ e \in Kids(x.content)
    BY BelowOf
  <2>2. QED
    BY <1>2, <2>1, KidsOf DEF SeenItem
<1>4. ASSUME NEW e \in Below(Below(items)) PROVE SeenText(f, protocol, e)
  <2>1. PICK x \in Below(items) : IsMap(x) /\ e \in Kids(x.content)
    BY BelowOf
  <2>2. QED
    BY <1>3, <2>1, KidsOf DEF SeenPart
<1>5. Below(instructions) = {}
  <2>1. \A e \in Below(instructions) : FALSE
    BY <1>1, BelowOf
  <2>2. QED
    BY <2>1
<1>6. \A e \in PartsOf(p) : FreePart(protocol, e)
  <2> HIDE DEF instructions, items
  <2>1. PartsOf(p) = instructions \cup Below(items) \cup Below(Below(items))
    BY DEF PartsOf, instructions, items
  <2>2. QED
    BY <1>1, <1>3, <1>4, <2>1 DEF SeenPart, SeenText
<1>7. ASSUME NEW e \in Elements(p), IsMap(e) PROVE Told(f, e.content)
  <2> HIDE DEF instructions, items
  <2>1. Elements(p) = (instructions \cup items) \cup Below(instructions \cup items)
                        \cup Below(Below(instructions \cup items))
    BY DEF Elements, instructions, items
  <2>2. Below(instructions \cup items) = Below(items)
    <3>1. \A x : x \in Below(instructions \cup items) => x \in Below(instructions) \/ x \in Below(items)
      BY DEF Below
    <3>2. \A x : x \in Below(items) => x \in Below(instructions \cup items)
      BY DEF Below
    <3>3. QED
      BY <1>5, <3>1, <3>2
  <2>3. QED
    BY <1>1, <1>2, <1>3, <1>4, <1>7, <2>1, <2>2 DEF SeenItem, SeenPart, SeenText
<1>8. Told(f, p.value[System]) /\ Told(f, p.value[Body])
  BY DEF SeenSystem, SeenBody
<1>9. QED
  BY <1>6, <1>7, <1>8

\* No request is rewritten by a planner that was not given all of its texts.
THEOREM ThePlannerSawEveryText == AdaptedSpec => []EveryTextWasPlanned
<1>1. AdaptedInv => EveryTextWasPlanned
  <2> SUFFICES ASSUME AdaptedInv, Rewritten, NEW text \in TextsOf(payload)
               PROVE  \E i \in DOMAIN parsed.blocks : parsed.blocks[i].text = text
    BY DEF EveryTextWasPlanned
  <2>1. /\ Told(parsed, payload.value[System]) /\ Told(parsed, payload.value[Body])
        /\ \A e \in Elements(payload) : IsMap(e) => Told(parsed, e.content)
    BY RewrittenIsClean, ParseSeen, SeenThroughout
  <2>2. Tells(parsed, text)
    BY <2>1 DEF TextsOf, Told
  <2>3. QED
    BY <2>2 DEF Tells
<1>2. QED
  BY <1>1, AdaptedInvariant, PTL

\* No rewritten request holds a signed thought, or a text with citations.
THEOREM SignedAndCitedStay == AdaptedSpec => []SignedAndCitedUntouched
<1>1. AdaptedInv => SignedAndCitedUntouched
  <2> SUFFICES ASSUME AdaptedInv, Rewritten, NEW e \in PartsOf(payload)
               PROVE  FreePart(registry[endpoint], e)
    BY DEF SignedAndCitedUntouched, FreePart
  <2>1. QED
    BY RewrittenIsClean, ParseSeen, SeenThroughout
<1>2. QED
  BY <1>1, AdaptedInvariant, PTL

-----------------------------------------------------------------------------
(* What is sent, read again.                                                 *)

\* A block with another text.
LEMMA BlockRead ==
    ASSUME NEW p, NEW b \in Sound(p), NEW q, NEW text,
           b.path # NoPath => TextAt(q, b.path) = text
    PROVE  Reblock(q, b) = [b EXCEPT !.text = IF b.path = NoPath THEN @ ELSE text]
<1>1. b = [kind |-> b.kind, turn |-> b.turn, text |-> b.text, path |-> b.path]
  BY DEF Sound
<1>2. CASE b.path = NoPath
  <2>1. [b EXCEPT !.text = b.text] = b
    BY <1>1
  <2>2. QED
    BY <1>1, <1>2, <2>1 DEF Reblock
<1>3. CASE b.path # NoPath
  <2>1. [b EXCEPT !.text = text] = [kind |-> b.kind, turn |-> b.turn, text |-> text, path |-> b.path]
    BY <1>1
  <2>2. QED
    BY <1>3, <2>1 DEF Reblock
<1>4. QED
  BY <1>2, <1>3

\* The upstream's own reading of what was sent is the parse of the client's
\* payload, under the texts the engine chose.
THEOREM SentIsReadAsDecided == AdaptedSpec => []SentParsesAsDecided
<1>1. AdaptedInv => SentParsesAsDecided
  <2> DEFINE texts(c) == Rendered(result[c].body)
             blocks == parsed.blocks
             Written(c) == [i \in DOMAIN blocks |->
                              [blocks[i] EXCEPT !.text = IF blocks[i].path = NoPath THEN @
                                                         ELSE texts(c)[i]]]
             again == Parse(registry[endpoint], upstream)
  <2> SUFFICES ASSUME AdaptedInv, Rewritten, NEW c \in Calls
               PROVE  again = [parsed EXCEPT !.blocks = Written(c)]
    BY DEF SentParsesAsDecided
  <2>1. /\ registry[endpoint] \in Protocols /\ payload \in Payloads
        /\ parsed = Parse(registry[endpoint], payload) /\ parsed.safe
        /\ parsed \in Findings(Sound(payload)) /\ blocks \in Seq(Sound(payload))
    BY RewrittenIsClean, ParsedType DEF AdaptedInv, Clean
  <2>2. upstream = SerializeBlocks(payload, blocks, texts(c))
    BY OneCall DEF Rewritten, AdaptedInv, RequestOnTrack
  <2>3. SameShape(payload, upstream)
    <3> HIDE DEF texts, blocks
    <3>1. QED
      BY <2>1, <2>2, SoundPlaced, SerializeShape
  <2>4. Mirrors(upstream, Everywhere, parsed, again)
    BY <2>1, <2>3, ParseMirrors
  <2>5. /\ again = [blocks |-> again.blocks, safe |-> parsed.safe, raises |-> parsed.raises]
        /\ again.blocks = Reblocks(upstream, blocks) /\ Apart(blocks)
    BY <2>1, <2>4 DEF Mirrors
  <2>6. \A i \in 1 .. Len(blocks) :
           blocks[i].path # NoPath => TextAt(upstream, blocks[i].path) = texts(c)[i]
    <3> HIDE DEF texts, blocks
    <3>1. QED
      BY <2>1, <2>2, <2>5, SoundPlaced, SerializeReads
  <2>7. Reblocks(upstream, blocks) = Written(c)
    <3>1. \A i \in DOMAIN blocks :
             Reblock(upstream, blocks[i])
                = [blocks[i] EXCEPT !.text = IF blocks[i].path = NoPath THEN @ ELSE texts(c)[i]]
      <4> TAKE i \in DOMAIN blocks
      <4> DEFINE b == blocks[i]
                 text == texts(c)[i]
      <4>1. b \in Sound(payload) /\ (b.path # NoPath => TextAt(upstream, b.path) = text)
        <5> HIDE DEF texts, blocks
        <5>1. QED
          BY <2>1, <2>6, SoundPlaced
      <4> HIDE DEF b, text
      <4>2. Reblock(upstream, b) = [b EXCEPT !.text = IF b.path = NoPath THEN @ ELSE text]
        BY <4>1, BlockRead
      <4>3. QED
        BY <4>2 DEF b, text
    <3>2. QED
      BY <3>1 DEF Reblocks
  <2>8. parsed = [blocks |-> parsed.blocks, safe |-> parsed.safe, raises |-> parsed.raises]
    BY <2>1 DEF Findings
  <2> HIDE DEF again, Written, blocks
  <2>9. QED
    BY <2>5, <2>7, <2>8
<1>2. QED
  BY <1>1, AdaptedInvariant, PTL
===============================================================================
