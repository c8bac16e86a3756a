---------------------------- MODULE EngineProofs ----------------------------
(***************************************************************************)
(* Proofs about Engine: the inductive invariant EngineInv, and from it the *)
(* properties of the engine's results for any texts, reducers, envelopes,  *)
(* faults and number of concurrent calls.                                  *)
(***************************************************************************)
EXTENDS Engine, TLAPS, SequenceTheorems, WellFoundedInduction

-----------------------------------------------------------------------------
(* Lemmas about the operators *)

\* Max, as FiniteSetsExt defines it, is what it is called on sets of indices.
LEMMA MaxIsGreatest ==
    ASSUME NEW n \in Nat, NEW S \in SUBSET (1 .. n), S # {}
    PROVE  Max(S) \in S /\ \A y \in S : Max(S) >= y
<1>1. \E x \in S : \A y \in S : x >= y
  <2> DEFINE T == {n - x : x \in S}
  <2>1. T \subseteq Nat /\ T # {}
    <3>1. T # {}
      OBVIOUS
    <3>2. ASSUME NEW x \in S PROVE n - x \in Nat
      OBVIOUS
    <3> QED BY <3>1, <3>2
  <2>2. \E t \in T : \A u \in T : ~(<<u, t>> \in OpToRel(<, Nat))
    <3> HIDE DEF T
    <3> QED BY <2>1, NatLessThanWellFounded, WFMin
  <2>3. PICK t \in T : \A u \in T : ~(u < t)
    BY <2>1, <2>2 DEF OpToRel
  <2>4. PICK x \in S : t = n - x
    OBVIOUS
  <2>5. ASSUME NEW y \in S PROVE x >= y
    <3>1. n - y \in T
      OBVIOUS
    <3>2. ~(n - y < n - x)
      <4> HIDE DEF T
      <4> QED BY <3>1, <2>3, <2>4
    <3> QED BY <3>2
  <2> QED BY <2>4, <2>5
<1> QED BY <1>1 DEF Max

\* One more reducer.
LEMMA OneMoreReducer ==
    ASSUME NEW r \in 1 .. 4, NEW kind, NEW text
    PROVE  AfterReducers(r, kind, text) =
              Apply(ReducerOrder[r], kind, AfterReducers(r - 1, kind, text))
BY DEF AfterReducers

\* Reducers map texts to texts.
LEMMA ApplyType ==
    ASSUME NEW r \in 1 .. 4, NEW kind, NEW text \in Texts
    PROVE  Apply(ReducerOrder[r], kind, text) \in Texts
<1>1. ReducerOrder[r] \in ReducerIds
  BY DEF ReducerIds, ReducerOrder
<1>2. Candidate[ReducerOrder[r]] \in [Texts -> Texts]
  BY <1>1, EngineAssumption
<1> QED BY <1>2 DEF Apply

LEMMA AfterReducersType ==
    ASSUME NEW r \in 0 .. 4, NEW kind, NEW text \in Texts
    PROVE  AfterReducers(r, kind, text) \in Texts
<1>0. AfterReducers(0, kind, text) \in Texts
  BY DEF AfterReducers
<1>1. AfterReducers(1, kind, text) \in Texts
  BY <1>0, OneMoreReducer, ApplyType
<1>2. AfterReducers(2, kind, text) \in Texts
  BY <1>1, OneMoreReducer, ApplyType
<1>3. AfterReducers(3, kind, text) \in Texts
  BY <1>2, OneMoreReducer, ApplyType
<1>4. AfterReducers(4, kind, text) \in Texts
  BY <1>3, OneMoreReducer, ApplyType
<1> QED BY <1>0, <1>1, <1>2, <1>3, <1>4

LEMMA BlockType ==
    ASSUME NEW blocks \in Seq(Block), NEW i \in DOMAIN blocks
    PROVE  blocks[i].turn \in Nat /\ blocks[i].text \in Texts
<1>1. blocks[i] \in Block
  OBVIOUS
<1> QED BY <1>1 DEF Block

LEMMA ReducedTextType ==
    ASSUME NEW blocks \in Seq(Block), NEW i \in DOMAIN blocks
    PROVE  ReducedText(blocks, i) \in Texts
BY BlockType, AfterReducersType DEF ReducedText

\* The planner protects the context README promises to keep.
LEMMA PlannerProtects ==
    ASSUME NEW blocks \in Seq(Block)
    PROVE  ActiveContext(blocks) \subseteq Protected(blocks)
<1>1. \A i \in DOMAIN blocks : blocks[i].turn \in Nat
  BY BlockType
<1>2. DOMAIN blocks \subseteq Nat
  OBVIOUS
<1> QED
  BY <1>1, <1>2 DEF ActiveContext, Protected, InLatestTurn, LatestOfKind, StatesDecision

\* A protected block is its original in the whole rewriting.
LEMMA RewritingKeepsContext ==
    ASSUME NEW blocks \in Seq(Block)
    PROVE  KeepsContext(blocks, WholeRewriting(blocks))
<1>1. ASSUME NEW i \in DOMAIN blocks, i \in Protected(blocks)
      PROVE  WholeRewriting(blocks)[i] = Original(blocks)[i]
  BY <1>1 DEF WholeRewriting, Original, ReducedText
<1> QED BY <1>1, PlannerProtects DEF KeepsContext, Replaced

\* LastEqual is the last evidence block with the same reduced text.
LEMMA LastEqualIsLast ==
    ASSUME NEW blocks \in Seq(Block), NEW i \in DOMAIN blocks,
           blocks[i].kind \in EvidenceKinds
    PROVE  LET l == LastEqual(blocks, i) IN
           /\ l \in DOMAIN blocks
           /\ blocks[l].kind \in EvidenceKinds
           /\ ReducedText(blocks, l) = ReducedText(blocks, i)
           /\ LastEqual(blocks, l) = l
<1> DEFINE S(k) == {j \in DOMAIN blocks : /\ blocks[j].kind \in EvidenceKinds
                                         /\ ReducedText(blocks, j) = ReducedText(blocks, k)}
           l == LastEqual(blocks, i)
<1>1. Len(blocks) \in Nat /\ DOMAIN blocks = 1 .. Len(blocks)
  OBVIOUS
<1>2. S(i) \in SUBSET (1 .. Len(blocks)) /\ i \in S(i)
  BY <1>1
<1>3. l \in S(i)
  <2>1. Max(S(i)) \in S(i)
    BY <1>1, <1>2, MaxIsGreatest
  <2> QED BY <2>1 DEF LastEqual
<1>4. S(l) = S(i)
  BY <1>3
<1>5. LastEqual(blocks, l) = l
  BY <1>4 DEF LastEqual
<1> QED BY <1>3, <1>5

\* The markers of the whole rewriting resolve: the last of several equal blocks
\* is never marked.
LEMMA RewritingMarkersResolve ==
    ASSUME NEW blocks \in Seq(Block)
    PROVE  MarkersResolve(WholeRewriting(blocks))
<1> DEFINE W == WholeRewriting(blocks)
<1>1. ASSUME NEW i \in DOMAIN W, W[i].dup # 0
      PROVE  W[i].dup \in DOMAIN W /\ W[W[i].dup] = [text |-> W[i].text, dup |-> 0]
  <2>1. i \in DOMAIN blocks /\ blocks[i].kind \in EvidenceKinds
    BY <1>1 DEF WholeRewriting
  <2>2. W[i].dup = LastEqual(blocks, i) /\ W[i].text = ReducedText(blocks, i)
    BY <1>1, <2>1 DEF WholeRewriting
  <2> DEFINE l == LastEqual(blocks, i)
  <2>3. /\ l \in DOMAIN blocks
        /\ ReducedText(blocks, l) = ReducedText(blocks, i)
        /\ LastEqual(blocks, l) = l
    BY <2>1, LastEqualIsLast
  <2>4. W[l] = [text |-> ReducedText(blocks, l), dup |-> 0]
    <3> HIDE DEF l
    <3> QED BY <2>3 DEF WholeRewriting
  <2>5. DOMAIN W = DOMAIN blocks
    BY DEF WholeRewriting
  <2> HIDE DEF l, W
  <2>6. W[i].dup = l
    BY <2>2 DEF l
  <2> QED BY <2>2, <2>3, <2>4, <2>5, <2>6
<1> HIDE DEF W
<1>2. MarkersResolve(W)
  BY <1>1 DEF MarkersResolve
<1> QED BY <1>2 DEF W
-----------------------------------------------------------------------------
(* The sequences a call works on *)

LEMMA OriginalType ==
    ASSUME NEW blocks \in Seq(Block)
    PROVE  /\ Original(blocks) \in Seq(WireBlock)
           /\ DOMAIN Original(blocks) = DOMAIN blocks
<1>1. \A i \in DOMAIN blocks : Original(blocks)[i] \in WireBlock
  BY BlockType DEF Original, WireBlock
<1>2. DOMAIN blocks = 1 .. Len(blocks) /\ Len(blocks) \in Nat
  OBVIOUS
<1>3. Original(blocks) \in [1 .. Len(blocks) -> WireBlock]
  BY <1>1, <1>2 DEF Original
<1> QED BY <1>2, <1>3, SeqDef

LEMMA WholeRewritingType ==
    ASSUME NEW blocks \in Seq(Block)
    PROVE  /\ WholeRewriting(blocks) \in Seq(WireBlock)
           /\ DOMAIN WholeRewriting(blocks) = DOMAIN blocks
<1>1. ASSUME NEW i \in DOMAIN blocks PROVE WholeRewriting(blocks)[i] \in WireBlock
  <2>1. ASSUME blocks[i].kind \in EvidenceKinds PROVE LastEqual(blocks, i) \in Nat
    <3>1. LastEqual(blocks, i) \in DOMAIN blocks
      BY <2>1, LastEqualIsLast
    <3>2. DOMAIN blocks \subseteq Nat
      OBVIOUS
    <3> QED BY <3>1, <3>2
  <2>2. ReducedText(blocks, i) \in Texts
    BY ReducedTextType
  <2> QED BY <2>1, <2>2 DEF WholeRewriting, WireBlock
<1>2. DOMAIN blocks = 1 .. Len(blocks) /\ Len(blocks) \in Nat
  OBVIOUS
<1>3. WholeRewriting(blocks) \in [1 .. Len(blocks) -> WireBlock]
  BY <1>1, <1>2 DEF WholeRewriting
<1> QED BY <1>2, <1>3, SeqDef

LEMMA LoopWorkType ==
    ASSUME NEW blocks \in Seq(Block), NEW cur \in [block : Nat \ {0}, reducer : 1 .. 4]
    PROVE  LoopWork(blocks, cur) \in Seq(WireBlock)
<1>1. ASSUME NEW i \in DOMAIN blocks PROVE LoopWork(blocks, cur)[i] \in WireBlock
  <2>1. blocks[i].text \in Texts
    BY BlockType
  <2>2. \A n \in 0 .. 4 : AfterReducers(n, blocks[i].kind, blocks[i].text) \in Texts
    BY <2>1, AfterReducersType
  <2> QED BY <2>1, <2>2 DEF LoopWork, WireBlock
<1>2. DOMAIN blocks = 1 .. Len(blocks) /\ Len(blocks) \in Nat
  OBVIOUS
<1>3. LoopWork(blocks, cur) \in [1 .. Len(blocks) -> WireBlock]
  BY <1>1, <1>2 DEF LoopWork
<1> QED BY <1>2, <1>3, SeqDef

LEMMA DedupWorkType ==
    ASSUME NEW blocks \in Seq(Block), NEW cur \in [block : Nat \ {0}, reducer : 1 .. 4]
    PROVE  DedupWork(blocks, cur) \in Seq(WireBlock)
<1>1. ASSUME NEW i \in DOMAIN blocks PROVE DedupWork(blocks, cur)[i] \in WireBlock
  <2>1. WholeRewriting(blocks)[i] \in WireBlock
    BY WholeRewritingType
  <2>2. ReducedText(blocks, i) \in Texts
    BY ReducedTextType
  <2> QED BY <2>1, <2>2 DEF DedupWork, WireBlock
<1>2. DOMAIN blocks = 1 .. Len(blocks) /\ Len(blocks) \in Nat
  OBVIOUS
<1>3. DedupWork(blocks, cur) \in [1 .. Len(blocks) -> WireBlock]
  BY <1>1, <1>2 DEF DedupWork
<1> QED BY <1>2, <1>3, SeqDef

-----------------------------------------------------------------------------
(* What one step of a loop makes of the work so far *)

FirstCursor == [block |-> 1, reducer |-> 1]

\* Before the first reducer, a call works on the originals.
LEMMA LoopWorkStarts ==
    ASSUME NEW blocks \in Seq(Block)
    PROVE  LoopWork(blocks, FirstCursor) = Original(blocks)
<1>1. ASSUME NEW i \in DOMAIN blocks
      PROVE LoopWork(blocks, FirstCursor)[i] = Original(blocks)[i]
  <2>1. AfterReducers(0, blocks[i].kind, blocks[i].text) = blocks[i].text
    BY DEF AfterReducers
  <2>2. i >= 1
    OBVIOUS
  <2> QED BY <2>1, <2>2 DEF LoopWork, Original, FirstCursor
<1> QED BY <1>1 DEF LoopWork, Original

\* One call of a reducer advances LoopWork.
LEMMA LoopWorkAdvances ==
    ASSUME NEW blocks \in Seq(Block), NEW cur \in [block : Nat \ {0}, reducer : 1 .. 4],
           cur.block \in DOMAIN blocks, NEW w, w = LoopWork(blocks, cur),
           NEW v, v = IF cur.block \in Protected(blocks) THEN w
                      ELSE [w EXCEPT ![cur.block].text =
                               Apply(ReducerOrder[cur.reducer], blocks[cur.block].kind,
                                     w[cur.block].text)]
    PROVE  v = LoopWork(blocks, Advance(cur))
<1> DEFINE i == cur.block
           r == cur.reducer
           next == Advance(cur)
<1>1. i \in Nat /\ r \in 1 .. 4 /\ Len(ReducerOrder) = 4
  BY DEF ReducerOrder
<1>2. next = IF r < 4 THEN [block |-> i, reducer |-> r + 1]
             ELSE [block |-> i + 1, reducer |-> 1]
  BY <1>1 DEF Advance
<1>3. AfterReducers(r, blocks[i].kind, blocks[i].text) =
         Apply(ReducerOrder[r], blocks[i].kind,
               AfterReducers(r - 1, blocks[i].kind, blocks[i].text))
  BY <1>1, OneMoreReducer
<1>4. ASSUME NEW j \in DOMAIN blocks PROVE v[j] = LoopWork(blocks, next)[j]
  <2>1. AfterReducers(0, blocks[j].kind, blocks[j].text) = blocks[j].text
    BY DEF AfterReducers
  <2>2. j \in Nat
    OBVIOUS
  <2>3. CASE j # i
    <3>1. v[j] = w[j]
      BY <2>3 DEF LoopWork
    <3> QED BY <1>1, <1>2, <2>1, <2>2, <2>3, <3>1 DEF LoopWork
  <2>4. CASE j = i /\ i \in Protected(blocks)
    BY <2>4 DEF LoopWork
  <2>5. CASE j = i /\ i \notin Protected(blocks)
    <3>1. w[i] = [text |-> AfterReducers(r - 1, blocks[i].kind, blocks[i].text), dup |-> 0]
      BY <1>1, <2>5 DEF LoopWork
    <3>2. i \in DOMAIN w
      BY DEF LoopWork
    <3>3. v[i] = [text |-> AfterReducers(r, blocks[i].kind, blocks[i].text), dup |-> 0]
      BY <1>3, <2>5, <3>1, <3>2
    <3>4. LoopWork(blocks, next)[i].text = AfterReducers(r, blocks[i].kind, blocks[i].text)
      BY <1>1, <1>2, <2>5 DEF LoopWork
    <3> QED BY <2>5, <3>3, <3>4 DEF LoopWork
  <2> QED BY <2>3, <2>4, <2>5
<1>5. DOMAIN v = DOMAIN blocks /\ v = [j \in DOMAIN blocks |-> v[j]]
  BY DEF LoopWork
<1> QED BY <1>4, <1>5 DEF LoopWork

\* After the last block the loop has reduced everything.
LEMMA LoopWorkEnds ==
    ASSUME NEW blocks \in Seq(Block)
    PROVE  LoopWork(blocks, [block |-> Len(blocks) + 1, reducer |-> 1])
              = DedupWork(blocks, FirstCursor)
<1> DEFINE last == [block |-> Len(blocks) + 1, reducer |-> 1]
<1>1. ASSUME NEW i \in DOMAIN blocks
      PROVE LoopWork(blocks, last)[i] = DedupWork(blocks, FirstCursor)[i]
  <2>1. i \in 1 .. Len(blocks) /\ Len(blocks) \in Nat
    OBVIOUS
  <2> QED BY <2>1 DEF LoopWork, DedupWork, ReducedText, FirstCursor
<1> QED BY <1>1 DEF LoopWork, DedupWork

\* The deduplication of one block advances DedupWork.
LEMMA DedupWorkAdvances ==
    ASSUME NEW blocks \in Seq(Block), NEW cur \in [block : Nat \ {0}, reducer : 1 .. 4],
           cur.block \in DOMAIN blocks, NEW w, w = DedupWork(blocks, cur)
    PROVE  DedupWork(blocks, [cur EXCEPT !.block = cur.block + 1]) =
              IF /\ blocks[cur.block].kind \in EvidenceKinds
                 /\ cur.block \notin Protected(blocks)
                 /\ LastEqual(blocks, cur.block) # cur.block
                 /\ MarkerLength < Attr[w[cur.block].text].length
              THEN [w EXCEPT ![cur.block].dup = LastEqual(blocks, cur.block)]
              ELSE w
<1> DEFINE i == cur.block
           next == [cur EXCEPT !.block = cur.block + 1]
           v == IF /\ blocks[i].kind \in EvidenceKinds
                   /\ i \notin Protected(blocks)
                   /\ LastEqual(blocks, i) # i
                   /\ MarkerLength < Attr[w[i].text].length
                THEN [w EXCEPT ![i].dup = LastEqual(blocks, i)]
                ELSE w
<1>1. i \in Nat /\ next.block = i + 1
  OBVIOUS
<1>2. w[i] = [text |-> ReducedText(blocks, i), dup |-> 0] /\ i \in DOMAIN w
  BY <1>1 DEF DedupWork
<1>3. DedupWork(blocks, next)[i] = WholeRewriting(blocks)[i]
  BY <1>1 DEF DedupWork
<1>4. Attr[ReducedText(blocks, i)].length \in Nat /\ MarkerLength \in Nat
  BY ReducedTextType, AttrAssumption, EngineAssumption DEF Features
<1>5. v[i] = WholeRewriting(blocks)[i]
  BY <1>2, <1>4 DEF WholeRewriting
<1>6. ASSUME NEW j \in DOMAIN blocks, j # i PROVE v[j] = DedupWork(blocks, next)[j]
  <2>1. j \in Nat
    OBVIOUS
  <2>2. v[j] = w[j]
    BY <1>6 DEF DedupWork
  <2> QED BY <1>1, <1>6, <2>1, <2>2 DEF DedupWork
<1>7. DOMAIN v = DOMAIN blocks /\ v = [j \in DOMAIN blocks |-> v[j]]
  BY DEF DedupWork
<1>8. \A j \in DOMAIN blocks : v[j] = DedupWork(blocks, next)[j]
  BY <1>3, <1>5, <1>6
<1> QED BY <1>7, <1>8 DEF DedupWork

\* After the last block the work is the whole rewriting.
LEMMA DedupWorkEnds ==
    ASSUME NEW blocks \in Seq(Block), NEW cur, cur.block = Len(blocks) + 1
    PROVE  DedupWork(blocks, cur) = WholeRewriting(blocks)
<1>1. \A i \in DOMAIN blocks : i < cur.block
  OBVIOUS
<1> QED BY <1>1 DEF DedupWork, WholeRewriting

\* While blocks are marked, canonical of the code is LastEqual.
LEMMA CanonicalIsLastEqual ==
    ASSUME NEW c, NEW i \in DOMAIN env[c].blocks,
           work[c] = DedupWork(env[c].blocks, cursor[c])
    PROVE  Canonical(c, i) = LastEqual(env[c].blocks, i)
<1>1. DOMAIN work[c] = DOMAIN env[c].blocks
  BY DEF DedupWork
<1>2. \A j \in DOMAIN env[c].blocks : work[c][j].text = ReducedText(env[c].blocks, j)
  BY DEF DedupWork, WholeRewriting
<1> QED BY <1>1, <1>2 DEF Canonical, LastEqual, IsEvidence
-----------------------------------------------------------------------------
(* The steps *)

Cursors == [block : Nat \ {0}, reducer : 1 .. 4]

OnTrack(c) ==
    /\ Running(stage[c], env[c], cursor[c], work[c], refs[c])
    /\ Finished(stage[c], env[c], refs[c], result[c])
    /\ refs[c] \subseteq store

\* A step of one call leaves the others on track: it changes none of their
\* variables, and the store only grows.
LEMMA OthersStayOnTrack ==
    ASSUME CallsOnTrack, NEW c \in Calls, store \subseteq store', OnTrack(c)',
           \A d \in Calls \ {c} :
              /\ stage'[d] = stage[d] /\ env'[d] = env[d]
              /\ cursor'[d] = cursor[d] /\ work'[d] = work[d]
              /\ refs'[d] = refs[d] /\ result'[d] = result[d]
    PROVE  CallsOnTrack'
<1>1. ASSUME NEW d \in Calls \ {c} PROVE OnTrack(d)'
  BY DEF CallsOnTrack, OnTrack
<1>2. ASSUME NEW d \in Calls PROVE OnTrack(d)'
  BY <1>1
<1> QED BY <1>2 DEF CallsOnTrack, OnTrack

LEMMA TypeFacts ==
    ASSUME EngineTypeOK, NEW c \in Calls
    PROVE  /\ env[c] \in Envelope
           /\ env[c].blocks \in Seq(Block)
           /\ cursor[c] \in Cursors
           /\ work[c] \in Seq(WireBlock)
           /\ refs[c] \in SUBSET Texts
BY DEF EngineTypeOK, Envelope, Cursors, ReducerOrder

LEMMA UnoptimizedType ==
    ASSUME NEW blocks \in Seq(Block), NEW reasons \in SUBSET Reasons
    PROVE  LET r == Unoptimized(blocks, reasons) IN
           /\ r.optimized = FALSE
           /\ r.body \in Seq(WireBlock)
           /\ r.reasons \subseteq Reasons
BY OriginalType DEF Unoptimized

LEMMA OriginalIsRecoverable ==
    ASSUME NEW blocks, NEW rf
    PROVE  IsRecoverable(blocks, Original(blocks), rf)
BY DEF IsRecoverable, Replaced

LEMMA EngineInitInv == EngineInit => EngineInv
<1> SUFFICES ASSUME EngineInit PROVE EngineInv
  OBVIOUS
<1>1. <<>> \in Seq(Block) /\ <<>> \in Seq(WireBlock)
  OBVIOUS
<1>2. EngineTypeOK
  <2>1. store \subseteq Texts /\ stage \in [Calls -> Stages]
    BY DEF EngineInit, Stages
  <2>2. env \in [Calls -> Envelope]
    BY <1>1 DEF EngineInit, NoEnvelope, Envelope
  <2>3. cursor \in [Calls -> [block : Nat \ {0}, reducer : DOMAIN ReducerOrder]]
    BY DEF EngineInit, ReducerOrder
  <2>4. work \in [Calls -> Seq(WireBlock)]
    BY <1>1 DEF EngineInit
  <2>5. changed \in [Calls -> SUBSET Nat] /\ refs \in [Calls -> SUBSET Texts]
    BY DEF EngineInit
  <2>6. /\ DOMAIN result = Calls
        /\ \A c \in Calls : /\ result[c].optimized \in BOOLEAN
                            /\ result[c].body \in Seq(WireBlock)
                            /\ result[c].reasons \subseteq Reasons
    BY <1>1 DEF EngineInit, NoResult
  <2> QED BY <2>1, <2>2, <2>3, <2>4, <2>5, <2>6 DEF EngineTypeOK
<1>3. CallsOnTrack
  BY DEF EngineInit, CallsOnTrack, Running, Finished, NoResult
<1> QED BY <1>2, <1>3 DEF EngineInv

LEMMA OptimizeStep ==
    ASSUME EngineInv, NEW c \in Calls, NEW e \in Envelope, Optimize(c, e)
    PROVE  EngineInv'
<1> USE DEF EngineInv
<1>1. e \in Envelope /\ e.blocks \in Seq(Block)
  BY DEF Envelope
<1>2. BypassReasons(e) \subseteq Reasons
  BY DEF BypassReasons, Reasons
<1>3. EngineTypeOK'
  <2>1. /\ store' \subseteq Texts /\ cursor' \in [Calls -> [block : Nat \ {0}, reducer : DOMAIN ReducerOrder]]
        /\ changed' \in [Calls -> SUBSET Nat] /\ refs' \in [Calls -> SUBSET Texts]
    BY DEF EngineTypeOK, Optimize
  <2>2. env' \in [Calls -> Envelope] /\ stage' \in [Calls -> Stages]
    BY <1>1 DEF EngineTypeOK, Optimize, Return, Stages
  <2>3. work' \in [Calls -> Seq(WireBlock)]
    BY <1>1, OriginalType DEF EngineTypeOK, Optimize
  <2>4. /\ DOMAIN result' = Calls
        /\ \A d \in Calls : /\ result'[d].optimized \in BOOLEAN
                            /\ result'[d].body \in Seq(WireBlock)
                            /\ result'[d].reasons \subseteq Reasons
    <3> DEFINE r == Unoptimized(e.blocks, BypassReasons(e))
    <3>1. r.optimized \in BOOLEAN /\ r.body \in Seq(WireBlock) /\ r.reasons \subseteq Reasons
      BY <1>1, <1>2, UnoptimizedType
    <3>2. result' = result \/ result' = [result EXCEPT ![c] = r]
      BY DEF Optimize, Return
    <3> HIDE DEF r
    <3> QED BY <3>1, <3>2 DEF EngineTypeOK
  <2> QED BY <2>1, <2>2, <2>3, <2>4 DEF EngineTypeOK
<1>4. cursor[c] = FirstCursor /\ refs[c] \subseteq store
  BY DEF CallsOnTrack, Running, Optimize, FirstCursor
<1>5. /\ env'[c] = e /\ work'[c] = Original(e.blocks) /\ cursor'[c] = FirstCursor
      /\ refs' = refs /\ store' = store
  BY <1>4 DEF Optimize, EngineTypeOK
<1>6. Running(stage'[c], e, FirstCursor, Original(e.blocks), refs[c])
  <2>1. CASE BypassReasons(e) # {}
    BY <2>1 DEF Optimize, Return, Running, EngineTypeOK
  <2>2. CASE BypassReasons(e) = {} /\ e.blocks # <<>>
    <3>1. stage'[c] = "reduce"
      BY <2>2 DEF Optimize, EngineTypeOK
    <3>2. FirstCursor.block \in DOMAIN e.blocks
      BY <1>1, <2>2 DEF FirstCursor
    <3> QED BY <1>1, <2>2, <3>1, <3>2, LoopWorkStarts, OriginalIsRecoverable DEF Running
  <2>3. CASE BypassReasons(e) = {} /\ e.blocks = <<>>
    <3>1. stage'[c] = "dedup"
      BY <2>3 DEF Optimize, EngineTypeOK
    <3>2. Len(e.blocks) = 0
      BY <2>3
    <3>3. [block |-> Len(e.blocks) + 1, reducer |-> 1] = FirstCursor
      BY <3>2 DEF FirstCursor
    <3>4. DedupWork(e.blocks, FirstCursor) = Original(e.blocks)
      BY <1>1, <3>3, LoopWorkEnds, LoopWorkStarts
    <3>5. FirstCursor.block \in 1 .. Len(e.blocks) + 1
      BY <3>2 DEF FirstCursor
    <3> QED BY <2>3, <3>1, <3>4, <3>5, OriginalIsRecoverable DEF Running
  <2> QED BY <2>1, <2>2, <2>3
<1>7. Finished(stage'[c], e, refs[c], result'[c])
  <2>1. CASE BypassReasons(e) # {}
    <3>1. result'[c] = Unoptimized(e.blocks, BypassReasons(e))
      BY <2>1 DEF Optimize, Return, EngineTypeOK
    <3> QED BY <1>1, <1>2, <3>1, UnoptimizedType DEF Finished
  <2>2. CASE BypassReasons(e) = {}
    BY <2>2 DEF Optimize, Finished, EngineTypeOK
  <2> QED BY <2>1, <2>2
<1>8. OnTrack(c)'
  BY <1>4, <1>5, <1>6, <1>7 DEF OnTrack
<1>9. CallsOnTrack'
  BY <1>8, OthersStayOnTrack DEF Optimize, Return, EngineTypeOK
<1> QED BY <1>3, <1>9
LEMMA PlanRaisesStep ==
    ASSUME EngineInv, NEW c \in Calls, NEW e \in Envelopes, PlanRaises(c, e)
    PROVE  EngineInv'
<1> USE DEF EngineInv
<1>1. e \in Envelope
  BY EngineAssumption
<1>2. EngineTypeOK'
  BY <1>1 DEF EngineTypeOK, PlanRaises, Stages
<1>3. OnTrack(c)'
  BY DEF OnTrack, CallsOnTrack, PlanRaises, Running, Finished, EngineTypeOK
<1> QED BY <1>2, <1>3, OthersStayOnTrack DEF PlanRaises, EngineTypeOK

\* Where the loop goes next.
LEMMA AdvanceType ==
    ASSUME NEW blocks \in Seq(Block), NEW cur \in Cursors, cur.block \in DOMAIN blocks
    PROVE  LET next == Advance(cur) IN
           /\ next \in Cursors
           /\ next.block \in 1 .. Len(blocks) + 1
           /\ next.block > Len(blocks) =>
                 next = [block |-> Len(blocks) + 1, reducer |-> 1]
<1>1. Len(ReducerOrder) = 4 /\ DOMAIN blocks = 1 .. Len(blocks) /\ Len(blocks) \in Nat
  BY DEF ReducerOrder
<1>2. CASE cur.reducer < 4
  BY <1>1, <1>2 DEF Advance, Cursors
<1>3. CASE ~(cur.reducer < 4)
  BY <1>1, <1>3 DEF Advance, Cursors
<1> QED BY <1>2, <1>3

\* Where a reducer step leaves the work of its call.
LEMMA ReducedWork ==
    ASSUME EngineInv, NEW c \in Calls, Reduce(c)
    PROVE  /\ cursor[c].block \in DOMAIN env[c].blocks
           /\ work[c] = LoopWork(env[c].blocks, cursor[c])
           /\ work'[c] = LoopWork(env[c].blocks, Advance(cursor[c]))
           /\ \A d \in Calls \ {c} : work'[d] = work[d] /\ refs'[d] = refs[d]
           /\ IsRecoverable(env[c].blocks, work'[c], refs'[c])
           /\ refs'[c] \subseteq store'
           /\ changed' \in [Calls -> SUBSET Nat]
           /\ refs' \in [Calls -> SUBSET Texts]
           /\ work' \in [Calls -> Seq(WireBlock)]
           /\ store \subseteq store' /\ store' \subseteq Texts
<1> USE DEF EngineInv
<1> DEFINE blocks  == env[c].blocks
           cur     == cursor[c]
           i       == cursor[c].block
           reducer == ReducerOrder[cursor[c].reducer]
           kind    == blocks[i].kind
           text    == work[c][i].text
           w       == work[c]
           open    == i \notin Protected(blocks)
           fires   == open /\ Rewrites(reducer, kind, text)
<1>1. /\ i \in DOMAIN blocks /\ w = LoopWork(blocks, cur)
      /\ IsRecoverable(blocks, w, refs[c]) /\ refs[c] \subseteq store
  BY DEF CallsOnTrack, Running, Reduce
<1>2. blocks \in Seq(Block) /\ cur \in Cursors /\ i \in Nat
  BY TypeFacts DEF Cursors
<1>3. i \in DOMAIN w /\ w[i].dup = 0 /\ DOMAIN w = DOMAIN blocks
  BY <1>1 DEF LoopWork
<1>4. text \in Texts
  <2>1. w \in Seq(WireBlock)
    BY TypeFacts
  <2>2. w[i] \in WireBlock
    BY <1>3, <2>1
  <2> QED BY <2>2 DEF WireBlock
<1>5. store' = IF open /\ Puts(reducer, kind, text) THEN store \cup {text} ELSE store
  BY DEF Reduce
<1>6. fires => text \in store'
  BY <1>5 DEF Puts, Rewrites
<1>7. store \subseteq store' /\ store' \subseteq Texts
  BY <1>4, <1>5 DEF EngineTypeOK
<1>8. CASE fires
  <2>1. /\ work' = [work EXCEPT ![c][i].text = Candidate[reducer][text]]
        /\ changed' = [changed EXCEPT ![c] = @ \cup {i}]
        /\ refs' = [refs EXCEPT ![c] = @ \cup {text}]
    BY <1>8 DEF Reduce
  <2>2. DOMAIN work = Calls /\ DOMAIN refs = Calls
    BY DEF EngineTypeOK
  <2>3. work'[c] = [w EXCEPT ![i].text = Candidate[reducer][text]]
    BY <2>1, <2>2
  <2>4. Apply(reducer, kind, text) = Candidate[reducer][text]
    BY <1>8 DEF Rewrites, Apply
  <2>5. work'[c] = [w EXCEPT ![i].text = Apply(reducer, kind, w[i].text)]
    BY <2>3, <2>4
  <2>6. work'[c] = LoopWork(blocks, Advance(cur))
    BY <1>1, <1>2, <1>8, <2>5, LoopWorkAdvances DEF Cursors
  <2>7. refs'[c] = refs[c] \cup {text}
    BY <2>1, <2>2
  <2>8. ASSUME NEW j \in Replaced(blocks, work'[c]) PROVE blocks[j].text \in refs'[c]
    <3>1. j \in DOMAIN blocks
      BY DEF Replaced
    <3>2. CASE w[j] # Original(blocks)[j]
      BY <1>1, <2>7, <3>1, <3>2 DEF IsRecoverable, Replaced
    <3>3. CASE w[j] = Original(blocks)[j] /\ j = i
      BY <2>7, <3>1, <3>3 DEF Original
    <3>4. CASE w[j] = Original(blocks)[j] /\ j # i
      <4>1. work'[c][j] = w[j]
        BY <1>3, <2>3, <3>1, <3>4
      <4> QED BY <3>4, <4>1 DEF Replaced
    <3> QED BY <3>2, <3>3, <3>4
  <2>9. IsRecoverable(blocks, work'[c], refs'[c])
    BY <2>8 DEF IsRecoverable
  <2>10. changed' \in [Calls -> SUBSET Nat] /\ refs' \in [Calls -> SUBSET Texts]
    BY <1>2, <1>4, <2>1 DEF EngineTypeOK
  <2>11. \A d \in Calls \ {c} : work'[d] = work[d] /\ refs'[d] = refs[d]
    BY <2>1, <2>2
  <2>12. refs'[c] \subseteq store'
    BY <1>1, <1>6, <1>7, <1>8, <2>1, <2>2, <2>7
  <2>13. work' \in [Calls -> Seq(WireBlock)]
    <3>1. work'[c] \in Seq(WireBlock)
      BY <1>1, <1>2, <2>6, AdvanceType, LoopWorkType DEF Cursors
    <3>2. DOMAIN work' = Calls /\ work' = [d \in Calls |-> work'[d]]
      BY <2>1, <2>2
    <3>3. \A d \in Calls \ {c} : work'[d] \in Seq(WireBlock)
      BY <2>11, TypeFacts
    <3> QED BY <3>1, <3>2, <3>3
  <2> QED BY <1>1, <1>7, <2>6, <2>9, <2>10, <2>11, <2>12, <2>13
<1>9. CASE ~fires
  <2>1. work' = work /\ changed' = changed /\ refs' = refs
    BY <1>9 DEF Reduce
  <2>2. ~open \/ Apply(reducer, kind, text) = text
    BY <1>9 DEF Rewrites, Apply
  <2>3. w = [w EXCEPT ![i].text = text]
    <3>1. w \in Seq(WireBlock) /\ w[i] \in WireBlock
      BY <1>3, TypeFacts
    <3>2. [w[i] EXCEPT !.text = text] = w[i]
      BY <3>1 DEF WireBlock
    <3>3. w = [w EXCEPT ![i] = w[i]]
      BY <3>1
    <3> QED BY <3>2, <3>3
  <2>4. w = IF i \in Protected(blocks) THEN w
            ELSE [w EXCEPT ![i].text = Apply(reducer, kind, w[i].text)]
    BY <2>2, <2>3
  <2>5. w = LoopWork(blocks, Advance(cur))
    <3> HIDE DEF w
    <3> QED BY <1>1, <1>2, <2>4, LoopWorkAdvances DEF Cursors
  <2> QED BY <1>1, <1>7, <2>1, <2>5 DEF EngineTypeOK
<1> QED BY <1>8, <1>9
LEMMA ReduceStep ==
    ASSUME EngineInv, NEW c \in Calls, Reduce(c)
    PROVE  EngineInv'
<1> USE DEF EngineInv
<1> DEFINE blocks == env[c].blocks
           cur    == cursor[c]
           next   == Advance(cursor[c])
           done   == next.block > Len(blocks)
<1>1. /\ cur.block \in DOMAIN blocks
      /\ work'[c] = LoopWork(blocks, next)
      /\ \A d \in Calls \ {c} : work'[d] = work[d] /\ refs'[d] = refs[d]
      /\ IsRecoverable(blocks, work'[c], refs'[c])
      /\ refs'[c] \subseteq store'
      /\ changed' \in [Calls -> SUBSET Nat]
      /\ refs' \in [Calls -> SUBSET Texts]
      /\ work' \in [Calls -> Seq(WireBlock)]
      /\ store \subseteq store' /\ store' \subseteq Texts
  BY ReducedWork
<1>2. blocks \in Seq(Block) /\ cur \in Cursors
  BY TypeFacts
<1>3. /\ next \in Cursors /\ next.block \in 1 .. Len(blocks) + 1
      /\ done => next = [block |-> Len(blocks) + 1, reducer |-> 1]
  BY <1>1, <1>2, AdvanceType
<1>4. /\ env' = env /\ result' = result
      /\ cursor' = [cursor EXCEPT ![c] = IF done THEN FirstCursor ELSE next]
      /\ stage' = [stage EXCEPT ![c] = IF done THEN "dedup" ELSE "reduce"]
  BY DEF Reduce, MoveOn, FirstCursor
<1>5. EngineTypeOK'
  <2>1. cursor' \in [Calls -> [block : Nat \ {0}, reducer : DOMAIN ReducerOrder]]
    <3>1. FirstCursor \in Cursors
      BY DEF FirstCursor, Cursors
    <3>2. cursor \in [Calls -> Cursors]
      BY DEF EngineTypeOK, Cursors, ReducerOrder
    <3>3. cursor' \in [Calls -> Cursors]
      BY <1>3, <1>4, <3>1, <3>2
    <3> QED BY <3>3 DEF Cursors, ReducerOrder
  <2>2. stage' \in [Calls -> Stages]
    BY <1>4 DEF EngineTypeOK, Stages
  <2> QED BY <1>1, <1>4, <2>1, <2>2 DEF EngineTypeOK
<1>6. OnTrack(c)'
  <2>1. BypassReasons(env[c]) = {}
    BY DEF CallsOnTrack, Running, Reduce
  <2>2. CASE done
    <3>1. stage'[c] = "dedup" /\ cursor'[c] = FirstCursor
      BY <1>4, <2>2 DEF EngineTypeOK
    <3>2. work'[c] = DedupWork(blocks, FirstCursor)
      BY <1>1, <1>2, <1>3, <2>2, LoopWorkEnds
    <3>3. FirstCursor.block \in 1 .. Len(blocks) + 1
      BY <1>2 DEF FirstCursor
    <3> QED BY <1>1, <1>4, <2>1, <3>1, <3>2, <3>3 DEF OnTrack, Running, Finished
  <2>3. CASE ~done
    <3>1. stage'[c] = "reduce" /\ cursor'[c] = next
      BY <1>4, <2>3 DEF EngineTypeOK
    <3>2. next.block \in DOMAIN blocks
      BY <1>2, <1>3, <2>3
    <3> QED BY <1>1, <1>4, <2>1, <3>1, <3>2 DEF OnTrack, Running, Finished
  <2> QED BY <2>2, <2>3
<1>7. \A d \in Calls \ {c} : stage'[d] = stage[d] /\ cursor'[d] = cursor[d]
  BY <1>4 DEF EngineTypeOK
<1> QED BY <1>1, <1>4, <1>5, <1>6, <1>7, OthersStayOnTrack

\* A call that gives its original back, or raises, has nothing left to keep.
LEMMA ReduceRaisesStep ==
    ASSUME EngineInv, NEW c \in Calls, ReduceRaises(c)
    PROVE  EngineInv'
<1> USE DEF EngineInv
<1> DEFINE r == Unoptimized(env[c].blocks, {"fallback_internal_error"})
<1>1. r.optimized = FALSE /\ r.body \in Seq(WireBlock) /\ r.reasons \subseteq Reasons
  <2>1. {"fallback_internal_error"} \in SUBSET Reasons
    BY DEF Reasons
  <2> QED BY <2>1, TypeFacts, UnoptimizedType
<1>2. /\ result' = [result EXCEPT ![c] = r]
      /\ stage' = [stage EXCEPT ![c] = "returned"]
      /\ UNCHANGED <<store, env, cursor, work, changed, refs>>
  BY DEF ReduceRaises, Return
<1> HIDE DEF r
<1>3. EngineTypeOK'
  BY <1>1, <1>2 DEF EngineTypeOK, Stages
<1>4. OnTrack(c)'
  BY <1>1, <1>2 DEF OnTrack, CallsOnTrack, Running, Finished, EngineTypeOK
<1> QED BY <1>2, <1>3, <1>4, OthersStayOnTrack DEF EngineTypeOK

LEMMA DedupRaisesStep ==
    ASSUME EngineInv, NEW c \in Calls, DedupRaises(c)
    PROVE  EngineInv'
<1> USE DEF EngineInv
<1>1. EngineTypeOK'
  BY DEF EngineTypeOK, DedupRaises, Stages
<1>2. OnTrack(c)'
  BY DEF OnTrack, CallsOnTrack, DedupRaises, Running, Finished, EngineTypeOK
<1> QED BY <1>1, <1>2, OthersStayOnTrack DEF DedupRaises, EngineTypeOK

LEMMA EngineCrashStep ==
    ASSUME EngineInv, EngineCrash
    PROVE  EngineInv'
<1> USE DEF EngineInv
<1>1. EngineTypeOK'
  BY DEF EngineTypeOK, EngineCrash, Stages
<1>2. ASSUME NEW c \in Calls PROVE OnTrack(c)'
  BY DEF OnTrack, CallsOnTrack, EngineCrash, Running, Finished, EngineTypeOK
<1> QED BY <1>1, <1>2 DEF CallsOnTrack, OnTrack
LEMMA DedupStep ==
    ASSUME EngineInv, NEW c \in Calls, Dedup(c)
    PROVE  EngineInv'
<1> USE DEF EngineInv
<1> DEFINE blocks == env[c].blocks
           cur    == cursor[c]
           i      == cursor[c].block
           w      == work[c]
           next   == [cur EXCEPT !.block = i + 1]
           marks  == IsDuplicate(c, i) /\ MarkerLength < Attr[w[i].text].length
<1>1. /\ w = DedupWork(blocks, cur) /\ BypassReasons(env[c]) = {}
      /\ IsRecoverable(blocks, w, refs[c]) /\ refs[c] \subseteq store
      /\ stage[c] = "dedup"
  BY DEF CallsOnTrack, Running, Dedup
<1>2. blocks \in Seq(Block) /\ cur \in Cursors /\ i \in Nat
  BY TypeFacts DEF Cursors
<1>3. i \in DOMAIN blocks /\ DOMAIN w = DOMAIN blocks
  <2>1. i =< Len(blocks) /\ i >= 1
    BY <1>2 DEF Dedup, Cursors
  <2>2. DOMAIN blocks = 1 .. Len(blocks) /\ Len(blocks) \in Nat
    BY <1>2
  <2>3. DOMAIN w = DOMAIN blocks
    BY <1>1 DEF DedupWork
  <2> QED BY <1>2, <2>1, <2>2, <2>3
<1>4. Canonical(c, i) = LastEqual(blocks, i)
  BY <1>1, <1>3, CanonicalIsLastEqual
<1>5. blocks[i].text \in Texts
  BY <1>2, <1>3, BlockType
<1>6. /\ store' = IF IsDuplicate(c, i) THEN store \cup {blocks[i].text} ELSE store
      /\ env' = env /\ result' = result /\ stage' = stage
      /\ cursor' = [cursor EXCEPT ![c].block = i + 1]
  BY DEF Dedup
<1>7. store \subseteq store' /\ store' \subseteq Texts
  BY <1>5, <1>6 DEF EngineTypeOK
<1>8. cursor'[c] = next /\ next \in Cursors /\ next.block \in 1 .. Len(blocks) + 1
  <2>1. cursor'[c] = next
    BY <1>6 DEF EngineTypeOK
  <2>2. next \in Cursors /\ next.block = i + 1
    BY <1>2 DEF Cursors
  <2>3. i \in 1 .. Len(blocks) /\ Len(blocks) \in Nat
    BY <1>2, <1>3
  <2> QED BY <2>1, <2>2, <2>3
<1>9. cursor' \in [Calls -> [block : Nat \ {0}, reducer : DOMAIN ReducerOrder]]
  <2>1. cursor \in [Calls -> Cursors]
    BY DEF EngineTypeOK, Cursors, ReducerOrder
  <2>2. cursor' = [cursor EXCEPT ![c] = next]
    BY <1>6
  <2> HIDE DEF next
  <2>3. cursor' \in [Calls -> Cursors]
    BY <1>8, <2>1, <2>2
  <2> QED BY <2>3 DEF Cursors, ReducerOrder
<1>10. CASE marks
  <2>1. /\ work' = [work EXCEPT ![c] = [w EXCEPT ![i].dup = LastEqual(blocks, i)]]
        /\ changed' = [changed EXCEPT ![c] = @ \cup {i}]
        /\ refs' = [refs EXCEPT ![c] = @ \cup {blocks[i].text}]
    BY <1>4, <1>10 DEF Dedup
  <2>2. DOMAIN work = Calls /\ DOMAIN refs = Calls
    BY DEF EngineTypeOK
  <2>3. work'[c] = [w EXCEPT ![i].dup = LastEqual(blocks, i)]
    BY <2>1, <2>2
  <2>4. /\ blocks[i].kind \in EvidenceKinds /\ i \notin Protected(blocks)
        /\ LastEqual(blocks, i) # i /\ MarkerLength < Attr[w[i].text].length
    BY <1>4, <1>10 DEF IsDuplicate, IsEvidence
  <2>5. work'[c] = DedupWork(blocks, next)
    <3> HIDE DEF w, blocks
    <3>1. cur \in [block : Nat \ {0}, reducer : 1 .. 4]
      BY <1>2 DEF Cursors
    <3> QED BY <1>1, <1>2, <1>3, <2>3, <2>4, <3>1, DedupWorkAdvances
  <2>6. refs'[c] = refs[c] \cup {blocks[i].text}
    BY <2>1, <2>2
  <2>7. ASSUME NEW j \in Replaced(blocks, work'[c]) PROVE blocks[j].text \in refs'[c]
    <3>1. CASE j = i
      BY <2>6, <3>1
    <3>2. CASE j # i
      <4>1. j \in DOMAIN blocks /\ work'[c][j] = w[j]
        BY <1>3, <2>3, <3>2 DEF Replaced
      <4> QED BY <1>1, <2>6, <4>1 DEF Replaced, IsRecoverable
    <3> QED BY <3>1, <3>2
  <2>8. IsRecoverable(blocks, work'[c], refs'[c])
    BY <2>7 DEF IsRecoverable
  <2>9. changed' \in [Calls -> SUBSET Nat] /\ refs' \in [Calls -> SUBSET Texts]
    BY <1>2, <1>5, <2>1 DEF EngineTypeOK
  <2>10. \A d \in Calls \ {c} : work'[d] = work[d] /\ refs'[d] = refs[d]
    BY <2>1, <2>2
  <2>11. work' \in [Calls -> Seq(WireBlock)]
    <3>1. work'[c] \in Seq(WireBlock)
      BY <1>2, <1>8, <2>5, DedupWorkType DEF Cursors
    <3>2. work' = [work EXCEPT ![c] = work'[c]]
      BY <2>1, <2>3
    <3> QED BY <3>1, <3>2 DEF EngineTypeOK
  <2>12. refs'[c] \subseteq store'
    BY <1>1, <1>6, <1>7, <1>10, <2>6
  <2>13. OnTrack(c)'
    BY <1>1, <1>6, <1>8, <2>5, <2>8, <2>12 DEF OnTrack, Running, Finished
  <2>14. EngineTypeOK'
    BY <1>6, <1>7, <1>9, <2>9, <2>11 DEF EngineTypeOK
  <2>15. \A d \in Calls \ {c} : cursor'[d] = cursor[d]
    BY <1>6 DEF EngineTypeOK
  <2> QED BY <1>6, <1>7, <2>10, <2>13, <2>14, <2>15, OthersStayOnTrack
<1>11. CASE ~marks
  <2>1. work' = work /\ changed' = changed /\ refs' = refs
    BY <1>11 DEF Dedup
  <2>2. w = DedupWork(blocks, next)
    <3>1. ~(/\ blocks[i].kind \in EvidenceKinds /\ i \notin Protected(blocks)
            /\ LastEqual(blocks, i) # i /\ MarkerLength < Attr[w[i].text].length)
      BY <1>4, <1>11 DEF IsDuplicate, IsEvidence
    <3> HIDE DEF w, blocks
    <3>2. cur \in [block : Nat \ {0}, reducer : 1 .. 4]
      BY <1>2 DEF Cursors
    <3> QED BY <1>1, <1>2, <1>3, <3>1, <3>2, DedupWorkAdvances
  <2>3. OnTrack(c)'
    BY <1>1, <1>6, <1>7, <1>8, <2>1, <2>2 DEF OnTrack, Running, Finished
  <2>4. EngineTypeOK'
    BY <1>6, <1>7, <1>9, <2>1 DEF EngineTypeOK
  <2>5. \A d \in Calls \ {c} : cursor'[d] = cursor[d]
    BY <1>6 DEF EngineTypeOK
  <2> QED BY <1>6, <1>7, <2>1, <2>3, <2>4, <2>5, OthersStayOnTrack
<1> QED BY <1>10, <1>11

LEMMA DecideStep ==
    ASSUME EngineInv, NEW c \in Calls, Decide(c)
    PROVE  EngineInv'
<1> USE DEF EngineInv
<1> DEFINE blocks == env[c].blocks
           cheap == [optimized |-> TRUE, body |-> work[c], reasons |-> {"optimized"},
                     before |-> EstimateTokens(Original(blocks)),
                     after  |-> EstimateTokens(work[c])]
           plain == Unoptimized(blocks, {"no_eligible_reduction"})
           r == IF Worthwhile(c) THEN cheap ELSE plain
<1>1. /\ work[c] = DedupWork(blocks, cursor[c]) /\ BypassReasons(env[c]) = {}
      /\ IsRecoverable(blocks, work[c], refs[c]) /\ refs[c] \subseteq store
      /\ cursor[c].block \in 1 .. Len(blocks) + 1
  BY DEF CallsOnTrack, Running, Decide
<1>2. blocks \in Seq(Block) /\ Len(blocks) \in Nat /\ work[c] \in Seq(WireBlock)
  BY TypeFacts
<1>3. cursor[c].block = Len(blocks) + 1
  BY <1>1, <1>2 DEF Decide
<1>4. work[c] = WholeRewriting(blocks)
  BY <1>1, <1>2, <1>3, DedupWorkEnds
<1>5. plain.optimized = FALSE /\ plain.body \in Seq(WireBlock) /\ plain.reasons \subseteq Reasons
  <2>1. {"no_eligible_reduction"} \in SUBSET Reasons
    BY DEF Reasons
  <2> QED BY <1>2, <2>1, UnoptimizedType
<1>6. r.optimized \in BOOLEAN /\ r.body \in Seq(WireBlock) /\ r.reasons \subseteq Reasons
  <2>1. {"optimized"} \subseteq Reasons
    BY DEF Reasons
  <2> HIDE DEF plain
  <2> QED BY <1>2, <1>5, <2>1
<1>7. r.optimized =>
         /\ r.body = WholeRewriting(blocks)
         /\ IsRecoverable(blocks, r.body, refs[c])
         /\ r.before = EstimateTokens(Original(blocks))
         /\ r.after = EstimateTokens(r.body)
         /\ r.after < r.before
  <2>1. CASE Worthwhile(c)
    <3>1. EstimateTokens(work[c]) < EstimateTokens(Original(blocks))
      BY <2>1 DEF Worthwhile
    <3>2. r = cheap
      BY <2>1
    <3> HIDE DEF r
    <3> QED BY <1>1, <1>4, <3>1, <3>2
  <2>2. CASE ~Worthwhile(c)
    <3> HIDE DEF plain
    <3> QED BY <1>5, <2>2
  <2> QED BY <2>1, <2>2
<1>8. /\ result' = [result EXCEPT ![c] = r]
      /\ stage' = [stage EXCEPT ![c] = "returned"]
      /\ UNCHANGED <<store, env, cursor, work, changed, refs>>
  BY DEF Decide, Return
<1> HIDE DEF r
<1>9. EngineTypeOK'
  BY <1>6, <1>8 DEF EngineTypeOK, Stages
<1>10. stage'[c] = "returned" /\ result'[c] = r
  BY <1>8 DEF EngineTypeOK
<1>11. OnTrack(c)'
  BY <1>1, <1>7, <1>8, <1>10 DEF OnTrack, Running, Finished
<1> QED BY <1>8, <1>9, <1>11, OthersStayOnTrack DEF EngineTypeOK
LEMMA EngineStutterStep ==
    ASSUME EngineInv, UNCHANGED engineVars
    PROVE  EngineInv'
<1>1. EngineTypeOK'
  BY DEF EngineInv, engineVars, callVars, EngineTypeOK
<1>2. CallsOnTrack'
  BY DEF EngineInv, engineVars, callVars, CallsOnTrack
<1> QED BY <1>1, <1>2 DEF EngineInv

\* A step of one call, whichever it is.
LEMMA CallStepInv ==
    ASSUME EngineInv, NEW c \in Calls, EngineStart(c) \/ CallStep(c)
    PROVE  EngineInv'
<1>1. ASSUME NEW e \in Envelopes, Optimize(c, e) PROVE EngineInv'
  BY <1>1, OptimizeStep, EngineAssumption
<1>2. ASSUME NEW e \in Envelopes, PlanRaises(c, e) PROVE EngineInv'
  BY <1>2, PlanRaisesStep
<1>3. CASE EngineStart(c)
  BY <1>1, <1>2, <1>3 DEF EngineStart
<1>4. CASE Reduce(c)
  BY <1>4, ReduceStep
<1>5. CASE ReduceRaises(c)
  BY <1>5, ReduceRaisesStep
<1>6. CASE Dedup(c)
  BY <1>6, DedupStep
<1>7. CASE DedupRaises(c)
  BY <1>7, DedupRaisesStep
<1>8. CASE Decide(c)
  BY <1>8, DecideStep
<1> QED BY <1>3, <1>4, <1>5, <1>6, <1>7, <1>8 DEF CallStep, CallProgress

-----------------------------------------------------------------------------
(* The theorems *)

\* Every variable keeps its shape and every call is where its loops put it,
\* whatever the other calls, the faults and the crashes do.
THEOREM EngineInvariant == EngineSpec => []EngineInv
<1>1. EngineInv /\ [EngineNext]_engineVars => EngineInv'
  <2> SUFFICES ASSUME EngineInv, [EngineNext]_engineVars PROVE EngineInv'
    OBVIOUS
  <2>1. CASE \E c \in Calls : EngineStart(c) \/ CallStep(c)
    BY <2>1, CallStepInv
  <2>2. CASE EngineCrash
    BY <2>2, EngineCrashStep
  <2>3. CASE UNCHANGED engineVars
    BY <2>3, EngineStutterStep
  <2> QED BY <2>1, <2>2, <2>3 DEF EngineNext
<1> QED BY <1>1, EngineInitInv, PTL DEF EngineSpec

\* The shape of every variable.
THEOREM EngineTypes == EngineSpec => []EngineTypeOK
BY EngineInvariant, PTL DEF EngineInv

\* A step of one call never takes another off its track.
THEOREM CallsStayOnTrack == EngineSpec => []CallsOnTrack
BY EngineInvariant, PTL DEF EngineInv

\* An optimised result is the whole rewriting of its request, which is a
\* function of the request alone.
LEMMA ResultFacts ==
    ASSUME EngineInv, NEW c \in Calls, ReturnedOptimized(c)
    PROVE  /\ env[c].blocks \in Seq(Block)
           /\ result[c].body = WholeRewriting(env[c].blocks)
           /\ IsRecoverable(env[c].blocks, result[c].body, refs[c])
           /\ refs[c] \subseteq store
           /\ result[c].before = EstimateTokens(Original(env[c].blocks))
           /\ result[c].after = EstimateTokens(result[c].body)
           /\ result[c].after < result[c].before
BY TypeFacts DEF EngineInv, CallsOnTrack, Finished, ReturnedOptimized

THEOREM ResultsAreWholeRewritings == EngineSpec => []ResultIsWholeRewriting
<1>1. EngineInv => ResultIsWholeRewriting
  BY ResultFacts DEF ResultIsWholeRewriting
<1> QED BY <1>1, EngineInvariant, PTL

\* What the planner promises to keep leaves optimize as it came.
THEOREM ContextIsUntouched == EngineSpec => []ProtectedContextUntouched
<1>1. EngineInv => ProtectedContextUntouched
  BY ResultFacts, RewritingKeepsContext DEF ProtectedContextUntouched
<1> QED BY <1>1, EngineInvariant, PTL

\* The original of every replaced block is in the store, and stays there.
THEOREM ReplacedTextIsRecoverable == EngineSpec => []ReplacedTextRecoverable
<1>1. EngineInv => ReplacedTextRecoverable
  BY ResultFacts DEF ReplacedTextRecoverable
<1> QED BY <1>1, EngineInvariant, PTL

\* Every duplicate marker names a block that carries its text in full.
THEOREM MarkersAlwaysResolve == EngineSpec => []DuplicateMarkersResolve
<1>1. EngineInv => DuplicateMarkersResolve
  BY ResultFacts, RewritingMarkersResolve DEF DuplicateMarkersResolve
<1> QED BY <1>1, EngineInvariant, PTL

\* An optimised result is strictly cheaper than its request.
THEOREM OptimizedResultsAreCheaper == EngineSpec => []OptimizedIsCheaper
<1>1. EngineInv => OptimizedIsCheaper
  BY ResultFacts DEF OptimizedIsCheaper
<1> QED BY <1>1, EngineInvariant, PTL
=============================================================================
