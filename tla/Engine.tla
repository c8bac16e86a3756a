------------------------------- MODULE Engine -------------------------------
(***************************************************************************)
(* engine.py, reducers.py and store.py: concurrent calls of                *)
(* OptimizationEngine.optimize that share one recovery store.              *)
(*                                                                         *)
(* The threads of the gateway (and the loop of the benchmark) call         *)
(* optimize; each call works on local variables, and the recovery store is *)
(* the only state calls share.  A step of a call is one reducer applied to *)
(* one block, or the deduplication of one block: each commits at most one  *)
(* SQLite transaction, so these are the points where calls interleave,     *)
(* where the store can fail and where a crash of the process loses         *)
(* everything but the store.                                               *)
(***************************************************************************)
EXTENDS Rewriting, FiniteSetsExt

CONSTANTS Calls,          \* the calls of optimize; each is made once
          Envelopes,      \* the envelopes a caller may pass
          Candidate,      \* [ReducerIds -> [Texts -> Texts]]: the rewritten
                          \*   text a reducer computes before it compares lengths
          MinChars,       \* ToolOutputReducer.min_chars
          EdgeLines,      \* ToolOutputReducer.edge_lines
          MarkerLength,   \* len("[TOKEN_DUPLICATE_OF:...;TOKEN_REF:...]")
          MarkerUnits,    \* the matches of _TOKEN_RE in such a marker
          Faults          \* what may fail: "planner", "reducer", "store"

ReducerOrder == <<"json_minify_v1", "repeat_runs_v1",
                  "evidence_exact_duplicate_v1", "tool_output_v1">>
ReducerIds == {ReducerOrder[r] : r \in DOMAIN ReducerOrder}

ASSUME EngineAssumption ==
    /\ Envelopes \subseteq Envelope
    /\ Candidate \in [ReducerIds -> [Texts -> Texts]]
    /\ MinChars \in Nat /\ EdgeLines \in Nat
    /\ MarkerLength \in Nat /\ MarkerUnits \in Nat

VARIABLES
    store,     \* the refs in the recovery table; a ref is the SHA-256 of the
               \*   text it names, so the set of stored texts stands for both
    stage,     \* where each call is
    env,       \* its argument
    cursor,    \* its loop variables
    work,      \* its list of blocks, rewritten in place
    changed,   \* changed_ids
    refs,      \* recovery_refs
    result     \* the OptimizationResult it returned

callVars   == <<stage, env, cursor, work, changed, refs, result>>
engineVars == <<store, callVars>>

Stages == {"idle", "reduce", "dedup", "returned", "raised", "lost"}

Reasons == {"unsupported_wire_shape", "exact_edit_context",
            "competing_active_decisions", "structured_decision_context",
            "fallback_internal_error", "no_eligible_reduction", "optimized"}

-----------------------------------------------------------------------------
(* The reducers *)

\* The early returns of each reduce(), protection aside.
Considers(reducer, kind, text) ==
    LET a == Attr[text] IN
    CASE reducer = "json_minify_v1" -> kind = "tool_output" /\ a.json
      [] reducer = "repeat_runs_v1" -> ~a.json /\ a.lines >= 2
      [] reducer = "evidence_exact_duplicate_v1" ->
            kind \in EvidenceKinds /\ ~a.constraint /\ a.decisions = {} /\ ~a.json
      [] reducer = "tool_output_v1" ->
            /\ kind = "tool_output" /\ ~a.json
            /\ a.length >= MinChars /\ a.lines > 2 * EdgeLines + 1

Shrinks(reducer, text) ==
    Attr[Candidate[reducer][text]].length < Attr[text].length

\* Mutant of Rewrites: a text the store already holds is skipped.
RewritesUnlessStored(reducer, kind, text) ==
    Considers(reducer, kind, text) /\ Shrinks(reducer, text) /\ text \notin store

Rewrites(reducer, kind, text) ==
    Considers(reducer, kind, text) /\ Shrinks(reducer, text)

\* Mutant of Puts: no copy of a text whose rewriting is called lossless.
PutsUnlessJson(reducer, kind, text) ==
    /\ Considers(reducer, kind, text)
    /\ ~Attr[text].json
    /\ Shrinks(reducer, text) \/ reducer = "tool_output_v1"

\* store.put comes after the length comparison, except in ToolOutputReducer,
\* whose candidate contains the ref.
Puts(reducer, kind, text) ==
    /\ Considers(reducer, kind, text)
    /\ Shrinks(reducer, text) \/ reducer = "tool_output_v1"

-----------------------------------------------------------------------------
(* estimate_tokens: round(units * 1.33), halves to the even integer *)

Units(b) == IF b.dup = 0 THEN Attr[b.text].units ELSE MarkerUnits

RoundHundredths(n) ==
    LET q == n \div 100
    IN  IF n % 100 > 50 \/ (n % 100 = 50 /\ q % 2 = 1) THEN q + 1 ELSE q

EstimateTokens(body) ==
    RoundHundredths(133 * MapThenSumSet(LAMBDA i : Units(body[i]), DOMAIN body))

-----------------------------------------------------------------------------
(* The values a call starts from and returns *)

Unoptimized(blocks, reasons) ==
    [optimized |-> FALSE, body |-> Original(blocks), reasons |-> reasons,
     before |-> EstimateTokens(Original(blocks)),
     after  |-> EstimateTokens(Original(blocks))]

Return(c, r) ==
    /\ stage'  = [stage EXCEPT ![c] = "returned"]
    /\ result' = [result EXCEPT ![c] = r]

NoEnvelope == [blocks |-> <<>>, wireSafe |-> TRUE]
NoResult   == [optimized |-> FALSE, body |-> <<>>, reasons |-> {},
               before |-> 0, after |-> 0]

EngineInit ==
    /\ store   = {}
    /\ stage   = [c \in Calls |-> "idle"]
    /\ env     = [c \in Calls |-> NoEnvelope]
    /\ cursor  = [c \in Calls |-> [block |-> 1, reducer |-> 1]]
    /\ work    = [c \in Calls |-> <<>>]
    /\ changed = [c \in Calls |-> {}]
    /\ refs    = [c \in Calls |-> {}]
    /\ result  = [c \in Calls |-> NoResult]

-----------------------------------------------------------------------------
(* optimize(): the estimate, the plan, and the bypass return *)

Optimize(c, e) ==
    /\ stage[c] = "idle"
    /\ env'  = [env EXCEPT ![c] = e]
    /\ work' = [work EXCEPT ![c] = Original(e.blocks)]
    /\ IF BypassReasons(e) # {}
       THEN Return(c, Unoptimized(e.blocks, BypassReasons(e)))
       ELSE /\ stage' = [stage EXCEPT ![c] =
                            IF e.blocks = <<>> THEN "dedup" ELSE "reduce"]
            /\ UNCHANGED result
    /\ UNCHANGED <<store, cursor, changed, refs>>

\* estimate_tokens and planner.plan run before the try block: what they raise
\* leaves optimize.
PlanRaises(c, e) ==
    /\ "planner" \in Faults
    /\ stage[c] = "idle"
    /\ env'   = [env EXCEPT ![c] = e]
    /\ stage' = [stage EXCEPT ![c] = "raised"]
    /\ UNCHANGED <<store, cursor, work, changed, refs, result>>

-----------------------------------------------------------------------------
(* The loop of optimize() over blocks and reducers *)

Advance(cur) ==
    IF cur.reducer < Len(ReducerOrder)
    THEN [cur EXCEPT !.reducer = @ + 1]
    ELSE [block |-> cur.block + 1, reducer |-> 1]

\* After the last block the loop ends and deduplication starts over.
MoveOn(c) ==
    LET next == Advance(cursor[c])
        done == next.block > Len(env[c].blocks)
    IN  /\ cursor' = [cursor EXCEPT ![c] =
                         IF done THEN [block |-> 1, reducer |-> 1] ELSE next]
        /\ stage'  = [stage EXCEPT ![c] = IF done THEN "dedup" ELSE "reduce"]

Reduce(c) ==
    LET i       == cursor[c].block
        reducer == ReducerOrder[cursor[c].reducer]
        kind    == env[c].blocks[i].kind
        text    == work[c][i].text
        open    == i \notin Protected(env[c].blocks)
    IN  /\ stage[c] = "reduce"
        /\ store' = IF open /\ Puts(reducer, kind, text)
                    THEN store \cup {text} ELSE store
        /\ IF open /\ Rewrites(reducer, kind, text)
           THEN /\ work'    = [work EXCEPT ![c][i].text = Candidate[reducer][text]]
                /\ changed' = [changed EXCEPT ![c] = @ \cup {i}]
                /\ refs'    = [refs EXCEPT ![c] = @ \cup {text}]
           ELSE UNCHANGED <<work, changed, refs>>
        /\ MoveOn(c)
        /\ UNCHANGED <<env, result>>

\* Mutant of ReduceRaises: the reason is what the exception says.
ReduceRaisesInItsWords(c) ==
    /\ stage[c] = "reduce"
    /\ Faults \cap {"reducer", "store"} # {}
    /\ Return(c, Unoptimized(env[c].blocks, {"database is locked"}))
    /\ UNCHANGED <<store, env, cursor, work, changed, refs>>

\* Any exception in the loop, store.put's included, returns the original.
ReduceRaises(c) ==
    /\ stage[c] = "reduce"
    /\ LET i == cursor[c].block IN
       \/ "reducer" \in Faults
       \/ /\ "store" \in Faults
          /\ i \notin Protected(env[c].blocks)
          /\ Puts(ReducerOrder[cursor[c].reducer], env[c].blocks[i].kind,
                  work[c][i].text)
    /\ Return(c, Unoptimized(env[c].blocks, {"fallback_internal_error"}))
    /\ UNCHANGED <<store, env, cursor, work, changed, refs>>

-----------------------------------------------------------------------------
(* _dedup_exact_evidence *)

IsEvidence(c, i) == env[c].blocks[i].kind \in EvidenceKinds

\* Mutant of Canonical: the next block with the same text, not the last one.
CanonicalIsNext(c, i) ==
    LET later == {j \in i + 1 .. Len(work[c]) :
                     IsEvidence(c, j) /\ work[c][j].text = work[c][i].text}
    IN  IF later = {} THEN i ELSE Min(later)

\* The last evidence block with the text of block i.  The code fills canonical
\* before it marks anything; a marked block of work keeps the text it had then.
Canonical(c, i) ==
    Max({j \in DOMAIN work[c] : /\ IsEvidence(c, j)
                                /\ work[c][j].text = work[c][i].text})

\* Mutant of IsDuplicate: deduplication forgets the protected blocks.
IsDuplicateUnprotected(c, i) == IsEvidence(c, i) /\ Canonical(c, i) # i

\* The blocks _dedup_exact_evidence stores the original of.
IsDuplicate(c, i) ==
    /\ IsEvidence(c, i)
    /\ i \notin Protected(env[c].blocks)
    /\ Canonical(c, i) # i

Dedup(c) ==
    LET i == cursor[c].block IN
    /\ stage[c] = "dedup"
    /\ i =< Len(env[c].blocks)
    /\ IF IsDuplicate(c, i)
       THEN /\ store' = store \cup {env[c].blocks[i].text}
            /\ IF MarkerLength < Attr[work[c][i].text].length
               THEN /\ work'    = [work EXCEPT ![c][i].dup = Canonical(c, i)]
                    /\ changed' = [changed EXCEPT ![c] = @ \cup {i}]
                    /\ refs'    = [refs EXCEPT ![c] = @ \cup {env[c].blocks[i].text}]
               ELSE UNCHANGED <<work, changed, refs>>
       ELSE UNCHANGED <<store, work, changed, refs>>
    /\ cursor' = [cursor EXCEPT ![c].block = i + 1]
    /\ UNCHANGED <<stage, env, result>>

\* Deduplication is outside the try block: a failing put leaves optimize.
DedupRaises(c) ==
    /\ "store" \in Faults
    /\ stage[c] = "dedup"
    /\ cursor[c].block =< Len(env[c].blocks)
    /\ IsDuplicate(c, cursor[c].block)
    /\ stage' = [stage EXCEPT ![c] = "raised"]
    /\ UNCHANGED <<store, env, cursor, work, changed, refs, result>>

-----------------------------------------------------------------------------
(* The comparison of the two estimates, and the return *)

\* Mutant of Worthwhile: a rewriting that saves nothing is kept.
WorthwhileOnTie(c) ==
    /\ changed[c] # {}
    /\ EstimateTokens(work[c]) =< EstimateTokens(Original(env[c].blocks))

Worthwhile(c) ==
    /\ changed[c] # {}
    /\ EstimateTokens(work[c]) < EstimateTokens(Original(env[c].blocks))

Decide(c) ==
    /\ stage[c] = "dedup"
    /\ cursor[c].block > Len(env[c].blocks)
    /\ Return(c, IF Worthwhile(c)
                 THEN [optimized |-> TRUE, body |-> work[c],
                       reasons |-> {"optimized"},
                       before |-> EstimateTokens(Original(env[c].blocks)),
                       after  |-> EstimateTokens(work[c])]
                 ELSE Unoptimized(env[c].blocks, {"no_eligible_reduction"}))
    /\ UNCHANGED <<store, env, cursor, work, changed, refs>>

-----------------------------------------------------------------------------
InFlight(c) == stage[c] \in {"reduce", "dedup"}

\* The process dies: every running call is gone, committed rows are not.
EngineCrash ==
    /\ \E c \in Calls : InFlight(c)
    /\ stage' = [c \in Calls |-> IF InFlight(c) THEN "lost" ELSE stage[c]]
    /\ UNCHANGED <<store, env, cursor, work, changed, refs, result>>

CallProgress(c) == Reduce(c) \/ Dedup(c) \/ Decide(c)

CallStep(c) == CallProgress(c) \/ ReduceRaises(c) \/ DedupRaises(c)

EngineStart(c) ==
    /\ stage[c] = "idle"
    /\ \E e \in Envelopes : Optimize(c, e) \/ PlanRaises(c, e)

EngineNext ==
    \/ \E c \in Calls : EngineStart(c) \/ CallStep(c)
    \/ EngineCrash

EngineSpec == EngineInit /\ [][EngineNext]_engineVars
-----------------------------------------------------------------------------
(* Properties *)

\* The shape of every variable; the reasons of a result are the codes of Reasons
\* and never text of an exception or a request, as gateway.py copies them into
\* the reason_codes of the metrics table.
EngineTypeOK ==
    /\ store \subseteq Texts
    /\ stage \in [Calls -> Stages]
    /\ env \in [Calls -> Envelope]
    /\ cursor \in [Calls -> [block : Nat \ {0}, reducer : DOMAIN ReducerOrder]]
    /\ work \in [Calls -> Seq(WireBlock)]
    /\ changed \in [Calls -> SUBSET Nat]
    /\ refs \in [Calls -> SUBSET Texts]
    /\ DOMAIN result = Calls
    /\ \A c \in Calls : /\ result[c].optimized \in BOOLEAN
                        /\ result[c].body \in Seq(WireBlock)
                        /\ result[c].reasons \subseteq Reasons

ReturnedOptimized(c) == stage[c] = "returned" /\ result[c].optimized

\* README "How it works": what the planner promises to keep leaves optimize byte
\* for byte, whatever the reducers and the deduplication did around it.
ProtectedContextUntouched ==
    \A c \in Calls :
        ReturnedOptimized(c) => KeepsContext(env[c].blocks, result[c].body)

\* README "Reversible": when optimize has replaced a block, the store holds the
\* bytes the client sent for it, under a ref the result lists, and every ref
\* the result lists resolves; a later crash or failure takes nothing back.
ReplacedTextRecoverable ==
    \A c \in Calls : ReturnedOptimized(c) =>
        /\ IsRecoverable(env[c].blocks, result[c].body, refs[c])
        /\ refs[c] \subseteq store

\* A TOKEN_DUPLICATE_OF marker names a block of the same request that carries
\* in full the text the marker stands for, and is no marker itself.
DuplicateMarkersResolve ==
    \A c \in Calls : ReturnedOptimized(c) => MarkersResolve(result[c].body)

\* An optimised result is strictly cheaper, in the estimates it reports and in
\* those of the body it carries.
OptimizedIsCheaper ==
    \A c \in Calls : ReturnedOptimized(c) =>
        /\ result[c].after = EstimateTokens(result[c].body)
        /\ result[c].before = EstimateTokens(Original(env[c].blocks))
        /\ result[c].after < result[c].before

\* The rewriting of a request as a function of the request alone: the text of a
\* block after the first n reducers, after all of them, and the markers.
Apply(reducer, kind, text) ==
    IF Considers(reducer, kind, text) /\ Shrinks(reducer, text)
    THEN Candidate[reducer][text] ELSE text

AfterReducers(n, kind, text) ==
    LET one   == Apply(ReducerOrder[1], kind, text)
        two   == Apply(ReducerOrder[2], kind, one)
        three == Apply(ReducerOrder[3], kind, two)
    IN  CASE n = 0 -> text
          [] n = 1 -> one
          [] n = 2 -> two
          [] n = 3 -> three
          [] n = 4 -> Apply(ReducerOrder[4], kind, three)

ReducedText(blocks, i) ==
    IF i \in Protected(blocks) THEN blocks[i].text
    ELSE AfterReducers(4, blocks[i].kind, blocks[i].text)

LastEqual(blocks, i) ==
    Max({j \in DOMAIN blocks : /\ blocks[j].kind \in EvidenceKinds
                               /\ ReducedText(blocks, j) = ReducedText(blocks, i)})

WholeRewriting(blocks) ==
    [i \in DOMAIN blocks |->
        LET text == ReducedText(blocks, i) IN
        [text |-> text,
         dup  |-> IF /\ blocks[i].kind \in EvidenceKinds
                     /\ i \notin Protected(blocks)
                     /\ Attr[text].length > MarkerLength
                     /\ LastEqual(blocks, i) # i
                  THEN LastEqual(blocks, i) ELSE 0]]

\* Calls share the store but not their outcome: an optimised body is the whole
\* rewriting of the request, never a part of it, and the same one whatever other
\* calls stored before or between, or failed at (a retried request must not
\* change under the provider's prompt cache).
ResultIsWholeRewriting ==
    \A c \in Calls : ReturnedOptimized(c) =>
        result[c].body = WholeRewriting(env[c].blocks)

-----------------------------------------------------------------------------
(* The inductive invariant.  The state of a running call is a function of  *)
(* its argument and its loop variables, whatever the other calls did:      *)
(* LoopWork while the reducers run, DedupWork afterwards.                  *)

LoopWork(blocks, cur) ==
    [i \in DOMAIN blocks |->
        [text |-> IF i \in Protected(blocks) \/ i > cur.block THEN blocks[i].text
                  ELSE AfterReducers(IF i < cur.block THEN 4 ELSE cur.reducer - 1,
                                     blocks[i].kind, blocks[i].text),
         dup  |-> 0]]

DedupWork(blocks, cur) ==
    [i \in DOMAIN blocks |->
        IF i < cur.block THEN WholeRewriting(blocks)[i]
        ELSE [text |-> ReducedText(blocks, i), dup |-> 0]]

Running(st, e, cur, w, rf) ==
    /\ st = "idle" => cur = [block |-> 1, reducer |-> 1]
    /\ st = "reduce" => cur.block \in DOMAIN e.blocks /\ w = LoopWork(e.blocks, cur)
    /\ st = "dedup" => cur.block \in 1 .. Len(e.blocks) + 1 /\ w = DedupWork(e.blocks, cur)
    /\ st \in {"reduce", "dedup"} =>
          BypassReasons(e) = {} /\ IsRecoverable(e.blocks, w, rf)

Finished(st, e, rf, res) ==
    st = "returned" /\ res.optimized =>
        /\ BypassReasons(e) = {}
        /\ res.body = WholeRewriting(e.blocks)
        /\ IsRecoverable(e.blocks, res.body, rf)
        /\ res.before = EstimateTokens(Original(e.blocks))
        /\ res.after = EstimateTokens(res.body)
        /\ res.after < res.before

\* Every call is where its loops put it, and each ref it holds is stored.
CallsOnTrack ==
    \A c \in Calls :
        /\ Running(stage[c], env[c], cursor[c], work[c], refs[c])
        /\ Finished(stage[c], env[c], refs[c], result[c])
        /\ refs[c] \subseteq store

EngineInv == EngineTypeOK /\ CallsOnTrack
=============================================================================
