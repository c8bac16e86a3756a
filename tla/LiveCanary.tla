----------------------------- MODULE LiveCanary -----------------------------
(***************************************************************************)
(* run_anthropic_preserved_thinking_live.py: four paid requests to one     *)
(* provider, a cap on their number, a guard on what they may cost, and the *)
(* evidence classify_anthropic_preserved_thinking makes of the answers.    *)
(*                                                                         *)
(* Money is an integer; the rates are per token.  A request is what its    *)
(* system prompt is and what its messages are; the client and the provider *)
(* only meet in `pending' and `reply'.                                     *)
(***************************************************************************)
EXTENDS Integers, Sequences

CONSTANTS HardCap,       \* HARD_CAP_USD
          MaxRequests,   \* MAX_REQUESTS
          MaxTokens,     \* MAX_TOKENS
          InputRate, CacheWriteRate, CacheReadRate, OutputRate,
          Size,          \* bytes: [{"stable", "mutated", "message"} -> Nat]
          Budgets,       \* what --max-spend-usd may be
          TokenLimits,   \* what --max-tokens may be
          SeedContents,  \* what the provider may answer to the seed
          Usages         \* token counts the provider may report

Counts == [input : Nat, written : Nat, read : Nat, output : Nat]

ASSUME RatesAssumption ==
    /\ {InputRate, CacheWriteRate, CacheReadRate, OutputRate} \subseteq Nat
    /\ InputRate <= CacheWriteRate /\ CacheReadRate <= CacheWriteRate

ASSUME CanaryAssumption ==
    /\ {HardCap, MaxRequests, MaxTokens} \subseteq Nat
    /\ Budgets \subseteq Int /\ TokenLimits \subseteq Int
    /\ Size \in [{"stable", "mutated", "message"} -> Nat]
    /\ Usages \subseteq Counts

VARIABLES
    mode,       \* where the program is, or how it ended
    budget,     \* --max-spend-usd
    limit,      \* --max-tokens
    offline,    \* whether the frozen offline evidence is complete
    calls,      \* calls of the budgeted transport
    observed,   \* observed of the budgeted transport
    answers,    \* the answers of the phases that passed
    reply,      \* what the provider has sent back, until it is read
    report,     \* what is printed
    provider,   \* how the provider treats thinking and caching
    pending,    \* the request at the provider
    issued,     \* what thinking it has issued, with the prefix it is bound to
    cachedPrefixes,     \* the prefixes in its cache
    billed      \* what it has charged

client == <<mode, budget, limit, offline, calls, observed, answers, report>>
canaryVars == <<client, reply, provider, pending, issued, cachedPrefixes, billed>>

Phases == <<"seed", "resume", "cache_probe", "prefix_mismatch">>
Bindings == {"binds", "never_drops", "always_drops"}

NativePart(type, says) == [type |-> type, says |-> says, exact |-> TRUE]
TextOnly(text) == <<NativePart("text", text)>>

NoRequest == [prefix |-> "stable", messages |-> <<>>, max_tokens |-> 0]
NoReply == [kind |-> "none"]
NoReport == [reason |-> "none", cost |-> 0, responses |-> <<>>]

ValidBudget(spend, tokens) ==
    0 < spend /\ spend <= HardCap /\ 1 <= tokens /\ tokens <= MaxTokens
-----------------------------------------------------------------------------
(* The requests *)

SeedRequest == [prefix |-> "stable", messages |-> <<TextOnly("lookup alpha")>>, max_tokens |-> limit]

ResumeRequest(seed, content) ==
    [seed EXCEPT !.messages =
        <<seed.messages[1], content,
          <<NativePart("tool_result", content[Len(content)].says), NativePart("text", "continue")>> >>]

CacheProbe(seed) == [seed EXCEPT !.messages = <<TextOnly("probe")>>]

\* Mutant of PrefixMismatchProbe: the prefix is sent as it was.
PrefixMismatchProbeUnchanged(resume) == resume

PrefixMismatchProbe(resume) == [resume EXCEPT !.prefix = "mutated"]

Request(phase) ==
    CASE phase = 1 -> SeedRequest
      [] phase = 2 -> ResumeRequest(SeedRequest, answers[1].content)
      [] phase = 3 -> CacheProbe(SeedRequest)
      [] phase = 4 -> PrefixMismatchProbe(ResumeRequest(SeedRequest, answers[1].content))

Bytes(request) == Size[request.prefix] + Size["message"] * Len(request.messages)

UpperBound(request) == Bytes(request) * CacheWriteRate + request.max_tokens * OutputRate

\* A counter that is missing, negative or no integer makes a usage invalid.
Cost(usage) ==
    usage.input * InputRate + usage.written * CacheWriteRate
      + usage.read * CacheReadRate + usage.output * OutputRate
-----------------------------------------------------------------------------
(* What the client accepts of an answer *)

Thinking(part) == part.type \in {"thinking", "redacted_thinking"} /\ part.exact

\* Thinking, then exactly one call of the synthetic tool, and nothing else.
StrictSeedContent(content) ==
    /\ Len(content) > 1
    /\ \A i \in 1 .. Len(content) - 1 : Thinking(content[i])
    /\ content[Len(content)].type = "tool_use" /\ content[Len(content)].exact

\* Mutant of BindingProbe: it takes a clear answer for an observed drop.
BindingProbeClear(answer) == "observed"

\* "absent" if nothing was dropped, "refused" if the probe raises.
BindingProbe(answer) ==
    IF answer.transformations = "clear" THEN "absent"
    ELSE IF /\ answer.transformations = "binding_drop"
            /\ answer.stop = "end_turn"
            /\ answer.content = TextOnly("BINDING_DROP_OK")
         THEN "observed" ELSE "refused"

Acceptable(phase, answer) ==
    /\ answer.model = "expected"
    /\ CASE phase = 1 -> /\ answer.transformations = "clear"
                         /\ answer.stop = "tool_use"
                         /\ StrictSeedContent(answer.content)
         [] phase \in {2, 3} ->
              /\ answer.transformations = "clear"
              /\ answer.stop = "end_turn"
              /\ answer.content = TextOnly(IF phase = 2 THEN "RESUME_OK" ELSE "CACHE_OK")
         [] phase = 4 -> BindingProbe(answer) # "refused"

CacheHit(some) == \E i \in DOMAIN some : some[i].usage.read > 0

\* What of an answer is printed: nothing the model wrote.
Sanitize(answer) ==
    [model |-> answer.model, stop |-> answer.stop, usage |-> answer.usage,
     types |-> [i \in DOMAIN answer.content |-> answer.content[i].type],
     transformations |-> answer.transformations]

LiveComplete ==
    LET resume == Request(2)
        seed   == answers[1]
    IN  /\ CacheHit(SubSeq(answers, 1, 3))
        /\ resume.messages[2] = seed.content
        /\ resume.messages[3][1].says = seed.content[Len(seed.content)].says
        /\ BindingProbe(answers[4]) = "observed"
        /\ \A i \in 1 .. 3 : answers[i].transformations = "clear"

\* The state of the record is PASSTHROUGH_ONLY whatever the evidence says.
Classify ==
    IF ~offline THEN "offline_contract_incomplete"
    ELSE IF LiveComplete THEN "live_canary_candidate" ELSE "live_contract_incomplete"
-----------------------------------------------------------------------------
(* The client *)

CanaryInit ==
    /\ mode = "start" /\ budget = 0 /\ limit = 0
    /\ offline \in BOOLEAN
    /\ calls = 0 /\ observed = 0 /\ answers = <<>>
    /\ reply = NoReply /\ report = NoReport
    /\ provider \in [binding : Bindings, caches : BOOLEAN]
    /\ pending = NoRequest /\ issued = {} /\ cachedPrefixes = {} /\ billed = 0

Main(spend, tokens, execute, key) ==
    /\ mode = "start"
    /\ budget' = spend /\ limit' = tokens
    /\ mode' = IF ~ValidBudget(spend, tokens) THEN "refused"
               ELSE IF ~execute THEN "cost_gate"
               ELSE IF ~key THEN "no_key" ELSE "ready"
    /\ UNCHANGED <<offline, calls, observed, answers, report,
                   reply, provider, pending, issued, cachedPrefixes, billed>>

\* Mutant of WithinBudget: what the request may cost is left out.
WithinBudgetSoFar(request) == observed <= budget

WithinBudget(request) == observed + UpperBound(request) <= budget

Send ==
    /\ mode = "ready" /\ Len(answers) < Len(Phases)
    /\ LET request == Request(Len(answers) + 1)
       IN  IF calls < MaxRequests /\ WithinBudget(request)
           THEN calls' = calls + 1 /\ pending' = request /\ mode' = "waiting"
           ELSE mode' = "failed" /\ UNCHANGED <<calls, pending>>
    /\ UNCHANGED <<budget, limit, offline, observed, answers, report,
                   reply, provider, issued, cachedPrefixes, billed>>

\* No answer in time, an HTTP error or a body that is no object ends the run;
\* the request may still be at the provider.
Fail ==
    /\ mode = "waiting"
    /\ mode' = "failed"
    /\ UNCHANGED <<budget, limit, offline, calls, observed, answers, report,
                   reply, provider, pending, issued, cachedPrefixes, billed>>

ReadReply ==
    /\ mode = "waiting" /\ reply.kind = "answer"
    /\ reply' = NoReply
    /\ IF reply.answer.usage_valid
       THEN /\ observed' = observed + Cost(reply.answer.usage)
            /\ IF observed' <= budget /\ Acceptable(Len(answers) + 1, reply.answer)
               THEN answers' = Append(answers, reply.answer) /\ mode' = "ready"
               ELSE mode' = "failed" /\ UNCHANGED answers
       ELSE mode' = "failed" /\ UNCHANGED <<observed, answers>>
    /\ UNCHANGED <<budget, limit, offline, calls, report,
                   provider, pending, issued, cachedPrefixes, billed>>

Conclude ==
    /\ mode = "ready" /\ Len(answers) = Len(Phases)
    /\ mode' = "done"
    /\ report' = [reason |-> Classify,
                  cost |-> Cost(answers[1].usage) + Cost(answers[2].usage)
                             + Cost(answers[3].usage) + Cost(answers[4].usage),
                  responses |-> [i \in 1 .. 4 |-> Sanitize(answers[i])]]
    /\ UNCHANGED <<budget, limit, offline, calls, observed, answers,
                   reply, provider, pending, issued, cachedPrefixes, billed>>
-----------------------------------------------------------------------------
(* The provider, as far as the client knows it *)

\* It drops thinking that did not come from it under the prefix of the request.
Transforms(request) ==
    IF Len(request.messages) < 3 THEN "clear"
    ELSE CASE provider.binding = "never_drops" -> "clear"
           [] provider.binding = "always_drops" -> "binding_drop"
           [] provider.binding = "binds" ->
                IF <<request.prefix, request.messages[2]>> \in issued
                THEN "clear" ELSE "binding_drop"

Says(request, content) ==
    CASE request.messages[1] = TextOnly("probe") -> TextOnly("CACHE_OK")
      [] Len(request.messages) = 1 -> content
      [] OTHER -> TextOnly(IF Transforms(request) = "clear" THEN "RESUME_OK" ELSE "BINDING_DROP_OK")

Answer(request, usage, content) ==
    [model |-> "expected", usage_valid |-> TRUE, usage |-> usage,
     transformations |-> Transforms(request),
     stop |-> IF request = SeedRequest THEN "tool_use" ELSE "end_turn",
     content |-> Says(request, content)]

\* The ways an answer may differ from what the protocol promises.
Flaws == {"none", "model", "usage", "transformations", "stop", "content"}

Flawed(answer, flaw) ==
    CASE flaw = "none" -> answer
      [] flaw = "model" -> [answer EXCEPT !.model = "unexpected"]
      [] flaw = "usage" -> [answer EXCEPT !.usage_valid = FALSE]
      [] flaw = "transformations" -> [answer EXCEPT !.transformations = "unknown"]
      [] flaw = "stop" -> [answer EXCEPT !.stop = "unknown"]
      [] flaw = "content" -> [answer EXCEPT !.content = TextOnly("else")]

\* A token is at least a byte of the request, and reading the cache needs one.
Plausible(request, usage) ==
    /\ usage.input + usage.written + usage.read <= Bytes(request)
    /\ usage.output <= request.max_tokens
    /\ usage.read > 0 <=> (provider.caches /\ request.prefix \in cachedPrefixes)

Serve(usage, content, flaw) ==
    /\ pending # NoRequest
    /\ Plausible(pending, usage)
    /\ billed' = billed + Cost(usage)
    /\ reply' = [kind |-> "answer",
                 answer |-> Flawed(Answer(pending, usage, content), flaw)]
    /\ issued' = IF pending = SeedRequest
                 THEN issued \cup {<<pending.prefix, Says(pending, content)>>} ELSE issued
    /\ cachedPrefixes' = cachedPrefixes \cup {pending.prefix}
    /\ pending' = NoRequest
    /\ UNCHANGED <<client, provider>>

CanaryNext ==
    \/ \E spend \in Budgets, tokens \in TokenLimits, execute, key \in BOOLEAN :
           Main(spend, tokens, execute, key)
    \/ Send \/ Fail \/ ReadReply \/ Conclude
    \/ \E usage \in Usages, content \in SeedContents, flaw \in Flaws :
           Serve(usage, content, flaw)

CanarySpec == CanaryInit /\ [][CanaryNext]_canaryVars
-----------------------------------------------------------------------------
(* Properties *)

\* What the provider charges never passes --max-spend-usd, though the program
\* learns of a cost only from a valid answer: not when an answer is lost, comes
\* after the timeout, or reports no usable counters.
SpendStaysInBudget == billed <= budget \/ billed = 0

\* The run names a candidate exactly when the provider, whose inside it cannot
\* see, binds thinking to its prefix and caches; it drops what it should not,
\* or nothing, and no flawed answer passes for evidence.
CandidateIsEarned ==
    mode = "done" =>
        (report.reason = "live_canary_candidate"
            <=> offline /\ provider.binding = "binds" /\ provider.caches)

\* A reader can check the verdict from what is printed with it, and the printed
\* cost is what was charged.
ReportBacksVerdict ==
    mode = "done" =>
        /\ report.cost = billed
        /\ report.reason = "live_canary_candidate" <=>
              /\ offline
              /\ \A i \in 1 .. 3 : report.responses[i].transformations = "clear"
              /\ \E i \in 1 .. 3 : report.responses[i].usage.read > 0
              /\ report.responses[4].transformations = "binding_drop"
=============================================================================
