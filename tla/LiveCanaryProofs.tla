-------------------------- MODULE LiveCanaryProofs --------------------------
(***************************************************************************)
(* The live run never spends more than it may, and its verdict is true,    *)
(* for any rates, budget, request sizes, providers, answers and token      *)
(* counts.                                                                 *)
(*                                                                         *)
(* SpendStaysInBudget is not inductive: a provider may charge for a        *)
(* request after the client gave up on it.  CanaryInv keeps what a request *)
(* at the provider may still cost within the budget, and says that while   *)
(* the client runs it knows of everything that was charged.                *)
(* CandidateIsEarned speaks of four answers at once: EvidenceInv says what *)
(* each of them tells of the provider from the moment it is sent.          *)
(***************************************************************************)
EXTENDS LiveCanary, SequenceTheorems, TLAPS

Modes == {"start", "refused", "cost_gate", "no_key", "ready", "waiting", "failed", "done"}

Contents ==
    SeedContents
        \cup {TextOnly(t) : t \in {"CACHE_OK", "RESUME_OK", "BINDING_DROP_OK", "else"}}

AnswerSet ==
    [model : {"expected", "unexpected"}, usage_valid : BOOLEAN, usage : Usages,
     transformations : {"clear", "binding_drop", "unknown"},
     stop : {"tool_use", "end_turn", "unknown"}, content : Contents]

\* What Bytes and UpperBound need of a request.
Priced(request) ==
    /\ request.prefix \in {"stable", "mutated"}
    /\ Len(request.messages) \in Nat
    /\ request.max_tokens \in Nat

CanaryTypes ==
    /\ mode \in Modes
    /\ budget \in Int /\ limit \in Int
    /\ observed \in Nat /\ billed \in Nat
    /\ answers \in Seq(AnswerSet)
    /\ provider \in [binding : Bindings, caches : BOOLEAN]
    /\ reply = NoReply \/ reply \in [kind : {"answer"}, answer : AnswerSet]
    /\ Priced(pending)

\* Nothing is at the provider before the first request and between two.
Alternates ==
    /\ mode = "start" => billed = 0 /\ observed = 0
    /\ mode \notin {"waiting", "failed"} => pending = NoRequest /\ reply = NoReply
    /\ mode \in {"ready", "waiting"} => limit \in Nat
    /\ reply # NoReply => pending = NoRequest

\* The client knows of every charge but that of the answer it has not read.
KnowsTheBill ==
    /\ mode = "ready" => observed = billed
    /\ mode = "waiting" /\ reply = NoReply => observed = billed
    /\ mode = "waiting" /\ reply # NoReply /\ reply.answer.usage_valid
          => observed + Cost(reply.answer.usage) = billed

\* What is at the provider is paid for.
Covered == pending # NoRequest => billed + UpperBound(pending) <= budget

CanaryInv == CanaryTypes /\ Alternates /\ KnowsTheBill /\ Covered /\ SpendStaysInBudget
-----------------------------------------------------------------------------
(* Prices *)

\* More units at a rate, or a unit at a higher rate, do not cost less.
LEMMA TimesMonotone ==
    ASSUME NEW a \in Nat, NEW b \in Nat, NEW c \in Nat, NEW d \in Nat, a <= b, c <= d
    PROVE  a * c \in Nat /\ a * c <= b * d
<1>1. a * c \in Nat /\ b * d \in Nat /\ a * d \in Nat
  BY SMT
<1>2. a * c <= a * d
  BY SMT
<1>3. a * d <= b * d
  BY SMT
<1>4. QED
  BY <1>1, <1>2, <1>3

LEMMA CostIsNat ==
    ASSUME NEW usage \in Counts
    PROVE  Cost(usage) \in Nat
<1>1. usage.input \in Nat /\ usage.written \in Nat /\ usage.read \in Nat /\ usage.output \in Nat
  BY DEF Counts
<1>2. /\ usage.input * InputRate \in Nat /\ usage.written * CacheWriteRate \in Nat
      /\ usage.read * CacheReadRate \in Nat /\ usage.output * OutputRate \in Nat
  BY <1>1, TimesMonotone, RatesAssumption
<1>3. QED
  BY <1>2 DEF Cost

LEMMA BytesIsNat ==
    ASSUME NEW request, Priced(request)
    PROVE  Bytes(request) \in Nat
<1>1. Size[request.prefix] \in Nat /\ Size["message"] \in Nat
  BY CanaryAssumption DEF Priced
<1>2. Size["message"] * Len(request.messages) \in Nat
  BY <1>1, TimesMonotone DEF Priced
<1>3. QED
  BY <1>1, <1>2 DEF Bytes

\* No plausible usage costs more than what was set aside for the request.
LEMMA UpperBoundBounds ==
    ASSUME NEW request, Priced(request), NEW usage \in Counts, Plausible(request, usage)
    PROVE  UpperBound(request) \in Nat /\ Cost(usage) <= UpperBound(request)
<1> DEFINE bytes == Bytes(request)
<1>1. usage.input \in Nat /\ usage.written \in Nat /\ usage.read \in Nat /\ usage.output \in Nat
  BY DEF Counts
<1>2. bytes \in Nat /\ request.max_tokens \in Nat
  BY BytesIsNat DEF Priced
<1>3. usage.input + usage.written + usage.read <= bytes /\ usage.output <= request.max_tokens
  BY DEF Plausible
<1>4. /\ usage.input * InputRate <= usage.input * CacheWriteRate
      /\ usage.read * CacheReadRate <= usage.read * CacheWriteRate
      /\ usage.input * InputRate \in Nat /\ usage.read * CacheReadRate \in Nat
      /\ usage.input * CacheWriteRate \in Nat /\ usage.read * CacheWriteRate \in Nat
      /\ usage.written * CacheWriteRate \in Nat
  BY <1>1, TimesMonotone, RatesAssumption
<1>5. /\ usage.output * OutputRate <= request.max_tokens * OutputRate
      /\ usage.output * OutputRate \in Nat /\ request.max_tokens * OutputRate \in Nat
  BY <1>1, <1>2, <1>3, TimesMonotone, RatesAssumption
<1>6. /\ (usage.input + usage.written + usage.read) * CacheWriteRate <= bytes * CacheWriteRate
      /\ bytes * CacheWriteRate \in Nat
  <2>1. usage.input + usage.written + usage.read \in Nat /\ CacheWriteRate \in Nat
    BY <1>1, RatesAssumption
  <2>2. QED
    BY <2>1, <1>2, <1>3, TimesMonotone
<1>7. (usage.input + usage.written + usage.read) * CacheWriteRate
        = usage.input * CacheWriteRate + usage.written * CacheWriteRate
            + usage.read * CacheWriteRate
  <2>1. CacheWriteRate \in Nat
    BY RatesAssumption
  <2>2. QED
    BY <1>1, <2>1, SMT
<1>8. QED
  BY <1>4, <1>5, <1>6, <1>7 DEF Cost, UpperBound
-----------------------------------------------------------------------------
(* Requests and answers *)

\* The four requests are priced: none has more than three messages.
LEMMA RequestsArePriced ==
    ASSUME limit \in Nat, NEW phase \in 1 .. 4
    PROVE  Priced(Request(phase))
<1>1. Priced(SeedRequest)
  BY DEF Priced, SeedRequest
<1>2. ASSUME NEW content PROVE Priced(ResumeRequest(SeedRequest, content))
  BY DEF Priced, SeedRequest, ResumeRequest
<1>3. ASSUME NEW content
      PROVE Priced(PrefixMismatchProbe(ResumeRequest(SeedRequest, content)))
  BY DEF Priced, SeedRequest, ResumeRequest, PrefixMismatchProbe
<1>4. Priced(CacheProbe(SeedRequest))
  BY DEF Priced, SeedRequest, CacheProbe
<1>5. CASE phase = 1
  BY <1>1, <1>5 DEF Request
<1>6. CASE phase = 2
  BY <1>2, <1>6 DEF Request
<1>7. CASE phase = 3
  BY <1>4, <1>7 DEF Request
<1>8. CASE phase = 4
  BY <1>3, <1>8 DEF Request
<1>9. QED
  BY <1>5, <1>6, <1>7, <1>8

\* Whatever the provider is and however it errs, an answer is one of AnswerSet.
LEMMA AnswersAreTyped ==
    ASSUME NEW request, NEW usage \in Usages, NEW content \in SeedContents, NEW flaw \in Flaws,
           provider \in [binding : Bindings, caches : BOOLEAN]
    PROVE  Flawed(Answer(request, usage, content), flaw) \in AnswerSet
<1>1. Transforms(request) \in {"clear", "binding_drop"}
  <2>1. provider.binding \in Bindings
    OBVIOUS
  <2>2. QED
    BY <2>1 DEF Transforms, Bindings
<1>2. Says(request, content) \in Contents
  BY DEF Says, Contents
<1>3. TextOnly("else") \in Contents
  BY DEF Contents
<1>4. Answer(request, usage, content) \in AnswerSet
  BY <1>1, <1>2 DEF Answer, AnswerSet
<1>5. ASSUME NEW answer \in AnswerSet PROVE Flawed(answer, flaw) \in AnswerSet
  BY <1>3 DEF Flawed, Flaws, AnswerSet
<1>6. QED
  BY <1>4, <1>5
-----------------------------------------------------------------------------
(* The invariant *)

LEMMA CanaryStart == CanaryInit => CanaryInv
<1> SUFFICES ASSUME CanaryInit PROVE CanaryInv
  OBVIOUS
<1>1. answers \in Seq(AnswerSet)
  BY DEF CanaryInit
<1>2. Priced(NoRequest)
  BY DEF Priced, NoRequest
<1>3. QED
  BY <1>1, <1>2 DEF CanaryInit, CanaryInv, CanaryTypes, Alternates, KnowsTheBill, Covered,
                    SpendStaysInBudget, Modes

LEMMA MainKeeps ==
    ASSUME CanaryInv, NEW spend \in Budgets, NEW tokens \in TokenLimits,
           NEW execute \in BOOLEAN, NEW key \in BOOLEAN, Main(spend, tokens, execute, key)
    PROVE  CanaryInv'
<1>1. spend \in Int /\ tokens \in Int /\ MaxTokens \in Nat
  BY CanaryAssumption
<1>2. mode' = "ready" => tokens \in Nat
  BY <1>1 DEF Main, ValidBudget
<1>3. mode' \in Modes \ {"start", "waiting", "done", "failed"}
  BY DEF Main, Modes
<1>4. CanaryTypes'
  BY <1>1, <1>3 DEF Main, CanaryInv, CanaryTypes, Priced
<1>5. Alternates'
  BY <1>2, <1>3 DEF Main, CanaryInv, Alternates, Modes
<1>6. QED
  BY <1>3, <1>4, <1>5 DEF Main, CanaryInv, Alternates, KnowsTheBill, Covered, SpendStaysInBudget,
                          Modes, Cost

LEMMA SendKeeps ==
    ASSUME CanaryInv, Send
    PROVE  CanaryInv'
<1> DEFINE request == Request(Len(answers) + 1)
<1>1. mode = "ready" /\ pending = NoRequest /\ reply = NoReply /\ observed = billed /\ limit \in Nat
  BY DEF Send, CanaryInv, Alternates, KnowsTheBill
<1>2. Priced(request)
  <2>1. Len(answers) \in Nat
    BY LenProperties DEF CanaryInv, CanaryTypes
  <2>2. Len(answers) < 4
    BY DEF Send, Phases
  <2>3. Len(answers) + 1 \in 1 .. 4
    BY <2>1, <2>2
  <2>4. QED
    BY <1>1, <2>3, RequestsArePriced
<1>3. CASE calls < MaxRequests /\ WithinBudget(request)
  <2>1. pending' = request /\ mode' = "waiting"
    BY <1>3 DEF Send
  <2>2. CanaryTypes'
    BY <1>2, <2>1 DEF Send, CanaryInv, CanaryTypes, Priced, Modes
  <2>3. Alternates'
    BY <1>1, <2>1 DEF Send, Alternates
  <2>4. KnowsTheBill'
    BY <1>1, <2>1 DEF Send, KnowsTheBill
  <2>5. Covered'
    BY <1>1, <1>3, <2>1 DEF Send, Covered, WithinBudget, UpperBound, Bytes
  <2>6. SpendStaysInBudget'
    BY DEF Send, CanaryInv, SpendStaysInBudget
  <2>7. QED
    BY <2>2, <2>3, <2>4, <2>5, <2>6 DEF CanaryInv
<1>4. CASE ~(calls < MaxRequests /\ WithinBudget(request))
  BY <1>1, <1>4 DEF Send, CanaryInv, CanaryTypes, Priced, Modes, Alternates, KnowsTheBill, Covered,
                    SpendStaysInBudget
<1>5. QED
  BY <1>3, <1>4

LEMMA FailKeeps ==
    ASSUME CanaryInv, Fail
    PROVE  CanaryInv'
<1>1. CanaryTypes' /\ Alternates'
  BY DEF Fail, CanaryInv, CanaryTypes, Priced, Modes, Alternates
<1>2. KnowsTheBill' /\ SpendStaysInBudget'
  BY DEF Fail, CanaryInv, KnowsTheBill, SpendStaysInBudget
<1>3. Covered'
  BY DEF Fail, CanaryInv, Covered, UpperBound, Bytes
<1>4. QED
  BY <1>1, <1>2, <1>3 DEF CanaryInv

LEMMA ReadReplyKeeps ==
    ASSUME CanaryInv, ReadReply
    PROVE  CanaryInv'
<1>1. /\ mode = "waiting" /\ reply # NoReply /\ pending = NoRequest /\ limit \in Nat
      /\ reply.answer \in AnswerSet
  BY DEF ReadReply, NoReply, CanaryInv, CanaryTypes, Alternates
<1>2. reply' = NoReply /\ pending' = NoRequest /\ mode' \in {"ready", "failed"}
  BY <1>1 DEF ReadReply
<1>3. reply.answer.usage \in Counts
  BY <1>1, CanaryAssumption DEF AnswerSet
<1>4. Cost(reply.answer.usage) \in Nat
  BY <1>3, CostIsNat
<1>5. observed' \in Nat /\ answers' \in Seq(AnswerSet)
  <2>1. observed \in Nat /\ answers \in Seq(AnswerSet)
    BY DEF CanaryInv, CanaryTypes
  <2>2. observed' \in {observed, observed + Cost(reply.answer.usage)}
    BY DEF ReadReply
  <2>3. answers' \in {answers, Append(answers, reply.answer)}
    BY DEF ReadReply
  <2>4. Append(answers, reply.answer) \in Seq(AnswerSet)
    BY <1>1, <2>1, AppendProperties, Zenon
  <2>5. observed' \in Nat
    BY <1>4, <2>1, <2>2
  <2>6. answers' \in Seq(AnswerSet)
    BY <2>1, <2>3, <2>4
  <2>7. QED
    BY <2>5, <2>6
<1>6. CanaryTypes'
  BY <1>2, <1>5 DEF ReadReply, CanaryInv, CanaryTypes, Priced, Modes
<1>7. Alternates'
  BY <1>1, <1>2 DEF ReadReply, Alternates
<1>8. KnowsTheBill'
  BY <1>1, <1>2 DEF ReadReply, CanaryInv, KnowsTheBill
<1>9. Covered' /\ SpendStaysInBudget'
  BY <1>1, <1>2 DEF ReadReply, CanaryInv, Covered, SpendStaysInBudget
<1>10. QED
  BY <1>6, <1>7, <1>8, <1>9 DEF CanaryInv

LEMMA ConcludeKeeps ==
    ASSUME CanaryInv, Conclude
    PROVE  CanaryInv'
<1>1. CanaryTypes' /\ Alternates'
  BY DEF Conclude, CanaryInv, CanaryTypes, Priced, Modes, Alternates
<1>2. KnowsTheBill' /\ Covered' /\ SpendStaysInBudget'
  BY DEF Conclude, CanaryInv, Alternates, KnowsTheBill, Covered, SpendStaysInBudget
<1>3. QED
  BY <1>1, <1>2 DEF CanaryInv

LEMMA ServeKeeps ==
    ASSUME CanaryInv, NEW usage \in Usages, NEW content \in SeedContents, NEW flaw \in Flaws,
           Serve(usage, content, flaw)
    PROVE  CanaryInv'
<1> DEFINE answer == Flawed(Answer(pending, usage, content), flaw)
<1>1. pending # NoRequest /\ reply = NoReply /\ mode \in {"waiting", "failed"}
  BY DEF Serve, CanaryInv, Alternates
<1>2. usage \in Counts /\ Priced(pending) /\ Plausible(pending, usage)
  BY CanaryAssumption DEF Serve, CanaryInv, CanaryTypes
<1>3. UpperBound(pending) \in Nat /\ Cost(usage) \in Nat /\ Cost(usage) <= UpperBound(pending)
  BY <1>2, UpperBoundBounds, CostIsNat
<1>4. billed' = billed + Cost(usage) /\ billed' \in Nat /\ billed' <= budget
  BY <1>1, <1>3 DEF Serve, CanaryInv, CanaryTypes, Covered
<1>5. answer \in AnswerSet
  BY AnswersAreTyped DEF CanaryInv, CanaryTypes
<1>6. answer.usage = usage
  BY DEF Flawed, Flaws, Answer
<1>7. reply' = [kind |-> "answer", answer |-> answer] /\ reply' # NoReply /\ pending' = NoRequest
  BY DEF Serve, NoReply
<1>8. CanaryTypes'
  <2>1. Priced(NoRequest)
    BY DEF Priced, NoRequest
  <2>2. QED
    BY <1>4, <1>5, <1>7, <2>1 DEF Serve, client, CanaryInv, CanaryTypes, Priced
<1>9. Alternates'
  BY <1>1, <1>7 DEF Serve, client, CanaryInv, Alternates
<1>10. KnowsTheBill'
  <2>1. reply'.answer = answer
    BY <1>7
  <2>2. Cost(reply'.answer.usage) = Cost(usage)
    BY <1>6, <2>1
  <2>3. QED
    BY <1>1, <1>4, <1>7, <2>2 DEF Serve, client, CanaryInv, KnowsTheBill
<1>11. Covered' /\ SpendStaysInBudget'
  BY <1>4, <1>7 DEF Serve, client, Covered, SpendStaysInBudget
<1>12. QED
  BY <1>8, <1>9, <1>10, <1>11 DEF CanaryInv

LEMMA CanaryStep == CanaryInv /\ [CanaryNext]_canaryVars => CanaryInv'
<1> SUFFICES ASSUME CanaryInv, [CanaryNext]_canaryVars PROVE CanaryInv'
  OBVIOUS
<1>1. ASSUME NEW spend \in Budgets, NEW tokens \in TokenLimits,
             NEW execute \in BOOLEAN, NEW key \in BOOLEAN, Main(spend, tokens, execute, key)
      PROVE  CanaryInv'
  BY <1>1, MainKeeps
<1>2. CASE Send
  BY <1>2, SendKeeps
<1>3. CASE Fail
  BY <1>3, FailKeeps
<1>4. CASE ReadReply
  BY <1>4, ReadReplyKeeps
<1>5. CASE Conclude
  BY <1>5, ConcludeKeeps
<1>6. ASSUME NEW usage \in Usages, NEW content \in SeedContents, NEW flaw \in Flaws,
             Serve(usage, content, flaw)
      PROVE  CanaryInv'
  BY <1>6, ServeKeeps
<1>7. CASE UNCHANGED canaryVars
  <2>1. CanaryTypes' /\ Alternates'
    BY <1>7 DEF canaryVars, client, CanaryInv, CanaryTypes, Priced, Alternates
  <2>2. KnowsTheBill' /\ SpendStaysInBudget'
    BY <1>7 DEF canaryVars, client, CanaryInv, KnowsTheBill, SpendStaysInBudget
  <2>3. Covered'
    BY <1>7 DEF canaryVars, client, CanaryInv, Covered, UpperBound, Bytes
  <2>4. QED
    BY <2>1, <2>2, <2>3 DEF CanaryInv
<1>8. QED
  BY <1>1, <1>2, <1>3, <1>4, <1>5, <1>6, <1>7 DEF CanaryNext

\* Every variable that is about money, and the inductive invariant around it.
THEOREM CanaryInvariant == CanarySpec => []CanaryInv
<1>1. QED
  BY CanaryStart, CanaryStep, PTL DEF CanarySpec

\* BudgetedTransport: what the provider charges never passes --max-spend-usd,
\* though a lost or late answer, or one without counters, leaves the client
\* without its cost.
THEOREM TheBudgetHolds == CanarySpec => []SpendStaysInBudget
<1>1. CanaryInv => SpendStaysInBudget
  BY DEF CanaryInv
<1>2. QED
  BY <1>1, CanaryInvariant, PTL
-----------------------------------------------------------------------------
(* What the answers say of the provider *)

\* Thinking is only ever issued under the prefix of the seed.
IssuedUnderStable == \A pair \in issued : pair[1] = "stable"

\* What an answer to the request of a phase says of the provider.  The seed
\* has filled the cache by the time of the resume; a provider that always drops
\* spoils the resume, and one that binds drops what the mismatch probe sends.
Tells(phase, answer) ==
    /\ answer.usage.read > 0 => provider.caches
    /\ phase = 2 /\ provider.caches => answer.usage.read > 0
    /\ phase = 2 /\ answer.transformations = "clear" => provider.binding # "always_drops"
    /\ phase = 4 /\ answer.transformations = "clear" => provider.binding # "binds"
    /\ phase = 4 /\ answer.transformations = "binding_drop" => provider.binding # "never_drops"

Running == mode \in {"ready", "waiting"}

\* The answers kept passed their phase, and tell what they should.
AnswersTell ==
    /\ mode = "start" => answers = <<>>
    /\ Running =>
        /\ Len(answers) <= 4
        /\ \A i \in 1 .. Len(answers) : Acceptable(i, answers[i]) /\ Tells(i, answers[i])

\* The request at the provider is the one of the next phase, and its answer
\* tells what the answer to that phase should.
NextTells ==
    /\ mode = "waiting" => Len(answers) < 4
    /\ mode = "waiting" /\ reply = NoReply => pending = Request(Len(answers) + 1)
    /\ mode = "waiting" /\ reply # NoReply => Tells(Len(answers) + 1, reply.answer)
    /\ Running /\ (Len(answers) > 0 \/ reply # NoReply) => "stable" \in cachedPrefixes

CostOf(i) == IF i <= Len(answers) THEN Cost(answers[i].usage) ELSE 0
KnowsEveryCost == Running => observed = CostOf(1) + CostOf(2) + CostOf(3) + CostOf(4)

EvidenceInv ==
    /\ CanaryInv
    /\ IssuedUnderStable /\ AnswersTell /\ NextTells /\ KnowsEveryCost
    /\ CandidateIsEarned /\ ReportBacksVerdict
-----------------------------------------------------------------------------
(* The provider's answer, and the verdict over four of them *)

\* The resume and the mismatch probe have three messages, the others one; only
\* the mismatch probe changes the prefix.
LEMMA Lengths ==
    ASSUME NEW phase \in 1 .. 4
    PROVE  /\ phase \in {1, 3} => Len(Request(phase).messages) = 1
           /\ phase \in {2, 4} => Len(Request(phase).messages) = 3
           /\ phase \in 1 .. 3 => Request(phase).prefix = "stable"
           /\ phase = 4 => Request(phase).prefix = "mutated"
<1>1. SeedRequest.prefix = "stable" /\ Len(SeedRequest.messages) = 1
  BY DEF SeedRequest
<1>2. ASSUME NEW content
      PROVE  /\ ResumeRequest(SeedRequest, content).prefix = "stable"
             /\ Len(ResumeRequest(SeedRequest, content).messages) = 3
  BY DEF SeedRequest, ResumeRequest
<1>3. ASSUME NEW content
      PROVE  /\ PrefixMismatchProbe(ResumeRequest(SeedRequest, content)).prefix = "mutated"
             /\ Len(PrefixMismatchProbe(ResumeRequest(SeedRequest, content)).messages) = 3
  BY DEF SeedRequest, ResumeRequest, PrefixMismatchProbe
<1>4. CacheProbe(SeedRequest).prefix = "stable" /\ Len(CacheProbe(SeedRequest).messages) = 1
  BY DEF SeedRequest, CacheProbe
<1>5. CASE phase = 1
  BY <1>1, <1>5 DEF Request
<1>6. CASE phase = 2
  BY <1>2, <1>6 DEF Request
<1>7. CASE phase = 3
  BY <1>4, <1>7 DEF Request
<1>8. CASE phase = 4
  BY <1>3, <1>8 DEF Request
<1>9. QED
  BY <1>5, <1>6, <1>7, <1>8

\* However an answer errs, it tells no more of the provider than is true.
LEMMA AnswersTellTheTruth ==
    ASSUME NEW phase \in 1 .. 4, NEW usage \in Usages, NEW content \in SeedContents,
           NEW flaw \in Flaws, provider \in [binding : Bindings, caches : BOOLEAN],
           IssuedUnderStable, phase > 1 => "stable" \in cachedPrefixes,
           Plausible(Request(phase), usage)
    PROVE  Tells(phase, Flawed(Answer(Request(phase), usage, content), flaw))
<1> DEFINE request == Request(phase)
           answer  == Flawed(Answer(request, usage, content), flaw)
<1>1. answer.usage = usage
  BY DEF Flawed, Flaws, Answer
<1>2. answer.transformations \in {Transforms(request), "unknown"}
  BY DEF Flawed, Flaws, Answer
<1>3. /\ phase \in {2, 4} => Len(request.messages) = 3
      /\ phase = 2 => request.prefix = "stable"
      /\ phase = 4 => request.prefix = "mutated"
  BY Lengths
<1>4. provider.binding \in Bindings
  OBVIOUS
<1>5. usage.read > 0 <=> (provider.caches /\ request.prefix \in cachedPrefixes)
  BY DEF Plausible
<1>6. phase = 2 /\ Transforms(request) = "clear" => provider.binding # "always_drops"
  <2> HIDE DEF request
  <2>1. ASSUME phase = 2, provider.binding = "always_drops"
        PROVE  Transforms(request) = "binding_drop"
    <3>1. Len(request.messages) = 3
      BY <1>3, <2>1
    <3>2. QED
      BY <2>1, <3>1 DEF Transforms
  <2>2. QED
    BY <2>1
<1>7. phase = 4 => <<request.prefix, request.messages[2]>> \notin issued
  <2>1. ASSUME phase = 4 PROVE <<request.prefix, request.messages[2]>>[1] = "mutated"
    BY <1>3, <2>1
  <2>2. QED
    BY <2>1 DEF IssuedUnderStable
<1>8. phase = 4 /\ Transforms(request) = "clear" => provider.binding # "binds"
  <2> HIDE DEF request
  <2>1. QED
    BY <1>3, <1>7 DEF Transforms
<1>9. phase = 4 /\ Transforms(request) = "binding_drop" => provider.binding # "never_drops"
  <2> HIDE DEF request
  <2>1. QED
    BY <1>3 DEF Transforms
<1>10. Tells(phase, answer)
  <2> HIDE DEF answer, request
  <2>1. QED
    BY <1>1, <1>2, <1>3, <1>5, <1>6, <1>8, <1>9 DEF Tells
<1>11. QED
  BY <1>10

\* Four answers that passed say whether the provider binds and caches, and the
\* verdict can be read from what is printed of them.
LEMMA TheVerdictIsTrue ==
    ASSUME CanaryTypes, Len(answers) = 4,
           \A i \in 1 .. 4 : Acceptable(i, answers[i]) /\ Tells(i, answers[i])
    PROVE  /\ LiveComplete <=> provider.binding = "binds" /\ provider.caches
           /\ LiveComplete <=>
                /\ \A i \in 1 .. 3 : answers[i].transformations = "clear"
                /\ \E i \in 1 .. 3 : answers[i].usage.read > 0
                /\ answers[4].transformations = "binding_drop"
<1>2. \A i \in 1 .. 3 : answers[i].transformations = "clear"
  <2>1. Acceptable(1, answers[1]) /\ Acceptable(2, answers[2]) /\ Acceptable(3, answers[3])
    OBVIOUS
  <2>2. QED
    BY <2>1 DEF Acceptable
<1>3. Acceptable(4, answers[4])
  OBVIOUS
<1>4. BindingProbe(answers[4]) # "refused"
  BY <1>3 DEF Acceptable
<1>5. /\ answers[4].transformations \in {"clear", "binding_drop"}
      /\ BindingProbe(answers[4]) = "observed" <=> answers[4].transformations = "binding_drop"
  BY <1>4 DEF BindingProbe
<1>6. CacheHit(SubSeq(answers, 1, 3)) <=> \E i \in 1 .. 3 : answers[i].usage.read > 0
  <2>1. answers \in Seq(AnswerSet)
    BY DEF CanaryTypes
  <2>2. /\ DOMAIN SubSeq(answers, 1, 3) = 1 .. 3
        /\ \A i \in 1 .. 3 : SubSeq(answers, 1, 3)[i] = answers[i]
    BY <2>1
  <2>3. QED
    BY <2>2 DEF CacheHit
<1>7. /\ Request(2).messages[2] = answers[1].content
      /\ Request(2).messages[3][1].says = answers[1].content[Len(answers[1].content)].says
  <2>1. ASSUME NEW content
        PROVE  /\ ResumeRequest(SeedRequest, content).messages[2] = content
               /\ ResumeRequest(SeedRequest, content).messages[3][1].says = content[Len(content)].says
    <3>1. ResumeRequest(SeedRequest, content).messages
            = <<SeedRequest.messages[1], content,
                <<NativePart("tool_result", content[Len(content)].says),
                  NativePart("text", "continue")>> >>
      BY DEF ResumeRequest, SeedRequest
    <3>2. NativePart("tool_result", content[Len(content)].says).says = content[Len(content)].says
      BY DEF NativePart
    <3>3. QED
      BY <3>1, <3>2
  <2>2. Request(2) = ResumeRequest(SeedRequest, answers[1].content)
    BY DEF Request
  <2>3. QED
    BY <2>1, <2>2
<1>8. LiveComplete <=>
        (\E i \in 1 .. 3 : answers[i].usage.read > 0) /\ answers[4].transformations = "binding_drop"
  BY <1>2, <1>5, <1>6, <1>7 DEF LiveComplete
<1>9. (\E i \in 1 .. 3 : answers[i].usage.read > 0) <=> provider.caches
  <2>1. Tells(2, answers[2]) /\ \A i \in 1 .. 3 : Tells(i, answers[i])
    OBVIOUS
  <2>2. provider.caches \in BOOLEAN
    BY DEF CanaryTypes
  <2>3. QED
    BY <2>1, <2>2 DEF Tells
<1>10. answers[4].transformations = "binding_drop" <=> provider.binding = "binds"
  <2>1. Tells(2, answers[2]) /\ Tells(4, answers[4])
    OBVIOUS
  <2>2. provider.binding \in Bindings
    BY DEF CanaryTypes
  <2>3. QED
    BY <1>2, <1>5, <2>1, <2>2 DEF Tells, Bindings
<1>11. QED
  BY <1>2, <1>8, <1>9, <1>10
-----------------------------------------------------------------------------
(* The evidence is gathered step by step *)

LEMMA EvidenceStart == CanaryInit => EvidenceInv
<1> SUFFICES ASSUME CanaryInit PROVE EvidenceInv
  OBVIOUS
<1>1. CanaryInv
  BY CanaryStart
<1>2. QED
  BY <1>1 DEF CanaryInit, EvidenceInv, IssuedUnderStable, AnswersTell, NextTells, KnowsEveryCost,
              Running, CandidateIsEarned, ReportBacksVerdict

\* A step that issues nothing, and after which the run is over without a report.
LEMMA EndingKeepsEvidence ==
    ASSUME EvidenceInv, CanaryInv', UNCHANGED issued,
           mode' \in {"refused", "cost_gate", "no_key", "failed"}
    PROVE  EvidenceInv'
BY DEF EvidenceInv, IssuedUnderStable, AnswersTell, NextTells, KnowsEveryCost, Running,
       CandidateIsEarned, ReportBacksVerdict

LEMMA MainKeepsEvidence ==
    ASSUME EvidenceInv, CanaryInv', NEW spend \in Budgets, NEW tokens \in TokenLimits,
           NEW execute \in BOOLEAN, NEW key \in BOOLEAN, Main(spend, tokens, execute, key)
    PROVE  EvidenceInv'
<1>1. mode = "start" /\ mode' \in {"refused", "cost_gate", "no_key", "ready"}
  BY DEF Main
<1>2. CASE mode' # "ready"
  BY <1>1, <1>2, EndingKeepsEvidence DEF Main
<1>3. CASE mode' = "ready"
  <2>1. answers' = <<>> /\ observed' = 0 /\ reply' = NoReply
    BY <1>1 DEF Main, EvidenceInv, AnswersTell, CanaryInv, Alternates
  <2>2. Len(answers') = 0
    BY <2>1
  <2>3. IssuedUnderStable'
    BY DEF Main, EvidenceInv, IssuedUnderStable
  <2>4. AnswersTell' /\ NextTells'
    BY <1>3, <2>1, <2>2 DEF AnswersTell, NextTells
  <2>5. KnowsEveryCost'
    BY <2>1, <2>2 DEF KnowsEveryCost, CostOf
  <2>6. QED
    BY <1>3, <2>3, <2>4, <2>5 DEF EvidenceInv, CandidateIsEarned, ReportBacksVerdict
<1>4. QED
  BY <1>2, <1>3

LEMMA SendKeepsEvidence ==
    ASSUME EvidenceInv, CanaryInv', Send
    PROVE  EvidenceInv'
<1>1. mode = "ready" /\ Len(answers) < 4 /\ reply = NoReply
  BY DEF Send, Phases, EvidenceInv, CanaryInv, Alternates
<1>2. CASE mode' = "failed"
  BY <1>2, EndingKeepsEvidence DEF Send
<1>3. CASE mode' = "waiting"
  <2>1. pending' = Request(Len(answers) + 1)
    BY <1>3 DEF Send
  <2>2. UNCHANGED <<budget, limit, offline, observed, answers, report, reply, provider, issued,
                    cachedPrefixes, billed>>
    BY DEF Send
  <2>3. Request(Len(answers) + 1)' = Request(Len(answers) + 1)
    BY <2>2 DEF Request, SeedRequest
  <2>4. IssuedUnderStable' /\ AnswersTell'
    BY <1>1, <1>3, <2>2 DEF EvidenceInv, IssuedUnderStable, AnswersTell, Running, Tells
  <2>5. NextTells'
    BY <1>1, <1>3, <2>1, <2>2, <2>3 DEF EvidenceInv, NextTells, Running
  <2>6. KnowsEveryCost'
    BY <1>1, <1>3, <2>2 DEF EvidenceInv, KnowsEveryCost, CostOf, Running
  <2>7. QED
    BY <1>3, <2>4, <2>5, <2>6 DEF EvidenceInv, CandidateIsEarned, ReportBacksVerdict
<1>4. QED
  BY <1>2, <1>3 DEF Send

\* An answer that is read becomes the last of those kept, if it passes.
LEMMA ReadReplyKeepsEvidence ==
    ASSUME EvidenceInv, CanaryInv', ReadReply
    PROVE  EvidenceInv'
<1> DEFINE n == Len(answers) + 1
<1>1. mode = "waiting" /\ Len(answers) < 4 /\ Len(answers) \in Nat /\ reply # NoReply
  BY LenProperties DEF ReadReply, NoReply, EvidenceInv, NextTells, CanaryInv, CanaryTypes
<1>2. CASE mode' = "failed"
  BY <1>2, EndingKeepsEvidence DEF ReadReply
<1>3. CASE mode' = "ready"
  <2>1. /\ observed' = observed + Cost(reply.answer.usage)
        /\ Acceptable(n, reply.answer)
        /\ answers' = Append(answers, reply.answer)
        /\ reply' = NoReply
        /\ UNCHANGED <<provider, issued, cachedPrefixes>>
    BY <1>3 DEF ReadReply
  <2>2. Tells(n, reply.answer) /\ "stable" \in cachedPrefixes
    BY <1>1 DEF EvidenceInv, NextTells, Running
  <2>3. answers \in Seq(AnswerSet) /\ reply.answer \in AnswerSet
    BY <1>1 DEF EvidenceInv, CanaryInv, CanaryTypes
  <2>4. /\ Len(answers') = n /\ n \in 1 .. 4
        /\ answers'[n] = reply.answer
        /\ \A i \in 1 .. Len(answers) : answers'[i] = answers[i]
    BY <1>1, <2>1, <2>3, AppendProperties
  <2>5. \A i \in 1 .. n : i = n \/ i \in 1 .. Len(answers)
    BY <1>1
  <2>6. \A i \in 1 .. n : Acceptable(i, answers'[i]) /\ Tells(i, answers'[i])
    BY <1>1, <2>1, <2>2, <2>4, <2>5 DEF EvidenceInv, AnswersTell, Running
  <2>7. AnswersTell'
    <3>1. \A i \in 1 .. n : Tells(i, answers[i])'
      BY <2>1, <2>6 DEF Tells
    <3>2. QED
      BY <1>3, <2>4, <2>6, <3>1 DEF AnswersTell
  <2>8. IssuedUnderStable' /\ NextTells'
    BY <1>3, <2>1, <2>2 DEF EvidenceInv, IssuedUnderStable, NextTells
  <2>9. KnowsEveryCost'
    <3>1. observed = CostOf(1) + CostOf(2) + CostOf(3) + CostOf(4)
      BY <1>1 DEF EvidenceInv, KnowsEveryCost, Running
    <3>2. \A i \in 1 .. 4 : i = n => CostOf(i)' = Cost(reply.answer.usage) /\ CostOf(i) = 0
      BY <1>1, <2>4 DEF CostOf, Cost
    <3>3. \A i \in 1 .. 4 : i # n => CostOf(i)' = CostOf(i)
      BY <1>1, <2>4, <2>5 DEF CostOf, Cost
    <3>4. \A i \in 1 .. 4 : CostOf(i) \in Nat
      <4>1. \A i \in 1 .. Len(answers) : answers[i].usage \in Counts
        <5>1. \A i \in 1 .. Len(answers) : answers[i] \in AnswerSet
          BY <2>3
        <5>2. QED
          BY <5>1, CanaryAssumption DEF AnswerSet
      <4>2. \A i \in 1 .. Len(answers) : Cost(answers[i].usage) \in Nat
        BY <4>1, CostIsNat
      <4>3. QED
        BY <1>1, <4>2 DEF CostOf
    <3>5. Cost(reply.answer.usage) \in Nat
      BY <2>3, CanaryAssumption, CostIsNat DEF AnswerSet
    <3>6. n = 1 \/ n = 2 \/ n = 3 \/ n = 4
      BY <2>4
    <3>7. observed' = CostOf(1)' + CostOf(2)' + CostOf(3)' + CostOf(4)'
      <4>1. CostOf(1) \in Nat /\ CostOf(2) \in Nat /\ CostOf(3) \in Nat /\ CostOf(4) \in Nat
        BY <3>4
      <4> DEFINE earns(i) == CostOf(i)' = Cost(reply.answer.usage) /\ CostOf(i) = 0
                 stays(i) == CostOf(i)' = CostOf(i)
      <4>2. \/ earns(1) /\ stays(2) /\ stays(3) /\ stays(4)
            \/ stays(1) /\ earns(2) /\ stays(3) /\ stays(4)
            \/ stays(1) /\ stays(2) /\ earns(3) /\ stays(4)
            \/ stays(1) /\ stays(2) /\ stays(3) /\ earns(4)
        <5> HIDE DEF n
        <5>1. QED
          BY <3>2, <3>3, <3>6
      <4>3. CostOf(1)' + CostOf(2)' + CostOf(3)' + CostOf(4)'
              = CostOf(1) + CostOf(2) + CostOf(3) + CostOf(4) + Cost(reply.answer.usage)
        BY <3>5, <4>1, <4>2
      <4>4. QED
        BY <2>1, <3>1, <4>3
    <3>8. QED
      BY <3>7 DEF KnowsEveryCost
  <2>10. QED
    BY <1>3, <2>7, <2>8, <2>9 DEF EvidenceInv, CandidateIsEarned, ReportBacksVerdict
<1>4. QED
  BY <1>2, <1>3 DEF ReadReply

\* The four answers are the evidence the report is made of.
LEMMA ConcludeKeepsEvidence ==
    ASSUME EvidenceInv, CanaryInv', Conclude
    PROVE  EvidenceInv'
<1>1. /\ mode = "ready" /\ Len(answers) = 4 /\ mode' = "done"
      /\ UNCHANGED <<offline, provider, issued, billed>>
  BY DEF Conclude, Phases
<1>2. /\ CanaryTypes
      /\ \A i \in 1 .. 4 : Acceptable(i, answers[i]) /\ Tells(i, answers[i])
  BY <1>1 DEF EvidenceInv, CanaryInv, AnswersTell, Running
<1>3. /\ report'.reason = Classify
      /\ report'.cost = Cost(answers[1].usage) + Cost(answers[2].usage)
                          + Cost(answers[3].usage) + Cost(answers[4].usage)
      /\ \A i \in 1 .. 4 : /\ report'.responses[i].transformations = answers[i].transformations
                           /\ report'.responses[i].usage = answers[i].usage
  BY DEF Conclude, Sanitize
<1>4. Classify = "live_canary_candidate" <=> offline /\ LiveComplete
  BY DEF Classify
<1>5. CandidateIsEarned'
  BY <1>1, <1>2, <1>3, <1>4, TheVerdictIsTrue DEF CandidateIsEarned
<1>6. report'.cost = billed'
  <2>1. observed = CostOf(1) + CostOf(2) + CostOf(3) + CostOf(4) /\ observed = billed
    BY <1>1 DEF EvidenceInv, KnowsEveryCost, Running, CanaryInv, KnowsTheBill
  <2>2. QED
    BY <1>1, <1>3, <2>1 DEF CostOf
<1>7. ReportBacksVerdict'
  BY <1>1, <1>2, <1>3, <1>4, <1>6, TheVerdictIsTrue DEF ReportBacksVerdict
<1>8. IssuedUnderStable' /\ AnswersTell' /\ NextTells' /\ KnowsEveryCost'
  BY <1>1 DEF EvidenceInv, IssuedUnderStable, AnswersTell, NextTells, KnowsEveryCost, Running
<1>9. QED
  BY <1>5, <1>7, <1>8 DEF EvidenceInv

\* The provider answers the request of the next phase, or one that was given up.
LEMMA ServeKeepsEvidence ==
    ASSUME EvidenceInv, CanaryInv', NEW usage \in Usages, NEW content \in SeedContents,
           NEW flaw \in Flaws, Serve(usage, content, flaw)
    PROVE  EvidenceInv'
<1> DEFINE n == Len(answers) + 1
<1>1. reply = NoReply /\ mode \in {"waiting", "failed"} /\ UNCHANGED <<client, provider>>
  BY DEF Serve, EvidenceInv, CanaryInv, Alternates
<1>2. IssuedUnderStable'
  <2>1. pending = SeedRequest => pending.prefix = "stable"
    <3>1. SeedRequest.prefix = "stable"
      BY DEF SeedRequest
    <3>2. QED
      BY <3>1
  <2>2. \A pair \in issued' : pair \in issued \/ (pending = SeedRequest /\ pair[1] = pending.prefix)
    BY DEF Serve
  <2>3. QED
    BY <2>1, <2>2 DEF EvidenceInv, IssuedUnderStable
<1>3. AnswersTell' /\ KnowsEveryCost'
  BY <1>1 DEF client, EvidenceInv, AnswersTell, Tells, KnowsEveryCost, CostOf, Running
<1>4. NextTells'
  <2>1. CASE mode = "failed"
    BY <1>1, <2>1 DEF client, NextTells, Running
  <2>2. CASE mode = "waiting"
    <3>1. pending = Request(n) /\ Len(answers) < 4 /\ n \in 1 .. 4
      BY <1>1, <2>2, LenProperties DEF EvidenceInv, NextTells, CanaryInv, CanaryTypes
    <3>2. n > 1 => "stable" \in cachedPrefixes
      BY <2>2, <3>1 DEF EvidenceInv, NextTells, Running
    <3>3. reply'.answer = Flawed(Answer(pending, usage, content), flaw) /\ reply' # NoReply
      BY DEF Serve, NoReply
    <3>4. Tells(n, reply'.answer)
      <4> HIDE DEF n
      <4>1. QED
        BY <3>1, <3>2, <3>3, AnswersTellTheTruth DEF Serve, EvidenceInv, CanaryInv, CanaryTypes
    <3>5. "stable" \in cachedPrefixes'
      <4>1. n = 1 => pending.prefix = "stable"
        BY <3>1, Lengths
      <4>2. QED
        BY <3>1, <3>2, <4>1 DEF Serve
    <3>6. Tells(Len(answers) + 1, reply.answer)'
      BY <1>1, <3>4 DEF client, Tells
    <3>7. QED
      BY <1>1, <2>2, <3>1, <3>3, <3>4, <3>5, <3>6 DEF client, NextTells, Running
  <2>3. QED
    BY <1>1, <2>1, <2>2
<1>5. QED
  BY <1>1, <1>2, <1>3, <1>4 DEF client, EvidenceInv, CandidateIsEarned, ReportBacksVerdict

LEMMA EvidenceStep == EvidenceInv /\ [CanaryNext]_canaryVars => EvidenceInv'
<1> SUFFICES ASSUME EvidenceInv, [CanaryNext]_canaryVars PROVE EvidenceInv'
  OBVIOUS
<1>0. CanaryInv'
  BY CanaryStep DEF EvidenceInv
<1>1. ASSUME NEW spend \in Budgets, NEW tokens \in TokenLimits,
             NEW execute \in BOOLEAN, NEW key \in BOOLEAN, Main(spend, tokens, execute, key)
      PROVE  EvidenceInv'
  BY <1>0, <1>1, MainKeepsEvidence
<1>2. CASE Send
  BY <1>0, <1>2, SendKeepsEvidence
<1>3. CASE Fail
  BY <1>0, <1>3, EndingKeepsEvidence DEF Fail
<1>4. CASE ReadReply
  BY <1>0, <1>4, ReadReplyKeepsEvidence
<1>5. CASE Conclude
  BY <1>0, <1>5, ConcludeKeepsEvidence
<1>6. ASSUME NEW usage \in Usages, NEW content \in SeedContents, NEW flaw \in Flaws,
             Serve(usage, content, flaw)
      PROVE  EvidenceInv'
  BY <1>0, <1>6, ServeKeepsEvidence
<1>7. CASE UNCHANGED canaryVars
  <2>1. IssuedUnderStable' /\ AnswersTell' /\ KnowsEveryCost'
    BY <1>7 DEF canaryVars, client, EvidenceInv, IssuedUnderStable, AnswersTell, Tells,
                KnowsEveryCost, CostOf, Running
  <2>2. NextTells'
    BY <1>7 DEF canaryVars, client, EvidenceInv, NextTells, Tells, Request, SeedRequest, Running
  <2>3. CandidateIsEarned' /\ ReportBacksVerdict'
    BY <1>7 DEF canaryVars, client, EvidenceInv, CandidateIsEarned, ReportBacksVerdict
  <2>4. QED
    BY <1>0, <2>1, <2>2, <2>3 DEF EvidenceInv
<1>8. QED
  BY <1>1, <1>2, <1>3, <1>4, <1>5, <1>6, <1>7 DEF CanaryNext

\* classify_anthropic_preserved_thinking: the run names a candidate exactly when
\* the provider binds thinking to its prefix and caches, for every provider,
\* every flaw of an answer and every count of tokens.
THEOREM TheCandidateIsEarned == CanarySpec => []CandidateIsEarned
<1>1. EvidenceInv => CandidateIsEarned
  BY DEF EvidenceInv
<1>2. QED
  BY <1>1, EvidenceStart, EvidenceStep, PTL DEF CanarySpec

\* What is printed backs the verdict, and the printed cost is what was charged.
THEOREM TheReportBacksTheVerdict == CanarySpec => []ReportBacksVerdict
<1>1. EvidenceInv => ReportBacksVerdict
  BY DEF EvidenceInv
<1>2. QED
  BY <1>1, EvidenceStart, EvidenceStep, PTL DEF CanarySpec
=============================================================================
