# TOKEN runtime in TLA+

TOKEN (`src/`) is a loopback HTTP gateway between an LLM client and its
provider. It shortens the redundant history of a request, keeps everything the
model is being asked about now, can give back every text it removed, and when
anything goes wrong forwards the request as it came. `token install` points
clients at the gateway by editing their configuration files, `token uninstall`
undoes it. Around this core lie adapters for provider protocols, certification
records and policies, conformance suites, benchmarks and a release pipeline.

This directory holds TLA+ models of all of these but the fixtures and the
terminal, TLC configurations that check them on small instances, and TLAPS
proofs for every instance. `PROJECT.json`
maps each definition to the lines it models and lists runs, mutants, findings,
hazards and theorems. `src/token_runtime/` below stands for
`src/src/token_runtime/`.

## 1. Inventory

| component (code) | state it keeps | operations | interacts with |
|---|---|---|---|
| planner (`planner.py`, `model.py`) | none | `plan` | called by the engine |
| engine (`engine.py`) | locals of a call | `optimize`, `_dedup_exact_evidence`, `estimate_tokens` | planner, reducers, store |
| reducers (`reducers.py`) | none | four `reduce` | store (`put`) |
| recovery store (`store.py`) | a SQLite table text by SHA-256 | `put`, `get` | shared by all handler threads |
| metrics store (`metrics.py`) | a SQLite table of events | `record`, `summary` | shared by all handler threads |
| gateway (`gateway.py`) | locals of a handler thread | `prepare`, `do_POST`, relay | registry, adapter, engine, metrics, upstream |
| registry and adapters (`protocol_registry.py`, `adapters.py`, `anthropic_adapter.py`, `gemini_adapter.py`) | frozen tables | `resolve`, `parse`, `serialize` | gateway |
| integrations (`integrations.py`) | the user's `.codex/config.toml` and `.env`, a metadata sidecar each, temporary files | `plan_install`, `apply_plan`, `uninstall_integration` | the user's editor, other commands |
| configuration (`config.py`), command line (`cli.py`) | `config.json` | `install`, `uninstall`, `serve`, `status`, `doctor`, `compat` | all of the above |
| capability and certification policy (`capabilities.py`, `compatibility.py`, `feature_flags.py`, `compat_cert.py`, ...) | a registry of profiles and one of records; a matrix of entries and generations, frozen per release | `register`, `detect`, `resolve`, `permitted_effect`, `classify_upgrade` | `cli.py compat`, agent decision |
| agent decision (`agent_integrations.py`) | none | `resolve` | both registries |
| conformance suites, offline benchmarks (`*_conformance.py`, `benchmark.py`) | none | run fixtures | adapters, engine |
| live protocol benchmark (`benchmarks/run_anthropic_preserved_thinking_live.py`) | a request count, an observed spend, the answers so far | `main`, `run_protocol`, budgeted transport, classification | a paid service |
| distribution (`scripts/`) | files of a release bundle and their digests | export, build, bundle, verify, qualify | git, `pip`, `distribution.yml` |
| publication (`.github/workflows/`) | the artifact of a qualification run, the outputs of a job | qualification run, `verify` job, `publish` job | distribution, PyPI |

What is hard here, and what makes each part correct:

- **Interleaving.** `ThreadingHTTPServer` runs every request in a thread of its
  own; engine, recovery store and metrics table are shared. A result must be a
  function of its own request.
- **Partial failure.** A reducer, the planner, a serialisation, either database
  or the upstream may fail at any call, some inside a `try` and some outside.
  No failure may let a half-rewritten request out.
- **Crash.** The process may die between storing an original, committing the
  metrics row and sending. What was sent must be recoverable and accounted for.
- **Numeric edges.** Turn comparison over tuples, the rounded estimate, ties.
- **Lines and words.** The reducers cut text by index, round after round, and
  nobody compares what is left with what was there.
- **Unseen context.** An adapter that overlooks a part of a payload hides it
  from the planner; one that addresses a part wrongly rewrites another.
- **Money.** The live run learns of a cost only from a valid answer, and judges
  a service it cannot see into from four answers.
- **Scope.** Certifying one client, version or system must not certify another,
  in whatever order a later release adds entries.
- **Releases.** A bundle is a dozen files made and read at different times; the
  build may be killed, the checkout edited, the run repeated.
- **Files.** Installing writes two files with no transaction around them, while
  an editor or another command writes the same ones. The user's text must
  survive, and there must be a way back.

Section `hazards` of `PROJECT.json` lists these one by one with the line where
each bites and the properties that watch it.

## 2. The modules

```
Planner ── Rewriting ── Engine ── Gateway          ManagedFiles ── Integrations
   │            │         │ │        │                                  │
   │            │         │ │        │ Proxy == INSTANCE          MCIntegrations
   │            └── FailOpenProxy ───┤
   │                      │ │    GatewayProofs     MCEngine ── MCGateway
   │            EngineProofs│
   └── Adapters ──── AdaptedRequests ── MCAdapters ─┐
                                                    │
LiveCanary ─── LiveCanaryProofs     LiveCanary ─────┼── MCProtocols
Certification ─ CertificationProofs Certification ──┘
Distribution ── DistributionProofs, MCDistribution
Integrations ── IntegrationsProofs
MCEngine, LineReducers ── MCReductions
```

### Planner, Rewriting: what may be sent

`Planner` translates `ContextPlanner.plan`: `Protected` (protocol kinds, hard
constraints, the latest turn, the newest user message and tool output, stated
decisions) and `BypassReasons`. A text is a member of `Texts`, and `Attr` gives
the features the code looks at: which regular expressions match, whether it is
JSON, its numbers of lines, characters and token units. A block is identified
by its position.

`Rewriting` states what README promises of a rewritten request in words of its
own (`ActiveContext` is not defined by `Protected`): context kept, originals
stored, markers resolvable.

### Engine: `optimize` on a shared store

A call (one per member of `Calls`) is a little program: `Optimize` (estimate,
plan, bypass), then `Reduce` once per block and reducer, `Dedup` once per
block, `Decide`. Every step commits at most one SQLite transaction, so these
are all the points where calls can be told apart by each other. `ReduceRaises`
is the `except` of the loop; `PlanRaises` and `DedupRaises` are exceptions that
leave `optimize`, because the code around them has no `try`; `EngineCrash`
loses every running call and keeps the store. `Candidate` gives the text each
reducer would produce; whether it is used (`Considers`, `Shrinks`) and whether
the original is stored first (`Puts`; `ToolOutputReducer` stores even what it
then does not replace) is the code's control.

`EstimateTokens` is Python's `round(units * 1.33)`, halves to even, in integer
arithmetic; the two were compared for every number of units below two million.

### LineReducers: what is left of a text

`Engine` takes what a reducer produces from a constant, for any texts.
`LineReducers` is what the three text reducers do produce, on one unprotected
block, in the engine's order: `RepeatRuns` counts runs of equal lines,
`StartEvidence`, `CollapseOnce` (one round of the `while True` of
`_collapse_line`, on the line `at`), `NextLine` and `FinishEvidence` take out
adjacent repeats of `MinWords` words or more, `ToolOutput` keeps the edges and
the lines with an anchor. A line is its sequence of words and `ends` what its
line ends add to the length, which decides whether a candidate is used. An
empty last line turns into a line end when lines are joined (`SplitLines`).
For each of the 5,746 blocks of the run, with the reducers' parameters set to
those of the configuration, the Python reducers gave exactly the model's text.

### Gateway and FailOpenProxy

`Gateway` adds the handler threads: `Resolve` (endpoint and JSON), the `try`
block of `prepare` (`ParseRaises`, `EngineStep`, `Serialize`,
`SerializeRaises`, `EngineRaised`), the metrics row (`Record`, and its failure,
which inside the `try` means one more fallback and another attempt and outside
it ends the request), then `Send`, `Respond`, `Relay` with their failures, and
`Crash`. The variable `wire` records what the upstream received.

`FailOpenProxy` is what a client can rely on, with no engine, no databases and
no phases: each request is forwarded at most once, as its own bytes or as a
faithful rewriting of a request that may be rewritten; nothing kept is ever
lost; a request may be dropped. `ImplementsProxy` is the refinement, under the
mapping `FateOf`, with the recovery store as the kept texts.

### ManagedFiles and Integrations

`ManagedFiles` holds the two kinds of files, what installing and uninstalling
make of each (`PlanCodex`, `PlanEnv`, `RemoveCodex`, `RemoveEnv`) and the
metadata sidecar. A Codex config is its provider sections and a note for all
the rest; a `.env` is a sequence of lines, line ends and managed blocks, so
that joining two lines is visible. A SHA-256 stands for the content.

`Integrations` runs commands: every read, open, write, rename and unlink is a
step, in the code's order (a Codex uninstall looks for the sidecar before it
reads the file, all others after). `_atomic_write` is `Open`, which empties the
temporary file, `Fill`, which writes into whatever the opened file has become
meanwhile (`handle`), and a rename. `Fails` is an `OSError`, with the undo of
`apply_plan` and its own possible failure; `Kill` ends a command between any
two steps; `Edit` is the user saving a file. `own`, `touched`, `raced` and
`intact` are history that only properties read: what the files would be without
TOKEN, whether the user saved a file in the middle of a rewrite, and whether a
command ever ended between the two renames of a Codex install, which is the one
moment no code repairs (`killed`). The properties of `cycles` hold whatever else
fails or is killed. `RootsAssumption` says what a root can start with.

### Adapters and AdaptedRequests: what a protocol shows the planner

`Adapters` translates the four `parse` methods and `serialize`. A payload is a
tree of values and elements; an element is known by its type, role, content and
the few marks a parser asks for (citations, further keys, ill-typed fields,
tool calls). `Parse` returns the blocks in the order the code appends them, each
with kind, turn, text and the path its text is at, whether everything was
understood, and whether a membership test raised. A block without a path (a
tool call, a schema, a cited text) is shown to the planner and never written.
`Join` carries blocks, `safe` and the exception up from any depth, as
the nested loops and their `safe = False` do. `SerializeBlocks` folds `SetPath`
over the blocks.

`AdaptedRequests` composes them with the registry and the engine: programs
register adapters on normalised paths (a taken one raises), a request comes on
one of them, is parsed, optimised by the actions of `Engine` (all its steps,
with no faults, which `Gateway` has) and serialised. `upstream` is the payload
that leaves. Where `Gateway` takes an envelope from a set, here it is what the
adapter made of a payload.

### LiveCanary: four paid requests

`Main` is the order of refusals (budget, `--execute`, key), `Send` the budgeted
transport up to the socket (cap, then `observed + upper bound <= budget`),
`ReadReply` what follows a parsed answer (usage, spend, then the checks of the
phase), `Fail` a timeout, an HTTP error or a body that is no object, and
`Conclude` the report. The provider is a process of its own: `Serve` may come
after the client has given up, and charges all the same. It binds thinking to
its prefix, or never drops, or always drops, and caches or not: the client
cannot see which. Each answer may be spoilt in one of five ways. Money is in
quarters of a micro-dollar, so the four rates of the source are integers.

### Certification: who is certified for what

The state is what the repository registers, and actions add what a later
matrix or a program may add: entries, generations, profiles, records. `Resolve`
is `CertificationPolicy.resolve` with its exactly-one-match rule, `Backed` the
evidence check, `AgentDecision` the decision over the two registries and
`PermittedEffect` the flag. What raises decides nothing and is modelled as
passthrough. `FrameworkWithinPolicy` relates the two independent deciders.

### Distribution: from a checkout to PyPI

One qualification run makes two bundles from a checkout: the exporter copies
(an edit may come in between), audits and writes the manifest; the archives
are built, the sdist repacked through a second file, both inspected, the
checksums and the provenance written, the bundle verified. Then the run
compares the two, verifies and qualifies the first, audits the checkout and
uploads. `Kill` stops a build between two steps or within a file. A run may be
repeated on another machine and keeps its artifact until it uploads the next.
`VerifyJob` and `Download`/`Publish` are the two jobs of `publish-pypi.yml`,
each with a download of its own. An archive is the tree it was made of and
what else its bytes depend on; a digest is the content.

## 3. The runs

| run | what it asks | result |
|---|---|---|
| `envelopes` | one call of `optimize` on each of some 43,000 envelopes, no faults: context kept, texts recoverable, markers resolve, result cheaper and equal to the reference function `WholeRewriting`; the text reducers on every line of up to eight words and on logs of up to five lines: counts read back as the lines they stand for, no words stand together that did not, order is kept, the critical lines stay with all their words, the collapse ends | holds |
| `concurrent` | two calls on one store, all faults, a crash: types, the inductive invariant, independence of results | holds |
| `faults` | two requests with all eight kinds of fault and a crash: types, the inductive invariant, what reaches the wire, what the table says of it, that savings are never understated, refinement | holds |
| `fails_open` | the optimizer may fail anywhere, metrics and upstream work: every request is answered | holds |
| `protocols` | one request over each of some 2,600 payloads of four protocols: the originals restore the payload, the upstream parses what was decided, no text is unseen, nothing signed or cited is sent rewritten, the last item is untouched; the live run with any provider: spend, verdict, report; the next certification matrix: certifications do not spread, the framework stays within the policy, decisions are stable | holds |
| `release` | one qualification run and one publication with kills, an edit, a changed archive, a re-run, a pull request, another commit: a verified bundle is whole, what is published is the tagged runtime and was qualified | holds |
| `unsupported` | README/SECURITY: unsupported endpoints are forwarded | violated |
| `malformed` | THREAT-MODEL: malformed bodies are forwarded | violated |
| `cycles` | installs and uninstalls in any order from five roots, one edit at any moment, failing writes, kills: the user's text is kept, a failed install keeps the way back, no history leads into drift the user did not cause, uninstall restores | holds |
| `killed` | README: the Codex edit is transactional | violated |
| `joined` | THREAT-MODEL: edits are bounded, for the lines of a `.env` | violated |
| `two_commands` | the same for two commands at a time | violated |

**Bounds, and why they are enough.** Three blocks are enough for every pair
the planner or the deduplication compares plus one block in between or after,
and for three equal blocks, where "last" and "next" differ. Two turns make
latest and not latest. `MCAttr` has one text for each way the code can treat a
text: rewritten once, rewritten twice by two reducers in turn, stored but not
shortened, too short for a marker, JSON that shrinks in characters and not in
units, constraint, decision, exact edit. Two calls or requests are enough for
the shared store and table: a step of a call reads nothing of other calls but
the store, and the proofs cover any number. `Envelopes`, `Inputs` and
`Conversations` in the MC modules name the rest. For the integrations, one
command at a time with any number of commands in sequence (the state, not the
number of commands, is finite), two gateway URLs, one edit; root by root the
properties were also checked with two edits (with one gateway URL where a `.env`
is managed).

`envelopes` starts either the call or one block of `LineReducers`, which share no
state. `MinWords` is 2 (8 in the engine), `Edge` 1 (8) and `MinTextChars` 40
(1,800), so that a line of eight words has repeats of one length inside, beside
and left over from those of another, in several rounds, and four lines are
enough for a middle; the lines of the logs are one for each way the three
reducers can treat a line, two of them guards, which switch the collapse off for
the whole text.

`protocols` starts three procedures that share no state, each with the others
standing still: their interleavings would only multiply. The palettes of
`MCAdapters` have an element for each branch of each parser, in conversations
of up to three items, so that any two kinds meet on either side of the latest
question; odd values of the other fields come one at a time. The budgets of
the live run let none, two, three and all four requests through, the usages
reach the least and the most a request may cost. For `Certification`
`MaxAdded = 2` allows an entry before or after the generation that backs it, and
two that collide. `release` has one edit and one changed archive: with two, the
same damage in both bundles would compare equal, which no digest taken later can
tell, so `PublishedIsTagged` is a statement about single faults. It claims the
runtime only, because a run for a pull request builds the merge of the commit
and the verify job compares the runtime digest alone.

**Fairness.** `GatewaySpec` assumes weak fairness of `HandlerProgress`, and
`ReductionsSpec` of `ReduceLines`, the steps of `LineReducers`: a thread that
can go on does, which is what the operating system gives a running thread. A
fault is never forced, and
no progress action is made of faults alone, with one exception: waiting for the
upstream ends in an answer or in `UpstreamFails`, because `urlopen` has a
timeout. That a thread is created for a request (`Resolve`) is not assumed;
`FailsOpen` is about requests whose handler has started. The other
specifications have no fairness and no liveness property: a command, a live run
and a build may all be stopped for good.

**Deadlock** checking is off in all runs: every model stops by design, when all
calls have ended, a command has been killed and the edits are used up, or a run is over.

**Mutants.** Each property of a passing run has an operator in the model
(commented "Mutant of ...") that changes one definition the way a bug would; the
run then finds the property violated. They are not used otherwise.

## 4. Findings

1. *An optional counter can drop a request.* The metrics INSERT of an
   unsupported endpoint is outside any `try` (`gateway.py:51`); if it fails, the
   request is not forwarded, against SECURITY.md:10.
2. *A body nested too deeply is dropped.* `RecursionError` is not among the
   exceptions named at `gateway.py:58`, against README.md:146.
3. *An interrupted install loses the user's URL.* Between the two renames of
   `apply_plan` nothing records the original `base_url`, and the undo does not
   run on Ctrl-C or a kill; a later install reports "unchanged" and never writes
   it (`integrations.py:180`, README.md:134).
4. *Uninstall can join two lines of a `.env`* if the user appended text after
   the managed block (`integrations.py:265`).
5. *Two commands share one temporary file*, and one can rename an emptied file
   over the config (`integrations.py:162`). This one, 3 and 4 were also reproduced
   with the Python code.

## 5. What is proved

What each theorem supposes of the constants is an ASSUME of the module it is
about, which TLC evaluates on its instance, or a hypothesis it states. Where an
argument goes along a sequence or a tree, the induction is one over a set of
numbers (`Induction`), since the library's theorems take an operator.

`EngineProofs` and `GatewayProofs` hold for every set of texts, features,
reducer outcomes, envelopes, faults and any number of concurrent requests,
under `AttrAssumption`, `EngineAssumption` and `GatewayAssumption` (typing of
the constants only).

- *The inductive invariant of the engine* is `EngineInv`: types, and
  `CallsOnTrack`. The properties are about returned results, so none is
  inductive: one must know that a running call's work is on its way there.
  `CallsOnTrack` says so exactly. While the loop runs, `work` is `LoopWork`, a
  function of the argument and the cursor; in the deduplication it is
  `DedupWork`; each replaced block's original is among `refs`, which the store
  contains. The lemmas `LoopWorkAdvances`, `LoopWorkEnds`, `DedupWorkAdvances`
  and `DedupWorkEnds` say that one step takes each function to its next value,
  and `CanonicalIsLastEqual` that looking for the last equal text in a list that
  is half marked gives the same as in one that is not. Other calls matter only
  by adding to the store (`OthersStayOnTrack`).
- From it: results are whole rewritings, kept context, recoverability, markers,
  cheaper results (`ResultsAreWholeRewritings` ... `OptimizedResultsAreCheaper`).
- *The gateway* adds `HandlersOnTrack`: per phase, what the handler, its call,
  its row and its message know of each other. `GatewayProofs` reuses the
  engine's step lemmas and proves `OnlyWholeRewritingsAreSent` and
  `TheWireIsAccounted`.
- *The metrics sum* (`SavingsAlwaysCoverTheWire`): `EstimatesInv` says that no
  result and no row claims a rewriting costs anything, and that a request has at
  most one row. The sums are compared term by term over a growing set of
  requests, so there must be finitely many.
- *Refinement*: `GatewayImplementsProxy`. Each action is mapped: `Resolve` opens
  (or drops) a request, `Send` forwards (the invariant provides `Faithful`), the
  engine's steps keep texts, `Crash` drops all open requests at once.

- *The adapters* (`AdaptersProofs`, `AdaptedProofs`). `AdaptersProofs` has the
  laws of the two things a parser and `serialize` do: flattening the findings of
  nested parts, and reading or writing at a path of up to four steps. From them
  `ParseSound`: each block has its text at its path, its turn is that of the item
  the path goes through, only the instructions give blocks of kind system; and
  that a write to a path that leads to a text leaves the shape of the payload and
  the texts elsewhere alone, so that of two serialisations the last counts.
  `AdaptedInv` adds to `EngineInv` that what was parsed is the parse of
  the payload, the engine works on its blocks, and what was sent is the payload
  or its serialisation with the engine's texts: `RewritingIsReversible`, and, as
  a rewriting keeps protected blocks, `TheActiveItemIsUntouched`. `ParseSeen`
  goes down each parser: a payload that is parsed without a doubt has been seen
  to the last text and holds nothing signed or cited, which gives
  `ThePlannerSawEveryText` and `SignedAndCitedStay`. `ParseMirrors` follows each
  parser through two payloads side by side, one with the shape of the other: no
  branch depends on a text, so the verdict and the blocks are the same, each text
  read where the block stands (`Reblocks`), and as every part keeps to places of
  its own (`Apart`, `LieIn`) no block overwrites another's. That is where two
  blocks with one path, or a branch on what a text says, would break the proof.
  Serialising leaves the shape (`SerializeShape`) and each text where it was put
  (`SerializeReads`), hence `SentIsReadAsDecided`. They hold for payloads of any
  size and depth; `RequestAssumption` types the payloads that come on a path as
  JSON of the protocol registered there, and `OneCall` says that the engine works on one
  request, which loses nothing: `GatewayProofs` shows that calls do not meet.
- *The live run* (`LiveCanaryProofs`): `SpendStaysInBudget` is not inductive,
  because the client does not know what is billed. `CanaryInv` adds that client
  and provider alternate (at most one request under way), that while nothing is
  under way `observed` is `billed` and a valid reply makes up the difference, and
  that `billed` plus the upper bound of the pending request is within the
  budget. `UpperBoundBounds` (any usage a request can have costs at most its
  upper bound) needs that the cache write rate is the largest input rate, which
  is the assumption `RatesAssumption`. `EvidenceInv` adds what each answer tells
  of the provider that gave it, that only the mismatch probe changes the prefix, and that the
  client holds the cost of every answer it went on from: `TheCandidateIsEarned`,
  `TheReportBacksTheVerdict`.
- *Certification* (`CertificationProofs`): `CertificationStaysPut` and
  `DecisionsAreStable`, for any entries, generations and registrations, in any
  number. `CertInv` only says that the matrix is a sequence; the work is in
  comparing the matches before and after one step. `FrameworkStaysWithinPolicy`
  rests on `FrameworkInv`: the registries hold what some detector of the
  repository was built with, and all else was added by the program under
  another key.
- *The release* (`DistributionProofs`): `DistInv` says, per step, which files of
  the bundle in the making exist, that a manifest, the records and a provenance
  agree with the candidate they were made from, and that an undamaged archive
  holds it. From it `VerifiedBundlesAreTruthful`. `ReleaseInv` adds which
  archives went through which installation, that the artifact of the run is a
  bundle that had been qualified or fails to verify, and that what the
  publish job holds is what the verify job saw: `OnlyQualifiedIsPublished`,
  for any number of edits, damages and attempts.
  `TaggedInv` is about one changed archive (`MaxDamages` is 0 or 1): one of the
  two bundles stays free of it, so of two bundles that came out equal neither was
  changed before the comparison; what was inspected bears a change for good, so a
  bundle that verifies later tells the truth without exception, and in the
  version that is released: `OnlyTheTaggedIsPublished`. With two changes it is
  false, and `PublishedIsTagged` claims nothing of them.
- *The integrations* (`IntegrationsProofs`), under `RootsAssumption` (before
  TOKEN ran no file points to the gateway or has a block of its). The types hold
  for any number of processes (`IntegrationTypes`); `TypeInv` says what plan,
  URL and integration a command has at each step. The others are of one command
  at a time (`Processes = {p}`), any number of them in sequence: two
  commands do share a temporary file, and `two_commands` shows what follows.
  `DriftInv` follows the command through its steps: from the check to the last
  rename of an install there is no sidecar, the config is `original` before the
  first rename and `desired` after it, an uninstall writes the bytes its sidecar
  remembers, and a temporary file about to be renamed holds what the plan says.
  It gives `OneCommandIsNeverStuckInDrift`. `OwnInv` adds, as long as `intact` and
  not `raced`, that the config is the user's but for sections that point to the
  gateway, that each such section has its URL in the sidecar unless the command
  is between its two renames, and that a sidecar remembers its one section
  (`OnlyItsUrl`, `SidecarRemembers`). It gives `OneCommandKeepsOwnUrl` and
  `UninstallRestoresCodex`.
  `TextInv` is about what is outside the part TOKEN manages and does not suppose
  `intact`: what a plan wants, and what a temporary file about to be renamed
  holds, says there what the file of the user says, unless the user saved it
  meanwhile. Under it are the laws of `Only` (it goes through concatenation, and
  filtering twice is filtering by both) and what adding, exchanging and removing
  a block does to a `.env` (`BlockIsAdded`, `ExchangeKeeps`, `BlockIsRemoved`). A
  part of it is that a `.env` has at most one block: `WithoutFirstBlock` removes
  one. It gives `OneCommandKeepsUserText`, and both together `OneUninstallRestores`.
  The hypotheses are about the user: what is saved is a file of its kind
  (`EditsAreFiles`), a section that points to the gateway may be dropped or redirected and
  all others changed, but none is pointed to the gateway by hand
  (`EditsAddNoGateway`), and no block is written by hand (`EditsAddNoBlock`).
  TLC's edits are of this kind only.

Only model-checked: liveness (`FailsOpen`, `ReductionEnds`), which is beyond the
prover, and the properties of `LineReducers`, which are about folds and rounds
over sequences. Every other invariant and action property of the passing runs
has a theorem.

## 6. What is not modelled

- The text level below words: regular expressions (`Anchors` and `Guards` are
  sets of phrases), runs of whitespace, JSON syntax. A rewritten request is re-serialised as a whole, so duplicate keys and the
  spelling of numbers may change; the model does not see this.
- HTTP below a message: header handling, redirects that `urllib` follows,
  keep-alive. `GET` is not handled by the gateway at all.
- SQLite: `put` and `record` are atomic and either commit or raise.
- File systems: a rename is atomic and ordered after the write before it; a
  power loss that reorders them is not modelled. Of two overlapping writes to
  one file the later is taken to win whole. `--dry-run` changes nothing.
  `restore_plan` has no caller outside the tests.
- JSON below the cases the parsers tell apart, and annotations of Responses
  texts, which no adapter looks at.
- Of the certification, `classify_upgrade`, a table from two versions to a word
  that no decision reads, and the digests that name generations.
- Of the distribution, the rules by which the audit judges a file, the commands
  that print a contract or build an earlier wheel, and GitHub's permissions.
- The configuration file: one atomic write under the first install, read-only
  afterwards. The conformance suites and the benchmark gate are fixtures run in
  one pass; what they exercise is modelled above. The terminal interface formats
  text.

## 7. Plan

Everything the inventory lists is modelled to the extent said above. What would
add most is proofs for `LineReducers`: that a round of the collapse takes
words out is one step, that it joins nothing new is an argument about
subsequences for which the library has the facts.
