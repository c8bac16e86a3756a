---------------------------- MODULE ManagedFiles ----------------------------
(***************************************************************************)
(* integrations.py: the two configuration files `token install` manages,   *)
(* what installing and uninstalling make of each, and the metadata sidecar *)
(* that remembers how to undo it.                                          *)
(*                                                                         *)
(* The Codex config is its list of [model_providers.*] sections and, for   *)
(* everything else in it, a note.  A .env file is a sequence of tokens:    *)
(* the text of a line, a line end, or a whole TOKEN MANAGED block, named   *)
(* by the gateway URL in it (a block brings its own line end).  A SHA-256  *)
(* stands for the content it is the hash of.  A sidecar that is not there  *)
(* is {}, one that is holds the one record in the set.                     *)
(***************************************************************************)
EXTENDS Integers, Sequences, FiniteSets, FiniteSetsExt

CONSTANTS Urls,          \* base URLs of the gateway
          OwnUrls,       \* base URLs users have of their own
          ProviderIds,   \* names of Codex providers
          Notes,         \* what else a Codex config can say
          Lines,         \* lines of a .env other than OPENAI_BASE_URL
          OpenAiLines,   \* those with OPENAI_ in them
          Nothing        \* no content

NoUrl == "no base_url"   \* a provider section without one
EndOfLine == "nl"
BaseLine == "base"       \* an OPENAI_BASE_URL line no block encloses

ASSUME FilesAssumption ==
    /\ Urls \cap OwnUrls = {} /\ NoUrl \notin Urls \cup OwnUrls
    /\ OpenAiLines \subseteq Lines
    /\ (Lines \cup Urls) \cap {EndOfLine, BaseLine} = {}
    /\ Lines \cap Urls = {}

NoNote == ""

CodexConfig == [providers : Seq([id : ProviderIds, url : Urls \cup OwnUrls \cup {NoUrl}]),
                note : Notes \cup {NoNote}]
EnvTokens == Lines \cup Urls \cup {EndOfLine, BaseLine}
EnvFile   == Seq(EnvTokens)

-----------------------------------------------------------------------------
(* The Codex config *)

Sections(c, id) == {i \in DOMAIN c.providers : c.providers[i].id = id}

HasBaseUrl(c, id) ==
    Sections(c, id) # {} /\ c.providers[Min(Sections(c, id))].url # NoUrl

BaseUrl(c, id) == c.providers[Min(Sections(c, id))].url

SetBaseUrl(c, id, url) == [c EXCEPT !.providers[Min(Sections(c, id))].url = url]

\* "managed_provider_base_url", the strategy of the code, "sidecar" of a
\* version before it, and "damaged", a file that is no JSON.
CodexSidecar(id, old, c, desired) ==
    [strategy |-> "managed_provider_base_url", provider |-> id, url |-> old,
     original |-> c, desired |-> desired]
OtherSidecar(strategy) ==
    [strategy |-> strategy, provider |-> "", url |-> "",
     original |-> Nothing, desired |-> Nothing]

\* An empty file, and how it reads as a sidecar.
EmptyFile(k) == IF k = "codex" THEN [providers |-> <<>>, note |-> NoNote] ELSE <<>>
EmptySidecar(k) ==
    IF k = "codex" THEN OtherSidecar("damaged") ELSE [separatorAdded |-> FALSE]

\* A plan: whether it may be applied, the bytes it was made from, the bytes
\* it wants, and the sidecar to write with them.
Plan(safe, c, desired, sidecar) ==
    [safe |-> safe, original |-> c, desired |-> desired, sidecar |-> sidecar]

\* Mutant of PlanCodex: both hashes are of the bytes before.
PlanCodexHashingOnce(c, sidecar, url) ==
    IF sidecar = {} /\ Len(c.providers) = 1 /\ HasBaseUrl(c, c.providers[1].id)
    THEN LET id == c.providers[1].id
         IN  Plan(TRUE, c, SetBaseUrl(c, id, url), {CodexSidecar(id, BaseUrl(c, id), c, c)})
    ELSE Plan(FALSE, c, c, sidecar)

\* With a sidecar there is nothing to write, whatever it says: the plan of an
\* already managed file wants the bytes it has, every other one is refused.
PlanCodex(c, sidecar, url) ==
    IF sidecar = {} /\ Len(c.providers) = 1 /\ HasBaseUrl(c, c.providers[1].id)
    THEN LET id == c.providers[1].id
             desired == SetBaseUrl(c, id, url)
         IN  Plan(TRUE, c, desired, {CodexSidecar(id, BaseUrl(c, id), c, desired)})
    ELSE Plan(\E s \in sidecar : /\ s.strategy = "managed_provider_base_url"
                                 /\ s.desired = c,
              c, c, sidecar)

-----------------------------------------------------------------------------
(* The .env file *)

Blocks(c) == {i \in DOMAIN c : c[i] \in Urls}

\* The tokens of c that are in S, in their order.
Only(c, S) ==
    LET only[n \in 0 .. Len(c)] ==
            IF n = 0 THEN <<>>
            ELSE IF c[n] \in S THEN Append(only[n - 1], c[n]) ELSE only[n - 1]
    IN  only[Len(c)]

WithoutBlocks(c) == Only(c, EnvTokens \ Urls)

\* An OPENAI_BASE_URL at the start of a line, once the blocks are taken out.
HasUnmanagedBase(c) ==
    LET rest == WithoutBlocks(c)
    IN  \E i \in DOMAIN rest : /\ rest[i] = BaseLine
                               /\ i = 1 \/ rest[i - 1] = EndOfLine

NeedsSeparator(c) == c # <<>> /\ c[Len(c)] \notin Urls \cup {EndOfLine}

ReplaceOrAppendBlock(c, url) ==
    IF Blocks(c) # {} THEN [c EXCEPT ![Min(Blocks(c))] = url]
    ELSE c \o (IF NeedsSeparator(c) THEN <<EndOfLine>> ELSE <<>>) \o <<url>>

PlanEnv(c, sidecar, url) ==
    Plan(~HasUnmanagedBase(c), c,
         IF HasUnmanagedBase(c) THEN c ELSE ReplaceOrAppendBlock(c, url),
         IF sidecar # {} THEN sidecar ELSE {[separatorAdded |-> NeedsSeparator(c)]})

WithoutFirstBlock(c, separatorAdded) ==
    LET b == Min(Blocks(c))
        stripped == separatorAdded /\ b > 1 /\ c[b - 1] = EndOfLine
    IN  SubSeq(c, 1, IF stripped THEN b - 2 ELSE b - 1) \o SubSeq(c, b + 1, Len(c))

-----------------------------------------------------------------------------
(* uninstall_integration: [leave], [forget] the sidecar, or [write] bytes   *)
(* and forget it.                                                           *)

Leave       == [do |-> "leave", desired |-> {}]
Forget      == [do |-> "forget", desired |-> {}]
Write(c)    == [do |-> "write", desired |-> {c}]

\* Mutant of RemoveCodex: drift is not looked for.
RemoveCodexDrifted(c, sidecar) ==
    IF sidecar = {} THEN Leave
    ELSE LET s == CHOOSE s \in sidecar : TRUE IN
         CASE s.strategy = "sidecar" -> Forget
           [] s.strategy = "damaged" -> Leave
           [] OTHER -> Write(s.original)

\* Mutant of RemoveCodex: the sidecar of an earlier version, which holds no
\* base_url, is used like one of this version.
RemoveCodexLegacy(c, sidecar) ==
    IF sidecar = {} THEN Leave
    ELSE LET s == CHOOSE s \in sidecar : TRUE IN
         IF s.strategy = "damaged" \/ Len(c.providers) # 1 THEN Leave
         ELSE Write(SetBaseUrl(c, c.providers[1].id, s.url))

RemoveCodex(c, sidecar) ==
    IF sidecar = {} THEN Leave
    ELSE LET s == CHOOSE s \in sidecar : TRUE IN
         CASE s.strategy = "sidecar" -> Forget
           [] s.strategy = "damaged" -> Leave
           [] OTHER ->
              IF c = s.original THEN Forget
              ELSE IF /\ c = s.desired
                      /\ HasBaseUrl(c, s.provider)
                      /\ SetBaseUrl(c, s.provider, s.url) = s.original
                   THEN Write(SetBaseUrl(c, s.provider, s.url))
                   ELSE Leave

RemoveEnv(c, sidecar) ==
    IF Blocks(c) = {} THEN (IF sidecar = {} THEN Leave ELSE Forget)
    ELSE Write(WithoutFirstBlock(c, \E s \in sidecar : s.separatorAdded))
=============================================================================
