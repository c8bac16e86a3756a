--------------------------- MODULE Certification ---------------------------
(***************************************************************************)
(* What TOKEN may do for a client: the certification matrix and its policy *)
(* (compat_cert.py), the registries the framework of agents asks           *)
(* (capabilities.py, compatibility.py, agent_integrations.py) and the      *)
(* effect a feature flag is allowed (feature_flags.py).                    *)
(*                                                                         *)
(* The state is what the repository registers, and what a later release of *)
(* the matrix or a program that uses the registries adds to it.            *)
(***************************************************************************)
EXTENDS Naturals, Sequences, FiniteSets

CONSTANTS NewEntries,      \* entries a later matrix may add
          NewGenerations,  \* benchmark generations it may add
          NewProfiles,     \* profiles a program may register
          NewRecords,      \* compatibility records a program may register
          MaxAdded         \* bound on the entries and generations added

States == {"CERTIFIED", "CANARY", "EXPERIMENTAL", "PASSTHROUGH_ONLY", "UNSUPPORTED", "BLOCKED"}
OSFamilies == {"linux", "windows", "macos"}
FlagStates == {"disabled", "shadow", "canary", "enabled"}

Key(client, protocol, vendor, version) ==
    [client |-> client, protocol |-> protocol, provider |-> vendor,
     model |-> "any", version |-> version]

\* An entry scopes a record to client versions and operating systems.
Entry(key, oses, record, generation) ==
    [target  |-> [key EXCEPT !.version = ""],
     versions |-> {key.version} \ {""},
     os |-> IF oses = {} THEN "OS_AGNOSTIC" ELSE "EXACT", oses |-> oses,
     state |-> record.state, evidence |-> {record.evidence},
     generation |-> generation]

Generation(id, evidence) == [id |-> id, evidence |-> evidence]
Profile(key, evidence) == [key |-> key, evidence |-> evidence]
Record(key, state, evidence) == [key |-> key, state |-> state, evidence |-> evidence]

ASSUME CertificationAssumption ==
    /\ \A e \in NewEntries :
          /\ e.state \in States
          /\ e.os = "OS_AGNOSTIC" <=> e.oses = {}
          /\ e.os = "EXACT" => Cardinality(e.oses) = 1   \* or a "TESTED_SET"
    /\ \A g \in NewGenerations : g.evidence # {}

VARIABLES entries,      \* the matrix
          generations,  \* the benchmark generations of the bundle
          profiles,     \* _profiles of a detector: by key
          records       \* _records of a detector: by key

certVars == <<entries, generations, profiles, records>>
-----------------------------------------------------------------------------
(* The records of the repository *)

CODEX_01540 == Key("codex", "responses", "openai-compatible", "0.154.0")
CODEX_01534 == Key("codex", "responses", "openai-compatible", "0.153.4")
OPENAI_RESPONSES == Key("generic-openai", "responses", "openai-compatible", "")
OPENAI_CHAT == Key("generic-openai", "chat_completions", "openai-compatible", "")
ANTHROPIC == Key("generic-anthropic", "anthropic_messages", "anthropic", "")
GEMINI == Key("generic-google", "gemini_generate_content", "google", "")
AGENTS == Key("generic-openai", "openai_agents_api", "openai", "")

CurrentRecords ==
    <<Record(CODEX_01534, "CERTIFIED", "codex-responses-0.153.4"),
      Record(OPENAI_CHAT, "CERTIFIED", "chat-completions-text-v1"),
      Record(OPENAI_RESPONSES, "CERTIFIED", "responses-text-v1"),
      Record(CODEX_01540, "CERTIFIED", "codex-01540-responses-boundary"),
      Record(ANTHROPIC, "PASSTHROUGH_ONLY", "anthropic-conformance"),
      Record(GEMINI, "PASSTHROUGH_ONLY", "gemini-conformance"),
      Record(AGENTS, "PASSTHROUGH_ONLY", "agents-conformance")>>

\* The records each detector of the repository is built with.
OpenAIRecords == {CurrentRecords[i] : i \in 1 .. 3}
CodexRecords == {CurrentRecords[4]}
Detectors == {OpenAIRecords, CodexRecords} \cup {{CurrentRecords[i]} : i \in 5 .. 7}

CurrentGenerations ==
    {Generation("compat-v1", {r.evidence : r \in OpenAIRecords \cup CodexRecords})}

CurrentEntries ==
    [i \in DOMAIN CurrentRecords |->
        LET record == CurrentRecords[i]
        IN  Entry(record.key, IF record.key.client = "codex" THEN {"linux"} ELSE {}, record,
                  IF record \in OpenAIRecords \cup CodexRecords THEN "compat-v1" ELSE "none")]
-----------------------------------------------------------------------------
(* The policy *)

EntryMatches(entry, key, os) ==
    /\ entry.target = [key EXCEPT !.version = ""]
    /\ IF entry.versions = {} THEN key.version = "" ELSE key.version \in entry.versions
    /\ entry.os = "OS_AGNOSTIC" \/ os \in entry.oses

Matching(matrix, key, os) == {i \in DOMAIN matrix : EntryMatches(matrix[i], key, os)}

\* A policy cannot be made of two generations of one name.
Consistent(gens) == \A g, h \in gens : g.id = h.id => g = h

\* required is "any" or the generation that is asked for.
Backed(entry, gens, required) ==
    /\ entry.evidence # {}
    /\ \E g \in gens : g.id = entry.generation /\ entry.evidence \subseteq g.evidence
    /\ required \in {"any", entry.generation}

Passthrough(key) == Record(key, "PASSTHROUGH_ONLY", "unknown")

\* Mutant of Resolve: the first match decides.
ResolveFirst(matrix, gens, key, os, required) ==
    LET matches == Matching(matrix, key, os)
        entry   == matrix[CHOOSE i \in matches : \A j \in matches : i <= j]
    IN  IF \/ matches = {} \/ ~Consistent(gens)
           \/ entry.state = "CERTIFIED" /\ ~Backed(entry, gens, required)
        THEN Passthrough(key)
        ELSE Record(key, entry.state, entry.evidence)

\* What raises decides nothing, like passthrough.
Resolve(matrix, gens, key, os, required) ==
    LET matches == Matching(matrix, key, os)
        entry   == matrix[CHOOSE i \in matches : TRUE]
    IN  IF \/ ~\E i \in matches : matches = {i}
           \/ ~Consistent(gens)
           \/ entry.state = "CERTIFIED" /\ ~Backed(entry, gens, required)
        THEN Passthrough(key)
        ELSE Record(key, entry.state, entry.evidence)
-----------------------------------------------------------------------------
(* The decision for an agent *)

PermittedEffect(flag, state) ==
    IF flag = "disabled" \/ state \in {"BLOCKED", "UNSUPPORTED"} THEN "none"
    ELSE IF \/ flag = "enabled" /\ state = "CERTIFIED"
            \/ flag = "canary" /\ state \in {"CANARY", "CERTIFIED"}
         THEN "execute" ELSE "observe"

\* Mutant of AgentDecision: the record alone decides.
AgentDecisionOnRecord(key, flag) ==
    IF key \in DOMAIN records
    THEN [evidence |-> records[key].evidence,
          effect |-> PermittedEffect(flag, records[key].state)]
    ELSE [evidence |-> "unknown", effect |-> PermittedEffect(flag, "PASSTHROUGH_ONLY")]

AgentDecision(key, flag) ==
    IF /\ key \in DOMAIN profiles \cap DOMAIN records
       /\ profiles[key].evidence = records[key].evidence
       /\ records[key].evidence # "unknown"
    THEN [evidence |-> records[key].evidence,
          effect |-> PermittedEffect(flag, records[key].state)]
    ELSE [evidence |-> "unknown", effect |-> PermittedEffect(flag, "PASSTHROUGH_ONLY")]
-----------------------------------------------------------------------------
(* What may be added *)

ByKey(some) == [k \in {x.key : x \in some} |-> CHOOSE x \in some : x.key = k]

CertInit ==
    /\ entries = CurrentEntries
    /\ generations = CurrentGenerations
    /\ \E detector \in Detectors :
          /\ profiles = ByKey({Profile(r.key, r.evidence) : r \in detector})
          /\ records = ByKey(detector)

AddEntry(entry) ==
    /\ Len(entries) < Len(CurrentEntries) + MaxAdded
    /\ entries' = Append(entries, entry)
    /\ UNCHANGED <<generations, profiles, records>>

AddGeneration(generation) ==
    /\ Cardinality(generations) <= MaxAdded
    /\ generations' = generations \cup {generation}
    /\ UNCHANGED <<entries, profiles, records>>

\* Mutant of Registered: the last registration wins.
RegisteredLast(registry, item) ==
    [k \in DOMAIN registry \cup {item.key} |-> IF k = item.key THEN item ELSE registry[k]]

\* A conflicting registration raises and changes nothing.
Registered(registry, item) ==
    [k \in DOMAIN registry \cup {item.key} |->
        IF k \in DOMAIN registry THEN registry[k] ELSE item]

RegisterProfile(profile) ==
    /\ profiles' = Registered(profiles, profile)
    /\ UNCHANGED <<entries, generations, records>>

RegisterRecord(record) ==
    /\ records' = Registered(records, record)
    /\ UNCHANGED <<entries, generations, profiles>>

CertNext ==
    \/ \E entry \in NewEntries : AddEntry(entry)
    \/ \E generation \in NewGenerations : AddGeneration(generation)
    \/ \E profile \in NewProfiles : RegisterProfile(profile)
    \/ \E record \in NewRecords : RegisterRecord(record)

CertSpec == CertInit /\ [][CertNext]_certVars
-----------------------------------------------------------------------------
(* Properties *)

Keys == {r.key : r \in UNION Detectors} \cup {x.key : x \in NewProfiles \cup NewRecords}

CertifiedFor(key, os, required) ==
    Resolve(entries, generations, key, os, required).state = "CERTIFIED"

\* A new matrix certifies a client on a system only through one new entry of its
\* own for that client and system, or by supplying the evidence the one entry
\* lacked: certifying one version, system or protocol never spreads to another,
\* and an entry on top of a certification takes it away.
CertificationDoesNotSpread ==
    [][\/ UNCHANGED <<entries, generations>>
       \/ \A key \in Keys, os \in OSFamilies :
             LET before == Matching(entries, key, os)
                 after  == Matching(entries', key, os)
             IN  (CertifiedFor(key, os, "any"))' =>
                    \/ before = {} /\ Cardinality(after) = 1
                    \/ /\ before = after
                       /\ \/ CertifiedFor(key, os, "any")
                          \/ \E i \in after, g \in generations' \ generations :
                                g.id = entries[i].generation
      ]_certVars

\* The framework asks registries that know no system and no generation; on the
\* system the repository certifies on, it executes only what the policy
\* certifies from the same evidence, whatever a program registers later: one
\* registration of its own beside one of the repository, or alone, opens nothing.
FrameworkWithinPolicy ==
    entries = CurrentEntries /\ generations = CurrentGenerations =>
        \A key \in {r.key : r \in UNION Detectors}, flag \in FlagStates :
            AgentDecision(key, flag).effect = "execute" =>
                LET certified == Resolve(entries, generations, key, "linux", "any")
                IN  \/ /\ certified.state = "CERTIFIED"
                       /\ certified.evidence = {AgentDecision(key, flag).evidence}
                    \/ /\ key \in DOMAIN profiles \cap DOMAIN records
                       /\ profiles[key] \in NewProfiles /\ records[key] \in NewRecords

\* Once a client has both registrations, its decision never changes.
DecisionIsStable ==
    [][\/ UNCHANGED <<profiles, records>>
       \/ \A key \in DOMAIN profiles \cap DOMAIN records, flag \in FlagStates :
             (AgentDecision(key, flag))' = AgentDecision(key, flag)]_certVars
=============================================================================
