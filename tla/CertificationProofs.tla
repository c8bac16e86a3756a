------------------------ MODULE CertificationProofs ------------------------
(***************************************************************************)
(* Certification does not spread, decisions stay, and the framework of     *)
(* agents keeps within the policy, for any entries, generations, profiles  *)
(* and records that may be added.                                          *)
(***************************************************************************)
EXTENDS Certification, FiniteSetTheorems, SequenceTheorems, TLAPS

AnyEntry == NewEntries \cup {CurrentEntries[i] : i \in 1 .. 7}

\* The matrix is a list of entries: what an index means does not change.
CertInv == entries \in Seq(AnyEntry)

LEMMA CertStart == CertInit => CertInv
<1> SUFFICES ASSUME CertInit PROVE CertInv
  OBVIOUS
<1>1. CurrentEntries \in [1 .. 7 -> AnyEntry]
  <2>1. DOMAIN CurrentEntries = 1 .. 7
    BY DEF CurrentEntries, CurrentRecords
  <2>2. CurrentEntries = [i \in DOMAIN CurrentEntries |-> CurrentEntries[i]]
    BY DEF CurrentEntries
  <2>3. \A i \in 1 .. 7 : CurrentEntries[i] \in AnyEntry
    BY DEF AnyEntry
  <2>4. QED
    BY <2>1, <2>2, <2>3
<1>2. CurrentEntries \in Seq(AnyEntry)
  BY <1>1, SeqDef
<1>3. QED
  BY <1>2 DEF CertInit, CertInv

LEMMA CertStep == CertInv /\ [CertNext]_certVars => CertInv'
<1> SUFFICES ASSUME CertInv, [CertNext]_certVars PROVE CertInv'
  OBVIOUS
<1>1. ASSUME NEW entry \in NewEntries, AddEntry(entry) PROVE CertInv'
  <2>1. entry \in AnyEntry
    BY DEF AnyEntry
  <2>2. QED
    BY <1>1, <2>1, AppendProperties DEF AddEntry, CertInv
<1>2. ASSUME UNCHANGED entries PROVE CertInv'
  BY <1>2 DEF CertInv
<1>3. QED
  BY <1>1, <1>2 DEF CertNext, AddGeneration, RegisterProfile, RegisterRecord, certVars

LEMMA CertInvariant == CertSpec => []CertInv
<1>1. QED
  BY CertStart, CertStep, PTL DEF CertSpec
-----------------------------------------------------------------------------
(* The matrix *)

\* What a certification by Resolve says of the matrix.
LEMMA CertifiedBy ==
    ASSUME NEW matrix, NEW gens, NEW key, NEW os, NEW required,
           Resolve(matrix, gens, key, os, required).state = "CERTIFIED"
    PROVE  \E i : /\ Matching(matrix, key, os) = {i}
                  /\ Consistent(gens)
                  /\ matrix[i].state = "CERTIFIED"
                  /\ Backed(matrix[i], gens, required)
<1> DEFINE matches == Matching(matrix, key, os)
           entry   == matrix[CHOOSE i \in matches : TRUE]
           refused == \/ ~\E i \in matches : matches = {i}
                      \/ ~Consistent(gens)
                      \/ entry.state = "CERTIFIED" /\ ~Backed(entry, gens, required)
<1>1. Passthrough(key).state = "PASSTHROUGH_ONLY"
  BY DEF Passthrough, Record
<1>2. Resolve(matrix, gens, key, os, required) =
        IF refused THEN Passthrough(key) ELSE Record(key, entry.state, entry.evidence)
  BY DEF Resolve
<1>3. ~refused /\ entry.state = "CERTIFIED"
  BY <1>1, <1>2 DEF Record
<1>4. PICK i \in matches : matches = {i}
  BY <1>3
<1>5. (CHOOSE j \in matches : TRUE) = i
  BY <1>4
<1>6. QED
  BY <1>3, <1>4, <1>5

\* And when it certifies.
LEMMA Certifies ==
    ASSUME NEW matrix, NEW gens, NEW key, NEW os, NEW required, NEW i,
           Matching(matrix, key, os) = {i}, Consistent(gens),
           matrix[i].state = "CERTIFIED", Backed(matrix[i], gens, required)
    PROVE  Resolve(matrix, gens, key, os, required).state = "CERTIFIED"
<1> DEFINE matches == Matching(matrix, key, os)
<1>1. (CHOOSE j \in matches : TRUE) = i /\ \E j \in matches : matches = {j}
  OBVIOUS
<1>2. Resolve(matrix, gens, key, os, required)
        = Record(key, matrix[i].state, matrix[i].evidence)
  BY <1>1 DEF Resolve
<1>3. QED
  BY <1>2 DEF Record

\* A new entry comes last; what matched still does.
LEMMA MatchingAfterAppend ==
    ASSUME NEW matrix \in Seq(AnyEntry), NEW entry \in AnyEntry, NEW key, NEW os
    PROVE  Matching(Append(matrix, entry), key, os) \ {Len(matrix) + 1} = Matching(matrix, key, os)
<1> DEFINE after == Append(matrix, entry)
<1>1. /\ DOMAIN matrix = 1 .. Len(matrix) /\ Len(matrix) \in Nat
      /\ DOMAIN after = 1 .. Len(matrix) + 1
      /\ \A i \in 1 .. Len(matrix) : after[i] = matrix[i]
  BY AppendProperties, LenProperties
<1>2. \A i \in DOMAIN matrix : i \in DOMAIN after /\ i # Len(matrix) + 1 /\ after[i] = matrix[i]
  BY <1>1
<1>3. \A i \in DOMAIN after : i # Len(matrix) + 1 => i \in DOMAIN matrix
  BY <1>1
<1>4. QED
  BY <1>2, <1>3 DEF Matching

Spreads(key, os) ==
    /\ (CertifiedFor(key, os, "any"))'
    /\ LET before == Matching(entries, key, os)
           after  == Matching(entries', key, os)
       IN  /\ ~(before = {} /\ Cardinality(after) = 1)
           /\ ~(/\ before = after
                /\ \/ CertifiedFor(key, os, "any")
                   \/ \E i \in after, g \in generations' \ generations :
                         g.id = entries[i].generation)

LEMMA EntriesDoNotSpread ==
    ASSUME CertInv, NEW entry \in NewEntries, AddEntry(entry), NEW key, NEW os
    PROVE  ~Spreads(key, os)
<1> SUFFICES ASSUME Spreads(key, os) PROVE FALSE
  OBVIOUS
<1> DEFINE before == Matching(entries, key, os)
           after  == Matching(entries', key, os)
           new    == Len(entries) + 1
<1>1. entries' = Append(entries, entry) /\ generations' = generations /\ entries \in Seq(AnyEntry)
  BY DEF AddEntry, CertInv
<1>2. after \ {new} = before
  <2>1. entry \in AnyEntry
    BY DEF AnyEntry
  <2>2. QED
    BY <1>1, <2>1, MatchingAfterAppend
<1>3. PICK i : /\ after = {i} /\ Consistent(generations')
               /\ entries'[i].state = "CERTIFIED" /\ Backed(entries'[i], generations', "any")
  BY CertifiedBy DEF Spreads, CertifiedFor
<1>4. CASE i = new
  BY <1>2, <1>3, <1>4, FS_Singleton DEF Spreads
<1>5. CASE i # new
  <2>1. before = after /\ i \in DOMAIN entries
    BY <1>2, <1>3, <1>5 DEF Matching
  <2>2. entries'[i] = entries[i]
    BY <1>1, <2>1, AppendProperties
  <2>3. CertifiedFor(key, os, "any")
    BY <1>1, <1>3, <2>1, <2>2, Certifies DEF CertifiedFor
  <2>4. QED
    BY <2>1, <2>3 DEF Spreads
<1>6. QED
  BY <1>4, <1>5

LEMMA GenerationsDoNotSpread ==
    ASSUME NEW generation \in NewGenerations, AddGeneration(generation), NEW key, NEW os
    PROVE  ~Spreads(key, os)
<1> SUFFICES ASSUME Spreads(key, os) PROVE FALSE
  OBVIOUS
<1> DEFINE after == Matching(entries', key, os)
<1>1. entries' = entries /\ generations \subseteq generations'
  BY DEF AddGeneration
<1>2. PICK i : /\ after = {i} /\ Consistent(generations')
               /\ entries'[i].state = "CERTIFIED" /\ Backed(entries'[i], generations', "any")
  BY CertifiedBy DEF Spreads, CertifiedFor
<1>3. PICK g \in generations' : /\ g.id = entries[i].generation
                                /\ entries[i].evidence \subseteq g.evidence
  BY <1>1, <1>2 DEF Backed
<1>4. CASE g \in generations
  <2>1. Consistent(generations)
    BY <1>1, <1>2 DEF Consistent
  <2>2. Backed(entries[i], generations, "any")
    BY <1>1, <1>2, <1>3, <1>4 DEF Backed
  <2>3. CertifiedFor(key, os, "any")
    BY <1>1, <1>2, <2>1, <2>2, Certifies DEF CertifiedFor
  <2>4. QED
    BY <1>1, <2>3 DEF Spreads
<1>5. CASE g \notin generations
  BY <1>1, <1>2, <1>3, <1>5 DEF Spreads
<1>6. QED
  BY <1>4, <1>5

\* CertificationPolicy.resolve: a new matrix certifies a client on a system only
\* through its own one new entry, or the evidence its one entry lacked.
THEOREM CertificationStaysPut == CertSpec => CertificationDoesNotSpread
<1>1. ASSUME CertInv, CertNext, ~UNCHANGED <<entries, generations>>, NEW key, NEW os
      PROVE  ~Spreads(key, os)
  BY <1>1, EntriesDoNotSpread, GenerationsDoNotSpread DEF CertNext, RegisterProfile, RegisterRecord
<1>2. CertInv /\ [CertNext]_certVars =>
        [\/ UNCHANGED <<entries, generations>>
         \/ \A key \in Keys, os \in OSFamilies :
             LET before == Matching(entries, key, os)
                 after  == Matching(entries', key, os)
             IN  (CertifiedFor(key, os, "any"))' =>
                    \/ before = {} /\ Cardinality(after) = 1
                    \/ /\ before = after
                       /\ \/ CertifiedFor(key, os, "any")
                          \/ \E i \in after, g \in generations' \ generations :
                                g.id = entries[i].generation
        ]_certVars
  BY <1>1 DEF Spreads
<1>3. QED
  BY <1>2, CertInvariant, PTL DEF CertSpec, CertificationDoesNotSpread
-----------------------------------------------------------------------------
(* The registries *)

\* A registration changes nothing that is registered.
LEMMA RegisteredKeeps ==
    ASSUME NEW registry, NEW item, NEW key \in DOMAIN registry
    PROVE  /\ key \in DOMAIN Registered(registry, item)
           /\ Registered(registry, item)[key] = registry[key]
<1>1. QED
  BY DEF Registered

\* CapabilityRegistry and CompatibilityRegistry: once a client has both
\* registrations, its decision never changes.
THEOREM DecisionsAreStable == CertSpec => DecisionIsStable
<1>1. ASSUME CertNext, NEW key \in DOMAIN profiles \cap DOMAIN records
      PROVE  /\ key \in DOMAIN profiles' \cap DOMAIN records'
             /\ profiles'[key] = profiles[key] /\ records'[key] = records[key]
  <2>1. CASE \E profile \in NewProfiles : RegisterProfile(profile)
    BY <1>1, <2>1, RegisteredKeeps DEF RegisterProfile
  <2>2. CASE \E record \in NewRecords : RegisterRecord(record)
    BY <1>1, <2>2, RegisteredKeeps DEF RegisterRecord
  <2>3. CASE UNCHANGED <<profiles, records>>
    BY <1>1, <2>3
  <2>4. CertNext => \/ \E profile \in NewProfiles : RegisterProfile(profile)
                    \/ \E record \in NewRecords : RegisterRecord(record)
                    \/ UNCHANGED <<profiles, records>>
    BY DEF CertNext, AddEntry, AddGeneration
  <2>5. QED
    BY <1>1, <2>1, <2>2, <2>3, <2>4
<1>2. ASSUME CertNext, NEW key \in DOMAIN profiles \cap DOMAIN records, NEW flag \in FlagStates
      PROVE  (AgentDecision(key, flag))' = AgentDecision(key, flag)
  BY <1>1, <1>2 DEF AgentDecision
<1>3. [CertNext]_certVars =>
        [\/ UNCHANGED <<profiles, records>>
         \/ \A key \in DOMAIN profiles \cap DOMAIN records, flag \in FlagStates :
              (AgentDecision(key, flag))' = AgentDecision(key, flag)]_certVars
  BY <1>2
<1>4. QED
  BY <1>3, PTL DEF CertSpec, DecisionIsStable
-----------------------------------------------------------------------------
(* The framework and the policy *)

\* The records of the repository are seven, each with a key of its own.
LEMMA RecordFields ==
    /\ DOMAIN CurrentRecords = 1 .. 7 /\ DOMAIN CurrentEntries = 1 .. 7
    /\ \A i \in 1 .. 7 : CurrentRecords[i] =
          Record(CurrentRecords[i].key, CurrentRecords[i].state, CurrentRecords[i].evidence)
    /\ \A i \in 1 .. 7 :
          DOMAIN CurrentRecords[i].key = {"client", "protocol", "provider", "model", "version"}
<1>1. DOMAIN CurrentRecords = 1 .. 7
  BY DEF CurrentRecords
<1>2. DOMAIN CurrentEntries = 1 .. 7
  BY <1>1 DEF CurrentEntries
<1>3. ASSUME NEW i \in 1 .. 7
      PROVE  CurrentRecords[i] =
                 Record(CurrentRecords[i].key, CurrentRecords[i].state, CurrentRecords[i].evidence)
  BY <1>3 DEF CurrentRecords, Record
<1>4. ASSUME NEW i \in 1 .. 7
      PROVE  DOMAIN CurrentRecords[i].key = {"client", "protocol", "provider", "model", "version"}
  <2>1. \E c, p, v, n : CurrentRecords[i].key = Key(c, p, v, n)
    <3>1. CurrentRecords[i].key \in {CODEX_01540, CODEX_01534, OPENAI_RESPONSES,
                                    OPENAI_CHAT, ANTHROPIC, GEMINI, AGENTS}
      BY <1>4 DEF CurrentRecords, Record
    <3>2. QED
      BY <3>1, Zenon DEF CODEX_01540, CODEX_01534, OPENAI_RESPONSES, OPENAI_CHAT, ANTHROPIC, GEMINI, AGENTS
  <2>2. QED
    BY <2>1 DEF Key
<1>5. QED
  BY <1>1, <1>2, <1>3, <1>4

\* The place of a record in the list, from its key.
PlaceOf(key) ==
    CASE key.protocol = "chat_completions" -> 2
      [] key.protocol = "anthropic_messages" -> 5
      [] key.protocol = "gemini_generate_content" -> 6
      [] key.protocol = "openai_agents_api" -> 7
      [] key.protocol = "responses" ->
            CASE key.version = "0.153.4" -> 1
              [] key.version = "" -> 3
              [] key.version = "0.154.0" -> 4

LEMMA KeysAreUnique == \A i \in 1 .. 7 : PlaceOf(CurrentRecords[i].key) = i
<1>1. /\ CurrentRecords[1].key = CODEX_01534 /\ CurrentRecords[2].key = OPENAI_CHAT
      /\ CurrentRecords[3].key = OPENAI_RESPONSES /\ CurrentRecords[4].key = CODEX_01540
      /\ CurrentRecords[5].key = ANTHROPIC /\ CurrentRecords[6].key = GEMINI
      /\ CurrentRecords[7].key = AGENTS
  BY DEF CurrentRecords, Record
<1>2. ASSUME NEW client, NEW vendor
      PROVE  /\ PlaceOf(Key(client, "responses", vendor, "0.153.4")) = 1
             /\ PlaceOf(Key(client, "chat_completions", vendor, "")) = 2
             /\ PlaceOf(Key(client, "responses", vendor, "")) = 3
             /\ PlaceOf(Key(client, "responses", vendor, "0.154.0")) = 4
             /\ PlaceOf(Key(client, "anthropic_messages", vendor, "")) = 5
             /\ PlaceOf(Key(client, "gemini_generate_content", vendor, "")) = 6
             /\ PlaceOf(Key(client, "openai_agents_api", vendor, "")) = 7
  BY DEF PlaceOf, Key
<1>3. /\ PlaceOf(CODEX_01534) = 1 /\ PlaceOf(OPENAI_CHAT) = 2
      /\ PlaceOf(OPENAI_RESPONSES) = 3 /\ PlaceOf(CODEX_01540) = 4
      /\ PlaceOf(ANTHROPIC) = 5 /\ PlaceOf(GEMINI) = 6 /\ PlaceOf(AGENTS) = 7
  BY <1>2 DEF CODEX_01540, CODEX_01534, OPENAI_RESPONSES, OPENAI_CHAT, ANTHROPIC, GEMINI, AGENTS
<1>4. QED
  <2>1. \A i \in 1 .. 7 : i \in {1, 2, 3, 4, 5, 6, 7}
    OBVIOUS
  <2>2. QED
    BY <1>1, <1>3, <2>1, Zenon

LEMMA StatesOfRecords ==
    \A i \in 1 .. 7 : /\ CurrentRecords[i].state \in {"CERTIFIED", "PASSTHROUGH_ONLY"}
                      /\ CurrentRecords[i].state = "CERTIFIED" => i \in 1 .. 4
<1>1. QED
  BY DEF CurrentRecords, Record
\* An entry of the repository matches the client of its record and no other.
LEMMA EntriesMatchTheirOwn ==
    ASSUME NEW i \in 1 .. 7, NEW j \in 1 .. 7, NEW os,
           EntryMatches(CurrentEntries[j], CurrentRecords[i].key, os)
    PROVE  i = j
<1> DEFINE wanted == CurrentRecords[i].key
           own    == CurrentRecords[j].key
<1>1. /\ CurrentEntries[j].target = [own EXCEPT !.version = ""]
      /\ CurrentEntries[j].versions = {own.version} \ {""}
  BY RecordFields DEF CurrentEntries, Entry
<1>2. [wanted EXCEPT !.version = ""] = [own EXCEPT !.version = ""]
  BY <1>1 DEF EntryMatches
<1>3. wanted.protocol = own.protocol
  <2>1. [wanted EXCEPT !.version = ""].protocol = wanted.protocol
    BY RecordFields
  <2>2. [own EXCEPT !.version = ""].protocol = own.protocol
    BY RecordFields
  <2>3. QED
    BY <1>2, <2>1, <2>2
<1>4. wanted.version = own.version
  BY <1>1 DEF EntryMatches
<1>5. PlaceOf(wanted) = PlaceOf(own)
  BY <1>3, <1>4 DEF PlaceOf
<1>6. QED
  BY <1>5, KeysAreUnique

\* What the repository certifies, the policy certifies on Linux.
LEMMA CertifiedOnLinux ==
    ASSUME NEW i \in 1 .. 4
    PROVE  LET record == CurrentRecords[i]
           IN  Resolve(CurrentEntries, CurrentGenerations, record.key, "linux", "any")
                 = Record(record.key, "CERTIFIED", {record.evidence})
<1> DEFINE record == CurrentRecords[i]
           entry  == CurrentEntries[i]
<1>1. i \in 1 .. 7
  OBVIOUS
<1>2. /\ record.state = "CERTIFIED"
      /\ record \in OpenAIRecords \cup CodexRecords
  BY DEF CurrentRecords, Record, OpenAIRecords, CodexRecords
<1>3. /\ entry.target = [record.key EXCEPT !.version = ""]
      /\ entry.versions = {record.key.version} \ {""}
      /\ entry.oses = IF record.key.client = "codex" THEN {"linux"} ELSE {}
      /\ entry.os = IF entry.oses = {} THEN "OS_AGNOSTIC" ELSE "EXACT"
      /\ entry.state = "CERTIFIED" /\ entry.evidence = {record.evidence}
      /\ entry.generation = "compat-v1"
  BY <1>1, <1>2, RecordFields DEF CurrentEntries, Entry
<1>4. EntryMatches(entry, record.key, "linux")
  BY <1>3 DEF EntryMatches
<1>5. Matching(CurrentEntries, record.key, "linux") = {i}
  BY <1>1, <1>4, EntriesMatchTheirOwn, RecordFields DEF Matching
<1>6. Consistent(CurrentGenerations)
  BY DEF Consistent, CurrentGenerations
<1>7. Backed(entry, CurrentGenerations, "any")
  <2> DEFINE g == Generation("compat-v1", {r.evidence : r \in OpenAIRecords \cup CodexRecords})
  <2>1. g \in CurrentGenerations /\ g.id = "compat-v1" /\ record.evidence \in g.evidence
    BY <1>2 DEF CurrentGenerations, Generation
  <2>2. QED
    BY <1>3, <2>1 DEF Backed
<1>8. QED
  <2>1. \A k \in {i} : k = i
    OBVIOUS
  <2>2. (CHOOSE k \in {i} : TRUE) = i
    BY <2>1
  <2>3. QED
    BY <1>3, <1>5, <1>6, <1>7, <2>2 DEF Resolve

\* The registries hold what some detector was built with, and what a program added
\* for other clients.
Shipped(S) ==
    /\ \A i \in S :
          LET record == CurrentRecords[i]
          IN  /\ record.key \in DOMAIN profiles \cap DOMAIN records
              /\ profiles[record.key] = Profile(record.key, record.evidence)
              /\ records[record.key] = record
    /\ \A key \in DOMAIN profiles :
          (\E i \in S : key = CurrentRecords[i].key) \/ profiles[key] \in NewProfiles
    /\ \A key \in DOMAIN records :
          (\E i \in S : key = CurrentRecords[i].key) \/ records[key] \in NewRecords

FrameworkInv == \E S \in SUBSET (1 .. 7) : Shipped(S)

LEMMA DetectorsAreSubsets ==
    \A detector \in Detectors :
        \E S \in SUBSET (1 .. 7) : detector = {CurrentRecords[i] : i \in S}
<1> SUFFICES ASSUME NEW detector \in Detectors
             PROVE  \E S \in SUBSET (1 .. 7) : detector = {CurrentRecords[i] : i \in S}
  OBVIOUS
<1>1. CASE detector = OpenAIRecords
  <2>1. detector = {CurrentRecords[i] : i \in 1 .. 3} /\ 1 .. 3 \in SUBSET (1 .. 7)
    BY <1>1 DEF OpenAIRecords
  <2>2. QED
    BY <2>1
<1>2. CASE detector = CodexRecords
  <2>1. detector = {CurrentRecords[i] : i \in {4}} /\ {4} \in SUBSET (1 .. 7)
    BY <1>2 DEF CodexRecords
  <2>2. QED
    BY <2>1
<1>3. CASE \E j \in 5 .. 7 : detector = {CurrentRecords[j]}
  <2>1. PICK j \in 5 .. 7 : detector = {CurrentRecords[j]}
    BY <1>3
  <2>2. detector = {CurrentRecords[i] : i \in {j}} /\ {j} \in SUBSET (1 .. 7)
    BY <2>1
  <2>3. QED
    BY <2>2
<1>4. QED
  BY <1>1, <1>2, <1>3 DEF Detectors

LEMMA FrameworkStart == CertInit => FrameworkInv
<1> SUFFICES ASSUME CertInit PROVE FrameworkInv
  OBVIOUS
<1>1. PICK detector \in Detectors :
          /\ profiles = ByKey({Profile(r.key, r.evidence) : r \in detector})
          /\ records = ByKey(detector)
  BY DEF CertInit
<1>2. PICK S \in SUBSET (1 .. 7) : detector = {CurrentRecords[i] : i \in S}
  BY DetectorsAreSubsets
<1> DEFINE key(i) == CurrentRecords[i].key
           profile(i) == Profile(key(i), CurrentRecords[i].evidence)
<1>3. ASSUME NEW i \in S, NEW j \in S, key(i) = key(j) PROVE i = j
  BY <1>3, KeysAreUnique
<1>4. \A i \in S : profile(i).key = key(i)
  BY DEF Profile
<1>5. {Profile(r.key, r.evidence) : r \in detector} = {profile(i) : i \in S}
  BY <1>2
<1>6. /\ DOMAIN profiles = {key(i) : i \in S}
      /\ DOMAIN records = {key(i) : i \in S}
  BY <1>1, <1>2, <1>4, <1>5 DEF ByKey
<1>7. ASSUME NEW i \in S PROVE profiles[key(i)] = profile(i)
  <2>1. profiles[key(i)] = CHOOSE x \in {profile(j) : j \in S} : x.key = key(i)
    BY <1>1, <1>4, <1>5, <1>7 DEF ByKey
  <2>2. \A x \in {profile(j) : j \in S} : x.key = key(i) <=> x = profile(i)
    BY <1>3, <1>4, <1>7
  <2>3. QED
    BY <2>1, <2>2, <1>7
<1>8. ASSUME NEW i \in S PROVE records[key(i)] = CurrentRecords[i]
  <2>1. records[key(i)] = CHOOSE x \in {CurrentRecords[j] : j \in S} : x.key = key(i)
    BY <1>1, <1>2, <1>8 DEF ByKey
  <2>2. \A x \in {CurrentRecords[j] : j \in S} : x.key = key(i) <=> x = CurrentRecords[i]
    BY <1>3, <1>8
  <2>3. QED
    BY <2>1, <2>2, <1>8
<1>9. Shipped(S)
  BY <1>6, <1>7, <1>8 DEF Shipped
<1>10. QED
  BY <1>9 DEF FrameworkInv

LEMMA FrameworkStep == FrameworkInv /\ [CertNext]_certVars => FrameworkInv'
<1> SUFFICES ASSUME FrameworkInv, [CertNext]_certVars PROVE FrameworkInv'
  OBVIOUS
<1>1. PICK S \in SUBSET (1 .. 7) : Shipped(S)
  BY DEF FrameworkInv
<1>2. ASSUME NEW profile \in NewProfiles, RegisterProfile(profile) PROVE Shipped(S)'
  <2>1. /\ DOMAIN profiles' = DOMAIN profiles \cup {profile.key}
        /\ \A k \in DOMAIN profiles : profiles'[k] = profiles[k]
        /\ profile.key \notin DOMAIN profiles => profiles'[profile.key] = profile
    BY <1>2 DEF RegisterProfile, Registered
  <2>2. records' = records
    BY <1>2 DEF RegisterProfile
  <2>3. QED
    BY <1>1, <2>1, <2>2 DEF Shipped
<1>3. ASSUME NEW record \in NewRecords, RegisterRecord(record) PROVE Shipped(S)'
  <2>1. /\ DOMAIN records' = DOMAIN records \cup {record.key}
        /\ \A k \in DOMAIN records : records'[k] = records[k]
        /\ record.key \notin DOMAIN records => records'[record.key] = record
    BY <1>3 DEF RegisterRecord, Registered
  <2>2. profiles' = profiles
    BY <1>3 DEF RegisterRecord
  <2>3. QED
    BY <1>1, <2>1, <2>2 DEF Shipped
<1>4. CASE UNCHANGED <<profiles, records>>
  BY <1>1, <1>4 DEF Shipped, FrameworkInv
<1>5. CASE CertNext /\ ~UNCHANGED <<profiles, records>>
  <2>1. \/ \E profile \in NewProfiles : RegisterProfile(profile)
        \/ \E record \in NewRecords : RegisterRecord(record)
    BY <1>5 DEF CertNext, AddEntry, AddGeneration
  <2>2. Shipped(S)'
    BY <1>2, <1>3, <2>1
  <2>3. QED
    BY <2>2 DEF FrameworkInv
<1>6. QED
  BY <1>4, <1>5 DEF certVars

\* AgentIntegrationFramework.resolve and CertificationPolicy.resolve: on Linux the
\* framework executes for a client of the repository only what the policy
\* certifies, from the same evidence, or what a program registered by itself.
THEOREM FrameworkStaysWithinPolicy == CertSpec => []FrameworkWithinPolicy
<1>1. FrameworkInv => FrameworkWithinPolicy
  <2> SUFFICES ASSUME FrameworkInv, entries = CurrentEntries, generations = CurrentGenerations,
                      NEW key, NEW flag \in FlagStates,
                      AgentDecision(key, flag).effect = "execute"
               PROVE  LET certified == Resolve(entries, generations, key, "linux", "any")
                      IN  \/ /\ certified.state = "CERTIFIED"
                             /\ certified.evidence = {AgentDecision(key, flag).evidence}
                          \/ /\ key \in DOMAIN profiles \cap DOMAIN records
                             /\ profiles[key] \in NewProfiles /\ records[key] \in NewRecords
    BY DEF FrameworkWithinPolicy
  <2>1. PICK S \in SUBSET (1 .. 7) : Shipped(S)
    BY DEF FrameworkInv
  <2>2. PermittedEffect(flag, "PASSTHROUGH_ONLY") # "execute"
    BY DEF PermittedEffect
  <2>3. /\ key \in DOMAIN profiles \cap DOMAIN records
        /\ AgentDecision(key, flag).evidence = records[key].evidence
        /\ PermittedEffect(flag, records[key].state) = "execute"
    BY <2>2 DEF AgentDecision
  <2>4. CASE \E i \in S : key = CurrentRecords[i].key
    <3>1. PICK i \in S : key = CurrentRecords[i].key
      BY <2>4
    <3>2. records[key] = CurrentRecords[i] /\ i \in 1 .. 7
      BY <2>1, <3>1 DEF Shipped
    <3>3. i \in 1 .. 4
      BY <2>2, <2>3, <3>2, StatesOfRecords
    <3>4. Resolve(entries, generations, key, "linux", "any")
             = Record(key, "CERTIFIED", {CurrentRecords[i].evidence})
      BY <3>1, <3>3, CertifiedOnLinux
    <3>5. QED
      BY <2>3, <3>2, <3>4 DEF Record
  <2>5. CASE ~\E i \in S : key = CurrentRecords[i].key
    BY <2>1, <2>3, <2>5 DEF Shipped
  <2>6. QED
    BY <2>4, <2>5
<1>2. QED
  BY <1>1, FrameworkStart, FrameworkStep, PTL DEF CertSpec
=============================================================================
