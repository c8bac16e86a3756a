---------------------------- MODULE MCProtocols ----------------------------
(***************************************************************************)
(* What TOKEN understands of a protocol, what it is certified for, and the *)
(* live run that gathers evidence: three procedures that share no state,   *)
(* each checked from its own initial states while the others stand still.  *)
(***************************************************************************)
EXTENDS MCAdapters, LiveCanary, Certification

VARIABLE procedure

ProtocolsInit ==
    /\ procedure \in {"request", "canary", "certification"}
    /\ AdaptedInit
    /\ procedure # "canary" => offline = TRUE /\ provider = [binding |-> "binds", caches |-> TRUE]
    /\ CanaryInit
    /\ CertInit
    /\ procedure # "certification" => DOMAIN records = {CODEX_01540}

ProtocolsNext ==
    /\ UNCHANGED procedure
    /\ \/ procedure = "request" /\ AdaptedNext /\ UNCHANGED <<canaryVars, certVars>>
       \/ procedure = "canary" /\ CanaryNext /\ UNCHANGED <<adaptedVars, certVars>>
       \/ procedure = "certification" /\ CertNext /\ UNCHANGED <<adaptedVars, canaryVars>>

ProtocolsSpec == ProtocolsInit /\ [][ProtocolsNext]_<<procedure, adaptedVars, canaryVars, certVars>>
-----------------------------------------------------------------------------
(* The live run: the rates of the source, in quarters of a micro-dollar, and *)
(* requests of a few bytes.                                                  *)

MCSize == [stable |-> 4, mutated |-> 5, message |-> 1]

Tokens(input, written, read, output) ==
    [input |-> input, written |-> written, read |-> read, output |-> output]

\* The least, the most a seed may cost, cached and uncached later requests.
MCUsages == {Tokens(1, 0, 0, 1), Tokens(0, 5, 0, 2), Tokens(1, 0, 4, 2), Tokens(2, 5, 0, 1)}

Thought(type) == NativePart(type, "chain")
Call == NativePart("tool_use", "call_1")

MCSeedContents ==
    {<<Thought("thinking"), Call>>,
     <<Thought("thinking"), Thought("redacted_thinking"), Call>>,
     <<Call>>,
     <<Thought("thinking"), [Call EXCEPT !.exact = FALSE]>>,
     <<Thought("thinking"), NativePart("text", "aside"), Call>>}
-----------------------------------------------------------------------------
(* The next matrix, and what a program may register *)

CODEX_NEXT == Key("codex", "responses", "openai-compatible", "0.155.0")
NextRecord == Record(CODEX_NEXT, "CERTIFIED", "next")

\* A new version, one whose generation comes later, every system for a version
\* that has one, two versions on two systems, and one that only takes away.
MCNewEntries ==
    {Entry(CODEX_NEXT, {"linux"}, NextRecord, "compat-v2"),
     Entry(CODEX_01540, {}, CurrentRecords[4], "compat-v1"),
     [Entry(CODEX_NEXT, {}, CurrentRecords[4], "compat-v1") EXCEPT
         !.versions = {"0.154.0", "0.155.0"}, !.os = "TESTED_SET", !.oses = {"macos", "windows"}],
     [Entry(OPENAI_CHAT, {}, CurrentRecords[2], "compat-v1") EXCEPT !.evidence = {}]}

MCNewGenerations == {Generation("compat-v1", {"next"}), Generation("compat-v2", {"next"})}
MCNewProfiles == {Profile(CODEX_NEXT, "next"), Profile(CODEX_01540, "other"),
                  Profile(OPENAI_CHAT, "other")}
MCNewRecords == {Record(CODEX_NEXT, "CANARY", "next"), Record(CODEX_01540, "BLOCKED", "other"),
                 Record(CODEX_NEXT, "CERTIFIED", "unknown"),
                 Record(OPENAI_CHAT, "CERTIFIED", "other")}
=============================================================================
