------------------------------ MODULE Planner ------------------------------
(***************************************************************************)
(* planner.py: which blocks of a request no reducer may touch, and for     *)
(* which reasons a whole request is left alone.                            *)
(*                                                                         *)
(* A text is a value of the set Texts; Attr gives the features of a text   *)
(* that the planner and the reducers look at (the regular expressions, the *)
(* JSON test and the lengths of the code are abstracted to these fields):  *)
(*   constraint  it matches _CONSTRAINT_RE                                 *)
(*   decisions   the distinct normalised DECISION lines in it              *)
(*   exactEdit   it contains one of _EXACT_EDIT_MARKERS                    *)
(*   json        json.loads returns a dict or a list for it                *)
(*   lines       the number of lines splitlines() finds                    *)
(*   length      len(text)                                                 *)
(*   units       the number of matches of _TOKEN_RE                        *)
(* A block is identified by its position in the envelope: adapters give    *)
(* every block of a payload an id of its own.                              *)
(***************************************************************************)
EXTENDS Integers, Sequences, FiniteSets

CONSTANTS Texts,      \* the texts a block can hold
          Decisions,  \* the normalised decisions a text can state
          Attr        \* [Texts -> Features]

Features == [constraint : BOOLEAN, decisions : SUBSET Decisions,
             exactEdit : BOOLEAN, json : BOOLEAN,
             lines : Nat, length : Nat, units : Nat]

ASSUME AttrAssumption == Attr \in [Texts -> Features]

ProtocolKinds == {"system", "developer", "tools", "tool_schema", "tool_call",
                  "function_call"}
EvidenceKinds == {"retrieved", "tool_output"}
Kinds == ProtocolKinds \cup EvidenceKinds \cup {"user", "assistant", "protocol_state"}

Block    == [kind : Kinds, turn : Nat, text : Texts]
Envelope == [blocks : Seq(Block), wireSafe : BOOLEAN]

-----------------------------------------------------------------------------
(* Protection *)

InLatestTurn(blocks, i) ==
    \A j \in DOMAIN blocks : blocks[j].turn =< blocks[i].turn

\* max((turn, index)) of the blocks of one kind, compared as Python compares
\* tuples; empty when the envelope has no block of that kind.
LatestOfKind(blocks, kind) ==
    {i \in DOMAIN blocks :
        /\ blocks[i].kind = kind
        /\ \A j \in DOMAIN blocks :
              blocks[j].kind = kind =>
                 \/ blocks[j].turn < blocks[i].turn
                 \/ blocks[j].turn = blocks[i].turn /\ j =< i}

StatesDecision(blocks, i) == Attr[blocks[i].text].decisions # {}

\* Mutants of Protected, each without one of its sources.
ProtectedNoLatestTurn(blocks) ==
    {i \in DOMAIN blocks :
        \/ blocks[i].kind \in ProtocolKinds
        \/ Attr[blocks[i].text].constraint
        \/ i \in LatestOfKind(blocks, "user")
        \/ i \in LatestOfKind(blocks, "tool_output")
        \/ StatesDecision(blocks, i)}

Protected(blocks) ==
    {i \in DOMAIN blocks :
        \/ blocks[i].kind \in ProtocolKinds
        \/ Attr[blocks[i].text].constraint
        \/ InLatestTurn(blocks, i)
        \/ i \in LatestOfKind(blocks, "user")
        \/ i \in LatestOfKind(blocks, "tool_output")
        \/ StatesDecision(blocks, i)}

-----------------------------------------------------------------------------
(* Bypass *)

ActiveDecisions(blocks) ==
    UNION {Attr[blocks[i].text].decisions :
             i \in {j \in DOMAIN blocks : /\ InLatestTurn(blocks, j)
                                          /\ blocks[j].kind \notin ProtocolKinds}}

StructuredDecision(blocks) ==
    /\ \E i \in DOMAIN blocks : StatesDecision(blocks, i)
    /\ \E i \in DOMAIN blocks : /\ blocks[i].kind = "tool_output"
                                /\ Attr[blocks[i].text].json

BypassReasons(env) ==
    {r \in {"unsupported_wire_shape", "exact_edit_context",
            "competing_active_decisions", "structured_decision_context"} :
        CASE r = "unsupported_wire_shape" -> ~env.wireSafe
          [] r = "exact_edit_context" ->
                \E i \in DOMAIN env.blocks : Attr[env.blocks[i].text].exactEdit
          [] r = "competing_active_decisions" ->
                Cardinality(ActiveDecisions(env.blocks)) > 1
          [] r = "structured_decision_context" -> StructuredDecision(env.blocks)}
=============================================================================
