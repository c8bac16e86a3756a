----------------------------- MODULE Rewriting -----------------------------
(***************************************************************************)
(* What may be sent upstream in place of a request: the vocabulary the     *)
(* engine, the gateway and the specification of the proxy share.           *)
(***************************************************************************)
EXTENDS Planner

\* A block on its way out: text, or (dup # 0) the marker that says the text is
\* in block dup and names this block's own original in the store.
WireBlock == [text : Texts, dup : Nat]

Original(blocks) == [i \in DOMAIN blocks |-> [text |-> blocks[i].text, dup |-> 0]]

Replaced(blocks, body) == {i \in DOMAIN blocks : body[i] # Original(blocks)[i]}

-----------------------------------------------------------------------------
(* The promises README makes of a rewritten request.                       *)

\* "How it works": the active turn, the newest user message and tool output
\* (current evidence), protocol state, hard constraints and decisions.
ActiveContext(blocks) ==
    LET newer(i, j) == \/ blocks[j].turn > blocks[i].turn
                       \/ blocks[j].turn = blocks[i].turn /\ j > i
        newest(kind) == {i \in DOMAIN blocks :
                            /\ blocks[i].kind = kind
                            /\ ~\E j \in DOMAIN blocks :
                                  blocks[j].kind = kind /\ newer(i, j)}
        activeTurn == {i \in DOMAIN blocks :
                          ~\E j \in DOMAIN blocks : blocks[j].turn > blocks[i].turn}
        binding == {i \in DOMAIN blocks :
                       \/ blocks[i].kind \in ProtocolKinds
                       \/ Attr[blocks[i].text].constraint
                       \/ Attr[blocks[i].text].decisions # {}}
    IN  activeTurn \cup newest("user") \cup newest("tool_output") \cup binding

KeepsContext(blocks, body) ==
    Replaced(blocks, body) \cap ActiveContext(blocks) = {}

\* "Reversible": the original of every replaced block is in the store.
IsRecoverable(blocks, body, stored) ==
    \A i \in Replaced(blocks, body) : blocks[i].text \in stored

\* A marker names a block of the same request that carries the text in full.
MarkersResolve(body) ==
    \A i \in DOMAIN body :
        body[i].dup # 0 =>
            /\ body[i].dup \in DOMAIN body
            /\ body[body[i].dup] = [text |-> body[i].text, dup |-> 0]

Faithful(blocks, body, stored) ==
    /\ DOMAIN body = DOMAIN blocks
    /\ KeepsContext(blocks, body)
    /\ IsRecoverable(blocks, body, stored)
    /\ MarkersResolve(body)
=============================================================================
