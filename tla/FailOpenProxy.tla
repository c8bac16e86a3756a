--------------------------- MODULE FailOpenProxy ---------------------------
(***************************************************************************)
(* What the gateway promises a client, free of how it works: each request  *)
(* is forwarded at most once, either as the bytes that came in or as a     *)
(* faithful rewriting of a request that may be rewritten, and the texts a  *)
(* rewriting removed stay recoverable for good.  Nothing else ever reaches *)
(* the upstream; a request may also be dropped.                            *)
(***************************************************************************)
EXTENDS Rewriting

CONSTANTS Requests,   \* the identities of client requests
          Inputs      \* what a client may send

VARIABLES fate,       \* what became of each request
          request,    \* what the client sent
          wire,       \* the messages the upstream received for it
          kept        \* the recoverable texts

proxyVars == <<fate, request, wire, kept>>

RawMessage == [rewritten |-> FALSE, body |-> <<>>]

\* The messages that may stand for the input r once the texts in k are kept.
MayRewrite(r) == /\ r.endpoint = "supported" /\ r.payload = "object"
                 /\ BypassReasons(r.env) = {}

Admissible(r, m, k) ==
    \/ m = RawMessage
    \/ /\ m.rewritten
       /\ MayRewrite(r)
       /\ Faithful(r.env.blocks, m.body, k)

ProxyInit ==
    /\ fate = [q \in Requests |-> "new"]
    /\ request \in [Requests -> Inputs]
    /\ wire = [q \in Requests |-> <<>>]
    /\ kept = {}

Open(q) ==
    /\ fate[q] = "new"
    /\ fate' = [fate EXCEPT ![q] = "open"]
    /\ UNCHANGED <<request, wire, kept>>

Keep ==
    /\ kept \subseteq kept'
    /\ UNCHANGED <<fate, request, wire>>

Forward(q) ==
    /\ fate[q] = "open"
    /\ fate' = [fate EXCEPT ![q] = "sent"]
    /\ DOMAIN wire'[q] = {1}
    /\ Admissible(request[q], wire'[q][1], kept)
    /\ wire' = [wire EXCEPT ![q] = wire'[q]]
    /\ UNCHANGED <<request, kept>>

Answer(q) ==
    /\ fate[q] = "sent"
    /\ fate' = [fate EXCEPT ![q] = "answered"]
    /\ UNCHANGED <<request, wire, kept>>

\* The connection of every request in Q ends without a complete answer; one
\* request's handler fails, or the process dies with all that are open.
Drop(Q) ==
    /\ \A q \in Q : fate[q] \in {"new", "open", "sent"}
    /\ fate' = [q \in Requests |-> IF q \in Q THEN "dropped" ELSE fate[q]]
    /\ UNCHANGED <<request, wire, kept>>

ProxyNext ==
    \/ \E q \in Requests : Open(q) \/ Forward(q) \/ Answer(q)
    \/ Keep
    \/ \E Q \in SUBSET Requests : Drop(Q)

ProxySpec == ProxyInit /\ [][ProxyNext]_proxyVars
=============================================================================
