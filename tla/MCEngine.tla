------------------------------ MODULE MCEngine ------------------------------
(***************************************************************************)
(* The constants of Engine for TLC: one text for each way a reducer or the *)
(* planner can treat it, and the envelopes built from them.                *)
(***************************************************************************)
EXTENDS Engine, TLC

F(len, lines) == [constraint |-> FALSE, decisions |-> {}, exactEdit |-> FALSE,
                  json |-> FALSE, lines |-> lines, length |-> len, units |-> len]

\* log -> folded -> cut is rewritten twice; block of a tool output that stays
\* as long (dense) is stored and kept; once is too short for a marker.
MCAttr ==
    [note   |-> F(3, 1),
     log    |-> F(12, 6),
     folded |-> F(9, 5),
     cut    |-> F(7, 3),
     dense  |-> F(9, 4),
     echo   |-> F(8, 1),
     once   |-> F(4, 1),
     table  |-> [F(10, 3) EXCEPT !.json = TRUE],
     packed |-> [F(8, 1) EXCEPT !.json = TRUE, !.units = 10],
     rule   |-> [F(8, 3) EXCEPT !.constraint = TRUE],
     ruled  |-> [F(6, 2) EXCEPT !.constraint = TRUE],
     choice |-> [F(8, 3) EXCEPT !.decisions = {"x"}],
     chosen |-> [F(6, 2) EXCEPT !.decisions = {"x"}],
     other  |-> [F(3, 1) EXCEPT !.decisions = {"y"}],
     patch  |-> [F(12, 6) EXCEPT !.exactEdit = TRUE]]

MCTexts == DOMAIN MCAttr
MCDecisions == {"x", "y"}

Same == [t \in MCTexts |-> t]
MCCandidate ==
    [json_minify_v1 |-> [Same EXCEPT !.table = "packed"],
     repeat_runs_v1 |-> [Same EXCEPT !.log = "folded", !.rule = "ruled",
                                     !.choice = "chosen", !.patch = "folded"],
     evidence_exact_duplicate_v1 |-> [Same EXCEPT !.echo = "once"],
     tool_output_v1 |-> [Same EXCEPT !.folded = "cut", !.patch = "cut"]]

BlocksOver(kinds, turns, texts) == [kind : kinds, turn : turns, text : texts]
Upto(n, S) == UNION {[1 .. m -> S] : m \in 0 .. n}
Wrap(seqs, safe) == [blocks : seqs, wireSafe : safe]

\* Every envelope of up to three blocks over the texts reducers act on, and of
\* up to two blocks over all texts, kinds and wire shapes.
AllEnvelopes ==
    Wrap(Upto(3, BlocksOver({"assistant", "tool_output", "retrieved"}, {0, 1},
                            {"log", "echo", "table", "dense"})), {TRUE})
    \cup Wrap(Upto(2, BlocksOver({"system", "tool_call", "user", "assistant",
                                  "tool_output"}, {0, 1},
                                 MCTexts \ {"folded", "ruled", "chosen"})),
              BOOLEAN)

B(kind, turn, text) == [kind |-> kind, turn |-> turn, text |-> text]
Ask == B("user", 3, "note")

\* Conversations for the concurrent runs: three equal old outputs, a chain of
\* two rewritings, a mix with JSON, a protected rule, a bypass, an empty one.
Conversations ==
    Wrap({<<B("tool_output", 0, "log"), B("tool_output", 1, "log"),
            B("tool_output", 2, "log")>>,
          <<B("tool_output", 0, "table"), B("tool_output", 1, "log"), Ask>>,
          <<B("assistant", 0, "log"), B("retrieved", 1, "echo"), Ask>>,
          <<B("retrieved", 0, "rule"), B("tool_output", 1, "dense"), Ask>>,
          <<B("user", 0, "choice"), B("assistant", 0, "other")>>,
          <<>>}, {TRUE})

CallSymmetry == Permutations(Calls)
=============================================================================
