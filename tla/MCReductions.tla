--------------------------- MODULE MCReductions ----------------------------
(***************************************************************************)
(* What optimize makes of one request: of its blocks, with texts that are  *)
(* only named (Engine), and of the lines of one text (LineReducers).  The  *)
(* two share no state; each is checked from its own initial states while   *)
(* the other stands still.                                                 *)
(***************************************************************************)
EXTENDS MCEngine, LineReducers

VARIABLE procedure

reductionVars == <<procedure, engineVars, lineVars>>

NoText == [kind |-> "assistant", lines |-> <<<<"a">>>>, ends |-> 0]

ReductionsInit ==
    /\ procedure \in {"blocks", "lines"}
    /\ EngineInit
    /\ IF procedure = "lines" THEN LinesInit
       ELSE /\ text = NoText /\ lines = NoText.lines /\ ends = 0
            /\ next = "done" /\ draft = <<>> /\ at = 1

ReduceBlocks ==
    procedure = "blocks" /\ EngineNext /\ UNCHANGED <<procedure, lineVars>>

ReduceLines ==
    procedure = "lines" /\ LinesNext /\ UNCHANGED <<procedure, engineVars>>

ReductionsNext == ReduceBlocks \/ ReduceLines

ReductionsSpec ==
    ReductionsInit /\ [][ReductionsNext]_reductionVars /\ WF_reductionVars(ReduceLines)
-----------------------------------------------------------------------------
(* The texts of LineReducers *)

LinesUpto(n, S) == UNION {[1 .. m -> S] : m \in 1 .. n}

\* Every line of up to eight words over two, which has repeats of two to four
\* words inside and behind each other, and of up to six over three.
LongLines == LinesUpto(8, {"a", "b"}) \cup LinesUpto(6, {"a", "b", "c"})

\* Lines that repeat, an anchor that repeats, a guard, an empty line; and the
\* phrases of two words, one of them only where the spans meet.
Noise == <<"a-diagnostic-line-of-some-length">>
LogLines == {Noise, <<"a", "b", "a", "b">>, <<"error", "a", "error", "a">>,
             <<"must">>, <<>>}
PhraseLines == {Noise, <<"exit", "code">>, <<"code", "exit", "code", "exit">>, <<"do", "not">>}

Blocks == [kind : {"retrieved"}, lines : {<<line>> : line \in LongLines}, ends : {0}]
    \cup [kind : {"tool_output"}, lines : LinesUpto(5, LogLines), ends : {0}]
    \cup [kind : {"tool_output"}, lines : LinesUpto(4, LogLines), ends : {1}]
    \cup [kind : {"tool_output"}, lines : LinesUpto(4, PhraseLines), ends : {0}]
    \cup [kind : {"assistant"}, lines : LinesUpto(2, LogLines), ends : {1}]

MCOriginals == {b \in Blocks : Last(b.lines) = <<>> => b.ends = 1}

MCAnchors == {<<"error">>, <<"must">>, <<"exit", "code">>}
MCGuards == {<<"must">>, <<"do", "not">>}
=============================================================================
