---------------------------- MODULE LineReducers ----------------------------
(***************************************************************************)
(* reducers.py: what the three text reducers make of the lines of one      *)
(* unprotected block that is no JSON container, in the order the engine    *)
(* runs them.  (Engine has when a reducer is tried, stores and rewrites,   *)
(* for any such functions; json_minify_v1 leaves a text like this alone.)  *)
(*                                                                         *)
(* A line is its words, one space apart.  ends counts the characters of    *)
(* line ends that joining the lines with "\n" does not give back: a line   *)
(* end after the last line, the "\r" of "\r\n".  The whitespace before a   *)
(* word goes with the word.                                                *)
(***************************************************************************)
EXTENDS Integers, FiniteSets, SequencesExt, TLC

CONSTANTS Originals,  \* the blocks: kind, lines and ends
          MinWords,   \* RetrievedDuplicateReducer.min_words
          MinTextChars, \* ToolOutputReducer.min_chars
          Edge,       \* ToolOutputReducer.edge_lines
          Anchors,    \* the phrases _ANCHOR_RE finds
          Guards,     \* those _EXPLICIT_GUARD_RE finds
          RefWord     \* [TOKEN_REF:...], for any ref

VARIABLES
    text,   \* the block as the engine passed it
    next,   \* the reducer, or the part of one, that runs next
    lines,  \* the text that the reducers so far have left
    ends,
    draft,  \* the lines of _collapse_text, those before at are done
    at

lineVars == <<text, next, lines, ends, draft, at>>

-----------------------------------------------------------------------------
(* Lines *)

RepeatWord == "  [repeated"             \* with the two spaces before it
CountWord(n) == "x" \o ToString(n) \o "]"

HasPhrase(line, phrase) ==
    \E i \in 1 .. Len(line) - Len(phrase) + 1 :
        SubSeq(line, i, i + Len(phrase) - 1) = phrase

Finds(line, phrases) == \E phrase \in phrases : HasPhrase(line, phrase)

Chars(line) ==
    FoldLeft(LAMBDA n, word : n + Len(word), 0, line)
    + Cardinality({i \in 2 .. Len(line) : line[i] # RepeatWord})

\* len() of the lines joined by "\n", with what more their line ends take.
Length(ls, more) ==
    FoldLeft(LAMBDA n, line : n + Chars(line), 0, ls) + Len(ls) - 1 + more

\* What splitlines() finds in the lines joined by "\n": an empty last line has
\* become the line end of the one before it.
EndsEmpty(ls)  == Last(ls) = <<>>
SplitLines(ls) == IF EndsEmpty(ls) THEN Front(ls) ELSE ls
SplitEnds(ls)  == IF EndsEmpty(ls) THEN 1 ELSE 0

\* With min_words 0 the empty span would repeat everywhere, with edge_lines 0
\* lines[0:-0] is empty; the engine uses 8 and 8.  No text has words of TOKEN's
\* own (it would read like a rewriting; the recovery store tells what it was).
ASSUME LinesAssumption ==
    /\ MinWords \in Nat \ {0} /\ MinTextChars \in Nat /\ Edge \in Nat \ {0}
    /\ \A t \in Originals : /\ t.lines # <<>>
                            /\ Last(t.lines) = <<>> => t.ends > 0
                            /\ \A line \in ToSet(t.lines) :
                                  ToSet(line) \cap {RepeatWord, RefWord} = {}

LinesInit ==
    /\ text \in Originals
    /\ next  = "repeat_runs"
    /\ lines = text.lines
    /\ ends  = text.ends
    /\ draft = <<>>
    /\ at    = 1

-----------------------------------------------------------------------------
(* RepeatedLineReducer *)

\* Where the runs of equal lines start, and where the k-th of them ends.
Starts(ls) == SelectSeq([i \in DOMAIN ls |-> i],
                        LAMBDA i : i = 1 \/ ls[i] # ls[i - 1])
EndOfRun(ls, k) ==
    IF k = Len(Starts(ls)) THEN Len(ls) ELSE Starts(ls)[k + 1] - 1

Written(line, count) ==
    IF count = 1 THEN line ELSE line \o <<RepeatWord, CountWord(count)>>

\* Mutant of CountRuns: the run the loop ends in is written without its count.
CountRunsButLast(ls) ==
    [k \in DOMAIN Starts(ls) |->
        Written(ls[Starts(ls)[k]],
                IF k = Len(Starts(ls)) THEN 1 ELSE EndOfRun(ls, k) - Starts(ls)[k] + 1)]

CountRuns(ls) ==
    [k \in DOMAIN Starts(ls) |->
        Written(ls[Starts(ls)[k]], EndOfRun(ls, k) - Starts(ls)[k] + 1)]

RepeatRuns ==
    LET candidate == CountRuns(lines) IN
    /\ next = "repeat_runs"
    /\ IF Len(lines) >= 2 /\ Length(candidate, 0) < Length(lines, ends)
       THEN lines' = SplitLines(candidate) /\ ends' = SplitEnds(candidate)
       ELSE UNCHANGED <<lines, ends>>
    /\ next' = "evidence"
    /\ UNCHANGED <<text, draft, at>>

-----------------------------------------------------------------------------
(* RetrievedDuplicateReducer *)

\* Where a span of words stands twice in a row.
AdjacentRepeats(line) ==
    {[start |-> s, span |-> n] :
        <<s, n>> \in {p \in (DOMAIN line) \X (MinWords .. Len(line) \div 2) :
                         /\ p[1] + 2 * p[2] - 1 =< Len(line)
                         /\ SubSeq(line, p[1], p[1] + p[2] - 1)
                            = SubSeq(line, p[1] + p[2], p[1] + 2 * p[2] - 1)}}

\* The first of the longest.
LongestAdjacentRepeat(line) ==
    CHOOSE r \in AdjacentRepeats(line) :
        \A q \in AdjacentRepeats(line) :
            q.span < r.span \/ (q.span = r.span /\ r.start =< q.start)

\* Mutants of Collapsed: the end of the second span is missed by a word; what
\* is kept on the right starts where it starts on the left.
CollapsedOneShort(line) ==
    LET r == LongestAdjacentRepeat(line)
    IN  SubSeq(line, 1, r.start + r.span - 1)
        \o SubSeq(line, r.start + 2 * r.span - 1, Len(line))

CollapsedToItself(line) ==
    LET r == LongestAdjacentRepeat(line)
    IN  SubSeq(line, 1, r.start + r.span - 1) \o SubSeq(line, r.start + r.span, Len(line))

\* The line without the second of the two.
Collapsed(line) ==
    LET r == LongestAdjacentRepeat(line)
    IN  SubSeq(line, 1, r.start + r.span - 1)
        \o SubSeq(line, r.start + 2 * r.span, Len(line))

\* The early returns of reduce.
StartEvidence ==
    /\ next = "evidence"
    /\ IF \/ text.kind \notin {"retrieved", "tool_output"}
          \/ \E line \in ToSet(lines) : Finds(line, Guards)
       THEN next' = "tool_output" /\ UNCHANGED <<draft, at>>
       ELSE next' = "collapse" /\ draft' = lines /\ at' = 1
    /\ UNCHANGED <<text, lines, ends>>

\* The body of `while True`, for the line at.
CollapseOnce ==
    /\ next = "collapse" /\ at =< Len(draft)
    /\ AdjacentRepeats(draft[at]) # {}
    /\ draft' = [draft EXCEPT ![at] = Collapsed(@)]
    /\ UNCHANGED <<text, next, lines, ends, at>>

NextLine ==
    /\ next = "collapse" /\ at =< Len(draft)
    /\ AdjacentRepeats(draft[at]) = {}
    /\ at' = at + 1
    /\ UNCHANGED <<text, next, lines, ends, draft>>

\* Line ends are kept (keepends), so they make no difference to the lengths.
FinishEvidence ==
    /\ next = "collapse" /\ at > Len(draft)
    /\ lines' = IF Length(draft, ends) < Length(lines, ends) THEN draft ELSE lines
    /\ next' = "tool_output"
    /\ UNCHANGED <<text, ends, draft, at>>

-----------------------------------------------------------------------------
(* ToolOutputReducer *)

Middle(ls) == SubSeq(ls, Edge + 1, Len(ls) - Edge)

\* Mutant of AnchorsOf: the search starts a line late.
AnchorsOfLate(ls) == SelectSeq(Tail(Middle(ls)), LAMBDA line : Finds(line, Anchors))

AnchorsOf(ls) == SelectSeq(Middle(ls), LAMBDA line : Finds(line, Anchors))

\* "\n".join(dict.fromkeys(...)): of equal lines the first.
Once(ls) ==
    LET kept == SelectSeq([i \in DOMAIN ls |-> i],
                          LAMBDA i : \A j \in 1 .. i - 1 : ls[j] # ls[i])
    IN  [k \in DOMAIN kept |-> ls[kept[k]]]

\* Mutant of CutMiddle: what was found in the middle is put last.
CutMiddleAnchorsLast(ls) ==
    Once(SubSeq(ls, 1, Edge) \o SubSeq(ls, Len(ls) - Edge + 1, Len(ls))
         \o AnchorsOf(ls) \o <<<<RefWord>>>>)

CutMiddle(ls) ==
    Once(SubSeq(ls, 1, Edge) \o AnchorsOf(ls) \o <<<<RefWord>>>>
         \o SubSeq(ls, Len(ls) - Edge + 1, Len(ls)))

ToolOutput ==
    LET candidate == CutMiddle(lines) IN
    /\ next = "tool_output"
    /\ IF /\ text.kind = "tool_output"
          /\ Length(lines, ends) >= MinTextChars
          /\ Len(lines) > 2 * Edge + 1
          /\ Length(candidate, 0) < Length(lines, ends)
       THEN lines' = SplitLines(candidate) /\ ends' = SplitEnds(candidate)
       ELSE UNCHANGED <<lines, ends>>
    /\ next' = "done"
    /\ UNCHANGED <<text, draft, at>>

-----------------------------------------------------------------------------
LinesNext ==
    \/ RepeatRuns
    \/ StartEvidence \/ CollapseOnce \/ NextLine \/ FinishEvidence
    \/ ToolOutput

\* The thread that reduces a block is not held up.
LinesSpec == LinesInit /\ [][LinesNext]_lineVars /\ WF_lineVars(LinesNext)

-----------------------------------------------------------------------------
(* Properties *)

Counted(line) == Len(line) >= 2 /\ line[Len(line) - 1] = RepeatWord
Uncounted(line) == IF Counted(line) THEN SubSeq(line, 1, Len(line) - 2) ELSE line
Times(line) == IF ~Counted(line) THEN 1
               ELSE CHOOSE n \in 2 .. Len(text.lines) : Last(line) = CountWord(n)

\* The lines that are the text's, without the words TOKEN put there.
Kept(ls) == [i \in DOMAIN ls |-> Uncounted(ls[i])]
OfTheText(ls) == SelectSeq(Kept(ls), LAMBDA line : line # <<RefWord>>)

\* [repeated xN] says what was there: with every counted line written out N
\* times, what RepeatedLineReducer leaves is the lines it got, the run the loop
\* ends in included (a text that ends in an empty line may lose that one).
RunsReadBack ==
    next \in {"evidence", "collapse"} =>
        LET read == FlattenSeq([i \in DOMAIN lines |->
                        [k \in 1 .. Times(lines[i]) |-> Uncounted(lines[i])]])
        IN  text.lines \in {read, Append(read, <<>>)}

Windows(line) ==
    {SubSeq(line, p[1], p[2]) :
        p \in {q \in (DOMAIN line) \X (DOMAIN line) : q[1] =< q[2] /\ q[2] - q[1] =< MinWords}}

\* Taking spans out of a line, over and over, joins nothing that did not stand
\* together: up to MinWords + 1 words in a row of what is left (a decision, an
\* error and its cause) were in a row in the text.
NoNewPhrase ==
    \A ls \in {lines, draft} : \A line \in ToSet(OfTheText(ls)) :
        Windows(line) \subseteq UNION {Windows(old) : old \in ToSet(text.lines)}

\* Each word of s is found in t after the place of the one before it.
IsSubsequence(s, t) ==
    FoldLeft(LAMBDA place, word :
                Min({i \in place + 1 .. Len(t) : t[i] = word} \cup {Len(t) + 1}),
             0, s) =< Len(t)

\* No reducer and no sequence of them puts words in another order or adds any:
\* head, anchors and tail stay in the order of the log they are from.
OrderIsKept ==
    IsSubsequence(FlattenSeq(OfTheText(lines)), FlattenSeq(text.lines))

Matters(i) ==
    \/ i =< Edge \/ i > Len(text.lines) - Edge
    \/ \E phrase \in Anchors : Len(phrase) = 1 /\ HasPhrase(text.lines[i], phrase)

\* Old output may lose its middle, but not the lines that matter (tests/
\* test_reducers.py "keeps_critical_middle_line_visible"): after all reducers
\* every line at an edge and every line with a word like error or failed is
\* there with all its words, whatever its repeats were collapsed to before
\* ToolOutputReducer looked for them.  (Of `exit code`, two words, a collapse
\* may leave one on each side of what it removes.)
CriticalLinesStay ==
    next = "done" => \A i \in DOMAIN text.lines : Matters(i) =>
        \E line \in ToSet(lines) : ToSet(text.lines[i]) \subseteq ToSet(line)

\* The loop of _collapse_line has no bound but the line that shrinks under it:
\* it ends on every line, and so the reducers on every block.
ReductionEnds == next = "repeat_runs" ~> next = "done"
=============================================================================
