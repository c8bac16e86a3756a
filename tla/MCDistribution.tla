--------------------------- MODULE MCDistribution ---------------------------
(***************************************************************************)
(* One qualification run of one of two commits and one publication of      *)
(* either, with an edit of the checkout, a changed archive and a second    *)
(* attempt.                                                                *)
(***************************************************************************)
EXTENDS Distribution

Tree(runtime, rest) == [runtime |-> runtime, rest |-> rest]

\* The version of the release, an earlier one, and a file the audit refuses.
MCVersionOf == [r1 |-> "0.1.0a3", r2 |-> "0.1.0a3", old |-> "0.1.0a2", leak |-> "0.1.0a3"]

\* A pull request of c1 merges into c1's own runtime, one of c2 does not.
MCTreeOf == [c1 |-> Tree("x", "r1"), c2 |-> Tree("y", "r1")]
MCMergedTreeOf == [c1 |-> Tree("x", "r2"), c2 |-> Tree("x", "old")]

MCEdited == {Tree("y", "r1"), Tree("x", "leak")}
=============================================================================
