--------------------------- MODULE MCIntegrations ---------------------------
(***************************************************************************)
(* The constants of Integrations for TLC: files an installation meets and  *)
(* what a user does to them between commands.                              *)
(***************************************************************************)
EXTENDS Integrations, TLC

Provider(id, u) == [id |-> id, url |-> u]
Config(providers, note) == [providers |-> providers, note |-> note]

\* One provider, two, and one without base_url; .env files that end with a
\* line end or without one, or have an OPENAI_BASE_URL of their own.
One == Config(<<Provider("router", "own1")>>, "n0")
Two == Config(<<Provider("router", "own1"), Provider("other", "own2")>>, "n0")
Bare == Config(<<Provider("router", NoUrl)>>, "n0")
Root(c, e, legacy) == [codex |-> c, openai_env |-> e, sidecar |-> legacy]

ManyRoots == {Root(One, <<"x", "nl">>, {}), Root(Bare, <<"key">>, {}),
              Root(Two, <<"key", "nl", "base", "nl">>, {}),
              Root(One, <<"x", "nl">>, {OtherSidecar("sidecar")}),
              Root(One, <<"x", "nl">>, {OtherSidecar("damaged")})}
PlainRoot == {Root(One, <<"key">>, {})}
CodexRoot == {Root(One, <<"x", "nl">>, {})}
OpenRoot  == {Root(Config(<<>>, "n0"), <<"key">>, {})}

\* A note of a Codex config changes or its base_url is set; a line is appended
\* to a .env that ends with a line end.
CodexEdits(c) == {[c EXCEPT !.note = "n1"]}
    \cup {[c EXCEPT !.providers[i].url = "own2"] : i \in DOMAIN c.providers}
EnvEdits(c) == IF c[Len(c)] \in Urls \cup {"nl"} THEN {c \o <<"y", "nl">>} ELSE {}

Edits(k, c)     == IF k = "codex" THEN CodexEdits(c) ELSE EnvEdits(c)
NoEdits(k, c)   == {}
Appends(k, c)   == IF k = "codex" THEN {} ELSE EnvEdits(c)
=============================================================================
