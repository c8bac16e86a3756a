---------------------------- MODULE Integrations ----------------------------
(***************************************************************************)
(* integrations.py and the install and uninstall commands of cli.py:       *)
(* processes that run one such command after another on one root.          *)
(*                                                                         *)
(* A command goes through the integrations it detected, in order.  Its     *)
(* steps are the reads, opens, writes, renames and unlinks of files, the   *)
(* points where another process or the user's editor may come between,     *)
(* where an operation may fail and where the process may be killed.        *)
(* --dry-run changes nothing and is left out.  Of two writes to one file   *)
(* the later is taken to win whole.                                        *)
(***************************************************************************)
EXTENDS ManagedFiles

CONSTANTS Processes,       \* what runs `token install` and `token uninstall`
          MaxEdits,        \* bound: edits by the user
          EditsOf(_, _),   \* what the user may make of a kind's file
          Faults,          \* what may happen: "write", "kill"
          Roots            \* the files and the Codex sidecars a root can start with

Kinds == <<"codex", "openai_env">>     \* in the order of detect_integrations
KindSet == {Kinds[i] : i \in DOMAIN Kinds}

\* Before TOKEN ran no file pointed to the gateway or had a block; a sidecar is
\* of a version before this one, or damaged.
ASSUME RootsAssumption ==
    \A r \in Roots :
        /\ r.codex \in CodexConfig
        /\ \A i \in DOMAIN r.codex.providers : r.codex.providers[i].url \notin Urls
        /\ r.openai_env \in EnvFile /\ Blocks(r.openai_env) = {}
        /\ r.sidecar \in {{}, {OtherSidecar("sidecar")}, {OtherSidecar("damaged")}}
ASSUME EditsAssumption == MaxEdits \in Nat

VARIABLES
    file,      \* the configuration files
    sidecar,   \* the metadata of each, a set of at most one
    fileTmp,   \* <name>.token-tmp next to each file
    metaTmp,   \* and next to each sidecar; sets of at most one
    handle,    \* what the file a process has open to write has become
    command,   \* what each process runs: "install", "uninstall"
    url,       \* the gateway_url of an install
    todo,      \* the integrations it has left; the first is in progress
    at,        \* where it is
    plan,      \* its plan for that one
    own,       \* what the files would be had TOKEN never run
    touched,   \* did the user save a file since the last install of a block or URL?
    raced,     \* did the user save a file in the middle of a rewrite?
    edits,     \* how often the user saved a file
    intact     \* did no command ever end between its two renames?

procVars == <<command, url, todo, at, plan>>
diskVars == <<file, sidecar, fileTmp, metaTmp, handle>>
userVars == <<own, touched, raced, edits, intact>>
vars     == <<diskVars, procVars, userVars>>

Filling == {"fill", "undo_fill"}     \* with the temporary of a file open
Steps == {"read", "plan", "check", "open", "replace", "open_sidecar", "fill_sidecar",
          "replace_sidecar", "unlink", "undo_open", "undo_replace", "undo_unlink"}
         \cup Filling

NoPlan == Plan(FALSE, Nothing, Nothing, {})

Init ==
    /\ \E r \in Roots : /\ file = [codex |-> r.codex, openai_env |-> r.openai_env]
                        /\ sidecar = [codex |-> r.sidecar, openai_env |-> {}]
    /\ own = file
    /\ fileTmp = [k \in KindSet |-> {}]
    /\ metaTmp = [k \in KindSet |-> {}]
    /\ handle = [p \in Processes |-> "none"]
    /\ command = [p \in Processes |-> "none"]
    /\ url  = [p \in Processes |-> NoUrl]
    /\ todo = [p \in Processes |-> <<>>]
    /\ at   = [p \in Processes |-> "idle"]
    /\ plan = [p \in Processes |-> NoPlan]
    /\ touched = [k \in KindSet |-> FALSE]
    /\ raced = [k \in KindSet |-> FALSE]
    /\ edits = 0
    /\ intact = TRUE

Running(p) == at[p] \in Steps
Idle == \A p \in Processes : ~Running(p)

Kind(p) == todo[p][1]

Goto(p, step) == at' = [at EXCEPT ![p] = step]

\* The process ends, and its memory is gone.
End(p) ==
    /\ Goto(p, "idle")
    /\ command' = [command EXCEPT ![p] = "none"]
    /\ url' = [url EXCEPT ![p] = NoUrl]
    /\ todo' = [todo EXCEPT ![p] = <<>>]
    /\ plan' = [plan EXCEPT ![p] = NoPlan]

Continue(p, step) == Goto(p, step) /\ UNCHANGED <<command, url, todo>>

\* The loop of main() goes on to the next integration, or main() returns.
NextIntegration(p) ==
    IF Len(todo[p]) = 1 THEN End(p)
    ELSE /\ Goto(p, "read")
         /\ todo' = [todo EXCEPT ![p] = Tail(@)]
         /\ plan' = [plan EXCEPT ![p] = NoPlan]
         /\ UNCHANGED <<command, url>>

-----------------------------------------------------------------------------
(* The start of a command: detect_integrations *)

Detected ==
    IF \E i \in DOMAIN file["openai_env"] :
          file["openai_env"][i] \in OpenAiLines \cup Urls \cup {BaseLine}
    THEN Kinds ELSE <<"codex">>

Start(p, c, u) ==
    /\ at[p] = "idle"
    /\ Goto(p, "read")
    /\ command' = [command EXCEPT ![p] = c]
    /\ url' = [url EXCEPT ![p] = u]
    /\ todo' = [todo EXCEPT ![p] = Detected]
    /\ UNCHANGED <<diskVars, userVars, plan>>

-----------------------------------------------------------------------------
(* plan_install and apply_plan *)

\* plan_install, and the uninstall of a .env, read the file before they look
\* for the sidecar; the uninstall of the Codex config does it after.
ReadsSidecarFirst(p) == command[p] = "uninstall" /\ Kind(p) = "codex"

Read(p) ==
    /\ at[p] = "read"
    /\ plan' = [plan EXCEPT ![p] =
                  IF ReadsSidecarFirst(p) THEN [NoPlan EXCEPT !.sidecar = sidecar[Kind(p)]]
                  ELSE [NoPlan EXCEPT !.original = file[Kind(p)]]]
    /\ Continue(p, "plan")
    /\ UNCHANGED <<diskVars, userVars>>

\* A plan that is not safe to apply is reported and the loop goes on.
PlanInstall(p) ==
    LET k == Kind(p)
        new == IF k = "codex" THEN PlanCodex(plan[p].original, sidecar[k], url[p])
                              ELSE PlanEnv(plan[p].original, sidecar[k], url[p])
    IN  /\ at[p] = "plan" /\ command[p] = "install"
        /\ IF new.safe
           THEN Continue(p, "check") /\ plan' = [plan EXCEPT ![p] = new]
           ELSE NextIntegration(p)
        /\ UNCHANGED <<diskVars, userVars>>

\* Mutant of Check: apply_plan without its guard against drift.
CheckNothing(p) ==
    /\ at[p] = "check"
    /\ IF file[Kind(p)] # plan[p].desired
       THEN Continue(p, "open") /\ UNCHANGED plan
       ELSE NextIntegration(p)
    /\ UNCHANGED <<diskVars, userVars>>

\* "unchanged" and "target_drift" end the integration without a write.
Check(p) ==
    /\ at[p] = "check"
    /\ IF file[Kind(p)] = plan[p].original /\ file[Kind(p)] # plan[p].desired
       THEN Continue(p, "open") /\ UNCHANGED plan
       ELSE NextIntegration(p)
    /\ UNCHANGED <<diskVars, userVars>>

\* _atomic_write: write_bytes empties the temporary file, which may be open in
\* another process too, and fills what it has opened, wherever that is by then.
Open(p) ==
    /\ at[p] \in {"open", "undo_open"}
    /\ fileTmp' = [fileTmp EXCEPT ![Kind(p)] = {EmptyFile(Kind(p))}]
    /\ handle' = [handle EXCEPT ![p] = "tmp"]
    /\ Continue(p, IF at[p] = "open" THEN "fill" ELSE "undo_fill")
    /\ UNCHANGED <<file, sidecar, metaTmp, userVars, plan>>

Fill(p) ==
    LET k == Kind(p)
        content == IF at[p] = "fill" THEN plan[p].desired ELSE plan[p].original
    IN  /\ at[p] \in Filling
        /\ fileTmp' = IF handle[p] = "tmp" THEN [fileTmp EXCEPT ![k] = {content}] ELSE fileTmp
        /\ file' = IF handle[p] = "target" THEN [file EXCEPT ![k] = content] ELSE file
        /\ handle' = [handle EXCEPT ![p] = "none"]
        /\ Continue(p, IF at[p] = "fill" THEN "replace" ELSE "undo_replace")
        /\ UNCHANGED <<sidecar, metaTmp, userVars, plan>>

\* A rename moves a file others may have open; the one that was there is gone.
Renamed(k, steps) ==
    [q \in Processes |->
        IF at[q] \in steps /\ Kind(q) = k
        THEN IF handle[q] = "tmp" THEN "target" ELSE "gone"
        ELSE handle[q]]

Replace(p) ==
    LET k == Kind(p) IN
    /\ at[p] = "replace"
    /\ \E c \in fileTmp[k] : file' = [file EXCEPT ![k] = c]
    /\ fileTmp' = [fileTmp EXCEPT ![k] = {}]
    /\ handle' = Renamed(k, Filling)
    /\ touched' = [touched EXCEPT ![k] = command[p] = "uninstall" /\ @]
    /\ Continue(p, IF command[p] = "install" THEN "open_sidecar" ELSE "unlink")
    /\ UNCHANGED <<sidecar, metaTmp, own, raced, edits, intact, plan>>

OpenSidecar(p) ==
    /\ at[p] = "open_sidecar"
    /\ metaTmp' = [metaTmp EXCEPT ![Kind(p)] = {EmptySidecar(Kind(p))}]
    /\ handle' = [handle EXCEPT ![p] = "tmp"]
    /\ Continue(p, "fill_sidecar")
    /\ UNCHANGED <<file, sidecar, fileTmp, userVars, plan>>

FillSidecar(p) ==
    LET k == Kind(p) IN
    /\ at[p] = "fill_sidecar"
    /\ metaTmp' = IF handle[p] = "tmp" THEN [metaTmp EXCEPT ![k] = plan[p].sidecar] ELSE metaTmp
    /\ sidecar' = IF handle[p] = "target" THEN [sidecar EXCEPT ![k] = plan[p].sidecar] ELSE sidecar
    /\ handle' = [handle EXCEPT ![p] = "none"]
    /\ Continue(p, "replace_sidecar")
    /\ UNCHANGED <<file, fileTmp, userVars, plan>>

ReplaceSidecar(p) ==
    LET k == Kind(p) IN
    /\ at[p] = "replace_sidecar"
    /\ metaTmp[k] # {}
    /\ sidecar' = [sidecar EXCEPT ![k] = metaTmp[k]]
    /\ metaTmp' = [metaTmp EXCEPT ![k] = {}]
    /\ handle' = Renamed(k, {"fill_sidecar"})
    /\ NextIntegration(p)
    /\ UNCHANGED <<file, fileTmp, userVars>>

-----------------------------------------------------------------------------
(* The except branch of apply_plan *)

\* Mutant of UndoReplace: the bytes are not put back.
UndoReplaceNothing(p) ==
    /\ at[p] = "undo_replace"
    /\ Continue(p, "undo_unlink")
    /\ UNCHANGED <<diskVars, userVars, plan>>

UndoReplace(p) ==
    LET k == Kind(p) IN
    /\ at[p] = "undo_replace"
    /\ \E c \in fileTmp[k] : file' = [file EXCEPT ![k] = c]
    /\ fileTmp' = [fileTmp EXCEPT ![k] = {}]
    /\ handle' = Renamed(k, Filling)
    /\ Continue(p, "undo_unlink")
    /\ UNCHANGED <<sidecar, metaTmp, userVars, plan>>

\* Removing a sidecar leaves who has it open with a file that is gone.
Unlinked(k) ==
    [q \in Processes |->
        IF at[q] = "fill_sidecar" /\ Kind(q) = k /\ handle[q] = "target"
        THEN "gone" ELSE handle[q]]

\* The exception goes on: main() ends, integrations it had left are not done.
UndoUnlink(p) ==
    /\ at[p] = "undo_unlink"
    /\ sidecar' = [sidecar EXCEPT ![Kind(p)] = {}]
    /\ handle' = Unlinked(Kind(p))
    /\ End(p)
    /\ UNCHANGED <<file, fileTmp, metaTmp, userVars>>

-----------------------------------------------------------------------------
(* uninstall_integration *)

PlanRemoval(p) ==
    LET k == Kind(p)
        r == IF k = "codex" THEN RemoveCodex(file[k], plan[p].sidecar)
                            ELSE RemoveEnv(plan[p].original, sidecar[k])
    IN  /\ at[p] = "plan" /\ command[p] = "uninstall"
        /\ \/ r.do = "leave"  /\ NextIntegration(p)
           \/ r.do = "forget" /\ Continue(p, "unlink") /\ UNCHANGED plan
           \/ /\ r.do = "write"
              /\ Continue(p, "open")
              /\ \E c \in r.desired : plan' = [plan EXCEPT ![p].desired = c]
        /\ UNCHANGED <<diskVars, userVars>>

\* Only after the rewrite of a .env may the sidecar to remove be missing.
MayBeMissing(p) == Kind(p) = "openai_env" /\ plan[p].desired # Nothing

Unlink(p) ==
    LET k == Kind(p) IN
    /\ at[p] = "unlink"
    /\ sidecar[k] # {} \/ MayBeMissing(p)
    /\ sidecar' = [sidecar EXCEPT ![k] = {}]
    /\ handle' = Unlinked(k)
    /\ NextIntegration(p)
    /\ UNCHANGED <<file, fileTmp, metaTmp, userVars>>

-----------------------------------------------------------------------------
(* Failures *)

\* The temporary file or the sidecar is gone: another invocation took it.
Missing(p) ==
    LET k == Kind(p) IN
    \/ at[p] \in {"replace", "undo_replace"} /\ fileTmp[k] = {}
    \/ at[p] = "replace_sidecar" /\ metaTmp[k] = {}
    \/ at[p] = "unlink" /\ ~MayBeMissing(p) /\ sidecar[k] = {}

\* The config is on the gateway, or may be, and its sidecar is not in place.
BetweenRenames(p) ==
    /\ Kind(p) = "codex" /\ command[p] = "install"
    /\ at[p] \in {"open_sidecar", "fill_sidecar", "replace_sidecar",
                  "undo_open", "undo_fill", "undo_replace"}

\* The disk is full, or a file is not writable: an install undoes what it did,
\* an uninstall raises, and so does an undo.
Fails(p) ==
    /\ Running(p)
    /\ "write" \in Faults \/ Missing(p)
    /\ \/ /\ at[p] \in {"open", "fill", "replace", "open_sidecar", "fill_sidecar", "replace_sidecar"}
          /\ command[p] = "install"
          /\ Continue(p, "undo_open")
          /\ UNCHANGED <<plan, intact>>
       \/ /\ at[p] \in {"open", "fill", "replace", "unlink"}
          /\ command[p] = "uninstall"
          /\ End(p)
          /\ UNCHANGED intact
       \/ /\ at[p] \in {"undo_open", "undo_fill", "undo_replace", "undo_unlink"}
          /\ End(p)
          /\ intact' = (intact /\ ~BetweenRenames(p))
    /\ handle' = [handle EXCEPT ![p] = "none"]
    /\ UNCHANGED <<file, sidecar, fileTmp, metaTmp, own, touched, raced, edits>>

Kill(p) ==
    /\ "kill" \in Faults
    /\ Running(p)
    /\ End(p)
    /\ intact' = (intact /\ ~BetweenRenames(p))
    /\ handle' = [handle EXCEPT ![p] = "none"]
    /\ UNCHANGED <<file, sidecar, fileTmp, metaTmp, own, touched, raced, edits>>

-----------------------------------------------------------------------------
(* The user *)

\* What a file the user saves would be without TOKEN: a gateway URL or a block
\* in it is TOKEN's, everything else is the user's.
WithoutToken(k, c) ==
    IF k = "openai_env" THEN WithoutBlocks(c)
    ELSE [c EXCEPT !.providers =
            [i \in DOMAIN c.providers |->
                IF c.providers[i].url \in Urls /\ i \in DOMAIN own[k].providers
                THEN [c.providers[i] EXCEPT !.url = own[k].providers[i].url]
                ELSE c.providers[i]]]

\* From the last look a command takes at a file to its rename, and for an
\* install to the end of the try block, whose undo does not look again: what
\* the user saves then is overwritten.
Rewrites(p, k) ==
    /\ Running(p) /\ Kind(p) = k
    /\ \/ at[p] \in Filling \cup {"open", "replace", "open_sidecar", "fill_sidecar",
                                 "replace_sidecar", "undo_open", "undo_replace"}
       \/ at[p] = "plan" /\ command[p] = "uninstall" /\ k = "openai_env"

Edit(k, c) ==
    /\ edits < MaxEdits
    /\ file' = [file EXCEPT ![k] = c]
    /\ own' = [own EXCEPT ![k] = WithoutToken(k, c)]
    /\ touched' = [touched EXCEPT ![k] = TRUE]
    /\ raced' = [raced EXCEPT ![k] = @ \/ \E p \in Processes : Rewrites(p, k)]
    /\ edits' = edits + 1
    /\ UNCHANGED <<sidecar, fileTmp, metaTmp, handle, intact, procVars>>

-----------------------------------------------------------------------------
Step(p) ==
    \/ Read(p) \/ PlanInstall(p) \/ Check(p) \/ Open(p) \/ Fill(p) \/ Replace(p)
    \/ OpenSidecar(p) \/ FillSidecar(p) \/ ReplaceSidecar(p)
    \/ UndoReplace(p) \/ UndoUnlink(p)
    \/ PlanRemoval(p) \/ Unlink(p) \/ Fails(p) \/ Kill(p)

Next ==
    \/ \E p \in Processes : \/ \E c \in {"install", "uninstall"}, u \in Urls : Start(p, c, u)
                              \/ Step(p)
    \/ \E k \in KindSet : \E c \in EditsOf(k, file[k]) : Edit(k, c)

Spec == Init /\ [][Next]_vars
-----------------------------------------------------------------------------
(* Properties *)

SetsOf(S) == {{}} \cup {{x} : x \in S}

\* The shape of the files, the sidecars and the invocations; whatever sidecar a
\* command finds, a base_url in the config stays one of the user's or the
\* gateway's, and an empty string is neither.
IntegrationsTypeOK ==
    /\ file.codex \in CodexConfig /\ file.openai_env \in EnvFile
    /\ own.codex \in CodexConfig /\ own.openai_env \in EnvFile
    /\ \A k \in KindSet : /\ Cardinality(sidecar[k]) =< 1
                          /\ Cardinality(fileTmp[k]) =< 1
                          /\ Cardinality(metaTmp[k]) =< 1
    /\ command \in [Processes -> {"none", "install", "uninstall"}]
    /\ url \in [Processes -> Urls \cup {NoUrl}]
    /\ \A p \in Processes : todo[p] \in {<<>>, Kinds, <<"codex">>, <<"openai_env">>}
    /\ at \in [Processes -> {"idle"} \cup Steps]
    /\ handle \in [Processes -> {"none", "tmp", "target", "gone"}]
    /\ touched \in [KindSet -> BOOLEAN] /\ raced \in [KindSet -> BOOLEAN]
    /\ edits \in 0 .. MaxEdits /\ intact \in BOOLEAN

\* What TOKEN may not touch: of a Codex config all but base_url; of a .env the
\* lines outside the block, each a line of its own.
JoinsLines(c) == \E i \in DOMAIN c : i > 1 /\ {c[i - 1], c[i]} \subseteq Lines \cup {BaseLine}

OutsideCodex(c) ==
    [note |-> c.note, providers |-> [i \in DOMAIN c.providers |-> c.providers[i].id]]
OutsideEnv(c) == Only(c, Lines \cup {BaseLine})

\* THREAT-MODEL "edits are bounded": whatever fails or dies, in any order of
\* installs and uninstalls, both files always say what the user last wrote
\* outside the part TOKEN manages, unless it was saved in the middle of a rewrite.
UserTextKept ==
    /\ ~raced.codex => OutsideCodex(file.codex) = OutsideCodex(own.codex)
    /\ ~raced.openai_env => OutsideEnv(file.openai_env) = OutsideEnv(own.openai_env)

\* THREAT-MODEL "Managed configuration edits are bounded" for the lines of the
\* .env: no two lines of the user are ever joined into one.
LinesStayApart == JoinsLines(file.openai_env) => JoinsLines(own.openai_env)

GatewayManaged == \E i \in DOMAIN file.codex.providers : file.codex.providers[i].url \in Urls

OwnUrlIsRecorded ==
    \A i \in DOMAIN file.codex.providers :
        file.codex.providers[i].url \in Urls =>
            \E s \in sidecar.codex :
                /\ s.strategy = "managed_provider_base_url"
                /\ s.provider = own.codex.providers[i].id
                /\ s.url = own.codex.providers[i].url

\* README "Transactional integrations": between commands a Codex config that
\* points to the gateway comes with the sidecar that names the URL it had.
CodexIsTransactional == Idle => OwnUrlIsRecorded

\* The same wherever code can see to it: whatever failed and was undone, and
\* whenever commands were killed, except between the two renames of one install.
OwnUrlSurvivesFailures == Idle /\ intact /\ ~raced.codex => OwnUrlIsRecorded

\* A config the user has left alone is never refused as drifted: whenever there
\* is a sidecar, after every failure and kill, the file has one of the two
\* contents the sidecar knows, so uninstall can go on from where it is.
NeverStuckInDrift ==
    \A s \in sidecar.codex :
        s.strategy = "managed_provider_base_url" /\ ~touched.codex /\ ~raced.codex =>
            file.codex \in {s.original, s.desired}

\* SECURITY "byte-equivalent restoration": the bytes an uninstall puts back are
\* the user's: of a Codex config exactly, of a .env up to a line end.
CodexRestored(p) ==
    intact /\ ~raced.codex /\ Kind(p) = "codex" => file.codex = own.codex
EnvRestored(p) ==
    intact /\ ~raced.openai_env /\ Kind(p) = "openai_env" =>
        /\ OutsideEnv(file.openai_env) = OutsideEnv(own.openai_env)
        /\ Blocks(file.openai_env) = {}
UninstallRestores ==
    \A p \in Processes : at[p] = "unlink" => CodexRestored(p) /\ EnvRestored(p)
=============================================================================
