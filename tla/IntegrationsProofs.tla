------------------------- MODULE IntegrationsProofs -------------------------
(***************************************************************************)
(* What holds of installs and uninstalls on a root for any files, URLs,    *)
(* lines and edits.  In this order: no config is left in drift, the        *)
(* base_url of the user is never lost, the types (for any number of        *)
(* processes), the text of the user is kept, and uninstalling restores.    *)
(* All but the types are of one command at a time: two share a temporary   *)
(* file and can do what no one of them does.                               *)
(*                                                                         *)
(* Each invariant follows the command p through its steps: what its plan   *)
(* says of the file and of the sidecar, and what the temporary files hold, *)
(* at each of them.  It has a lemma for each action.                       *)
(***************************************************************************)
EXTENDS Integrations, FiniteSetTheorems, SequenceTheorems, WellFoundedInduction, TLAPS

-----------------------------------------------------------------------------
(* No drift.                                                                *)

Managed(s) == s.strategy = "managed_provider_base_url"

OnCodex(p)    == Running(p) /\ Kind(p) = "codex"
Installs(p)   == OnCodex(p) /\ command[p] = "install"
Uninstalls(p) == OnCodex(p) /\ command[p] = "uninstall"

Writing  == {"open", "fill", "replace"}
Saving   == {"open_sidecar", "fill_sidecar", "replace_sidecar"}
Undoing  == {"undo_open", "undo_fill", "undo_replace", "undo_unlink"}

Commands == {"install", "uninstall"}

\* The functions are defined where they are used, and each command is at a step
\* of its own.
Shape(p) ==
    /\ "codex" \in DOMAIN file /\ "codex" \in DOMAIN sidecar
    /\ "codex" \in DOMAIN fileTmp /\ "codex" \in DOMAIN metaTmp
    /\ "codex" \in DOMAIN touched /\ "codex" \in DOMAIN raced
    /\ DOMAIN at = Processes /\ DOMAIN command = Processes /\ DOMAIN todo = Processes
    /\ DOMAIN plan = Processes /\ DOMAIN handle = Processes /\ DOMAIN url = Processes
    /\ DOMAIN plan[p] = {"safe", "original", "desired", "sidecar"}
    /\ at[p] \in {"idle"} \cup Steps
    /\ Running(p) => command[p] \in Commands
    /\ at[p] \in {"check"} \cup Saving \cup Undoing => command[p] = "install"
    /\ at[p] = "unlink" => command[p] = "uninstall"

\* A sidecar is one record; it is of this version or as it was found.
OneSidecar ==
    \A s \in sidecar["codex"] :
        /\ sidecar["codex"] = {s}
        /\ s.strategy \in {"sidecar", "damaged", "managed_provider_base_url"}

\* The sidecar a plan wants to save names the bytes before and after.
PlansSidecar(p) ==
    \E s : /\ plan[p].sidecar = {s} /\ Managed(s)
           /\ s.original = plan[p].original /\ s.desired = plan[p].desired

HasToWrite(p) == /\ at[p] \in {"check"} \cup Writing \cup Saving \cup Undoing
                 /\ plan[p].original # plan[p].desired \/ at[p] # "check"

\* An install writes only where there was no sidecar, and there is none until the
\* last of its renames.
InstallInv(p) ==
    Installs(p) =>
        /\ HasToWrite(p) => sidecar["codex"] = {} /\ PlansSidecar(p)
        /\ at[p] \in Writing /\ ~raced["codex"] => file["codex"] = plan[p].original
        /\ at[p] \in Saving /\ ~raced["codex"] => file["codex"] = plan[p].desired
        /\ at[p] = "replace_sidecar" => metaTmp["codex"] = plan[p].sidecar

\* An uninstall writes the bytes the sidecar remembers.
UninstallInv(p) ==
    Uninstalls(p) =>
        /\ at[p] \in {"plan", "unlink"} \cup Writing => plan[p].sidecar = sidecar["codex"]
        /\ at[p] \in Writing =>
              \E s \in sidecar["codex"] :
                  /\ Managed(s) /\ plan[p].desired = s.original
                  /\ ~raced["codex"] => file["codex"] = s.desired

\* The temporary files are the command's own.
TemporaryInv(p) ==
    /\ at[p] \in Filling \cup {"fill_sidecar"} => handle[p] = "tmp"
    /\ OnCodex(p) /\ at[p] = "replace" => fileTmp["codex"] = {plan[p].desired}
    /\ OnCodex(p) /\ at[p] = "undo_replace" => fileTmp["codex"] = {plan[p].original}

NoDrift ==
    \A s \in sidecar["codex"] :
        Managed(s) /\ ~touched["codex"] /\ ~raced["codex"] =>
            file["codex"] \in {s.original, s.desired}

DriftInv(p) ==
    /\ Shape(p) /\ OneSidecar /\ InstallInv(p) /\ UninstallInv(p) /\ TemporaryInv(p) /\ NoDrift

-----------------------------------------------------------------------------
LEMMA CodexIsAKind == "codex" \in KindSet
<1>1. 1 \in DOMAIN Kinds /\ Kinds[1] = "codex"
  BY DEF Kinds
<1>2. QED
  BY <1>1 DEF KindSet

LEMMA SidecarAtStart ==
    ASSUME Init
    PROVE  \A s \in sidecar["codex"] :
              sidecar["codex"] = {s} /\ s.strategy \in {"sidecar", "damaged"}
<1>1. PICK r \in Roots : sidecar = [codex |-> r.sidecar, openai_env |-> {}]
  BY DEF Init
<1>2. sidecar["codex"] \in {{}, {OtherSidecar("sidecar")}, {OtherSidecar("damaged")}}
  BY <1>1, RootsAssumption
<1>3. OtherSidecar("sidecar").strategy = "sidecar" /\ OtherSidecar("damaged").strategy = "damaged"
  BY DEF OtherSidecar
<1>4. QED
  BY <1>2, <1>3

LEMMA DriftStart == ASSUME NEW p \in Processes PROVE Init => DriftInv(p)
<1> SUFFICES ASSUME Init PROVE DriftInv(p)
  OBVIOUS
<1>1. PICK r \in Roots : /\ file = [codex |-> r.codex, openai_env |-> r.openai_env]
                         /\ sidecar = [codex |-> r.sidecar, openai_env |-> {}]
  BY DEF Init
<1>2. at[p] = "idle"
  BY DEF Init
<1>3. Shape(p)
  BY <1>1, CodexIsAKind DEF Init, Shape, NoPlan, Plan, Running, Steps, Saving, Undoing, Filling
<1>4. OneSidecar /\ NoDrift
  BY SidecarAtStart DEF OneSidecar, NoDrift, Managed
<1>5. InstallInv(p) /\ UninstallInv(p) /\ TemporaryInv(p)
  BY <1>2 DEF InstallInv, UninstallInv, TemporaryInv, Installs, Uninstalls, OnCodex, Running, Steps, Filling
<1>6. QED
  BY <1>3, <1>4, <1>5 DEF DriftInv

\* The end of an integration, or of the command.
LEMMA NextKeeps ==
    ASSUME NEW p \in Processes, DriftInv(p), Running(p), NextIntegration(p) \/ End(p),
           DOMAIN handle' = Processes,
           UNCHANGED <<file, touched, raced>>,
           "codex" \in DOMAIN sidecar' , "codex" \in DOMAIN fileTmp', "codex" \in DOMAIN metaTmp',
           OneSidecar', NoDrift'
    PROVE  DriftInv(p)'
<1>1. /\ at'[p] \in {"idle", "read"} /\ command'[p] \in {"none", command[p]}
      /\ at'[p] = "read" => command'[p] = command[p]
  BY DEF NextIntegration, End, Goto, DriftInv, Shape
<1>2. /\ DOMAIN at' = Processes /\ DOMAIN command' = Processes /\ DOMAIN todo' = Processes
      /\ DOMAIN plan' = Processes /\ DOMAIN url' = Processes
      /\ plan'[p] = NoPlan
  BY DEF NextIntegration, End, Goto, DriftInv, Shape
<1>3. Shape(p)'
  BY <1>1, <1>2 DEF DriftInv, Shape, NoPlan, Plan, Running, Steps, Saving, Undoing, Filling
<1>4. (InstallInv(p) /\ UninstallInv(p) /\ TemporaryInv(p))'
  BY <1>1 DEF InstallInv, UninstallInv, TemporaryInv, Installs, Uninstalls, OnCodex, Running, Steps,
              Filling, Writing, Saving, Undoing, HasToWrite
<1>5. QED
  BY <1>3, <1>4 DEF DriftInv

LEMMA StartKeeps ==
    ASSUME NEW p \in Processes, NEW c \in Commands, NEW u, DriftInv(p), Start(p, c, u)
    PROVE  DriftInv(p)'
<1>1. /\ at'[p] = "read" /\ command'[p] = c
      /\ UNCHANGED <<diskVars, userVars, plan>>
  BY DEF Start, Goto, DriftInv, Shape
<1>2. Shape(p)'
  BY <1>1 DEF Start, Goto, DriftInv, Shape, Running, Steps, Saving, Undoing, Filling, Commands,
              diskVars, userVars
<1>3. (InstallInv(p) /\ UninstallInv(p) /\ TemporaryInv(p))'
  BY <1>1 DEF InstallInv, UninstallInv, TemporaryInv, Filling, Writing, Saving, Undoing, HasToWrite
<1>4. QED
  BY <1>1, <1>2, <1>3 DEF DriftInv, OneSidecar, NoDrift, diskVars, userVars

\* A command at its next step, with the files as they are.
LEMMA ShapeKeeps ==
    ASSUME NEW p \in Processes, NEW step \in Steps, Shape(p), Running(p), Continue(p, step),
           step \in {"check"} \cup Saving \cup Undoing => command[p] = "install",
           step = "unlink" => command[p] = "uninstall",
           DOMAIN handle' = Processes, DOMAIN plan' = Processes,
           DOMAIN plan'[p] = {"safe", "original", "desired", "sidecar"},
           "codex" \in DOMAIN file', "codex" \in DOMAIN sidecar',
           "codex" \in DOMAIN fileTmp', "codex" \in DOMAIN metaTmp',
           "codex" \in DOMAIN touched', "codex" \in DOMAIN raced'
    PROVE  /\ Shape(p)'
           /\ at'[p] = step /\ command'[p] = command[p]
           /\ OnCodex(p)' <=> OnCodex(p)
           /\ Installs(p)' <=> Installs(p)
           /\ Uninstalls(p)' <=> Uninstalls(p)
<1>1. at'[p] = step /\ command' = command /\ todo' = todo /\ url' = url /\ DOMAIN at' = Processes
  BY DEF Continue, Goto, Shape
<1>2. QED
  BY <1>1 DEF Shape, Running, OnCodex, Installs, Uninstalls, Kind

LEMMA ReadKeeps ==
    ASSUME NEW p \in Processes, DriftInv(p), Read(p)
    PROVE  DriftInv(p)'
<1>1. /\ DOMAIN plan' = Processes /\ UNCHANGED <<diskVars, userVars>>
      /\ DOMAIN plan'[p] = {"safe", "original", "desired", "sidecar"}
      /\ ReadsSidecarFirst(p) => plan'[p].sidecar = sidecar[Kind(p)]
  BY DEF Read, DriftInv, Shape, NoPlan, Plan
<1>2. /\ Shape(p)' /\ at'[p] = "plan"
      /\ Installs(p)' <=> Installs(p)
      /\ Uninstalls(p)' <=> Uninstalls(p)
  <2>1. Running(p) /\ Continue(p, "plan") /\ "plan" \in Steps
    BY DEF Read, Running, Steps
  <2>2. "plan" \notin {"check"} \cup Saving \cup Undoing
    BY DEF Saving, Undoing
  <2>3. QED
    BY <1>1, <2>1, <2>2, ShapeKeeps DEF DriftInv, Shape, diskVars, userVars
<1>3. (InstallInv(p) /\ TemporaryInv(p))'
  BY <1>2 DEF InstallInv, TemporaryInv, HasToWrite, Writing, Saving, Undoing, Filling
<1>4. UninstallInv(p)'
  BY <1>1, <1>2 DEF UninstallInv, Writing, Uninstalls, OnCodex, ReadsSidecarFirst, diskVars
<1>5. QED
  BY <1>1, <1>2, <1>3, <1>4 DEF DriftInv, OneSidecar, NoDrift, diskVars, userVars

LEMMA PlanInstallKeeps ==
    ASSUME NEW p \in Processes, DriftInv(p), PlanInstall(p)
    PROVE  DriftInv(p)'
<1> DEFINE k == Kind(p)
           new == IF k = "codex" THEN PlanCodex(plan[p].original, sidecar[k], url[p])
                                 ELSE PlanEnv(plan[p].original, sidecar[k], url[p])
<1>1. /\ at[p] = "plan" /\ command[p] = "install" /\ Running(p)
      /\ UNCHANGED <<diskVars, userVars>>
      /\ \/ Continue(p, "check") /\ plan' = [plan EXCEPT ![p] = new]
         \/ NextIntegration(p)
  BY DEF PlanInstall, Running, Steps
<1>2. CASE NextIntegration(p)
  BY <1>1, <1>2, NextKeeps DEF DriftInv, Shape, OneSidecar, NoDrift, diskVars, userVars
<1>3. CASE Continue(p, "check") /\ plan' = [plan EXCEPT ![p] = new]
  <2>1. plan'[p] = new /\ DOMAIN plan' = Processes
    BY <1>3 DEF DriftInv, Shape
  <2>2. DOMAIN new = {"safe", "original", "desired", "sidecar"}
    BY DEF PlanCodex, PlanEnv, Plan
  <2>3. /\ Shape(p)' /\ at'[p] = "check" /\ ~Uninstalls(p)'
        /\ Installs(p)' <=> Installs(p)
    BY <1>1, <1>3, <2>1, <2>2, ShapeKeeps
       DEF DriftInv, Shape, diskVars, userVars, Steps, Uninstalls
  <2>4. ASSUME Installs(p), new.original # new.desired
        PROVE  /\ sidecar["codex"] = {}
               /\ \E s : /\ new.sidecar = {s} /\ Managed(s)
                        /\ s.original = new.original /\ s.desired = new.desired
    <3>1. new = PlanCodex(plan[p].original, sidecar["codex"], url[p])
      BY <2>4 DEF Installs, OnCodex
    <3> DEFINE c == plan[p].original
               id == c.providers[1].id
               d  == SetBaseUrl(c, id, url[p])
    <3>2. CASE sidecar["codex"] = {} /\ Len(c.providers) = 1 /\ HasBaseUrl(c, id)
      <4>1. new = Plan(TRUE, c, d, {CodexSidecar(id, BaseUrl(c, id), c, d)})
        BY <3>1, <3>2 DEF PlanCodex
      <4>2. /\ new.original = c /\ new.desired = d
            /\ new.sidecar = {CodexSidecar(id, BaseUrl(c, id), c, d)}
        BY <4>1 DEF Plan
      <4>3. /\ CodexSidecar(id, BaseUrl(c, id), c, d).original = c
            /\ CodexSidecar(id, BaseUrl(c, id), c, d).desired = d
            /\ Managed(CodexSidecar(id, BaseUrl(c, id), c, d))
        BY DEF CodexSidecar, Managed
      <4>4. QED
        BY <3>2, <4>2, <4>3
    <3>3. CASE ~(sidecar["codex"] = {} /\ Len(c.providers) = 1 /\ HasBaseUrl(c, id))
      <4>1. new.original = c /\ new.desired = c
        BY <3>1, <3>3 DEF PlanCodex, Plan
      <4>2. QED
        BY <4>1, <2>4
    <3>4. QED
      BY <3>2, <3>3
  <2>5. InstallInv(p)'
    BY <1>1, <2>1, <2>3, <2>4
       DEF InstallInv, HasToWrite, PlansSidecar, Managed, Writing, Saving, Undoing, diskVars
  <2>6. (UninstallInv(p) /\ TemporaryInv(p))'
    BY <2>3 DEF UninstallInv, TemporaryInv, Filling
  <2>7. QED
    BY <1>1, <2>3, <2>5, <2>6 DEF DriftInv, OneSidecar, NoDrift, diskVars, userVars
<1>4. QED
  BY <1>1, <1>2, <1>3

LEMMA CheckKeeps ==
    ASSUME NEW p \in Processes, DriftInv(p), Check(p)
    PROVE  DriftInv(p)'
<1>1. /\ at[p] = "check" /\ command[p] = "install" /\ Running(p)
      /\ UNCHANGED <<diskVars, userVars>>
  BY DEF Check, Running, Steps, DriftInv, Shape
<1>2. CASE NextIntegration(p)
  BY <1>1, <1>2, NextKeeps DEF DriftInv, Shape, OneSidecar, NoDrift, diskVars, userVars
<1>3. CASE /\ Continue(p, "open") /\ UNCHANGED plan
           /\ file[Kind(p)] = plan[p].original /\ file[Kind(p)] # plan[p].desired
  <2>1. /\ Shape(p)' /\ at'[p] = "open" /\ ~Uninstalls(p)'
        /\ Installs(p)' <=> Installs(p)
    BY <1>1, <1>3, ShapeKeeps
       DEF DriftInv, Shape, diskVars, userVars, Steps, Uninstalls, Saving, Undoing
  <2>2. Installs(p) => Kind(p) = "codex"
    BY DEF Installs, OnCodex
  <2>3. InstallInv(p)'
    BY <1>1, <1>3, <2>1, <2>2
       DEF DriftInv, InstallInv, HasToWrite, PlansSidecar, Writing, Saving, Undoing, diskVars
  <2>4. (UninstallInv(p) /\ TemporaryInv(p))'
    BY <2>1 DEF UninstallInv, TemporaryInv, Filling
  <2>5. QED
    BY <1>1, <2>1, <2>3, <2>4 DEF DriftInv, OneSidecar, NoDrift, diskVars, userVars
<1>4. QED
  BY <1>2, <1>3 DEF Check

LEMMA OpenKeeps ==
    ASSUME NEW p \in Processes, DriftInv(p), Open(p)
    PROVE  DriftInv(p)'
<1> DEFINE step == IF at[p] = "open" THEN "fill" ELSE "undo_fill"
<1>1. /\ at[p] \in {"open", "undo_open"} /\ Continue(p, step) /\ Running(p)
      /\ UNCHANGED <<file, sidecar, metaTmp, userVars, plan>>
      /\ "codex" \in DOMAIN fileTmp' /\ DOMAIN handle' = Processes
      /\ handle'[p] = "tmp"
  BY DEF Open, Running, Steps, DriftInv, Shape
<1>2. /\ Shape(p)' /\ at'[p] = step
      /\ Installs(p)' <=> Installs(p)
      /\ Uninstalls(p)' <=> Uninstalls(p)
  BY <1>1, ShapeKeeps DEF DriftInv, Shape, userVars, Steps, Filling, Saving, Undoing
<1>3. InstallInv(p)'
  BY <1>1, <1>2 DEF DriftInv, InstallInv, HasToWrite, PlansSidecar, Writing, Saving, Undoing, userVars
<1>4. UninstallInv(p)'
  BY <1>1, <1>2 DEF DriftInv, UninstallInv, Writing, userVars
<1>5. TemporaryInv(p)'
  BY <1>1, <1>2 DEF TemporaryInv, Filling
<1>6. QED
  BY <1>1, <1>2, <1>3, <1>4, <1>5 DEF DriftInv, OneSidecar, NoDrift, userVars

LEMMA FillKeeps ==
    ASSUME NEW p \in Processes, DriftInv(p), Fill(p)
    PROVE  DriftInv(p)'
<1> DEFINE step == IF at[p] = "fill" THEN "replace" ELSE "undo_replace"
           content == IF at[p] = "fill" THEN plan[p].desired ELSE plan[p].original
<1>1. /\ at[p] \in Filling /\ Continue(p, step) /\ Running(p) /\ handle[p] = "tmp"
      /\ UNCHANGED <<sidecar, metaTmp, userVars, plan>>
  BY DEF Fill, Running, Steps, DriftInv, TemporaryInv
<1>2. /\ file' = file /\ fileTmp' = [fileTmp EXCEPT ![Kind(p)] = {content}]
      /\ "codex" \in DOMAIN fileTmp' /\ DOMAIN handle' = Processes
  BY <1>1 DEF Fill, DriftInv, Shape
<1>3. /\ Shape(p)' /\ at'[p] = step
      /\ OnCodex(p)' <=> OnCodex(p)
      /\ Installs(p)' <=> Installs(p)
      /\ Uninstalls(p)' <=> Uninstalls(p)
  BY <1>1, <1>2, ShapeKeeps DEF DriftInv, Shape, userVars, Steps, Filling, Saving, Undoing
<1>4. InstallInv(p)'
  BY <1>1, <1>2, <1>3
     DEF DriftInv, InstallInv, HasToWrite, PlansSidecar, Filling, Writing, Saving, Undoing, userVars
<1>5. UninstallInv(p)'
  BY <1>1, <1>2, <1>3 DEF DriftInv, UninstallInv, Filling, Writing, userVars
<1>6. TemporaryInv(p)'
  BY <1>1, <1>2, <1>3 DEF DriftInv, Shape, TemporaryInv, OnCodex, Filling
<1>7. QED
  BY <1>1, <1>2, <1>3, <1>4, <1>5, <1>6 DEF DriftInv, OneSidecar, NoDrift, userVars

LEMMA ReplaceKeeps ==
    ASSUME NEW p \in Processes, DriftInv(p), Replace(p)
    PROVE  DriftInv(p)'
<1> DEFINE step == IF command[p] = "install" THEN "open_sidecar" ELSE "unlink"
<1>1. /\ at[p] = "replace" /\ Continue(p, step) /\ Running(p)
      /\ command[p] \in Commands
      /\ UNCHANGED <<sidecar, metaTmp, raced, plan>>
      /\ "codex" \in DOMAIN file' /\ "codex" \in DOMAIN fileTmp' /\ "codex" \in DOMAIN touched'
      /\ DOMAIN handle' = Processes
  BY DEF Replace, Renamed, Running, Steps, DriftInv, Shape
<1>2. /\ OnCodex(p) => file'["codex"] = plan[p].desired
      /\ ~OnCodex(p) => file'["codex"] = file["codex"] /\ touched'["codex"] = touched["codex"]
      /\ Uninstalls(p) => (touched'["codex"] <=> touched["codex"])
  <2>1. OnCodex(p) => file'["codex"] = plan[p].desired
    BY <1>1 DEF Replace, DriftInv, Shape, TemporaryInv, OnCodex
  <2>2. ~OnCodex(p) => file'["codex"] = file["codex"] /\ touched'["codex"] = touched["codex"]
    BY <1>1 DEF Replace, OnCodex, DriftInv, Shape
  <2>3. Uninstalls(p) => (touched'["codex"] <=> touched["codex"])
    BY <1>1 DEF Replace, DriftInv, Shape, OnCodex, Uninstalls
  <2>4. QED
    BY <2>1, <2>2, <2>3
<1>3. /\ Shape(p)' /\ at'[p] = step
      /\ OnCodex(p)' <=> OnCodex(p)
      /\ Installs(p)' <=> Installs(p)
      /\ Uninstalls(p)' <=> Uninstalls(p)
  BY <1>1, ShapeKeeps DEF DriftInv, Shape, Steps, Saving, Undoing, Commands
<1>4. InstallInv(p)'
  BY <1>1, <1>2, <1>3
     DEF DriftInv, InstallInv, Installs, HasToWrite, PlansSidecar, Writing, Saving, Undoing
<1>5. UninstallInv(p)'
  BY <1>1, <1>3 DEF DriftInv, UninstallInv, Uninstalls, Writing
<1>6. TemporaryInv(p)'
  BY <1>1, <1>3 DEF TemporaryInv, Filling
<1>7. NoDrift'
  <2>1. CASE Installs(p)
    BY <1>1, <2>1 DEF DriftInv, InstallInv, HasToWrite, Writing, NoDrift
  <2>2. CASE Uninstalls(p)
    BY <1>1, <1>2, <2>2 DEF DriftInv, OneSidecar, UninstallInv, Uninstalls, Writing, NoDrift
  <2>3. CASE ~OnCodex(p)
    BY <1>1, <1>2, <2>3 DEF DriftInv, NoDrift
  <2>4. QED
    BY <1>1, <2>1, <2>2, <2>3 DEF Installs, Uninstalls, Commands
<1>8. QED
  BY <1>1, <1>3, <1>4, <1>5, <1>6, <1>7 DEF DriftInv, OneSidecar

LEMMA OpenSidecarKeeps ==
    ASSUME NEW p \in Processes, DriftInv(p), OpenSidecar(p)
    PROVE  DriftInv(p)'
<1>1. /\ at[p] = "open_sidecar" /\ Continue(p, "fill_sidecar") /\ Running(p)
      /\ command[p] = "install"
      /\ UNCHANGED <<file, sidecar, fileTmp, userVars, plan>>
      /\ "codex" \in DOMAIN metaTmp' /\ DOMAIN handle' = Processes
      /\ handle'[p] = "tmp"
  BY DEF OpenSidecar, Running, Steps, DriftInv, Shape, Saving
<1>2. /\ Shape(p)' /\ at'[p] = "fill_sidecar" /\ ~Uninstalls(p)'
      /\ Installs(p)' <=> Installs(p)
  BY <1>1, ShapeKeeps DEF DriftInv, Shape, userVars, Steps, Uninstalls
<1>3. InstallInv(p)'
  BY <1>1, <1>2 DEF DriftInv, InstallInv, HasToWrite, PlansSidecar, Writing, Saving, userVars
<1>4. (UninstallInv(p) /\ TemporaryInv(p))'
  BY <1>1, <1>2 DEF UninstallInv, TemporaryInv, Filling
<1>5. QED
  BY <1>1, <1>2, <1>3, <1>4 DEF DriftInv, OneSidecar, NoDrift, userVars

LEMMA FillSidecarKeeps ==
    ASSUME NEW p \in Processes, DriftInv(p), FillSidecar(p)
    PROVE  DriftInv(p)'
<1>1. /\ at[p] = "fill_sidecar" /\ Continue(p, "replace_sidecar") /\ Running(p)
      /\ command[p] = "install" /\ handle[p] = "tmp"
      /\ UNCHANGED <<file, fileTmp, userVars, plan>>
  BY DEF FillSidecar, Running, Steps, DriftInv, Shape, TemporaryInv, Saving
<1>2. /\ sidecar' = sidecar /\ metaTmp' = [metaTmp EXCEPT ![Kind(p)] = plan[p].sidecar]
      /\ "codex" \in DOMAIN metaTmp' /\ DOMAIN handle' = Processes
  BY <1>1 DEF FillSidecar, DriftInv, Shape
<1>3. /\ Shape(p)' /\ at'[p] = "replace_sidecar" /\ ~Uninstalls(p)'
      /\ Installs(p)' <=> Installs(p)
  BY <1>1, <1>2, ShapeKeeps DEF DriftInv, Shape, userVars, Steps, Uninstalls
<1>4. InstallInv(p)'
  <2>1. Installs(p) => metaTmp'["codex"] = plan[p].sidecar
    BY <1>2 DEF DriftInv, Shape, Installs, OnCodex
  <2>2. QED
    BY <1>1, <1>2, <1>3, <2>1
       DEF DriftInv, InstallInv, HasToWrite, PlansSidecar, Writing, Saving, userVars
<1>5. (UninstallInv(p) /\ TemporaryInv(p))'
  BY <1>3 DEF UninstallInv, TemporaryInv, Filling
<1>6. QED
  BY <1>1, <1>2, <1>3, <1>4, <1>5 DEF DriftInv, OneSidecar, NoDrift, userVars

LEMMA ReplaceSidecarKeeps ==
    ASSUME NEW p \in Processes, DriftInv(p), ReplaceSidecar(p)
    PROVE  DriftInv(p)'
<1>1. /\ at[p] = "replace_sidecar" /\ NextIntegration(p) /\ Running(p)
      /\ command[p] = "install"
      /\ UNCHANGED <<file, fileTmp, touched, raced>>
      /\ "codex" \in DOMAIN sidecar' /\ "codex" \in DOMAIN metaTmp' /\ DOMAIN handle' = Processes
  BY DEF ReplaceSidecar, Renamed, Running, Steps, DriftInv, Shape, Saving, userVars
<1>2. CASE OnCodex(p)
  <2>1. /\ PlansSidecar(p) /\ metaTmp["codex"] = plan[p].sidecar
        /\ ~raced["codex"] => file["codex"] = plan[p].desired
    BY <1>1, <1>2 DEF DriftInv, InstallInv, Installs, HasToWrite, Saving
  <2>2. sidecar'["codex"] = plan[p].sidecar
    BY <1>2, <2>1 DEF ReplaceSidecar, DriftInv, Shape, OnCodex
  <2>3. OneSidecar' /\ NoDrift'
    BY <1>1, <2>1, <2>2 DEF OneSidecar, NoDrift, PlansSidecar, Managed
  <2>4. QED
    BY <1>1, <2>3, NextKeeps DEF DriftInv, Shape
<1>3. CASE ~OnCodex(p)
  <2>1. sidecar'["codex"] = sidecar["codex"]
    BY <1>1, <1>3 DEF ReplaceSidecar, DriftInv, Shape, OnCodex
  <2>2. OneSidecar' /\ NoDrift'
    BY <1>1, <2>1 DEF DriftInv, OneSidecar, NoDrift
  <2>3. QED
    BY <1>1, <2>2, NextKeeps DEF DriftInv, Shape
<1>4. QED
  BY <1>2, <1>3

LEMMA UndoReplaceKeeps ==
    ASSUME NEW p \in Processes, DriftInv(p), UndoReplace(p)
    PROVE  DriftInv(p)'
<1>1. /\ at[p] = "undo_replace" /\ Continue(p, "undo_unlink") /\ Running(p)
      /\ command[p] = "install"
      /\ UNCHANGED <<sidecar, metaTmp, userVars, plan>>
      /\ "codex" \in DOMAIN file' /\ "codex" \in DOMAIN fileTmp' /\ DOMAIN handle' = Processes
  BY DEF UndoReplace, Renamed, Running, Steps, DriftInv, Shape, Undoing
<1>2. /\ Shape(p)' /\ at'[p] = "undo_unlink" /\ ~Uninstalls(p)'
      /\ Installs(p)' <=> Installs(p)
  BY <1>1, ShapeKeeps DEF DriftInv, Shape, userVars, Steps, Uninstalls
<1>3. InstallInv(p)'
  BY <1>1, <1>2 DEF DriftInv, InstallInv, HasToWrite, PlansSidecar, Writing, Saving, Undoing
<1>4. (UninstallInv(p) /\ TemporaryInv(p))'
  BY <1>2 DEF UninstallInv, TemporaryInv, Filling
<1>5. NoDrift'
  <2>1. CASE OnCodex(p)
    BY <1>1, <2>1 DEF DriftInv, InstallInv, Installs, HasToWrite, Undoing, NoDrift
  <2>2. CASE ~OnCodex(p)
    <3>1. file'["codex"] = file["codex"]
      BY <1>1, <2>2 DEF UndoReplace, OnCodex, DriftInv, Shape
    <3>2. QED
      BY <1>1, <3>1 DEF DriftInv, NoDrift, userVars
  <2>3. QED
    BY <2>1, <2>2
<1>6. QED
  BY <1>1, <1>2, <1>3, <1>4, <1>5 DEF DriftInv, OneSidecar

\* Forgetting a sidecar, by the undo of an install or at the end of an uninstall.
LEMMA ForgettingKeeps ==
    ASSUME NEW p \in Processes, DriftInv(p), UndoUnlink(p) \/ Unlink(p)
    PROVE  DriftInv(p)'
<1>1. /\ Running(p) /\ (NextIntegration(p) \/ End(p))
      /\ UNCHANGED <<file, fileTmp, metaTmp, touched, raced>>
      /\ "codex" \in DOMAIN sidecar' /\ DOMAIN handle' = Processes
  BY DEF UndoUnlink, Unlink, Unlinked, Running, Steps, DriftInv, Shape, userVars
<1>2. sidecar'["codex"] \in {{}, sidecar["codex"]}
  BY DEF UndoUnlink, Unlink, DriftInv, Shape
<1>3. OneSidecar' /\ NoDrift'
  <2>1. CASE sidecar'["codex"] = {}
    BY <2>1 DEF OneSidecar, NoDrift
  <2>2. CASE sidecar'["codex"] = sidecar["codex"]
    BY <1>1, <2>2 DEF DriftInv, OneSidecar, NoDrift
  <2>3. QED
    BY <1>2, <2>1, <2>2
<1>4. QED
  BY <1>1, <1>3, NextKeeps DEF DriftInv, Shape

\* What uninstall_integration writes is what the sidecar remembers.
LEMMA RemovalRestores ==
    ASSUME NEW c, NEW S, NEW s, S = {s},
           s.strategy \in {"sidecar", "damaged", "managed_provider_base_url"},
           RemoveCodex(c, S).do = "write"
    PROVE  Managed(s) /\ c = s.desired /\ RemoveCodex(c, S).desired = {s.original}
<1>1. (CHOOSE t \in S : TRUE) = s
  OBVIOUS
<1>2. RemoveCodex(c, S) =
         CASE s.strategy = "sidecar" -> Forget
           [] s.strategy = "damaged" -> Leave
           [] OTHER ->
              IF c = s.original THEN Forget
              ELSE IF /\ c = s.desired
                      /\ HasBaseUrl(c, s.provider)
                      /\ SetBaseUrl(c, s.provider, s.url) = s.original
                   THEN Write(SetBaseUrl(c, s.provider, s.url))
                   ELSE Leave
  BY <1>1 DEF RemoveCodex
<1>3. s.strategy \notin {"sidecar", "damaged"}
  BY <1>2 DEF Forget, Leave
<1>4. RemoveCodex(c, S) =
              IF c = s.original THEN Forget
              ELSE IF /\ c = s.desired
                      /\ HasBaseUrl(c, s.provider)
                      /\ SetBaseUrl(c, s.provider, s.url) = s.original
                   THEN Write(SetBaseUrl(c, s.provider, s.url))
                   ELSE Leave
  BY <1>2, <1>3
<1>5. QED
  BY <1>3, <1>4 DEF Managed, Forget, Leave, Write

LEMMA PlanRemovalKeeps ==
    ASSUME NEW p \in Processes, DriftInv(p), PlanRemoval(p)
    PROVE  DriftInv(p)'
<1> DEFINE k == Kind(p)
           r == IF k = "codex" THEN RemoveCodex(file[k], plan[p].sidecar)
                               ELSE RemoveEnv(plan[p].original, sidecar[k])
<1>1. /\ at[p] = "plan" /\ command[p] = "uninstall" /\ Running(p)
      /\ UNCHANGED <<diskVars, userVars>>
  BY DEF PlanRemoval, Running, Steps
<1>2. CASE NextIntegration(p)
  BY <1>1, <1>2, NextKeeps DEF DriftInv, Shape, OneSidecar, NoDrift, diskVars, userVars
<1>3. CASE Continue(p, "unlink") /\ UNCHANGED plan
  <2>1. /\ Shape(p)' /\ at'[p] = "unlink" /\ ~Installs(p)'
        /\ Uninstalls(p)' <=> Uninstalls(p)
    BY <1>1, <1>3, ShapeKeeps
       DEF DriftInv, Shape, diskVars, userVars, Steps, Installs, Saving, Undoing
  <2>2. (InstallInv(p) /\ UninstallInv(p) /\ TemporaryInv(p))'
    BY <1>1, <1>3, <2>1
       DEF DriftInv, InstallInv, UninstallInv, TemporaryInv, Writing, Filling, diskVars
  <2>3. QED
    BY <1>1, <2>1, <2>2 DEF DriftInv, OneSidecar, NoDrift, diskVars, userVars
<1>4. ASSUME r.do = "write", Continue(p, "open"),
             NEW c \in r.desired, plan' = [plan EXCEPT ![p].desired = c]
      PROVE  DriftInv(p)'
  <2>1. /\ DOMAIN plan' = Processes
        /\ DOMAIN plan'[p] = {"safe", "original", "desired", "sidecar"}
        /\ plan'[p].desired = c /\ plan'[p].sidecar = plan[p].sidecar
    BY <1>4 DEF DriftInv, Shape
  <2>2. /\ Shape(p)' /\ at'[p] = "open" /\ ~Installs(p)'
        /\ Uninstalls(p)' <=> Uninstalls(p)
    BY <1>1, <1>4, <2>1, ShapeKeeps
       DEF DriftInv, Shape, diskVars, userVars, Steps, Installs, Saving, Undoing
  <2>3. ASSUME Uninstalls(p)
        PROVE  /\ plan[p].sidecar = sidecar["codex"]
               /\ \E s \in sidecar["codex"] :
                     Managed(s) /\ c = s.original /\ file["codex"] = s.desired
    <3>1. plan[p].sidecar = sidecar["codex"] /\ k = "codex"
      BY <1>1, <2>3 DEF DriftInv, UninstallInv, Uninstalls, OnCodex
    <3>2. r = RemoveCodex(file["codex"], sidecar["codex"])
      BY <3>1
    <3>3. sidecar["codex"] # {}
      BY <1>4, <3>2 DEF RemoveCodex, Leave
    <3>4. PICK s \in sidecar["codex"] : TRUE
      BY <3>3
    <3>5. /\ sidecar["codex"] = {s}
          /\ s.strategy \in {"sidecar", "damaged", "managed_provider_base_url"}
      BY DEF DriftInv, OneSidecar
    <3>6. Managed(s) /\ file["codex"] = s.desired /\ r.desired = {s.original}
      BY <1>4, <3>2, <3>5, RemovalRestores
    <3>7. QED
      BY <1>4, <3>1, <3>6
  <2>4. UninstallInv(p)'
    BY <1>1, <2>1, <2>2, <2>3 DEF UninstallInv, Writing, diskVars
  <2>5. (InstallInv(p) /\ TemporaryInv(p))'
    BY <2>2 DEF InstallInv, TemporaryInv, Filling
  <2>6. QED
    BY <1>1, <2>2, <2>4, <2>5 DEF DriftInv, OneSidecar, NoDrift, diskVars, userVars
<1>5. QED
  BY <1>2, <1>3, <1>4 DEF PlanRemoval

LEMMA FailsKeeps ==
    ASSUME NEW p \in Processes, DriftInv(p), Fails(p)
    PROVE  DriftInv(p)'
<1>1. /\ Running(p) /\ DOMAIN handle' = Processes
      /\ UNCHANGED <<file, sidecar, fileTmp, metaTmp, touched, raced>>
  BY DEF Fails, DriftInv, Shape
<1>2. CASE End(p)
  BY <1>1, <1>2, NextKeeps DEF DriftInv, Shape, OneSidecar, NoDrift
<1>3. CASE /\ at[p] \in {"open", "fill", "replace", "open_sidecar", "fill_sidecar",
                         "replace_sidecar"}
           /\ command[p] = "install" /\ Continue(p, "undo_open") /\ UNCHANGED plan
  <2>1. /\ Shape(p)' /\ at'[p] = "undo_open" /\ ~Uninstalls(p)'
        /\ Installs(p)' <=> Installs(p)
    BY <1>1, <1>3, ShapeKeeps DEF DriftInv, Shape, Steps, Uninstalls
  <2>2. InstallInv(p)'
    BY <1>1, <1>3, <2>1
       DEF DriftInv, InstallInv, HasToWrite, PlansSidecar, Writing, Saving, Undoing
  <2>3. (UninstallInv(p) /\ TemporaryInv(p))'
    BY <2>1 DEF UninstallInv, TemporaryInv, Filling
  <2>4. QED
    BY <1>1, <2>1, <2>2, <2>3 DEF DriftInv, OneSidecar, NoDrift
<1>4. QED
  BY <1>2, <1>3 DEF Fails

LEMMA KillKeeps ==
    ASSUME NEW p \in Processes, DriftInv(p), Kill(p)
    PROVE  DriftInv(p)'
<1>1. /\ Running(p) /\ End(p) /\ DOMAIN handle' = Processes
      /\ UNCHANGED <<file, sidecar, fileTmp, metaTmp, touched, raced>>
  BY DEF Kill, DriftInv, Shape
<1>2. QED
  BY <1>1, NextKeeps DEF DriftInv, Shape, OneSidecar, NoDrift

\* An edit in the middle of a rewrite is seen in raced, any other in touched.
LEMMA EditKeeps ==
    ASSUME NEW p \in Processes, DriftInv(p), NEW k \in KindSet, NEW c, Edit(k, c)
    PROVE  DriftInv(p)'
<1>1. /\ UNCHANGED <<sidecar, fileTmp, metaTmp, handle, procVars>>
      /\ "codex" \in DOMAIN file' /\ "codex" \in DOMAIN touched' /\ "codex" \in DOMAIN raced'
  BY DEF Edit, DriftInv, Shape
<1>2. Shape(p)' /\ OneSidecar' /\ TemporaryInv(p)'
  BY <1>1 DEF DriftInv, Shape, OneSidecar, TemporaryInv, procVars, OnCodex, Running, Kind
<1>3. /\ Installs(p)' <=> Installs(p)
      /\ Uninstalls(p)' <=> Uninstalls(p)
  BY <1>1 DEF Installs, Uninstalls, OnCodex, Running, Kind, procVars
<1>4. CASE k # "codex"
  <2>1. file'["codex"] = file["codex"] /\ touched'["codex"] = touched["codex"]
        /\ raced'["codex"] = raced["codex"]
    BY <1>4 DEF Edit, DriftInv, Shape
  <2>2. InstallInv(p)'
    BY <1>1, <1>3, <2>1 DEF DriftInv, InstallInv, HasToWrite, PlansSidecar, procVars
  <2>3. UninstallInv(p)'
    BY <1>1, <1>3, <2>1 DEF DriftInv, UninstallInv, procVars
  <2>4. QED
    BY <1>1, <1>2, <2>1, <2>2, <2>3 DEF DriftInv, NoDrift
<1>5. CASE k = "codex"
  <2>1. touched'["codex"]
    BY <1>5 DEF Edit, DriftInv, Shape
  <2>2. OnCodex(p) /\ at[p] \in Writing \cup Saving => raced'["codex"]
    <3>1. OnCodex(p) /\ at[p] \in Writing \cup Saving => Rewrites(p, "codex")
      BY DEF OnCodex, Rewrites, Writing, Saving, Filling
    <3>2. QED
      BY <1>5, <3>1 DEF Edit, DriftInv, Shape
  <2>3. InstallInv(p)'
    BY <1>1, <1>3, <2>2 DEF DriftInv, InstallInv, Installs, HasToWrite, PlansSidecar, procVars
  <2>4. UninstallInv(p)'
    BY <1>1, <1>3, <2>2 DEF DriftInv, UninstallInv, Uninstalls, procVars
  <2>5. QED
    BY <1>2, <2>1, <2>3, <2>4 DEF DriftInv, NoDrift
<1>6. QED
  BY <1>4, <1>5

-----------------------------------------------------------------------------
LEMMA DriftStep ==
    ASSUME NEW p, Processes = {p}, DriftInv(p), [Next]_vars
    PROVE  DriftInv(p)'
<1> p \in Processes
  OBVIOUS
<1>1. ASSUME NEW c \in Commands, NEW u \in Urls, Start(p, c, u)
      PROVE  DriftInv(p)'
  BY <1>1, StartKeeps
<1>2. CASE Step(p)
  BY <1>2, ReadKeeps, PlanInstallKeeps, CheckKeeps, OpenKeeps, FillKeeps, ReplaceKeeps,
     OpenSidecarKeeps, FillSidecarKeeps, ReplaceSidecarKeeps, UndoReplaceKeeps, ForgettingKeeps,
     PlanRemovalKeeps, FailsKeeps, KillKeeps DEF Step
<1>3. ASSUME NEW k \in KindSet, NEW c \in EditsOf(k, file[k]), Edit(k, c)
      PROVE  DriftInv(p)'
  BY <1>3, EditKeeps
<1>4. CASE UNCHANGED vars
  BY <1>4 DEF vars, diskVars, procVars, userVars, DriftInv, Shape, OneSidecar, InstallInv,
     UninstallInv, TemporaryInv, NoDrift, HasToWrite, PlansSidecar, OnCodex, Installs, Uninstalls,
     Running, Kind
<1>5. QED
  BY <1>1, <1>2, <1>3, <1>4 DEF Next, Commands

\* NeverStuckInDrift, of one command at a time, for any files, URLs and edits.
THEOREM OneCommandIsNeverStuckInDrift ==
    ASSUME NEW p, Processes = {p}
    PROVE  Spec => []NeverStuckInDrift
<1>1. Init => DriftInv(p)
  BY DriftStart
<1>2. DriftInv(p) /\ [Next]_vars => DriftInv(p)'
  BY DriftStep
<1>3. DriftInv(p) => NeverStuckInDrift
  BY DEF DriftInv, NoDrift, NeverStuckInDrift, Managed
<1>4. QED
  BY <1>1, <1>2, <1>3, PTL DEF Spec

-----------------------------------------------------------------------------
(* The base_url of the user.                                                *)

\* What the user saves keeps a section that points to the gateway as it is, or
\* points it elsewhere: no other section gets a gateway URL by an edit.
EditsAddNoGateway ==
    \A c \in CodexConfig : \A d \in EditsOf("codex", c) :
        /\ d \in CodexConfig
        /\ \A i \in DOMAIN d.providers :
              d.providers[i].url \in Urls =>
                  i \in DOMAIN c.providers /\ d.providers[i] = c.providers[i]

NoGateway(c) == \A i \in DOMAIN c.providers : c.providers[i].url \notin Urls

\* c is what the user wrote, but for sections that point to the gateway.
OwnOf(c) ==
    /\ c.note = own["codex"].note
    /\ DOMAIN c.providers = DOMAIN own["codex"].providers
    /\ \A i \in DOMAIN c.providers :
          /\ c.providers[i].id = own["codex"].providers[i].id
          /\ c.providers[i].url \in Urls \/ c.providers[i].url = own["codex"].providers[i].url

\* The sidecar of a config with one section says what that section was.
Remembers(s) ==
    /\ s.original \in CodexConfig /\ s.desired \in CodexConfig
    /\ s.original.note = s.desired.note
    /\ DOMAIN s.original.providers = {1} /\ DOMAIN s.desired.providers = {1}
    /\ s.original.providers[1].id = s.provider /\ s.original.providers[1].url = s.url
    /\ s.desired.providers[1].id = s.provider /\ s.desired.providers[1].url \in Urls

Changing == Writing \cup Saving \cup {"undo_open", "undo_fill", "undo_replace"}

Fine == intact /\ ~raced["codex"]

FileFacts ==
    /\ file["codex"] \in CodexConfig /\ own["codex"] \in CodexConfig
    /\ OwnOf(file["codex"])

SidecarFacts ==
    \A s \in sidecar["codex"] : Managed(s) => Remembers(s) /\ s.url \notin Urls

UrlFacts(p) == Running(p) /\ command[p] = "install" => url[p] \in Urls

PlanFacts(p) ==
    Installs(p) =>
        /\ at[p] = "plan" => plan[p].original \in CodexConfig
        /\ HasToWrite(p) => \A s \in plan[p].sidecar : Remembers(s)
        /\ at[p] \in Changing => OwnOf(plan[p].original) /\ NoGateway(plan[p].original)

ForgetsNothing(p) == Uninstalls(p) /\ at[p] = "unlink" => NoGateway(file["codex"])

Recorded(p) == ~BetweenRenames(p) => OwnUrlIsRecorded

OwnInv(p) ==
    Fine => /\ FileFacts /\ SidecarFacts /\ UrlFacts(p) /\ PlanFacts(p)
            /\ ForgetsNothing(p) /\ Recorded(p)

-----------------------------------------------------------------------------
LEMMA OnlySection ==
    ASSUME NEW c \in CodexConfig, Len(c.providers) = 1
    PROVE  /\ DOMAIN c.providers = {1}
           /\ Sections(c, c.providers[1].id) = {1}
           /\ Min(Sections(c, c.providers[1].id)) = 1
<1>1. DOMAIN c.providers = {1}
  BY DEF CodexConfig
<1>2. Sections(c, c.providers[1].id) = {1}
  BY <1>1 DEF Sections
<1>3. Min({1}) = 1
  BY DEF Min
<1>4. QED
  BY <1>1, <1>2, <1>3

LEMMA SectionFields ==
    ASSUME NEW c \in CodexConfig, NEW i \in DOMAIN c.providers
    PROVE  DOMAIN c.providers[i] = {"id", "url"}
<1> DEFINE Section == [id : ProviderIds, url : Urls \cup OwnUrls \cup {NoUrl}]
<1>1. c.providers \in Seq(Section)
  BY DEF CodexConfig
<1>2. c.providers[i] \in Section
  <2> HIDE DEF Section
  <2>1. QED
    BY <1>1
<1>3. QED
  BY <1>2

\* Pointing the only section to the gateway changes its URL and nothing else.
LEMMA OnlyItsUrl ==
    ASSUME NEW c \in CodexConfig, Len(c.providers) = 1, NEW u \in Urls
    PROVE  LET d == SetBaseUrl(c, c.providers[1].id, u)
           IN  /\ d \in CodexConfig /\ DOMAIN d.providers = {1} /\ d.note = c.note
               /\ d.providers[1].id = c.providers[1].id /\ d.providers[1].url = u
<1> DEFINE Section == [id : ProviderIds, url : Urls \cup OwnUrls \cup {NoUrl}]
           new == [c.providers[1] EXCEPT !.url = u]
           providers == [c.providers EXCEPT ![1] = new]
           d == SetBaseUrl(c, c.providers[1].id, u)
<1>1. /\ c = [providers |-> c.providers, note |-> c.note]
      /\ c.note \in Notes \cup {NoNote} /\ c.providers \in Seq(Section)
  BY DEF CodexConfig
<1>2. d = [providers |-> providers, note |-> c.note]
  <2>1. d = [c EXCEPT !.providers[1].url = u]
    BY OnlySection DEF SetBaseUrl
  <2>2. QED
    BY <1>1, <2>1
<1>3. c.providers[1] \in Section /\ 1 \in 1 .. Len(c.providers)
  <2> HIDE DEF Section
  <2>1. QED
    BY <1>1
<1>4. new \in Section /\ new.id = c.providers[1].id /\ new.url = u
  BY <1>3
<1>5. providers \in Seq(Section)
  <2> HIDE DEF Section, new
  <2>1. QED
    BY <1>1, <1>3, <1>4, ExceptSeq
<1>6. DOMAIN providers = {1} /\ providers[1] = new
  BY OnlySection
<1>7. QED
  BY <1>1, <1>2, <1>4, <1>5, <1>6 DEF CodexConfig

\* The sidecar an install plans remembers the section it changes.
LEMMA SidecarRemembers ==
    ASSUME NEW c \in CodexConfig, Len(c.providers) = 1, NEW u \in Urls
    PROVE  LET id == c.providers[1].id
           IN  Remembers(CodexSidecar(id, BaseUrl(c, id), c, SetBaseUrl(c, id, u)))
<1> DEFINE id == c.providers[1].id
           d  == SetBaseUrl(c, id, u)
           s  == CodexSidecar(id, BaseUrl(c, id), c, d)
<1>1. DOMAIN c.providers = {1} /\ BaseUrl(c, id) = c.providers[1].url
  BY OnlySection DEF BaseUrl
<1>2. /\ d \in CodexConfig /\ DOMAIN d.providers = {1} /\ d.note = c.note
      /\ d.providers[1].id = id /\ d.providers[1].url = u
  BY OnlyItsUrl
<1>3. s.original = c /\ s.desired = d /\ s.provider = id /\ s.url = BaseUrl(c, id)
  BY DEF CodexSidecar
<1>4. Remembers(s)
  BY <1>1, <1>2, <1>3 DEF Remembers
<1>5. QED
  BY <1>4

LEMMA OwnUrlStart ==
    ASSUME NEW p \in Processes PROVE Init => OwnInv(p)
<1> SUFFICES ASSUME Init PROVE OwnInv(p)
  OBVIOUS
<1>1. PICK r \in Roots : /\ file = [codex |-> r.codex, openai_env |-> r.openai_env]
                         /\ sidecar = [codex |-> r.sidecar, openai_env |-> {}]
  BY DEF Init
<1>2. own = file /\ at[p] = "idle"
  BY DEF Init
<1>3. FileFacts /\ SidecarFacts
  <2>1. FileFacts
    BY <1>1, <1>2, RootsAssumption DEF FileFacts, OwnOf
  <2>2. SidecarFacts
    BY SidecarAtStart DEF SidecarFacts, Managed
  <2>3. QED
    BY <2>1, <2>2
<1>4. UrlFacts(p) /\ PlanFacts(p) /\ ForgetsNothing(p)
  BY <1>2 DEF UrlFacts, PlanFacts, ForgetsNothing, Running, Steps, Installs, OnCodex, Filling
<1>5. Recorded(p)
  BY <1>1, RootsAssumption DEF Recorded, OwnUrlIsRecorded
<1>6. QED
  BY <1>3, <1>4, <1>5 DEF OwnInv

\* A step of a command that leaves the config, its sidecar and the user's view.
LEMMA QuietStep ==
    ASSUME NEW p \in Processes, OwnInv(p), Fine' => Fine,
           file'["codex"] = file["codex"], sidecar'["codex"] = sidecar["codex"],
           own'["codex"] = own["codex"],
           Fine => UrlFacts(p)' /\ PlanFacts(p)' /\ ForgetsNothing(p)',
           Fine /\ Fine' /\ BetweenRenames(p) => BetweenRenames(p)'
    PROVE  OwnInv(p)'
<1>1. SUFFICES ASSUME Fine, Fine' PROVE OwnInv(p)'
  BY DEF OwnInv
<1>2. FileFacts' /\ SidecarFacts'
  BY <1>1 DEF OwnInv, FileFacts, SidecarFacts, OwnOf
<1>3. Recorded(p)'
  BY <1>1 DEF OwnInv, Recorded, OwnUrlIsRecorded
<1>4. QED
  BY <1>1, <1>2, <1>3 DEF OwnInv

\* The end of an integration or of the command: nothing of a plan is left.
LEMMA NextOwn ==
    ASSUME NEW p \in Processes, DriftInv(p), Running(p), NextIntegration(p) \/ End(p),
           Fine => UrlFacts(p)
    PROVE  /\ Fine => UrlFacts(p)' /\ PlanFacts(p)' /\ ForgetsNothing(p)'
           /\ ~BetweenRenames(p)'
<1>1. /\ at'[p] \in {"idle", "read"}
      /\ at'[p] = "read" => command'[p] = command[p] /\ url'[p] = url[p]
  BY DEF NextIntegration, End, Goto, DriftInv, Shape
<1>2. Fine => UrlFacts(p)'
  BY <1>1 DEF UrlFacts, Running, Steps, Filling
<1>3. PlanFacts(p)' /\ ForgetsNothing(p)' /\ ~BetweenRenames(p)'
  BY <1>1 DEF PlanFacts, ForgetsNothing, BetweenRenames, HasToWrite, Changing, Writing, Saving, Undoing
<1>4. QED
  BY <1>2, <1>3

LEMMA StartOwn ==
    ASSUME NEW p \in Processes, NEW c \in Commands, NEW u \in Urls,
           DriftInv(p), OwnInv(p), Start(p, c, u)
    PROVE  OwnInv(p)'
<1>1. /\ at[p] = "idle" /\ at'[p] = "read" /\ url'[p] = u
      /\ UNCHANGED <<diskVars, userVars>>
  BY DEF Start, Goto, DriftInv, Shape
<1>2. UrlFacts(p)' /\ PlanFacts(p)' /\ ForgetsNothing(p)'
  BY <1>1 DEF UrlFacts, PlanFacts, ForgetsNothing, HasToWrite, Changing, Writing, Saving, Undoing
<1>3. ~BetweenRenames(p)
  BY <1>1 DEF BetweenRenames
<1>4. QED
  BY <1>1, <1>2, <1>3, QuietStep DEF diskVars, userVars, Fine

\* A command at its next step.
LEMMA ContinueOwn ==
    ASSUME NEW p \in Processes, NEW step \in Steps, Shape(p), Running(p), Continue(p, step)
    PROVE  /\ at'[p] = step /\ url' = url
           /\ Installs(p)' <=> Installs(p)
           /\ Uninstalls(p)' <=> Uninstalls(p)
           /\ UrlFacts(p) => UrlFacts(p)'
<1>1. at'[p] = step /\ UNCHANGED <<command, url, todo>>
  BY DEF Continue, Goto, Shape
<1>2. QED
  BY <1>1 DEF Running, OnCodex, Installs, Uninstalls, UrlFacts, Kind

LEMMA ReadOwn ==
    ASSUME NEW p \in Processes, DriftInv(p), OwnInv(p), Read(p)
    PROVE  OwnInv(p)'
<1>1. /\ at[p] = "read" /\ Continue(p, "plan") /\ Running(p)
      /\ UNCHANGED <<diskVars, userVars>>
      /\ ~ReadsSidecarFirst(p) => plan'[p].original = file[Kind(p)]
  BY DEF Read, Running, Steps, DriftInv, Shape, NoPlan, Plan
<1>2. /\ at'[p] = "plan"
      /\ Installs(p)' <=> Installs(p)
      /\ Uninstalls(p)' <=> Uninstalls(p)
      /\ UrlFacts(p) => UrlFacts(p)'
  BY <1>1, ContinueOwn DEF DriftInv, Steps
<1>3. FileFacts => PlanFacts(p)'
  BY <1>1, <1>2 DEF PlanFacts, FileFacts, Installs, OnCodex, ReadsSidecarFirst, HasToWrite,
                    Changing, Writing, Saving, Undoing
<1>4. ForgetsNothing(p)' /\ ~BetweenRenames(p)
  BY <1>1, <1>2 DEF ForgetsNothing, BetweenRenames
<1>5. QED
  BY <1>1, <1>2, <1>3, <1>4, QuietStep DEF diskVars, userVars, Fine, OwnInv

LEMMA PlanInstallOwn ==
    ASSUME NEW p \in Processes, DriftInv(p), OwnInv(p), PlanInstall(p)
    PROVE  OwnInv(p)'
<1> DEFINE k == Kind(p)
           c == plan[p].original
           new == IF k = "codex" THEN PlanCodex(c, sidecar[k], url[p])
                                 ELSE PlanEnv(c, sidecar[k], url[p])
<1>1. /\ at[p] = "plan" /\ command[p] = "install" /\ Running(p)
      /\ UNCHANGED <<diskVars, userVars>>
      /\ \/ Continue(p, "check") /\ plan' = [plan EXCEPT ![p] = new]
         \/ NextIntegration(p)
      /\ ~BetweenRenames(p)
  BY DEF PlanInstall, Running, Steps, BetweenRenames
<1>2. CASE NextIntegration(p)
  BY <1>1, <1>2, NextOwn, QuietStep DEF diskVars, userVars, Fine, OwnInv
<1>3. CASE Continue(p, "check") /\ plan' = [plan EXCEPT ![p] = new]
  <2>1. plan'[p] = new
    BY <1>3 DEF DriftInv, Shape
  <2>2. /\ at'[p] = "check"
        /\ Installs(p)' <=> Installs(p)
        /\ Uninstalls(p)' <=> Uninstalls(p)
        /\ UrlFacts(p) => UrlFacts(p)'
    BY <1>1, <1>3, ContinueOwn DEF DriftInv, Steps
  <2>3. ASSUME Fine, Installs(p), new.original # new.desired
        PROVE  \A s \in new.sidecar : Remembers(s)
    <3>1. new = PlanCodex(c, sidecar["codex"], url[p])
      BY <2>3 DEF Installs, OnCodex
    <3>2. c \in CodexConfig /\ url[p] \in Urls
      BY <1>1, <2>3 DEF OwnInv, PlanFacts, UrlFacts
    <3> DEFINE id == c.providers[1].id
               d  == SetBaseUrl(c, id, url[p])
    <3>3. CASE sidecar["codex"] = {} /\ Len(c.providers) = 1 /\ HasBaseUrl(c, id)
      <4>1. new = Plan(TRUE, c, d, {CodexSidecar(id, BaseUrl(c, id), c, d)})
        BY <3>1, <3>3 DEF PlanCodex
      <4>2. new.sidecar = {CodexSidecar(id, BaseUrl(c, id), c, d)}
        BY <4>1 DEF Plan
      <4>3. Remembers(CodexSidecar(id, BaseUrl(c, id), c, d))
        BY <3>2, <3>3, SidecarRemembers
      <4>4. QED
        BY <4>2, <4>3
    <3>4. CASE ~(sidecar["codex"] = {} /\ Len(c.providers) = 1 /\ HasBaseUrl(c, id))
      <4>1. new.original = c /\ new.desired = c
        BY <3>1, <3>4 DEF PlanCodex, Plan
      <4>2. QED
        BY <4>1, <2>3
    <3>5. QED
      BY <3>3, <3>4
  <2>4. Fine => PlanFacts(p)'
    BY <2>1, <2>2, <2>3 DEF PlanFacts, HasToWrite, Changing, Writing, Saving, Undoing
  <2>5. ForgetsNothing(p)'
    BY <2>2 DEF ForgetsNothing
  <2>6. QED
    BY <1>1, <2>2, <2>4, <2>5, QuietStep DEF diskVars, userVars, Fine, OwnInv
<1>4. QED
  BY <1>1, <1>2, <1>3

LEMMA CheckOwn ==
    ASSUME NEW p \in Processes, DriftInv(p), OwnInv(p), Check(p)
    PROVE  OwnInv(p)'
<1>1. /\ at[p] = "check" /\ command[p] = "install" /\ Running(p)
      /\ UNCHANGED <<diskVars, userVars>> /\ ~BetweenRenames(p)
  BY DEF Check, Running, Steps, DriftInv, Shape, BetweenRenames
<1>2. CASE NextIntegration(p)
  BY <1>1, <1>2, NextOwn, QuietStep DEF diskVars, userVars, Fine, OwnInv
<1>3. CASE /\ Continue(p, "open") /\ UNCHANGED plan
           /\ file[Kind(p)] = plan[p].original /\ file[Kind(p)] # plan[p].desired
  <2>1. /\ at'[p] = "open"
        /\ Installs(p)' <=> Installs(p)
        /\ Uninstalls(p)' <=> Uninstalls(p)
        /\ UrlFacts(p) => UrlFacts(p)'
    BY <1>1, <1>3, ContinueOwn DEF DriftInv, Steps
  <2>2. ASSUME Fine, Installs(p)
        PROVE  /\ HasToWrite(p) /\ OwnOf(plan[p].original) /\ NoGateway(plan[p].original)
    <3>1. HasToWrite(p) /\ file["codex"] = plan[p].original
      BY <1>1, <1>3, <2>2 DEF HasToWrite, Installs, OnCodex
    <3>2. sidecar["codex"] = {}
      BY <2>2, <3>1 DEF DriftInv, InstallInv
    <3>3. OwnOf(file["codex"]) /\ OwnUrlIsRecorded
      BY <1>1, <2>2 DEF OwnInv, FileFacts, Recorded
    <3>4. NoGateway(file["codex"])
      BY <3>2, <3>3 DEF OwnUrlIsRecorded, NoGateway
    <3>5. QED
      BY <3>1, <3>3, <3>4
  <2>3. Fine => PlanFacts(p)'
    BY <1>1, <1>3, <2>1, <2>2 DEF OwnInv, PlanFacts, HasToWrite, OwnOf, NoGateway, userVars
  <2>4. ForgetsNothing(p)'
    BY <2>1 DEF ForgetsNothing
  <2>5. QED
    BY <1>1, <2>1, <2>3, <2>4, QuietStep DEF diskVars, userVars, Fine, OwnInv
<1>4. QED
  BY <1>2, <1>3 DEF Check

\* A step in the middle of a rewrite that moves no file into place.
LEMMA TemporaryOwn ==
    ASSUME NEW p \in Processes, NEW step \in Steps, DriftInv(p), OwnInv(p), Running(p),
           Continue(p, step), UNCHANGED <<file, sidecar, userVars, plan>>,
           at[p] \in Changing, step \in Changing,
           at[p] \in Writing <=> step \in Writing
    PROVE  OwnInv(p)'
<1>1. /\ at'[p] = step /\ at[p] # "check"
      /\ Installs(p)' <=> Installs(p)
      /\ Uninstalls(p)' <=> Uninstalls(p)
      /\ UrlFacts(p) => UrlFacts(p)'
  BY ContinueOwn DEF DriftInv, Changing, Writing, Saving
<1>2. HasToWrite(p) /\ step # "unlink" /\ step # "plan"
  BY <1>1 DEF HasToWrite, Changing, Writing, Saving, Undoing
<1>3. PlanFacts(p) => PlanFacts(p)'
  BY <1>1, <1>2 DEF PlanFacts, OwnOf, NoGateway, userVars
<1>4. ForgetsNothing(p)'
  BY <1>1, <1>2 DEF ForgetsNothing
<1>5. BetweenRenames(p) => BetweenRenames(p)'
  BY <1>1 DEF BetweenRenames, Continue, Kind, Changing, Writing, Saving
<1>6. QED
  BY <1>1, <1>3, <1>4, <1>5, QuietStep DEF userVars, Fine, OwnInv

LEMMA TemporariesOwn ==
    ASSUME NEW p \in Processes, DriftInv(p), OwnInv(p),
           Open(p) \/ Fill(p) \/ OpenSidecar(p) \/ FillSidecar(p)
    PROVE  OwnInv(p)'
<1>1. CASE Open(p)
  <2>1. /\ at[p] \in {"open", "undo_open"} /\ UNCHANGED <<file, sidecar, userVars, plan>>
        /\ Continue(p, IF at[p] = "open" THEN "fill" ELSE "undo_fill")
    BY <1>1 DEF Open
  <2>2. QED
    BY <2>1, TemporaryOwn DEF Running, Steps, Filling, Changing, Writing, Saving
<1>2. CASE Fill(p)
  <2>1. /\ at[p] \in Filling /\ UNCHANGED <<file, sidecar, userVars, plan>>
        /\ Continue(p, IF at[p] = "fill" THEN "replace" ELSE "undo_replace")
    BY <1>2 DEF Fill, DriftInv, TemporaryInv
  <2>2. QED
    BY <2>1, TemporaryOwn DEF Running, Steps, Filling, Changing, Writing, Saving
<1>3. CASE OpenSidecar(p)
  <2>1. /\ at[p] = "open_sidecar" /\ UNCHANGED <<file, sidecar, userVars, plan>>
        /\ Continue(p, "fill_sidecar")
    BY <1>3 DEF OpenSidecar
  <2>2. QED
    BY <2>1, TemporaryOwn DEF Running, Steps, Changing, Writing, Saving
<1>4. CASE FillSidecar(p)
  <2>1. /\ at[p] = "fill_sidecar" /\ UNCHANGED <<file, sidecar, userVars, plan>>
        /\ Continue(p, "replace_sidecar")
    BY <1>4 DEF FillSidecar, DriftInv, TemporaryInv
  <2>2. QED
    BY <2>1, TemporaryOwn DEF Running, Steps, Changing, Writing, Saving
<1>5. QED
  BY <1>1, <1>2, <1>3, <1>4

\* An uninstall puts back what the user wrote.
LEMMA RestoredOwn ==
    ASSUME NEW p \in Processes, DriftInv(p), OwnInv(p), Fine, Recorded(p), ~BetweenRenames(p),
           NEW s \in sidecar["codex"], Managed(s), file["codex"] = s.desired
    PROVE  /\ s.original \in CodexConfig /\ OwnOf(s.original) /\ NoGateway(s.original)
<1>1. Remembers(s) /\ s.url \notin Urls /\ OwnOf(s.desired)
  BY DEF OwnInv, SidecarFacts, FileFacts
<1>2. OwnUrlIsRecorded /\ 1 \in DOMAIN file["codex"].providers
  BY <1>1 DEF Recorded, Remembers
<1>3. PICK t \in sidecar["codex"] : /\ t.provider = own["codex"].providers[1].id
                                    /\ t.url = own["codex"].providers[1].url
  BY <1>1, <1>2 DEF OwnUrlIsRecorded, Remembers
<1>4. t = s
  BY DEF DriftInv, OneSidecar
<1>5. QED
  BY <1>1, <1>3, <1>4 DEF Remembers, OwnOf, NoGateway

LEMMA ReplaceOwn ==
    ASSUME NEW p \in Processes, DriftInv(p), OwnInv(p), Replace(p)
    PROVE  OwnInv(p)'
<1> DEFINE step == IF command[p] = "install" THEN "open_sidecar" ELSE "unlink"
<1>1. /\ at[p] = "replace" /\ Continue(p, step) /\ Running(p)
      /\ command[p] \in Commands
      /\ UNCHANGED <<sidecar, own, raced, intact, plan>>
      /\ ~BetweenRenames(p)
  BY DEF Replace, Running, Steps, DriftInv, Shape, BetweenRenames
<1>2. /\ at'[p] = step
      /\ Installs(p)' <=> Installs(p)
      /\ Uninstalls(p)' <=> Uninstalls(p)
      /\ UrlFacts(p) => UrlFacts(p)'
  BY <1>1, ContinueOwn DEF DriftInv, Steps
<1>3. /\ OnCodex(p) => file'["codex"] = plan[p].desired
      /\ ~OnCodex(p) => file'["codex"] = file["codex"]
  <2>1. OnCodex(p) => file'["codex"] = plan[p].desired
    BY <1>1 DEF Replace, DriftInv, Shape, TemporaryInv, OnCodex
  <2>2. ~OnCodex(p) => file'["codex"] = file["codex"]
    BY <1>1 DEF Replace, OnCodex, DriftInv, Shape
  <2>3. QED
    BY <2>1, <2>2
<1>4. PlanFacts(p) => PlanFacts(p)'
  BY <1>1, <1>2 DEF PlanFacts, HasToWrite, Changing, Writing, Saving, Undoing, OwnOf, NoGateway,
                    Installs
<1>5. CASE ~OnCodex(p)
  <2>1. ForgetsNothing(p)'
    BY <1>2, <1>5 DEF ForgetsNothing, Uninstalls
  <2>2. QED
    BY <1>1, <1>2, <1>3, <1>4, <1>5, <2>1, QuietStep DEF Fine, OwnInv
<1>6. ASSUME Fine, Installs(p) PROVE OwnInv(p)'
  <2>1. HasToWrite(p) /\ at[p] \in Writing /\ at[p] \in Changing
    BY <1>1 DEF HasToWrite, Writing, Changing
  <2>2. PICK s : /\ plan[p].sidecar = {s}
                 /\ s.original = plan[p].original /\ s.desired = plan[p].desired
    BY <1>6, <2>1 DEF DriftInv, InstallInv, PlansSidecar
  <2>3. Remembers(s) /\ OwnOf(s.original) /\ NoGateway(s.original)
    BY <1>6, <2>1, <2>2 DEF OwnInv, PlanFacts
  <2>4. FileFacts'
    <3>1. s.desired \in CodexConfig /\ OwnOf(s.desired)
      BY <2>3 DEF OwnOf, Remembers
    <3>2. file'["codex"] = s.desired
      BY <1>3, <1>6, <2>2 DEF Installs
    <3>3. own["codex"] \in CodexConfig
      BY <1>6 DEF OwnInv, FileFacts
    <3>4. QED
      BY <1>1, <3>1, <3>2, <3>3 DEF FileFacts, OwnOf
  <2>5. BetweenRenames(p)'
    BY <1>1, <1>2, <1>6 DEF BetweenRenames, Installs, OnCodex, Continue, Kind
  <2>6. ForgetsNothing(p)'
    BY <1>2, <1>6 DEF ForgetsNothing, Installs, Uninstalls
  <2>7. SidecarFacts'
    BY <1>1, <1>6 DEF OwnInv, SidecarFacts
  <2>8. QED
    BY <1>2, <1>4, <1>6, <2>4, <2>5, <2>6, <2>7 DEF OwnInv, Recorded
<1>7. ASSUME Fine, Uninstalls(p) PROVE OwnInv(p)'
  <2>1. PICK s \in sidecar["codex"] : /\ Managed(s) /\ plan[p].desired = s.original
                                      /\ file["codex"] = s.desired
    BY <1>1, <1>7 DEF DriftInv, UninstallInv, Writing, Fine
  <2>2. s.original \in CodexConfig /\ OwnOf(s.original) /\ NoGateway(s.original)
    BY <1>1, <1>7, <2>1, RestoredOwn DEF OwnInv
  <2>3. file'["codex"] = s.original
    BY <1>3, <1>7, <2>1 DEF Uninstalls
  <2>4. FileFacts'
    <3>1. own["codex"] \in CodexConfig
      BY <1>7 DEF OwnInv, FileFacts
    <3>2. QED
      BY <1>1, <2>2, <2>3, <3>1 DEF FileFacts, OwnOf
  <2>5. ForgetsNothing(p)' /\ Recorded(p)'
    BY <2>2, <2>3 DEF ForgetsNothing, Recorded, OwnUrlIsRecorded, NoGateway
  <2>6. SidecarFacts'
    BY <1>1, <1>7 DEF OwnInv, SidecarFacts
  <2>7. QED
    BY <1>2, <1>4, <1>7, <2>4, <2>5, <2>6 DEF OwnInv
<1>8. QED
  BY <1>1, <1>5, <1>6, <1>7 DEF OwnInv, Fine, Installs, Uninstalls, Commands

LEMMA ReplaceSidecarOwn ==
    ASSUME NEW p \in Processes, DriftInv(p), OwnInv(p), ReplaceSidecar(p)
    PROVE  OwnInv(p)'
<1>1. /\ at[p] = "replace_sidecar" /\ NextIntegration(p) /\ Running(p)
      /\ command[p] = "install"
      /\ UNCHANGED <<file, userVars>>
  BY DEF ReplaceSidecar, Running, Steps, DriftInv, Shape, Saving
<1>2. /\ Fine => UrlFacts(p)' /\ PlanFacts(p)' /\ ForgetsNothing(p)'
      /\ ~BetweenRenames(p)'
  BY <1>1, NextOwn DEF OwnInv
<1>3. CASE ~OnCodex(p)
  <2>1. sidecar'["codex"] = sidecar["codex"]
    BY <1>1, <1>3 DEF ReplaceSidecar, DriftInv, Shape, OnCodex
  <2>2. ~BetweenRenames(p)
    BY <1>1, <1>3 DEF BetweenRenames, OnCodex
  <2>3. QED
    BY <1>1, <1>2, <2>1, <2>2, QuietStep DEF userVars, Fine
<1>4. ASSUME Fine, OnCodex(p) PROVE OwnInv(p)'
  <2>1. HasToWrite(p) /\ at[p] \in Saving /\ at[p] \in Changing /\ Installs(p)
    BY <1>1, <1>4 DEF HasToWrite, Saving, Changing, Installs
  <2>2. PICK s : /\ plan[p].sidecar = {s} /\ Managed(s)
                 /\ s.original = plan[p].original /\ s.desired = plan[p].desired
    BY <2>1 DEF DriftInv, InstallInv, PlansSidecar
  <2>3. sidecar'["codex"] = {s} /\ file["codex"] = s.desired
    BY <1>1, <1>4, <2>1, <2>2
       DEF ReplaceSidecar, DriftInv, Shape, InstallInv, OnCodex, Fine
  <2>4. Remembers(s) /\ OwnOf(s.original) /\ NoGateway(s.original)
    BY <1>4, <2>1, <2>2 DEF OwnInv, PlanFacts
  <2>5. s.url \notin Urls
    BY <2>4 DEF Remembers, NoGateway
  <2>6. FileFacts' /\ SidecarFacts'
    BY <1>1, <1>4, <2>3, <2>4, <2>5 DEF OwnInv, FileFacts, SidecarFacts, OwnOf, userVars
  <2>7. \A i \in DOMAIN s.desired.providers : /\ s.provider = own["codex"].providers[i].id
                                              /\ s.url = own["codex"].providers[i].url
    BY <2>4, <2>5 DEF Remembers, OwnOf
  <2>8. OwnUrlIsRecorded'
    BY <1>1, <2>2, <2>3, <2>7 DEF OwnUrlIsRecorded, Managed, userVars
  <2>9. QED
    BY <1>2, <1>4, <2>6, <2>8 DEF OwnInv, Recorded
<1>5. QED
  BY <1>1, <1>3, <1>4 DEF OwnInv, Fine, userVars

LEMMA UndoReplaceOwn ==
    ASSUME NEW p \in Processes, DriftInv(p), OwnInv(p), UndoReplace(p)
    PROVE  OwnInv(p)'
<1>1. /\ at[p] = "undo_replace" /\ Continue(p, "undo_unlink") /\ Running(p)
      /\ command[p] = "install"
      /\ UNCHANGED <<sidecar, userVars, plan>>
  BY DEF UndoReplace, Running, Steps, DriftInv, Shape, Undoing
<1>2. /\ at'[p] = "undo_unlink"
      /\ Installs(p)' <=> Installs(p)
      /\ Uninstalls(p)' <=> Uninstalls(p)
      /\ UrlFacts(p) => UrlFacts(p)'
  BY <1>1, ContinueOwn DEF DriftInv, Steps
<1>3. PlanFacts(p) => PlanFacts(p)'
  BY <1>1, <1>2 DEF PlanFacts, HasToWrite, Undoing, Changing, Writing, Saving
<1>4. ForgetsNothing(p)'
  BY <1>2 DEF ForgetsNothing
<1>5. CASE ~OnCodex(p)
  <2>1. file'["codex"] = file["codex"]
    BY <1>1, <1>5 DEF UndoReplace, DriftInv, Shape, OnCodex
  <2>2. ~BetweenRenames(p)
    BY <1>1, <1>5 DEF BetweenRenames, OnCodex
  <2>3. QED
    BY <1>1, <1>2, <1>3, <1>4, <2>1, <2>2, QuietStep DEF userVars, Fine, OwnInv
<1>6. ASSUME Fine, OnCodex(p) PROVE OwnInv(p)'
  <2>1. HasToWrite(p) /\ at[p] \in Changing /\ Installs(p)
    BY <1>1, <1>6 DEF HasToWrite, Undoing, Changing, Installs
  <2>2. /\ OwnOf(plan[p].original) /\ NoGateway(plan[p].original)
        /\ \A s \in plan[p].sidecar : Remembers(s)
    BY <1>6, <2>1 DEF OwnInv, PlanFacts
  <2>3. plan[p].original \in CodexConfig
    BY <2>1, <2>2 DEF DriftInv, InstallInv, PlansSidecar, Remembers
  <2>4. file'["codex"] = plan[p].original
    BY <1>1, <1>6 DEF UndoReplace, DriftInv, Shape, TemporaryInv, OnCodex
  <2>5. FileFacts' /\ SidecarFacts'
    BY <1>1, <1>6, <2>2, <2>3, <2>4 DEF OwnInv, FileFacts, SidecarFacts, OwnOf, userVars
  <2>6. Recorded(p)'
    BY <2>2, <2>4 DEF Recorded, OwnUrlIsRecorded, NoGateway
  <2>7. QED
    BY <1>2, <1>3, <1>4, <1>6, <2>5, <2>6 DEF OwnInv
<1>7. QED
  BY <1>1, <1>5, <1>6 DEF OwnInv, Fine, userVars

LEMMA ForgettingOwn ==
    ASSUME NEW p \in Processes, DriftInv(p), OwnInv(p), UndoUnlink(p) \/ Unlink(p)
    PROVE  OwnInv(p)'
<1>1. /\ at[p] \in {"undo_unlink", "unlink"} /\ Running(p) /\ (NextIntegration(p) \/ End(p))
      /\ UNCHANGED <<file, userVars>> /\ ~BetweenRenames(p)
  BY DEF UndoUnlink, Unlink, Running, Steps, BetweenRenames
<1>2. /\ Fine => UrlFacts(p)' /\ PlanFacts(p)' /\ ForgetsNothing(p)'
      /\ ~BetweenRenames(p)'
  BY <1>1, NextOwn DEF OwnInv
<1>3. CASE ~OnCodex(p)
  <2>1. sidecar'["codex"] = sidecar["codex"]
    BY <1>1, <1>3 DEF UndoUnlink, Unlink, DriftInv, Shape, OnCodex
  <2>2. QED
    BY <1>1, <1>2, <2>1, QuietStep DEF userVars, Fine
<1>4. ASSUME Fine, OnCodex(p) PROVE OwnInv(p)'
  <2>1. sidecar'["codex"] = {}
    BY <1>4 DEF UndoUnlink, Unlink, DriftInv, Shape, OnCodex
  <2>2. NoGateway(file["codex"])
    <3>1. CASE at[p] = "undo_unlink"
      <4>1. sidecar["codex"] = {}
        BY <1>4, <3>1 DEF DriftInv, Shape, InstallInv, Installs, HasToWrite, Undoing
      <4>2. QED
        BY <1>1, <1>4, <4>1 DEF OwnInv, Recorded, OwnUrlIsRecorded, NoGateway
    <3>2. CASE at[p] = "unlink"
      BY <1>4, <3>2 DEF DriftInv, Shape, Uninstalls, OwnInv, ForgetsNothing
    <3>3. QED
      BY <1>1, <3>1, <3>2
  <2>3. FileFacts' /\ SidecarFacts' /\ Recorded(p)'
    BY <1>1, <1>4, <2>1, <2>2
       DEF OwnInv, FileFacts, SidecarFacts, OwnOf, Recorded, OwnUrlIsRecorded, NoGateway, userVars
  <2>4. QED
    BY <1>2, <1>4, <2>3 DEF OwnInv
<1>5. QED
  BY <1>1, <1>3, <1>4 DEF OwnInv, Fine, userVars

\* With a sidecar of this version uninstall_integration forgets it only when the
\* file is already what it was.
LEMMA ForgetsOriginal ==
    ASSUME NEW c, NEW S, NEW s, S = {s}, Managed(s), RemoveCodex(c, S).do = "forget"
    PROVE  c = s.original
<1>1. (CHOOSE t \in S : TRUE) = s
  OBVIOUS
<1>2. s.strategy \notin {"sidecar", "damaged"}
  BY DEF Managed
<1>3. RemoveCodex(c, S) =
         CASE s.strategy = "sidecar" -> Forget
           [] s.strategy = "damaged" -> Leave
           [] OTHER ->
              IF c = s.original THEN Forget
              ELSE IF /\ c = s.desired
                      /\ HasBaseUrl(c, s.provider)
                      /\ SetBaseUrl(c, s.provider, s.url) = s.original
                   THEN Write(SetBaseUrl(c, s.provider, s.url))
                   ELSE Leave
  BY <1>1 DEF RemoveCodex
<1>4. RemoveCodex(c, S) =
              IF c = s.original THEN Forget
              ELSE IF /\ c = s.desired
                      /\ HasBaseUrl(c, s.provider)
                      /\ SetBaseUrl(c, s.provider, s.url) = s.original
                   THEN Write(SetBaseUrl(c, s.provider, s.url))
                   ELSE Leave
  BY <1>2, <1>3
<1>5. QED
  BY <1>4 DEF Leave, Write

LEMMA PlanRemovalOwn ==
    ASSUME NEW p \in Processes, DriftInv(p), OwnInv(p), PlanRemoval(p)
    PROVE  OwnInv(p)'
<1> DEFINE k == Kind(p)
           r == IF k = "codex" THEN RemoveCodex(file[k], plan[p].sidecar)
                               ELSE RemoveEnv(plan[p].original, sidecar[k])
<1>1. /\ at[p] = "plan" /\ command[p] = "uninstall" /\ Running(p)
      /\ UNCHANGED <<diskVars, userVars>> /\ ~BetweenRenames(p)
  BY DEF PlanRemoval, Running, Steps, BetweenRenames
<1>2. CASE NextIntegration(p)
  BY <1>1, <1>2, NextOwn, QuietStep DEF diskVars, userVars, Fine, OwnInv
<1>3. CASE r.do = "forget" /\ Continue(p, "unlink")
  <2>1. /\ at'[p] = "unlink" /\ ~Installs(p)'
        /\ Uninstalls(p)' <=> Uninstalls(p)
        /\ UrlFacts(p) => UrlFacts(p)'
    BY <1>1, <1>3, ContinueOwn DEF DriftInv, Steps, Installs
  <2>2. ASSUME Fine, Uninstalls(p) PROVE NoGateway(file["codex"])
    <3>1. r = RemoveCodex(file["codex"], sidecar["codex"])
      BY <1>1, <2>2 DEF DriftInv, UninstallInv, Uninstalls, OnCodex
    <3>2. sidecar["codex"] # {}
      BY <1>3, <3>1 DEF RemoveCodex, Leave
    <3>3. PICK s \in sidecar["codex"] : TRUE
      BY <3>2
    <3>4. /\ sidecar["codex"] = {s}
          /\ s.strategy \in {"sidecar", "damaged", "managed_provider_base_url"}
      BY DEF DriftInv, OneSidecar
    <3>5. OwnUrlIsRecorded /\ SidecarFacts
      BY <1>1, <2>2 DEF OwnInv, Recorded
    <3>6. CASE Managed(s)
      <4>1. file["codex"] = s.original
        BY <1>3, <3>1, <3>4, <3>6, ForgetsOriginal
      <4>2. QED
        BY <3>5, <3>6, <4>1 DEF SidecarFacts, Remembers, NoGateway
    <3>7. CASE ~Managed(s)
      BY <3>4, <3>5, <3>7 DEF OwnUrlIsRecorded, Managed, NoGateway
    <3>8. QED
      BY <3>6, <3>7
  <2>3. PlanFacts(p)'
    BY <2>1 DEF PlanFacts
  <2>4. Fine => ForgetsNothing(p)'
    BY <1>1, <2>1, <2>2 DEF ForgetsNothing, NoGateway, diskVars
  <2>5. QED
    BY <1>1, <2>1, <2>3, <2>4, QuietStep DEF diskVars, userVars, Fine, OwnInv
<1>4. CASE Continue(p, "open")
  <2>1. /\ at'[p] = "open" /\ ~Installs(p)'
        /\ UrlFacts(p) => UrlFacts(p)'
    BY <1>1, <1>4, ContinueOwn DEF DriftInv, Steps, Installs
  <2>2. PlanFacts(p)' /\ ForgetsNothing(p)'
    BY <2>1 DEF PlanFacts, ForgetsNothing
  <2>3. QED
    BY <1>1, <2>1, <2>2, QuietStep DEF diskVars, userVars, Fine, OwnInv
<1>5. QED
  BY <1>2, <1>3, <1>4 DEF PlanRemoval

LEMMA FailsOwn ==
    ASSUME NEW p \in Processes, DriftInv(p), OwnInv(p), Fails(p)
    PROVE  OwnInv(p)'
<1>1. Running(p) /\ UNCHANGED <<file, sidecar, own, raced>>
  BY DEF Fails
<1>2. Fine' => Fine
  BY DEF Fails, Fine
<1>3. CASE /\ at[p] \in {"open", "fill", "replace", "open_sidecar", "fill_sidecar",
                         "replace_sidecar"}
           /\ command[p] = "install" /\ Continue(p, "undo_open") /\ UNCHANGED plan
  <2>1. /\ at'[p] = "undo_open"
        /\ Installs(p)' <=> Installs(p)
        /\ Uninstalls(p)' <=> Uninstalls(p)
        /\ UrlFacts(p) => UrlFacts(p)'
    BY <1>1, <1>3, ContinueOwn DEF DriftInv, Steps
  <2>2. at[p] \in Changing /\ HasToWrite(p)
    BY <1>3 DEF HasToWrite, Changing, Writing, Saving
  <2>3. PlanFacts(p) => PlanFacts(p)'
    BY <1>1, <1>3, <2>1, <2>2 DEF PlanFacts, OwnOf, NoGateway
  <2>4. ForgetsNothing(p)'
    BY <2>1 DEF ForgetsNothing
  <2>5. BetweenRenames(p) => BetweenRenames(p)'
    BY <1>3, <2>1 DEF BetweenRenames, Continue, Kind
  <2>6. QED
    BY <1>1, <1>2, <2>1, <2>3, <2>4, <2>5, QuietStep DEF OwnInv
<1>4. CASE /\ at[p] \in {"open", "fill", "replace", "unlink"}
           /\ command[p] = "uninstall" /\ End(p)
  <2>1. ~BetweenRenames(p)
    BY <1>4 DEF BetweenRenames
  <2>2. QED
    BY <1>1, <1>2, <1>4, <2>1, NextOwn, QuietStep DEF OwnInv
<1>5. CASE End(p) /\ intact' = (intact /\ ~BetweenRenames(p))
  <2>1. Fine' => ~BetweenRenames(p)
    BY <1>5 DEF Fine
  <2>2. QED
    BY <1>1, <1>2, <1>5, <2>1, NextOwn, QuietStep DEF OwnInv
<1>6. QED
  BY <1>3, <1>4, <1>5 DEF Fails

LEMMA KillOwn ==
    ASSUME NEW p \in Processes, DriftInv(p), OwnInv(p), Kill(p)
    PROVE  OwnInv(p)'
<1>1. /\ Running(p) /\ End(p) /\ UNCHANGED <<file, sidecar, own, raced>>
      /\ intact' = (intact /\ ~BetweenRenames(p))
  BY DEF Kill
<1>2. (Fine' => Fine) /\ (Fine' => ~BetweenRenames(p))
  BY <1>1 DEF Fine
<1>3. QED
  BY <1>1, <1>2, NextOwn, QuietStep DEF OwnInv

LEMMA EditOwn ==
    ASSUME NEW p \in Processes, DriftInv(p), OwnInv(p), EditsAddNoGateway,
           "codex" \in DOMAIN own,
           NEW k \in KindSet, NEW c \in EditsOf(k, file[k]), Edit(k, c)
    PROVE  OwnInv(p)'
<1>1. UNCHANGED <<sidecar, intact, procVars>>
  BY DEF Edit
<1>2. /\ at' = at /\ command' = command /\ plan' = plan
      /\ Installs(p)' <=> Installs(p)
      /\ Uninstalls(p)' <=> Uninstalls(p)
      /\ UrlFacts(p)' <=> UrlFacts(p)
      /\ BetweenRenames(p)' <=> BetweenRenames(p)
      /\ HasToWrite(p)' <=> HasToWrite(p)
  BY <1>1 DEF Installs, Uninstalls, UrlFacts, BetweenRenames, HasToWrite, OnCodex, Running, Kind,
              procVars
<1>3. CASE k # "codex"
  <2>1. /\ file'["codex"] = file["codex"] /\ own'["codex"] = own["codex"]
        /\ raced'["codex"] = raced["codex"]
    BY <1>3 DEF Edit, DriftInv, Shape
  <2>2. PlanFacts(p) => PlanFacts(p)'
    BY <1>2, <2>1 DEF PlanFacts, OwnOf, NoGateway
  <2>3. ForgetsNothing(p) => ForgetsNothing(p)'
    BY <1>2, <2>1 DEF ForgetsNothing, NoGateway
  <2>4. QED
    BY <1>1, <1>2, <2>1, <2>2, <2>3, QuietStep DEF Fine, OwnInv
<1>4. CASE k = "codex"
  <2>1. SUFFICES ASSUME Fine' PROVE OwnInv(p)'
    BY DEF OwnInv
  <2>2. /\ Fine /\ ~(OnCodex(p) /\ at[p] \in Changing)
    <3>1. OnCodex(p) /\ at[p] \in Changing => Rewrites(p, "codex")
      BY DEF OnCodex, Rewrites, Changing, Writing, Saving, Filling
    <3>2. raced["codex"] \/ (\E q \in Processes : Rewrites(q, "codex")) => raced'["codex"]
      BY <1>4 DEF Edit, DriftInv, Shape
    <3>3. QED
      BY <1>1, <2>1, <3>1, <3>2 DEF Fine
  <2>3. /\ file'["codex"] = c
        /\ own'["codex"] = WithoutToken("codex", c)
    BY <1>4 DEF Edit, DriftInv, Shape
  <2>4. /\ c \in CodexConfig
        /\ \A i \in DOMAIN c.providers :
              c.providers[i].url \in Urls =>
                  /\ i \in DOMAIN file["codex"].providers
                  /\ c.providers[i] = file["codex"].providers[i]
    BY <1>4, <2>2 DEF EditsAddNoGateway, OwnInv, FileFacts
  <2>5. /\ own'["codex"] \in CodexConfig /\ own'["codex"].note = c.note
        /\ DOMAIN own'["codex"].providers = DOMAIN c.providers
        /\ \A i \in DOMAIN c.providers :
              /\ own'["codex"].providers[i].id = c.providers[i].id
              /\ c.providers[i].url \notin Urls =>
                    own'["codex"].providers[i].url = c.providers[i].url
              /\ c.providers[i].url \in Urls /\ i \in DOMAIN own["codex"].providers =>
                    own'["codex"].providers[i].url = own["codex"].providers[i].url
    <3> DEFINE old == own["codex"].providers
               new == [i \in DOMAIN c.providers |->
                         IF c.providers[i].url \in Urls /\ i \in DOMAIN old
                         THEN [c.providers[i] EXCEPT !.url = old[i].url]
                         ELSE c.providers[i]]
    <3>1. WithoutToken("codex", c) = [c EXCEPT !.providers = new]
      BY DEF WithoutToken
    <3>2. own'["codex"].providers = new
      BY <2>3, <2>4, <3>1 DEF CodexConfig
    <3>3. \A i \in DOMAIN c.providers : DOMAIN c.providers[i] = {"id", "url"}
      BY <2>4, SectionFields
    <3>4. own'["codex"].note = c.note
      BY <2>3, <2>4, <3>1 DEF CodexConfig
    <3>5. own'["codex"] \in CodexConfig
      <4> DEFINE Section == [id : ProviderIds, url : Urls \cup OwnUrls \cup {NoUrl}]
      <4>1. /\ c = [providers |-> c.providers, note |-> c.note]
            /\ c.note \in Notes \cup {NoNote} /\ c.providers \in Seq(Section)
            /\ old \in Seq(Section)
        BY <2>2, <2>4 DEF CodexConfig, OwnInv, FileFacts
      <4>2. \A i \in DOMAIN c.providers : c.providers[i] \in Section
        <5> HIDE DEF Section
        <5>1. QED
          BY <4>1
      <4>3. \A i \in DOMAIN old : old[i] \in Section
        <5> HIDE DEF Section
        <5>1. QED
          BY <4>1
      <4>4. \A i \in DOMAIN c.providers : new[i] \in Section
        BY <4>2, <4>3
      <4>5. new \in Seq(Section)
        <5>1. DOMAIN c.providers = 1 .. Len(c.providers) /\ Len(c.providers) \in Nat
          BY <4>1
        <5>2. new \in [1 .. Len(c.providers) -> Section]
          BY <4>4, <5>1
        <5> HIDE DEF Section, new
        <5>3. QED
          BY <5>1, <5>2
      <4>6. own'["codex"] = [providers |-> new, note |-> c.note]
        BY <2>3, <3>1, <4>1
      <4>7. QED
        BY <4>1, <4>5, <4>6 DEF CodexConfig
    <3>6. QED
      BY <3>2, <3>3, <3>4, <3>5
  <2>6. FileFacts'
    BY <2>3, <2>4, <2>5 DEF FileFacts, OwnOf
  <2>7. SidecarFacts'
    BY <1>1, <2>2 DEF OwnInv, SidecarFacts
  <2>8. PlanFacts(p)'
    BY <1>2, <2>2 DEF OwnInv, PlanFacts, Installs
  <2>9. ForgetsNothing(p)'
    BY <1>2, <2>2, <2>3, <2>4 DEF OwnInv, ForgetsNothing, NoGateway
  <2>10. ASSUME OwnUrlIsRecorded PROVE OwnUrlIsRecorded'
    <3>1. SUFFICES ASSUME NEW i \in DOMAIN c.providers, c.providers[i].url \in Urls
                   PROVE  \E s \in sidecar["codex"] : /\ s.strategy = "managed_provider_base_url"
                                                      /\ s.provider = own'["codex"].providers[i].id
                                                      /\ s.url = own'["codex"].providers[i].url
      BY <1>1, <2>3 DEF OwnUrlIsRecorded
    <3>2. /\ i \in DOMAIN file["codex"].providers /\ c.providers[i] = file["codex"].providers[i]
          /\ i \in DOMAIN own["codex"].providers
          /\ own["codex"].providers[i].id = c.providers[i].id
      BY <2>2, <2>4, <3>1 DEF OwnInv, FileFacts, OwnOf
    <3>3. /\ own'["codex"].providers[i].id = own["codex"].providers[i].id
          /\ own'["codex"].providers[i].url = own["codex"].providers[i].url
      BY <2>5, <3>1, <3>2
    <3>4. QED
      BY <2>10, <3>1, <3>2, <3>3 DEF OwnUrlIsRecorded
  <2>11. Recorded(p)'
    BY <1>2, <2>2, <2>10 DEF OwnInv, Recorded
  <2>12. QED
    BY <1>2, <2>2, <2>6, <2>7, <2>8, <2>9, <2>11 DEF OwnInv
<1>5. QED
  BY <1>3, <1>4

LEMMA OwnUrlStep ==
    ASSUME NEW p, Processes = {p}, EditsAddNoGateway,
           "codex" \in DOMAIN own, DriftInv(p), OwnInv(p), [Next]_vars
    PROVE  "codex" \in DOMAIN own' /\ OwnInv(p)'
<1> p \in Processes
  OBVIOUS
<1>1. ASSUME NEW c \in Commands, NEW u \in Urls, Start(p, c, u)
      PROVE  own' = own /\ OwnInv(p)'
  BY <1>1, StartOwn DEF Start, userVars
<1>2. CASE Step(p)
  <2>1. own' = own
    BY <1>2 DEF Step, Read, PlanInstall, Check, Open, Fill, Replace, OpenSidecar, FillSidecar,
       ReplaceSidecar, UndoReplace, UndoUnlink, PlanRemoval, Unlink, Fails, Kill, userVars
  <2>2. OwnInv(p)'
    BY <1>2, ReadOwn, PlanInstallOwn, CheckOwn, TemporariesOwn, ReplaceOwn, ReplaceSidecarOwn,
       UndoReplaceOwn, ForgettingOwn, PlanRemovalOwn, FailsOwn, KillOwn DEF Step
  <2>3. QED
    BY <2>1, <2>2
<1>3. ASSUME NEW k \in KindSet, NEW c \in EditsOf(k, file[k]), Edit(k, c)
      PROVE  "codex" \in DOMAIN own' /\ OwnInv(p)'
  BY <1>3, EditOwn DEF Edit
<1>4. CASE UNCHANGED vars
  <2>1. /\ UNCHANGED <<file, sidecar, own, raced, intact, at, command, url, todo, plan>>
    BY <1>4 DEF vars, diskVars, procVars, userVars
  <2>2. /\ (UrlFacts(p) => UrlFacts(p)') /\ (PlanFacts(p) => PlanFacts(p)')
        /\ (ForgetsNothing(p) => ForgetsNothing(p)')
        /\ (BetweenRenames(p) => BetweenRenames(p)')
    BY <2>1 DEF UrlFacts, PlanFacts, ForgetsNothing, BetweenRenames, HasToWrite, OwnOf, NoGateway,
                Installs, Uninstalls, OnCodex, Running, Kind
  <2>3. QED
    BY <2>1, <2>2, QuietStep DEF Fine, OwnInv
<1>5. QED
  BY <1>1, <1>2, <1>3, <1>4 DEF Next, Commands

-----------------------------------------------------------------------------
UrlInv(p) == DriftInv(p) /\ "codex" \in DOMAIN own /\ OwnInv(p)

LEMMA UrlInvariant ==
    ASSUME NEW p, Processes = {p}, EditsAddNoGateway
    PROVE  Spec => []UrlInv(p)
<1>1. Init => UrlInv(p)
  <2>1. Init => "codex" \in DOMAIN own
    BY DEF Init
  <2>2. QED
    BY <2>1, DriftStart, OwnUrlStart DEF UrlInv
<1>2. UrlInv(p) /\ [Next]_vars => UrlInv(p)'
  BY DriftStep, OwnUrlStep DEF UrlInv
<1>3. QED
  BY <1>1, <1>2, PTL DEF Spec

\* OwnUrlSurvivesFailures, of one command at a time: between commands a Codex
\* config that points to the gateway has a sidecar that names the URL it had,
\* whatever failed and was undone and wherever commands were killed, except
\* between the two renames of one install, and whatever the user saved when no
\* rewrite was under way.
THEOREM OneCommandKeepsOwnUrl ==
    ASSUME NEW p, Processes = {p}, EditsAddNoGateway
    PROVE  Spec => []OwnUrlSurvivesFailures
<1>1. UrlInv(p) => OwnUrlSurvivesFailures
  <2> SUFFICES ASSUME UrlInv(p), Idle, intact, ~raced["codex"] PROVE OwnUrlIsRecorded
    BY DEF OwnUrlSurvivesFailures
  <2>1. p \in Processes /\ ~BetweenRenames(p)
    BY DEF Idle, Running, Steps, Filling, BetweenRenames
  <2>2. QED
    BY <2>1 DEF UrlInv, OwnInv, Fine, Recorded
<1>2. QED
  BY <1>1, UrlInvariant, PTL

\* The Codex half of UninstallRestores: when uninstall_integration comes to
\* remove the sidecar, the config is what the user last wrote, to the byte.
THEOREM UninstallRestoresCodex ==
    ASSUME NEW p, Processes = {p}, EditsAddNoGateway
    PROVE  Spec => [](at[p] = "unlink" => CodexRestored(p))
<1>1. UrlInv(p) => (at[p] = "unlink" => CodexRestored(p))
  <2> SUFFICES ASSUME UrlInv(p), at[p] = "unlink", intact, ~raced["codex"], Kind(p) = "codex"
               PROVE  file["codex"] = own["codex"]
    BY DEF CodexRestored
  <2> DEFINE Section == [id : ProviderIds, url : Urls \cup OwnUrls \cup {NoUrl}]
             f == file["codex"].providers
             o == own["codex"].providers
  <2>1. FileFacts /\ NoGateway(file["codex"])
    BY DEF UrlInv, OwnInv, Fine, ForgetsNothing, Uninstalls, OnCodex, Running, Steps, DriftInv, Shape
  <2>2. /\ file["codex"] = [providers |-> f, note |-> file["codex"].note]
        /\ own["codex"] = [providers |-> o, note |-> own["codex"].note]
        /\ f \in Seq(Section) /\ o \in Seq(Section)
    BY <2>1 DEF FileFacts, CodexConfig
  <2>3. /\ DOMAIN f = 1 .. Len(f) /\ DOMAIN o = 1 .. Len(o)
        /\ Len(f) \in Nat /\ Len(o) \in Nat
        /\ \A i \in DOMAIN f : f[i] \in Section
        /\ \A i \in DOMAIN o : o[i] \in Section
    <3> HIDE DEF Section
    <3>1. QED
      BY <2>2
  <2>4. /\ file["codex"].note = own["codex"].note /\ DOMAIN f = DOMAIN o
        /\ \A i \in DOMAIN f : f[i].id = o[i].id /\ f[i].url = o[i].url
    BY <2>1 DEF FileFacts, OwnOf, NoGateway
  <2>5. \A i \in DOMAIN f : f[i] = o[i]
    BY <2>3, <2>4
  <2>6. Len(f) = Len(o)
    BY <2>3, <2>4
  <2>7. f = o
    <3> HIDE DEF Section
    <3>1. QED
      BY <2>2, <2>3, <2>5, <2>6, SeqEqual
  <2>8. QED
    BY <2>2, <2>4, <2>7
<1>2. QED
  BY <1>1, UrlInvariant, PTL

-----------------------------------------------------------------------------
(* Induction.  The library's theorem takes a predicate, which no prover can  *)
(* instantiate; a set of numbers does as well.                               *)

LEMMA LeastNumber ==
    ASSUME NEW S \in SUBSET Nat, S # {}
    PROVE  \E m \in S : \A k \in S : m =< k
<1> DEFINE R == {ss \in Nat \X Nat : ss[1] < ss[2]}
<1>1. IsWellFoundedOn(R, Nat)
  BY NatLessThanWellFounded DEF OpToRel
<1>2. PICK x \in S : \A y \in S : <<y, x>> \notin R
  <2> HIDE DEF R
  <2>1. QED
    BY <1>1, WFMin
<1>3. ASSUME NEW y \in S PROVE ~(y < x)
  <2>1. /\ x \in Nat /\ y \in Nat /\ <<y, x>> \in Nat \X Nat
        /\ <<y, x>>[1] = y /\ <<y, x>>[2] = x
    OBVIOUS
  <2>2. <<y, x>> \notin R
    BY <1>2
  <2>3. QED
    BY <2>1, <2>2
<1>4. QED
  BY <1>3

LEMMA Induction ==
    ASSUME NEW S, 0 \in S, \A n \in Nat : n \in S => n + 1 \in S
    PROVE  Nat \subseteq S
<1> SUFFICES ASSUME Nat \ S # {} PROVE FALSE
  OBVIOUS
<1>1. PICK m \in Nat \ S : \A k \in Nat \ S : m =< k
  BY LeastNumber
<1>2. m # 0 /\ m - 1 \in Nat /\ m - 1 \notin Nat \ S
  BY <1>1
<1>3. QED
  BY <1>2

\* The least member of a set of places.
LEMMA MinIsLeast ==
    ASSUME NEW S \in SUBSET Nat, S # {}
    PROVE  Min(S) \in S /\ \A k \in S : Min(S) =< k
BY LeastNumber DEF Min

-----------------------------------------------------------------------------
(* Only: what is left of a sequence.                                        *)

\* f[n] is what is left of the first n tokens of c.
Filters(f, c, S) ==
    f = [n \in 0 .. Len(c) |->
            IF n = 0 THEN <<>>
            ELSE IF c[n] \in S THEN Append(f[n - 1], c[n]) ELSE f[n - 1]]

LEMMA OnlyIsFilter ==
    ASSUME NEW T, NEW c \in Seq(T), NEW S
    PROVE  \E f : Filters(f, c, S) /\ Only(c, S) = f[Len(c)]
<1> DEFINE Upto(m, f) == f = [n \in 0 .. m |->
                                IF n = 0 THEN <<>>
                                ELSE IF c[n] \in S THEN Append(f[n - 1], c[n]) ELSE f[n - 1]]
           Lengths == {m \in Nat : \E f : Upto(m, f)}
<1>1. 0 \in Lengths
  <2> DEFINE f == [n \in 0 .. 0 |-> <<>>]
  <2>1. \A n \in 0 .. 0 : n = 0
    OBVIOUS
  <2>2. Upto(0, f)
    BY <2>1
  <2>3. QED
    BY <2>2
<1>2. ASSUME NEW m \in Nat, m \in Lengths PROVE m + 1 \in Lengths
  <2>1. PICK f : Upto(m, f)
    BY <1>2
  <2> DEFINE g == [n \in 0 .. m + 1 |->
                      IF n =< m THEN f[n]
                      ELSE IF c[n] \in S THEN Append(f[n - 1], c[n]) ELSE f[n - 1]]
  <2>2. ASSUME NEW n \in 0 .. m + 1
        PROVE  g[n] = IF n = 0 THEN <<>>
                      ELSE IF c[n] \in S THEN Append(g[n - 1], c[n]) ELSE g[n - 1]
    <3>1. CASE n = m + 1
      <4>1. n # 0 /\ n - 1 \in 0 .. m /\ g[n - 1] = f[n - 1]
        BY <3>1
      <4>2. QED
        BY <3>1, <4>1
    <3>2. CASE n # m + 1
      <4>1. n \in 0 .. m /\ g[n] = f[n] /\ (n # 0 => n - 1 \in 0 .. m /\ g[n - 1] = f[n - 1])
        BY <3>2
      <4>2. f[n] = IF n = 0 THEN <<>>
                   ELSE IF c[n] \in S THEN Append(f[n - 1], c[n]) ELSE f[n - 1]
        BY <2>1, <4>1
      <4>3. QED
        BY <4>1, <4>2
    <3>3. QED
      BY <3>1, <3>2
  <2>3. Upto(m + 1, g)
    <3>1. g = [n \in 0 .. m + 1 |-> g[n]]
      OBVIOUS
    <3> HIDE DEF g
    <3>2. QED
      BY <2>2, <3>1
  <2> HIDE DEF g, Upto
  <2>4. QED
    BY <2>3
<1>3. \E f : Upto(Len(c), f)
  <2> HIDE DEF Upto
  <2>1. Nat \subseteq Lengths
    <3> HIDE DEF Lengths
    <3>1. QED
      BY <1>1, <1>2, Induction
  <2>2. QED
    BY <2>1, LenProperties
<1> DEFINE h == CHOOSE f : Upto(Len(c), f)
<1>4. Upto(Len(c), h)
  <2> HIDE DEF Upto
  <2>1. QED
    BY <1>3
<1>5. Only(c, S) = h[Len(c)]
  BY DEF Only
<1>6. Filters(h, c, S)
  <2> HIDE DEF h
  <2>1. QED
    BY <1>4 DEF Filters
<1>7. QED
  <2> HIDE DEF h
  <2>1. QED
    BY <1>5, <1>6

LEMMA OnlyEmpty == ASSUME NEW S PROVE Only(<<>>, S) = <<>>
<1>1. <<>> \in Seq({}) /\ Len(<<>>) = 0
  OBVIOUS
<1>2. PICK f : Filters(f, <<>>, S) /\ Only(<<>>, S) = f[Len(<<>>)]
  BY <1>1, OnlyIsFilter
<1>3. QED
  BY <1>1, <1>2 DEF Filters

LEMMA OnlyAppend ==
    ASSUME NEW T, NEW c \in Seq(T), NEW t \in T, NEW S
    PROVE  Only(Append(c, t), S) = IF t \in S THEN Append(Only(c, S), t) ELSE Only(c, S)
<1> DEFINE d == Append(c, t)
<1>1. /\ d \in Seq(T) /\ Len(d) = Len(c) + 1 /\ Len(c) \in Nat
      /\ d[Len(c) + 1] = t /\ \A n \in 1 .. Len(c) : d[n] = c[n]
  BY AppendProperties, LenProperties
<1> HIDE DEF d
<1>2. PICK f : Filters(f, c, S) /\ Only(c, S) = f[Len(c)]
  BY OnlyIsFilter
<1>3. PICK g : Filters(g, d, S) /\ Only(d, S) = g[Len(d)]
  BY <1>1, OnlyIsFilter
<1> DEFINE Same == {n \in Nat : n =< Len(c) => g[n] = f[n]}
<1>4. 0 \in Same
  BY <1>1, <1>2, <1>3 DEF Filters
<1>5. ASSUME NEW n \in Nat, n \in Same PROVE n + 1 \in Same
  <2>1. SUFFICES ASSUME n + 1 =< Len(c) PROVE g[n + 1] = f[n + 1]
    OBVIOUS
  <2>2. /\ n + 1 \in 0 .. Len(c) /\ n + 1 \in 0 .. Len(d) /\ n + 1 # 0 /\ (n + 1) - 1 = n
        /\ n + 1 \in 1 .. Len(c) /\ g[n] = f[n]
    BY <1>1, <1>5, <2>1
  <2>3. f[n + 1] = IF c[n + 1] \in S THEN Append(f[n], c[n + 1]) ELSE f[n]
    BY <1>2, <2>2 DEF Filters
  <2>4. g[n + 1] = IF d[n + 1] \in S THEN Append(g[n], d[n + 1]) ELSE g[n]
    BY <1>3, <2>2 DEF Filters
  <2>5. QED
    BY <1>1, <2>2, <2>3, <2>4
<1>6. Len(c) \in Same
  <2> HIDE DEF Same
  <2>1. QED
    BY <1>1, <1>4, <1>5, Induction
<1>7. g[Len(c)] = f[Len(c)]
  BY <1>1, <1>6
<1>8. g[Len(c) + 1] = IF d[Len(c) + 1] \in S THEN Append(g[Len(c)], d[Len(c) + 1]) ELSE g[Len(c)]
  <2>1. Len(c) + 1 \in 0 .. Len(d) /\ Len(c) + 1 # 0 /\ (Len(c) + 1) - 1 = Len(c)
    BY <1>1
  <2>2. QED
    BY <1>3, <2>1 DEF Filters
<1>9. QED
  BY <1>1, <1>2, <1>3, <1>7, <1>8 DEF d

\* What holds of the empty sequence, and of one more than it holds of, holds of
\* all sequences.
LEMMA SeqInduction ==
    ASSUME NEW T, NEW P, <<>> \in P,
           \A c \in Seq(T) : \A t \in T : c \in P => Append(c, t) \in P
    PROVE  Seq(T) \subseteq P
<1> DEFINE Lengths == {n \in Nat : \A c \in Seq(T) : Len(c) = n => c \in P}
<1>1. 0 \in Lengths
  BY EmptySeq
<1>2. ASSUME NEW n \in Nat, n \in Lengths PROVE n + 1 \in Lengths
  <2>1. SUFFICES ASSUME NEW c \in Seq(T), Len(c) = n + 1 PROVE c \in P
    OBVIOUS
  <2> DEFINE d == SubSeq(c, 1, n)
  <2>2. d \in Seq(T) /\ Len(d) = n /\ c[n + 1] \in T /\ Append(d, c[n + 1]) = c
    BY <2>1
  <2>3. d \in P
    BY <1>2, <2>2
  <2> HIDE DEF d
  <2>4. Append(d, c[n + 1]) \in P
    BY <2>2, <2>3
  <2>5. QED
    BY <2>2, <2>4
<1>3. Nat \subseteq Lengths
  <2> HIDE DEF Lengths
  <2>1. QED
    BY <1>1, <1>2, Induction
<1>4. ASSUME NEW c \in Seq(T) PROVE c \in P
  BY <1>3, LenProperties
<1>5. QED
  BY <1>4

LEMMA OnlyType ==
    ASSUME NEW T, NEW c \in Seq(T), NEW S
    PROVE  Only(c, S) \in Seq(T \cap S) /\ Only(c, S) \in Seq(T)
<1> DEFINE P == {d \in Seq(T) : Only(d, S) \in Seq(T \cap S) /\ Only(d, S) \in Seq(T)}
<1>1. <<>> \in P
  BY OnlyEmpty, EmptySeq
<1>2. ASSUME NEW d \in Seq(T), NEW t \in T, d \in P PROVE Append(d, t) \in P
  <2>1. Only(Append(d, t), S) = IF t \in S THEN Append(Only(d, S), t) ELSE Only(d, S)
    BY OnlyAppend
  <2>2. Append(d, t) \in Seq(T) /\ Append(Only(d, S), t) \in Seq(T)
        /\ (t \in S => Append(Only(d, S), t) \in Seq(T \cap S))
    BY <1>2, AppendProperties
  <2>3. QED
    BY <1>2, <2>1, <2>2
<1> HIDE DEF P
<1>3. Seq(T) \subseteq P
  BY <1>1, <1>2, SeqInduction
<1>4. QED
  BY <1>3 DEF P

LEMMA AppendLast ==
    ASSUME NEW T, NEW c \in Seq(T), NEW e \in Seq(T), NEW t \in T
    PROVE  c \o Append(e, t) = Append(c \o e, t)
BY ConcatProperties, AppendProperties

LEMMA OnlyConcat ==
    ASSUME NEW T, NEW c \in Seq(T), NEW d \in Seq(T), NEW S
    PROVE  Only(c \o d, S) = Only(c, S) \o Only(d, S)
<1> DEFINE P == {e \in Seq(T) : Only(c \o e, S) = Only(c, S) \o Only(e, S)}
<1>1. <<>> \in P
  <2>1. Only(c, S) \in Seq(T)
    BY OnlyType
  <2>2. c \o <<>> = c /\ Only(c, S) \o <<>> = Only(c, S)
    BY <2>1, ConcatEmptySeq
  <2>3. QED
    BY <2>2, OnlyEmpty, EmptySeq
<1>2. ASSUME NEW e \in Seq(T), NEW t \in T, e \in P PROVE Append(e, t) \in P
  <2>1. c \o Append(e, t) = Append(c \o e, t) /\ c \o e \in Seq(T) /\ Append(e, t) \in Seq(T)
    BY ConcatProperties, AppendProperties
  <2>2. Only(Append(e, t), S) = IF t \in S THEN Append(Only(e, S), t) ELSE Only(e, S)
    BY OnlyAppend
  <2>3. Only(Append(c \o e, t), S) =
            IF t \in S THEN Append(Only(c \o e, S), t) ELSE Only(c \o e, S)
    BY <2>1, OnlyAppend
  <2>4. Only(c, S) \in Seq(T) /\ Only(e, S) \in Seq(T)
    BY OnlyType
  <2>5. Append(Only(c, S) \o Only(e, S), t) = Only(c, S) \o Append(Only(e, S), t)
    <3> DEFINE a == Only(c, S)
               b == Only(e, S)
    <3>1. a \in Seq(T) /\ b \in Seq(T)
      BY <2>4
    <3> HIDE DEF a, b
    <3>2. a \o Append(b, t) = Append(a \o b, t)
      BY <3>1, AppendLast
    <3>3. QED
      BY <3>2 DEF a, b
  <2>6. QED
    BY <1>2, <2>1, <2>2, <2>3, <2>5
<1> HIDE DEF P
<1>3. Seq(T) \subseteq P
  BY <1>1, <1>2, SeqInduction
<1>4. QED
  BY <1>3 DEF P

LEMMA OnlyOne ==
    ASSUME NEW t, NEW S PROVE Only(<<t>>, S) = IF t \in S THEN <<t>> ELSE <<>>
<1>1. <<>> \in Seq({t}) /\ t \in {t} /\ Append(<<>>, t) = <<t>>
  OBVIOUS
<1>2. Only(Append(<<>>, t), S) = IF t \in S THEN Append(Only(<<>>, S), t) ELSE Only(<<>>, S)
  BY <1>1, OnlyAppend
<1>3. QED
  BY <1>1, <1>2, OnlyEmpty

\* A filter after a wider one is the filter.
LEMMA OnlyOnly ==
    ASSUME NEW T, NEW c \in Seq(T), NEW R, NEW S, T \cap S \subseteq R
    PROVE  Only(Only(c, R), S) = Only(c, S)
<1> DEFINE P == {d \in Seq(T) : Only(Only(d, R), S) = Only(d, S)}
<1>1. <<>> \in P
  BY OnlyEmpty, EmptySeq
<1>2. ASSUME NEW d \in Seq(T), NEW t \in T, d \in P PROVE Append(d, t) \in P
  <2>1. /\ Only(Append(d, t), R) = IF t \in R THEN Append(Only(d, R), t) ELSE Only(d, R)
        /\ Only(Append(d, t), S) = IF t \in S THEN Append(Only(d, S), t) ELSE Only(d, S)
    BY OnlyAppend
  <2>2. Only(d, R) \in Seq(T)
    BY OnlyType
  <2>3. Only(Append(Only(d, R), t), S) =
            IF t \in S THEN Append(Only(Only(d, R), S), t) ELSE Only(Only(d, R), S)
    BY <2>2, OnlyAppend
  <2>4. Append(d, t) \in Seq(T)
    BY AppendProperties
  <2>5. QED
    BY <1>2, <2>1, <2>3, <2>4
<1> HIDE DEF P
<1>3. Seq(T) \subseteq P
  BY <1>1, <1>2, SeqInduction
<1>4. QED
  BY <1>3 DEF P

-----------------------------------------------------------------------------
(* What installing and uninstalling make of a .env.                         *)

OneBlock(c) == \A i, j \in Blocks(c) : i = j

LEMMA Splits ==
    ASSUME NEW T, NEW c \in Seq(T), NEW b \in DOMAIN c, NEW a \in 0 .. b - 1
    PROVE  /\ SubSeq(c, 1, a) \in Seq(T) /\ SubSeq(c, b + 1, Len(c)) \in Seq(T)
           /\ Len(SubSeq(c, 1, a)) = a /\ Len(SubSeq(c, b + 1, Len(c))) = Len(c) - b
           /\ \A i \in 1 .. a : SubSeq(c, 1, a)[i] = c[i]
           /\ \A i \in 1 .. Len(c) - b : SubSeq(c, b + 1, Len(c))[i] = c[b + i]
           /\ b \in 1 .. Len(c) /\ Len(c) \in Nat /\ c[b] \in T
<1>1. /\ 1 \in Int /\ a \in Int /\ b \in 1 .. Len(c) /\ Len(c) \in Nat /\ c[b] \in T
      /\ b + 1 \in Int
  BY LenProperties
<1>2. \A i \in 1 .. a : c[i] \in T
  BY <1>1
<1>3. \A i \in b + 1 .. Len(c) : c[i] \in T
  BY <1>1
<1>4. /\ SubSeq(c, 1, a) \in Seq(T) /\ Len(SubSeq(c, 1, a)) = a
      /\ \A i \in 1 .. a : SubSeq(c, 1, a)[i] = c[i]
  BY <1>1, <1>2
<1>5. /\ SubSeq(c, b + 1, Len(c)) \in Seq(T) /\ Len(SubSeq(c, b + 1, Len(c))) = Len(c) - b
      /\ \A i \in 1 .. Len(c) - b : SubSeq(c, b + 1, Len(c))[i] = c[b + i]
  BY <1>1, <1>3
<1>6. QED
  BY <1>1, <1>4, <1>5

LEMMA SplitAt ==
    ASSUME NEW T, NEW c \in Seq(T), NEW b \in DOMAIN c
    PROVE  c = (SubSeq(c, 1, b - 1) \o <<c[b]>>) \o SubSeq(c, b + 1, Len(c))
<1> DEFINE f == SubSeq(c, 1, b - 1)
           g == SubSeq(c, b + 1, Len(c))
<1>1. /\ f \in Seq(T) /\ g \in Seq(T) /\ <<c[b]>> \in Seq(T) /\ Len(f) = b - 1 /\ Len(g) = Len(c) - b
      /\ \A i \in 1 .. b - 1 : f[i] = c[i]
      /\ \A i \in 1 .. Len(c) - b : g[i] = c[b + i]
      /\ b \in 1 .. Len(c) /\ Len(c) \in Nat
  <2>1. b - 1 \in 0 .. b - 1
    BY LenProperties
  <2>2. QED
    BY <2>1, Splits
<1> HIDE DEF f, g
<1> DEFINE h == f \o <<c[b]>>
<1>2. /\ h \in Seq(T) /\ Len(h) = b /\ h[b] = c[b] /\ \A i \in 1 .. b - 1 : h[i] = c[i]
  BY <1>1
<1> HIDE DEF h
<1>3. h \o g \in Seq(T) /\ Len(h \o g) = Len(c)
  BY <1>1, <1>2
<1>4. ASSUME NEW i \in 1 .. Len(c) PROVE (h \o g)[i] = c[i]
  BY <1>1, <1>2
<1>5. h \o g = c
  BY <1>3, <1>4, SeqEqual
<1>6. QED
  BY <1>5 DEF h, f, g

LEMMA OutsideTokens ==
    /\ \A u \in Urls : u \notin Lines \cup {BaseLine} /\ u \in EnvTokens
    /\ EndOfLine \notin Lines \cup {BaseLine} /\ EndOfLine \in EnvTokens
    /\ Lines \cup {BaseLine} \subseteq EnvTokens \ Urls
BY FilesAssumption DEF EndOfLine, BaseLine, EnvTokens

\* Tokens that are no lines of the user do not count.
LEMMA OutsideParts ==
    ASSUME NEW c \in EnvFile, NEW d \in EnvFile, NEW t \in EnvTokens
    PROVE  /\ (c \o <<t>>) \o d \in EnvFile /\ c \o d \in EnvFile /\ c \o <<t>> \in EnvFile
           /\ OutsideEnv(c \o d) = OutsideEnv(c) \o OutsideEnv(d)
           /\ t \notin Lines \cup {BaseLine} =>
                /\ OutsideEnv(c \o <<t>>) = OutsideEnv(c)
                /\ OutsideEnv((c \o <<t>>) \o d) = OutsideEnv(c) \o OutsideEnv(d)
<1> DEFINE L == Lines \cup {BaseLine}
           e == c \o <<t>>
<1>1. <<t>> \in Seq(EnvTokens) /\ e \in Seq(EnvTokens) /\ c \in Seq(EnvTokens) /\ d \in Seq(EnvTokens)
      /\ e \o d \in Seq(EnvTokens) /\ c \o d \in Seq(EnvTokens)
  BY DEF EnvFile
<1> HIDE DEF L
<1>2. Only(e, L) = Only(c, L) \o Only(<<t>>, L)
  <2> DEFINE s == <<t>>
  <2>1. s \in Seq(EnvTokens)
    BY <1>1
  <2> HIDE DEF s
  <2>2. Only(c \o s, L) = Only(c, L) \o Only(s, L)
    BY <1>1, <2>1, OnlyConcat
  <2>3. QED
    BY <2>2 DEF s
<1>3. Only(c \o d, L) = Only(c, L) \o Only(d, L)
  BY <1>1, OnlyConcat
<1>4. Only(e \o d, L) = Only(e, L) \o Only(d, L)
  <2> HIDE DEF e
  <2>1. QED
    BY <1>1, OnlyConcat
<1>5. t \notin L => Only(e, L) = Only(c, L)
  <2>1. Only(c, L) \in Seq(EnvTokens)
    BY <1>1, OnlyType
  <2>2. Only(c, L) \o <<>> = Only(c, L)
    BY <2>1, ConcatEmptySeq
  <2>3. QED
    BY <1>2, <2>2, OnlyOne
<1>6. QED
  BY <1>1, <1>3, <1>4, <1>5 DEF L, OutsideEnv, EnvFile

LEMMA FirstBlock ==
    ASSUME NEW c \in EnvFile, Blocks(c) # {}
    PROVE  /\ Min(Blocks(c)) \in Blocks(c) /\ Min(Blocks(c)) \in DOMAIN c
           /\ Min(Blocks(c)) \in 1 .. Len(c) /\ c[Min(Blocks(c))] \in Urls
<1>1. DOMAIN c = 1 .. Len(c) /\ Len(c) \in Nat
  BY DEF EnvFile
<1>2. Blocks(c) \in SUBSET Nat
  BY <1>1 DEF Blocks
<1>3. Min(Blocks(c)) \in Blocks(c)
  BY <1>2, MinIsLeast
<1>4. QED
  BY <1>1, <1>3 DEF Blocks

\* Exchanging one block for another.
LEMMA ExchangeKeeps ==
    ASSUME NEW c \in EnvFile, NEW b \in Blocks(c), NEW u \in Urls
    PROVE  LET d == [c EXCEPT ![b] = u]
           IN  d \in EnvFile /\ OutsideEnv(d) = OutsideEnv(c) /\ Blocks(d) = Blocks(c)
<1> DEFINE d == [c EXCEPT ![b] = u]
           f == SubSeq(c, 1, b - 1)
           g == SubSeq(c, b + 1, Len(c))
<1>1. /\ b \in DOMAIN c /\ c[b] \in Urls /\ c[b] \in EnvTokens /\ u \in EnvTokens
      /\ c[b] \notin Lines \cup {BaseLine} /\ u \notin Lines \cup {BaseLine}
      /\ c \in Seq(EnvTokens)
  BY OutsideTokens DEF Blocks, EnvFile
<1>2. d \in Seq(EnvTokens) /\ Len(d) = Len(c) /\ DOMAIN d = DOMAIN c
  BY <1>1
<1>3. /\ d[b] = u /\ \A i \in DOMAIN c : i # b => d[i] = c[i]
  BY <1>1
<1> HIDE DEF d
<1>4. SubSeq(d, 1, b - 1) = f /\ SubSeq(d, b + 1, Len(d)) = g
  <2>1. b - 1 \in 0 .. b - 1 /\ Len(c) \in Nat /\ b \in 1 .. Len(c) /\ DOMAIN c = 1 .. Len(c)
    BY <1>1, LenProperties
  <2> DEFINE m == b - 1
  <2>7. m \in 0 .. b - 1 /\ m = b - 1
    BY <2>1
  <2>8. f = SubSeq(c, 1, m)
    OBVIOUS
  <2> HIDE DEF m, f, g
  <2>2. /\ f \in Seq(EnvTokens) /\ Len(f) = m /\ \A i \in 1 .. m : f[i] = c[i]
        /\ g \in Seq(EnvTokens) /\ Len(g) = Len(c) - b
        /\ \A i \in 1 .. Len(c) - b : g[i] = c[b + i]
    BY <1>1, <2>7, <2>8, Splits DEF g
  <2> DEFINE x == SubSeq(d, 1, m)
             y == SubSeq(d, b + 1, Len(d))
  <2>3. /\ x \in Seq(EnvTokens) /\ Len(x) = m /\ \A i \in 1 .. m : x[i] = d[i]
        /\ y \in Seq(EnvTokens) /\ Len(y) = Len(c) - b
        /\ \A i \in 1 .. Len(c) - b : y[i] = d[b + i]
    <3>1. d \in Seq(EnvTokens) /\ b \in DOMAIN d /\ m \in 0 .. b - 1
      BY <1>1, <1>2, <2>7
    <3>2. /\ SubSeq(d, 1, m) \in Seq(EnvTokens) /\ Len(SubSeq(d, 1, m)) = m
          /\ \A i \in 1 .. m : SubSeq(d, 1, m)[i] = d[i]
          /\ SubSeq(d, b + 1, Len(d)) \in Seq(EnvTokens)
          /\ Len(SubSeq(d, b + 1, Len(d))) = Len(d) - b
          /\ \A i \in 1 .. Len(d) - b : SubSeq(d, b + 1, Len(d))[i] = d[b + i]
      BY <3>1, Splits
    <3>3. QED
      BY <1>2, <3>2
  <2> HIDE DEF x, y
  <2>4. \A i \in 1 .. m : x[i] = f[i]
    BY <1>3, <2>1, <2>7, <2>2, <2>3
  <2>5. ASSUME NEW i \in 1 .. Len(c) - b PROVE y[i] = g[i]
    <3>1. b + i \in DOMAIN c /\ b + i # b
      BY <2>1
    <3>2. d[b + i] = c[b + i]
      BY <1>3, <3>1
    <3>3. QED
      BY <2>2, <2>3, <3>2
  <2>6. x = f /\ y = g
    BY <2>2, <2>3, <2>4, <2>5, SeqEqual
  <2>9. QED
    BY <2>6 DEF x, y, m
<1>5. c = (f \o <<c[b]>>) \o g /\ f \in EnvFile /\ g \in EnvFile
  <2>1. b - 1 \in 0 .. b - 1
    BY <1>1, LenProperties
  <2>2. QED
    BY <1>1, <2>1, SplitAt, Splits DEF EnvFile
<1>6. d = (f \o <<u>>) \o g
  <2>1. d = (SubSeq(d, 1, b - 1) \o <<d[b]>>) \o SubSeq(d, b + 1, Len(d))
    BY <1>1, <1>2, SplitAt
  <2>2. QED
    BY <1>3, <1>4, <2>1
<1> HIDE DEF f, g
<1>7. OutsideEnv((f \o <<c[b]>>) \o g) = OutsideEnv(f) \o OutsideEnv(g)
  BY <1>1, <1>5, OutsideParts
<1>8. OutsideEnv((f \o <<u>>) \o g) = OutsideEnv(f) \o OutsideEnv(g)
  BY <1>1, <1>5, OutsideParts
<1>9. Blocks(d) = Blocks(c)
  BY <1>1, <1>2, <1>3 DEF Blocks
<1>10. QED
  BY <1>2, <1>5, <1>6, <1>7, <1>8, <1>9 DEF EnvFile, d

LEMMA BlockIsAdded ==
    ASSUME NEW c \in EnvFile, NEW u \in Urls
    PROVE  LET d == ReplaceOrAppendBlock(c, u)
           IN  d \in EnvFile /\ OutsideEnv(d) = OutsideEnv(c) /\ (OneBlock(c) => OneBlock(d))
<1> DEFINE d == ReplaceOrAppendBlock(c, u)
<1>1. CASE Blocks(c) # {}
  <2>1. d = [c EXCEPT ![Min(Blocks(c))] = u]
    BY <1>1 DEF ReplaceOrAppendBlock
  <2> DEFINE b == Min(Blocks(c))
  <2>2. b \in Blocks(c)
    BY <1>1, FirstBlock
  <2> HIDE DEF b
  <2> DEFINE x == [c EXCEPT ![b] = u]
  <2>3. x \in EnvFile /\ OutsideEnv(x) = OutsideEnv(c) /\ Blocks(x) = Blocks(c)
    BY <2>2, ExchangeKeeps
  <2>4. d = x
    BY <2>1 DEF b
  <2> HIDE DEF x, d
  <2>5. d \in EnvFile /\ OutsideEnv(d) = OutsideEnv(c) /\ (OneBlock(c) => OneBlock(d))
    BY <2>3, <2>4 DEF OneBlock
  <2>6. QED
    BY <2>5 DEF d
<1>2. CASE Blocks(c) = {}
  <2>1. u \in EnvTokens /\ u \notin Lines \cup {BaseLine}
        /\ EndOfLine \in EnvTokens /\ EndOfLine \notin Lines \cup {BaseLine}
    BY OutsideTokens
  <2> DEFINE e == c \o (IF NeedsSeparator(c) THEN <<EndOfLine>> ELSE <<>>)
  <2>2. d = e \o <<u>>
    BY <1>2 DEF ReplaceOrAppendBlock
  <2>3. e \in EnvFile /\ OutsideEnv(e) = OutsideEnv(c) /\ Blocks(e) = {}
    <3>1. CASE NeedsSeparator(c)
      <4>1. e = c \o <<EndOfLine>>
        BY <3>1
      <4>2. e \in EnvFile /\ OutsideEnv(e) = OutsideEnv(c)
        BY <2>1, <4>1, OutsideParts
      <4>3. EndOfLine \notin Urls
        BY FilesAssumption
      <4>4. Blocks(e) = {}
        BY <1>2, <4>1, <4>3 DEF Blocks, EnvFile
      <4>5. QED
        BY <4>2, <4>4
    <3>2. CASE ~NeedsSeparator(c)
      <4>1. e = c
        BY <3>2, ConcatEmptySeq DEF EnvFile
      <4>2. QED
        BY <1>2, <4>1
    <3>3. QED
      BY <3>1, <3>2
  <2> HIDE DEF e
  <2>4. d \in EnvFile /\ OutsideEnv(d) = OutsideEnv(c)
    BY <2>1, <2>2, <2>3, OutsideParts
  <2>5. Blocks(d) \subseteq {Len(e) + 1}
    BY <2>2, <2>3 DEF Blocks, EnvFile
  <2>6. QED
    BY <2>4, <2>5 DEF OneBlock
<1>3. QED
  BY <1>1, <1>2

LEMMA BlockIsRemoved ==
    ASSUME NEW c \in EnvFile, Blocks(c) # {}, NEW added \in BOOLEAN
    PROVE  LET d == WithoutFirstBlock(c, added)
           IN  d \in EnvFile /\ OutsideEnv(d) = OutsideEnv(c) /\ (OneBlock(c) => Blocks(d) = {})
<1> DEFINE d == WithoutFirstBlock(c, added)
           b == Min(Blocks(c))
           stripped == added /\ b > 1 /\ c[b - 1] = EndOfLine
           f == SubSeq(c, 1, b - 1)
           g == SubSeq(c, b + 1, Len(c))
           e == SubSeq(c, 1, IF stripped THEN b - 2 ELSE b - 1)
<1>1. /\ b \in Blocks(c) /\ b \in DOMAIN c /\ b \in 1 .. Len(c) /\ c[b] \in Urls
      /\ c \in Seq(EnvTokens) /\ Len(c) \in Nat
  BY FirstBlock, LenProperties DEF EnvFile
<1>2. d = e \o g
  BY DEF WithoutFirstBlock
<1> HIDE DEF b, d
<1>3. /\ c = (f \o <<c[b]>>) \o g /\ f \in EnvFile /\ g \in EnvFile
      /\ Len(f) = b - 1 /\ Len(g) = Len(c) - b
      /\ \A i \in 1 .. b - 1 : f[i] = c[i]
      /\ \A i \in 1 .. Len(c) - b : g[i] = c[b + i]
  <2>1. b - 1 \in 0 .. b - 1
    BY <1>1
  <2>2. c = (f \o <<c[b]>>) \o g
    BY <1>1, SplitAt
  <2>3. /\ f \in Seq(EnvTokens) /\ g \in Seq(EnvTokens)
        /\ Len(f) = b - 1 /\ Len(g) = Len(c) - b
        /\ \A i \in 1 .. b - 1 : f[i] = c[i]
        /\ \A i \in 1 .. Len(c) - b : g[i] = c[b + i]
    BY <1>1, <2>1, Splits
  <2>4. QED
    BY <2>2, <2>3 DEF EnvFile
<1>4. e \in EnvFile /\ OutsideEnv(e) = OutsideEnv(f) /\ Len(e) =< b - 1
      /\ \A i \in 1 .. Len(e) : e[i] = c[i]
  <2>1. CASE stripped
    <3>1. b - 1 \in 1 .. Len(f) /\ b - 2 \in 0 .. b - 1 /\ f[b - 1] = EndOfLine
      BY <1>1, <1>3, <2>1
    <3>2. /\ e \in EnvFile /\ Len(e) = b - 2
          /\ \A i \in 1 .. b - 2 : e[i] = c[i]
      BY <1>1, <2>1, <3>1, Splits DEF EnvFile
    <3> HIDE DEF e
    <3>3. e \o <<EndOfLine>> = f
      <4>1. EndOfLine \in EnvTokens
        BY OutsideTokens
      <4> DEFINE t == EndOfLine
                 x == e \o <<t>>
      <4> HIDE DEF t, f
      <4>2. /\ x \in Seq(EnvTokens) /\ Len(x) = b - 1 /\ x[b - 1] = t
            /\ \A i \in 1 .. b - 2 : x[i] = e[i]
        <5>1. /\ e \in Seq(EnvTokens) /\ t \in EnvTokens /\ Len(e) = b - 2 /\ b - 2 \in Nat
              /\ (b - 2) + 1 = b - 1
          BY <1>1, <3>1, <3>2, <4>1 DEF EnvFile, t
        <5>2. x = Append(e, t)
          BY <5>1
        <5> HIDE DEF x
        <5>3. QED
          BY <5>1, <5>2, AppendProperties
      <4> HIDE DEF x
      <4>3. ASSUME NEW i \in 1 .. b - 1 PROVE x[i] = f[i]
        <5>1. CASE i = b - 1
          BY <3>1, <4>2, <5>1 DEF t
        <5>2. CASE i # b - 1
          <6>1. i \in 1 .. b - 2
            BY <1>1, <5>2
          <6>2. QED
            BY <1>3, <3>2, <4>2, <6>1
        <5>3. QED
          BY <5>1, <5>2
      <4>4. x = f
        <5>1. f \in Seq(EnvTokens)
          BY <1>3 DEF EnvFile
        <5>2. QED
          BY <1>3, <4>2, <4>3, <5>1, SeqEqual
      <4>5. QED
        BY <4>4 DEF x, t
    <3>4. OutsideEnv(e \o <<EndOfLine>>) = OutsideEnv(e)
      BY <3>2, OutsideTokens, OutsideParts
    <3>5. OutsideEnv(e) = OutsideEnv(f)
      BY <3>3, <3>4
    <3>6. Len(e) =< b - 1 /\ 1 .. Len(e) = 1 .. b - 2
      BY <1>1, <3>2
    <3>7. QED
      BY <3>2, <3>5, <3>6
  <2>2. CASE ~stripped
    <3>1. e = f
      BY <2>2
    <3> HIDE DEF e, f
    <3>2. QED
      BY <1>1, <1>3, <3>1
  <2>3. QED
    BY <2>1, <2>2
<1> HIDE DEF e, f, g, stripped
<1>5. OutsideEnv(c) = OutsideEnv(f) \o OutsideEnv(g)
  <2>1. c[b] \in EnvTokens /\ c[b] \notin Lines \cup {BaseLine}
    BY <1>1, OutsideTokens
  <2> DEFINE t == c[b]
             x == (f \o <<t>>) \o g
  <2> HIDE DEF t
  <2>2. OutsideEnv(x) = OutsideEnv(f) \o OutsideEnv(g)
    BY <1>3, <2>1, OutsideParts DEF t
  <2>3. c = x
    BY <1>3 DEF t
  <2>4. QED
    BY <2>2, <2>3
<1>6. d \in EnvFile /\ OutsideEnv(d) = OutsideEnv(e) \o OutsideEnv(g)
  BY <1>2, <1>3, <1>4, OutsideTokens, OutsideParts
<1>7. OneBlock(c) => Blocks(d) = {}
  <2>1. SUFFICES ASSUME OneBlock(c), NEW i \in Blocks(d) PROVE FALSE
    OBVIOUS
  <2>2. /\ i \in 1 .. Len(d) /\ d[i] \in Urls /\ Len(e) \in Nat /\ Len(g) \in Nat
        /\ Len(d) = Len(e) + Len(g)
    <3>1. d \in Seq(EnvTokens) /\ e \in Seq(EnvTokens) /\ g \in Seq(EnvTokens)
      BY <1>3, <1>4, <1>6 DEF EnvFile
    <3>2. i \in DOMAIN d /\ d[i] \in Urls
      BY <2>1 DEF Blocks
    <3>3. QED
      BY <1>2, <3>1, <3>2
  <2>3. CASE i =< Len(e)
    <3>1. d[i] = c[i] /\ i \in 1 .. Len(c) /\ i # b
      BY <1>1, <1>2, <1>3, <1>4, <2>2, <2>3 DEF EnvFile
    <3>2. i \in Blocks(c)
      BY <1>1, <2>2, <3>1 DEF Blocks
    <3>3. QED
      BY <1>1, <2>1, <3>1, <3>2 DEF OneBlock
  <2>4. CASE ~(i =< Len(e))
    <3>1. /\ i - Len(e) \in 1 .. Len(g) /\ d[i] = g[i - Len(e)]
          /\ b + (i - Len(e)) \in 1 .. Len(c) /\ b + (i - Len(e)) # b
      BY <1>1, <1>2, <1>3, <1>4, <2>2, <2>4 DEF EnvFile
    <3>2. g[i - Len(e)] = c[b + (i - Len(e))]
      BY <1>3, <3>1
    <3>3. b + (i - Len(e)) \in Blocks(c)
      BY <1>1, <2>2, <3>1, <3>2 DEF Blocks
    <3>4. QED
      BY <1>1, <2>1, <3>1, <3>3 DEF OneBlock
  <2>5. QED
    BY <2>3, <2>4
<1>8. QED
  BY <1>4, <1>5, <1>6, <1>7 DEF d

LEMMA BlocksAreTaken ==
    ASSUME NEW c \in EnvFile
    PROVE  WithoutBlocks(c) \in EnvFile /\ OutsideEnv(WithoutBlocks(c)) = OutsideEnv(c)
<1>1. c \in Seq(EnvTokens)
  BY DEF EnvFile
<1>2. Only(c, EnvTokens \ Urls) \in Seq(EnvTokens)
  BY <1>1, OnlyType
<1>3. EnvTokens \cap (Lines \cup {BaseLine}) \subseteq EnvTokens \ Urls
  BY OutsideTokens
<1>4. Only(Only(c, EnvTokens \ Urls), Lines \cup {BaseLine}) = Only(c, Lines \cup {BaseLine})
  BY <1>1, <1>3, OnlyOnly
<1>5. QED
  BY <1>2, <1>4 DEF WithoutBlocks, OutsideEnv, EnvFile

-----------------------------------------------------------------------------
(* What installing and uninstalling make of a Codex config.                 *)

LEMMA FirstSection ==
    ASSUME NEW c \in CodexConfig, NEW id, HasBaseUrl(c, id)
    PROVE  /\ Min(Sections(c, id)) \in DOMAIN c.providers
           /\ c.providers[Min(Sections(c, id))].id = id
           /\ BaseUrl(c, id) \in Urls \cup OwnUrls
<1> DEFINE Section == [id : ProviderIds, url : Urls \cup OwnUrls \cup {NoUrl}]
           m == Min(Sections(c, id))
<1>1. c.providers \in Seq(Section)
  BY DEF CodexConfig
<1>2. DOMAIN c.providers \subseteq Nat
  <2> HIDE DEF Section
  <2>1. QED
    BY <1>1
<1>3. m \in Sections(c, id)
  BY <1>2, MinIsLeast DEF Sections, HasBaseUrl
<1>4. m \in DOMAIN c.providers /\ c.providers[m].id = id
  BY <1>3 DEF Sections
<1>5. c.providers[m] \in Section
  <2> HIDE DEF Section, m
  <2>1. QED
    BY <1>1, <1>4
<1>6. QED
  BY <1>4, <1>5 DEF HasBaseUrl, BaseUrl

LEMMA UrlIsSet ==
    ASSUME NEW c \in CodexConfig, NEW id, HasBaseUrl(c, id), NEW u
    PROVE  LET d == SetBaseUrl(c, id, u)
           IN  /\ OutsideCodex(d) = OutsideCodex(c)
               /\ u \in Urls \cup OwnUrls => d \in CodexConfig
<1> DEFINE Section == [id : ProviderIds, url : Urls \cup OwnUrls \cup {NoUrl}]
           m == Min(Sections(c, id))
           new == [c.providers[m] EXCEPT !.url = u]
           providers == [c.providers EXCEPT ![m] = new]
           d == SetBaseUrl(c, id, u)
<1>1. /\ c = [providers |-> c.providers, note |-> c.note]
      /\ c.note \in Notes \cup {NoNote} /\ c.providers \in Seq(Section)
  BY DEF CodexConfig
<1>2. d = [providers |-> providers, note |-> c.note]
  BY <1>1 DEF SetBaseUrl
<1>3. m \in DOMAIN c.providers
  BY FirstSection
<1> HIDE DEF m
<1>4. c.providers[m] \in Section
  <2> HIDE DEF Section
  <2>1. QED
    BY <1>1, <1>3
<1>5. new.id = c.providers[m].id /\ (u \in Urls \cup OwnUrls => new \in Section)
  BY <1>4
<1>6. u \in Urls \cup OwnUrls => providers \in Seq(Section)
  <2> HIDE DEF Section, new
  <2>1. QED
    BY <1>1, <1>3, <1>5, ExceptSeq
<1>7. DOMAIN providers = DOMAIN c.providers
      /\ \A i \in DOMAIN c.providers : providers[i].id = c.providers[i].id
  <2> HIDE DEF new
  <2>1. QED
    BY <1>3, <1>5
<1>8. OutsideCodex(d) = OutsideCodex(c)
  <2>1. d.providers = providers /\ d.note = c.note
    BY <1>2
  <2> HIDE DEF d, providers
  <2>2. QED
    BY <1>7, <2>1 DEF OutsideCodex
<1>9. u \in Urls \cup OwnUrls => d \in CodexConfig
  <2> HIDE DEF providers
  <2>1. QED
    BY <1>1, <1>2, <1>6 DEF CodexConfig
<1>10. QED
  BY <1>8, <1>9

-----------------------------------------------------------------------------
(* What the user saves, without TOKEN.                                      *)

Content(k) == IF k = "codex" THEN CodexConfig ELSE EnvFile
Outside(k, c) == IF k = "codex" THEN OutsideCodex(c) ELSE OutsideEnv(c)

LEMMA TheKinds == KindSet = {"codex", "openai_env"}
<1>1. DOMAIN Kinds = {1, 2} /\ Kinds[1] = "codex" /\ Kinds[2] = "openai_env"
  BY DEF Kinds
<1>2. QED
  BY <1>1 DEF KindSet

LEMMA WithoutTokenKeeps ==
    ASSUME NEW k \in KindSet, NEW c \in Content(k), own[k] \in Content(k)
    PROVE  /\ WithoutToken(k, c) \in Content(k)
           /\ Outside(k, WithoutToken(k, c)) = Outside(k, c)
<1>1. CASE k = "openai_env"
  <2>1. c \in EnvFile /\ WithoutToken(k, c) = WithoutBlocks(c)
    BY <1>1 DEF Content, WithoutToken
  <2>2. QED
    BY <1>1, <2>1, BlocksAreTaken DEF Content, Outside
<1>2. CASE k = "codex"
  <2> DEFINE Section == [id : ProviderIds, url : Urls \cup OwnUrls \cup {NoUrl}]
             o == own["codex"].providers
             new(i) == IF c.providers[i].url \in Urls /\ i \in DOMAIN o
                       THEN [c.providers[i] EXCEPT !.url = o[i].url]
                       ELSE c.providers[i]
             providers == [i \in DOMAIN c.providers |-> new(i)]
             d == [c EXCEPT !.providers = providers]
  <2>1. /\ c = [providers |-> c.providers, note |-> c.note]
        /\ c.note \in Notes \cup {NoNote} /\ c.providers \in Seq(Section) /\ o \in Seq(Section)
    BY <1>2 DEF CodexConfig, Content
  <2>2. WithoutToken(k, c) = d
    BY <1>2 DEF WithoutToken
  <2>3. ASSUME NEW i \in DOMAIN c.providers
        PROVE  new(i) \in Section /\ new(i).id = c.providers[i].id
    <3>1. c.providers[i] \in Section /\ (i \in DOMAIN o => o[i] \in Section)
      <4> HIDE DEF Section, o
      <4>1. QED
        BY <2>1
    <3> HIDE DEF o
    <3>2. QED
      BY <3>1
  <2>4. providers \in Seq(Section)
    <3> HIDE DEF Section, new
    <3>1. \E n \in Nat : DOMAIN c.providers = 1 .. n
      BY <2>1
    <3>2. QED
      BY <2>3, <3>1
  <2>5. d = [providers |-> providers, note |-> c.note]
    <3> HIDE DEF providers
    <3>1. QED
      BY <2>1
  <2>6. DOMAIN providers = DOMAIN c.providers
        /\ \A i \in DOMAIN c.providers : providers[i].id = c.providers[i].id
    <3> HIDE DEF new
    <3>1. QED
      BY <2>3
  <2> HIDE DEF d, providers
  <2>7. OutsideCodex(d) = OutsideCodex(c)
    BY <2>5, <2>6 DEF OutsideCodex
  <2>8. d \in CodexConfig
    BY <2>1, <2>4, <2>5 DEF CodexConfig
  <2>9. QED
    BY <1>2, <2>2, <2>7, <2>8 DEF Content, Outside
<1>3. QED
  BY <1>1, <1>2, TheKinds

-----------------------------------------------------------------------------
(* Types.  A command at a step has what the step needs: an integration in    *)
(* progress, a URL to install, a plan with contents of the right kind.  Any  *)
(* number of commands.                                                       *)

\* A set that holds at most one content, or one sidecar.
AtMostOne(S, T) == S = {} \/ \E c \in T : S = {c}

IsSidecar(k, s) ==
    IF k = "codex"
    THEN \/ s.strategy \in {"sidecar", "damaged"}
         \/ Managed(s) /\ s.original \in CodexConfig /\ s.desired \in CodexConfig
    ELSE s.separatorAdded \in BOOLEAN
SidecarTyped(k, S) == S = {} \/ \E s : S = {s} /\ IsSidecar(k, s)

DiskTyped ==
    /\ DOMAIN file = KindSet /\ DOMAIN own = KindSet /\ DOMAIN sidecar = KindSet
    /\ DOMAIN fileTmp = KindSet /\ DOMAIN metaTmp = KindSet
    /\ \A k \in KindSet :
          /\ file[k] \in Content(k) /\ own[k] \in Content(k)
          /\ AtMostOne(fileTmp[k], Content(k))
          /\ SidecarTyped(k, sidecar[k]) /\ SidecarTyped(k, metaTmp[k])

UserTyped ==
    /\ touched \in [KindSet -> BOOLEAN] /\ raced \in [KindSet -> BOOLEAN]
    /\ edits \in 0 .. MaxEdits /\ intact \in BOOLEAN

RunningTyped(p) ==
    /\ todo[p] # <<>> /\ command[p] \in Commands
    /\ command[p] = "install" => url[p] \in Urls
    /\ at[p] \in {"check"} \cup Saving \cup Undoing => command[p] = "install"
    /\ at[p] # "read" => SidecarTyped(Kind(p), plan[p].sidecar)
    /\ at[p] = "plan" /\ ~ReadsSidecarFirst(p) => plan[p].original \in Content(Kind(p))
    /\ at[p] \in {"check"} \cup Writing \cup Saving \cup Undoing /\ command[p] = "install" =>
          plan[p].original \in Content(Kind(p)) /\ plan[p].desired \in Content(Kind(p))
    /\ at[p] \in Writing => plan[p].desired \in Content(Kind(p))

Todos == {<<>>, Kinds, <<"codex">>, <<"openai_env">>}

CommandTyped(p) ==
    /\ todo[p] \in Todos
    /\ DOMAIN plan[p] = {"safe", "original", "desired", "sidecar"}
    /\ Running(p) => RunningTyped(p)

CommandsTyped ==
    /\ command \in [Processes -> {"none"} \cup Commands]
    /\ url \in [Processes -> Urls \cup {NoUrl}]
    /\ at \in [Processes -> {"idle"} \cup Steps]
    /\ DOMAIN todo = Processes /\ DOMAIN plan = Processes
    /\ handle \in [Processes -> {"none", "tmp", "target", "gone"}]
    /\ \A p \in Processes : CommandTyped(p)

TypeInv == DiskTyped /\ UserTyped /\ CommandsTyped

LEMMA KindOf ==
    ASSUME NEW p \in Processes, CommandTyped(p), Running(p)
    PROVE  Kind(p) \in KindSet
<1>1. todo[p] \in {Kinds, <<"codex">>, <<"openai_env">>}
  BY DEF CommandTyped, RunningTyped, Todos
<1>2. Kinds[1] = "codex"
  BY DEF Kinds
<1>3. QED
  BY <1>1, <1>2, TheKinds DEF Kind

LEMMA OneAtMost == ASSUME NEW S, S = {} \/ \E x : S = {x} PROVE Cardinality(S) =< 1
<1>1. CASE S = {}
  <2>1. Cardinality({}) = 0
    BY FS_EmptySet
  <2>2. QED
    BY <1>1, <2>1
<1>2. CASE S # {}
  <2>1. PICK x : S = {x}
    BY <1>2
  <2>2. Cardinality({x}) = 1
    BY FS_Singleton
  <2>3. QED
    BY <2>1, <2>2
<1>3. QED
  BY <1>1, <1>2

LEMMA TypesAreOK == TypeInv => IntegrationsTypeOK
<1> SUFFICES ASSUME TypeInv PROVE IntegrationsTypeOK
  OBVIOUS
<1>1. /\ file.codex \in CodexConfig /\ file.openai_env \in EnvFile
      /\ own.codex \in CodexConfig /\ own.openai_env \in EnvFile
  BY TheKinds DEF TypeInv, DiskTyped, Content
<1>2. ASSUME NEW k \in KindSet
      PROVE  /\ Cardinality(sidecar[k]) =< 1
             /\ Cardinality(fileTmp[k]) =< 1
             /\ Cardinality(metaTmp[k]) =< 1
  BY OneAtMost DEF TypeInv, DiskTyped, AtMostOne, SidecarTyped
<1>3. /\ command \in [Processes -> {"none", "install", "uninstall"}]
      /\ url \in [Processes -> Urls \cup {NoUrl}]
      /\ \A p \in Processes : todo[p] \in {<<>>, Kinds, <<"codex">>, <<"openai_env">>}
      /\ at \in [Processes -> {"idle"} \cup Steps]
  <2>1. {"none"} \cup Commands = {"none", "install", "uninstall"}
    BY DEF Commands
  <2>2. QED
    BY <2>1 DEF TypeInv, CommandsTyped, CommandTyped, Todos
<1>4. QED
  BY <1>1, <1>2, <1>3 DEF IntegrationsTypeOK, TypeInv, CommandsTyped, UserTyped

LEMMA TypesAtStart == Init => TypeInv
<1> SUFFICES ASSUME Init PROVE TypeInv
  OBVIOUS
<1>1. PICK r \in Roots : /\ file = [codex |-> r.codex, openai_env |-> r.openai_env]
                         /\ sidecar = [codex |-> r.sidecar, openai_env |-> {}]
  BY DEF Init
<1>2. /\ r.codex \in CodexConfig /\ r.openai_env \in EnvFile
      /\ SidecarTyped("codex", r.sidecar)
  <2>1. /\ OtherSidecar("sidecar").strategy = "sidecar"
        /\ OtherSidecar("damaged").strategy = "damaged"
    BY DEF OtherSidecar
  <2>2. QED
    BY <2>1, RootsAssumption DEF SidecarTyped, IsSidecar
<1>3. DiskTyped
  BY <1>1, <1>2, TheKinds DEF Init, DiskTyped, Content, AtMostOne, SidecarTyped
<1>4. UserTyped
  BY EditsAssumption DEF Init, UserTyped
<1>5. CommandsTyped
  BY DEF Init, CommandsTyped, CommandTyped, NoPlan, Plan, Running, Steps, Filling, Todos
<1>6. QED
  BY <1>3, <1>4, <1>5 DEF TypeInv

\* What only p does leaves the other commands as they are.
LEMMA OthersStayTyped ==
    ASSUME NEW p \in Processes, CommandsTyped,
           command' \in [Processes -> {"none"} \cup Commands],
           url' \in [Processes -> Urls \cup {NoUrl}], at' \in [Processes -> {"idle"} \cup Steps],
           DOMAIN todo' = Processes, DOMAIN plan' = Processes,
           handle' \in [Processes -> {"none", "tmp", "target", "gone"}],
           \A q \in Processes \ {p} :
              /\ command'[q] = command[q] /\ url'[q] = url[q] /\ todo'[q] = todo[q]
              /\ at'[q] = at[q] /\ plan'[q] = plan[q],
           CommandTyped(p)'
    PROVE  CommandsTyped'
<1>1. ASSUME NEW q \in Processes \ {p} PROVE CommandTyped(q)'
  BY <1>1 DEF CommandsTyped, CommandTyped, Running, RunningTyped, Kind, ReadsSidecarFirst
<1>2. QED
  BY <1>1 DEF CommandsTyped

\* The end of an integration, or of the command.
LEMMA NextTyped ==
    ASSUME NEW p \in Processes, CommandsTyped, Running(p), NextIntegration(p) \/ End(p),
           handle' \in [Processes -> {"none", "tmp", "target", "gone"}]
    PROVE  CommandsTyped'
<1>1. CommandTyped(p) /\ p \in DOMAIN at /\ p \in DOMAIN command /\ p \in DOMAIN url
      /\ p \in DOMAIN todo /\ p \in DOMAIN plan
  BY DEF CommandsTyped
<1>2. DOMAIN NoPlan = {"safe", "original", "desired", "sidecar"} /\ NoPlan.sidecar = {}
  BY DEF NoPlan, Plan
<1>3. CASE End(p)
  <2>1. /\ command'[p] = "none" /\ url'[p] = NoUrl /\ todo'[p] = <<>> /\ at'[p] = "idle"
        /\ plan'[p] = NoPlan
    BY <1>1, <1>3 DEF End, Goto
  <2>2. CommandTyped(p)'
    BY <1>2, <2>1 DEF CommandTyped, Running, Steps, Filling, Todos
  <2>3. QED
    BY <1>3, <2>2, OthersStayTyped DEF End, Goto, CommandsTyped
<1>4. CASE NextIntegration(p) /\ Len(todo[p]) # 1
  <2>1. /\ at'[p] = "read" /\ plan'[p] = NoPlan /\ todo'[p] = Tail(todo[p])
        /\ UNCHANGED <<command, url>>
    BY <1>1, <1>4 DEF NextIntegration, Goto
  <2>2. todo[p] = Kinds
    BY <1>1, <1>4 DEF CommandTyped, RunningTyped, Todos
  <2>3. Tail(Kinds) = <<"openai_env">>
    BY DEF Kinds
  <2>4. CommandTyped(p)'
    <3>1. RunningTyped(p)'
      BY <1>1, <1>2, <2>1, <2>2, <2>3
         DEF CommandTyped, RunningTyped, SidecarTyped, Writing, Saving, Undoing
    <3>2. QED
      BY <1>1, <1>2, <2>1, <2>2, <2>3, <3>1 DEF CommandTyped, Running, Steps, Todos
  <2>5. QED
    BY <1>4, <2>4, OthersStayTyped DEF NextIntegration, Goto, CommandsTyped, Steps
<1>5. QED
  BY <1>3, <1>4 DEF NextIntegration

\* A command at its next step, with the plan it has or another one.
LEMMA ContinueTyped ==
    ASSUME NEW p \in Processes, CommandsTyped, Running(p), NEW step \in Steps, NEW new,
           Continue(p, step), DOMAIN plan' = Processes, plan'[p] = new,
           \A q \in Processes \ {p} : plan'[q] = plan[q],
           DOMAIN new = {"safe", "original", "desired", "sidecar"},
           handle' \in [Processes -> {"none", "tmp", "target", "gone"}],
           step \in {"check"} \cup Saving \cup Undoing => command[p] = "install",
           SidecarTyped(Kind(p), new.sidecar),
           step = "plan" /\ ~ReadsSidecarFirst(p) => new.original \in Content(Kind(p)),
           step \in {"check"} \cup Writing \cup Saving \cup Undoing /\ command[p] = "install" =>
              new.original \in Content(Kind(p)) /\ new.desired \in Content(Kind(p)),
           step \in Writing => new.desired \in Content(Kind(p))
    PROVE  CommandsTyped'
<1>1. CommandTyped(p) /\ p \in DOMAIN at /\ p \in DOMAIN plan
  BY DEF CommandsTyped
<1>2. /\ at'[p] = step /\ plan'[p] = new /\ UNCHANGED <<command, url, todo>>
  BY <1>1 DEF Continue, Goto
<1>3. RunningTyped(p)'
  BY <1>1, <1>2 DEF CommandTyped, RunningTyped, Kind, ReadsSidecarFirst
<1>4. CommandTyped(p)'
  BY <1>1, <1>2, <1>3 DEF CommandTyped
<1>5. QED
  BY <1>4, OthersStayTyped DEF Continue, Goto, CommandsTyped

\* The same with the plan it has.
LEMMA GoesOnTyped ==
    ASSUME NEW p \in Processes, CommandsTyped, Running(p), NEW step \in Steps,
           Continue(p, step), plan' = plan,
           handle' \in [Processes -> {"none", "tmp", "target", "gone"}],
           at[p] # "read", step # "plan", step \in {"check"} \cup Saving \cup Undoing => command[p] = "install",
           step \in {"check"} \cup Writing \cup Saving \cup Undoing =>
              at[p] \in {"check"} \cup Writing \cup Saving \cup Undoing,
           step \in Writing => at[p] \in {"check"} \cup Writing
    PROVE  CommandsTyped'
<1>1. CommandTyped(p) /\ p \in DOMAIN plan
  BY DEF CommandsTyped
<1>2. DOMAIN plan' = Processes
  BY DEF CommandsTyped
<1>3. RunningTyped(p) /\ DOMAIN plan[p] = {"safe", "original", "desired", "sidecar"}
  BY <1>1 DEF CommandTyped
<1>4. /\ step \in {"check"} \cup Writing \cup Saving \cup Undoing /\ command[p] = "install" =>
            plan[p].original \in Content(Kind(p)) /\ plan[p].desired \in Content(Kind(p))
      /\ step \in Writing => plan[p].desired \in Content(Kind(p))
      /\ SidecarTyped(Kind(p), plan[p].sidecar)
  BY <1>3 DEF RunningTyped
<1>5. QED
  BY <1>2, <1>3, <1>4, ContinueTyped

-----------------------------------------------------------------------------
(* Each step keeps the types.                                               *)

\* A plan of the right kind.
PlanTyped(k, new) ==
    /\ DOMAIN new = {"safe", "original", "desired", "sidecar"}
    /\ new.original \in Content(k) /\ new.desired \in Content(k)
    /\ SidecarTyped(k, new.sidecar)

LEMMA InstallPlanTyped ==
    ASSUME NEW k \in KindSet, NEW c \in Content(k), NEW S, SidecarTyped(k, S), NEW u \in Urls
    PROVE  PlanTyped(k, IF k = "codex" THEN PlanCodex(c, S, u) ELSE PlanEnv(c, S, u))
<1>1. CASE k = "codex"
  <2> DEFINE id == c.providers[1].id
             d == SetBaseUrl(c, id, u)
             new == PlanCodex(c, S, u)
  <2>1. c \in CodexConfig
    BY <1>1 DEF Content
  <2>2. CASE S = {} /\ Len(c.providers) = 1 /\ HasBaseUrl(c, id)
    <3>1. d \in CodexConfig
      BY <2>1, <2>2, UrlIsSet
    <3> DEFINE s == CodexSidecar(id, BaseUrl(c, id), c, d)
    <3>2. new = Plan(TRUE, c, d, {s})
      BY <2>2 DEF PlanCodex
    <3>3. s.strategy = "managed_provider_base_url" /\ s.original = c /\ s.desired = d
      BY DEF CodexSidecar
    <3> HIDE DEF s, d, new
    <3>4. IsSidecar(k, s)
      BY <1>1, <2>1, <3>1, <3>3 DEF IsSidecar, Managed
    <3>5. PlanTyped(k, new)
      BY <1>1, <2>1, <3>1, <3>2, <3>4 DEF PlanTyped, Plan, Content, SidecarTyped
    <3>6. QED
      BY <1>1, <3>5 DEF new
  <2>3. CASE ~(S = {} /\ Len(c.providers) = 1 /\ HasBaseUrl(c, id))
    <3>1. new = Plan(new.safe, c, c, S)
      BY <2>3 DEF PlanCodex, Plan
    <3> HIDE DEF new
    <3>2. PlanTyped(k, new)
      BY <1>1, <2>1, <3>1 DEF PlanTyped, Plan, Content
    <3>3. QED
      BY <1>1, <3>2 DEF new
  <2>4. QED
    BY <2>2, <2>3
<1>2. CASE k = "openai_env"
  <2> DEFINE new == PlanEnv(c, S, u)
  <2>1. c \in EnvFile
    BY <1>2 DEF Content
  <2>2. ReplaceOrAppendBlock(c, u) \in EnvFile
    BY <2>1, BlockIsAdded
  <2>3. /\ DOMAIN new = {"safe", "original", "desired", "sidecar"} /\ new.original = c
        /\ new.desired \in {c, ReplaceOrAppendBlock(c, u)}
        /\ new.sidecar \in {S, {[separatorAdded |-> NeedsSeparator(c)]}}
    BY DEF PlanEnv, Plan
  <2>4. SidecarTyped(k, {[separatorAdded |-> NeedsSeparator(c)]})
    <3>1. NeedsSeparator(c) \in BOOLEAN
      BY DEF NeedsSeparator
    <3>2. IsSidecar(k, [separatorAdded |-> NeedsSeparator(c)])
      BY <1>2, <3>1 DEF IsSidecar
    <3>3. QED
      BY <3>2 DEF SidecarTyped
  <2> HIDE DEF new
  <2>5. PlanTyped(k, new)
    BY <1>2, <2>1, <2>2, <2>3, <2>4 DEF PlanTyped, Content
  <2>6. QED
    BY <1>2, <2>5 DEF new
<1>3. QED
  BY <1>1, <1>2, TheKinds

\* The bytes an uninstall of a .env writes.
LEMMA RemovedEnvTyped ==
    ASSUME NEW c \in EnvFile, NEW S, NEW d \in RemoveEnv(c, S).desired
    PROVE  /\ d \in EnvFile /\ OutsideEnv(d) = OutsideEnv(c) /\ (OneBlock(c) => Blocks(d) = {})
<1>1. Blocks(c) # {} /\ d = WithoutFirstBlock(c, \E s \in S : s.separatorAdded)
  BY DEF RemoveEnv, Forget, Leave, Write
<1> DEFINE added == \E s \in S : s.separatorAdded
<1>2. added \in BOOLEAN
  OBVIOUS
<1> HIDE DEF added
<1>3. /\ WithoutFirstBlock(c, added) \in EnvFile /\ OutsideEnv(WithoutFirstBlock(c, added)) = OutsideEnv(c)
      /\ (OneBlock(c) => Blocks(WithoutFirstBlock(c, added)) = {})
  BY <1>1, <1>2, BlockIsRemoved
<1>4. QED
  BY <1>1, <1>3 DEF added

\* And those of a Codex config.
LEMMA RemovedCodexTyped ==
    ASSUME NEW c \in CodexConfig, NEW S, SidecarTyped("codex", S),
           NEW d \in RemoveCodex(c, S).desired
    PROVE  d \in CodexConfig /\ OutsideCodex(d) = OutsideCodex(c)
<1>1. S # {}
  BY DEF RemoveCodex, Leave
<1>2. PICK s : S = {s} /\ IsSidecar("codex", s)
  BY <1>1 DEF SidecarTyped
<1>3. (CHOOSE t \in S : TRUE) = s
  BY <1>2
<1>4. s.strategy \notin {"sidecar", "damaged"}
  BY <1>1, <1>2, <1>3 DEF RemoveCodex, Leave, Forget
<1>5. /\ HasBaseUrl(c, s.provider) /\ SetBaseUrl(c, s.provider, s.url) = s.original
      /\ d = SetBaseUrl(c, s.provider, s.url)
  BY <1>1, <1>2, <1>3, <1>4 DEF RemoveCodex, Leave, Forget, Write
<1>6. s.original \in CodexConfig
  BY <1>2, <1>4 DEF IsSidecar
<1>7. OutsideCodex(SetBaseUrl(c, s.provider, s.url)) = OutsideCodex(c)
  BY <1>5, UrlIsSet
<1>8. QED
  BY <1>5, <1>6, <1>7

LEMMA StartTyped ==
    ASSUME NEW p \in Processes, NEW c \in Commands, NEW u \in Urls, TypeInv, Start(p, c, u)
    PROVE  TypeInv'
<1>1. /\ at[p] = "idle" /\ at' = [at EXCEPT ![p] = "read"]
      /\ command' = [command EXCEPT ![p] = c] /\ url' = [url EXCEPT ![p] = u]
      /\ todo' = [todo EXCEPT ![p] = Detected]
      /\ UNCHANGED <<diskVars, userVars, plan>>
  BY DEF Start, Goto
<1>2. Detected \in {Kinds, <<"codex">>} /\ Detected # <<>>
  BY DEF Detected, Kinds
<1>3. /\ CommandsTyped /\ CommandTyped(p) /\ DOMAIN todo = Processes /\ DOMAIN plan = Processes
      /\ "read" \in Steps /\ c \in {"none"} \cup Commands
  BY DEF TypeInv, CommandsTyped, Steps
<1>4. /\ at'[p] = "read" /\ command'[p] = c /\ url'[p] = u /\ todo'[p] = Detected /\ plan'[p] = plan[p]
      /\ command' \in [Processes -> {"none"} \cup Commands]
      /\ url' \in [Processes -> Urls \cup {NoUrl}] /\ at' \in [Processes -> {"idle"} \cup Steps]
      /\ DOMAIN todo' = Processes /\ DOMAIN plan' = Processes
      /\ handle' \in [Processes -> {"none", "tmp", "target", "gone"}]
  BY <1>1, <1>3 DEF CommandsTyped, diskVars
<1>5. CommandTyped(p)'
  <2>1. RunningTyped(p)'
    BY <1>2, <1>4 DEF RunningTyped, Writing, Saving, Undoing
  <2>2. QED
    BY <1>2, <1>3, <1>4, <2>1 DEF CommandTyped, Todos
<1>6. CommandsTyped'
  BY <1>1, <1>3, <1>4, <1>5, OthersStayTyped
<1>7. QED
  BY <1>1, <1>6 DEF TypeInv, DiskTyped, UserTyped, diskVars, userVars

\* What a step of a command that touches no file leaves.
LEMMA QuietTyped ==
    ASSUME TypeInv, UNCHANGED <<diskVars, userVars>>, CommandsTyped'
    PROVE  TypeInv'
BY DEF TypeInv, DiskTyped, UserTyped, diskVars, userVars

LEMMA ReadTyped ==
    ASSUME NEW p \in Processes, TypeInv, Read(p) PROVE TypeInv'
<1> DEFINE k == Kind(p)
           new == IF ReadsSidecarFirst(p) THEN [NoPlan EXCEPT !.sidecar = sidecar[k]]
                  ELSE [NoPlan EXCEPT !.original = file[k]]
<1>1. /\ at[p] = "read" /\ Running(p) /\ Continue(p, "plan") /\ plan' = [plan EXCEPT ![p] = new]
      /\ UNCHANGED <<diskVars, userVars>>
  BY DEF Read, Running, Steps
<1>2. CommandsTyped /\ CommandTyped(p) /\ DOMAIN plan = Processes
  BY DEF TypeInv, CommandsTyped
<1>3. k \in KindSet /\ file[k] \in Content(k) /\ SidecarTyped(k, sidecar[k])
  BY <1>1, <1>2, KindOf DEF TypeInv, DiskTyped
<1>4. /\ DOMAIN new = {"safe", "original", "desired", "sidecar"} /\ SidecarTyped(k, new.sidecar)
      /\ ~ReadsSidecarFirst(p) => new.original \in Content(k)
  BY <1>3 DEF NoPlan, Plan, SidecarTyped
<1>5. /\ DOMAIN plan' = Processes /\ plan'[p] = new
      /\ \A q \in Processes \ {p} : plan'[q] = plan[q]
      /\ handle' \in [Processes -> {"none", "tmp", "target", "gone"}]
  BY <1>1, <1>2 DEF CommandsTyped, diskVars
<1> HIDE DEF new
<1>6. "plan" \in Steps /\ "plan" \notin {"check"} \cup Writing \cup Saving \cup Undoing
  BY DEF Steps, Writing, Saving, Undoing
<1>7. CommandsTyped'
  BY <1>1, <1>2, <1>4, <1>5, <1>6, ContinueTyped
<1>8. QED
  BY <1>1, <1>7, QuietTyped

LEMMA PlanInstallTyped ==
    ASSUME NEW p \in Processes, TypeInv, PlanInstall(p) PROVE TypeInv'
<1> DEFINE k == Kind(p)
           c == plan[p].original
           new == IF k = "codex" THEN PlanCodex(c, sidecar[k], url[p])
                                 ELSE PlanEnv(c, sidecar[k], url[p])
<1>1. /\ at[p] = "plan" /\ command[p] = "install" /\ Running(p)
      /\ UNCHANGED <<diskVars, userVars>>
      /\ \/ Continue(p, "check") /\ plan' = [plan EXCEPT ![p] = new]
         \/ NextIntegration(p)
  BY DEF PlanInstall, Running, Steps
<1>2. /\ CommandsTyped /\ CommandTyped(p) /\ DOMAIN plan = Processes
      /\ handle' \in [Processes -> {"none", "tmp", "target", "gone"}]
  BY <1>1 DEF TypeInv, CommandsTyped, diskVars
<1>3. CASE NextIntegration(p)
  <2>1. CommandsTyped'
    BY <1>1, <1>2, <1>3, NextTyped
  <2>2. QED
    BY <1>1, <2>1, QuietTyped
<1>4. CASE Continue(p, "check") /\ plan' = [plan EXCEPT ![p] = new]
  <2>1. /\ k \in KindSet /\ SidecarTyped(k, sidecar[k]) /\ c \in Content(k) /\ url[p] \in Urls
    BY <1>1, <1>2, KindOf DEF TypeInv, DiskTyped, CommandTyped, RunningTyped, ReadsSidecarFirst
  <2>2. PlanTyped(k, new)
    <3> HIDE DEF k, c
    <3>1. QED
      BY <2>1, InstallPlanTyped
  <2>3. /\ DOMAIN plan' = Processes /\ plan'[p] = new
        /\ \A q \in Processes \ {p} : plan'[q] = plan[q]
    BY <1>2, <1>4
  <2> HIDE DEF new
  <2>4. "check" \in Steps /\ "check" \notin Writing
    BY DEF Steps, Writing
  <2>5. CommandsTyped'
    BY <1>1, <1>2, <1>4, <2>2, <2>3, <2>4, ContinueTyped DEF PlanTyped
  <2>6. QED
    BY <1>1, <2>5, QuietTyped
<1>5. QED
  BY <1>1, <1>3, <1>4

LEMMA CheckTyped ==
    ASSUME NEW p \in Processes, TypeInv, Check(p) PROVE TypeInv'
<1>1. /\ at[p] = "check" /\ Running(p) /\ UNCHANGED <<diskVars, userVars>>
      /\ \/ Continue(p, "open") /\ UNCHANGED plan
         \/ NextIntegration(p)
  BY DEF Check, Running, Steps
<1>2. CommandsTyped /\ handle' \in [Processes -> {"none", "tmp", "target", "gone"}]
  BY <1>1 DEF TypeInv, CommandsTyped, diskVars
<1>3. CASE NextIntegration(p)
  <2>1. CommandsTyped'
    BY <1>1, <1>2, <1>3, NextTyped
  <2>2. QED
    BY <1>1, <2>1, QuietTyped
<1>4. CASE Continue(p, "open") /\ UNCHANGED plan
  <2>1. "open" \in Steps /\ "open" \notin {"check"} \cup Saving \cup Undoing
    BY DEF Steps, Saving, Undoing
  <2>2. CommandsTyped'
    BY <1>1, <1>2, <1>4, <2>1, GoesOnTyped
  <2>3. QED
    BY <1>1, <2>2, QuietTyped
<1>5. QED
  BY <1>1, <1>3, <1>4

\* A step that writes, renames or removes a file of one kind and its sidecar.
LEMMA DiskStaysTyped ==
    ASSUME DiskTyped, NEW k \in KindSet, own' = own,
           NEW c \in Content(k), file' \in {file, [file EXCEPT ![k] = c]},
           NEW S, AtMostOne(S, Content(k)), fileTmp' \in {fileTmp, [fileTmp EXCEPT ![k] = S]},
           NEW M, SidecarTyped(k, M),
           sidecar' \in {sidecar, [sidecar EXCEPT ![k] = M], [sidecar EXCEPT ![k] = {}]},
           metaTmp' \in {metaTmp, [metaTmp EXCEPT ![k] = M], [metaTmp EXCEPT ![k] = {}]}
    PROVE  DiskTyped'
<1>1. /\ DOMAIN file' = KindSet /\ DOMAIN own' = KindSet /\ DOMAIN sidecar' = KindSet
      /\ DOMAIN fileTmp' = KindSet /\ DOMAIN metaTmp' = KindSet
  BY DEF DiskTyped
<1>2. ASSUME NEW j \in KindSet
      PROVE  /\ file'[j] \in Content(j) /\ own'[j] \in Content(j)
             /\ AtMostOne(fileTmp'[j], Content(j))
    <2>1. file'[j] \in {file[j], c} /\ (j # k => file'[j] = file[j])
      BY DEF DiskTyped
    <2>2. fileTmp'[j] \in {fileTmp[j], S} /\ (j # k => fileTmp'[j] = fileTmp[j])
      BY DEF DiskTyped
    <2>3. file[j] \in Content(j) /\ own[j] \in Content(j) /\ AtMostOne(fileTmp[j], Content(j))
      BY DEF DiskTyped
    <2>4. QED
      BY <2>1, <2>2, <2>3
<1>3. ASSUME NEW j \in KindSet
      PROVE  SidecarTyped(j, sidecar'[j]) /\ SidecarTyped(j, metaTmp'[j])
    <2>1. sidecar'[j] \in {sidecar[j], M, {}} /\ (j # k => sidecar'[j] = sidecar[j])
      BY DEF DiskTyped
    <2>2. metaTmp'[j] \in {metaTmp[j], M, {}} /\ (j # k => metaTmp'[j] = metaTmp[j])
      BY DEF DiskTyped
    <2>3. SidecarTyped(j, sidecar[j]) /\ SidecarTyped(j, metaTmp[j]) /\ SidecarTyped(j, {})
      BY DEF DiskTyped, SidecarTyped
    <2>4. QED
      BY <2>1, <2>2, <2>3
<1>4. QED
  BY <1>1, <1>2, <1>3 DEF DiskTyped

LEMMA EmptyTyped ==
    ASSUME NEW k \in KindSet
    PROVE  EmptyFile(k) \in Content(k) /\ IsSidecar(k, EmptySidecar(k))
<1>1. CASE k = "codex"
  <2>1. EmptyFile(k) \in CodexConfig
    BY <1>1 DEF EmptyFile, CodexConfig
  <2>2. EmptySidecar(k).strategy = "damaged"
    BY <1>1 DEF EmptySidecar, OtherSidecar
  <2>3. QED
    BY <1>1, <2>1, <2>2 DEF Content, IsSidecar
<1>2. CASE k = "openai_env"
  <2>1. EmptyFile(k) \in EnvFile
    BY <1>2 DEF EmptyFile, EnvFile
  <2>2. EmptySidecar(k).separatorAdded = FALSE
    BY <1>2 DEF EmptySidecar
  <2>3. QED
    BY <1>2, <2>1, <2>2 DEF Content, IsSidecar
<1>3. QED
  BY <1>1, <1>2, TheKinds

\* What every step of a running command may take for granted.
LEMMA StepFacts ==
    ASSUME NEW p \in Processes, TypeInv, Running(p)
    PROVE  /\ Kind(p) \in KindSet /\ RunningTyped(p) /\ CommandTyped(p)
           /\ CommandsTyped /\ DiskTyped /\ UserTyped
           /\ file[Kind(p)] \in Content(Kind(p)) /\ AtMostOne(fileTmp[Kind(p)], Content(Kind(p)))
           /\ SidecarTyped(Kind(p), sidecar[Kind(p)]) /\ SidecarTyped(Kind(p), metaTmp[Kind(p)])
           /\ handle \in [Processes -> {"none", "tmp", "target", "gone"}]
BY KindOf DEF TypeInv, CommandsTyped, CommandTyped, DiskTyped

LEMMA RenamedTyped ==
    ASSUME CommandsTyped, NEW k, NEW S
    PROVE  /\ Renamed(k, S) \in [Processes -> {"none", "tmp", "target", "gone"}]
           /\ Unlinked(k) \in [Processes -> {"none", "tmp", "target", "gone"}]
           /\ \A p \in Processes, h \in {"none", "tmp"} :
                [handle EXCEPT ![p] = h] \in [Processes -> {"none", "tmp", "target", "gone"}]
BY DEF Renamed, Unlinked, CommandsTyped

LEMMA OpenTyped ==
    ASSUME NEW p \in Processes, TypeInv, Open(p) PROVE TypeInv'
<1> DEFINE step == IF at[p] = "open" THEN "fill" ELSE "undo_fill"
           k == Kind(p)
<1>1. /\ at[p] \in {"open", "undo_open"} /\ Running(p) /\ Continue(p, step)
      /\ fileTmp' = [fileTmp EXCEPT ![k] = {EmptyFile(k)}]
      /\ handle' = [handle EXCEPT ![p] = "tmp"]
      /\ UNCHANGED <<file, sidecar, metaTmp, userVars, plan>>
  BY DEF Open, Running, Steps
<1>2. /\ k \in KindSet /\ RunningTyped(p) /\ CommandsTyped /\ DiskTyped /\ UserTyped
      /\ file[k] \in Content(k) /\ SidecarTyped(k, sidecar[k])
  BY <1>1, StepFacts
<1>3. CommandsTyped'
  <2>1. handle' \in [Processes -> {"none", "tmp", "target", "gone"}]
    BY <1>1, <1>2, RenamedTyped
  <2>2. /\ step \in Steps /\ step # "plan" /\ at[p] # "read"
        /\ step \in {"check"} \cup Saving \cup Undoing => command[p] = "install"
        /\ step \in {"check"} \cup Writing \cup Saving \cup Undoing =>
              at[p] \in {"check"} \cup Writing \cup Saving \cup Undoing
        /\ step \in Writing => at[p] \in {"check"} \cup Writing
    BY <1>1, <1>2 DEF Steps, Filling, Writing, Saving, Undoing, RunningTyped
  <2> HIDE DEF step
  <2>3. QED
    BY <1>1, <1>2, <2>1, <2>2, GoesOnTyped
<1>4. DiskTyped'
  <2>1. AtMostOne({EmptyFile(k)}, Content(k))
    BY <1>2, EmptyTyped DEF AtMostOne
  <2> HIDE DEF k
  <2>2. QED
    BY <1>1, <1>2, <2>1, DiskStaysTyped DEF userVars
<1>5. QED
  BY <1>1, <1>2, <1>3, <1>4 DEF TypeInv, UserTyped, userVars

LEMMA FillTyped ==
    ASSUME NEW p \in Processes, TypeInv, Fill(p) PROVE TypeInv'
<1> DEFINE step == IF at[p] = "fill" THEN "replace" ELSE "undo_replace"
           k == Kind(p)
           content == IF at[p] = "fill" THEN plan[p].desired ELSE plan[p].original
<1>1. /\ at[p] \in Filling /\ Running(p) /\ Continue(p, step)
      /\ fileTmp' \in {fileTmp, [fileTmp EXCEPT ![k] = {content}]}
      /\ file' \in {file, [file EXCEPT ![k] = content]}
      /\ handle' = [handle EXCEPT ![p] = "none"]
      /\ UNCHANGED <<sidecar, metaTmp, userVars, plan>>
  BY DEF Fill, Running, Steps
<1>2. /\ k \in KindSet /\ RunningTyped(p) /\ CommandsTyped /\ DiskTyped /\ UserTyped
      /\ SidecarTyped(k, sidecar[k])
  BY <1>1, StepFacts
<1>3. CommandsTyped'
  <2>1. handle' \in [Processes -> {"none", "tmp", "target", "gone"}]
    BY <1>1, <1>2, RenamedTyped
  <2>2. /\ step \in Steps /\ step # "plan" /\ at[p] # "read"
        /\ step \in {"check"} \cup Saving \cup Undoing => command[p] = "install"
        /\ step \in {"check"} \cup Writing \cup Saving \cup Undoing =>
              at[p] \in {"check"} \cup Writing \cup Saving \cup Undoing
        /\ step \in Writing => at[p] \in {"check"} \cup Writing
    BY <1>1, <1>2 DEF Steps, Filling, Writing, Saving, Undoing, RunningTyped
  <2> HIDE DEF step
  <2>3. QED
    BY <1>1, <1>2, <2>1, <2>2, GoesOnTyped
<1>4. DiskTyped'
  <2>1. content \in Content(k)
    BY <1>1, <1>2 DEF Filling, Writing, Undoing, RunningTyped
  <2>2. AtMostOne({content}, Content(k))
    BY <2>1 DEF AtMostOne
  <2> HIDE DEF k, content
  <2>3. QED
    BY <1>1, <1>2, <2>1, <2>2, DiskStaysTyped DEF userVars
<1>5. QED
  BY <1>1, <1>2, <1>3, <1>4 DEF TypeInv, UserTyped, userVars

\* A rename of a temporary file.
LEMMA RenameTyped ==
    ASSUME DiskTyped, NEW k \in KindSet, UNCHANGED <<own, sidecar, metaTmp>>,
           \E c \in fileTmp[k] : file' = [file EXCEPT ![k] = c],
           fileTmp' = [fileTmp EXCEPT ![k] = {}]
    PROVE  DiskTyped'
<1>1. PICK c \in fileTmp[k] : file' = [file EXCEPT ![k] = c]
  OBVIOUS
<1>2. c \in Content(k) /\ SidecarTyped(k, sidecar[k])
  BY <1>1 DEF DiskTyped, AtMostOne
<1>3. AtMostOne({}, Content(k))
  BY DEF AtMostOne
<1>4. QED
  BY <1>1, <1>2, <1>3, DiskStaysTyped

LEMMA ReplaceTyped ==
    ASSUME NEW p \in Processes, TypeInv, Replace(p) PROVE TypeInv'
<1> DEFINE step == IF command[p] = "install" THEN "open_sidecar" ELSE "unlink"
           k == Kind(p)
<1>1. /\ at[p] = "replace" /\ Running(p) /\ Continue(p, step)
      /\ \E c \in fileTmp[k] : file' = [file EXCEPT ![k] = c]
      /\ fileTmp' = [fileTmp EXCEPT ![k] = {}]
      /\ handle' = Renamed(k, Filling)
      /\ touched' = [touched EXCEPT ![k] = command[p] = "uninstall" /\ @]
      /\ UNCHANGED <<sidecar, metaTmp, own, raced, edits, intact, plan>>
  BY DEF Replace, Running, Steps
<1>2. /\ k \in KindSet /\ RunningTyped(p) /\ CommandsTyped /\ DiskTyped /\ UserTyped
  BY <1>1, StepFacts
<1>3. CommandsTyped'
  <2>1. handle' \in [Processes -> {"none", "tmp", "target", "gone"}]
    BY <1>1, <1>2, RenamedTyped
  <2>2. /\ step \in Steps /\ step # "plan" /\ at[p] # "read"
        /\ step \in {"check"} \cup Saving \cup Undoing => command[p] = "install"
        /\ step \in {"check"} \cup Writing \cup Saving \cup Undoing =>
              at[p] \in {"check"} \cup Writing \cup Saving \cup Undoing
        /\ step \in Writing => at[p] \in {"check"} \cup Writing
    BY <1>1, <1>2 DEF Steps, Filling, Writing, Saving, Undoing, RunningTyped
  <2> HIDE DEF step
  <2>3. QED
    BY <1>1, <1>2, <2>1, <2>2, GoesOnTyped
<1>4. DiskTyped'
  <2> HIDE DEF k
  <2>1. QED
    BY <1>1, <1>2, RenameTyped
<1>5. UserTyped'
  <2>1. (command[p] = "uninstall" /\ touched[k]) \in BOOLEAN
    OBVIOUS
  <2>2. touched' \in [KindSet -> BOOLEAN]
    BY <1>1, <1>2, <2>1 DEF UserTyped
  <2>3. QED
    BY <1>1, <1>2, <2>2 DEF UserTyped
<1>6. QED
  BY <1>3, <1>4, <1>5 DEF TypeInv

LEMMA OpenSidecarTyped ==
    ASSUME NEW p \in Processes, TypeInv, OpenSidecar(p) PROVE TypeInv'
<1> DEFINE k == Kind(p)
<1>1. /\ at[p] = "open_sidecar" /\ Running(p) /\ Continue(p, "fill_sidecar")
      /\ metaTmp' = [metaTmp EXCEPT ![k] = {EmptySidecar(k)}]
      /\ handle' = [handle EXCEPT ![p] = "tmp"]
      /\ UNCHANGED <<file, sidecar, fileTmp, userVars, plan>>
  BY DEF OpenSidecar, Running, Steps
<1>2. /\ k \in KindSet /\ RunningTyped(p) /\ CommandsTyped /\ DiskTyped /\ UserTyped
      /\ file[k] \in Content(k)
  BY <1>1, StepFacts
<1>3. CommandsTyped'
  <2>1. handle' \in [Processes -> {"none", "tmp", "target", "gone"}]
    BY <1>1, <1>2, RenamedTyped
  <2>2. /\ "fill_sidecar" \in Steps /\ command[p] = "install" /\ at[p] \in Saving
        /\ "fill_sidecar" \notin Writing
    BY <1>1, <1>2 DEF Steps, Writing, Saving, RunningTyped
  <2>3. QED
    BY <1>1, <1>2, <2>1, <2>2, GoesOnTyped
<1>4. DiskTyped'
  <2>1. SidecarTyped(k, {EmptySidecar(k)}) /\ AtMostOne({}, Content(k))
    BY <1>2, EmptyTyped DEF SidecarTyped, AtMostOne
  <2> HIDE DEF k
  <2>2. QED
    BY <1>1, <1>2, <2>1, DiskStaysTyped DEF userVars
<1>5. QED
  BY <1>1, <1>2, <1>3, <1>4 DEF TypeInv, UserTyped, userVars

LEMMA FillSidecarTyped ==
    ASSUME NEW p \in Processes, TypeInv, FillSidecar(p) PROVE TypeInv'
<1> DEFINE k == Kind(p)
<1>1. /\ at[p] = "fill_sidecar" /\ Running(p) /\ Continue(p, "replace_sidecar")
      /\ metaTmp' \in {metaTmp, [metaTmp EXCEPT ![k] = plan[p].sidecar]}
      /\ sidecar' \in {sidecar, [sidecar EXCEPT ![k] = plan[p].sidecar]}
      /\ handle' = [handle EXCEPT ![p] = "none"]
      /\ UNCHANGED <<file, fileTmp, userVars, plan>>
  BY DEF FillSidecar, Running, Steps
<1>2. /\ k \in KindSet /\ RunningTyped(p) /\ CommandsTyped /\ DiskTyped /\ UserTyped
      /\ file[k] \in Content(k)
  BY <1>1, StepFacts
<1>3. CommandsTyped'
  <2>1. handle' \in [Processes -> {"none", "tmp", "target", "gone"}]
    BY <1>1, <1>2, RenamedTyped
  <2>2. /\ "replace_sidecar" \in Steps /\ command[p] = "install" /\ at[p] \in Saving
        /\ "replace_sidecar" \notin Writing
    BY <1>1, <1>2 DEF Steps, Writing, Saving, RunningTyped
  <2>3. QED
    BY <1>1, <1>2, <2>1, <2>2, GoesOnTyped
<1>4. DiskTyped'
  <2>1. SidecarTyped(k, plan[p].sidecar) /\ AtMostOne({}, Content(k))
    BY <1>1, <1>2 DEF RunningTyped, AtMostOne
  <2> HIDE DEF k
  <2>2. QED
    BY <1>1, <1>2, <2>1, DiskStaysTyped DEF userVars
<1>5. QED
  BY <1>1, <1>2, <1>3, <1>4 DEF TypeInv, UserTyped, userVars

LEMMA ReplaceSidecarTyped ==
    ASSUME NEW p \in Processes, TypeInv, ReplaceSidecar(p) PROVE TypeInv'
<1> DEFINE k == Kind(p)
<1>1. /\ at[p] = "replace_sidecar" /\ Running(p) /\ NextIntegration(p)
      /\ sidecar' = [sidecar EXCEPT ![k] = metaTmp[k]]
      /\ metaTmp' = [metaTmp EXCEPT ![k] = {}]
      /\ handle' = Renamed(k, {"fill_sidecar"})
      /\ UNCHANGED <<file, fileTmp, userVars>>
  BY DEF ReplaceSidecar, Running, Steps
<1>2. /\ k \in KindSet /\ CommandsTyped /\ DiskTyped /\ UserTyped
      /\ file[k] \in Content(k) /\ SidecarTyped(k, metaTmp[k])
  BY <1>1, StepFacts
<1>3. CommandsTyped'
  <2>1. handle' \in [Processes -> {"none", "tmp", "target", "gone"}]
    BY <1>1, <1>2, RenamedTyped
  <2>2. QED
    BY <1>1, <1>2, <2>1, NextTyped
<1>4. DiskTyped'
  <2>1. AtMostOne({}, Content(k))
    BY DEF AtMostOne
  <2> HIDE DEF k
  <2>2. QED
    BY <1>1, <1>2, <2>1, DiskStaysTyped DEF userVars
<1>5. QED
  BY <1>1, <1>2, <1>3, <1>4 DEF TypeInv, UserTyped, userVars

LEMMA UndoReplaceTyped ==
    ASSUME NEW p \in Processes, TypeInv, UndoReplace(p) PROVE TypeInv'
<1> DEFINE k == Kind(p)
<1>1. /\ at[p] = "undo_replace" /\ Running(p) /\ Continue(p, "undo_unlink")
      /\ \E c \in fileTmp[k] : file' = [file EXCEPT ![k] = c]
      /\ fileTmp' = [fileTmp EXCEPT ![k] = {}]
      /\ handle' = Renamed(k, Filling)
      /\ UNCHANGED <<sidecar, metaTmp, userVars, plan>>
  BY DEF UndoReplace, Running, Steps
<1>2. /\ k \in KindSet /\ RunningTyped(p) /\ CommandsTyped /\ DiskTyped /\ UserTyped
  BY <1>1, StepFacts
<1>3. CommandsTyped'
  <2>1. handle' \in [Processes -> {"none", "tmp", "target", "gone"}]
    BY <1>1, <1>2, RenamedTyped
  <2>2. /\ "undo_unlink" \in Steps /\ command[p] = "install" /\ at[p] \in Undoing
        /\ "undo_unlink" \notin Writing
    BY <1>1, <1>2 DEF Steps, Writing, Undoing, RunningTyped
  <2>3. QED
    BY <1>1, <1>2, <2>1, <2>2, GoesOnTyped
<1>4. DiskTyped'
  <2> HIDE DEF k
  <2>1. QED
    BY <1>1, <1>2, RenameTyped DEF userVars
<1>5. QED
  BY <1>1, <1>2, <1>3, <1>4 DEF TypeInv, UserTyped, userVars

\* The sidecar is removed.
LEMMA UnlinkTyped ==
    ASSUME NEW p \in Processes, TypeInv, UndoUnlink(p) \/ Unlink(p) PROVE TypeInv'
<1> DEFINE k == Kind(p)
<1>1. /\ Running(p) /\ (NextIntegration(p) \/ End(p))
      /\ sidecar' = [sidecar EXCEPT ![k] = {}]
      /\ handle' = Unlinked(k)
      /\ UNCHANGED <<file, fileTmp, metaTmp, userVars>>
  BY DEF UndoUnlink, Unlink, Running, Steps
<1>2. /\ k \in KindSet /\ CommandsTyped /\ DiskTyped /\ UserTyped
      /\ file[k] \in Content(k) /\ SidecarTyped(k, metaTmp[k])
  BY <1>1, StepFacts
<1>3. CommandsTyped'
  <2>1. handle' \in [Processes -> {"none", "tmp", "target", "gone"}]
    BY <1>1, <1>2, RenamedTyped
  <2>2. QED
    BY <1>1, <1>2, <2>1, NextTyped
<1>4. DiskTyped'
  <2>1. AtMostOne({}, Content(k))
    BY DEF AtMostOne
  <2> HIDE DEF k
  <2>2. QED
    BY <1>1, <1>2, <2>1, DiskStaysTyped DEF userVars
<1>5. QED
  BY <1>1, <1>2, <1>3, <1>4 DEF TypeInv, UserTyped, userVars

LEMMA PlanRemovalTyped ==
    ASSUME NEW p \in Processes, TypeInv, PlanRemoval(p) PROVE TypeInv'
<1> DEFINE k == Kind(p)
           r == IF k = "codex" THEN RemoveCodex(file[k], plan[p].sidecar)
                               ELSE RemoveEnv(plan[p].original, sidecar[k])
<1>1. /\ at[p] = "plan" /\ command[p] = "uninstall" /\ Running(p)
      /\ UNCHANGED <<diskVars, userVars>>
      /\ \/ NextIntegration(p)
         \/ Continue(p, "unlink") /\ UNCHANGED plan
         \/ /\ Continue(p, "open")
            /\ \E c \in r.desired : plan' = [plan EXCEPT ![p].desired = c]
  BY DEF PlanRemoval, Running, Steps
<1>2. /\ k \in KindSet /\ RunningTyped(p) /\ CommandTyped(p) /\ CommandsTyped
      /\ file[k] \in Content(k) /\ SidecarTyped(k, sidecar[k]) /\ SidecarTyped(k, plan[p].sidecar)
  BY <1>1, StepFacts DEF RunningTyped
<1>3. handle' \in [Processes -> {"none", "tmp", "target", "gone"}]
  BY <1>1, <1>2 DEF CommandsTyped, diskVars
<1>4. CASE NextIntegration(p)
  <2>1. CommandsTyped'
    BY <1>1, <1>2, <1>3, <1>4, NextTyped
  <2>2. QED
    BY <1>1, <2>1, QuietTyped
<1>5. CASE Continue(p, "unlink") /\ UNCHANGED plan
  <2>1. "unlink" \in Steps /\ "unlink" \notin {"check"} \cup Writing \cup Saving \cup Undoing
    BY DEF Steps, Writing, Saving, Undoing
  <2>2. CommandsTyped'
    BY <1>1, <1>2, <1>3, <1>5, <2>1, GoesOnTyped
  <2>3. QED
    BY <1>1, <2>2, QuietTyped
<1>6. CASE /\ Continue(p, "open")
           /\ \E c \in r.desired : plan' = [plan EXCEPT ![p].desired = c]
  <2>1. PICK c \in r.desired : plan' = [plan EXCEPT ![p].desired = c]
    BY <1>6
  <2>2. c \in Content(k)
    <3>1. CASE k = "codex"
      BY <1>2, <2>1, <3>1, RemovedCodexTyped DEF Content
    <3>2. CASE k = "openai_env"
      <4>1. plan[p].original \in EnvFile
        BY <1>1, <1>2, <3>2 DEF RunningTyped, ReadsSidecarFirst, Content
      <4>2. QED
        BY <2>1, <3>2, <4>1, RemovedEnvTyped DEF Content
    <3>3. QED
      BY <1>2, <3>1, <3>2, TheKinds
  <2> DEFINE new == [plan[p] EXCEPT !.desired = c]
  <2>3. /\ DOMAIN plan' = Processes /\ plan'[p] = new
        /\ \A q \in Processes \ {p} : plan'[q] = plan[q]
    BY <1>2, <2>1 DEF CommandsTyped
  <2>4. /\ DOMAIN new = {"safe", "original", "desired", "sidecar"}
        /\ new.desired = c /\ new.sidecar = plan[p].sidecar
    BY <1>2 DEF CommandTyped
  <2> HIDE DEF new
  <2>5. "open" \in Steps /\ "open" \notin {"check"} \cup Saving \cup Undoing
        /\ command[p] # "install"
    BY <1>1 DEF Steps, Saving, Undoing
  <2>6. CommandsTyped'
    BY <1>1, <1>2, <1>3, <1>6, <2>2, <2>3, <2>4, <2>5, ContinueTyped
  <2>7. QED
    BY <1>1, <2>6, QuietTyped
<1>7. QED
  BY <1>1, <1>4, <1>5, <1>6

\* A failure, or a kill.
LEMMA EndsTyped ==
    ASSUME NEW p \in Processes, TypeInv, Fails(p) \/ Kill(p) PROVE TypeInv'
<1>1. /\ Running(p) /\ intact' \in BOOLEAN
      /\ handle' = [handle EXCEPT ![p] = "none"]
      /\ UNCHANGED <<file, sidecar, fileTmp, metaTmp, own, touched, raced, edits>>
      /\ \/ End(p)
         \/ /\ at[p] \in {"open", "fill", "replace", "open_sidecar", "fill_sidecar", "replace_sidecar"}
            /\ command[p] = "install" /\ Continue(p, "undo_open") /\ UNCHANGED plan
  BY DEF Fails, Kill, TypeInv, UserTyped
<1>2. /\ CommandsTyped /\ DiskTyped /\ UserTyped
  BY DEF TypeInv
<1>3. handle' \in [Processes -> {"none", "tmp", "target", "gone"}]
  BY <1>1, <1>2, RenamedTyped
<1>4. CommandsTyped'
  <2>1. CASE End(p)
    BY <1>1, <1>2, <1>3, <2>1, NextTyped
  <2>2. CASE /\ at[p] \in {"open", "fill", "replace", "open_sidecar", "fill_sidecar", "replace_sidecar"}
             /\ command[p] = "install" /\ Continue(p, "undo_open") /\ UNCHANGED plan
    <3>1. "undo_open" \in Steps /\ "undo_open" \notin Writing /\ at[p] \in Writing \cup Saving
      BY <2>2 DEF Steps, Writing, Saving
    <3>2. QED
      BY <1>1, <1>2, <1>3, <2>2, <3>1, GoesOnTyped DEF Writing, Saving
  <2>3. QED
    BY <1>1, <2>1, <2>2
<1>5. QED
  BY <1>1, <1>2, <1>4 DEF TypeInv, DiskTyped, UserTyped

\* What the user saves is a file of its kind.
EditsAreFiles == \A k \in KindSet : \A c \in Content(k) : EditsOf(k, c) \subseteq Content(k)

LEMMA EditTyped ==
    ASSUME EditsAreFiles, TypeInv, NEW k \in KindSet, NEW c \in EditsOf(k, file[k]), Edit(k, c)
    PROVE  TypeInv'
<1>1. /\ file' = [file EXCEPT ![k] = c] /\ own' = [own EXCEPT ![k] = WithoutToken(k, c)]
      /\ touched' = [touched EXCEPT ![k] = TRUE]
      /\ raced' = [raced EXCEPT ![k] = @ \/ \E p \in Processes : Rewrites(p, k)]
      /\ edits < MaxEdits /\ edits' = edits + 1
      /\ UNCHANGED <<sidecar, fileTmp, metaTmp, handle, intact, procVars>>
  BY DEF Edit
<1>2. file[k] \in Content(k) /\ own[k] \in Content(k) /\ CommandsTyped /\ DiskTyped /\ UserTyped
  BY DEF TypeInv, DiskTyped
<1>3. c \in Content(k) /\ WithoutToken(k, c) \in Content(k)
  BY <1>2, WithoutTokenKeeps DEF EditsAreFiles
<1>4. DiskTyped'
  <2>1. /\ DOMAIN file' = KindSet /\ DOMAIN own' = KindSet
    BY <1>1, <1>2 DEF DiskTyped
  <2>2. ASSUME NEW j \in KindSet PROVE file'[j] \in Content(j) /\ own'[j] \in Content(j)
    BY <1>1, <1>2, <1>3 DEF DiskTyped
  <2>3. QED
    BY <1>1, <1>2, <2>1, <2>2 DEF DiskTyped
<1>5. UserTyped'
  <2>1. edits' \in 0 .. MaxEdits
    BY <1>1, <1>2, EditsAssumption DEF UserTyped
  <2>2. (raced[k] \/ \E p \in Processes : Rewrites(p, k)) \in BOOLEAN
    OBVIOUS
  <2>3. raced' \in [KindSet -> BOOLEAN]
    BY <1>1, <1>2, <2>2 DEF UserTyped
  <2>4. QED
    BY <1>1, <1>2, <2>1, <2>3 DEF UserTyped
<1>6. CommandsTyped'
  BY <1>1, <1>2 DEF CommandsTyped, CommandTyped, Running, RunningTyped, Kind, ReadsSidecarFirst, procVars
<1>7. QED
  BY <1>4, <1>5, <1>6 DEF TypeInv

LEMMA TypesStep ==
    ASSUME EditsAreFiles, TypeInv, [Next]_vars
    PROVE  TypeInv'
<1>1. ASSUME NEW p \in Processes, NEW c \in {"install", "uninstall"}, NEW u \in Urls, Start(p, c, u)
      PROVE  TypeInv'
  BY <1>1, StartTyped DEF Commands
<1>2. ASSUME NEW p \in Processes, Step(p) PROVE TypeInv'
  BY <1>2, ReadTyped, PlanInstallTyped, CheckTyped, OpenTyped, FillTyped, ReplaceTyped,
     OpenSidecarTyped, FillSidecarTyped, ReplaceSidecarTyped, UndoReplaceTyped, UnlinkTyped,
     PlanRemovalTyped, EndsTyped DEF Step
<1>3. ASSUME NEW k \in KindSet, NEW c \in EditsOf(k, file[k]), Edit(k, c) PROVE TypeInv'
  BY <1>3, EditTyped
<1>4. CASE UNCHANGED vars
  BY <1>4 DEF vars, diskVars, procVars, userVars, TypeInv, DiskTyped, UserTyped, CommandsTyped,
              CommandTyped, Running, RunningTyped, Kind, ReadsSidecarFirst
<1>5. QED
  BY <1>1, <1>2, <1>3, <1>4 DEF Next

\* The files, the sidecars and the commands keep their types, with any number of
\* processes on one root, whatever fails and whoever is killed.
THEOREM IntegrationTypes ==
    ASSUME EditsAreFiles PROVE Spec => []IntegrationsTypeOK
<1>1. Init => TypeInv
  BY TypesAtStart
<1>2. TypeInv /\ [Next]_vars => TypeInv'
  BY TypesStep
<1>3. TypeInv => IntegrationsTypeOK
  BY TypesAreOK
<1>4. QED
  BY <1>1, <1>2, <1>3, PTL DEF Spec

-----------------------------------------------------------------------------
(* The text of the user.  One command at a time: what it is about to move    *)
(* into place says, outside the part TOKEN manages, what the user's file     *)
(* says, unless the user saved a file in the middle of the rewrite.          *)

Tidy(k, c) == k = "openai_env" => OneBlock(c)

FilesKept ==
    \A k \in KindSet : /\ Tidy(k, file[k])
                       /\ ~raced[k] => Outside(k, file[k]) = Outside(k, own[k])

\* An install has the bytes it read, and so has the uninstall of a .env.
HasRead(p) ==
    \/ at[p] = "plan" /\ ~ReadsSidecarFirst(p)
    \/ at[p] \in {"check"} \cup Changing /\ command[p] = "install"

PlanKept(p, k) ==
    /\ HasRead(p) => Tidy(k, plan[p].original)
    /\ at[p] = "check" =>
          Tidy(k, plan[p].desired) /\ Outside(k, plan[p].desired) = Outside(k, plan[p].original)
    /\ at[p] \in Writing => Tidy(k, plan[p].desired)
    /\ at[p] \in Writing /\ ~raced[k] => Outside(k, plan[p].desired) = Outside(k, own[k])
    /\ at[p] \in Changing /\ command[p] = "install" /\ ~raced[k] =>
          Outside(k, plan[p].original) = Outside(k, own[k])

TemporaryKept(p, k) ==
    /\ at[p] \in Filling \cup {"fill_sidecar"} => handle[p] = "tmp"
    /\ at[p] = "replace" => fileTmp[k] = {plan[p].desired}
    /\ at[p] = "undo_replace" => fileTmp[k] = {plan[p].original}

BlocksGo(p, k) ==
    k = "openai_env" /\ command[p] = "uninstall" =>
        /\ at[p] = "plan" /\ ~raced[k] => plan[p].original = file[k]
        /\ at[p] \in Writing => Blocks(plan[p].desired) = {}
        /\ at[p] = "unlink" /\ ~raced[k] => Blocks(file[k]) = {}

TextInv(p) ==
    FilesKept /\ PlanKept(p, Kind(p)) /\ TemporaryKept(p, Kind(p)) /\ BlocksGo(p, Kind(p))

LEMMA TextAtStart == ASSUME NEW p \in Processes PROVE Init => TextInv(p)
<1> SUFFICES ASSUME Init PROVE TextInv(p)
  OBVIOUS
<1>1. PICK r \in Roots : /\ file = [codex |-> r.codex, openai_env |-> r.openai_env]
                         /\ sidecar = [codex |-> r.sidecar, openai_env |-> {}]
  BY DEF Init
<1>2. own = file /\ at[p] = "idle"
  BY DEF Init
<1>3. OneBlock(file["openai_env"])
  BY <1>1, RootsAssumption DEF OneBlock
<1>4. FilesKept
  BY <1>2, <1>3, TheKinds DEF FilesKept, Tidy
<1>5. PlanKept(p, Kind(p)) /\ TemporaryKept(p, Kind(p)) /\ BlocksGo(p, Kind(p))
  BY <1>2 DEF PlanKept, TemporaryKept, BlocksGo, HasRead, Changing, Writing, Saving, Filling
<1>6. QED
  BY <1>4, <1>5 DEF TextInv

\* The end of an integration, or of the command: nothing of a plan is left.
LEMMA NextText ==
    ASSUME NEW p \in Processes, TypeInv, Running(p), NextIntegration(p) \/ End(p), FilesKept'
    PROVE  TextInv(p)'
<1>1. DOMAIN at = Processes
  BY DEF TypeInv, CommandsTyped
<1>2. at'[p] \in {"idle", "read"}
  BY <1>1 DEF NextIntegration, End, Goto
<1>3. (PlanKept(p, Kind(p)) /\ TemporaryKept(p, Kind(p)) /\ BlocksGo(p, Kind(p)))'
  BY <1>2 DEF PlanKept, TemporaryKept, BlocksGo, HasRead, Changing, Writing, Saving, Filling
<1>4. QED
  BY <1>3 DEF TextInv

LEMMA SameFilesKept ==
    ASSUME FilesKept, UNCHANGED <<file, own, raced>> PROVE FilesKept'
BY DEF FilesKept

\* A command at its next step.
LEMMA ContinueText ==
    ASSUME NEW p \in Processes, TypeInv, NEW step, Continue(p, step)
    PROVE  at'[p] = step /\ Kind(p)' = Kind(p) /\ command' = command
<1>1. DOMAIN at = Processes
  BY DEF TypeInv, CommandsTyped
<1>2. QED
  BY <1>1 DEF Continue, Goto, Kind

LEMMA StartText ==
    ASSUME NEW p \in Processes, NEW c, NEW u, TypeInv, TextInv(p), Start(p, c, u)
    PROVE  TextInv(p)'
<1>1. at'[p] = "read" /\ UNCHANGED <<file, own, raced>>
  BY DEF Start, Goto, TypeInv, CommandsTyped, diskVars, userVars
<1>2. (PlanKept(p, Kind(p)) /\ TemporaryKept(p, Kind(p)) /\ BlocksGo(p, Kind(p)))'
  BY <1>1 DEF PlanKept, TemporaryKept, BlocksGo, HasRead, Changing, Writing, Saving, Filling
<1>3. QED
  BY <1>1, <1>2, SameFilesKept DEF TextInv

LEMMA ReadText ==
    ASSUME NEW p \in Processes, TypeInv, TextInv(p), Read(p)
    PROVE  TextInv(p)'
<1> DEFINE k == Kind(p)
<1>1. /\ at[p] = "read" /\ Running(p) /\ Continue(p, "plan")
      /\ ~ReadsSidecarFirst(p) => plan'[p].original = file[k]
      /\ UNCHANGED <<file, own, raced>>
  BY DEF Read, Running, Steps, TypeInv, CommandsTyped, NoPlan, Plan, diskVars, userVars
<1>2. k \in KindSet
  BY <1>1, StepFacts
<1>3. at'[p] = "plan" /\ Kind(p)' = k /\ command' = command
  BY <1>1, ContinueText
<1>4. ReadsSidecarFirst(p)' <=> ReadsSidecarFirst(p)
  BY <1>3 DEF ReadsSidecarFirst
<1>5. PlanKept(p, k)'
  BY <1>1, <1>2, <1>3, <1>4 DEF PlanKept, HasRead, Changing, Writing, Saving, TextInv, FilesKept
<1>6. TemporaryKept(p, k)'
  BY <1>3 DEF TemporaryKept, Filling
<1>7. BlocksGo(p, k)'
  BY <1>1, <1>3 DEF BlocksGo, Writing, ReadsSidecarFirst
<1>8. QED
  BY <1>1, <1>3, <1>5, <1>6, <1>7, SameFilesKept DEF TextInv

\* What an install plans keeps what is outside.
LEMMA InstallPlanKept ==
    ASSUME NEW k \in KindSet, NEW c \in Content(k), NEW S, NEW u \in Urls, Tidy(k, c)
    PROVE  LET new == IF k = "codex" THEN PlanCodex(c, S, u) ELSE PlanEnv(c, S, u)
           IN  /\ new.original = c /\ Tidy(k, new.desired)
               /\ Outside(k, new.desired) = Outside(k, c)
<1>1. CASE k = "codex"
  <2> DEFINE id == c.providers[1].id
             d == SetBaseUrl(c, id, u)
  <2>1. c \in CodexConfig
    BY <1>1 DEF Content
  <2>2. CASE S = {} /\ Len(c.providers) = 1 /\ HasBaseUrl(c, id)
    <3>1. OutsideCodex(d) = OutsideCodex(c)
      BY <2>1, <2>2, UrlIsSet
    <3>2. PlanCodex(c, S, u).original = c /\ PlanCodex(c, S, u).desired = d
      BY <2>2 DEF PlanCodex, Plan
    <3>3. QED
      BY <1>1, <3>1, <3>2 DEF Tidy, Outside
  <2>3. CASE ~(S = {} /\ Len(c.providers) = 1 /\ HasBaseUrl(c, id))
    <3>1. PlanCodex(c, S, u).original = c /\ PlanCodex(c, S, u).desired = c
      BY <2>3 DEF PlanCodex, Plan
    <3>2. QED
      BY <1>1, <3>1 DEF Tidy
  <2>4. QED
    BY <2>2, <2>3
<1>2. CASE k = "openai_env"
  <2>1. c \in EnvFile /\ OneBlock(c)
    BY <1>2 DEF Content, Tidy
  <2> DEFINE d == ReplaceOrAppendBlock(c, u)
  <2>2. OutsideEnv(d) = OutsideEnv(c) /\ OneBlock(d)
    BY <2>1, BlockIsAdded
  <2>3. PlanEnv(c, S, u).original = c /\ PlanEnv(c, S, u).desired \in {c, d}
    BY DEF PlanEnv, Plan
  <2> HIDE DEF d
  <2>4. QED
    BY <1>2, <2>1, <2>2, <2>3 DEF Tidy, Outside
<1>3. QED
  BY <1>1, <1>2, TheKinds

LEMMA PlanInstallText ==
    ASSUME NEW p \in Processes, TypeInv, TextInv(p), PlanInstall(p)
    PROVE  TextInv(p)'
<1> DEFINE k == Kind(p)
           c == plan[p].original
           new == IF k = "codex" THEN PlanCodex(c, sidecar[k], url[p])
                                 ELSE PlanEnv(c, sidecar[k], url[p])
<1>1. /\ at[p] = "plan" /\ command[p] = "install" /\ Running(p)
      /\ UNCHANGED <<file, own, raced>>
      /\ \/ Continue(p, "check") /\ plan' = [plan EXCEPT ![p] = new]
         \/ NextIntegration(p)
  BY DEF PlanInstall, Running, Steps, diskVars, userVars
<1>2. FilesKept'
  BY <1>1, SameFilesKept DEF TextInv
<1>3. CASE NextIntegration(p)
  BY <1>1, <1>2, <1>3, NextText
<1>4. CASE Continue(p, "check") /\ plan' = [plan EXCEPT ![p] = new]
  <2>1. /\ k \in KindSet /\ c \in Content(k) /\ url[p] \in Urls /\ Tidy(k, c)
        /\ plan'[p] = new
    BY <1>1, <1>4, StepFacts
       DEF RunningTyped, ReadsSidecarFirst, TextInv, PlanKept, HasRead, TypeInv, CommandsTyped
  <2>2. new.original = c /\ Tidy(k, new.desired) /\ Outside(k, new.desired) = Outside(k, c)
    <3> HIDE DEF k, c
    <3>1. QED
      BY <2>1, InstallPlanKept
  <2> HIDE DEF new
  <2>3. at'[p] = "check" /\ Kind(p)' = k /\ command' = command
    BY <1>4, ContinueText
  <2>4. PlanKept(p, k)'
    BY <2>1, <2>2, <2>3 DEF PlanKept, Changing, Writing, Saving
  <2>5. TemporaryKept(p, k)' /\ BlocksGo(p, k)'
    BY <2>3 DEF TemporaryKept, BlocksGo, Filling, Writing
  <2>6. QED
    BY <1>2, <2>3, <2>4, <2>5 DEF TextInv
<1>5. QED
  BY <1>1, <1>3, <1>4

LEMMA CheckText ==
    ASSUME NEW p \in Processes, TypeInv, TextInv(p), Check(p)
    PROVE  TextInv(p)'
<1> DEFINE k == Kind(p)
<1>1. /\ at[p] = "check" /\ Running(p) /\ UNCHANGED <<file, own, raced>>
      /\ \/ Continue(p, "open") /\ UNCHANGED plan /\ file[k] = plan[p].original
         \/ NextIntegration(p)
  BY DEF Check, Running, Steps, diskVars, userVars
<1>2. FilesKept'
  BY <1>1, SameFilesKept DEF TextInv
<1>3. CASE NextIntegration(p)
  BY <1>1, <1>2, <1>3, NextText
<1>4. CASE Continue(p, "open") /\ UNCHANGED plan /\ file[k] = plan[p].original
  <2>1. k \in KindSet /\ command[p] = "install"
    BY <1>1, StepFacts DEF RunningTyped
  <2>2. at'[p] = "open" /\ Kind(p)' = k /\ command' = command
    BY <1>4, ContinueText
  <2>3. PlanKept(p, k)'
    BY <1>1, <1>4, <2>1, <2>2 DEF PlanKept, HasRead, Changing, Writing, TextInv, FilesKept
  <2>4. TemporaryKept(p, k)' /\ BlocksGo(p, k)'
    BY <2>1, <2>2 DEF TemporaryKept, BlocksGo, Filling
  <2>5. QED
    BY <1>2, <2>2, <2>3, <2>4 DEF TextInv
<1>5. QED
  BY <1>1, <1>3, <1>4

\* A step in the middle of a rewrite that moves no file into place.
LEMMA TemporaryText ==
    ASSUME NEW p \in Processes, TypeInv, TextInv(p), NEW step, Continue(p, step),
           UNCHANGED <<file, own, raced, plan>>,
           at[p] \in Changing, step \in Changing, step \in Writing => at[p] \in Writing,
           TemporaryKept(p, Kind(p))'
    PROVE  TextInv(p)'
<1> DEFINE k == Kind(p)
<1>1. at'[p] = step /\ Kind(p)' = k /\ command' = command
  BY ContinueText
<1>2. /\ step \notin {"plan", "check", "unlink"} /\ at[p] \notin {"plan", "check", "unlink"}
  BY DEF Changing, Writing, Saving
<1>3. PlanKept(p, k)'
  BY <1>1, <1>2 DEF PlanKept, HasRead, TextInv
<1>4. BlocksGo(p, k)'
  BY <1>1, <1>2 DEF BlocksGo, TextInv
<1>5. QED
  BY <1>1, <1>3, <1>4, SameFilesKept DEF TextInv

LEMMA TemporariesText ==
    ASSUME NEW p \in Processes, TypeInv, TextInv(p),
           Open(p) \/ Fill(p) \/ OpenSidecar(p) \/ FillSidecar(p)
    PROVE  TextInv(p)'
<1>1. CASE Open(p)
  <2> DEFINE step == IF at[p] = "open" THEN "fill" ELSE "undo_fill"
  <2>1. /\ at[p] \in {"open", "undo_open"} /\ Continue(p, step)
        /\ UNCHANGED <<file, own, raced, plan>> /\ handle'[p] = "tmp"
    BY <1>1 DEF Open, userVars, TypeInv, CommandsTyped
  <2>2. /\ at[p] \in Changing /\ step \in Changing /\ (step \in Writing => at[p] \in Writing)
        /\ step \in Filling
    BY <2>1 DEF Changing, Writing, Filling
  <2> HIDE DEF step
  <2>3. at'[p] = step
    BY <2>1, ContinueText
  <2>4. TemporaryKept(p, Kind(p))'
    BY <2>1, <2>2, <2>3 DEF TemporaryKept, Filling
  <2>5. QED
    BY <2>1, <2>2, <2>4, TemporaryText
<1>2. CASE Fill(p)
  <2> DEFINE step == IF at[p] = "fill" THEN "replace" ELSE "undo_replace"
             content == IF at[p] = "fill" THEN plan[p].desired ELSE plan[p].original
             k == Kind(p)
  <2>1. at[p] \in Filling /\ Running(p) /\ handle[p] = "tmp"
    BY <1>2 DEF Fill, Running, Steps, TextInv, TemporaryKept
  <2>2. /\ Continue(p, step) /\ UNCHANGED <<file, own, raced, plan>>
        /\ fileTmp' = [fileTmp EXCEPT ![k] = {content}]
    BY <1>2, <2>1 DEF Fill, userVars
  <2>3. fileTmp'[k] = {content}
    <3>1. k \in KindSet /\ DOMAIN fileTmp = KindSet
      BY <2>1, StepFacts DEF DiskTyped
    <3> HIDE DEF k, content
    <3>2. QED
      BY <2>2, <3>1
  <2>4. /\ at[p] \in Changing /\ step \in Changing /\ (step \in Writing => at[p] \in Writing)
        /\ step = "replace" => content = plan[p].desired
        /\ step = "undo_replace" => content = plan[p].original
        /\ step \in {"replace", "undo_replace"}
    BY <2>1 DEF Changing, Writing, Filling
  <2> HIDE DEF step, content
  <2>5. at'[p] = step /\ Kind(p)' = k
    BY <2>2, ContinueText
  <2>6. TemporaryKept(p, k)'
    BY <2>2, <2>3, <2>4, <2>5 DEF TemporaryKept, Filling
  <2>7. QED
    BY <2>2, <2>4, <2>5, <2>6, TemporaryText
<1>3. CASE OpenSidecar(p)
  <2>1. /\ at[p] = "open_sidecar" /\ Continue(p, "fill_sidecar")
        /\ UNCHANGED <<file, own, raced, plan>> /\ handle'[p] = "tmp"
    BY <1>3 DEF OpenSidecar, userVars, TypeInv, CommandsTyped
  <2>2. at'[p] = "fill_sidecar"
    BY <2>1, ContinueText
  <2>3. TemporaryKept(p, Kind(p))'
    BY <2>1, <2>2 DEF TemporaryKept
  <2>4. QED
    BY <2>1, <2>3, TemporaryText DEF Changing, Writing, Saving
<1>4. CASE FillSidecar(p)
  <2>1. /\ at[p] = "fill_sidecar" /\ Continue(p, "replace_sidecar")
        /\ UNCHANGED <<file, own, raced, plan>>
    BY <1>4 DEF FillSidecar, userVars
  <2>2. at'[p] = "replace_sidecar"
    BY <2>1, ContinueText
  <2>3. TemporaryKept(p, Kind(p))'
    BY <2>2 DEF TemporaryKept, Filling
  <2>4. QED
    BY <2>1, <2>3, TemporaryText DEF Changing, Writing, Saving
<1>5. QED
  BY <1>1, <1>2, <1>3, <1>4

\* The rename of what a rewrite, or its undo, has written.
LEMMA MovedKept ==
    ASSUME NEW k \in KindSet, DiskTyped, FilesKept, UNCHANGED <<own, raced>>, NEW c,
           file' = [file EXCEPT ![k] = c], Tidy(k, c),
           ~raced[k] => Outside(k, c) = Outside(k, own[k])
    PROVE  FilesKept' /\ file'[k] = c
<1>1. file'[k] = c /\ \A j \in KindSet \ {k} : file'[j] = file[j]
  BY DEF DiskTyped
<1>2. QED
  BY <1>1 DEF FilesKept

LEMMA ReplaceText ==
    ASSUME NEW p \in Processes, TypeInv, TextInv(p), Replace(p)
    PROVE  TextInv(p)'
<1> DEFINE k == Kind(p)
           step == IF command[p] = "install" THEN "open_sidecar" ELSE "unlink"
<1>1. /\ at[p] = "replace" /\ Running(p) /\ Continue(p, step)
      /\ file' = [file EXCEPT ![k] = plan[p].desired]
      /\ UNCHANGED <<own, raced, plan>>
  BY DEF Replace, Running, Steps, TextInv, TemporaryKept
<1>2. k \in KindSet /\ DiskTyped
  BY <1>1, StepFacts
<1>3. FilesKept' /\ file'[k] = plan[p].desired
  <2>1. /\ Tidy(k, plan[p].desired)
        /\ ~raced[k] => Outside(k, plan[p].desired) = Outside(k, own[k])
    BY <1>1 DEF TextInv, PlanKept, Writing
  <2> HIDE DEF k
  <2>2. QED
    BY <1>1, <1>2, <2>1, MovedKept DEF TextInv
<1>4. step \in {"open_sidecar", "unlink"} /\ (step = "unlink" => command[p] # "install")
  OBVIOUS
<1> HIDE DEF step
<1>5. at'[p] = step /\ Kind(p)' = k /\ command' = command
  BY <1>1, ContinueText
<1>6. PlanKept(p, k)'
  BY <1>1, <1>4, <1>5 DEF PlanKept, HasRead, Changing, Writing, Saving, TextInv
<1>7. TemporaryKept(p, k)'
  BY <1>4, <1>5 DEF TemporaryKept, Filling
<1>8. BlocksGo(p, k)'
  BY <1>1, <1>3, <1>4, <1>5 DEF BlocksGo, Writing, TextInv
<1>9. QED
  BY <1>3, <1>5, <1>6, <1>7, <1>8 DEF TextInv

LEMMA UndoReplaceText ==
    ASSUME NEW p \in Processes, TypeInv, TextInv(p), UndoReplace(p)
    PROVE  TextInv(p)'
<1> DEFINE k == Kind(p)
<1>1. /\ at[p] = "undo_replace" /\ Running(p) /\ Continue(p, "undo_unlink")
      /\ file' = [file EXCEPT ![k] = plan[p].original]
      /\ UNCHANGED <<own, raced, plan>>
  BY DEF UndoReplace, Running, Steps, TextInv, TemporaryKept, userVars
<1>2. k \in KindSet /\ DiskTyped /\ command[p] = "install"
  BY <1>1, StepFacts DEF RunningTyped, Undoing
<1>3. FilesKept'
  <2>1. /\ Tidy(k, plan[p].original)
        /\ ~raced[k] => Outside(k, plan[p].original) = Outside(k, own[k])
    BY <1>1, <1>2 DEF TextInv, PlanKept, HasRead, Changing
  <2> HIDE DEF k
  <2>2. QED
    BY <1>1, <1>2, <2>1, MovedKept DEF TextInv
<1>4. at'[p] = "undo_unlink" /\ Kind(p)' = k /\ command' = command
  BY <1>1, ContinueText
<1>5. (PlanKept(p, Kind(p)) /\ TemporaryKept(p, Kind(p)) /\ BlocksGo(p, Kind(p)))'
  BY <1>4 DEF PlanKept, TemporaryKept, BlocksGo, HasRead, Changing, Writing, Saving, Filling
<1>6. QED
  BY <1>3, <1>5 DEF TextInv

\* A step that ends an integration and moves no configuration file.
LEMMA LeavingText ==
    ASSUME NEW p \in Processes, TypeInv, TextInv(p),
           ReplaceSidecar(p) \/ UndoUnlink(p) \/ Unlink(p)
    PROVE  TextInv(p)'
<1>1. /\ Running(p) /\ (NextIntegration(p) \/ End(p)) /\ UNCHANGED <<file, own, raced>>
  BY DEF ReplaceSidecar, UndoUnlink, Unlink, Running, Steps, userVars
<1>2. QED
  BY <1>1, SameFilesKept, NextText DEF TextInv

LEMMA FailsText ==
    ASSUME NEW p \in Processes, TypeInv, TextInv(p), Fails(p) \/ Kill(p)
    PROVE  TextInv(p)'
<1>1. /\ Running(p) /\ UNCHANGED <<file, own, raced>>
      /\ \/ End(p)
         \/ /\ at[p] \in Writing \cup Saving /\ Continue(p, "undo_open") /\ UNCHANGED plan
  BY DEF Fails, Kill, Writing, Saving
<1>2. CASE End(p)
  BY <1>1, <1>2, SameFilesKept, NextText DEF TextInv
<1>3. CASE at[p] \in Writing \cup Saving /\ Continue(p, "undo_open") /\ UNCHANGED plan
  <2>1. at'[p] = "undo_open"
    BY <1>3, ContinueText
  <2>2. TemporaryKept(p, Kind(p))'
    BY <2>1 DEF TemporaryKept, Filling
  <2>3. QED
    BY <1>1, <1>3, <2>2, TemporaryText DEF Changing, Writing
<1>4. QED
  BY <1>1, <1>2, <1>3

LEMMA PlanRemovalText ==
    ASSUME NEW p \in Processes, TypeInv, TextInv(p), PlanRemoval(p)
    PROVE  TextInv(p)'
<1> DEFINE k == Kind(p)
           r == IF k = "codex" THEN RemoveCodex(file[k], plan[p].sidecar)
                               ELSE RemoveEnv(plan[p].original, sidecar[k])
<1>1. /\ at[p] = "plan" /\ command[p] = "uninstall" /\ Running(p)
      /\ UNCHANGED <<file, own, raced>>
      /\ \/ NextIntegration(p)
         \/ r.do = "forget" /\ Continue(p, "unlink") /\ UNCHANGED plan
         \/ /\ Continue(p, "open")
            /\ \E c \in r.desired : plan' = [plan EXCEPT ![p].desired = c]
  BY DEF PlanRemoval, Running, Steps, diskVars, userVars
<1>2. /\ k \in KindSet /\ RunningTyped(p) /\ CommandTyped(p) /\ CommandsTyped
      /\ file[k] \in Content(k) /\ SidecarTyped(k, plan[p].sidecar)
  BY <1>1, StepFacts DEF RunningTyped
<1>3. FilesKept'
  BY <1>1, SameFilesKept DEF TextInv
<1>4. k = "openai_env" =>
         /\ plan[p].original \in EnvFile /\ OneBlock(plan[p].original)
         /\ ~raced[k] => plan[p].original = file[k]
  <2>1. SUFFICES ASSUME k = "openai_env"
        PROVE  /\ plan[p].original \in EnvFile /\ OneBlock(plan[p].original)
               /\ ~raced[k] => plan[p].original = file[k]
    OBVIOUS
  <2>2. ~ReadsSidecarFirst(p)
    BY <2>1 DEF ReadsSidecarFirst
  <2>3. plan[p].original \in EnvFile
    BY <1>1, <1>2, <2>1, <2>2 DEF RunningTyped, Content
  <2>4. Tidy(k, plan[p].original)
    BY <1>1, <2>2 DEF TextInv, PlanKept, HasRead
  <2>5. ~raced[k] => plan[p].original = file[k]
    BY <1>1, <2>1 DEF TextInv, BlocksGo
  <2>6. QED
    BY <2>1, <2>3, <2>4, <2>5 DEF Tidy
<1>5. CASE NextIntegration(p)
  BY <1>1, <1>3, <1>5, NextText
<1>6. CASE r.do = "forget" /\ Continue(p, "unlink") /\ UNCHANGED plan
  <2>1. at'[p] = "unlink" /\ Kind(p)' = k /\ command' = command
    BY <1>6, ContinueText
  <2>2. k = "openai_env" => Blocks(plan[p].original) = {}
    BY <1>6 DEF RemoveEnv, Write
  <2>3. BlocksGo(p, k)'
    BY <1>1, <1>4, <2>1, <2>2 DEF BlocksGo, Writing
  <2>4. PlanKept(p, k)' /\ TemporaryKept(p, k)'
    BY <2>1 DEF PlanKept, TemporaryKept, HasRead, Changing, Writing, Saving, Filling
  <2>5. QED
    BY <1>3, <2>1, <2>3, <2>4 DEF TextInv
<1>7. CASE /\ Continue(p, "open")
           /\ \E c \in r.desired : plan' = [plan EXCEPT ![p].desired = c]
  <2>1. PICK c \in r.desired : plan' = [plan EXCEPT ![p].desired = c]
    BY <1>7
  <2>2. /\ Tidy(k, c) /\ (k = "openai_env" => Blocks(c) = {})
        /\ ~raced[k] => Outside(k, c) = Outside(k, own[k])
    <3>1. CASE k = "codex"
      <4>1. OutsideCodex(c) = OutsideCodex(file[k])
        BY <1>2, <2>1, <3>1, RemovedCodexTyped DEF Content
      <4>2. QED
        BY <1>2, <3>1, <4>1 DEF Tidy, Outside, TextInv, FilesKept
    <3>2. CASE k = "openai_env"
      <4>1. OutsideEnv(c) = OutsideEnv(plan[p].original) /\ Blocks(c) = {}
        BY <1>4, <2>1, <3>2, RemovedEnvTyped
      <4>2. QED
        BY <1>2, <1>4, <3>2, <4>1 DEF Tidy, OneBlock, Outside, TextInv, FilesKept
    <3>3. QED
      BY <1>2, <3>1, <3>2, TheKinds
  <2>3. plan'[p].desired = c
    BY <1>2, <2>1 DEF CommandsTyped, CommandTyped
  <2>4. at'[p] = "open" /\ Kind(p)' = k /\ command' = command
    BY <1>7, ContinueText
  <2>5. PlanKept(p, k)'
    BY <1>1, <2>2, <2>3, <2>4 DEF PlanKept, HasRead, Writing
  <2>6. BlocksGo(p, k)' /\ TemporaryKept(p, k)'
    BY <2>2, <2>3, <2>4 DEF BlocksGo, TemporaryKept, Filling
  <2>7. QED
    BY <1>3, <2>4, <2>5, <2>6 DEF TextInv
<1>8. QED
  BY <1>1, <1>5, <1>6, <1>7

\* A user who saves a .env adds no block to it.
EditsAddNoBlock ==
    \A c \in EnvFile : \A d \in EditsOf("openai_env", c) :
        /\ Blocks(c) = {} => Blocks(d) = {}
        /\ OneBlock(c) => OneBlock(d)

LEMMA EditText ==
    ASSUME EditsAreFiles, EditsAddNoBlock, NEW p \in Processes, TypeInv, TextInv(p),
           NEW j \in KindSet, NEW c \in EditsOf(j, file[j]), Edit(j, c)
    PROVE  TextInv(p)'
<1> DEFINE k == Kind(p)
<1>1. /\ file' = [file EXCEPT ![j] = c] /\ own' = [own EXCEPT ![j] = WithoutToken(j, c)]
      /\ raced' = [raced EXCEPT ![j] = @ \/ \E q \in Processes : Rewrites(q, j)]
      /\ UNCHANGED <<fileTmp, handle, procVars>>
  BY DEF Edit
<1>2. /\ file[j] \in Content(j) /\ own[j] \in Content(j)
      /\ DOMAIN file = KindSet /\ DOMAIN own = KindSet /\ DOMAIN raced = KindSet
  BY DEF TypeInv, DiskTyped, UserTyped
<1>3. /\ file'[j] = c /\ own'[j] = WithoutToken(j, c)
      /\ raced'[j] <=> raced[j] \/ \E q \in Processes : Rewrites(q, j)
      /\ \A i \in KindSet \ {j} : file'[i] = file[i] /\ own'[i] = own[i] /\ raced'[i] = raced[i]
  BY <1>1, <1>2
<1>4. c \in Content(j)
  BY <1>2 DEF EditsAreFiles
<1>5. Outside(j, own'[j]) = Outside(j, file'[j])
  BY <1>2, <1>3, <1>4, WithoutTokenKeeps
<1>6. Tidy(j, c) /\ (j = "openai_env" /\ Blocks(file[j]) = {} => Blocks(c) = {})
  BY <1>2 DEF EditsAddNoBlock, Content, Tidy, TextInv, FilesKept
<1>7. FilesKept'
  BY <1>3, <1>5, <1>6 DEF FilesKept, TextInv
<1>8. /\ at' = at /\ plan' = plan /\ command' = command /\ Kind(p)' = k
      /\ ReadsSidecarFirst(p)' <=> ReadsSidecarFirst(p)
  BY <1>1 DEF procVars, Kind, ReadsSidecarFirst
<1>9. TemporaryKept(p, k)'
  BY <1>1, <1>8 DEF TemporaryKept, TextInv
<1>10. CASE ~Running(p)
  <2>1. at[p] \notin Steps
    BY <1>10 DEF Running
  <2>2. PlanKept(p, k)' /\ BlocksGo(p, k)'
    BY <1>8, <2>1 DEF PlanKept, BlocksGo, HasRead, Changing, Writing, Saving, Steps, Filling
  <2>3. QED
    BY <1>7, <1>8, <1>9, <2>2 DEF TextInv
<1>11. CASE Running(p)
  <2>1. k \in KindSet
    BY <1>11, StepFacts
  <2>2. raced[k] => raced'[k]
    BY <1>3, <2>1
  <2>3. j = k /\ at[p] \in Changing => raced'[k]
    <3>1. j = k /\ at[p] \in Changing => Rewrites(p, j)
      BY <1>11 DEF Rewrites, Changing, Writing, Saving, Filling
    <3>2. QED
      BY <1>3, <3>1
  <2>4. PlanKept(p, k)'
    <3>1. HasRead(p)' <=> HasRead(p)
      BY <1>8 DEF HasRead
    <3>2. j # k => own'[k] = own[k]
      BY <1>3, <2>1
    <3>3. at[p] \in Writing => at[p] \in Changing
      BY DEF Changing
    <3>4. QED
      BY <1>8, <2>2, <2>3, <3>1, <3>2, <3>3 DEF PlanKept, TextInv
  <2>5. BlocksGo(p, k)'
    <3>1. SUFFICES ASSUME k = "openai_env", command[p] = "uninstall"
          PROVE  /\ at[p] = "plan" /\ ~raced'[k] => plan[p].original = file'[k]
                 /\ at[p] \in Writing => Blocks(plan[p].desired) = {}
                 /\ at[p] = "unlink" /\ ~raced'[k] => Blocks(file'[k]) = {}
      BY <1>8 DEF BlocksGo
    <3>2. j = k /\ at[p] = "plan" => Rewrites(p, j)
      BY <1>11, <3>1 DEF Rewrites
    <3>3. at[p] = "plan" /\ ~raced'[k] => plan[p].original = file'[k]
      BY <1>3, <2>1, <2>2, <3>1, <3>2 DEF BlocksGo, TextInv
    <3>4. at[p] \in Writing => Blocks(plan[p].desired) = {}
      BY <3>1 DEF BlocksGo, TextInv
    <3>5. at[p] = "unlink" /\ ~raced'[k] => Blocks(file'[k]) = {}
      BY <1>3, <1>6, <2>1, <2>2, <3>1 DEF BlocksGo, TextInv
    <3>6. QED
      BY <3>3, <3>4, <3>5
  <2>6. QED
    BY <1>7, <1>8, <1>9, <2>4, <2>5 DEF TextInv
<1>12. QED
  BY <1>10, <1>11

LEMMA TextStep ==
    ASSUME EditsAreFiles, EditsAddNoBlock, NEW p, Processes = {p}, TypeInv, TextInv(p), [Next]_vars
    PROVE  TextInv(p)'
<1>1. ASSUME NEW c \in {"install", "uninstall"}, NEW u \in Urls, Start(p, c, u)
      PROVE  TextInv(p)'
  BY <1>1, StartText
<1>2. ASSUME Step(p) PROVE TextInv(p)'
  BY <1>2, ReadText, PlanInstallText, CheckText, TemporariesText, ReplaceText, UndoReplaceText,
     LeavingText, PlanRemovalText, FailsText DEF Step
<1>3. ASSUME NEW k \in KindSet, NEW c \in EditsOf(k, file[k]), Edit(k, c) PROVE TextInv(p)'
  BY <1>3, EditText
<1>4. CASE UNCHANGED vars
  BY <1>4 DEF vars, diskVars, procVars, userVars, TextInv, FilesKept, PlanKept, TemporaryKept, BlocksGo,
              HasRead, Kind, ReadsSidecarFirst
<1>5. QED
  BY <1>1, <1>2, <1>3, <1>4 DEF Next

LEMMA TextInvariant ==
    ASSUME EditsAreFiles, EditsAddNoBlock, NEW p, Processes = {p}
    PROVE  Spec => [](TypeInv /\ TextInv(p))
<1>1. Init => TypeInv /\ TextInv(p)
  BY TypesAtStart, TextAtStart
<1>2. TypeInv /\ TextInv(p) /\ [Next]_vars => (TypeInv /\ TextInv(p))'
  BY TypesStep, TextStep
<1>3. QED
  BY <1>1, <1>2, PTL DEF Spec

\* THREAT-MODEL "edits are bounded": one command at a time, whatever fails and
\* wherever it is killed, both files say what the user last wrote outside the
\* part TOKEN manages.
THEOREM OneCommandKeepsUserText ==
    ASSUME EditsAreFiles, EditsAddNoBlock, NEW p, Processes = {p}
    PROVE  Spec => []UserTextKept
<1>1. TypeInv /\ TextInv(p) => UserTextKept
  BY TheKinds DEF TextInv, FilesKept, Outside, UserTextKept
<1>2. QED
  BY <1>1, TextInvariant, PTL

\* SECURITY "byte-equivalent restoration": with one command at a time, when an
\* uninstall comes to remove a sidecar, the Codex config is the user's to the
\* byte, and the .env has lost its block and says what the user last wrote.
THEOREM OneUninstallRestores ==
    ASSUME EditsAreFiles, EditsAddNoBlock, EditsAddNoGateway, NEW p, Processes = {p}
    PROVE  Spec => []UninstallRestores
<1>1. UrlInv(p) /\ TextInv(p) => (at[p] = "unlink" => EnvRestored(p))
  <2> SUFFICES ASSUME UrlInv(p), TextInv(p), at[p] = "unlink", ~raced["openai_env"],
                      Kind(p) = "openai_env"
               PROVE  /\ OutsideEnv(file["openai_env"]) = OutsideEnv(own["openai_env"])
                      /\ Blocks(file["openai_env"]) = {}
    BY DEF EnvRestored
  <2>1. OutsideEnv(file["openai_env"]) = OutsideEnv(own["openai_env"])
    BY TheKinds DEF TextInv, FilesKept, Outside
  <2>2. command[p] = "uninstall"
    BY DEF UrlInv, DriftInv, Shape
  <2>3. QED
    BY <2>1, <2>2 DEF TextInv, BlocksGo
<1>2. (at[p] = "unlink" => CodexRestored(p)) /\ (at[p] = "unlink" => EnvRestored(p))
        => UninstallRestores
  BY DEF UninstallRestores
<1>3. QED
  BY <1>1, <1>2, UrlInvariant, TextInvariant, UninstallRestoresCodex, PTL
=============================================================================
