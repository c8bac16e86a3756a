------------------------- MODULE DistributionProofs -------------------------
(***************************************************************************)
(* A bundle that verifies tells the truth, for any trees, commits, edits,  *)
(* tools, number of attempts and number of changed files.                  *)
(*                                                                         *)
(* TruthfulBundle is not inductive: it says nothing of a bundle that is    *)
(* not complete.  The invariant follows a bundle through its build: what   *)
(* each file in it is made of, and which of its records exist at each step.*)
(* The publication follows it further: what is published was qualified and,*)
(* when one archive at most is changed, is the tagged runtime.             *)
(***************************************************************************)
EXTENDS Distribution, TLAPS

CopySteps == {"copy_rest", "copy_runtime", "export"}
MakeSteps == {"build_sdist", "build_wheel", "pack_sdist", "rename_sdist", "inspect", "write_sums"}
LateSteps == {"write_provenance", "verify_build", "compare", "verify", "audit", "upload",
              "success", "failed"} \cup DOMAIN Installs

Fields == {"kind", "tree", "tools", "times"}

\* A file of bundle b is cut short, or an archive; an unchanged archive holds
\* the candidate tree.
FileOf(b, file) ==
    \/ file = Torn
    \/ /\ file = File(file.content)
       /\ DOMAIN file.content = Fields
       /\ file.content = [f \in Fields |-> file.content[f]]
       /\ file.content.tools # "damaged" => file.content.tree = candidate[b].content

FilesOf(b) == \A k \in DOMAIN dist[b] : FileOf(b, dist[b][k])

\* The manifest describes the candidate; without one there are no files.
ManifestOf(b) ==
    IF manifest[b] = NoFile THEN dist[b] = NoFiles
    ELSE /\ manifest[b].content.payload = candidate[b].content
         /\ manifest[b].content.runtime = candidate[b].content.runtime

\* The provenance holds what was inspected, and what the manifest says.
ProvenanceOf(b) ==
    provenance[b].is = "written" =>
        /\ manifest[b] # NoFile
        /\ inspected[b] = File(provenance[b].content.artifacts)
        /\ provenance[b].content.payload = candidate[b].content
        /\ provenance[b].content.source = candidate[b].content.runtime

Blank(b) == manifest[b] = NoFile /\ dist[b] = NoFiles /\ provenance[b] = NoFile

\* What exists of the bundle that is being made.
Progress ==
    /\ builder \in Builds /\ step \in CopySteps \cup MakeSteps \cup LateSteps
    /\ builder = "a" => Blank("b")
    /\ step \in CopySteps => Blank(builder)
    /\ step \in MakeSteps => manifest[builder] # NoFile /\ provenance[builder] = NoFile
    /\ step = "build_wheel" => "sdist" \in DOMAIN dist[builder]
    /\ step = "pack_sdist" => {"sdist", "wheel"} \subseteq DOMAIN dist[builder]
    /\ step = "rename_sdist" => {"sdist", "wheel", "sdist.tmp"} \subseteq DOMAIN dist[builder]
    /\ step \in {"write_sums", "write_provenance"} =>
          /\ manifest[builder] # NoFile
          /\ inspected[builder] = File(inspected[builder].content)

Functions ==
    /\ DOMAIN candidate = Builds /\ DOMAIN manifest = Builds /\ DOMAIN dist = Builds
    /\ DOMAIN inspected = Builds /\ DOMAIN provenance = Builds

DistInv ==
    /\ Functions /\ Progress
    /\ \A b \in Builds : FilesOf(b) /\ ManifestOf(b) /\ ProvenanceOf(b)
-----------------------------------------------------------------------------
(* Facts about files *)

LEMMA FilesDiffer ==
    /\ NoFile # Torn
    /\ NoFile.is # "written" /\ Torn.is # "written"
    /\ \A c : /\ File(c).is = "written" /\ File(c).content = c
              /\ File(c) # NoFile /\ File(c) # Torn
<1>1. QED
  BY DEF NoFile, Torn, File

LEMMA NoFilesHasNone == DOMAIN NoFiles = {}
<1>1. QED
  BY DEF NoFiles

\* An archive holds the tree it is made of.
LEMMA ArchiveIsFileOf ==
    ASSUME NEW b \in Builds, NEW kind, NEW tools, NEW times
    PROVE  FileOf(b, File(Archive(kind, candidate[b].content, tools, times)))
<1> DEFINE archive == Archive(kind, candidate[b].content, tools, times)
<1>1. /\ DOMAIN archive = Fields /\ archive = [f \in Fields |-> archive[f]]
      /\ archive.tree = candidate[b].content
  BY DEF Archive, Fields
<1>2. File(archive) = File(File(archive).content) /\ File(archive).content = archive
  BY FilesDiffer
<1>3. QED
  BY <1>1, <1>2 DEF FileOf

\* Repacking an archive leaves its tree, and its damage.
LEMMA RepackedIsFileOf ==
    ASSUME NEW b \in Builds, NEW file, FileOf(b, file), Readable(file)
    PROVE  FileOf(b, Repacked(file))
<1> DEFINE content == [file.content EXCEPT !.times = "epoch"]
<1>1. DOMAIN file.content = Fields
      /\ (file.content.tools # "damaged" => file.content.tree = candidate[b].content)
  BY FilesDiffer DEF FileOf, Readable
<1>2. /\ DOMAIN content = Fields /\ content = [f \in Fields |-> content[f]]
      /\ content.tree = file.content.tree /\ content.tools = file.content.tools
  BY <1>1 DEF Fields
<1>3. Repacked(file) = File(content) /\ File(content).content = content
  BY FilesDiffer DEF Repacked
<1>4. QED
  BY <1>1, <1>2, <1>3 DEF FileOf

\* If nothing of the records of b changes, they still agree.
LEMMA RecordsKept ==
    ASSUME NEW b \in Builds,
           candidate'[b] = candidate[b], manifest'[b] = manifest[b], dist'[b] = dist[b],
           inspected'[b] = inspected[b], provenance'[b] = provenance[b],
           FilesOf(b), ManifestOf(b), ProvenanceOf(b)
    PROVE  FilesOf(b)' /\ ManifestOf(b)' /\ ProvenanceOf(b)'
<1>1. QED
  BY DEF FilesOf, FileOf, ManifestOf, ProvenanceOf

\* Nothing has to be said of a bundle of which nothing exists.
LEMMA BlankIsFine ==
    ASSUME NEW b \in Builds, Blank(b)
    PROVE  FilesOf(b) /\ ManifestOf(b) /\ ProvenanceOf(b)
<1>1. QED
  BY FilesDiffer, NoFilesHasNone DEF Blank, FilesOf, ManifestOf, ProvenanceOf
-----------------------------------------------------------------------------
(* The steps of a build *)

LEMMA DistStart == DistInit => DistInv
<1> SUFFICES ASSUME DistInit PROVE DistInv
  OBVIOUS
<1>1. Functions
  BY DEF DistInit, Functions
<1>2. \A b \in Builds : Blank(b)
  BY DEF DistInit, Blank
<1>3. builder = "a" /\ step = "copy_rest"
  BY DEF DistInit
<1>4. Progress
  BY <1>2, <1>3 DEF Progress, Builds, CopySteps, MakeSteps
<1>5. QED
  BY <1>1, <1>2, <1>4, BlankIsFine DEF DistInv

\* CopyRest, CopyRuntime: only the candidate of a blank bundle changes.
LEMMA CopyKeeps ==
    ASSUME DistInv, CopyRest \/ CopyRuntime, UNCHANGED builder
    PROVE  DistInv'
<1>1. /\ builder \in Builds /\ Blank(builder) /\ step' \in {"copy_runtime", "export"}
      /\ UNCHANGED <<manifest, dist, inspected, provenance>>
  BY DEF DistInv, Progress, CopyRest, CopyRuntime, Goto, CopySteps
<1>2. \A b \in Builds \ {builder} : candidate'[b] = candidate[b]
  BY DEF CopyRest, CopyRuntime, DistInv, Functions
<1>3. Functions'
  BY DEF CopyRest, CopyRuntime, DistInv, Functions
<1>4. Blank(builder)'
  BY <1>1 DEF Blank
<1>5. Progress'
  BY <1>1, <1>4 DEF DistInv, Progress, Blank, CopySteps, MakeSteps
<1>6. ASSUME NEW b \in Builds PROVE FilesOf(b)' /\ ManifestOf(b)' /\ ProvenanceOf(b)'
  <2>1. CASE b = builder
    BY <1>1, <2>1, FilesDiffer, NoFilesHasNone DEF Blank, FilesOf, ManifestOf, ProvenanceOf
  <2>2. CASE b # builder
    BY <1>1, <1>2, <2>2, RecordsKept DEF DistInv
  <2>3. QED
    BY <2>1, <2>2
<1>7. QED
  BY <1>3, <1>5, <1>6 DEF DistInv

LEMMA ExportKeeps ==
    ASSUME DistInv, Export, UNCHANGED builder
    PROVE  DistInv'
<1>1. builder \in Builds /\ Blank(builder) /\ UNCHANGED <<candidate, dist, inspected, provenance>>
  BY DEF DistInv, Progress, Export, CopySteps
<1>2. CASE UNCHANGED manifest /\ step' = "failed"
  <2>1. Functions' /\ Progress'
    BY <1>1, <1>2 DEF DistInv, Functions, Progress, Blank, CopySteps, MakeSteps, LateSteps
  <2>2. QED
    BY <1>1, <1>2, <2>1, RecordsKept DEF DistInv
<1>3. CASE ExportChecks(candidate[builder].content)
  <2> DEFINE tree == candidate[builder].content
             record == [label |-> ReleaseLabel, runtime |-> tree.runtime, payload |-> tree]
  <2>1. step' = "build_sdist" /\ manifest' = [manifest EXCEPT ![builder] = File(record)]
    BY <1>3 DEF Export
  <2>2. manifest'[builder] # NoFile /\ manifest'[builder].content = record
    BY <1>1, <2>1, FilesDiffer DEF DistInv, Functions
  <2>3. \A b \in Builds \ {builder} : manifest'[b] = manifest[b]
    BY <2>1 DEF DistInv, Functions
  <2>4. Functions'
    BY <1>1, <2>1 DEF DistInv, Functions
  <2>5. Progress'
    BY <1>1, <2>1, <2>2, <2>3 DEF DistInv, Progress, Blank, Builds, CopySteps, MakeSteps
  <2>6. ASSUME NEW b \in Builds PROVE FilesOf(b)' /\ ManifestOf(b)' /\ ProvenanceOf(b)'
    <3>1. CASE b = builder
      <4>1. FilesOf(b)'
        BY <1>1, <3>1, NoFilesHasNone DEF Blank, FilesOf
      <4>2. ManifestOf(b)'
        BY <1>1, <2>2, <3>1 DEF ManifestOf
      <4>3. ProvenanceOf(b)'
        BY <1>1, <3>1, FilesDiffer DEF Blank, ProvenanceOf
      <4>4. QED
        BY <4>1, <4>2, <4>3
    <3>2. CASE b # builder
      BY <1>1, <2>3, <3>2, RecordsKept DEF DistInv
    <3>3. QED
      BY <3>1, <3>2
  <2>7. QED
    BY <2>4, <2>5, <2>6 DEF DistInv
<1>4. QED
  BY <1>2, <1>3 DEF Export

\* A file of the bundle in the making becomes one of its candidate, or is cut short.
LEMMA FilesMade ==
    ASSUME DistInv, UNCHANGED <<candidate, manifest, inspected, provenance>>,
           DOMAIN dist' = Builds, \A b \in Builds \ {builder} : dist'[b] = dist[b],
           manifest[builder] # NoFile,
           \A k \in DOMAIN dist'[builder] : FileOf(builder, dist'[builder][k])
    PROVE  Functions' /\ \A b \in Builds : FilesOf(b)' /\ ManifestOf(b)' /\ ProvenanceOf(b)'
<1>1. Functions'
  BY DEF DistInv, Functions
<1>2. ASSUME NEW b \in Builds PROVE FilesOf(b)' /\ ManifestOf(b)' /\ ProvenanceOf(b)'
  <2>1. CASE b = builder
    BY <2>1 DEF DistInv, FilesOf, FileOf, ManifestOf, ProvenanceOf
  <2>2. CASE b # builder
    BY <2>2, RecordsKept DEF DistInv
  <2>3. QED
    BY <2>1, <2>2
<1>3. QED
  BY <1>1, <1>2

LEMMA WriteDistMakes ==
    ASSUME DistInv, NEW kind, NEW file, WriteDist(kind, file), step \in MakeSteps,
           FileOf(builder, file)
    PROVE  /\ Functions' /\ \A b \in Builds : FilesOf(b)' /\ ManifestOf(b)' /\ ProvenanceOf(b)'
           /\ DOMAIN dist'[builder] = DOMAIN dist[builder] \cup {kind}
<1> DEFINE files == [k \in DOMAIN dist[builder] \cup {kind} |->
                        IF k = kind THEN file ELSE dist[builder][k]]
<1>1. builder \in Builds /\ DOMAIN dist = Builds /\ manifest[builder] # NoFile
  BY DEF DistInv, Functions, Progress
<1>2. dist' = [dist EXCEPT ![builder] = files]
  BY DEF WriteDist
<1>3. dist'[builder] = files /\ DOMAIN dist' = Builds
      /\ \A b \in Builds \ {builder} : dist'[b] = dist[b]
  BY <1>1, <1>2
<1>4. \A k \in DOMAIN files : FileOf(builder, files[k])
  BY <1>1 DEF DistInv, FilesOf
<1>5. QED
  BY <1>1, <1>3, <1>4, FilesMade DEF WriteDist

\* After a step on the files the build is where it is, or has failed.
LEMMA MakeProgress ==
    ASSUME DistInv, step \in MakeSteps, UNCHANGED <<builder, manifest, provenance, inspected>>,
           \A b \in Builds \ {builder} : dist'[b] = dist[b],
           \/ step' = "failed"
           \/ step' = "build_wheel" /\ "sdist" \in DOMAIN dist'[builder]
           \/ step' = "pack_sdist" /\ {"sdist", "wheel"} \subseteq DOMAIN dist'[builder]
           \/ step' = "rename_sdist"
              /\ {"sdist", "wheel", "sdist.tmp"} \subseteq DOMAIN dist'[builder]
           \/ step' = "inspect"
    PROVE  Progress'
<1>1. builder \in Builds /\ manifest[builder] # NoFile /\ provenance[builder] = NoFile
  BY DEF DistInv, Progress
<1>2. builder = "a" => Blank("b")'
  BY DEF DistInv, Progress, Blank, Builds
<1>3. step' \in MakeSteps \cup {"failed"}
  BY DEF MakeSteps
<1>4. step' \notin CopySteps /\ step' \notin {"write_sums", "write_provenance"}
  BY DEF CopySteps
<1>5. QED
  BY <1>1, <1>2, <1>3, <1>4 DEF Progress, MakeSteps, LateSteps

LEMMA BuildSdistKeeps ==
    ASSUME DistInv, BuildSdist, UNCHANGED builder
    PROVE  DistInv'
<1> DEFINE file == File(Archive("sdist", candidate[builder].content, toolchain, builder))
<1>1. step = "build_sdist" /\ step' = "build_wheel" /\ WriteDist("sdist", file)
  BY DEF BuildSdist, Goto
<1>2. builder \in Builds /\ step \in MakeSteps
  BY <1>1 DEF DistInv, Progress, MakeSteps
<1>3. FileOf(builder, file)
  BY <1>2, ArchiveIsFileOf
<1>4. /\ Functions' /\ \A b \in Builds : FilesOf(b)' /\ ManifestOf(b)' /\ ProvenanceOf(b)'
      /\ DOMAIN dist'[builder] = DOMAIN dist[builder] \cup {"sdist"}
  BY <1>1, <1>2, <1>3, WriteDistMakes
<1>5. Progress'
  BY <1>1, <1>2, <1>4, MakeProgress DEF WriteDist, DistInv, Functions
<1>6. QED
  BY <1>4, <1>5 DEF DistInv

LEMMA BuildWheelKeeps ==
    ASSUME DistInv, BuildWheel, UNCHANGED builder
    PROVE  DistInv'
<1> DEFINE file == File(Archive("wheel", candidate[builder].content, toolchain, "epoch"))
<1>1. step = "build_wheel" /\ step' = "pack_sdist" /\ WriteDist("wheel", file)
  BY DEF BuildWheel, Goto
<1>2. builder \in Builds /\ step \in MakeSteps /\ "sdist" \in DOMAIN dist[builder]
  BY <1>1 DEF DistInv, Progress, MakeSteps
<1>3. FileOf(builder, file)
  BY <1>2, ArchiveIsFileOf
<1>4. /\ Functions' /\ \A b \in Builds : FilesOf(b)' /\ ManifestOf(b)' /\ ProvenanceOf(b)'
      /\ DOMAIN dist'[builder] = DOMAIN dist[builder] \cup {"wheel"}
  BY <1>1, <1>2, <1>3, WriteDistMakes
<1>5. Progress'
  BY <1>1, <1>2, <1>4, MakeProgress DEF WriteDist, DistInv, Functions
<1>6. QED
  BY <1>4, <1>5 DEF DistInv

LEMMA PackSdistKeeps ==
    ASSUME DistInv, PackSdist, UNCHANGED builder
    PROVE  DistInv'
<1>1. step = "pack_sdist" /\ builder \in Builds /\ step \in MakeSteps
      /\ {"sdist", "wheel"} \subseteq DOMAIN dist[builder]
  BY DEF PackSdist, DistInv, Progress, MakeSteps
<1>2. CASE Readable(dist[builder]["sdist"])
  <2> DEFINE file == Repacked(dist[builder]["sdist"])
  <2>1. step' = "rename_sdist" /\ WriteDist("sdist.tmp", file)
    BY <1>2 DEF PackSdist
  <2>2. FileOf(builder, file)
    BY <1>1, <1>2, RepackedIsFileOf DEF DistInv, FilesOf
  <2>3. /\ Functions' /\ \A b \in Builds : FilesOf(b)' /\ ManifestOf(b)' /\ ProvenanceOf(b)'
        /\ DOMAIN dist'[builder] = DOMAIN dist[builder] \cup {"sdist.tmp"}
    BY <1>1, <2>1, <2>2, WriteDistMakes
  <2>4. Progress'
    BY <1>1, <2>1, <2>3, MakeProgress DEF WriteDist, DistInv, Functions
  <2>5. QED
    BY <2>3, <2>4 DEF DistInv
<1>3. CASE ~Readable(dist[builder]["sdist"])
  <2>1. step' = "failed" /\ UNCHANGED buildVars
    BY <1>3 DEF PackSdist
  <2>2. Functions' /\ Progress'
    BY <1>1, <2>1, MakeProgress DEF buildVars, DistInv, Functions
  <2>3. QED
    BY <2>1, <2>2, RecordsKept DEF buildVars, DistInv
<1>4. QED
  BY <1>2, <1>3

LEMMA RenameSdistKeeps ==
    ASSUME DistInv, RenameSdist, UNCHANGED builder
    PROVE  DistInv'
<1> DEFINE files == [k \in Kinds |-> IF k = "sdist" THEN dist[builder]["sdist.tmp"]
                                                   ELSE dist[builder][k]]
<1>1. step = "rename_sdist" /\ builder \in Builds /\ step \in MakeSteps /\ step' = "inspect"
      /\ {"sdist", "wheel", "sdist.tmp"} \subseteq DOMAIN dist[builder]
      /\ DOMAIN dist = Builds /\ manifest[builder] # NoFile
  BY DEF RenameSdist, Goto, DistInv, Functions, Progress, MakeSteps
<1>2. dist' = [dist EXCEPT ![builder] = files]
  BY DEF RenameSdist
<1>3. /\ dist'[builder] = files /\ DOMAIN dist' = Builds
      /\ \A b \in Builds \ {builder} : dist'[b] = dist[b]
  BY <1>1, <1>2
<1>4. \A k \in DOMAIN files : FileOf(builder, files[k])
  BY <1>1 DEF DistInv, FilesOf, Kinds
<1>5. Functions' /\ \A b \in Builds : FilesOf(b)' /\ ManifestOf(b)' /\ ProvenanceOf(b)'
  BY <1>1, <1>3, <1>4, FilesMade DEF RenameSdist
<1>6. Progress'
  BY <1>1, <1>3, MakeProgress DEF RenameSdist
<1>7. QED
  BY <1>5, <1>6 DEF DistInv

LEMMA InspectDistKeeps ==
    ASSUME DistInv, InspectDist, UNCHANGED builder
    PROVE  DistInv'
<1>1. step = "inspect" /\ builder \in Builds /\ step \in MakeSteps
      /\ manifest[builder] # NoFile /\ provenance[builder] = NoFile
      /\ UNCHANGED <<candidate, manifest, dist, provenance>>
  BY DEF InspectDist, DistInv, Progress, MakeSteps
<1>2. \A b \in Builds : FilesOf(b)' /\ ManifestOf(b)'
  BY <1>1 DEF DistInv, FilesOf, FileOf, ManifestOf
<1>3. CASE step' = "failed" /\ UNCHANGED inspected
  <2>1. Functions' /\ Progress'
    BY <1>1, <1>3, MakeProgress DEF DistInv, Functions
  <2>2. QED
    BY <1>1, <1>3, <2>1, RecordsKept DEF DistInv
<1>4. CASE /\ step' = "write_sums"
           /\ inspected' = [inspected EXCEPT ![builder] = File(dist[builder])]
  <2>1. /\ inspected'[builder] = File(dist[builder])
        /\ \A b \in Builds \ {builder} : inspected'[b] = inspected[b]
    BY <1>1, <1>4 DEF DistInv, Functions
  <2>2. inspected'[builder] = File(inspected'[builder].content)
    BY <2>1, FilesDiffer
  <2>3. Functions'
    BY <1>1, <1>4 DEF DistInv, Functions
  <2>4. Progress'
    BY <1>1, <1>4, <2>2 DEF DistInv, Progress, Blank, CopySteps, MakeSteps
  <2>5. ASSUME NEW b \in Builds PROVE ProvenanceOf(b)'
    <3>1. CASE b = builder
      BY <1>1, <3>1, FilesDiffer DEF ProvenanceOf
    <3>2. CASE b # builder
      BY <1>1, <2>1, <3>2 DEF DistInv, ProvenanceOf
    <3>3. QED
      BY <3>1, <3>2
  <2>6. QED
    BY <1>2, <2>3, <2>4, <2>5 DEF DistInv
<1>5. QED
  BY <1>3, <1>4 DEF InspectDist

LEMMA WriteSumsKeeps ==
    ASSUME DistInv, WriteSums, UNCHANGED builder
    PROVE  DistInv'
<1>1. step = "write_sums" /\ step' \in {"write_provenance", "failed"}
      /\ UNCHANGED <<candidate, manifest, dist, inspected, provenance>>
  BY DEF WriteSums
<1>2. Functions' /\ Progress'
  BY <1>1 DEF DistInv, Functions, Progress, Blank, CopySteps, MakeSteps, LateSteps
<1>3. QED
  BY <1>1, <1>2, RecordsKept DEF DistInv

LEMMA WriteProvenanceKeeps ==
    ASSUME DistInv, WriteProvenance, UNCHANGED builder
    PROVE  DistInv'
<1> DEFINE record == [label |-> ReleaseLabel, version |-> Normalized,
                      source |-> manifest[builder].content.runtime,
                      candidate |-> manifest[builder].content.runtime,
                      payload |-> manifest[builder].content.payload,
                      artifacts |-> inspected[builder].content]
<1>1. /\ builder \in Builds /\ step' = "verify_build" /\ step = "write_provenance"
      /\ UNCHANGED <<candidate, manifest, dist, inspected>>
      /\ provenance' = [provenance EXCEPT ![builder] = File(record)]
  BY DEF WriteProvenance, Goto, DistInv, Progress
<1>2. manifest[builder] # NoFile /\ inspected[builder] = File(inspected[builder].content)
  BY <1>1 DEF DistInv, Progress
<1>3. /\ provenance'[builder].content = record
      /\ \A b \in Builds \ {builder} : provenance'[b] = provenance[b]
  BY <1>1, FilesDiffer DEF DistInv, Functions
<1>4. Functions'
  BY <1>1 DEF DistInv, Functions
<1>5. Progress'
  BY <1>1, <1>3 DEF DistInv, Progress, Blank, Builds, CopySteps, MakeSteps, LateSteps
<1>6. \A b \in Builds : FilesOf(b)' /\ ManifestOf(b)'
  BY <1>1 DEF DistInv, FilesOf, FileOf, ManifestOf
<1>7. ASSUME NEW b \in Builds PROVE ProvenanceOf(b)'
  <2>1. CASE b = builder
    BY <1>1, <1>2, <1>3, <2>1 DEF DistInv, ManifestOf, ProvenanceOf
  <2>2. CASE b # builder
    BY <1>1, <1>3, <2>2 DEF DistInv, ProvenanceOf
  <2>3. QED
    BY <2>1, <2>2
<1>8. QED
  BY <1>4, <1>5, <1>6, <1>7 DEF DistInv
-----------------------------------------------------------------------------
(* The rest of the run, and what else happens *)

\* Progress says nothing of what is in the files.
LEMMA ProgressKept ==
    ASSUME Progress, UNCHANGED <<builder, step, manifest, inspected, provenance>>,
           \A b \in Builds : /\ DOMAIN dist'[b] = DOMAIN dist[b]
                             /\ dist[b] = NoFiles => dist'[b] = NoFiles
    PROVE  Progress'
<1>1. ASSUME NEW b \in Builds, Blank(b) PROVE Blank(b)'
  BY <1>1 DEF Blank
<1>2. builder \in Builds
  BY DEF Progress
<1>3. /\ (builder = "a" => Blank("b"))'
      /\ (step \in CopySteps => Blank(builder))'
  BY <1>1, <1>2 DEF Progress, Builds
<1>4. /\ (step = "build_wheel" => "sdist" \in DOMAIN dist[builder])'
      /\ (step = "pack_sdist" => {"sdist", "wheel"} \subseteq DOMAIN dist[builder])'
      /\ (step = "rename_sdist" => {"sdist", "wheel", "sdist.tmp"} \subseteq DOMAIN dist[builder])'
  BY <1>2 DEF Progress
<1>5. /\ builder' \in Builds /\ step' \in CopySteps \cup MakeSteps \cup LateSteps
      /\ (step \in MakeSteps => manifest[builder] # NoFile /\ provenance[builder] = NoFile)'
      /\ (step \in {"write_sums", "write_provenance"} =>
             /\ manifest[builder] # NoFile
             /\ inspected[builder] = File(inspected[builder].content))'
  BY DEF Progress
<1>6. QED
  BY <1>3, <1>4, <1>5 DEF Progress

\* Steps that leave the bundles alone: the run goes on after them, or ends.
LEMMA LateStepsKeep ==
    ASSUME DistInv, UNCHANGED <<builder, buildVars>>,
           step' \in LateSteps \ {"write_provenance"} \/ UNCHANGED step
    PROVE  DistInv'
<1>1. Functions'
  BY DEF DistInv, Functions, buildVars
<1>2. ASSUME UNCHANGED step PROVE Progress'
  <2>1. Progress /\ UNCHANGED <<builder, step, manifest, inspected, provenance, dist>>
    BY <1>2 DEF DistInv, buildVars
  <2>2. \A b \in Builds : /\ DOMAIN dist'[b] = DOMAIN dist[b]
                          /\ dist[b] = NoFiles => dist'[b] = NoFiles
    BY <2>1
  <2>3. QED
    BY <2>1, <2>2, ProgressKept
<1>3. ASSUME step' \in LateSteps \ {"write_provenance"} PROVE Progress'
  <2>1. DOMAIN Installs = {"pip_wheel", "pip_sdist", "uv_tool", "upgrade"}
    BY DEF Installs
  <2>2. step' \notin CopySteps \cup MakeSteps
    BY <1>3, <2>1 DEF LateSteps, CopySteps, MakeSteps
  <2>3. step' \notin {"build_wheel", "pack_sdist", "rename_sdist", "write_sums", "write_provenance"}
    BY <1>3, <2>2 DEF MakeSteps
  <2>4. (builder = "a" => Blank("b"))' /\ builder' \in Builds
    BY DEF DistInv, Progress, Blank, buildVars
  <2>5. step' \in CopySteps \cup MakeSteps \cup LateSteps
    BY <1>3
  <2>6. /\ (step \in CopySteps => Blank(builder))'
        /\ (step \in MakeSteps => manifest[builder] # NoFile /\ provenance[builder] = NoFile)'
    BY <2>2
  <2>7. /\ (step = "build_wheel" => "sdist" \in DOMAIN dist[builder])'
        /\ (step = "pack_sdist" => {"sdist", "wheel"} \subseteq DOMAIN dist[builder])'
        /\ (step = "rename_sdist" => {"sdist", "wheel", "sdist.tmp"} \subseteq DOMAIN dist[builder])'
        /\ (step \in {"write_sums", "write_provenance"} =>
              /\ manifest[builder] # NoFile
              /\ inspected[builder] = File(inspected[builder].content))'
    BY <2>3
  <2>8. QED
    BY <2>4, <2>5, <2>6, <2>7 DEF Progress
<1>4. Progress'
  BY <1>2, <1>3
<1>5. QED
  BY <1>1, <1>4, RecordsKept DEF DistInv, buildVars

LEMMA VerifyTheBuildKeeps ==
    ASSUME DistInv, VerifyTheBuild
    PROVE  DistInv'
<1>1. UNCHANGED buildVars
  BY DEF VerifyTheBuild
<1>2. CASE step' \in {"failed", "compare"} /\ UNCHANGED builder
  BY <1>1, <1>2, LateStepsKeep DEF LateSteps
<1>3. CASE builder = "a" /\ step' = "copy_rest" /\ builder' = "b"
  <2>1. Functions'
    BY <1>1 DEF DistInv, Functions, buildVars
  <2>2. Progress'
    BY <1>1, <1>3 DEF DistInv, Progress, Blank, Builds, buildVars, CopySteps, MakeSteps
  <2>3. QED
    BY <1>1, <2>1, <2>2, RecordsKept DEF DistInv, buildVars
<1>4. QED
  BY <1>2, <1>3 DEF VerifyTheBuild

LEMMA RerunKeeps ==
    ASSUME DistInv, NEW tools, Rerun(tools)
    PROVE  DistInv'
<1>1. step' = "copy_rest" /\ builder' = "a"
  BY DEF Rerun
<1>2. Functions' /\ \A b \in Builds : Blank(b)'
  BY DEF Rerun, Fresh, Functions, Blank
<1>3. Progress'
  BY <1>1, <1>2 DEF Progress, Builds, CopySteps, MakeSteps
<1>4. ASSUME NEW b \in Builds PROVE FilesOf(b)' /\ ManifestOf(b)' /\ ProvenanceOf(b)'
  BY <1>2, FilesDiffer, NoFilesHasNone DEF Blank, FilesOf, ManifestOf, ProvenanceOf
<1>5. QED
  BY <1>2, <1>3, <1>4 DEF DistInv

LEMMA KillKeeps ==
    ASSUME DistInv, Kill
    PROVE  DistInv'
<1>1. step' = "failed" /\ UNCHANGED builder /\ builder \in Builds
  BY DEF Kill, DistInv, Progress
<1>2. CASE UNCHANGED buildVars
  BY <1>1, <1>2, LateStepsKeep DEF LateSteps
<1>3. ASSUME NEW kind, WriteDist(kind, Torn), step \in MakeSteps
      PROVE  DistInv'
  <2>1. FileOf(builder, Torn)
    BY DEF FileOf
  <2>2. /\ Functions' /\ \A b \in Builds : FilesOf(b)' /\ ManifestOf(b)' /\ ProvenanceOf(b)'
    BY <1>3, <2>1, WriteDistMakes
  <2>3. Progress'
    BY <1>1, <1>3, MakeProgress DEF WriteDist, DistInv, Functions
  <2>4. QED
    BY <2>2, <2>3 DEF DistInv
<1>4. CASE UNCHANGED <<candidate, manifest, dist, inspected, provenance>>
  <2>1. Functions' /\ Progress'
    BY <1>1, <1>4 DEF DistInv, Functions, Progress, Blank, CopySteps, MakeSteps, LateSteps
  <2>2. QED
    BY <1>4, <2>1, RecordsKept DEF DistInv
<1>5. CASE /\ step = "write_provenance"
           /\ provenance' = [provenance EXCEPT ![builder] = Torn]
           /\ UNCHANGED <<candidate, manifest, dist, inspected, sums>>
  <2>1. /\ provenance'[builder] = Torn
        /\ \A b \in Builds \ {builder} : provenance'[b] = provenance[b]
    BY <1>1, <1>5 DEF DistInv, Functions
  <2>2. Functions'
    BY <1>5 DEF DistInv, Functions
  <2>3. Progress'
    BY <1>1, <1>5, <2>1 DEF DistInv, Progress, Blank, Builds, CopySteps, MakeSteps, LateSteps
  <2>4. ASSUME NEW b \in Builds PROVE FilesOf(b)' /\ ManifestOf(b)' /\ ProvenanceOf(b)'
    <3>1. FilesOf(b)' /\ ManifestOf(b)'
      BY <1>5 DEF DistInv, FilesOf, FileOf, ManifestOf
    <3>2. ProvenanceOf(b)'
      BY <1>5, <2>1, FilesDiffer DEF DistInv, ProvenanceOf
    <3>3. QED
      BY <3>1, <3>2
  <2>5. QED
    BY <2>2, <2>3, <2>4 DEF DistInv
<1>6. QED
  BY <1>2, <1>3, <1>4, <1>5 DEF Kill, MakeSteps

\* A changed file is of no tree any more.
LEMMA DamageKeeps ==
    ASSUME DistInv, NEW b \in Builds, NEW kind \in Kinds, Damage(b, kind)
    PROVE  DistInv'
<1> DEFINE file == dist[b][kind]
           changed == [file EXCEPT !.content.tools = "damaged"]
<1>1. kind \in DOMAIN dist[b] /\ Readable(file)
      /\ UNCHANGED <<builder, step, candidate, manifest, inspected, provenance>>
  BY DEF Damage, runVars
<1>2. file = File(file.content) /\ DOMAIN file.content = Fields
  BY <1>1, FilesDiffer DEF DistInv, FilesOf, FileOf, Readable
<1>3. /\ changed = File([file.content EXCEPT !.tools = "damaged"])
      /\ DOMAIN changed.content = Fields /\ changed.content.tools = "damaged"
      /\ changed.content = [f \in Fields |-> changed.content[f]]
  BY <1>2 DEF File, Fields
<1>4. FileOf(b, changed)
  BY <1>3, FilesDiffer DEF FileOf
<1>5. /\ DOMAIN dist' = Builds /\ \A c \in Builds \ {b} : dist'[c] = dist[c]
      /\ dist'[b] = [dist[b] EXCEPT ![kind] = changed]
  BY DEF Damage, DistInv, Functions
<1>6. DOMAIN dist'[b] = DOMAIN dist[b] /\ dist[b] # NoFiles
      /\ \A k \in DOMAIN dist[b] : FileOf(b, dist'[b][k])
  BY <1>1, <1>4, <1>5, NoFilesHasNone DEF DistInv, FilesOf
<1>7. Functions'
  BY <1>1, <1>5 DEF DistInv, Functions
<1>8. Progress'
  <2>1. \A c \in Builds : /\ DOMAIN dist'[c] = DOMAIN dist[c]
                          /\ dist[c] = NoFiles => dist'[c] = NoFiles
    BY <1>5, <1>6
  <2>2. QED
    BY <1>1, <2>1, ProgressKept DEF DistInv
<1>9. ASSUME NEW c \in Builds PROVE FilesOf(c)' /\ ManifestOf(c)' /\ ProvenanceOf(c)'
  <2>1. CASE c = b
    BY <1>1, <1>6, <2>1 DEF DistInv, FilesOf, FileOf, ManifestOf, ProvenanceOf
  <2>2. CASE c # b
    BY <1>1, <1>5, <2>2, RecordsKept DEF DistInv
  <2>3. QED
    BY <2>1, <2>2
<1>10. QED
  BY <1>7, <1>8, <1>9 DEF DistInv

LEMMA BuildStepKeeps ==
    ASSUME DistInv, BuildStep
    PROVE  DistInv'
<1>1. UNCHANGED builder
  BY DEF BuildStep
<1>2. QED
  BY <1>1, CopyKeeps, ExportKeeps, BuildSdistKeeps, BuildWheelKeeps, PackSdistKeeps,
     RenameSdistKeeps, InspectDistKeeps, WriteSumsKeeps, WriteProvenanceKeeps DEF BuildStep

LEMMA QualifyRunKeeps ==
    ASSUME DistInv, QualifyRun
    PROVE  DistInv'
<1>1. UNCHANGED <<builder, buildVars>>
  BY DEF QualifyRun
<1>2. step' \in LateSteps \ {"write_provenance"}
  <2>1. CASE Compare \/ VerifyBundle \/ AuditSource \/ Upload
    BY <2>1 DEF Compare, VerifyBundle, AuditSource, Upload, Goto, LateSteps, Installs
  <2>2. ASSUME NEW works \in BOOLEAN, Qualify(works)
        PROVE  step' \in {"failed", "pip_sdist", "uv_tool", "upgrade", "audit"}
    BY <2>2 DEF Qualify, Installs
  <2>3. QED
    BY <2>1, <2>2 DEF QualifyRun, LateSteps, Installs
<1>3. QED
  BY <1>1, <1>2, LateStepsKeep

LEMMA DistStep == DistInv /\ [DistNext]_distVars => DistInv'
<1> SUFFICES ASSUME DistInv, [DistNext]_distVars PROVE DistInv'
  OBVIOUS
<1>1. CASE BuildStep \/ VerifyTheBuild \/ QualifyRun \/ Kill
  BY <1>1, BuildStepKeeps, VerifyTheBuildKeeps, QualifyRunKeeps, KillKeeps
<1>2. CASE \E tools \in Toolchains : Rerun(tools)
  BY <1>2, RerunKeeps
<1>3. CASE \E b \in Builds, kind \in Kinds : Damage(b, kind)
  BY <1>3, DamageKeeps
<1>4. CASE UNCHANGED <<builder, buildVars, step>>
  BY <1>4, LateStepsKeep
<1>5. ASSUME NEW commit, NEW ref, NEW publish, Dispatch(commit, ref, publish)
      PROVE  UNCHANGED <<builder, buildVars, step>>
  BY <1>5 DEF Dispatch, runVars
<1>6. ASSUME VerifyJob \/ Download PROVE UNCHANGED <<builder, buildVars, step>>
  BY <1>6 DEF VerifyJob, Download, runVars
<1>7. ASSUME NEW kind, Publish(kind) PROVE UNCHANGED <<builder, buildVars, step>>
  BY <1>7 DEF Publish, runVars
<1>8. ASSUME NEW tree, Edit(tree) PROVE UNCHANGED <<builder, buildVars, step>>
  BY <1>8 DEF Edit
<1>9. ASSUME UNCHANGED distVars PROVE UNCHANGED <<builder, buildVars, step>>
  BY <1>9 DEF distVars, runVars
<1>10. QED
  BY <1>1, <1>2, <1>3, <1>4, <1>5, <1>6, <1>7, <1>8, <1>9 DEF DistNext

\* Through every build, crash, edit, changed file and re-run, the files and
\* records of both bundles agree as far as they exist.
THEOREM DistInvariant == DistSpec => []DistInv
<1>1. QED
  BY DistStart, DistStep, PTL DEF DistSpec

\* verify_release_bundle: a bundle that passes is complete, unchanged since its
\* inspection and, but for files changed before that, made of what it names.
THEOREM VerifiedBundlesAreTruthful == DistSpec => []TruthfulBundle
<1>1. DistInv => TruthfulBundle
  <2> SUFFICES ASSUME DistInv, NEW b \in Builds, Verifies(Bundle(b))
               PROVE  /\ inspected[b] = File(dist[b])
                      /\ \A kind \in Kinds :
                            dist[b][kind].content.tools # "damaged" =>
                               /\ dist[b][kind].content.tree = provenance[b].content.payload
                               /\ dist[b][kind].content.tree.runtime
                                     = provenance[b].content.source
    BY DEF TruthfulBundle
  <2>1. /\ provenance[b].is = "written" /\ provenance[b].content.artifacts = dist[b]
        /\ DOMAIN dist[b] = Kinds /\ \A kind \in Kinds : Readable(dist[b][kind])
    BY DEF Verifies, Inspects, Bundle
  <2>2. inspected[b] = File(dist[b])
    BY <2>1 DEF DistInv, ProvenanceOf
  <2>3. ASSUME NEW kind \in Kinds, dist[b][kind].content.tools # "damaged"
        PROVE  dist[b][kind].content.tree = candidate[b].content
    BY <2>1, <2>3, FilesDiffer DEF DistInv, FilesOf, FileOf, Readable
  <2>4. /\ provenance[b].content.payload = candidate[b].content
        /\ provenance[b].content.source = candidate[b].content.runtime
    BY <2>1 DEF DistInv, ProvenanceOf
  <2>5. QED
    BY <2>2, <2>3, <2>4
<1>2. QED
  BY <1>1, DistInvariant, PTL
-----------------------------------------------------------------------------
(* From the files to PyPI *)

KindOf(k) == IF k = "sdist.tmp" THEN "sdist" ELSE k

\* An archive is of the kind its name says.
Labelled ==
    \A b \in Builds : \A k \in DOMAIN dist[b] :
        Readable(dist[b][k]) => dist[b][k].content.kind = KindOf(k)

\* Once inspected a file is as it was, or bears its damage.
Aged ==
    \A b \in Builds : inspected[b].is = "written" =>
        \A k \in Kinds :
            /\ k \in DOMAIN dist[b]
            /\ \/ dist[b][k] = inspected[b].content[k]
               \/ Readable(dist[b][k]) /\ dist[b][k].content.tools = "damaged"

Uninspected ==
    /\ builder = "a" => inspected["b"] = NoFile
    /\ step \in CopySteps \cup (MakeSteps \ {"write_sums"}) => inspected[builder] = NoFile

\* The installations the qualification has behind it, by the step it is at.
Passed ==
    [pip_sdist |-> {"pip_wheel"}, uv_tool |-> {"pip_wheel", "pip_sdist"},
     upgrade |-> {"pip_wheel", "pip_sdist", "uv_tool"},
     audit  |-> {"pip_wheel", "pip_sdist", "uv_tool", "upgrade"},
     upload |-> {"pip_wheel", "pip_sdist", "uv_tool", "upgrade"}]

\* What is still as it was inspected went through them.
QualifiedSoFar ==
    step \in DOMAIN Passed /\ inspected["a"].is = "written" =>
        \A stage \in Passed[step] :
            LET k == Installs[stage][1]
            IN  dist["a"][k] = inspected["a"].content[k] => <<stage, dist["a"][k].content>> \in installed

\* Both archives were installed in every way.
Good(files) ==
    \A k \in Kinds :
        /\ files[k] = File(files[k].content) /\ files[k].content.kind = k
        /\ \A stage \in DOMAIN Installs :
              Installs[stage][1] = k => <<stage, files[k].content>> \in installed

StoreGood == Verifies(store) => Good(store.dist)

Publication ==
    /\ DOMAIN dispatch = {"at", "commit", "ref", "publish", "verified", "files"}
    /\ dispatch.verified.is = "written" =>
          dispatch.verified = File(dispatch.verified.content) /\ Good(dispatch.verified.content)
    /\ dispatch.at = "upload" => dispatch.verified.is = "written" /\ dispatch.files = dispatch.verified
    /\ \A archive \in pypi :
          /\ dispatch.at = "upload"
          /\ \E k \in Kinds : archive = dispatch.verified.content[k].content

ReleaseInv ==
    /\ DistInv /\ Labelled /\ Aged /\ Uninspected /\ QualifiedSoFar /\ StoreGood /\ Publication

LEMMA ReleaseStart == DistInit => ReleaseInv
<1> SUFFICES ASSUME DistInit PROVE ReleaseInv
  OBVIOUS
<1>1. DistInv
  BY DistStart
<1>2. Labelled /\ Aged /\ Uninspected
  BY FilesDiffer, NoFilesHasNone DEF DistInit, Labelled, Aged, Uninspected, Builds
<1>3. QualifiedSoFar
  BY DEF DistInit, QualifiedSoFar, Passed
<1>4. StoreGood
  BY DEF DistInit, StoreGood, Verifies, NoBundle
<1>5. Publication
  BY FilesDiffer DEF DistInit, Publication, NoDispatch
<1>6. QED
  BY <1>1, <1>2, <1>3, <1>4, <1>5 DEF ReleaseInv

\* A file written to the bundle in the making, before its inspection.
LEMMA WriteDistLabels ==
    ASSUME ReleaseInv, NEW kind, NEW file, WriteDist(kind, file),
           step \in MakeSteps \ {"write_sums"},
           Readable(file) => file.content.kind = KindOf(kind)
    PROVE  Labelled' /\ Aged'
<1> DEFINE files == [k \in DOMAIN dist[builder] \cup {kind} |->
                        IF k = kind THEN file ELSE dist[builder][k]]
<1>1. builder \in Builds /\ DOMAIN dist = Builds /\ inspected[builder] = NoFile
  BY DEF ReleaseInv, DistInv, Functions, Progress, Uninspected
<1>2. dist' = [dist EXCEPT ![builder] = files] /\ inspected' = inspected
  BY DEF WriteDist
<1>3. dist'[builder] = files /\ \A b \in Builds \ {builder} : dist'[b] = dist[b]
  BY <1>1, <1>2
<1>4. \A k \in DOMAIN files : Readable(files[k]) => files[k].content.kind = KindOf(k)
  BY <1>1 DEF ReleaseInv, Labelled
<1>5. Labelled'
  BY <1>1, <1>3, <1>4 DEF ReleaseInv, Labelled, Readable
<1>6. Aged'
  BY <1>1, <1>2, <1>3, FilesDiffer DEF ReleaseInv, Aged
<1>7. QED
  BY <1>5, <1>6

LEMMA BuildStepLabels ==
    ASSUME ReleaseInv, BuildStep
    PROVE  Labelled' /\ Aged'
<1>1. builder \in Builds /\ UNCHANGED builder
  BY DEF BuildStep, ReleaseInv, DistInv, Progress
<1>2. CASE UNCHANGED <<dist, inspected>>
  BY <1>2 DEF ReleaseInv, Labelled, Aged
<1>3. CASE BuildSdist
  <2> DEFINE file == File(Archive("sdist", candidate[builder].content, toolchain, builder))
  <2>1. step \in MakeSteps \ {"write_sums"} /\ WriteDist("sdist", file)
    BY <1>3 DEF BuildSdist, Goto, MakeSteps
  <2>2. file.content.kind = KindOf("sdist")
    BY FilesDiffer DEF Archive, KindOf
  <2>3. QED
    BY <2>1, <2>2, WriteDistLabels
<1>4. CASE BuildWheel
  <2> DEFINE file == File(Archive("wheel", candidate[builder].content, toolchain, "epoch"))
  <2>1. step \in MakeSteps \ {"write_sums"} /\ WriteDist("wheel", file)
    BY <1>4 DEF BuildWheel, Goto, MakeSteps
  <2>2. file.content.kind = KindOf("wheel")
    BY FilesDiffer DEF Archive, KindOf
  <2>3. QED
    BY <2>1, <2>2, WriteDistLabels
<1>5. CASE PackSdist
  <2>1. CASE UNCHANGED buildVars
    BY <1>2, <2>1 DEF buildVars
  <2>2. CASE /\ Readable(dist[builder]["sdist"])
             /\ WriteDist("sdist.tmp", Repacked(dist[builder]["sdist"]))
    <3> DEFINE file == dist[builder]["sdist"]
               content == [file.content EXCEPT !.times = "epoch"]
    <3>1. step \in MakeSteps \ {"write_sums"} /\ "sdist" \in DOMAIN dist[builder]
      BY <1>5 DEF PackSdist, MakeSteps, ReleaseInv, DistInv, Progress
    <3>2. DOMAIN file.content = Fields /\ file.content.kind = "sdist"
      BY <1>1, <2>2, <3>1, FilesDiffer
         DEF ReleaseInv, DistInv, FilesOf, FileOf, Readable, Labelled, KindOf
    <3>3. content.kind = "sdist"
      BY <3>2 DEF Fields
    <3>4. Repacked(file).content.kind = KindOf("sdist.tmp")
      BY <3>3, FilesDiffer DEF Repacked, KindOf
    <3>5. QED
      BY <2>2, <3>1, <3>4, WriteDistLabels
  <2>3. QED
    BY <1>5, <2>1, <2>2 DEF PackSdist
<1>6. CASE RenameSdist
  <2> DEFINE files == [k \in Kinds |-> IF k = "sdist" THEN dist[builder]["sdist.tmp"]
                                                     ELSE dist[builder][k]]
  <2>1. /\ {"sdist", "wheel", "sdist.tmp"} \subseteq DOMAIN dist[builder]
        /\ DOMAIN dist = Builds /\ inspected[builder] = NoFile
    BY <1>6 DEF RenameSdist, Goto, MakeSteps, ReleaseInv, DistInv, Functions, Progress, Uninspected
  <2>2. dist' = [dist EXCEPT ![builder] = files] /\ inspected' = inspected
    BY <1>6 DEF RenameSdist
  <2>3. dist'[builder] = files /\ \A b \in Builds \ {builder} : dist'[b] = dist[b]
    BY <1>1, <2>1, <2>2
  <2>4. \A k \in DOMAIN files : Readable(files[k]) => files[k].content.kind = KindOf(k)
    BY <1>1, <2>1 DEF ReleaseInv, Labelled, KindOf, Kinds
  <2>5. Labelled'
    BY <1>1, <2>3, <2>4 DEF ReleaseInv, Labelled, Readable
  <2>6. Aged'
    BY <2>1, <2>2, <2>3, FilesDiffer DEF ReleaseInv, Aged
  <2>7. QED
    BY <2>5, <2>6
<1>7. CASE InspectDist
  <2>1. CASE UNCHANGED inspected
    BY <1>2, <1>7, <2>1 DEF InspectDist
  <2>2. CASE /\ Inspects(dist[builder], VersionOf[candidate[builder].content.rest])
             /\ inspected' = [inspected EXCEPT ![builder] = File(dist[builder])]
    <3>1. /\ dist' = dist /\ inspected'[builder].content = dist[builder]
          /\ DOMAIN dist[builder] = Kinds
          /\ \A b \in Builds \ {builder} : inspected'[b] = inspected[b]
      BY <1>1, <1>7, <2>2, FilesDiffer DEF InspectDist, Inspects, ReleaseInv, DistInv, Functions
    <3>2. QED
      BY <3>1 DEF ReleaseInv, Labelled, Aged
  <2>3. QED
    BY <1>7, <2>1, <2>2 DEF InspectDist
<1>8. QED
  BY <1>2, <1>3, <1>4, <1>5, <1>6, <1>7
     DEF BuildStep, CopyRest, CopyRuntime, Export, WriteSums, WriteProvenance

LEMMA KillLabels ==
    ASSUME ReleaseInv, Kill
    PROVE  Labelled' /\ Aged'
<1>1. CASE UNCHANGED <<dist, inspected>>
  BY <1>1 DEF ReleaseInv, Labelled, Aged
<1>2. ASSUME NEW kind, WriteDist(kind, Torn), step \in MakeSteps \ {"write_sums"}
      PROVE  Labelled' /\ Aged'
  BY <1>2, WriteDistLabels, FilesDiffer DEF Readable
<1>3. QED
  BY <1>1, <1>2 DEF Kill, MakeSteps, buildVars

\* The steps of a build, and what begins or ends it.
LEMMA BuildingKeeps ==
    ASSUME ReleaseInv, DistInv',
           BuildStep \/ VerifyTheBuild \/ Kill \/ \E tools \in Toolchains : Rerun(tools)
    PROVE  ReleaseInv'
<1>1. UNCHANGED <<installed, store, dispatch, pypi>>
  BY DEF BuildStep, VerifyTheBuild, Kill, Rerun
<1>2. Labelled' /\ Aged'
  <2>1. CASE VerifyTheBuild
    BY <2>1 DEF VerifyTheBuild, buildVars, ReleaseInv, Labelled, Aged
  <2>2. CASE \E tools \in Toolchains : Rerun(tools)
    BY <2>2, FilesDiffer, NoFilesHasNone DEF Rerun, Fresh, Labelled, Aged
  <2>3. QED
    BY <2>1, <2>2, BuildStepLabels, KillLabels
<1>3. step' \notin DOMAIN Passed
  BY DEF BuildStep, CopyRest, CopyRuntime, Export, BuildSdist, BuildWheel, PackSdist, RenameSdist,
         InspectDist, WriteSums, WriteProvenance, VerifyTheBuild, Kill, Rerun, Goto, Passed
<1>4. QualifiedSoFar' /\ StoreGood' /\ Publication'
  BY <1>1, <1>3 DEF ReleaseInv, QualifiedSoFar, StoreGood, Publication, Good
<1>5. Uninspected'
  <2>1. CASE BuildStep
    <3>1. CASE UNCHANGED inspected
      BY <2>1, <3>1 DEF BuildStep, CopyRest, CopyRuntime, Export, BuildSdist, BuildWheel,
         PackSdist, RenameSdist, InspectDist, WriteSums, WriteProvenance, Goto,
         ReleaseInv, Uninspected, CopySteps, MakeSteps
    <3>2. CASE step' = "write_sums" /\ inspected' = [inspected EXCEPT ![builder] = File(dist[builder])]
      BY <2>1, <3>2 DEF BuildStep, ReleaseInv, DistInv, Functions, Uninspected, Builds,
         CopySteps, MakeSteps
    <3>3. QED
      BY <2>1, <3>1, <3>2 DEF BuildStep, CopyRest, CopyRuntime, Export, BuildSdist, BuildWheel,
         WriteDist, PackSdist, RenameSdist, InspectDist, WriteSums, WriteProvenance, buildVars
  <2>2. CASE VerifyTheBuild
    BY <2>2 DEF VerifyTheBuild, buildVars, ReleaseInv, Uninspected, CopySteps, MakeSteps
  <2>3. CASE Kill
    BY <2>3 DEF Kill, WriteDist, buildVars, ReleaseInv, Uninspected, CopySteps, MakeSteps
  <2>4. CASE \E tools \in Toolchains : Rerun(tools)
    BY <2>4 DEF Rerun, Fresh, Uninspected, Builds
  <2>5. QED
    BY <2>1, <2>2, <2>3, <2>4
<1>6. QED
  BY <1>2, <1>4, <1>5 DEF ReleaseInv

\* A bundle that verifies after its qualification was qualified as it is.
LEMMA UploadedIsGood ==
    ASSUME ReleaseInv, step = "upload", Verifies(Bundle("a"))
    PROVE  Good(dist["a"])
<1> DEFINE p == provenance["a"].content
<1>1. /\ provenance["a"].is = "written" /\ p.artifacts = dist["a"]
      /\ DOMAIN dist["a"] = Kinds /\ \A k \in Kinds : Readable(dist["a"][k])
  BY DEF Verifies, Inspects, Bundle
<1>2. inspected["a"] = File(dist["a"])
  BY <1>1 DEF ReleaseInv, DistInv, ProvenanceOf, Builds
<1>3. inspected["a"].is = "written" /\ inspected["a"].content = dist["a"]
  BY <1>2, FilesDiffer
<1>4. step \in DOMAIN Passed /\ Passed[step] = DOMAIN Installs
  BY DEF Passed, Installs
<1>5. ASSUME NEW k \in Kinds, NEW stage \in DOMAIN Installs, Installs[stage][1] = k
      PROVE  <<stage, dist["a"][k].content>> \in installed
  BY <1>3, <1>4, <1>5 DEF ReleaseInv, QualifiedSoFar
<1>6. ASSUME NEW k \in Kinds
      PROVE  dist["a"][k] = File(dist["a"][k].content) /\ dist["a"][k].content.kind = k
  <2>1. dist["a"][k] = File(dist["a"][k].content)
    BY <1>1, FilesDiffer DEF ReleaseInv, DistInv, FilesOf, FileOf, Readable, Builds
  <2>2. dist["a"][k].content.kind = k
    BY <1>1 DEF ReleaseInv, Labelled, KindOf, Kinds, Builds
  <2>3. QED
    BY <2>1, <2>2
<1>7. QED
  BY <1>5, <1>6 DEF Good

LEMMA QualifyingKeeps ==
    ASSUME ReleaseInv, DistInv', QualifyRun
    PROVE  ReleaseInv'
<1>1. UNCHANGED <<builder, buildVars, dispatch, pypi>>
  BY DEF QualifyRun
<1>2. installed \subseteq installed'
  BY DEF QualifyRun, Compare, VerifyBundle, Qualify, AuditSource, Upload
<1>3. step' \in LateSteps
  BY DEF QualifyRun, Compare, VerifyBundle, Qualify, AuditSource, Upload, Goto, LateSteps, Installs
<1>4. Labelled' /\ Aged'
  BY <1>1 DEF ReleaseInv, Labelled, Aged, buildVars
<1>5. Uninspected'
  <2>1. step' \notin CopySteps \cup (MakeSteps \ {"write_sums"})
    BY <1>3 DEF LateSteps, CopySteps, MakeSteps, Installs
  <2>2. QED
    BY <1>1, <2>1 DEF ReleaseInv, Uninspected, buildVars
<1>6. ASSUME NEW files, Good(files) PROVE Good(files)'
  BY <1>2, <1>6 DEF Good
<1>7. Publication'
  BY <1>1, <1>6 DEF ReleaseInv, Publication
<1>8. CASE Compare \/ VerifyBundle
  <2>1. step' \notin DOMAIN Passed /\ UNCHANGED <<installed, store>>
    BY <1>8 DEF Compare, VerifyBundle, Passed
  <2>2. QualifiedSoFar' /\ StoreGood'
    BY <2>1 DEF ReleaseInv, QualifiedSoFar, StoreGood, Good
  <2>3. QED
    BY <1>4, <1>5, <1>7, <2>2 DEF ReleaseInv
<1>9. ASSUME NEW works \in BOOLEAN, Qualify(works) PROVE ReleaseInv'
  <2>1. StoreGood'
    BY <1>6, <1>9 DEF Qualify, ReleaseInv, StoreGood
  <2>2. QualifiedSoFar'
    <3>1. CASE step' = "failed"
      BY <3>1 DEF QualifiedSoFar, Passed
    <3>2. CASE /\ step' = Installs[step][2]
               /\ installed' = installed \cup {<<step, dist["a"][Installs[step][1]].content>>}
      <4>1. step \in {"pip_wheel", "pip_sdist", "uv_tool", "upgrade"}
        BY <1>9 DEF Qualify, Installs
      <4>2. /\ step' \in DOMAIN Passed
            /\ Passed[step'] = {step} \cup (IF step \in DOMAIN Passed THEN Passed[step] ELSE {})
        BY <3>2, <4>1 DEF Passed, Installs
      <4>3. QED
        BY <1>1, <3>2, <4>2 DEF ReleaseInv, QualifiedSoFar, buildVars
    <3>3. QED
      BY <1>9, <3>1, <3>2 DEF Qualify
  <2>3. QED
    BY <1>4, <1>5, <1>7, <2>1, <2>2 DEF ReleaseInv
<1>10. CASE Upload
  <2>1. step = "upload" /\ step' = "success" /\ store' = Bundle("a") /\ installed' = installed
    BY <1>10 DEF Upload, Goto
  <2>2. QualifiedSoFar'
    BY <2>1 DEF QualifiedSoFar, Passed
  <2>3. store'.dist = dist["a"]
    BY <2>1 DEF Bundle
  <2>4. Verifies(store') => Good(dist["a"])
    BY <2>1, UploadedIsGood
  <2>5. StoreGood'
    BY <2>1, <2>3, <2>4 DEF StoreGood, Good
  <2>6. QED
    BY <1>4, <1>5, <1>7, <2>2, <2>5 DEF ReleaseInv
<1>11. CASE AuditSource
  <2>1. /\ UNCHANGED <<installed, store>>
        /\ \/ step' \notin DOMAIN Passed
           \/ /\ step' \in DOMAIN Passed /\ step \in DOMAIN Passed
              /\ Passed[step'] = Passed[step]
    BY <1>11 DEF AuditSource, Passed
  <2>2. QualifiedSoFar' /\ StoreGood'
    BY <1>1, <2>1 DEF ReleaseInv, QualifiedSoFar, StoreGood, Good, buildVars
  <2>3. QED
    BY <1>4, <1>5, <1>7, <2>2 DEF ReleaseInv
<1>12. QED
  BY <1>8, <1>9, <1>10, <1>11 DEF QualifyRun

LEMMA PublishingKeeps ==
    ASSUME ReleaseInv, DistInv', UNCHANGED <<runVars, buildVars, installed, store>>,
           \/ \E commit, ref, publish : Dispatch(commit, ref, publish)
           \/ VerifyJob \/ Download \/ \E kind \in Kinds : Publish(kind)
    PROVE  ReleaseInv'
<1>1. Labelled' /\ Aged' /\ Uninspected' /\ QualifiedSoFar' /\ StoreGood'
  BY DEF ReleaseInv, Labelled, Aged, Uninspected, QualifiedSoFar, StoreGood, Good, runVars, buildVars
<1>2. ASSUME NEW files PROVE Good(files)' = Good(files)
  BY DEF Good
<1>3. Publication'
  <2>1. ASSUME NEW commit, NEW ref, NEW publish, Dispatch(commit, ref, publish)
        PROVE  Publication'
    BY <1>2, <2>1 DEF Dispatch, ReleaseInv, Publication
  <2>2. CASE VerifyJob
    <3>1. CASE dispatch' = [dispatch EXCEPT !.at = "ended"]
      BY <1>2, <2>2, <3>1 DEF VerifyJob, ReleaseInv, Publication
    <3>2. CASE /\ Verifies(store)
               /\ dispatch' = [dispatch EXCEPT !.at = "download", !.verified = File(store.dist)]
      <4>1. Good(store.dist)'
        BY <1>2, <3>2 DEF ReleaseInv, StoreGood
      <4>2. /\ dispatch'.verified = File(store.dist) /\ dispatch'.at = "download"
            /\ DOMAIN dispatch' = {"at", "commit", "ref", "publish", "verified", "files"}
        BY <3>2 DEF ReleaseInv, Publication
      <4>3. dispatch'.verified.content = store.dist
        BY <4>2, FilesDiffer
      <4>4. pypi' = pypi /\ pypi = {} /\ store' = store
        BY <2>2 DEF VerifyJob, ReleaseInv, Publication
      <4>5. QED
        BY <4>1, <4>2, <4>3, <4>4 DEF Publication
    <3>3. QED
      BY <2>2, <3>1, <3>2 DEF VerifyJob
  <2>3. CASE Download
    <3>1. CASE dispatch' = [dispatch EXCEPT !.at = "ended"]
      BY <1>2, <2>3, <3>1 DEF Download, ReleaseInv, Publication
    <3>2. CASE /\ dispatch.verified = File(store.dist)
               /\ dispatch' = [dispatch EXCEPT !.at = "upload", !.files = File(store.dist)]
      <4>1. /\ dispatch'.verified = dispatch.verified /\ dispatch'.files = dispatch.verified
            /\ DOMAIN dispatch' = {"at", "commit", "ref", "publish", "verified", "files"}
        BY <3>2 DEF ReleaseInv, Publication
      <4>2. dispatch.verified.is = "written"
        BY <3>2, FilesDiffer
      <4>3. pypi' = pypi /\ pypi = {}
        BY <2>3 DEF Download, ReleaseInv, Publication
      <4>4. QED
        BY <1>2, <4>1, <4>2, <4>3 DEF ReleaseInv, Publication
    <3>3. QED
      BY <2>3, <3>1, <3>2 DEF Download, SameHashes
  <2>4. ASSUME NEW kind \in Kinds, Publish(kind) PROVE Publication'
    <3>1. /\ dispatch' = dispatch /\ dispatch.at = "upload" /\ dispatch.files = dispatch.verified
          /\ pypi' = pypi \cup {dispatch.files.content[kind].content}
      BY <2>4 DEF Publish, ReleaseInv, Publication
    <3>2. QED
      BY <1>2, <3>1 DEF ReleaseInv, Publication
  <2>5. QED
    BY <2>1, <2>2, <2>3, <2>4
<1>4. QED
  BY <1>1, <1>3 DEF ReleaseInv

LEMMA DamagingKeeps ==
    ASSUME ReleaseInv, DistInv', NEW b \in Builds, NEW kind \in Kinds, Damage(b, kind)
    PROVE  ReleaseInv'
<1> DEFINE file == dist[b][kind]
           changed == [file EXCEPT !.content.tools = "damaged"]
<1>1. kind \in DOMAIN dist[b] /\ Readable(file)
      /\ UNCHANGED <<runVars, candidate, manifest, inspected, sums, provenance,
                      installed, store, dispatch, pypi>>
  BY DEF Damage
<1>2. /\ file = File(file.content) /\ DOMAIN file.content = Fields
      /\ file.content = [f \in Fields |-> file.content[f]]
  BY <1>1, FilesDiffer DEF ReleaseInv, DistInv, FilesOf, FileOf, Readable
<1>3. /\ changed = File([file.content EXCEPT !.tools = "damaged"])
      /\ changed.content = [file.content EXCEPT !.tools = "damaged"]
  BY <1>2 DEF File
<1>4. /\ changed.content.tools = "damaged" /\ changed.content.kind = file.content.kind
      /\ Readable(changed)
  BY <1>2, <1>3, FilesDiffer DEF Fields, Readable
<1>5. ASSUME file.content.tools = "damaged" PROVE changed = file
  <2>1. [file.content EXCEPT !.tools = "damaged"] = file.content
    BY <1>2, <1>5
  <2>2. QED
    BY <1>2, <1>3, <2>1
<1>6. /\ DOMAIN dist = Builds /\ \A c \in Builds \ {b} : dist'[c] = dist[c]
      /\ DOMAIN dist'[b] = DOMAIN dist[b] /\ dist'[b][kind] = changed
      /\ \A k \in DOMAIN dist[b] \ {kind} : dist'[b][k] = dist[b][k]
  BY <1>1 DEF Damage, ReleaseInv, DistInv, Functions
<1>7. Labelled'
  <2>1. ASSUME NEW c \in Builds, NEW k \in DOMAIN dist'[c], Readable(dist'[c][k])
        PROVE  dist'[c][k].content.kind = KindOf(k)
    <3>1. CASE c = b /\ k = kind
      <4>1. file.content.kind = KindOf(kind)
        BY <1>1 DEF ReleaseInv, Labelled
      <4>2. QED
        BY <1>4, <1>6, <3>1, <4>1
    <3>2. CASE c # b \/ k # kind
      <4>1. k \in DOMAIN dist[c] /\ dist'[c][k] = dist[c][k]
        BY <1>6, <3>2
      <4>2. QED
        BY <2>1, <4>1 DEF ReleaseInv, Labelled
    <3>3. QED
      BY <3>1, <3>2
  <2>2. QED
    BY <2>1 DEF Labelled
<1>8. Aged'
  <2>1. ASSUME NEW c \in Builds, inspected'[c].is = "written", NEW k \in Kinds
        PROVE  /\ k \in DOMAIN dist'[c]
               /\ \/ dist'[c][k] = inspected'[c].content[k]
                  \/ Readable(dist'[c][k]) /\ dist'[c][k].content.tools = "damaged"
    <3>1. /\ k \in DOMAIN dist[c]
          /\ \/ dist[c][k] = inspected'[c].content[k]
             \/ Readable(dist[c][k]) /\ dist[c][k].content.tools = "damaged"
      BY <1>1, <2>1 DEF ReleaseInv, Aged
    <3>2. CASE c = b /\ k = kind
      BY <1>4, <1>6, <3>1, <3>2
    <3>3. CASE c # b \/ k # kind
      BY <1>6, <3>1, <3>3
    <3>4. QED
      BY <3>2, <3>3
  <2>2. QED
    BY <2>1 DEF Aged
<1>9. QualifiedSoFar'
  <2>1. SUFFICES ASSUME step \in DOMAIN Passed, inspected["a"].is = "written",
                        NEW stage \in Passed[step],
                        dist'["a"][Installs[stage][1]] = inspected["a"].content[Installs[stage][1]]
                 PROVE  <<stage, dist'["a"][Installs[stage][1]].content>> \in installed
    BY <1>1 DEF QualifiedSoFar, runVars
  <2> DEFINE k == Installs[stage][1]
  <2>2. k \in Kinds
    BY <2>1 DEF Passed, Installs, Kinds
  <2>3. /\ k \in DOMAIN dist["a"]
        /\ \/ dist["a"][k] = inspected["a"].content[k]
           \/ dist["a"][k].content.tools = "damaged"
    BY <2>1, <2>2 DEF ReleaseInv, Aged, Builds
  <2>4. dist'["a"][k] = dist["a"][k]
    <3>1. CASE b = "a" /\ k = kind
      BY <1>5, <1>6, <2>1, <2>3, <3>1
    <3>2. CASE b # "a" \/ k # kind
      BY <1>6, <2>3, <3>2 DEF Builds
    <3>3. QED
      BY <3>1, <3>2
  <2>5. QED
    BY <2>1, <2>4 DEF ReleaseInv, QualifiedSoFar
<1>10. Uninspected' /\ StoreGood' /\ Publication'
  BY <1>1 DEF ReleaseInv, Uninspected, StoreGood, Publication, Good, runVars
<1>11. QED
  BY <1>7, <1>8, <1>9, <1>10 DEF ReleaseInv

LEMMA ReleaseStep == ReleaseInv /\ [DistNext]_distVars => ReleaseInv'
<1> SUFFICES ASSUME ReleaseInv, [DistNext]_distVars PROVE ReleaseInv'
  OBVIOUS
<1>1. DistInv'
  BY DistStep DEF ReleaseInv
<1>2. CASE BuildStep \/ VerifyTheBuild \/ Kill \/ \E tools \in Toolchains : Rerun(tools)
  BY <1>1, <1>2, BuildingKeeps
<1>3. CASE QualifyRun
  BY <1>1, <1>3, QualifyingKeeps
<1>4. CASE \/ \E commit \in Commits, ref \in {"branch", ReleaseLabel}, publish \in BOOLEAN :
                Dispatch(commit, ref, publish)
           \/ VerifyJob \/ Download \/ \E kind \in Kinds : Publish(kind)
  <2>1. UNCHANGED <<runVars, buildVars, installed, store>>
    BY <1>4 DEF Dispatch, VerifyJob, Download, Publish
  <2>2. QED
    BY <1>1, <1>4, <2>1, PublishingKeeps
<1>5. CASE \E b \in Builds, kind \in Kinds : Damage(b, kind)
  BY <1>1, <1>5, DamagingKeeps
<1>6. CASE UNCHANGED <<step, builder, buildVars, installed, store, dispatch, pypi>>
  BY <1>1, <1>6 DEF ReleaseInv, Labelled, Aged, Uninspected, QualifiedSoFar, StoreGood,
     Publication, Good, buildVars
<1>7. ASSUME NEW tree, Edit(tree)
      PROVE  UNCHANGED <<step, builder, buildVars, installed, store, dispatch, pypi>>
  BY <1>7 DEF Edit
<1>8. ASSUME UNCHANGED distVars
      PROVE  UNCHANGED <<step, builder, buildVars, installed, store, dispatch, pypi>>
  BY <1>8 DEF distVars, runVars
<1>9. QED
  BY <1>2, <1>3, <1>4, <1>5, <1>6, <1>7, <1>8 DEF DistNext

\* From the inspection of a file to its publication: what was inspected, what
\* was installed, what the run uploaded and what was downloaded agree.
THEOREM ReleaseInvariant == DistSpec => []ReleaseInv
<1>1. QED
  BY ReleaseStart, ReleaseStep, PTL DEF DistSpec

\* publish-pypi.yml: every archive on PyPI is the verified one and went through
\* every installation, for any number of attempts and changed files.
THEOREM OnlyQualifiedIsPublished == DistSpec => []PublishedWasQualified
<1>1. ReleaseInv => PublishedWasQualified
  <2> SUFFICES ASSUME ReleaseInv, NEW archive \in pypi
               PROVE  /\ File(archive) = dispatch.verified.content[archive.kind]
                      /\ \A stage \in DOMAIN Installs :
                            Installs[stage][1] = archive.kind => <<stage, archive>> \in installed
    BY DEF PublishedWasQualified
  <2>1. PICK k \in Kinds : archive = dispatch.verified.content[k].content
    BY DEF ReleaseInv, Publication
  <2>2. Good(dispatch.verified.content)
    BY DEF ReleaseInv, Publication
  <2>3. archive.kind = k /\ dispatch.verified.content[k] = File(archive)
    BY <2>1, <2>2 DEF Good
  <2>4. QED
    BY <2>1, <2>2, <2>3 DEF Good
<1>2. QED
  BY <1>1, ReleaseInvariant, PTL
-----------------------------------------------------------------------------
(* One changed archive                                                      *)

Spoilt(files) == \E k \in DOMAIN files : Readable(files[k]) /\ files[k].content.tools = "damaged"

\* With one damage to give, one of the bundles is free of it.
OneDamage ==
    /\ damages \in {0, 1} /\ toolchain # "damaged"
    /\ \E b \in Builds : ~Spoilt(dist[b])
    /\ damages = 0 => \A b \in Builds : ~Spoilt(dist[b])

ComparedSteps == {"verify", "audit", "upload"} \cup DOMAIN Installs

\* What was inspected in a bundle that came out equal to the other was not damaged.
Compared ==
    step \in ComparedSteps /\ inspected["a"].is = "written" =>
        \A k \in Kinds : LET file == inspected["a"].content[k]
                         IN  ~(Readable(file) /\ file.content.tools = "damaged")

\* Archives of a runtime, in the version that is released.
Told(files, runtime) ==
    \A k \in Kinds : /\ files[k].content.tools # "damaged"
                     /\ files[k].content.tree.runtime = runtime
                     /\ Version(files[k]) = Normalized

StoreTold == Verifies(store) => Told(store.dist, store.provenance.content.source)

PublicationTold ==
    /\ dispatch.at = "none" => dispatch.verified = NoFile
    /\ dispatch.verified.is = "written" =>
          /\ Told(dispatch.verified.content, TreeOf[dispatch.commit].runtime)
          /\ dispatch.ref = ReleaseLabel

TaggedInv == ReleaseInv /\ OneDamage /\ Compared /\ StoreTold /\ PublicationTold

LEMMA TaggedStart == DistInit => TaggedInv
<1> SUFFICES ASSUME DistInit PROVE TaggedInv
  OBVIOUS
<1>1. \A b \in Builds : ~Spoilt(dist[b])
  BY NoFilesHasNone DEF DistInit, Spoilt
<1>2. OneDamage
  BY <1>1, DistributionAssumption DEF DistInit, OneDamage, Builds
<1>3. Compared
  BY DEF DistInit, Compared, ComparedSteps, Installs
<1>4. StoreTold
  BY FilesDiffer DEF DistInit, StoreTold, Verifies, NoBundle
<1>5. PublicationTold
  BY FilesDiffer DEF DistInit, PublicationTold, NoDispatch
<1>6. QED
  BY <1>2, <1>3, <1>4, <1>5, ReleaseStart DEF TaggedInv

\* A build makes no damaged archive of undamaged ones.
LEMMA WriteDistSpoilsNot ==
    ASSUME DistInv, NEW kind, NEW file, WriteDist(kind, file), NEW b \in Builds,
           ~Spoilt(dist[b]), ~(b = builder /\ Readable(file) /\ file.content.tools = "damaged")
    PROVE  ~Spoilt(dist'[b])
<1> DEFINE files == [k \in DOMAIN dist[builder] \cup {kind} |->
                        IF k = kind THEN file ELSE dist[builder][k]]
<1>1. builder \in Builds /\ DOMAIN dist = Builds /\ dist' = [dist EXCEPT ![builder] = files]
  BY DEF WriteDist, DistInv, Functions, Progress
<1>2. dist'[builder] = files /\ \A c \in Builds \ {builder} : dist'[c] = dist[c]
  BY <1>1
<1>3. CASE b = builder
  <2>1. \A k \in DOMAIN files : files[k] = file \/ (k \in DOMAIN dist[b] /\ files[k] = dist[b][k])
    BY <1>3
  <2>2. QED
    BY <1>2, <1>3, <2>1 DEF Spoilt
<1>4. CASE b # builder
  BY <1>2, <1>4
<1>5. QED
  BY <1>3, <1>4

LEMMA BuildSpoilsNot ==
    ASSUME DistInv, toolchain # "damaged", BuildStep \/ Kill, NEW b \in Builds, ~Spoilt(dist[b])
    PROVE  ~Spoilt(dist'[b])
<1>1. CASE UNCHANGED dist
  BY <1>1
<1>2. CASE BuildSdist \/ BuildWheel
  <2>1. PICK kind, times :
           WriteDist(kind, File(Archive(kind, candidate[builder].content, toolchain, times)))
    BY <1>2 DEF BuildSdist, BuildWheel
  <2> DEFINE file == File(Archive(kind, candidate[builder].content, toolchain, times))
  <2>2. file.content.tools # "damaged"
    BY FilesDiffer DEF Archive
  <2> HIDE DEF file
  <2>3. QED
    BY <2>1, <2>2, WriteDistSpoilsNot DEF file
<1>3. CASE PackSdist
  <2> DEFINE file == dist[builder]["sdist"]
             content == [file.content EXCEPT !.times = "epoch"]
  <2>1. builder \in Builds /\ "sdist" \in DOMAIN dist[builder]
    BY <1>3 DEF PackSdist, DistInv, Progress
  <2>2. CASE UNCHANGED buildVars
    BY <1>1, <2>2 DEF buildVars
  <2>3. CASE Readable(file) /\ WriteDist("sdist.tmp", Repacked(file))
    <3>1. DOMAIN file.content = Fields
      BY <2>1, <2>3, FilesDiffer DEF DistInv, FilesOf, FileOf, Readable
    <3>2. content.tools = file.content.tools
      BY <3>1 DEF Fields
    <3>3. Repacked(file).content.tools = file.content.tools
      BY <3>2, FilesDiffer DEF Repacked
    <3>4. b = builder => file.content.tools # "damaged"
      BY <2>1, <2>3 DEF Spoilt
    <3> HIDE DEF file
    <3>5. QED
      BY <2>3, <3>3, <3>4, WriteDistSpoilsNot
  <2>4. QED
    BY <1>3, <2>2, <2>3 DEF PackSdist
<1>4. CASE RenameSdist
  <2> DEFINE files == [k \in Kinds |-> IF k = "sdist" THEN dist[builder]["sdist.tmp"]
                                                     ELSE dist[builder][k]]
  <2>1. /\ builder \in Builds /\ {"sdist", "wheel", "sdist.tmp"} \subseteq DOMAIN dist[builder]
        /\ DOMAIN dist = Builds /\ dist' = [dist EXCEPT ![builder] = files]
    BY <1>4 DEF RenameSdist, Goto, DistInv, Functions, Progress
  <2>2. dist'[builder] = files /\ \A c \in Builds \ {builder} : dist'[c] = dist[c]
    BY <2>1
  <2>3. \A k \in DOMAIN files : \E j \in DOMAIN dist[builder] : files[k] = dist[builder][j]
    BY <2>1 DEF Kinds
  <2>4. QED
    BY <2>2, <2>3 DEF Spoilt
<1>5. ASSUME NEW kind, WriteDist(kind, Torn) PROVE ~Spoilt(dist'[b])
  BY <1>5, FilesDiffer, WriteDistSpoilsNot DEF Readable
<1>6. QED
  BY <1>1, <1>2, <1>3, <1>4, <1>5
     DEF BuildStep, CopyRest, CopyRuntime, Export, InspectDist, WriteSums, WriteProvenance, Kill, buildVars

\* The steps of a build, and what begins or ends it.
LEMMA BuildingTells ==
    ASSUME TaggedInv, ReleaseInv',
           BuildStep \/ VerifyTheBuild \/ Kill \/ \E tools \in Toolchains : Rerun(tools)
    PROVE  TaggedInv'
<1>1. UNCHANGED <<store, dispatch, damages>>
  BY DEF BuildStep, VerifyTheBuild, Kill, Rerun
<1>2. step' \notin ComparedSteps
  BY DEF BuildStep, CopyRest, CopyRuntime, Export, BuildSdist, BuildWheel, PackSdist, RenameSdist,
         InspectDist, WriteSums, WriteProvenance, VerifyTheBuild, Kill, Rerun, Goto, ComparedSteps, Installs
<1>3. OneDamage'
  <2>1. CASE BuildStep \/ Kill
    <3>1. toolchain' = toolchain
      BY <2>1 DEF BuildStep, Kill
    <3>2. ASSUME NEW b \in Builds, ~Spoilt(dist[b]) PROVE ~Spoilt(dist'[b])
      BY <2>1, <3>2, BuildSpoilsNot DEF TaggedInv, ReleaseInv, OneDamage
    <3>3. QED
      BY <1>1, <3>1, <3>2 DEF TaggedInv, OneDamage
  <2>2. CASE VerifyTheBuild
    BY <1>1, <2>2 DEF VerifyTheBuild, buildVars, TaggedInv, OneDamage
  <2>3. CASE \E tools \in Toolchains : Rerun(tools)
    <3>1. \A b \in Builds : ~Spoilt(dist'[b])
      BY <2>3, NoFilesHasNone DEF Rerun, Fresh, Spoilt
    <3>2. toolchain' # "damaged"
      BY <2>3, DistributionAssumption DEF Rerun
    <3>3. QED
      BY <1>1, <3>1, <3>2 DEF TaggedInv, OneDamage, Builds
  <2>4. QED
    BY <2>1, <2>2, <2>3
<1>4. QED
  BY <1>1, <1>2, <1>3 DEF TaggedInv, Compared, StoreTold, PublicationTold

\* A bundle that verifies after the comparison tells the truth without exception.
LEMMA UploadedIsTold ==
    ASSUME TaggedInv, step = "upload", Verifies(Bundle("a"))
    PROVE  Told(dist["a"], provenance["a"].content.source)
<1>1. /\ provenance["a"].is = "written" /\ provenance["a"].content.artifacts = dist["a"]
      /\ provenance["a"].content.version = Normalized
      /\ DOMAIN dist["a"] = Kinds
      /\ \A k \in Kinds : Readable(dist["a"][k]) /\ Version(dist["a"][k]) = Normalized
  BY DEF Verifies, Inspects, Bundle
<1>2. inspected["a"] = File(dist["a"])
  BY <1>1 DEF TaggedInv, ReleaseInv, DistInv, ProvenanceOf, Builds
<1>3. \A k \in Kinds : dist["a"][k].content.tools # "damaged"
  BY <1>1, <1>2, FilesDiffer DEF TaggedInv, Compared, ComparedSteps
<1>4. \A k \in Kinds : dist["a"][k].content.tree = candidate["a"].content
  BY <1>1, <1>3, FilesDiffer DEF TaggedInv, ReleaseInv, DistInv, FilesOf, FileOf, Readable, Builds
<1>5. provenance["a"].content.source = candidate["a"].content.runtime
  BY <1>1 DEF TaggedInv, ReleaseInv, DistInv, ProvenanceOf, Builds
<1>6. QED
  BY <1>1, <1>3, <1>4, <1>5 DEF Told

LEMMA QualifyingTells ==
    ASSUME TaggedInv, ReleaseInv', QualifyRun
    PROVE  TaggedInv'
<1>1. UNCHANGED <<toolchain, buildVars, dispatch, damages>>
  BY DEF QualifyRun
<1>2. OneDamage' /\ PublicationTold'
  BY <1>1 DEF TaggedInv, OneDamage, PublicationTold, buildVars
<1>3. Compared'
  <2>1. CASE step \in ComparedSteps
    BY <1>1, <2>1 DEF TaggedInv, Compared, buildVars
  <2>2. CASE step \notin ComparedSteps /\ step' \in ComparedSteps
    <3>1. dist["a"] = dist["b"]
      BY <2>2 DEF QualifyRun, Compare, VerifyBundle, Qualify, AuditSource, Upload, Goto, ComparedSteps,
                  Installs, SameBytes
    <3>2. ~Spoilt(dist["a"])
      BY <3>1 DEF TaggedInv, OneDamage, Builds
    <3>3. ASSUME inspected["a"].is = "written", NEW k \in Kinds,
                 Readable(inspected["a"].content[k]), inspected["a"].content[k].content.tools = "damaged"
          PROVE  FALSE
      BY <3>2, <3>3 DEF TaggedInv, ReleaseInv, Aged, Builds, Spoilt
    <3>4. QED
      BY <1>1, <3>3 DEF Compared, buildVars
  <2>3. QED
    BY <2>1, <2>2 DEF Compared
<1>4. StoreTold'
  <2>1. CASE UNCHANGED store
    BY <2>1 DEF TaggedInv, StoreTold
  <2>2. CASE step = "upload" /\ store' = Bundle("a")
    BY <2>2, UploadedIsTold DEF StoreTold, Bundle
  <2>3. QED
    BY <2>1, <2>2 DEF QualifyRun, Compare, VerifyBundle, Qualify, AuditSource, Upload, Goto
<1>5. QED
  BY <1>2, <1>3, <1>4 DEF TaggedInv

LEMMA PublishingTells ==
    ASSUME TaggedInv, ReleaseInv', UNCHANGED <<runVars, buildVars, store, damages>>,
           \/ \E commit, ref, publish : Dispatch(commit, ref, publish)
           \/ VerifyJob \/ Download \/ \E kind \in Kinds : Publish(kind)
    PROVE  TaggedInv'
<1>1. OneDamage' /\ Compared' /\ StoreTold'
  BY DEF TaggedInv, OneDamage, Compared, StoreTold, runVars, buildVars
<1>2. DOMAIN dispatch = {"at", "commit", "ref", "publish", "verified", "files"}
  BY DEF TaggedInv, ReleaseInv, Publication
<1>3. PublicationTold'
  <2>1. ASSUME NEW commit, NEW ref, NEW publish, Dispatch(commit, ref, publish)
        PROVE  PublicationTold'
    BY <1>2, <2>1, FilesDiffer DEF Dispatch, TaggedInv, PublicationTold
  <2>2. CASE VerifyJob
    <3>1. CASE dispatch' = [dispatch EXCEPT !.at = "ended"]
      BY <1>2, <3>1 DEF TaggedInv, PublicationTold
    <3>2. CASE /\ Verifies(store)
               /\ store.provenance.content.source = TreeOf[dispatch.commit].runtime
               /\ dispatch.ref = store.provenance.content.label
               /\ dispatch' = [dispatch EXCEPT !.at = "download", !.verified = File(store.dist)]
      <4>1. /\ dispatch'.verified.content = store.dist /\ dispatch'.at = "download"
            /\ dispatch'.commit = dispatch.commit /\ dispatch'.ref = dispatch.ref
        BY <1>2, <3>2, FilesDiffer
      <4>2. dispatch.ref = ReleaseLabel
        BY <3>2 DEF Verifies
      <4>3. QED
        BY <3>2, <4>1, <4>2 DEF TaggedInv, StoreTold, PublicationTold
    <3>3. QED
      BY <2>2, <3>1, <3>2 DEF VerifyJob
  <2>3. CASE Download
    BY <1>2, <2>3 DEF Download, TaggedInv, PublicationTold
  <2>4. ASSUME NEW kind \in Kinds, Publish(kind) PROVE PublicationTold'
    BY <2>4 DEF Publish, TaggedInv, PublicationTold
  <2>5. QED
    BY <2>1, <2>2, <2>3, <2>4
<1>4. QED
  BY <1>1, <1>3 DEF TaggedInv

LEMMA DamagingTells ==
    ASSUME MaxDamages \in {0, 1}, TaggedInv, ReleaseInv',
           NEW b \in Builds, NEW kind \in Kinds, Damage(b, kind)
    PROVE  TaggedInv'
<1>1. damages = 0 /\ damages' = 1
  BY DEF Damage, TaggedInv, OneDamage
<1>2. UNCHANGED <<step, toolchain, inspected, store, dispatch>>
  BY DEF Damage, runVars
<1>3. PICK c \in Builds : c # b
  BY DEF Builds
<1>4. ~Spoilt(dist'[c])
  <2>1. dist'[c] = dist[c]
    BY <1>3 DEF Damage, TaggedInv, ReleaseInv, DistInv, Functions
  <2>2. QED
    BY <1>1, <2>1 DEF TaggedInv, OneDamage
<1>5. OneDamage'
  BY <1>1, <1>2, <1>4 DEF TaggedInv, OneDamage
<1>6. QED
  BY <1>2, <1>5 DEF TaggedInv, Compared, StoreTold, PublicationTold

LEMMA TaggedStep ==
    ASSUME MaxDamages \in {0, 1}, TaggedInv, [DistNext]_distVars
    PROVE  TaggedInv'
<1>1. ReleaseInv'
  BY ReleaseStep DEF TaggedInv
<1>2. CASE BuildStep \/ VerifyTheBuild \/ Kill \/ \E tools \in Toolchains : Rerun(tools)
  BY <1>1, <1>2, BuildingTells
<1>3. CASE QualifyRun
  BY <1>1, <1>3, QualifyingTells
<1>4. CASE \/ \E commit \in Commits, ref \in {"branch", ReleaseLabel}, publish \in BOOLEAN :
                Dispatch(commit, ref, publish)
           \/ VerifyJob \/ Download \/ \E kind \in Kinds : Publish(kind)
  <2>1. UNCHANGED <<runVars, buildVars, store, damages>>
    BY <1>4 DEF Dispatch, VerifyJob, Download, Publish
  <2>2. QED
    BY <1>1, <1>4, <2>1, PublishingTells
<1>5. CASE \E b \in Builds, kind \in Kinds : Damage(b, kind)
  BY <1>1, <1>5, DamagingTells
<1>6. CASE UNCHANGED <<step, toolchain, buildVars, store, dispatch, damages>>
  BY <1>1, <1>6 DEF TaggedInv, OneDamage, Compared, StoreTold, PublicationTold, buildVars
<1>7. ASSUME NEW tree, Edit(tree)
      PROVE  UNCHANGED <<step, toolchain, buildVars, store, dispatch, damages>>
  BY <1>7 DEF Edit
<1>8. ASSUME UNCHANGED distVars
      PROVE  UNCHANGED <<step, toolchain, buildVars, store, dispatch, damages>>
  BY <1>8 DEF distVars, runVars
<1>9. QED
  BY <1>2, <1>3, <1>4, <1>5, <1>6, <1>7, <1>8 DEF DistNext

\* RELEASE-PROCESS.md: what is on PyPI has the runtime of the tagged commit and the
\* version of its label, for any trees, edits, kills, attempts and dispatches, and
\* one archive changed at any moment.  Of two the same change to both bundles would
\* compare equal.
THEOREM OnlyTheTaggedIsPublished ==
    ASSUME MaxDamages \in {0, 1}
    PROVE  DistSpec => []PublishedIsTagged
<1>1. TaggedInv => PublishedIsTagged
  <2> SUFFICES ASSUME TaggedInv, NEW archive \in pypi
               PROVE  /\ archive.tools # "damaged"
                      /\ archive.tree.runtime = TreeOf[dispatch.commit].runtime
                      /\ dispatch.ref = ReleaseLabel /\ VersionOf[archive.tree.rest] = Normalized
    BY DEF PublishedIsTagged
  <2>1. PICK k \in Kinds : /\ archive = dispatch.verified.content[k].content
                           /\ dispatch.verified.is = "written"
    BY DEF TaggedInv, ReleaseInv, Publication
  <2>2. QED
    BY <2>1 DEF TaggedInv, PublicationTold, Told, Version
<1>2. QED
  BY <1>1, TaggedStart, TaggedStep, PTL DEF DistSpec
=============================================================================
