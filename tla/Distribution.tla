---------------------------- MODULE Distribution ----------------------------
(***************************************************************************)
(* From a source tree to PyPI: public_release.py and distribution.py make  *)
(* and check a release bundle, distribution.yml makes it twice, compares,  *)
(* qualifies and uploads it, publish-pypi.yml downloads and publishes it.  *)
(*                                                                         *)
(* A tree is its runtime (src/token_runtime) and the rest of its public    *)
(* files, which hold the version.  An archive is the tree it was made of   *)
(* and what else its bytes depend on.  A digest is the content.            *)
(***************************************************************************)
EXTENDS Naturals, FiniteSets

CONSTANTS Runtimes,     \* contents of src/token_runtime
          Rests,        \* contents of the other public files
          VersionOf,    \* the version in pyproject.toml: [Rests -> versions]
          Leaky,        \* the rests public_audit.py finds something in
          ReleaseLabel, \* the label distribution.yml builds
          Normalized,   \* normalize_release_label(ReleaseLabel)
          Toolchains,   \* what else an archive depends on
          Commits,      \* commits one can dispatch the publication at
          TreeOf,       \* [Commits -> trees]
          MergedTreeOf, \* the tree a pull request of the commit is qualified in
          Edited,       \* the trees an edit may leave
          MaxAttempts, MaxEdits, MaxDamages  \* bounds

Trees == [runtime : Runtimes, rest : Rests]
Builds == {"a", "b"}
Kinds == {"wheel", "sdist"}

ASSUME DistributionAssumption ==
    /\ TreeOf \in [Commits -> Trees] /\ MergedTreeOf \in [Commits -> Trees]
    /\ Leaky \subseteq Rests /\ Edited \subseteq Trees
    /\ Toolchains \cap {"damaged"} = {}

VARIABLES
    head,       \* the commit of the qualification run, and the event that started it
    attempt,    \* how often the run was started
    source,     \* the checkout the run builds from
    step,       \* the next step of the run
    builder,    \* the bundle the run is making
    candidate,  \* by build: the exported tree
    manifest,   \* by build: PUBLIC_RELEASE_MANIFEST.json
    dist,       \* by build: the files in bundle/dist
    inspected,  \* by build: the records build_distributions returned
    sums,       \* by build: SHA256SUMS
    provenance, \* by build: TOKEN_DISTRIBUTION_PROVENANCE.json
    installed,  \* the archives the qualification installed
    store,      \* the artifact of the run
    dispatch,   \* the publication: its step, commit, ref and what verify put out
    pypi,       \* what was published
    toolchain, edits, damages

buildVars == <<candidate, manifest, dist, inspected, sums, provenance>>
runVars == <<head, attempt, source, step, builder, toolchain>>
distVars == <<runVars, buildVars, installed, store, dispatch, pypi, edits, damages>>

NoFile == [is |-> "absent"]
Torn == [is |-> "torn"]
File(content) == [is |-> "written", content |-> content]
NoFiles == [k \in {} |-> NoFile]
NoBundle == [dist |-> NoFiles, sums |-> NoFile, provenance |-> NoFile]

Archive(kind, tree, tools, times) ==
    [kind |-> kind, tree |-> tree, tools |-> tools, times |-> times]
Readable(file) == file.is = "written"
Version(file) == VersionOf[file.content.tree.rest]

\* inspect_distributions: exactly the two archives, readable, of this version.
Inspects(files, version) ==
    /\ DOMAIN files = Kinds
    /\ \A k \in Kinds : Readable(files[k]) /\ Version(files[k]) = version

\* Mutant of Verifies: the files are not compared with the provenance.
VerifiesNames(bundle) ==
    /\ bundle.sums # NoFile /\ bundle.provenance.is = "written"
    /\ Inspects(bundle.dist, bundle.provenance.content.version)

\* verify_release_bundle
Verifies(bundle) ==
    /\ bundle.sums # NoFile /\ bundle.provenance.is = "written"
    /\ LET p == bundle.provenance.content
       IN  /\ p.label = ReleaseLabel /\ p.version = Normalized
           /\ p.source = p.candidate
           /\ Inspects(bundle.dist, p.version)
           /\ p.artifacts = bundle.dist
    /\ bundle.sums = File(bundle.dist)

Bundle(b) == [dist |-> dist[b], sums |-> sums[b], provenance |-> provenance[b]]
-----------------------------------------------------------------------------
(* One build: public_release.py, then distribution.py build *)

Fresh ==
    /\ candidate' = [b \in Builds |-> NoFile]
    /\ manifest' = [b \in Builds |-> NoFile]
    /\ dist' = [b \in Builds |-> NoFiles]
    /\ inspected' = [b \in Builds |-> NoFile]
    /\ sums' = [b \in Builds |-> NoFile]
    /\ provenance' = [b \in Builds |-> NoFile]

BuildSteps == {"copy_rest", "copy_runtime", "export", "build_sdist", "build_wheel", "pack_sdist",
               "rename_sdist", "inspect", "write_sums", "write_provenance", "verify_build"}

Goto(from, to) == step = from /\ step' = to

\* The exporter copies file after file, so an edit may come in between.
CopyRest ==
    /\ Goto("copy_rest", "copy_runtime")
    /\ candidate' = [candidate EXCEPT ![builder] =
                        File([runtime |-> source.runtime, rest |-> source.rest])]
    /\ UNCHANGED <<manifest, dist, inspected, sums, provenance>>

CopyRuntime ==
    /\ Goto("copy_runtime", "export")
    /\ candidate' = [candidate EXCEPT ![builder].content.runtime = source.runtime]
    /\ UNCHANGED <<manifest, dist, inspected, sums, provenance>>

\* The audit, the runtime digests, validate_version_contract.
ExportChecks(tree) ==
    /\ tree.rest \notin Leaky
    /\ tree.runtime = source.runtime
    /\ VersionOf[tree.rest] = Normalized

Export ==
    LET tree == candidate[builder].content
    IN  /\ step = "export"
        /\ IF ExportChecks(tree)
           THEN /\ step' = "build_sdist"
                /\ manifest' = [manifest EXCEPT ![builder] =
                       File([label |-> ReleaseLabel, runtime |-> tree.runtime, payload |-> tree])]
           ELSE step' = "failed" /\ UNCHANGED manifest
        /\ UNCHANGED <<candidate, dist, inspected, sums, provenance>>

WriteDist(kind, file) ==
    /\ dist' = [dist EXCEPT ![builder] =
                   [k \in DOMAIN @ \cup {kind} |-> IF k = kind THEN file ELSE @[k]]]
    /\ UNCHANGED <<candidate, manifest, inspected, sums, provenance>>

\* The member times of an sdist are those of its build.
BuildSdist ==
    /\ Goto("build_sdist", "build_wheel")
    /\ WriteDist("sdist", File(Archive("sdist", candidate[builder].content, toolchain, builder)))

BuildWheel ==
    /\ Goto("build_wheel", "pack_sdist")
    /\ WriteDist("wheel", File(Archive("wheel", candidate[builder].content, toolchain, "epoch")))

\* _normalize_sdist_archive: a second file, renamed over the first.
Repacked(file) == File([file.content EXCEPT !.times = "epoch"])

PackSdist ==
    /\ step = "pack_sdist"
    /\ IF Readable(dist[builder]["sdist"])
       THEN /\ step' = "rename_sdist"
            /\ WriteDist("sdist.tmp", Repacked(dist[builder]["sdist"]))
       ELSE step' = "failed" /\ UNCHANGED buildVars

RenameSdist ==
    /\ Goto("rename_sdist", "inspect")
    /\ dist' = [dist EXCEPT ![builder] =
                   [k \in Kinds |-> IF k = "sdist" THEN @["sdist.tmp"] ELSE @[k]]]
    /\ UNCHANGED <<candidate, manifest, inspected, sums, provenance>>

InspectDist ==
    /\ step = "inspect"
    /\ IF Inspects(dist[builder], VersionOf[candidate[builder].content.rest])
       THEN /\ step' = "write_sums"
            /\ inspected' = [inspected EXCEPT ![builder] = File(dist[builder])]
       ELSE step' = "failed" /\ UNCHANGED inspected
    /\ UNCHANGED <<candidate, manifest, dist, sums, provenance>>

\* _build_cli digests both runtimes only now; write_release_bundle compares them
\* with each other and the manifest, and the files with the records.
BundleChecks(b) ==
    /\ source.runtime = candidate[b].content.runtime
    /\ manifest[b].content.runtime = candidate[b].content.runtime
    /\ Inspects(dist[b], Normalized)
    /\ inspected[b] = File(dist[b])

WriteSums ==
    /\ step = "write_sums"
    /\ IF BundleChecks(builder)
       THEN /\ step' = "write_provenance"
            /\ sums' = [sums EXCEPT ![builder] = inspected[builder]]
       ELSE step' = "failed" /\ UNCHANGED sums
    /\ UNCHANGED <<candidate, manifest, dist, inspected, provenance>>

\* The digests in it are those BundleChecks found equal.
WriteProvenance ==
    /\ Goto("write_provenance", "verify_build")
    /\ provenance' = [provenance EXCEPT ![builder] =
          File([label |-> ReleaseLabel, version |-> Normalized,
                source |-> manifest[builder].content.runtime,
                candidate |-> manifest[builder].content.runtime,
                payload |-> manifest[builder].content.payload,
                artifacts |-> inspected[builder].content])]
    /\ UNCHANGED <<candidate, manifest, dist, inspected, sums>>

BuildStep ==
    /\ \/ CopyRest \/ CopyRuntime \/ Export \/ BuildSdist \/ BuildWheel
       \/ PackSdist \/ RenameSdist \/ InspectDist \/ WriteSums \/ WriteProvenance
    /\ UNCHANGED <<head, attempt, source, builder, toolchain,
                   installed, store, dispatch, pypi, edits, damages>>

\* distribution.yml makes bundle b after bundle a, from the same checkout.
VerifyTheBuild ==
    /\ step = "verify_build"
    /\ IF ~Verifies(Bundle(builder)) THEN step' = "failed" /\ UNCHANGED builder
       ELSE IF builder = "a" THEN step' = "copy_rest" /\ builder' = "b"
       ELSE step' = "compare" /\ UNCHANGED builder
    /\ UNCHANGED <<head, attempt, source, toolchain, buildVars,
                   installed, store, dispatch, pypi, edits, damages>>
-----------------------------------------------------------------------------
(* The rest of distribution.yml *)

\* Mutant of SameBytes: nothing is compared.
SameBytesSkipped == TRUE

SameBytes == dist["a"] = dist["b"]

Compare ==
    /\ step = "compare"
    /\ step' = IF SameBytes THEN "verify" ELSE "failed"
    /\ UNCHANGED <<installed, store>>

\* verify, and qualify, which verifies and inspects once more.
VerifyBundle ==
    /\ step = "verify"
    /\ step' = IF Verifies(Bundle("a")) THEN "pip_wheel" ELSE "failed"
    /\ UNCHANGED <<installed, store>>

\* The qualification installs from the files, one environment after the other;
\* an installed archive that does not answer with its version fails.
Installs == [pip_wheel |-> <<"wheel", "pip_sdist">>, pip_sdist |-> <<"sdist", "uv_tool">>,
             uv_tool |-> <<"wheel", "upgrade">>, upgrade |-> <<"wheel", "audit">>]

Qualify(works) ==
    /\ step \in DOMAIN Installs
    /\ LET kind == Installs[step][1]
       IN  IF works
           THEN /\ step' = Installs[step][2]
                /\ installed' = installed \cup {<<step, dist["a"][kind].content>>}
           ELSE step' = "failed" /\ UNCHANGED installed
    /\ UNCHANGED store

\* public_audit.py --source-tree, on the checkout as it now is.
AuditSource ==
    /\ step = "audit"
    /\ step' = IF source.rest \in Leaky THEN "failed" ELSE "upload"
    /\ UNCHANGED <<installed, store>>

\* The bundle is uploaded as it now is; the run ends in success.
Upload ==
    /\ Goto("upload", "success")
    /\ store' = Bundle("a")
    /\ UNCHANGED installed

QualifyRun ==
    /\ \/ Compare \/ VerifyBundle \/ (\E works \in BOOLEAN : Qualify(works))
       \/ AuditSource \/ Upload
    /\ UNCHANGED <<head, attempt, source, builder, toolchain, buildVars,
                   dispatch, pypi, edits, damages>>

\* A run may be started again, on a new machine; it keeps its id and its artifact
\* until the new one is uploaded.
Rerun(tools) ==
    /\ step \in {"failed", "success"} /\ attempt < MaxAttempts
    /\ attempt' = attempt + 1
    /\ step' = "copy_rest" /\ builder' = "a" /\ toolchain' = tools
    /\ source' = IF head.event = "push" THEN TreeOf[head.commit] ELSE MergedTreeOf[head.commit]
    /\ Fresh
    /\ UNCHANGED <<head, installed, store, dispatch, pypi, edits, damages>>
-----------------------------------------------------------------------------
(* publish-pypi.yml *)

NoDispatch == [at |-> "none", commit |-> "none", ref |-> "none", publish |-> FALSE,
               verified |-> NoFile, files |-> NoFile]

\* A dispatch before the run has uploaded its artifact fails at once.
Dispatch(commit, ref, publish) ==
    /\ dispatch.at = "none" /\ store # NoBundle
    /\ dispatch' = [dispatch EXCEPT !.at = "verify", !.commit = commit,
                                    !.ref = ref, !.publish = publish]
    /\ UNCHANGED <<runVars, buildVars, installed, store, pypi, edits, damages>>

\* The verify job checks the run, the bundle it downloads and the runtime of its
\* own checkout; a tag must be the label of the bundle.
RunQualifies(commit) == step = "success" /\ head.commit = commit

VerifyJob ==
    /\ dispatch.at = "verify"
    /\ dispatch' =
         IF /\ RunQualifies(dispatch.commit)
            /\ Verifies(store)
            /\ store.provenance.content.source = TreeOf[dispatch.commit].runtime
            /\ dispatch.ref \in {"branch", store.provenance.content.label}
            /\ dispatch.publish /\ dispatch.ref = store.provenance.content.label
         THEN [dispatch EXCEPT !.at = "download", !.verified = File(store.dist)]
         ELSE [dispatch EXCEPT !.at = "ended"]
    /\ UNCHANGED <<runVars, buildVars, installed, store, pypi, edits, damages>>

\* Mutant of SameHashes: the second download is taken as it is.
SameHashesSkipped(files) == TRUE

SameHashes(files) == dispatch.verified = File(files)

\* The publish job downloads again and compares, then uploads file by file.
Download ==
    /\ dispatch.at = "download"
    /\ dispatch' = IF SameHashes(store.dist)
                   THEN [dispatch EXCEPT !.at = "upload", !.files = File(store.dist)]
                   ELSE [dispatch EXCEPT !.at = "ended"]
    /\ UNCHANGED <<runVars, buildVars, installed, store, pypi, edits, damages>>

Publish(kind) ==
    /\ dispatch.at = "upload"
    /\ dispatch.files.content[kind].content \notin pypi
    /\ pypi' = pypi \cup {dispatch.files.content[kind].content}
    /\ UNCHANGED <<runVars, buildVars, installed, store, dispatch, edits, damages>>
-----------------------------------------------------------------------------
(* What else happens *)

\* The build stops between two steps or in the middle of a file.
Kill ==
    /\ step' = "failed"
    /\ \/ step \in BuildSteps /\ UNCHANGED buildVars
       \/ step = "build_sdist" /\ WriteDist("sdist", Torn)
       \/ step = "build_wheel" /\ WriteDist("wheel", Torn)
       \/ step = "pack_sdist" /\ WriteDist("sdist.tmp", Torn)
       \/ /\ step = "write_sums"
          /\ sums' = [sums EXCEPT ![builder] = Torn]
          /\ UNCHANGED <<candidate, manifest, dist, inspected, provenance>>
       \/ /\ step = "write_provenance"
          /\ provenance' = [provenance EXCEPT ![builder] = Torn]
          /\ UNCHANGED <<candidate, manifest, dist, inspected, sums>>
    /\ UNCHANGED <<head, attempt, source, builder, toolchain,
                   installed, store, dispatch, pypi, edits, damages>>

\* Somebody works in the checkout while it is being built from.
Edit(tree) ==
    /\ edits < MaxEdits /\ step \in BuildSteps
    /\ edits' = edits + 1
    /\ source' = tree
    /\ UNCHANGED <<head, attempt, step, builder, toolchain, buildVars,
                   installed, store, dispatch, pypi, damages>>

\* An archive of a bundle becomes another readable one, of the same name.
Damage(b, kind) ==
    /\ damages < MaxDamages
    /\ kind \in DOMAIN dist[b] /\ Readable(dist[b][kind])
    /\ damages' = damages + 1
    /\ dist' = [dist EXCEPT ![b][kind].content.tools = "damaged"]
    /\ UNCHANGED <<runVars, candidate, manifest, inspected, sums, provenance,
                   installed, store, dispatch, pypi, edits>>

DistInit ==
    /\ head \in [commit : Commits, event : {"push", "pull_request"}]
    /\ source = IF head.event = "push" THEN TreeOf[head.commit] ELSE MergedTreeOf[head.commit]
    /\ attempt = 1 /\ step = "copy_rest" /\ builder = "a"
    /\ toolchain \in Toolchains
    /\ candidate = [b \in Builds |-> NoFile] /\ manifest = [b \in Builds |-> NoFile]
    /\ dist = [b \in Builds |-> NoFiles] /\ inspected = [b \in Builds |-> NoFile]
    /\ sums = [b \in Builds |-> NoFile] /\ provenance = [b \in Builds |-> NoFile]
    /\ installed = {} /\ store = NoBundle
    /\ dispatch = NoDispatch /\ pypi = {} /\ edits = 0 /\ damages = 0

DistNext ==
    \/ BuildStep \/ VerifyTheBuild \/ QualifyRun \/ Kill
    \/ \E tools \in Toolchains : Rerun(tools)
    \/ \E commit \in Commits, ref \in {"branch", ReleaseLabel}, publish \in BOOLEAN :
           Dispatch(commit, ref, publish)
    \/ VerifyJob \/ Download
    \/ \E kind \in Kinds : Publish(kind)
    \/ \E tree \in Edited : Edit(tree)
    \/ \E b \in Builds, kind \in Kinds : Damage(b, kind)

DistSpec == DistInit /\ [][DistNext]_distVars
-----------------------------------------------------------------------------
(* Properties *)

\* A bundle that verifies is complete and unchanged since it was inspected,
\* wherever a build was killed or a file changed; unless a file was changed even
\* before that, both archives are made of the tree and the runtime it names.
TruthfulBundle ==
    \A b \in Builds : Verifies(Bundle(b)) =>
        /\ inspected[b] = File(dist[b])
        /\ \A kind \in Kinds :
              LET archive == dist[b][kind].content
                  p       == provenance[b].content
              IN  archive.tools # "damaged" =>
                      archive.tree = p.payload /\ archive.tree.runtime = p.source

\* RELEASE-PROCESS.md: what is on PyPI under a version has the runtime of the
\* commit with that tag, though the checkout was edited during a build, a file
\* changed at any moment, the run was repeated or started for a pull request.
PublishedIsTagged ==
    \A archive \in pypi :
        /\ archive.tools # "damaged"
        /\ archive.tree.runtime = TreeOf[dispatch.commit].runtime
        /\ dispatch.ref = ReleaseLabel /\ VersionOf[archive.tree.rest] = Normalized

\* RELEASE-PROCESS.md: only bytes that were qualified, every installation of
\* them, and then verified are published; what a later attempt of the run puts in
\* their place is not.
PublishedWasQualified ==
    \A archive \in pypi :
        /\ File(archive) = dispatch.verified.content[archive.kind]
        /\ \A stage \in DOMAIN Installs :
              Installs[stage][1] = archive.kind => <<stage, archive>> \in installed
=============================================================================
