----------------------------- MODULE ReleaseBundle -----------------------------
(***************************************************************************)
(* A release bundle: what one build of a source makes, what its status and  *)
(* manifest say of it, when it verifies, when two builds agree              *)
(* (release/builder.py, models.py, comparison.py).                          *)
(*                                                                          *)
(* A digest is what it digests, so that no two contents share one.  A file  *)
(* is a record of the facts and of the commit and time it carries.          *)
(***************************************************************************)
EXTENDS Integers, FiniteSets

\* A source is [commit, time, history, inputs]: history is what the notes tell of the
\* software, inputs what the repository holds there.  Files go by their role; the status
\* and the manifest are kept apart from them.
Unhashed == {"screens"}
RequiredFiles ==
    {"dataset", "tables", "consensus", "view", "validation", "provenance", "build",
     "notes", "guide", "screens", "status", "manifest"}

Active(inputs) == {s \in inputs.sources : s.role # "excluded"}
Inaccessible(inputs) == {s.id : s \in {t \in Active(inputs) : t.discovery # "published"}}

ReleaseStatus(source, version, included) ==
    LET inputs == source.inputs
    IN  [version |-> version, election |-> inputs.election, panel |-> inputs.panel,
         commit |-> source.commit, time |-> source.time, asOf |-> inputs.asOf,
         sources |-> Cardinality(Active(inputs)), captured |-> inputs.extracts,
         failures |-> Inaccessible(inputs), displayed |-> inputs.decisions,
         high |-> inputs.high, restricted |-> inputs.restricted,
         reports |-> [publication |-> inputs.publishes, rendering |-> inputs.renders],
         guide |-> "guide", included |-> included]

StatusHolds(status) ==
    /\ status.asOf <= status.time
    /\ status.sources > 0 /\ status.displayed > 0
    /\ status.captured + Cardinality(status.failures) <= status.sources
    /\ status.high = 0 /\ status.restricted = 0
    /\ \A report \in DOMAIN status.reports : status.reports[report]
    /\ status.guide \in status.included /\ RequiredFiles \subseteq status.included

\* resolve_results_capture_urls: preliminary results are linked to at the built commit.
Links(source) == IF source.inputs.preliminary THEN source.commit ELSE 0
DataFiles(source) ==
    LET inputs == source.inputs
        dataset == [election |-> inputs.election, facts |-> inputs.facts]
        consensus == [election |-> inputs.election, time |-> source.time, races |-> source.time,
                      dataset |-> dataset]
    IN  [dataset |-> dataset,
         tables |-> inputs.facts,
         consensus |-> consensus,
         view |-> [election |-> inputs.election, time |-> source.time, commit |-> source.commit,
                   panel |-> inputs.panel, facts |-> inputs.facts, links |-> Links(source)],
         validation |-> [election |-> inputs.election, time |-> source.time],
         provenance |-> [election |-> inputs.election, time |-> source.time, dataset |-> dataset,
                         consensus |-> consensus, inputs |-> inputs.facts]]
\* build_publication_bundle, write_publication_bundle, build_rendered_guide and _release_notes
Files(source, shots) ==
    LET data == DataFiles(source)
    IN  [dataset |-> data.dataset, tables |-> data.tables, consensus |-> data.consensus,
         view |-> data.view, validation |-> data.validation, provenance |-> data.provenance,
         build |-> [election |-> source.inputs.election, time |-> source.time, commit |-> source.commit,
                    consensus |-> data.consensus, inputs |-> source.inputs.facts, hashes |-> data],
         notes |-> [time |-> source.time, commit |-> source.commit, facts |-> source.inputs.facts,
                    history |-> source.history],
         guide |-> [date |-> source.time, commit |-> source.commit, facts |-> source.inputs.facts,
                    links |-> Links(source)],
         screens |-> shots]

Tree(bundle) ==
    [f \in DOMAIN bundle.files \cup {"status"} |->
        IF f = "status" THEN bundle.status ELSE bundle.files[f]]
Present(bundle) == DOMAIN bundle.files \cup {"status", "manifest"}
ArtifactHashes(files, status) ==
    LET tree == Tree([files |-> files, status |-> status])
    IN  [f \in DOMAIN tree \ Unhashed |-> tree[f]]

Bundle(source, version, shots) ==
    LET files == Files(source, shots)
        status == ReleaseStatus(source, version, DOMAIN files \cup {"status", "manifest"})
    IN  [files |-> files, status |-> status,
         manifest |-> [version |-> version, panel |-> status.panel, time |-> source.time,
                       hashes |-> ArtifactHashes(files, status), unhashed |-> Unhashed]]

ManifestHolds(manifest) == manifest.hashes # << >> /\ manifest.unhashed = Unhashed

\* verify_release_bundle_artifacts: files beyond those declared are let pass here.
BundleVerifies(bundle) ==
    LET status == bundle.status  manifest == bundle.manifest
        hashed == DOMAIN manifest.hashes
    IN  /\ StatusHolds(status) /\ ManifestHolds(manifest)
        /\ manifest.version = status.version /\ manifest.time = status.time
        /\ manifest.panel = status.panel
        /\ hashed \cap manifest.unhashed = {}
        /\ hashed \cup manifest.unhashed = status.included \ {"manifest"}
        /\ status.included \subseteq Present(bundle)
        /\ \A f \in hashed : Tree(bundle)[f] = manifest.hashes[f]

\* compare_release_bundles: all that is hashed is the same, and the manifests are.
Reproduces(first, second) ==
    BundleVerifies(first) /\ BundleVerifies(second) /\ first.manifest = second.manifest

\* _verified_archive: the ZIP holds what its status includes and nothing else.
ArchiveHolds(bundle) == BundleVerifies(bundle) /\ Present(bundle) = bundle.status.included
================================================================================
