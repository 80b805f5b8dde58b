----------------------------- MODULE ReleaseLineage -----------------------------
(***************************************************************************)
(* The comparison of a published release with the bundle that production    *)
(* was built from at a later commit (release/lineage.py): commit, time and  *)
(* every digest that depends on them are set aside, and all else must be    *)
(* the same.                                                                *)
(***************************************************************************)
EXTENDS ReleaseBundle

CONSTANTS
    Bundles,      \* bundles at hand, built or tampered with
    Descends,     \* pairs of commits, the first an ancestor of the second
    Genuine       \* the sources a genuine release is built of

\* A bundle, its status, its manifest and the files that are compared field by field are
\* records, as the models they are validated with (release/models.py and publication's).
Record(r) == r = [field \in DOMAIN r |-> r[field]]
BundlesAssumption ==
    \A bundle \in Bundles :
        /\ Record(bundle) /\ DOMAIN bundle = {"files", "status", "manifest"}
        /\ Record(bundle.status) /\ Record(bundle.manifest) /\ Record(bundle.manifest.hashes)
        /\ Record(bundle.files) /\ DOMAIN bundle.files \cap {"status", "manifest"} = {}
        /\ \A f \in DOMAIN bundle.files \cap
                    {"consensus", "view", "validation", "provenance", "build", "notes", "guide"} :
              Record(bundle.files[f])
        /\ "build" \in DOMAIN bundle.files => Record(bundle.files.build.hashes)
GenuineAssumption == \A source \in Genuine : DOMAIN source = {"commit", "time", "history", "inputs"}
ASSUME BundlesAssumption
ASSUME GenuineAssumption

VARIABLE report   \* the comparison made: [release, production, commits, passed]

\* _load_bundle with _verify_internal_identities
InternalIdentities(bundle, commit) ==
    LET f == bundle.files  status == bundle.status
    IN  /\ \A name \in {"dataset", "consensus", "view", "validation", "provenance", "build"} :
              f[name].election = status.election
        /\ \A name \in {"consensus", "view", "validation", "provenance", "build"} :
              f[name].time = status.time
        /\ bundle.manifest.time = status.time
        /\ f.build.commit = commit /\ f.view.commit = commit
        /\ f.view.panel = status.panel
        /\ f.consensus.dataset = f.dataset /\ f.provenance.dataset = f.dataset
        /\ f.build.consensus = f.consensus /\ f.provenance.consensus = f.consensus
        /\ f.build.inputs = f.provenance.inputs
        /\ \A name \in DOMAIN f.build.hashes : name \in DOMAIN f /\ f[name] = f.build.hashes[name]
Loads(bundle, commit) ==
    /\ BundleVerifies(bundle) /\ bundle.status.commit = commit
    /\ Present(bundle) = bundle.status.included
    /\ InternalIdentities(bundle, commit)

ReleaseIdentity(bundle) ==
    [dataset |-> bundle.files.dataset, scored |-> bundle.files.consensus.dataset,
     inputs |-> bundle.files.provenance.inputs, panel |-> bundle.status.panel,
     election |-> bundle.status.election, version |-> bundle.status.version]

Plain == "commit-bound"
\* *mutation*: the facts of the guide are set aside as well
GuidePlain(guide) == [date |-> Plain, commit |-> Plain, facts |-> Plain, links |-> Plain]

NormalizedGuide(guide) == [guide EXCEPT !.date = Plain, !.commit = Plain]
\* _normalized_artifacts: the digests are taken again of what has been set aside.
NormalizedConsensus(f) == [f.consensus EXCEPT !.time = Plain, !.races = Plain]
NormalizedData(f) ==
    [f EXCEPT !.consensus = NormalizedConsensus(f),
              !.view = [f.view EXCEPT !.time = Plain, !.commit = Plain],
              !.validation = [f.validation EXCEPT !.time = Plain],
              !.provenance = [f.provenance EXCEPT !.time = Plain, !.consensus = NormalizedConsensus(f)],
              !.notes = [f.notes EXCEPT !.time = Plain, !.commit = Plain],
              !.guide = NormalizedGuide(f.guide)]
NormalizedBuild(f) ==
    [f.build EXCEPT !.time = Plain, !.commit = Plain, !.consensus = NormalizedConsensus(f),
                    !.hashes = [name \in DOMAIN f.build.hashes |-> NormalizedData(f)[name]]]
NormalizedFiles(f) == [NormalizedData(f) EXCEPT !.build = NormalizedBuild(f)]
Normalized(bundle) ==
    LET files == NormalizedFiles(bundle.files)
        status == [bundle.status EXCEPT !.time = Plain, !.commit = Plain]
    IN  [files |-> files, status |-> status,
         manifest |-> [bundle.manifest EXCEPT !.time = Plain,
                          !.hashes = [f \in DOMAIN @ |-> Tree([files |-> files, status |-> status])[f]]]]
\* The notes and the guide state their commit and time once, or nothing is set aside.
StatesItsBuild(bundle) ==
    /\ bundle.files.notes.time = bundle.status.time /\ bundle.files.notes.commit = bundle.status.commit
    /\ bundle.files.guide.date = bundle.status.time /\ bundle.files.guide.commit = bundle.status.commit
    /\ bundle.files.consensus.races = bundle.status.time

SameContent(release, production) ==
    LET hashed(b) == DOMAIN b.manifest.hashes
    IN  /\ hashed(release) = hashed(production)
        /\ \A f \in hashed(release) : Tree(Normalized(release))[f] = Tree(Normalized(production))[f]
        /\ Normalized(release).manifest = Normalized(production).manifest

\* verify_release_lineage
LineagePasses(release, production, commits) ==
    /\ commits[1] # commits[2] /\ commits \in Descends
    /\ Loads(release, commits[1]) /\ Loads(production, commits[2])
    /\ ReleaseIdentity(release) = ReleaseIdentity(production)
    /\ StatesItsBuild(release) /\ StatesItsBuild(production)
    /\ SameContent(release, production)
    /\ release.manifest.unhashed = production.manifest.unhashed

LineageInit == report = << >>
VerifyLineage(release, production, commits) ==
    report' = [release |-> release, production |-> production, commits |-> commits,
               passed |-> LineagePasses(release, production, commits)]
LineageNext ==
    report = << >> /\ \E release, production \in Bundles :
        \E commits \in {release.status.commit, production.status.commit} \X {production.status.commit} :
            VerifyLineage(release, production, commits)

LineageSpec == LineageInit /\ [][LineageNext]_report

(***************************************************************************)
(* Whoever compares with a genuine release learns whether production was    *)
(* built of the very same inputs and history at a later commit, at whatever *)
(* time, and nothing that readers see, count or can audit has changed: an   *)
(* intact rebuild passes and no other bundle does.  (verify_release_lineage;*)
(* the screenshots alone are left out, which no build repeats.)             *)
(* Preliminary results are the exception: their links name the commit, and  *)
(* no normalisation takes that out, so that an intact rebuild is refused.   *)
(***************************************************************************)
Shots == {bundle.files.screens : bundle \in {b \in Bundles : "screens" \in DOMAIN b.files}}
BuiltAs(bundle, source, version) ==
    BundleVerifies(bundle) /\ \E shots \in Shots : bundle = Bundle(source, version, shots)
Rebuilt(bundle, source) ==
    BuiltAs(bundle, [source EXCEPT !.commit = bundle.status.commit, !.time = bundle.status.time],
            bundle.status.version)
LineageIsTheRelease ==
    report # << >> => \A source \in Genuine :
        BuiltAs(report.release, source, report.release.status.version) =>
            LET release == report.release  production == report.production
                later == /\ report.commits = <<release.status.commit, production.status.commit>>
                         /\ report.commits[1] # report.commits[2] /\ report.commits \in Descends
                         /\ production.status.version = release.status.version
            IN  /\ ~source.inputs.preliminary =>
                        (report.passed <=> later /\ Rebuilt(production, source))
                /\ source.inputs.preliminary /\ Rebuilt(production, source) => ~report.passed
================================================================================
