----------------------------- MODULE CandidateBuild -----------------------------
(***************************************************************************)
(* A candidate: two builds of one checkout that have to agree, the archive, *)
(* the site staged of it and of the releases downloaded for the elections   *)
(* gone by, and the record that binds them to a commit; later its recovery  *)
(* (release/candidate.py, builder.py; hosting/promotion.py).                *)
(*                                                                          *)
(* The command checks the checkout before and after, and reads it in        *)
(* between, in a directory where an earlier command may have left what it   *)
(* made.  People edit the checkout meanwhile, and undo it; the archives     *)
(* published for earlier elections may be replaced or withdrawn.  One       *)
(* record is followed, and one recovery of it.                              *)
(***************************************************************************)
EXTENDS HostedSite

CONSTANTS
    Commits,       \* a set of numbers, each the commit and its time
    Repository,    \* per commit: [inputs, history, site, log, calendar]
    Archives,      \* per version the archive that was published
    Altered,       \* what an archive may be replaced with
    Screens,       \* what a browser may shoot
    MaxAttempts,   \* bound: builds begun
    MaxEdits,      \* bound: times people edit the checkout
    MaxMoves       \* bound: times people check out another commit

VARIABLES
    head,        \* the commit checked out
    edited,      \* what of it is edited: "nothing", "data" or "code"
    job,         \* the build command, [step, source, made, backup, downloads]
    output,      \* what stands in the directory: builds a and b and the site, or None
    published,   \* per version the archive its release holds, or None
    records,     \* candidates recorded, [source, archive, site, kept], with their uploads
    recovered,   \* archives recovered for a source, [source, archive]
    budget       \* [attempts, edits, moves, replaced] so far

buildVars == <<head, edited, job, output, published, records, recovered, budget>>

NoCommand == [step |-> <<"idle", "">>, source |-> None, made |-> None, backup |-> None,
            downloads |-> << >>]
Declared(commit) == Repository[commit].site
CurrentOf(commit) == Declared(commit).elections[1]
\* A declaration lists its elections, each by a name (SiteManifest.elections).
ASSUME DeclarationsAssumption ==
    \A commit \in Commits :
        /\ Declared(commit).elections \in Seq(Elections(Declared(commit)))
        /\ \A d \in Elections(Declared(commit)) : d.election # ""
SourceOf(commit, inputs) ==
    [commit |-> commit, time |-> commit, history |-> Repository[commit].history, inputs |-> inputs]
\* what is read of the checkout
InputsRead ==
    IF edited = "nothing" THEN Repository[head].inputs
    ELSE [Repository[head].inputs EXCEPT !.facts.told = "edited"]

\* _require_checkout, _verify_checkout_identity; _require_declaration hashes the data alone.
Clean(commit) == head = commit /\ edited = "nothing"
DeclarationHolds(commit) == head = commit /\ edited # "data"

CandidateInit ==
    /\ head \in Commits /\ edited = "nothing" /\ job = NoCommand
    /\ output = [place \in {"a", "b", "site"} |-> None]
    /\ published = Archives
    /\ records = {} /\ recovered = {}
    /\ budget = [attempts |-> 0, edits |-> 0, moves |-> 0, replaced |-> 0]

----------------------------------------------------------------------------
(* The command *)

Builds == {"a", "b"}
Steps == <<<<"check", "a">>, <<"read", "a">>, <<"swap", "a">>,
           <<"check", "b">>, <<"read", "b">>, <<"swap", "b">>, <<"compare", "both">>,
           <<"resolve", "all">>, <<"stage", "site">>, <<"swap", "site">>, <<"recheck", "site">>>>
FollowingStep(step) == Steps[(CHOOSE i \in 1..Len(Steps) : Steps[i] = step) + 1]
Proceed == job' = [job EXCEPT !.step = FollowingStep(job.step)]
GiveUp == job' = NoCommand
\* bound: the directory matters until the record is taken of it
Followed == records = {}
Environment == <<head, edited, published, records, recovered>>

\* build_current_candidate
BeginBuild(commit) ==
    /\ job.step[1] = "idle" /\ Followed /\ budget.attempts < MaxAttempts
    /\ Clean(commit) /\ DeclarationHolds(commit)
    /\ job' = [NoCommand EXCEPT !.step = Steps[1], !.source = commit]
    /\ budget' = [budget EXCEPT !.attempts = @ + 1]
    /\ UNCHANGED <<Environment, output>>
\* build_release asks for the checkout once, before it reads
CheckCheckout(b) ==
    /\ job.step = <<"check", b>>
    /\ IF Clean(job.source) THEN Proceed ELSE GiveUp
    /\ UNCHANGED <<Environment, output, budget>>
ReadCheckout(b, shots) ==
    /\ job.step = <<"read", b>>
    /\ LET built == Bundle(SourceOf(job.source, InputsRead), CurrentOf(job.source).version, shots)
       IN  IF BundleVerifies(built)
           THEN /\ job' = [job EXCEPT !.step = FollowingStep(job.step), !.made = built, !.backup = output[b]]
                /\ output' = [output EXCEPT ![b] = None]
           ELSE GiveUp /\ UNCHANGED output
    /\ UNCHANGED <<Environment, budget>>
\* _replace_output: what stood there was moved away, and comes back when the move in fails.
MoveIn(place) ==
    /\ job.step = <<"swap", place>>
    /\ \/ /\ output' = [output EXCEPT ![place] = job.made]
          /\ job' = [job EXCEPT !.step = FollowingStep(job.step), !.made = None, !.backup = None]
       \/ output' = [output EXCEPT ![place] = job.backup] /\ GiveUp
    /\ UNCHANGED <<Environment, budget>>
Compare ==
    /\ job.step = <<"compare", "both">>
    /\ IF Reproduces(output.a, output.b) /\ ArchiveHolds(output.a) THEN Proceed ELSE GiveUp
    /\ UNCHANGED <<Environment, output, budget>>
\* stage_current_candidate, _resolve_released_bundles: one release after the other is downloaded.
Awaited == {d \in Elections(Declared(job.source)) \ {CurrentOf(job.source)} : d.bundle \notin DOMAIN job.downloads}
Resolve ==
    /\ job.step = <<"resolve", "all">>
    /\ IF Awaited = {} THEN IF DeclarationHolds(job.source) THEN Proceed ELSE GiveUp
       ELSE \E d \in Awaited :
              IF CanMaterialize(d, published)
              THEN job' = [job EXCEPT !.downloads = With(@, d.bundle, published[d.version])]
              ELSE GiveUp
    /\ UNCHANGED <<Environment, output, budget>>
Stage ==
    /\ job.step = <<"stage", "site">>
    /\ LET site == Declared(job.source)
           bundles == With(job.downloads, CurrentOf(job.source).bundle, output.a)
           staged == Staged(site, bundles, Repository[head].log, Repository[job.source].calendar)
       IN  IF CanStage(site, bundles, Repository[head].log, job.source) /\ StagedVerifies(staged, site, job.source)
           THEN /\ job' = [job EXCEPT !.step = FollowingStep(job.step), !.made = staged, !.backup = output.site]
                /\ output' = [output EXCEPT !.site = None]
           ELSE GiveUp /\ UNCHANGED output
    /\ UNCHANGED <<Environment, budget>>
\* the staged site is verified once more, and the checkout is asked for again
Recheck ==
    /\ job.step = <<"recheck", "site">>
    /\ IF StagedVerifies(output.site, Declared(head), job.source) /\ Clean(job.source)
       THEN job' = NoCommand ELSE GiveUp
    /\ UNCHANGED <<Environment, output, budget>>
BuildDies == job.step[1] # "idle" /\ GiveUp /\ UNCHANGED <<Environment, output, budget>>

----------------------------------------------------------------------------
(* The record and its recovery *)
\* *mutation*: the staged release manifest is not compared with the archive's
VerifiesApart(record, archive, site) ==
    /\ record.archive = archive /\ ArchiveHolds(archive)
    /\ archive.status.commit = record.source /\ archive.status.time = record.source
    /\ StagedVerifies(site, Declared(record.source), record.source)
    /\ record.site = site

\* verify_candidate: declaration, site manifest and input digests are those of the source.
VerifyCandidate(record, archive, site) ==
    /\ record.archive = archive /\ ArchiveHolds(archive)
    /\ archive.status.commit = record.source /\ archive.status.time = record.source
    /\ StagedVerifies(site, Declared(record.source), record.source)
    /\ site.deployment.elections[1].manifest = archive.manifest
    /\ record.site = site
\* record_candidate takes what stands in the directory, whoever left it there.
RecordCandidate ==
    /\ job.step[1] = "idle" /\ Clean(head) /\ records = {}
    /\ output.a # None /\ output.site # None
    /\ output.a.status.version = CurrentOf(head).version
    /\ LET record == [source |-> head, archive |-> output.a, site |-> output.site, kept |-> TRUE]
       IN  VerifyCandidate(record, output.a, output.site) /\ records' = records \cup {record}
    /\ UNCHANGED <<head, edited, job, output, published, recovered, budget>>
ArtifactsExpire(record) ==
    /\ record.kept /\ records' = (records \ {record}) \cup {[record EXCEPT !.kept = FALSE]}
    /\ UNCHANGED <<head, edited, job, output, published, recovered, budget>>

\* recover_candidate: the uploads when they are kept, or all of it again in a fresh worktree
Downloads(commit) ==
    [b \in {d.bundle : d \in Elections(Declared(commit)) \ {CurrentOf(commit)}} |->
        published[(CHOOSE d \in Elections(Declared(commit)) : d.bundle = b).version]]
Rebuild(record, built) ==
    LET site == Declared(record.source)
        bundles == With(Downloads(record.source), CurrentOf(record.source).bundle, built)
    IN  /\ ~record.kept /\ BundleVerifies(built)
        /\ \A d \in Elections(site) \ {CurrentOf(record.source)} : CanMaterialize(d, published)
        /\ CanStage(site, bundles, Repository[record.source].log, record.source)
        /\ recovered' = recovered \cup {[source |-> record.source, archive |-> built]}
RecoverCandidate(record) ==
    /\ recovered = {}
    /\ \/ /\ record.kept /\ VerifyCandidate(record, record.archive, record.site)
          /\ recovered' = recovered \cup {[source |-> record.source, archive |-> record.archive]}
       \/ \E shots \in Screens :
            Rebuild(record, Bundle(SourceOf(record.source, Repository[record.source].inputs),
                                   CurrentOf(record.source).version, shots))
    /\ UNCHANGED <<head, edited, job, output, published, records, budget>>

----------------------------------------------------------------------------
(* People, and the store of the releases *)

EditCheckout(kind) ==
    /\ edited = "nothing" /\ Followed /\ budget.edits < MaxEdits
    /\ edited' = kind /\ budget' = [budget EXCEPT !.edits = @ + 1]
    /\ UNCHANGED <<head, job, output, published, records, recovered>>
UndoEdit ==
    /\ edited # "nothing" /\ edited' = "nothing"
    /\ UNCHANGED <<head, job, output, published, records, recovered, budget>>
CheckOut(commit) ==
    /\ commit # head /\ Followed /\ edited = "nothing" /\ budget.moves < MaxMoves
    /\ head' = commit /\ budget' = [budget EXCEPT !.moves = @ + 1]
    /\ UNCHANGED <<edited, job, output, published, records, recovered>>
ReplaceArchive(version, archive) ==
    /\ budget.replaced = 0 /\ published[version] # archive
    /\ published' = [published EXCEPT ![version] = archive]
    /\ budget' = [budget EXCEPT !.replaced = 1]
    /\ UNCHANGED <<head, edited, job, output, records, recovered>>

CandidateNext ==
    \/ \E commit \in Commits : BeginBuild(commit) \/ CheckOut(commit)
    \/ \E b \in Builds : CheckCheckout(b) \/ \E shots \in Screens : ReadCheckout(b, shots)
    \/ \E place \in {"a", "b", "site"} : MoveIn(place)
    \/ Compare \/ Resolve \/ Stage \/ Recheck \/ BuildDies
    \/ RecordCandidate
    \/ \E record \in records : ArtifactsExpire(record) \/ RecoverCandidate(record)
    \/ \E kind \in {"data", "code"} : EditCheckout(kind)
    \/ UndoEdit
    \/ \E version \in DOMAIN Archives, archive \in Altered \cup {None} : ReplaceArchive(version, archive)
CandidateSpec == CandidateInit /\ [][CandidateNext]_buildVars

----------------------------------------------------------------------------
(* Properties *)

(***************************************************************************)
(* A candidate is its source: whoever edited the checkout while it was read *)
(* (and undid it), whatever an earlier command left in the directory, and   *)
(* whatever the releases of earlier elections came to hold, what is         *)
(* recorded or recovered is the release of that commit, and the site        *)
(* recorded with it shows that release and, of earlier elections, the very  *)
(* bundles that are pinned.  (build_current_candidate, record_candidate,    *)
(* recover_candidate; the log and the calendar are not edited here: an edit *)
(* of these that is undone while the site is staged is seen by no check.)   *)
(***************************************************************************)
IsBuiltOf(archive, commit) ==
    \E shots \in Screens :
        archive = Bundle(SourceOf(commit, Repository[commit].inputs), CurrentOf(commit).version, shots)
Shows(site, declaration, bundle) ==
    LET root == declaration.election
    IN  /\ site.assets[Page(Home(root))].guide = bundle.files.guide
        /\ site.assets[At(root, <<"release-manifest.json">>)] = bundle.manifest
        /\ \A r \in Facts(bundle).races : site.assets[Page(At(root, <<"races", r>>))].told = Facts(bundle).told
IsOf(site, commit) ==
    LET declared == Declared(commit)
    IN  /\ \E shots \in Screens :
              Shows(site, CurrentOf(commit),
                    Bundle(SourceOf(commit, Repository[commit].inputs), CurrentOf(commit).version, shots))
        /\ \A i \in 2..Len(declared.elections) :
              Shows(site, declared.elections[i], declared.elections[i].bundlePin)
CandidateIsItsSource ==
    /\ \A r \in records : IsBuiltOf(r.archive, r.source) /\ IsOf(r.site, r.source)
    /\ \A r \in recovered : IsBuiltOf(r.archive, r.source)

(***************************************************************************)
(* Every address of the site that stands in the directory leads to a page:  *)
(* what the worker lets through has an asset, what it sends on is answered  *)
(* there at once and never goes round, and so is every link of the pages of *)
(* the whole site.  Races, comparisons and updates come and go with the     *)
(* bundles, in assets, public paths, redirects and links that are written   *)
(* by separate code.  (stage_pages_site, _pages_worker)                     *)
(***************************************************************************)
Addresses(worker) ==
    worker.public \cup {<<"">>, <<"e">>, <<"about">>}
    \cup {Front(path) : path \in {p \in worker.public : Len(p) > 1}}
    \cup UNION {Retired(root) \cup {root \o <<"compare">>, Slash(root \o <<"compare">>), root \o <<"guide.pdf">>}
                : root \in worker.roots}
Leads(staged) ==
    LET worker == staged.assets[<<"_worker.js">>]
    IN  /\ \A path \in worker.public \cup worker.missing.links : Served(staged.assets, path)
        /\ \A address \in Addresses(worker) : \A next \in Redirected(worker, address) :
              next \in worker.public /\ Redirected(worker, next) = {} /\ Served(staged.assets, next)
EveryAddressLeads == output.site # None => Leads(output.site)
================================================================================
