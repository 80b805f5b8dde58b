# Seattle election guide: a verification development

The repository collects endorsements, scores them, builds a static election guide and publishes
it. This project models it in TLA+, from what the sources said to the page a reader sees and to
the upload that puts it there, checks the models with TLC on small instances and proves what
matters most with TLAPS for every value of the constants.

What is hard to test in this repository is of two kinds. First, everything with state outside the
process: a reviewed release reaches production through several GitHub workflow jobs, retried by
people, that share releases, deployments, issue comments and workflow artifacts, and any step may
be the last one a run makes; so do the scheduled jobs that refresh sources, results and issues.
Second, pure code whose parts must agree without calling each other: a compiler and the
cross-checks of its output, an engine in Python and its lens in JavaScript, pages and the links,
redirects and assets that lead to them.

## Files

| File | What it is |
| --- | --- |
| `ReleaseContract.tla` | What delivery promises, without any of its machinery |
| `ReleaseDelivery.tla` | The delivery of releases, its properties, its refinement of the contract |
| `ReceiptLog.tla` | What the evidence of a release promises its readers |
| `ReleaseEvidence.tla` | The evidence as comments: parts, indexes, seal, interrupted and repeated retention |
| `ReleaseAdmission.tla` | From a declaration on a branch to a published release |
| `ReleaseBundle.tla` | What a build makes, its manifest and its checks |
| `CandidateBuild.tla` | The command that builds twice, stages the site and records the candidate; its recovery |
| `HostedSite.tla` | Staging: pages, public paths, redirects, the updates snapshot |
| `UpdatesGate.tla` | The gate that reads production before an upload |
| `ReleaseLineage.tla` | The comparison of a release with the bundle of a later commit |
| `ProductionCheck.tla` | What a production check asks and how it judges the answers |
| `DeadlineAlarm.tla` | The SIGALRM deadline around the decoding of a report |
| `ProductionWait.tla` | The wait for two equal passes; composes the two modules above |
| `EvidenceStore.tla` | The local store of artifacts and manifests, written by several processes |
| `SourceRefresh.tla` | The refreshes of one source: lock, captures, snapshots, events |
| `VerificationSchedule.tla`, `Verification.tla` | What endorsement verification owes on a day; the workflow that does it and files it |
| `CalendarTracking.tla` | The calendar's job: milestone issues and their escalation |
| `LinkRot.tla` | The check of cited links and its one alert issue |
| `Election.tla` | Races, choices, sources and what a source may say |
| `CanonicalDataset.tla` | Matching, and the cross-checks of the canonical dataset |
| `LedgerCompilation.tla` | The ledger's compilation and the replacement of its three files |
| `ReviewQueue.tla` | Normalization, review and overrides by processes at once |
| `Scoring.tla` | The consensus of every race and its self-checks |
| `PublicationView.tla` | The view model, the two client contracts, the public projection |
| `Publication.tla` | The lens in the browser, and the export of bundles |
| `PreliminaryRefresh.tla` | The hourly job of the preliminary results |
| `ResultsTally.tla` | The commands that read an export into the results file |
| `MC*.tla`, `MC*.cfg` | The instances TLC checks; `MCElection`, `MCResults` and `MCPublication` only hold constants |
| `*Proofs.tla` | The proofs, see *What is proved* |
| `PROJECT.json` | Components, runs, the map from definitions to source lines, mutations, findings, hazards, theorems |

A definition commented as a *mutation* is a plausible bug of the definition that follows it; the
specification does not use it. Replacing the definition by its mutation must break the property
PROJECT.json names beside it.

## Inventory

| Component | State | Operations | Hard behaviours | What makes it correct |
| --- | --- | --- | --- | --- |
| Release delivery (`release/publication.py`, `workflow.py`, `automation_cli.py`, `ci.yml`, `verify-release.yml`) | GitHub release, asset and tag; receipts on the owning issue; owned deployments and statuses; retained artifacts; production | publish, retain, admit, create, upload, recover, finalize, record success | crash between any two steps, reruns that build other bytes, lost responses, uncertain uploads, expiring artifacts, main and the switch changing under a run | one upload per release, evidence before upload, only published bytes served, no regression, interrupted uploads finishable |
| Release selection (`hosting/promotion.py`, `release/declaration.py`) | site manifest and declaration on main and on branches, published tags | prepare a declaration, validate a request, admit a merge, reserve and publish, select for promotion | a boundary published after a request was prepared, merges over a main that moved, reruns long after | a release is published over the inputs and boundary that were reviewed |
| Durable evidence log (`release/evidence.py`) | owned issue comments: parts, indexes, seal | retain, load, assemble, check canonical | crash between comments, retry, unsealed fragments | a receipt is all there or not there; no two receipts disagree on the archive or the upload |
| Bundles and candidates (`release/builder.py`, `candidate.py`, `comparison.py`, `lineage.py`, `compiler.py`) | the checkout, build directories, archives of releases, the recorded candidate; the ledger and its generated files | compile, build twice, stage, record, recover, compare | edits during a build, leftovers of an earlier command, replaced archives, failing renames | a candidate is its source; a compilation is whole; a lineage passes exactly for rebuilds |
| Hosting (`hosting/pages.py`, `releases.py`, `updates.py`, `updates_baseline.py`) | the staged assets, the worker, production's snapshot | stage, serve, read the baseline, compare | elections without comparisons, results or updates; production put back between two requests | every address leads to a page; no silent change |
| Production wait (`hosting/production_wait.py`, `production_check.py`, `production_probe.py`) | attempts, run of passes, deadline, the signal handler | probe, decode, wait | a pass after the deadline, a site that moves during a probe, a worker that hangs, a signal in the middle of its removal | success only for two consecutive equal strict passes in time; the caller's handler untouched |
| Evidence storage (`evidence/storage.py`) | artifacts by hash, immutable manifests | store, record, verify | concurrent writers, no hard links, a crash mid-copy | records never change; a manifest's bytes exist |
| Source refresh (`collection/refresh.py`) | per-source events and snapshots, a lock | refresh, record failure | crash between snapshot and event, several processes | events form one ordered history per source |
| Endorsement verification (`collection/verification*.py`, `endorsement-verification.yml`) | check records on the archive branch, records of people on main, issues | run, push, reconcile tasks, watch | lost runs, retried issue calls, closed issues | every due day has a record; each observation is filed once and where people see it |
| Calendar tracking (`calendar/`) | issues with markers, artifacts on main | plan, create, close, escalate | failure between two calls, people who edit and copy issues | one issue per milestone, each stage once, no loss stays quiet |
| Alerts and link rot (`single_issue_alert.py`, `sources/link_*`) | a cached file, one alert issue | check, confirm, raise, close | failing jobs, lost cache, people who close alerts | only confirmed rot is raised, and it is raised |
| Normalization and review (`normalization/`, `review` commands) | review items, decisions, endorsements, overrides, locks | match, approve, reject, override | two commands at once, death between read and write | what is written adds up to an admissible dataset and only grows |
| Scoring (`scoring/`) | none | score, compare | splits, ties, abstentions, thin panels | the report passes its own checks; only the panel moves a race |
| Publication and personalization (`publication/`, `rendering/templates/lens-score.mjs`) | the output directory and its previous generation | view, project, export; the lens in the browser | a second engine in another language; a copy no validator runs on; kills between renames | the lens is the engine; the projection is the report; whole generations only |
| Preliminary results (`results/`, `preliminary-results.yml`) | the results file, the refresh branch and pull request, intent and cached state | take up, request, prepare, publish, save; ingest | a job that dies with a denial, a lost cache, a branch taken up hours later; wrong exports | no publisher is asked past a denial; main is told; the file says what its capture says |
| Inventory, initialization, corrections, registry of sources | none (reviewed YAML) | load and validate | none of ordering | identities and roles agree |
| Rendering, fetching, discovery adapters, analytics, `cli.py` | none shared | build, fetch and parse files | none of ordering | not modelled |

How they interact: collection, evidence storage, results and calendar jobs run by themselves and
meet the rest only through files reviewed and merged into main. The ledger is compiled into the
canonical dataset, which is scored, published and built into a bundle. A merge to main starts CI.
Selection admits the declared request; delivery publishes the candidate archive and keeps a
receipt in the evidence log before anything is uploaded; the deploy job compares the staged site
with production (the updates gate), reads main, the switch, the evidence log and the deployments
again, then creates the deployment and uploads once; finalization calls the production wait and
seals its verdict in the evidence log. `verify-release.yml` repeats finalization alone. Mainline
CI and verification share one concurrency group, so at most one of them runs.

## The delivery model

A *version* `n` is the n-th release merged to main, which is how `validate_release_request` orders
release versions. A *job* `[version, attempt]` is one producing workflow attempt (`Producer`); it
names that attempt's publication, deployment and upload. An *archive* is named by the attempt that
built it, so "the rerun's own bytes" and "the published bytes" differ.

| State | In the code |
| --- | --- |
| `selected`, `conflict` | `config/hosting/site.yaml` on main: the declared version, and whether it was redeclared with other content |
| `enabled` | the variable `CLOUDFLARE_PAGES_ENABLED` |
| `release`, `asset`, `interrupted` | the GitHub release, its archive, an asset whose state is not `uploaded` |
| `receipts` | sealed `OperationReceipt` groups on the owning issue |
| `deployments`, `status` | owned GitHub deployments and their statuses |
| `uploadedAt`, `clock` | `UploadReceipt.uploaded_at` |
| `retained` | the artifact `upload-<run>-<attempt>`: a report that proves the upload, or one that leaves it uncertain |
| `live` | what the canonical origin serves |
| `pc`, `job`, `archive`, `disk`, `operation` | the one run holding the lock: its next step, its job, the publication it carries, `dist/upload` on its runner |

| Actions | In the code |
| --- | --- |
| `StartDelivery` | a push, rerun or dispatch of `ci.yml` |
| `CreateDraft`, `ResumeDraft`, `ReusePublished`, `UploadAsset`, `UploadAssetInterrupted`, `PublishDraft` | `publish_candidate` |
| `RetainPublication` | `release automation retain-publication` |
| `Admit` | `delivery-check` (`admit_upload`, `promotion_allowed`, `latest_production_receipt`) |
| `CreateDeployment`, `CreateRefused` | `create-deployment` |
| `Upload`, `UploadUncertain`, `RecordInProgress` | `upload` (`perform_upload`, `write_deployment_status`) |
| `DeployStepFails` | an API error in one of these: `retain_delivery_failure` keeps `operation.json` |
| `Preserve`, `RetainOperation` | the `always()` artifact of the deploy job, and the finalize job's first branch |
| `StartVerification` | `verify-release.yml` with `recover_upload` |
| `RetainUpload`, `ProbePasses`, `FinalizeFails`, `RetainVerified`, `RetainFailed` | `finalize_deployment` |
| `RecordSuccess` | `deployment-status` |
| `Merge`, `MergeConflicting`, `SwitchUploads`, `Expire`, `Crash` | people, time and machines |

Choices worth knowing:

- Each action is one externally visible effect with the checks in front of it. A crash between two
  effects is `Crash`: the run ends and its disk is lost. That also covers a job that fails where no
  step keeps evidence (`make check-updates`, an artifact download).
- A response may be lost after the effect: `CreateDeployment` and `RecordInProgress` each have a
  disjunct in which the run goes on as if the call had failed.
- An uncertain upload (Wrangler failed, or printed no unique URL) may or may not have taken effect.
- Publishing a draft creates its tag in the same step, as GitHub does. A receipt is sealed in one
  step; `ReleaseEvidence` models the comments below it and shows that readers see it so.
- `recover_upload` writes nothing, so its checks are the guard of `StartVerification`.
- `StartDelivery` admits any merged version at any time, which is more than `_admit_request` does.
- A conflicting redeclaration is one whose own run fails the request check; it still selects, so
  it keeps other runs from production.
- GitHub's automatic `inactive` counts as success, as in `latest_production_receipt`.

## The evidence model

`ReleaseEvidence` is one release's evidence at the level of issue comments. A *receipt* is named by
the digest of its bytes, the `group` of the code's markers. Its reports are cut into parts of one
comment each (`_parts`), `receipt.json` last among them as `sorted` puts it; then come one or more
levels of index, each listing the comments below by id, and the seal, which lists the topmost level.
These are the receipt's *stages*; how many and of how many parts are constants, because they depend
only on lengths. A comment's id is its position.

| State | In the code |
| --- | --- |
| `comments` | the bot's comments on the owning issue with the evidence marker: group, stage, part and, for an index or seal, the ids listed |
| `writer`, `stage`, `posted`, `refs` | the one call of `retain_evidence`: its receipt, the `retain` it is in, the comments of that list it has (`retained`), the list it is writing about (`refs`, `index_refs`) |
| `interruptions` | how many writers died or were refused |

| Actions | In the code |
| --- | --- |
| `Start` | `retain_evidence` up to its second canonical check: `_comments`, `_completed` and `_check_canonical_receipts` must accept what is there |
| `PostPart` | one turn of `retain` that finds no such part and posts it |
| `ReusePart` | one turn that finds the part; another content is an error and ends the call |
| `PostPartLost` | the comment is posted, the response is not read |
| `Interrupt` | the process dies or the call fails before the comment |

Choices worth knowing:

- Receipts are retained in any order and any number of times; which receipt a step of delivery
  retains is `ReleaseDelivery`'s business. A rerun has another producer, hence another receipt.
- There is one writer, because mainline CI and verification share a concurrency group. It reads the
  comments once; as no one else adds evidence meanwhile, its dictionary and the issue agree.
- A comment exists when the writer's process ends or it never will. Without that, a late comment
  could duplicate one its successor posts, and `_comments` would reject the evidence from then on.
- Comments are only added, and those of other people are ignored (`workflow_owned`). The hashes in
  the markers are taken to identify contents.
- Every receipt of the constants passes `_validate_receipt` by itself. `Contradicts` is what two
  valid receipts of a release may still disagree on.

## The store model

`EvidenceStore` is `evidence/storage.py` run by several processes at once: nothing in the code
takes a lock around it. A *capture* is one call of `record_capture`, or of `record_observation` or
`record_unavailable`, which have no bytes to keep. It installs its bytes under their hash, then its
manifest under the capture's name, both by `_install_exclusive`.

| State | In the code |
| --- | --- |
| `links` | for the artifact and the manifest directory, whether `os.link` works there |
| `files` | what each path holds and how many chunks of it are written |
| `progress`, `recording`, `phase` | per process: its next step, its capture, the directory it installs into |
| `returned`, `refused` | captures that returned; captures and directories that raised `ImmutableRecordError` |
| `failures` | deaths and failed copies so far |

| Actions | In the code |
| --- | --- |
| `Begin` | a call of `record_capture`, `record_observation` or `record_unavailable`, up to its first installation |
| `Link` | `os.link` of the finished temporary file, or `FileExistsError` |
| `OpenCopy`, `CopyChunk`, `CloseCopy` | the fallback: `os.open` with `O_EXCL`, `copyfileobj`, flush and close |
| `CopyFails` | an exception in the copy, which unlinks the destination and is raised again |
| `Compare` | the hash of an existing artifact, or `read_bytes` of an existing record, and its outcome |
| `Die` | a kill, or an error elsewhere in the call |

Choices worth knowing:

- The temporary files have names of their own and are removed by their process; they are left out.
- Hashes identify contents, so an artifact's path is its content. A manifest's name holds only
  twelve digits of its hash, so two captures may share one; `Name` is any function.
- Reading an existing file is one step, though it may take several: a file only grows or vanishes,
  and a reader that saw it whole had it whole at the end of the read.
- A file's directory entry and contents survive a killed process; a machine that loses its disk
  cache is not modelled.
- `write_immutable_record` is also what refreshes, discovery and verification write their events
  with; `record_observation` stands for such a record without bytes.

## The refresh model

`SourceRefresh` is the history of one source in `collection/refresh.py`. Sources share directories
but no records, and each has its own lock, so one suffices. A refresh reads its artifact, takes the
lock, reads the end of the history, records what it observed or captured, extracts a snapshot, and
writes the event that commits it. The event's name in the code is derived from its content, so the
records are sets.

| State | In the code |
| --- | --- |
| `captures` | the source's manifests, captured (`kept`) or only observed |
| `bytes` | contents in the local artifact store |
| `snapshots`, `events` | `extraction-*.json`, `refresh-*.json` |
| `lock` | the `flock` of `_source_lock` |
| `pc`, `task`, `latest`, `capture` | per process: its next record, its request, the `latest_event` it read, the capture it works from |
| `disturbances` | deaths, changed inputs and lost artifacts so far |

| Actions | In the code |
| --- | --- |
| `Begin` | `refresh_source` up to `_committed_snapshot`; a request that does not extend the history raises and changes nothing |
| `Observe`, `Capture` | `record_observation` and `record_capture`, which read the input once more |
| `Reuse` | an existing capture of the same bytes, or this refresh's observation, is taken |
| `VerificationFails`, `ExistingFails`, `ExtractionFails`, `Fail` | the calls of `_record_failure_locked` |
| `RecordUnchanged`, `WriteSnapshot`, `Commit` | the event of an unchanged source; the snapshot; the event of a changed one |
| `RecordFailure` | `record_refresh_failure`, after a failed fetch |
| `Die`, `LoseBytes` | a kill or failing call; local artifacts, which Git does not hold, are gone |

Choices worth knowing:

- Records appear whole, as `EvidenceStore` shows of directories with hard links. A capture's bytes
  and manifest are one step here.
- Content and extractor stand for the digests of the page and of adapter, parser version and
  recognized text. Extraction may fail or not, whatever they are.
- Both retention modes may alternate on one source. A source whose snapshot was only observed then
  fails every `retain_original` refresh, as the code does.
- Check times are the callers' and may come in any order; `Begin` refuses those that came too late.

## The admission model

`ReleaseAdmission` follows a release from the declaration on a branch to its publication. A
*branch* holds its fork, its tree (version, request, inputs, code) and how far it has come; main is
linear. `OpenBranch`, `EditBranch`, `ReadVersions` and `Prepare` are a person's work up to
`release automation prepare`; `CheckRequest` is `validate-request` on the pull request;
`MergeBranch` merges over whatever main has become since, unless the two conflict; `Rebase` moves a
branch. A mainline run is `Preflight`, `AdmitSource`, `ReserveDraft` or `FindPublished`, and
`PublishDraft`; it may fail at any step (`RunFails`), leave a broken asset (`UploadBreaks`) and be
repeated for any commit at any later time.

What the model shows of the code beyond its properties: a recovery may keep its boundary, version
1, although version 2 was published in between by a late rerun; and a broken or left-over draft
reserves its version until a rerun finishes it or an operator removes it.

## The bundle and site models

A digest is what it digests, so no two contents share one. `ReleaseBundle` gives what one build of
a source makes (`Bundle`), when it verifies and when two builds agree. `HostedSite` is staging as a
function: declared elections and their bundles to assets, public paths, the worker's redirects and
the updates snapshot. Three modules are state machines over it:

- `CandidateBuild`: the build command over a checkout that people edit and whose edits they undo.
  It checks the checkout (`CheckCheckout`), reads it (`ReadCheckout`), twice, compares, resolves the
  archives of earlier elections, stages, checks again and records; `MoveIn` puts a finished part in
  the directory where an earlier command may have left its own. Archives may be replaced or
  withdrawn; one recorded candidate is recovered after its artifacts expired.
- `UpdatesGate`: the deploy lane reads the deployment manifest, the snapshot, and the manifest once
  more, or downloads the artifact of a site without a comparable snapshot, and compares; between
  any two requests an operator may put another deployment back.
- `ReleaseLineage`: one comparison of a genuine bundle with any other: an intact rebuild, one of
  another history, or one that was tampered with and resealed. What `_normalized_file_inventory` sets
  aside is one operator per file.

Limits: an edit that is undone in the middle of staging, and two edit episodes in one build, are
beyond the bound and would not be noticed by the code; the updates log and the calendar are not
edited. A record is taken of what stands in the directory, whatever the build's exit was, and one
record is followed. The gate refuses everything after a rollback by hand or an uncertain upload
until production serves the last verified upload again; what is put back after its last read
escapes it. Removing an entry from a page's history only is allowed by design (`docs/RELEASE.md`),
so such an entry may come back as fresh. A lineage refuses intact rebuilds with preliminary
results, whose links name the commit, which no normalisation takes out: all that can pass there is a
bundle that was resealed with its links put back to the release's commit, and `MCSite` has one. So
`LineageIsTheRelease` claims its equivalence for sources without preliminary results. The gate of the pull request lane and
`verify_declared_releases_published` are not modelled. The page of an updates log may exist without
a link in the navigation (a current election whose entries are overlaid).

## The operations models

`ProductionCheck` derives from a deployment manifest which routes a probe asks and judges the
answers. `DeadlineAlarm` is `_decode_result` step by step, with the signal as a flag that may be
raised at any moment after the deadline and is taken between any two steps while it is not blocked.
`ProductionWait` starts probes in worker processes, receives or gives up on their reports, decodes
them under the alarm and counts consecutive passes, while `Deploy` moves the site between two
requests. The site only moves forward, and every deployment has a manifest of its own.

`CalendarTracking` is the serialized daily job: it checks out main (`landed`), lists issues by
marker, creates, closes and escalates them one call at a time; every call may fail before or after
its effect. People move markers, retitle, copy and close issues and merge artifacts at any time.
`NextDate` happens only between jobs.

`LinkRot` is the daily link check: restore the cached state, probe, compare, find and act on the
one alert, save. A failing job still saves what is in its file; the runner may die, the cache may
be evicted. `reopened` remembers which alerts people reopened since the check looked for an open one.
The alert is closed when nothing is *confirmed*, which a check that has lost the state of the one
before cannot do: finding 6. A job that fails before its restore step saves the empty seed state.

## The verification model

`VerificationSchedule` gives, for a source's policy and the calendar's anchors, the dates it is
due, the freshness deadline and the counting of failures. `Verification` adds the two workflows of
one concurrency group: `StartVerification` merges main's records into the archive and checks the
due sources, `RunVerification` records what was missed, due and met, `Push` pushes all of it as one
commit; then, as `StartWatch` does alone, tasks are listed, reopened or opened, labelled and
commented section by section. A step may fail before or after its effect. `NextDay` may skip any
number of runs. People close tasks, approve baselines, review and acknowledge between runs.

A failed check is of one of three kinds (`FailureKinds`): "access", the fetch itself says that nothing
of the publication was received, so that the failure may be disposed of as an access limitation;
"content", something was captured or asks for review, which stands in the way of a later access
limitation; "unclear", an unknown category or stage, which does neither. The proofs are about all
three; the run takes "access" and "content" (`Outcomes`), since with all three its states would be
more than half as many again and no property of the run tells an unclear failure from the others.

Not modelled: a person who acts between two steps of a run (noted at its hazard), and a policy or
registry edit on main that contradicts archive records main has not merged yet, which makes the
program refuse every run until a new cycle.

## The data models

`Election`, `CanonicalDataset` and `LedgerCompilation` translate the ledger's compiler and the
cross-checks of `CanonicalDataset.validate_references`; a record's id is the hash of its content,
so a record is its own id. The state machine of `LedgerCompilation` is
`_replace_outputs_atomically`: every target is moved aside, its successor in, the backups removed;
any rename or removal may fail, and so may its undoing, and the compiler may be killed.
`compile.previous` is the generation a compiler found. What the documents promise, that a failed swap
restores that generation, holds as long as the way back meets no failure of its own
(`FailedSwapIsUndone`). Where it does, the compiler reports an incomplete rollback, unless it is killed
first, and what stands afterwards may be of two compilations without any backup that would stop the
next compiler: finding 5. `incomplete` records that a rollback met such a failure, reported or not,
and nothing was put right since; until then no mixture goes unnoticed (`OneCompilationUntilTrouble`,
which is proved, and says nothing of what comes after). A failed cleaning reports failure although the
new files stand. Two compilers at once are not locked against each other by the code and not
modelled.

`ReviewQueue` has clerks, each a process: an item or chain is read in one step and decided or
extended in another. Overrides are of fields that no validation relates. `Scoring` is the engine
with its report's validators, over datasets that change by one decision or review item between two
builds; a point is counted in units of 1/`Unit`. `PublicationView` and `Publication` derive the
view, the compact contract and the public projection with every check of them, the lens of
`lens-score.mjs` from that contract alone, and the export, which stages file by file and replaces a
generation by two renames. Two refusals are by design and not assumed away: a source declared a
coverage gap with an endorsement, and (excluded by `PublishableAssumption`) a registry whose
comparison source is not last by category, or a race without an eligible active source. A kill
between the two renames leaves no output directory but the previous generation in a hidden sibling,
which no later export cleans up.

`ResultsTally` has one action per ingesting command, and only commands that pass all their checks
are steps. Shares are left out. Seen in the code and modelled as it is: the county ingest
overwrites whatever file there is; `results validate` alone would pass a certified file with a
missing choice; `ballots_with_contest` is not compared with the votes.

`PreliminaryRefresh` is the hourly job: take up a pushed branch or main, validate the state of the
job before, persist an intent, ask each publisher once, prepare, complete, push, open the pull
request, save. It assumes what the workflow's documents ask: the refresh is activated with an
admitted snapshot on main, artifacts are retained longer than a period, people lift a block only by
reviewing (`Dispose`) and do not revert main.

## What is checked

| Run | Instance | Shows |
| --- | --- | --- |
| `captures_releases` | `MCCapturesAndReleases`: 2 processes, 3 captures, 2 chunks, 2 failures, hard links or not; 3 versions, 2 attempts each, 2 disturbances; 1,664,473 states | the store of captures; the delivery of releases and its refinement of `ReleaseContract` |
| `delivery_liveness` | 2 versions, 2 attempts, 2 disturbances, `FairSpec` | an upload whose report or receipt survives is verified and marked successful |
| `evidence` | `MCSite`: 5 receipts and 2 interruptions; a repository of 2 commits with 2 elections; 3 uploads; a wait of 4 ticks over 3 deployments, 1 transport error; 199,284 states | the evidence log and its refinement of `ReceiptLog`, and what is hosted: candidates, addresses, the updates gate, the wait for production and its alarm |
| `refresh_safety` | `MCRefreshes`: 2 processes, 2 contents, 2 extractors, 3 times, 1 disturbance; 3 hourly jobs of 2 publishers; 24 exports; datasets of up to 3 decisions, exports of those with 1 | the history of a source; the preliminary refresh; the results file; the report, its views and its bundles |
| `operations` | `MCOperations`: 8 milestones, 5 days, 1 outage, 1 edit, 1 landing; 2 links, 1 trouble, 2 changes, 1 touch; 2 sources, 3 days around collection, 1 failure, 1 act of a person; 363,016 states | the calendar's job, the link check, the verification of endorsements |
| `pipeline` | `MCPipeline`: 2 branches, 3 versions, 3 commits, 1 change; 2 compilations and 2 faults of ledgers of 2 decisions; 4 claims and 2 clerks; 434,282 states | admission, compilation and review |
| `rollback_rerun` | 2 versions, 2 attempts, no disturbance | finding 1 below |
| `uncertain_upload` | 1 version, 2 attempts, 1 disturbance, `FairSpec` | finding 2 below |
| `store_conflict` | the store of `captures_releases`, no failure | finding 3 below |
| `store_lost` | the store of `captures_releases`, 1 failure | finding 4 below |
| `failed_swap` | as `pipeline`, 3 faults | finding 5 below |
| `link_recovery` | as `operations` | finding 6 below |

`MCCapturesAndReleases`, `MCSite`, `MCRefreshes`, `MCOperations` and `MCPipeline` put several
machines into one run: a variable chosen at the start (`followed`, `part`, `refreshed`, `operation`,
`stage`) says which of them a behaviour follows, the others stand still, and they share nothing. In `MCRefreshes`, "datasets"
explores all datasets of up to three decisions and "exports" the exports of those with at most one,
where only review items change once a bundle has been started. Type invariants are not in the runs:
they are theorems, for all constants.

Properties, and what would break each (the mutations):

- `DeployedOnceOnEvidence` (one deployment per release, and its receipt sealed before): a rerun that
  looks only for its own deployment uploads again; a rerun binds its own build instead of the
  published archive.
- `OlderDeploymentsVerified`: a deployment that never got a status is passed over.
- `ProductionIsCanonical`: the site of the run is uploaded, not the promotion of the archive.
- `SuccessIsVerified`: the upload is taken for success.
- `NothingRegresses` (production and its baseline): time of success, not of upload, orders the
  production baseline.
- `ImplementsContract`: an unverified upload does not hold the next release back.
- `UploadsAreFinalized`: recovery insists on an unverified upload, so a lost success status stays
  lost.
- `EvidenceIsUnambiguous`: a retry posts its parts anew.
- `SealsAreComplete`: a list of parts is closed one part early.
- `ImplementsLog`: the recorded uploads are not compared.
- `RepeatedRetentionSeals`: parts left unsealed are taken for an error.
- `CandidateIsItsSource`: the staged release manifest is not compared with the archive's.
- `EveryAddressLeads`: the retired address of the updates is sent on whether or not there are any.
- `NoSilentChange`: the manifest is not read again after the snapshot.
- `InstalledNeverChanges`: the copy opens its destination without `O_EXCL`.
- `StoredIsWhole`: the manifest is written before the bytes; a file that exists is taken for stored
  without comparing it.
- `OnlyRealConflicts`: a file that exists is taken for a conflict without comparing it.
- `HistoryIsAChain`: a check at the time of the latest event is accepted.
- `CommittedIsFaithful`: the event is written before the snapshot; the digest of what was recorded
  is not compared.
- `NoDuplicateCapture`: only the committed snapshot's capture is considered for reuse.
- `DenialHolds`: an operation of unknown outcome does not stop the next job.
- `MainIsTold`: only new counts are told, not new failures.
- `StatedAsCaptured`: the total of a preliminary tally is not compared.
- `PublishedAsScored`: every source that permits the race is on the panel; the public copy keeps
  the counts of the complete view.
- `LensIsTheEngine`: a comparison source may be scored.
- `ExportIsSound`: the report is taken as it is, without the dataset it is read with.
- `ScheduleIsKept`: missed days are not recorded; the daily phase is never entered.
- `PostedOnceAndVisible`: the markers already posted are not read.
- `EveryObligationSurfaces`: the watcher looks at no day.
- `CallerAlarmUndisturbed`: a pending alarm is not consumed before the handler is restored.
- `ConfirmedSoundly`: consecutive passes are counted whatever their contracts.
- `WaitEnds`: the parent blocks on the worker's pipe.
- `ActsOnce`: a title without a marker is not noticed.
- `EveryLossIsEscalated`: only the first issue of a milestone is escalated.
- `AlertIsHonest`: how the site answered is not asked.
- `PublishedAsReviewed`: the inputs of the request are not compared.
- `BoundaryIsCurrent`: the boundary of the request is not compared.
- `DatasetIsAdmissible`: only three candidates and more are reviewed.
- `FailedSwapIsUndone`: a rollback takes away only what has a backup, so that the first files ever
  compiled stay.
- `AuditOnlyGrows`: a record replaces the one in its slot.

`StoredIsWhole` and `OnlyRealConflicts` are claimed where hard links work, on each directory
separately. Where they do not, the code promises less: findings 3 and 4.

Bounds. `Last` versions: three are needed for a chain old, uncertain, new. `MaxAttempts`: two, the
first and a rerun; a third attempt sees what the second saw. `MaxDisturbances`: a shared budget for
crashes, failed or lost calls, uncertain uploads, expiries, switch changes and conflicting merges;
two allow a failure of a run and another of its recovery. Verification dispatches are not bounded.
The five receipts of the evidence are a publication receipt; the upload receipt; the verified
receipt of that upload, with its probe report and two levels of index, the upper of which closes two
comments into one; the same upload recorded once more with another time (`record-upload`), which
contradicts both; and a publication of other bytes, which contradicts all. Two interruptions leave
up to two of them half posted. In the store, two processes suffice for every pair of steps that can
collide; two of the captures have the same bytes, and the third a name in common with the first;
with two chunks a file can be empty, partial or whole; two failures let one process fall over the
remains of another and fail in turn. In a refresh, three times allow a detour over other bytes and
back; one disturbance leaves one set of remains behind. The verification's three days are the day of
collection, of issuance and the election, which is where the cadence changes; the person's source
has an interval of two days. The calendar has one milestone of each kind the code treats on its own,
and five days let those of the first days reach every stage. The wait's four ticks hold two probes
an interval apart, and the deadline after them. In the admission, three commits hold two merges that
started from one base. Two faults of a compiler are a failing rename and a
failure of its undoing; a third, a kill, is what finding 5 needs, and the passing properties are about
swaps without it.
In the preliminary refresh three jobs suffice for a job that dies, one that takes up what it left,
and one that asks again. The results file sees at most four captures, out of exports with a row too
few, a row too many, a second spelling, a wrong total, a tie and an older time. The lens is asked
for nine selections: single sources, groups, both, the comparison source, codes of nobody and
nothing. The proofs do without the bounds of the modules they are about.

Deadlock is checked in `operations` and `pipeline`; elsewhere it is not: when the check times are used up, no refresh can begin; when all versions are merged and all
attempts used, delivery stops; once every receipt that nothing contradicts is sealed, retaining it
again changes nothing; a comparison is made once. Symmetry is used only in the runs without
liveness: the processes that store captures, those of a refresh, and the branches, inputs and clerks
of the pipeline.

Fairness. `WF_vars(RunStep)`: GitHub runs the next step of a started job. `SF_vars` of
`StartVerification(j)`: the lock comes free again and again, and the concurrency group's
`queue: max` serves dispatches in order, so one that is queued gets the lock; that the operator
dispatches after a failed finalization is what `docs/RELEASE.md` asks. Nothing is assumed of
merges, reruns, the switch, failures or expiry. Disturbances are bounded, so failures stop
eventually; a probe needs production to serve the release, which holds because no later release
may be deployed before this one is verified. In `ReleaseEvidence`, `WF_vars(PostPart \/ ReusePart)`
is a process that goes on, and `SF_vars(Start(r))` is assumed only of the receipts in `Repeated`: a
verification-only run first retains the upload receipt once more (`finalize_deployment`), whoever
retained it before. Publication receipts of a run that died are not retained again, and nothing is
claimed of them. In the wait, time passes (`Tick`) and the parent process takes its steps
(`Parent`); nothing is assumed of the worker, which may hang for ever. Verification, calendar and
link check are scheduled daily: `WF` of `Workflow`, `Upkeep` and `CheckStep` says that a started
job goes on and another one is started; failures, edits and days are bounded and assumed of nobody.

## Findings

1. `docs/runbooks/production-rollback.md:173` (path B) says a rerun of CI on a known-good commit
   uploads when the switch is on. `admit_upload` ends a run of any version but main's as
   superseded and refuses a version that has a deployment, so the rerun uploads nothing. The run
   delivers and verifies two releases and repeats the first one's run. (That a release which was
   never deployed is overtaken by a newer selection is documented, and not a finding.)
2. `docs/HOSTING.md:516` prescribes verification-only recovery after any upload, "including an
   uncertain outcome". `recover_upload` refuses a report with a nonzero return code or without one
   unique URL, so that recovery cannot start; every later release stays blocked by
   `require_no_unverified_uploads` until a person intervenes.
3. The docstring of `ImmutableRecordError` (`evidence/storage.py:46`) reserves it for operations that
   would overwrite historical evidence. Without hard links, a process that finds its own record half
   copied by another one raises it too; so does every later one if the first was killed.
4. `docs/EVIDENCE_CAPTURE.md:6` says a capture stores its bytes. Without hard links, a copy that
   fails in its last flush unlinks the whole file (`storage.py:544`), which another process may have
   compared and returned for meanwhile.
5. `compiler.py:386` speaks of "rolling every target back on failure", and `docs/RELEASE.md:176-177`
   says: "a failed swap restores the complete previous generation." `_rollback_outputs` may fail
   itself and then reports what it could not undo. A file that stays behind where none was before has
   no backup, so the next compiler is not stopped (`compiler.py:398`), and if it is killed between two
   renames, files of two compilations stand side by side unnoticed. It takes three failures, two of
   them reported: a rename of the first compilation, the removal of the manifests in its rollback,
   and the kill of the second compiler after it moved its snapshots in.
6. `link_rot_alert.py:5` says "full recovery closes it", and the comment on closing
   (`link_rot_alert.py:159`) that every cited URL was found reachable. `reconcile_alert` closes the
   alert when no link is *confirmed*. When the cached state of the check before is lost, a check that
   finds the link gone once more confirms nothing and closes the alert. Apart from the false text this
   heals itself: the next check confirms the link and opens another alert.

## What is proved

Eight modules hold proofs, of safety properties only, each for all values of its module's
constants. What is assumed of the constants is stated as a named assumption in the module that
declares them and evaluated by TLC in the runs; three theorems have a hypothesis of their own, named
below.

### Delivery

`ReleaseDeliveryProofs` proves every safety property of `ReleaseDelivery` for all positive `Last`
and `MaxAttempts` and every `MaxDisturbances` (`DeliveryAssumption`, the only assumption), and that
`ReleaseDelivery` implements `ReleaseContract`. The properties are not inductive: whether an upload
is safe depends on what the run established several steps earlier. `IInv` records it, in parts
that are proved one after the other:

- `RunInv`, `StartedInv`: the run works for a started attempt; deployments and receipts belong to
  started attempts of merged versions. So a new attempt has none.
- `ArchiveInv`, `EvidenceInv`: past publication the run carries the published archive, and every
  receipt binds it; from `admit` on the run's own publication receipt is sealed, and a deployment
  has its receipt.
- `OrderInv`: deployments of one version are equal, older ones verified; a run between `create` and
  `upload` is that of its version's only deployment.
- `SkipInv`: a run that recorded a skip has no deployment.
- `UploadInv`: live, retained and sealed uploads are those of deployments; production is at least
  as new as any upload known to have happened. This is what makes admission safe although main and
  the switch are read earlier than the deployment is created: admission checks the version, and
  `create_deployment` checks, in the same serialized run, that all earlier deployments were
  verified, hence that none is newer.
- `StatusInv`, `ClockInv`: success follows verification; upload times are ordered like versions.

`IInvStep` puts the parts together; each theorem then follows from `InductiveInvariant`. Refinement
is proved by the stage of a version: only `PublishDraft`, an effective upload and `RetainVerified`
change stage or production, and each is the contract's `Publish`, `GoLive` or `Confirm`.

### Evidence

`ReleaseEvidenceProofs` proves, from `EvidenceAssumption` (every receipt has at least one part of
`receipt.json` and at least one level of index) and for any number of interruptions, the type
invariant, `EvidenceIsUnambiguous`, `SealsAreComplete`, that posted receipts agree, that a repeated
retention never refuses its own remains, and that `ReleaseEvidence` implements `ReceiptLog`. The
inductive invariant `EInv` adds two parts:

- `BelowInv`: a part is posted only when all parts of the stages below it are. So a sealed receipt
  is posted whole, although load and canonical check look at different comments.
- `WriterInv`: the same of the part a writer is about to post, and nothing posted contradicts the
  writer's receipt. `CanonicalStays` is the step that matters: the check made once at the start
  still holds many comments later, because only the writer's own receipt is completed meanwhile.

`EvidenceImplementsLog` follows: a step seals the writer's receipt or none
(`SealsOnlyTheWriters`), and what is sealed is posted (`LoadedIsPosted`), hence not contradicted.

`SealsAreComplete` needs more, for it follows the indexes down from the seal. `LinkInv`, with `EInv`
in `LinkedInv`, says of every comment above the first stage that it lists all parts of the stage
below it in order, and the same of the list in the writer's hands, across interruptions: a later
writer takes up what an earlier one posted, part by part. Reading down level by level is then a
finite descent, proved with the least-number principle (`WFMin` of the library).

### Store

`StorageProofs` proves the three properties of the store from `StoreAssumption`, for any
number of processes, captures, names, chunks and failures. The inductive invariant `SInv` adds to
them:

- `WriterInv`: a process at work has something to install, hence a path.
- `FileInv`: a file holds what its path allows, and is whole where there are hard links.
- `CopyInv`: a path has at most one copier, and none where there are hard links; a process that
  compares there has a file to compare with, for nothing removes it.
- `BytesFirst`: who installs a manifest has its bytes installed.

`FileSteps` reduces the actions to the three things that can happen to a file: it appears, grows,
or is removed by its copier. The parts are then proved of these.

### Replaced files

Two places replace more than one file.

The generated files of the ledger (in `PipelineProofs`), for any ledgers, compilations and faults
(`LedgerSpec`, the compiler alone). `FailedSwapIsUndone`: the complete previous generation is back
after a failed swap whose undoing met no failure. `OneCompilationUntilTrouble`: until a rollback meets
one, no two compilations stand side by side without a backup, wherever renames fail and compilers are
killed; what may stand afterwards is finding 5, and no theorem speaks of it. The invariant
`ReplacementInv` describes what stands by the step of the compiler (`Stands`). Before it came, the first
`k` targets held the files of one compilation and the others nothing (`Before`), and this is the
generation it has in hand as `compile.previous` (`Origin`, `OriginStays`). On the way forward the targets
before the current one are new with the old in the backup; on the way back those above it are old
again. Where the compiler dies and no backup is left, nothing was to be backed up; so the old files
were none, or none was touched yet (`DeathLeavesOne`). It is the order of the targets that makes this
true, which is why the invariant is about prefixes.

`ExportIsSound`, of the exported bundles (in `StorageProofs`), from `PublicationSpec`. What stands and what was moved aside
is whole; while something is aside the place is empty and the new generation complete (`ExportInv`).

### Source refresh

`RefreshProofs` proves `HistoryIsAChain`, `CommittedIsFaithful` and `NoDuplicateCapture` from
`RefreshAssumption`, for any number of processes, contents, times and disturbances. The inductive
invariant `RInv` adds to the invariants:

- `LockInv`: who works has the lock, and what it read is still the end of the history. So the event
  it writes extends the history (`AppendStep`), although it read that many records earlier.
- `CaptureInv`, `SnapshotInv`: what a process extracts from is recorded and holds the bytes it read;
  a snapshot's capture is recorded.
- `LatestInv`: there is a latest event, and a latest capture of each content.

### Preliminary refresh

`RefreshProofs` proves `DenialHolds` and `MainIsTold` from `FeedsAssumption`, for any sources, exports,
jobs and Updates. No variable says what the next job will know of a denial: it depends on which of
three things it starts from. `RefreshInv` says it of each (`WorldHolds`): a saved state has, among its
holds, the answer every hold stands on (`Known`); so has a branch that would be recovered, with main
(`Recoverable`); and before the first intent nobody is on hold. A job carries the same along step by
step (`JobKnows`), until it asks, and while it asks, who is left to ask is not on hold (`JobAsks`).
That a hold is judged rightly by a part of the evidence is `LatestKnown`: an answer that is the latest
of all is the latest of any part that has it. The case that needs care is the branch a job does *not*
recover, because main already had everything: main goes on changing under it, and `AuthoredBeside`
shows that an Update people write never makes it recoverable again, so the answers this job gets need
not be known to it.

`MainIsTold` rests on `Branched` (a candidate is one telling step from its base) and `Since` (main is
the base, or what was merged, with Updates of people behind it). `MergeBranches` shows that a merge
without conflict is again such a step from the main it lands on, hours after the base was read, and
`MergedIsDone` that a second merge of the same branch brings nothing.

### Admission

`ReleaseAdmissionProofs` proves `PublishedAsReviewed` and `BoundaryIsCurrent` from
`AdmissionAssumption`, for any branches, issues, inputs, versions, merges and changes. A merged
request is not checked again against the main it lands on, so that main is in order has to come
from elsewhere: `AInv` carries `VersionsRise` (versions never fall along main) and
`BranchesAreAhead` (a branch declares at least its fork's version), and a merge takes the branch's
declaration only where main still has the fork's. `ReleasesAreReviewed` says of every draft, broken
or published release that its source was admitted over its own inputs and an earlier release, and
`RunIsReviewed` the same of the run at work, whose boundary stays current until it publishes:
nothing else publishes meanwhile.

### Updates gate

`ReleaseEvidenceProofs` proves `NoSilentChange` from `GateAssumption`, for any sites and any number of
lanes and of deployments put back by hand. `LaneInv` says at each step of the lane what it has read;
`moved`, which records that production was put back since the gate last looked, separates the
behaviours in which the baseline is what production serves from those the code cannot notice.

### Lineage

`ReleaseEvidenceProofs` proves `LineageIsTheRelease` (`LineageTellsRebuilds`; no run checks it, the theorem
says it of every instance), for any bundles and any
descent of commits, from two assumptions: `BundlesAssumption`, that a bundle which could be read is of
the records its models validate, whatever they hold; and `GenuineAssumption`, that a source is its four
parts. The comparison itself only looks at what is left of two bundles once commit, time and what
depends on them were set aside, so the theorem is that nothing escapes it:

- *What passes is a rebuild* (`PassedIsRebuilt`). The normalised files agree in everything that was not
  set aside (`SetAside`). Everything that was set aside is pinned by the internal identities of the
  loaded bundle: every time and every commit is that of the status, every hash that of the file it
  names. So file by file the bundle is what a build of the same inputs at the later commit
  makes (`ProductionFiles`, `ProductionStatus`); a resealed bundle has no field left to differ in.
- *A rebuild passes* (`RebuiltPasses`). A build verifies and loads (`BuiltLoads`), and the normal form
  of a build depends on inputs, history and screenshots alone (`NormalizedAgree`), if nothing
  preliminary is in it.
- *With preliminary results a rebuild is refused* (`PreliminaryIsRefused`).

The proof corrected the property: stated for every source, it fails for the bundle whose links were
put back, which no instance had before.

### Candidate

`ReleaseEvidenceProofs` proves `CandidateIsItsSource` (`CandidatesAreTheirSources`) for any repository
and declarations, any screenshots, any published archives and any number of commands, from
`DeclarationsAssumption`, that a declaration lists its elections, under the hypothesis `AtMostOnce`:
people edit the checkout at most once, and check out another commit at most once. Some such bound is
the code's own: each reading is preceded by a check, so who edits after both checks, the same way,
and undoes it each time, has both builds agree on what is in no commit. On the instance of `MCSite`, TLC
finds that violation with two edits, and the same with four checkouts, there and back around each
reading; with up to three checkouts it finds none, which the theorem leaves open. The
inductive invariant is `BuildInv`:

- *Of the two readings, one saw the commit* (`TwoReadings`). The check before the second one passed,
  so the one edit was either still to come, and the first reading was of the commit, or was over, and
  the second one is. A manifest tells everything of a build but its screenshots (`ManifestTells`,
  `SameManifest`), so builds that agree are both of the commit (`Compared`).
- *What stands in the directory is honest about its commit* (`PlacesHold`, `InHand`), whichever command
  left it there, and also when it is put back: a build that names the commit checked out is of that
  commit or of the one edit, and a site that names it has the manifest of a build of the commit.
- *A record joins the two* (`Recorded`). It may take the archive of one command and the site of
  another. The verification compares the archive's manifest with the one the site holds, and
  that is of the commit, so the archive is too. This is where the invariant is needed in full, and
  what the mutation of `VerifyCandidate` drops.
- *A staged site shows what it was staged of* (`StagedShows`, `StagedIsOf`). What a site holds at the
  addresses of an election's guide, manifest and race pages is what was staged of that election's
  bundle, since nothing else that is staged has one of these addresses (`PagesOfElection`,
  `PagesOfSite`), and the bundle of an earlier election is the pinned one (`Downloaded`).

### Addresses

`ReleaseEvidenceProofs` proves `EveryAddressLeads` (`AddressesLead`) for any elections, races, bundles,
updates logs and calendars, any number of commands, edits and checkouts, from
`DeclarationsAssumption`, under the hypothesis `NothingIsMistaken`: no commit declares an election called
"compare" beside one called "comparisons". The worker takes every public directory whose last part is
"comparisons" for a comparison page, the home of such an election too, and sends the sibling called
"compare" on to it. With two elections so called, TLC finds `EveryAddressLeads` violated; with one of
the two, or with races of these names, it does not, and the theorem covers these.

The inductive invariant is `AddressInv`: the site that stands leads wherever it says, and so do the one
staged and the one moved aside while `_replace_output` is under way, which may come back. All else is
about one staging:

- *What is public is a directory or a file* (`PathsOfSite`, `DirectoryNames`, `FileNames`). Public paths
  and assets are written by separate code; both come from the same directories and files, and each
  has its asset (`ElectionHolds`, `StagedHolds`). The worker is found under its own address since no
  election has anything at the root (`NothingAtTheRoot`).
- *What is sent on arrives* (`SentOnTo`). Wherever the worker sends an address, it is a public
  directory with its closing slash, and not where comparisons were once (`Arrives`). The rules apply
  in their order: only an address that no earlier rule takes is given a closing slash.
- *What has arrived stays* (`StaysPut`). A public directory is none of the addresses any rule sends on;
  here election names must not be empty, and the home of an election must not be taken for the old
  address of another's comparisons (`RootsKept`, the one use of the hypothesis).
- *The pages of the whole site link to what is served* (`LinksLead`). The link to the updates of an
  overlaid current election is promised by the bundle while the page comes from the log; the site is
  refused when that page is missing (`OverlayHasUpdates`).

Two defects of the model came up in the proof and were corrected after the code: the verification of an
overlaid election asks for its updates page (`pages.py:442`), and the redirects are tried in an order
(`Redirected` was a CASE, whose arms TLA+ does not order).

### Pipeline

`PipelineProofs` is about the way from what the sources said to an admitted release. It proves
`DatasetIsAdmissible`: the dataset the ledger compiles to passes every cross-check of
`CanonicalDataset.validate_references`, for any ledger (`LedgerCompiles`), and so does the one the
reviewers leave at any moment, for any claims, rulings and clerks (`ReviewedStaysAdmissible`). The
cross-checks share no code with either.

- Of the ledger, a decision compiles to capture, claim, endorsement, item and approval that answer
  each other (`DecisionIsVerdict`, `DecisionEndorses`, `CompiledSays`), by what its words are
  classified as (`StatusWords`, `OneMeaning`) and what its names match (`NamesMatch`). Two decisions
  differ in all their ids (`CompiledKeysDiffer`), so the lists have no duplicates.
- Of the review, `ReviewInv` says where every claim is: not read; endorsed by the machine because
  everything matched; queued; or ruled, with the endorsement the ruling made; the same of what
  a clerk has in hand between reading and writing (`MatchSteps`, `RulingSteps`, `ReadingSteps`,
  `WriteStep`). `ReviewedFits` derives the cross-checks from it, and `AuditOnlyGrows` is one of its
  steps: a record a clerk writes extends the chain that stands then, or is refused (`ChainExtends`).

What is assumed is what a validator of the code establishes, or what no code establishes and the
dataset only passes if people see to it; the second kind, all in named assumptions:

- `ClaimsAssumption`: a capture that could be read does not say "source unavailable", was not
  published after the election, and a source makes one claim about a race. Normalization checks none
  of these; the dataset it feeds refuses them.
- `LedgerAssumption`: a source was not published after the election. The registry does not check it.
- `NamesAssumption`: no two races have one name, and a name matches its own choice exactly.
- `RecordAssumption`: a record is not the value that stands for no record.

Stating them showed that the instance had bound its likenesses wrongly, so that no claim was ever
ambiguous between two candidates; now one is.

Composition: `PipelineSpec` implements `AdmissionSpec`, `LedgerSpec` and `ReviewSpec`
(`PipelineRefinesItsParts`), for the other machines stand still in a step of one. So what was proved
of each carries over to the run: `PipelineIsAdmissible` (the datasets of compiler and reviewers) and
`PipelineKeepsItsRecords` (the audit records, the boundary, and the undoing of a failed swap).

### Operations

`OperationsProofs` proves of the calendar's job, from `CalendarAssumption`, that it opens one issue
per milestone and escalates each stage once and never in vain (`ActsOnce`). `CalendarInv`: the plan
of a job, made from a list it read at the start, still holds step by step: `LossIsSeen` (an issue
that lost neither its marker nor its title shows one of them), `OneStands` (of the issues opened for
a milestone all but one lost both), and `Outstanding` for every escalation not yet made, although
people edit, copy and close issues meanwhile. Of the alarm it proves `CallerAlarmUndisturbed`, from
`ClockAssumption`, by an invariant that states for each step what handler, timer and mask are
(`AlarmHolds`). Of the wait it proves `ConfirmedSoundly`: `WaitInv` keeps, for every report, that
its manifest was read before all other answers and of what the site served then (`ReportsHold`), and
that the passes counted are the last consecutive ones (`PassesHold`). That two equal manifests then
mean one deployment is the hypothesis `DistinctDeployments`; the site moves forward only, so between
two readings of one manifest it did not move at all.

Of the link check it proves `AlertsAreConfirmed`, from `LinksAssumption` and `LinksSpec`.
`StreakInv` says of the cached file, and of the file in a check's hands, that every link in it was
found gone by the check that wrote it; so what two checks agree on was found twice. `OpenInv`: while a
check that found no open alert is under way, only those are open that people reopened since, so it
opens one beside no other.

### Verification

`VerificationProofs` proves `ScheduleIsKept` and `PostedOnceAndVisible` from `PolicyAssumption` and
`BoundAssumption`, for any policies, calendar, number of days, failures and acts. `VInv`:

- `Whole`, of the archive and of the tree a run works on: the schedule has no hole up to the last
  automatic check of a source, checks lie between activation and today, and a missed day is noted
  once. `VerifiedIsWhole` is the step that matters: what a run adds, missed days and checks
  together, leaves no hole, however many runs were lost before it.
- `Acceptable`: what people recorded on main can be merged without losing that.
- `RunHolds`: the run's picture of the tasks is how they are; the sections still to be filed have
  markers of their own that no comment carries (`SectionsAreDistinct`), and the one at work has its
  open task.

That the schedule keeps ahead of the freshness deadline is arithmetic on the cadence: `DayInStep`
finds a scheduled date within one period of any day, daily dates included, so between a success and
the passing of its freshness deadline there is another date (`StaleAfterDate`). The last date and
the latest success exist by the least-number principle (`LastOfDays`, `LatestExists`).

### Model-checked only

- Liveness: `UploadsAreFinalized`, `RepeatedRetentionSeals`, `EveryObligationSurfaces`,
  `WaitEnds`, `EveryLossIsEscalated` and the second half of `AlertIsHonest`. TLAPS proves
  no liveness under fairness.
- `PublishedAsScored`, `LensIsTheEngine` and `StatedAsCaptured` compare what two algorithms compute
  of one input by folds over sets and sequences, points above all; a proof would be induction over
  data.
- The findings.

## Not modelled

The Cloudflare dashboard rollback (path A of the rollback runbook) acts outside the code; putting a
deployment back by hand is modelled where it matters, before the updates gate. The content of
archives, notes and pages is reduced to what is compared of it. Ownership checks of GitHub objects
(`workflow_owned`) guard against objects other systems create; no step of the modelled system
creates one. Of the store, where a capture may be kept (`_validate_storage_boundary`,
`_validate_storage_durability`) and what its media type must look like are checks of one call. Of
releases, `verify_release_compilation`; of publications, the results, corrections and precinct
ballot hooks, the CSV writers, the hashes of manifests and the verification of captures; of results,
files amended by hand. Templates, layout, page scripts other than the lens, discovery adapters,
fetching, analytics and the parsing of the command line are functions of one input and keep no
state. PROJECT.json lists each component that is not or only partly modelled with its reason, and
every hazard with the properties about it.

## Plan

The models are complete as far as the list of components says. Done, in this order: delivery;
evidence; store; source refresh; verification; operations; admission; data and publication;
preliminary results; bundles, site and gate; and the proofs above. What is left:

1. The composition of the runs `MCSite`, `MCRefreshes` and `MCOperations` as theorems, in the manner of
   `PipelineRefinesItsParts`. Their machines share nothing, so each theorem about one carries over.
