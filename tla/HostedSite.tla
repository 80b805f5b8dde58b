------------------------------- MODULE HostedSite -------------------------------
(***************************************************************************)
(* The site that is served: the elections the repository declares, each     *)
(* with a release bundle, staged as one set of assets with the manifest     *)
(* that lists them and the worker that answers addresses                    *)
(* (hosting/models.py, pages.py, releases.py, updates.py).                  *)
(*                                                                          *)
(* The view of a bundle knows [races, compares, updates, told]: the races   *)
(* readers see, whether comparisons have a page, the entries of the updates *)
(* log, and everything else a page tells.  An address is the sequence of    *)
(* its segments, "" the one after a closing slash.  None stands for what a  *)
(* declaration leaves open.                                                 *)
(***************************************************************************)
EXTENDS ReleaseBundle, SequencesExt

CONSTANT None

----------------------------------------------------------------------------
(* Declarations *)

\* validate_archive: the election that is current comes first, and alone asks or previews.
ManifestDeclares(site) ==
    LET of(field) == {site.elections[i][field] : i \in 1..Len(site.elections)}
    IN  /\ site.elections # << >> /\ site.current = site.elections[1].election
        /\ Cardinality(of("election")) = Len(site.elections)
        /\ Cardinality(of("bundle")) = Len(site.elections)
        /\ \A i \in 2..Len(site.elections) :
              ~site.elections[i].requests /\ ~site.elections[i].preview

Agrees(declared, actual) == declared = None \/ declared = actual

\* _verify_bundle (the meter is left out: no release at hand shows it)
BundleAnswers(declaration, bundle) ==
    /\ {"status", "manifest", "view"} \subseteq Present(bundle)
    /\ bundle.files.view.election = declaration.election
    /\ bundle.status.election = declaration.election
    /\ bundle.status.version = declaration.version
    /\ bundle.status.panel = declaration.panel /\ bundle.files.view.panel = declaration.panel
    /\ Agrees(declaration.commit, bundle.status.commit)
    /\ Agrees(declaration.manifestPin, bundle.manifest)
    /\ BundleVerifies(bundle)
    /\ Agrees(declaration.bundlePin, bundle)

\* materialize_released_bundle: what is downloaded has to be pinned; extract_release_bundle
CanMaterialize(declaration, published) ==
    /\ declaration.bundlePin # None
    /\ declaration.version \in DOMAIN published
    /\ published[declaration.version] # None

----------------------------------------------------------------------------
(* Assets and addresses *)

Home(election) == <<"e", election>>
At(election, rest) == Home(election) \o rest
Page(directory) == Append(directory, "index.html")
Slash(directory) == Append(directory, "")
Both(directory) == {Slash(directory), Page(directory)}
With(entries, key, value) ==
    [k \in DOMAIN entries \cup {key} |-> IF k = key THEN value ELSE entries[k]]
Assets(pairs) == [path \in {pair[1] : pair \in pairs} |-> (CHOOSE pair \in pairs : pair[1] = path)[2]]

Facts(bundle) == bundle.files.view.facts
Compares(declaration, bundle) == Facts(bundle).compares \/ declaration.preview
\* the log of the bundle or, where so declared, the one this source holds (None when unfit)
Log(declaration, bundle, authored) ==
    IF declaration.overlay THEN authored[declaration.election] ELSE Facts(bundle).updates
Overlaid(declaration, authored) == declaration.overlay => authored[declaration.election] # None
Projection(declaration, bundle, current, authored) ==
    IF ~declaration.overlay THEN None
    ELSE [commit |-> current.status.commit, authored |-> authored[declaration.election],
          archive |-> bundle.status.version]

\* _stage_verified_bundles, _stage_race_pages
ElectionAssets(declaration, bundle, current, authored) ==
    LET view == bundle.files.view
        root == declaration.election
        log == Log(declaration, bundle, authored)
    IN  {<<Page(Home(root)), [page |-> "guide", guide |-> bundle.files.guide]>>,
         <<At(root, <<"release-status.json">>), bundle.status>>,
         <<At(root, <<"release-manifest.json">>), bundle.manifest>>,
         <<Page(At(root, <<"sources">>)), [page |-> "sources", panel |-> view.panel, commit |-> view.commit]>>}
        \cup {<<Page(At(root, <<"races", r>>)),
                [page |-> "race", race |-> r, told |-> view.facts.told, commit |-> view.commit]>> : r \in view.facts.races}
        \cup {<<At(root, <<"races", r, "og-image.png">>), [card |-> r]>> : r \in view.facts.races}
        \cup (IF ~Compares(declaration, bundle) THEN {}
              ELSE {<<Page(At(root, <<"comparisons">>)), [page |-> "comparisons", commit |-> view.commit]>>})
        \cup (IF log = {} THEN {}
              ELSE {<<Page(At(root, <<"updates">>)),
                      [page |-> "updates", entries |-> log,
                       provenance |-> Projection(declaration, bundle, current, authored)]>>})
ElectionPaths(declaration, bundle, authored) ==
    LET root == declaration.election
        races == Facts(bundle).races
    IN  Both(Home(root)) \cup Both(At(root, <<"sources">>))
        \cup (UNION {Both(At(root, <<"races", r>>)) \cup {At(root, <<"races", r, "og-image.png">>)} : r \in races})
        \cup (IF Compares(declaration, bundle) THEN Both(At(root, <<"comparisons">>)) ELSE {})
        \cup (IF Log(declaration, bundle, authored) # {} THEN Both(At(root, <<"updates">>)) ELSE {})
        \cup {At(root, <<"release-status.json">>), At(root, <<"release-manifest.json">>)}

Single == {<<"favicon.svg">>, <<"favicon-32.png">>, <<"apple-touch-icon.png">>, <<"og-image.png">>}
ManifestPath == <<"deployment-manifest.json">>
SnapshotPath == <<"updates-snapshot.json">>
CalendarPath == <<"calendar.ics">>
\* what the footer and the band of the pages of the whole site lead to
SiteLinks(current, election) ==
    {At(election, <<"release-manifest.json">>), Slash(Home(election))}
    \cup (IF Facts(current).compares THEN {Slash(At(election, <<"comparisons">>))} ELSE {})
    \cup (IF Facts(current).updates # {} THEN {Slash(At(election, <<"updates">>))} ELSE {})
SitePage(name, current, election) ==
    [page |-> name, asOf |-> current.status.asOf, time |-> current.status.time,
     commit |-> current.status.commit, links |-> SiteLinks(current, election)]

Elections(site) == {site.elections[i] : i \in 1..Len(site.elections)}
PublicPaths(site, bundles, authored) ==
    (UNION {ElectionPaths(d, bundles[d.bundle], authored) : d \in Elections(site)})
    \cup Both(<<"e">>) \cup Both(<<"about">>) \cup Single
    \cup {CalendarPath, ManifestPath, SnapshotPath}
\* _pages_worker
Worker(site, current, public) ==
    [current |-> Slash(Home(site.current)), public |-> public,
     roots |-> {Home(d.election) : d \in Elections(site)},
     compared |-> {Front(path) : path \in {p \in public : Len(p) > 2 /\ SubSeq(p, Len(p) - 1, Len(p)) = <<"comparisons", "">>}},
     missing |-> SitePage("not found", current, site.current)]
StagedAssets(site, bundles, authored, calendar) ==
    LET current == bundles[site.elections[1].bundle]
        pages == UNION {ElectionAssets(d, bundles[d.bundle], current, authored) : d \in Elections(site)}
    IN  Assets(pages
               \cup {<<Page(<<"e">>), SitePage("archive", current, site.current)>>,
                     <<Page(<<"about">>), SitePage("about", current, site.current)>>,
                     <<CalendarPath, [calendar |-> calendar, at |-> current.status.time,
                                      elections |-> {d.election : d \in Elections(site)}]>>,
                     <<<<"_headers">>, [headers |-> "headers"]>>,
                     <<<<"_worker.js">>, Worker(site, current, PublicPaths(site, bundles, authored))>>}
               \cup {<<path, [icon |-> path]>> : path \in Single})

----------------------------------------------------------------------------
(* The updates snapshot (updates.py) *)

\* _pages, _entries; _page_content leaves the build out and _information_content the paint
ElectionPages(assets, election) ==
    {p \in DOMAIN assets : \/ p = Page(Home(election))
                           \/ Len(p) = 5 /\ SubSeq(p, 1, 3) = At(election, <<"races">>) /\ p[5] = "index.html"}
Told(page) == IF page.page = "guide" THEN page.guide.facts.told ELSE page.told
PublishedEntries(assets, election) ==
    LET path == Page(At(election, <<"updates">>))
    IN  IF path \in DOMAIN assets THEN assets[path].entries ELSE {}
UpdatesSnapshot(assets, elections) ==
    [election \in elections |->
        [information |-> [p \in ElectionPages(assets, election) |-> Told(assets[p])],
         entries |-> PublishedEntries(assets, election)]]

\* compare_updates_snapshots
NoUpdates == [information |-> << >>, entries |-> {}]
PublishedOf(snapshot, election) == IF election \in DOMAIN snapshot THEN snapshot[election] ELSE NoUpdates
InformationChanged(old, new) == old.information # new.information
Accounted(old, new) == new.entries \ old.entries # {} /\ old.entries \subseteq new.entries
UpdatesPass(published, proposed) ==
    \A election \in DOMAIN published \cup DOMAIN proposed :
        LET old == PublishedOf(published, election)  new == PublishedOf(proposed, election)
        IN  InformationChanged(old, new) => Accounted(old, new)

----------------------------------------------------------------------------
(* Staging and verifying *)

Deployed(declaration, bundle, current, authored) ==
    [election |-> declaration.election, bundle |-> declaration.bundle,
     version |-> bundle.status.version, commit |-> bundle.status.commit,
     panel |-> bundle.status.panel, manifest |-> bundle.manifest,
     projection |-> Projection(declaration, bundle, current, authored)]

\* stage_pages_site, once the bundles are resolved
CanStage(site, bundles, authored, commit) ==
    /\ ManifestDeclares(site)
    /\ DOMAIN bundles = {d.bundle : d \in Elections(site)}
    /\ \A d \in Elections(site) : BundleAnswers(d, bundles[d.bundle]) /\ Overlaid(d, authored)
    /\ bundles[site.elections[1].bundle].status.commit = commit
Staged(site, bundles, authored, calendar) ==
    LET current == bundles[site.elections[1].bundle]
        pages == StagedAssets(site, bundles, authored, calendar)
        assets == With(pages, SnapshotPath, UpdatesSnapshot(pages, {d.election : d \in Elections(site)}))
    IN  [assets |-> assets,
         deployment |-> [current |-> site.current, assets |-> assets,
             elections |-> [i \in 1..Len(site.elections) |->
                LET d == site.elections[i] IN Deployed(d, bundles[d.bundle], current, authored)]]]

\* _required_race_assets
RacesComplete(assets, election) ==
    LET races == {p[4] : p \in ElectionPages(assets, election) \ {Page(Home(election))}}
    IN  races # {} /\ \A r \in races : At(election, <<"races", r, "og-image.png">>) \in DOMAIN assets
RequiredAssets(declaration) ==
    {Page(Home(declaration.election)), Page(At(declaration.election, <<"sources">>)),
     At(declaration.election, <<"release-status.json">>), At(declaration.election, <<"release-manifest.json">>)}
    \cup (IF declaration.preview THEN {Page(At(declaration.election, <<"comparisons">>))} ELSE {})
\* verify_staged_pages_site, verify_updates_snapshot
StagedVerifies(staged, site, commit) ==
    LET deployment == staged.deployment  assets == staged.assets
    IN  /\ deployment.current = site.current /\ Len(deployment.elections) = Len(site.elections)
        /\ \A i \in 1..Len(site.elections) :
              LET declared == site.elections[i]  deployed == deployment.elections[i]
                  status == assets[At(declared.election, <<"release-status.json">>)]
              IN  /\ declared.election = deployed.election /\ declared.bundle = deployed.bundle
                  /\ declared.version = deployed.version /\ declared.panel = deployed.panel
                  /\ Agrees(declared.commit, deployed.commit)
                  /\ Agrees(declared.manifestPin, deployed.manifest)
                  /\ status.election = deployed.election /\ status.version = deployed.version
                  /\ status.commit = deployed.commit /\ status.panel = deployed.panel
                  /\ assets[At(declared.election, <<"release-manifest.json">>)] = deployed.manifest
                  /\ declared.overlay <=> deployed.projection # None
                  /\ declared.overlay =>
                        /\ deployed.projection.commit = deployment.elections[1].commit
                        /\ deployed.projection.archive = deployed.version
                        /\ Page(At(declared.election, <<"updates">>)) \in DOMAIN assets
                        /\ assets[Page(At(declared.election, <<"updates">>))].provenance = deployed.projection
                  /\ RacesComplete(assets, declared.election)
                  /\ RequiredAssets(declared) \subseteq DOMAIN assets
        /\ deployment.elections[1].commit = commit
        /\ assets = deployment.assets
        /\ Single \cup {<<"_headers">>, <<"_worker.js">>, Page(<<"e">>), Page(<<"about">>), CalendarPath} \subseteq DOMAIN assets
        /\ assets[SnapshotPath] = UpdatesSnapshot(assets, {d.election : d \in Elections(site)})

----------------------------------------------------------------------------
(* The worker *)

\* *mutation*: the retired address of the updates is sent on whether or not there are any
CorrectionsAnyway(worker, root) == TRUE

MovedLog(worker, root) == Slash(root \o <<"updates">>) \in worker.public
Retired(root) == {root \o <<"corrections">>, Slash(root \o <<"corrections">>), Page(root \o <<"corrections">>)}
Pdfs == {"guide.pdf"}
\* where an address is sent on to; the first that applies, in the order of the code
Redirected(worker, address) ==
    LET under(root) == Len(address) > Len(root) /\ SubSeq(address, 1, Len(root)) = root
        exact == {root \in worker.roots : address = root}
        moved == {root \in worker.roots : MovedLog(worker, root) /\ address \in Retired(root)}
        printed == {root \in worker.roots : under(root) /\ Last(address) \in Pdfs}
        compared == {root \in worker.compared :
                        address \in {root, Front(root) \o <<"compare">>, Slash(Front(root) \o <<"compare">>)}}
    IN  IF address = <<"">> THEN {worker.current}
        ELSE IF address \in {<<"e">>, <<"about">>} THEN {Slash(address)}
        ELSE IF exact # {} THEN {Slash(root) : root \in exact}
        ELSE IF moved # {} THEN {Slash(root \o <<"updates">>) : root \in moved}
        ELSE IF printed # {} THEN {Slash(root) : root \in printed}
        ELSE IF compared # {} THEN {Slash(root) : root \in compared}
        ELSE {next \in {Slash(address)} : address \notin worker.public /\ next \in worker.public}
\* an address of a directory is answered with its page
Served(assets, address) ==
    \/ address \in DOMAIN assets \cup {ManifestPath}
    \/ Last(address) = "" /\ Page(Front(address)) \in DOMAIN assets
================================================================================
