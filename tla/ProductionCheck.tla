--------------------------- MODULE ProductionCheck ---------------------------
(***************************************************************************)
(* What one production check asks of the live site and how it judges the    *)
(* answers: hosting/production_check.py and the pure half of                *)
(* hosting/production_probe.py.                                             *)
(*                                                                          *)
(* A deployment is its content: the deployment manifest, the release        *)
(* manifest of the current election, the rows of the archive page, the      *)
(* pages it serves and the redirects of its worker.  A path is a tuple; an  *)
(* absolute redirect target is the pair <<origin, path>>.                   *)
(***************************************************************************)
EXTENDS Naturals, Sequences, FiniteSets

CONSTANTS
    Site,        \* the checked-in site manifest: origin, current, elections
    Commit,      \* the full commit production must show for the current election
    NoPin,       \* a pin the site manifest does not declare
    NoLocation,  \* a response or an expectation without a Location header
    NoContract,  \* a report without a deployment contract
    StaleDays    \* DataFreshnessCheck.threshold_days

\* The site manifest's own validator: distinct IDs, the current election first.
SiteHolds ==
    /\ Site.elections # << >>
    /\ Site.elections[1].id = Site.current
    /\ \A i, j \in 1..Len(Site.elections) :
          Site.elections[i].id = Site.elections[j].id => i = j
    /\ StaleDays \in Nat
ASSUME SiteAssumption == SiteHolds

Elements(s) == {s[i] : i \in 1..Len(s)}
Ids(elections) == [i \in 1..Len(elections) |-> elections[i].id]

Check(kind, path, status, location) ==
    [kind |-> kind, path |-> path, status |-> status, location |-> location]
Route(path) == Check("route", path, 200, NoLocation)
ManifestCheck == Check("manifest", <<"deployment-manifest">>, 200, NoLocation)
ReleaseCheck(current) == Check("release", <<"release-manifest", current>>, 200, NoLocation)
ArchiveCheck == Check("archive", <<"e">>, 200, NoLocation)

\* The routes that follow from the current election a manifest declares.
PlanRouteChecks(origin, current) ==
    << Check("route", <<"home">>, 307, <<origin, <<"e", current>> >>),
       Route(<<"e", current>>),
       Check("route", <<"pdf", current>>, 301, <<origin, <<"e", current>> >>) >>

\* The complete route contract of a publication, from the trusted declaration.
\* The archive is a route of the contract too; its body is fetched first and
\* that answer stands in the sequence.
PlanPublicationRouteChecks(race) ==
    LET other(id) == id # Site.current
        historical == SelectSeq(Ids(Site.elections), other)
    IN  << Check("route", <<"home">>, 307, <<Site.origin, <<"e", Site.current>> >>),
           Route(<<"e", Site.current>>) >>
        \o [i \in 1..Len(historical) |-> Route(<<"e", historical[i]>>)]
        \o << Route(<<"races", race>>),
              Route(<<"comparisons", Site.current>>),
              Check("route", <<"e", "unknown">>, 404, NoLocation),
              Check("route", <<"pdf", Site.current>>, 301,
                    <<Site.origin, <<"e", Site.current>> >>) >>

\* One deployed election against its declaration: the release identity always,
\* the selected commit for the current election, the historical pins for the
\* others, each of which must be declared.
ElectionAgrees(declared, deployed) ==
    /\ deployed.identity = declared.identity
    /\ IF declared.id = Site.current
       THEN deployed.commit = Commit
       ELSE /\ declared.commit # NoPin /\ deployed.commit = declared.commit
            /\ declared.manifestHash # NoPin
            /\ deployed.manifestHash = declared.manifestHash
            /\ declared.bundleHash # NoPin

\* The first race page of the current election in the manifest's assets.
RacePaths(manifest) == {r \in manifest.races : r[1] = Site.current}
RepresentativeRace(manifest) ==
    CHOOSE r \in RacePaths(manifest) : \A s \in RacePaths(manifest) : r[2] <= s[2]

\* DeploymentContractCheck.ok: the public identity is the declared one.
ContractHolds(manifest) ==
    /\ manifest.origin = Site.origin
    /\ manifest.current = Site.current
    /\ Ids(manifest.elections) = Ids(Site.elections)
    /\ \A declared \in Elements(Site.elections), deployed \in Elements(manifest.elections) :
          declared.id = deployed.id => ElectionAgrees(declared, deployed)
    /\ RacePaths(manifest) # {}

\* The archive page lists the declared elections in order and marks only the
\* current one.
ArchiveAgrees(entries) ==
    /\ Ids(entries) = Ids(Site.elections)
    /\ {i \in 1..Len(entries) : entries[i].current} = {1}

\* What a deployment answers to a path: a page, a redirect of the worker, or
\* its not-found page.
Answer(content, path) ==
    IF path \in DOMAIN content.redirects THEN content.redirects[path]
    ELSE [status |-> IF path \in content.pages THEN 200 ELSE 404, location |-> NoLocation]

\* RouteCheckResult.ok and, for the bodies that are read, their evaluation.
Passes(check, content) ==
    LET answer == Answer(content, check.path)
    IN  /\ answer.status = check.status
        /\ check.location = NoLocation \/ answer.location = check.location
        /\ check.kind = "archive" => ArchiveAgrees(content.archive)
        /\ check.kind = "release" =>
              content.release.parses /\ content.release.age <= StaleDays

\* The requests that follow a manifest that parsed, in the order they are made.
\* Without a representative race there is nothing to derive the routes from.
PlanRequests(manifest, strict, activeWindow) ==
    (IF activeWindow THEN << ReleaseCheck(manifest.current) >> ELSE << >>)
    \o (IF ~strict THEN PlanRouteChecks(Site.origin, manifest.current)
        ELSE IF RacePaths(manifest) = {} THEN << >>
        ELSE << ArchiveCheck >> \o PlanPublicationRouteChecks(RepresentativeRace(manifest)))

(***************************************************************************)
(* A report: whether the manifest parsed and, under a site manifest, the    *)
(* contract it was compared with; the checks made and whether all passed;   *)
(* why there is no report from the worker ("deadline", "worker", ...).      *)
(* `sources` is no part of the code's report: it names the deployments the  *)
(* answers came from.                                                       *)
(***************************************************************************)
EmptyReport ==
    [manifest |-> FALSE, contract |-> NoContract, checks |-> << >>, allOk |-> TRUE,
     error |-> "none", sources |-> {}]
FailedProbe(why) == [EmptyReport EXCEPT !.error = why]

\* ProductionCheckReport.ok
ReportOk(report) ==
    /\ report.error = "none"
    /\ report.manifest
    /\ report.contract # NoContract => ContractHolds(report.contract)
    /\ report.allOk

\* complete_strict_report: an ok report that lacks none of the strict evidence.
CompleteStrictReport(report, activeWindow) ==
    /\ ReportOk(report)
    /\ report.contract # NoContract
    /\ report.checks = PlanRequests(report.contract, TRUE, activeWindow)
=============================================================================
