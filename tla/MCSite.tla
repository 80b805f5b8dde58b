--------------------------------- MODULE MCSite ---------------------------------
(***************************************************************************)
(* What is released and what is hosted, composed: the evidence of a         *)
(* release; a candidate and its site, of a repository of two commits that   *)
(* declare the general election and the primary gone by; the gate before an *)
(* upload; the comparison of a release with production's bundle; and the    *)
(* wait for production after one.  They share nothing but the release;      *)
(* `part` says which of them a behaviour follows.                           *)
(***************************************************************************)
EXTENDS ReleaseEvidence, CandidateBuild, UpdatesGate, ReleaseLineage, ProductionWait

\* Five receipts of one release: its publication, its upload, the verified upload
\* with its probe report and two levels of index, the same upload recorded anew with
\* another time, and a publication of other bytes.
MCReceipts == {"publication", "upload", "verified", "rerecorded", "rebuilt"}
MCArchive == [r \in MCReceipts |-> IF r = "rebuilt" THEN 2 ELSE 1]
MCUpload == [r \in MCReceipts |->
               CASE r \in {"upload", "verified"} -> 1
                 [] r = "rerecorded" -> 2
                 [] OTHER -> 0]
MCReportParts == [r \in MCReceipts |-> IF r = "verified" THEN 1 ELSE 0]
MCReceiptParts == [r \in MCReceipts |-> IF r \in {"upload", "verified"} THEN 2 ELSE 1]
MCIndexParts == [r \in MCReceipts |-> IF r = "verified" THEN <<2, 1>> ELSE <<1>>]
MCRepeated == {"upload"}

MCTold(told, updates) == [races |-> {"mayor"}, compares |-> told = "second", updates |-> updates, told |-> told]
MCInputs(election, facts) ==
    [election |-> election, facts |-> facts, panel |-> "panel", asOf |-> 0,
     sources |-> {[id |-> "paper", role |-> "active", discovery |-> "published"],
                  [id |-> "union", role |-> "active", discovery |-> "blocked"]},
     extracts |-> 1, decisions |-> 1, high |-> 0, restricted |-> 0,
     publishes |-> TRUE, renders |-> TRUE, preliminary |-> FALSE]
MCPrimary ==
    Bundle([commit |-> 0, time |-> 0, history |-> 0, inputs |-> MCInputs("primary", MCTold("primary", {"p1"}))], "p", "old")
MCPrimaryShown == [MCPrimary EXCEPT !.files.guide.facts = MCTold("altered", {"p1"})]
MCAltered ==
    {[MCPrimaryShown EXCEPT !.manifest.hashes = ArtifactHashes(MCPrimaryShown.files, MCPrimary.status)]}
MCArchives == [version \in {"p"} |-> MCPrimary]
MCCurrent(version, preview) ==
    [election |-> "general", bundle |-> "general-" , version |-> version, panel |-> "panel",
     commit |-> None, manifestPin |-> None, bundlePin |-> None,
     preview |-> preview, overlay |-> FALSE, requests |-> TRUE]
MCPast ==
    [election |-> "primary", bundle |-> "primary", version |-> "p", panel |-> "panel",
     commit |-> 0, manifestPin |-> MCPrimary.manifest, bundlePin |-> MCPrimary,
     preview |-> FALSE, overlay |-> TRUE, requests |-> FALSE]
MCRepository ==
    [commit \in {1, 2} |->
        [inputs |-> MCInputs("general", MCTold(IF commit = 1 THEN "first" ELSE "second", {})),
         history |-> commit,
         site |-> [current |-> "general",
                   elections |-> <<MCCurrent(IF commit = 1 THEN "g1" ELSE "g2", commit = 1), MCPast>>],
         log |-> [primary |-> {"p1", "p2"}, general |-> None], calendar |-> "calendar"]]
\* sites of production: before snapshots, with an old one, and with silent and told changes
MCDeployed(commit, policy, told, entries) ==
    [commit |-> commit, policy |-> policy,
     snapshot |-> ("general" :> [information |-> (Page(Home("general")) :> told), entries |-> entries])]
MCBegun == MCDeployed(0, "none", "first", {"e1"})
MCDeployedSites ==
    {MCBegun, MCDeployed(1, "old", "first", {"e1"}),
     MCDeployed(2, "new", "first", {"e1"}), MCDeployed(3, "new", "second", {"e1"}),
     MCDeployed(4, "new", "second", {"e1", "e2"})}

\* builds of two commits in one history and of one beside it, and one that was tampered with
MCFacts(told) == [told |-> told]
MCSource(commit, history, told, preliminary) ==
    [commit |-> commit, time |-> commit, history |-> history,
     inputs |-> [MCInputs("general", MCFacts(told)) EXCEPT !.preliminary = preliminary]]
MCGenuine ==
    {MCSource(commit, "history", told, preliminary) :
        commit \in {1, 2}, told \in {"first", "second"}, preliminary \in BOOLEAN}
    \cup {MCSource(3, "other", "first", FALSE)}
MCLinked == Bundle(MCSource(2, "history", "first", TRUE), "v1", "shots")
MCDescends == {<<1, 2>>, <<1, 3>>}
MCBase == Bundle(MCSource(2, "history", "first", FALSE), "v1", "shots")
Resealed(bundle) == [bundle EXCEPT !.manifest.hashes = ArtifactHashes(bundle.files, bundle.status)]
MCBundles ==
    {Bundle(source, "v1", "shots") : source \in MCGenuine}
    \cup {Bundle(MCSource(2, "history", "first", FALSE), "v1", "others"),
          Bundle(MCSource(2, "history", "first", FALSE), "v2", "shots")}
    \cup {[MCBase EXCEPT !.files.guide.facts = MCFacts("second")],
          [MCBase EXCEPT !.files = [f \in DOMAIN @ \ {"screens"} |-> @[f]]]}
    \cup {Resealed(bundle) : bundle \in
             {[MCBase EXCEPT !.files.guide.facts = MCFacts("second")],
              [MCBase EXCEPT !.files.view.facts = MCFacts("second"),
                             !.files.build.hashes.view.facts = MCFacts("second")],
              [MCBase EXCEPT !.files.tables = MCFacts("second"),
                             !.files.build.hashes.tables = MCFacts("second")],
              [MCBase EXCEPT !.files.notes.facts = MCFacts("second")],
              [MCBase EXCEPT !.status.displayed = 3],
              \* preliminary results, with the links put back to the commit of the release
              [MCLinked EXCEPT !.files.view.links = 1, !.files.guide.links = 1,
                               !.files.build.hashes.view.links = 1]}}

(***************************************************************************)
(* One site that moves through an older deployment, the wanted one and a    *)
(* rebuilt one with other assets, and a broken one: with one historical     *)
(* election.                                                                *)
(***************************************************************************)

Hosted(id, identity, commit, hash) ==
    [id |-> id, identity |-> identity, commit |-> commit, manifestHash |-> hash,
     bundleHash |-> hash]

MCProduction ==
    [origin |-> "guide", current |-> "now",
     elections |-> << Hosted("now", "r2", "none", "none"),
                      Hosted("then", "r1", "c1", "h1") >>]

Published(identity, commit, assets) ==
    [origin |-> "guide", current |-> "now", races |-> {<<"now", 1>>}, assets |-> assets,
     elections |-> << Hosted("now", identity, commit, "h2"),
                      Hosted("then", "r1", "c1", "h1") >>]

Deployment(m, pages) ==
    [manifest |-> m,
     release |-> [parses |-> TRUE, age |-> 0],
     archive |-> << [id |-> "now", current |-> TRUE], [id |-> "then", current |-> FALSE] >>,
     pages |-> pages,
     redirects |->
        (<<"home">> :> [status |-> 307, location |-> <<"guide", <<"e", "now">> >>]
         @@ <<"pdf", "now">> :> [status |-> 301, location |-> <<"guide", <<"e", "now">> >>])]

AllPages == { <<"e">>, <<"e", "now">>, <<"e", "then">>, <<"races", <<"now", 1>> >>,
              <<"comparisons", "now">>, <<"release-manifest", "now">> }

MCContent ==
    << Deployment(Published("r1b", "c1", "a0"), AllPages),
       Deployment(Published("r2", "c2", "a1"), AllPages \ {<<"comparisons", "now">>}),
       Deployment(Published("r2", "c2", "a2"), AllPages) >>
MCDeployments == 1..3

----------------------------------------------------------------------------
VARIABLE part
siteVars == <<part, vars, buildVars, gateVars, report, waitingVars>>

SiteInit ==
    /\ part \in {"evidence", "candidate", "gate", "lineage", "wait"}
    /\ Init /\ CandidateInit /\ GateInit /\ LineageInit /\ WaitInit
    /\ part # "candidate" => head = CHOOSE commit \in Commits : TRUE
    /\ part # "wait" => mode = "release" /\ callerAlarm = "free"
Retaining(A) == part = "evidence" /\ A /\ UNCHANGED <<part, buildVars, gateVars, report, waitingVars>>
Waiting(A) == part = "wait" /\ A /\ UNCHANGED <<part, vars, buildVars, gateVars, report>>
SiteNext ==
    \/ Retaining(Next)
    \/ part = "candidate" /\ CandidateNext /\ UNCHANGED <<part, vars, gateVars, report, waitingVars>>
    \/ part = "gate" /\ GateNext /\ UNCHANGED <<part, vars, buildVars, report, waitingVars>>
    \/ part = "lineage" /\ LineageNext /\ UNCHANGED <<part, vars, buildVars, gateVars, waitingVars>>
    \/ Waiting(WaitNext)
\* the fairness of FairSpec, and of the wait's clock and its process
SiteSpec ==
    /\ SiteInit /\ [][SiteNext]_siteVars
    /\ WF_siteVars(Retaining(PostPart \/ ReusePart))
    /\ \A r \in Repeated : SF_siteVars(Retaining(Start(r)))
    /\ WF_siteVars(Waiting(Tick)) /\ WF_siteVars(Waiting(Parent))
================================================================================
