----------------------------- MODULE Publication -----------------------------
(***************************************************************************)
(* The lens a reader scores the guide with (rendering/templates/            *)
(* lens-score.mjs), the audited engine restricted to the same sources       *)
(* (publication/lens_parity.py), and the export of a bundle                 *)
(* (write_publication_bundle, `export build`).                              *)
(*                                                                          *)
(* People and refreshes change the dataset, the scorer rewrites the report, *)
(* and an export reads both, builds, checks, stages file after file, moves  *)
(* the previous generation aside and installs its own; it may fail or be    *)
(* killed at any step.                                                      *)
(***************************************************************************)
EXTENDS PublicationView

CONSTANTS
    Selections,   \* what a reader picks: transport codes of groups and sources
    Artifacts,    \* the files of a bundle
    MaxKills,     \* bound: exports killed half-way
    NoBundle

VARIABLES
    staged,       \* the bundle being written: its build, the files written so far
    standing,     \* the output directory
    backup,       \* the previous generation while it is moved aside
    orphans       \* previous generations that a killed export left aside
exportVars == <<staged, standing, backup, orphans>>

ExportInit == staged = NoBundle /\ standing = NoBundle /\ backup = NoBundle /\ orphans = <<>>

(***************************************************************************)
(* The lens: it sees its contract and a selection, and nothing else.        *)
(***************************************************************************)
\* *mutation*: a comparison source may be scored
AdmitAnySelectable(contract) ==
    {x.code : x \in {y \in Range(contract.sources) : y.selectable}}

PanelAdmission(contract) ==
    {x.code : x \in {y \in Range(contract.sources) :
                        y.selectable /\ y.code \notin contract.comparisonCodes}}
ResolveSelection(selection, contract) ==
    LET picked == {g \in contract.groups : g.selectable /\ g.code \in selection.groups}
    IN  ((UNION {g.members : g \in picked}) \cup selection.sources) \cap PanelAdmission(contract)

LensGrade(contract, explicit, top, total, tied) ==
    LET applies(rule) ==
            /\ explicit >= IF rule.explicit = 0 THEN contract.minimum ELSE rule.explicit
            /\ 100 * top >= rule.share * total
    IN  IF tied THEN "TIED"
        ELSE IF explicit < contract.minimum \/ total = 0 THEN "Insufficient"
        ELSE SelectSeq(contract.grades, applies)[1].grade

ScoreRace(race, codes, contract) ==
    LET chosen == codes \cap PanelAdmission(contract)
        cells == {x \in race.cells : x.code \in chosen}
        explicit == {x \in cells : Affirmative(x)}
        none == {x \in cells : x.state = "no_endorsement"}
        eligible == race.eligible \cap chosen
        support == [c \in UNION {DOMAIN x.allocation : x \in explicit} |->
                       MapThenSumSet(LAMBDA x : IF c \in DOMAIN x.allocation THEN x.allocation[c] ELSE 0,
                                     explicit)]
        points == {support[c] : c \in DOMAIN support}
        top == IF points = {} THEN 0 ELSE Max(points)
        total == MapThenSumSet(LAMBDA c : support[c], DOMAIN support)
        winners == SelectSeq(race.order, LAMBDA c : c \in DOMAIN support /\ support[c] = top)
    IN  [grade |-> LensGrade(contract, Cardinality(explicit), top, total, Len(winners) > 1),
         winners |-> winners, top |-> top, support |-> support,
         explicit |-> Cardinality(explicit), eligible |-> Cardinality(eligible),
         coverage |-> Cardinality(explicit \cup none),
         declining |-> {x.code : x \in none},
         missing |-> eligible \ {x.code : x \in explicit \cup none}]

(***************************************************************************)
(* The engine on the same sources: _effective_source_ids resolves the       *)
(* selection, restricted_dataset takes the other sources off the panel.     *)
(***************************************************************************)
EffectiveSources(selection, contract) ==
    LET picked == {g \in contract.groups : g.selectable /\ g.code \in selection.groups}
        codes == (UNION {g.members : g \in picked}) \cup selection.sources
    IN  {x.id : x \in {y \in Range(contract.sources) :
            y.selectable /\ y.code \in codes /\ y.code \notin contract.comparisonCodes}}
RaceExpectation(race, chosen) ==
    LET tally == Tally(EligibleSources(race) \cap chosen, race)
        codes(x) == {CodeOf[s] : s \in x}
    IN  [grade |-> tally.grade,
         winners |-> SelectSeq(BallotOrder[race], LAMBDA c : c \in tally.winners),
         top |-> tally.top, support |-> tally.support, explicit |-> tally.explicit,
         eligible |-> tally.eligible, coverage |-> tally.coverage,
         declining |-> codes(tally.declining), missing |-> codes(tally.missing)]

(***************************************************************************)
(* The export.                                                              *)
(***************************************************************************)
Bundle(build, files) == [build |-> build, files |-> files]

\* *mutation*: the report is taken as it is
AnyReport == last # NoBuild

\* The report is read with the dataset it claims to be of, and recomputed.
ReportRevalidates ==
    /\ last # NoBuild
    /\ last.decisions = decisions /\ last.pending = pending
    /\ last.report = Report
Publishable(report) ==
    LET view == ViewModel(report)
    IN  ViewHolds(view) /\ ValidatePublication(view, report)

StartExport ==
    /\ staged = NoBundle
    /\ ReportRevalidates /\ Publishable(last.report)
    /\ staged' = Bundle([decisions |-> decisions, pending |-> pending, report |-> last.report], {})
    /\ UNCHANGED <<scoringVars, standing, backup, orphans>>
StageFile ==
    /\ staged # NoBundle
    /\ \E name \in Artifacts \ staged.files :
          staged' = [staged EXCEPT !.files = @ \cup {name}]
    /\ UNCHANGED <<scoringVars, standing, backup, orphans>>
AllStaged == staged # NoBundle /\ staged.files = Artifacts

SetAside ==
    /\ AllStaged /\ standing # NoBundle
    /\ standing' = NoBundle /\ backup' = standing
    /\ UNCHANGED <<scoringVars, staged, orphans>>
Install ==
    /\ AllStaged /\ standing = NoBundle
    /\ standing' = staged
    /\ staged' = NoBundle /\ backup' = NoBundle
    /\ UNCHANGED <<scoringVars, orphans>>
\* Any step fails: what was moved aside is put back.
ExportFails ==
    /\ staged # NoBundle
    /\ standing' = IF backup # NoBundle THEN backup ELSE standing
    /\ staged' = NoBundle /\ backup' = NoBundle
    /\ UNCHANGED <<scoringVars, orphans>>
ExportDies ==
    /\ backup # NoBundle /\ Len(orphans) < MaxKills
    /\ orphans' = Append(orphans, backup)
    /\ staged' = NoBundle /\ backup' = NoBundle
    /\ UNCHANGED <<scoringVars, standing>>

PublicationInit == ScoringInit /\ ExportInit
PublicationNext ==
    \/ ScoringNext /\ UNCHANGED exportVars
    \/ StartExport \/ StageFile \/ SetAside \/ Install \/ ExportFails \/ ExportDies
publicationVars == <<scoringVars, exportVars>>
PublicationSpec == PublicationInit /\ [][PublicationNext]_publicationVars

(***************************************************************************)
(* Properties.                                                              *)
(***************************************************************************)
\* A report has been made of the dataset, and nothing of it exported yet.
Generations == ({standing, backup} \cup Range(orphans)) \ {NoBundle}
Ready == Scored /\ staged = NoBundle /\ Generations = {}

(***************************************************************************)
(* What a reader sees is what the auditor would compute.  Whatever is       *)
(* selected -- sources, groups, both, codes of the comparison source or of  *)
(* nobody -- the lens, from the published contract alone, comes for every   *)
(* public race to the grade, the winners in ballot order, the support and   *)
(* the counts of the audited engine run on those sources; and with nothing  *)
(* left out to the published ones.  (lens-score.mjs, personalization_races, *)
(* _effective_source_ids, _score_race.)                                     *)
(***************************************************************************)
LensAgrees(view) ==
    LET lens == view.personalization
    IN  \A selection \in Selections :
            LET codes == ResolveSelection(selection, lens)
                chosen == EffectiveSources(selection, lens)
            IN  \A race \in Range(lens.races) :
                   ScoreRace(race, codes, lens) = RaceExpectation(race.id, chosen)
FullPanelIsAudited(view) ==
    LET lens == view.personalization
        races == PublishedRaces(view.sections)
    IN  \A i \in DOMAIN races :
            LET score == ScoreRace(lens.races[i], PanelAdmission(lens), lens)
            IN  /\ score.grade = races[i].grade /\ score.winners = races[i].leaders
                /\ score.top = races[i].top /\ score.explicit = races[i].explicit
LensIsTheEngine ==
    Ready => LET view == PublicView(ViewModel(last.report))
             IN  LensAgrees(view) /\ FullPanelIsAudited(view)

(***************************************************************************)
(* The publication never stops at its own checks: a report of the dataset   *)
(* it is read with is refused only where a source that is declared a        *)
(* coverage gap has an endorsement after all; and the projection the public *)
(* pages are made from, which nothing checks, passes every check the        *)
(* complete view had to.  (build_publication_bundle, validate_topology,     *)
(* validate_personalization, validate_comparisons, public_view.)            *)
(***************************************************************************)
GapSpeaks == \E s \in Gaps \cap Range(Active) : \E r \in Eligible[s] : ExplicitStatus(decisions[s][r])
PublicationHolds ==
    Ready =>
        IF GapSpeaks THEN ~Publishable(last.report)
        ELSE Publishable(last.report) /\ ViewHolds(PublicView(ViewModel(last.report)))

(***************************************************************************)
(* From the decisions to the pages: the report is well formed and the       *)
(* panel's, and so is what is published of it.                              *)
(***************************************************************************)
PublishedAsScored == ReportIsThePanels /\ PublicationHolds

(***************************************************************************)
(* What stands in the output directory, and what was moved aside, is one    *)
(* whole generation of a report with its own dataset; and once a generation *)
(* stood, there is one to be found whatever fails.  (export_build,          *)
(* ConsensusReport.validate_races, write_publication_bundle.)               *)
(***************************************************************************)
IsGeneration(bundle) == bundle # NoBundle => bundle.files = Artifacts
ReadTogether == staged = NoBundle /\ staged' # NoBundle => staged'.build.report = Report
ExportIsSound ==
    [][/\ ReadTogether /\ IsGeneration(standing')
       /\ ~(Generations \subseteq Generations') => standing' # NoBundle]_publicationVars
=============================================================================
