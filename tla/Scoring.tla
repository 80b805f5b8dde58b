-------------------------------- MODULE Scoring --------------------------------
(***************************************************************************)
(* The consensus of an election: scoring/engine.py, the policy and the      *)
(* self-checks of scoring/models.py, and the comparison of two reports in   *)
(* scoring/impact.py.                                                       *)
(*                                                                          *)
(* Between two builds people and refreshes change the canonical dataset by  *)
(* one decision of a source or one review item.  A point is counted in      *)
(* units of 1/Unit, so that every equal split is exact, as the code's       *)
(* fractions are.  Hashes stand for what they hash and are left out, and so *)
(* are the timestamps.                                                      *)
(***************************************************************************)
EXTENDS Election

CONSTANTS
    Category,     \* per source
    OverlapGroups,\* sets of sources
    Comparisons,  \* comparison_source_ids
    MinimumExplicit,
    Grades,       \* the rules: grade, share (hundredths), explicit (0: the minimum)
    Unit,
    Verdicts,     \* the decisions a source may come to
    Items,        \* review items: the claim's source, the races matched, severity
    MaxDecisions, \* bound: decisions in the dataset
    NoBuild

\* ScoringConfiguration.validate_policy and _validate_comparison_sources.
ConfigurationHolds ==
    /\ MinimumExplicit \in Nat \ {0}
    /\ [i \in DOMAIN Grades |-> Grades[i].grade] = <<"A+", "A", "B", "C", "D">>
    /\ \A i \in 1..4 : Grades[i].share > Grades[i + 1].share
    /\ Grades[5].share = 0 /\ Grades[5].explicit <= MinimumExplicit
    /\ \A s \in Comparisons : s \in Sources /\ Role[s] = "comparison"
    /\ \A v \in Verdicts : \A n \in {Cardinality(v.choices)} : n > 0 => Unit % n = 0
ASSUME ConfigurationAssumption == ConfigurationHolds

VARIABLES
    decisions, pending,
    last           \* the last build: the decisions and items it scored, its report
scoringVars == <<decisions, pending, last>>

NoDecision == [status |-> "absent", choices |-> {}, sure |-> TRUE]
ScoringInit ==
    /\ decisions = [s \in Sources |-> [r \in Races |-> NoDecision]]
    /\ pending = {}
    /\ last = NoBuild

(***************************************************************************)
(* One race, _score_race.                                                   *)
(***************************************************************************)
\* *mutation*: every source that permits the race is on the panel
AnyRole(race) == {s \in Sources : race \in Eligible[s]}

EligibleSources(race) == {s \in Sources : Role[s] = "consensus" /\ race \in Eligible[s]}

Endorsing(sources, race) == {s \in sources : ExplicitStatus(decisions[s][race])}
Declining(sources, race) == {s \in sources : Declined(decisions[s][race])}
Covering(sources, race) == Endorsing(sources, race) \cup Declining(sources, race)

Points(d, choice) == IF choice \in d.choices THEN Unit \div Cardinality(d.choices) ELSE 0
Support(sources, race) ==
    LET explicit == Endorsing(sources, race)
    IN  [c \in UNION {decisions[s][race].choices : s \in explicit} |->
            MapThenSumSet(LAMBDA s : Points(decisions[s][race], c), explicit)]
Total(support) == MapThenSumSet(LAMBDA c : support[c], DOMAIN support)
WinnersOf(support) == {c \in DOMAIN support : \A d \in DOMAIN support : support[d] <= support[c]}

\* grade_for: ties first, then too few sources, then the first rule that applies.
GradeFor(explicit, top, total, tied) ==
    IF tied THEN "TIED"
    ELSE IF explicit < MinimumExplicit \/ total = 0 THEN "Insufficient"
    ELSE LET applies == {i \in DOMAIN Grades :
                            /\ explicit >= IF Grades[i].explicit = 0 THEN MinimumExplicit
                                           ELSE Grades[i].explicit
                            /\ 100 * top >= Grades[i].share * total}
         IN  Grades[Min(applies)].grade
Ordinary(grade) == grade \notin {"TIED", "Insufficient"}

Comparison(source, race, winners, grade) ==
    LET d == decisions[source][race]
        result(status) == [source |-> source, status |-> status, choices |-> d.choices]
    IN  IF ~ExplicitStatus(d) /\ ~Declined(d) THEN result("not_covered")
        ELSE IF Declined(d) THEN result("no_endorsement")
        ELSE IF ~Ordinary(grade) THEN result("no_consensus")
        ELSE IF winners \subseteq d.choices THEN result("agrees") ELSE result("differs")

\* The races a review item bears on: those it matched, or all its source may
\* cover when it matched none; a source that nothing displays bears on none.
RelevantRaces(item) ==
    LET covers == Eligible[item.source]
    IN  IF Role[item.source] = "consensus" \/ item.source \in Comparisons
        THEN IF item.races = {} THEN covers ELSE covers \cap item.races
        ELSE {}
PendingIn(race) == {i \in pending : race \in RelevantRaces(i)}
High(items) == {i \in items : i.severity = "high"}

OverlapsIn(sources) == {g \in OverlapGroups : Cardinality(g \cap sources) > 1}
Displayed(sources, race) ==
    {s \in sources \cup Comparisons : decisions[s][race] # NoDecision}

CategoryOf(category, sources, race) ==
    LET members == {s \in sources : Category[s] = category}
    IN  [category |-> category, eligible |-> Cardinality(members),
         covered |-> Cardinality(Covering(members, race)),
         explicit |-> Cardinality(Endorsing(members, race)), support |-> Support(members, race)]

CategoryWarning(r) ==
    IF r.categoryCoverage # Cardinality(r.categories) THEN {[code |-> "low_category_coverage", about |-> {}]} ELSE {}
Warning(code, about) == IF about = {} THEN {} ELSE {[code |-> code, about |-> about]}
Warnings(r) ==
    Warning("missing_coverage", r.missing) \cup Warning("no_endorsement", r.declining)
    \cup Warning("pending_review", r.pending) \cup Warning("low_confidence", r.unsure)
    \cup Warning("source_overlap", r.overlapping)
    \cup Warning("unresolved_high_severity", High(r.pending))
    \cup CategoryWarning(r)
    \cup IF r.explicit < MinimumExplicit THEN {[code |-> "low_coverage", about |-> {}]} ELSE {}

\* What the endorsements of the given sources come to.
Tally(sources, race) ==
    LET explicit == Endorsing(sources, race)
        covered == Covering(sources, race)
        support == Support(sources, race)
        winners == WinnersOf(support)
        top == IF winners = {} THEN 0 ELSE support[CHOOSE c \in winners : TRUE]
    IN  [eligible |-> Cardinality(sources), coverage |-> Cardinality(covered),
         explicit |-> Cardinality(explicit), declining |-> Declining(sources, race),
         missing |-> sources \ covered, support |-> support, winners |-> winners, top |-> top,
         grade |-> GradeFor(Cardinality(explicit), top, Total(support), Cardinality(winners) > 1)]

RaceConsensus(race) ==
    LET sources == EligibleSources(race)
        covered == Covering(sources, race)
        tally == Tally(sources, race)
        unwarned == tally @@
            [categoryCoverage |-> Cardinality({Category[s] : s \in covered}),
             pending |-> PendingIn(race),
             unsure |-> {s \in Displayed(sources, race) : ~decisions[s][race].sure},
             overlapping |-> UNION {g \cap sources : g \in OverlapsIn(sources)},
             overlaps |-> {[eligible |-> g \cap sources, covered |-> g \cap covered,
                            explicit |-> g \cap Endorsing(sources, race)] : g \in OverlapsIn(sources)},
             alternatives |-> {[choice |-> c, points |-> tally.support[c]] :
                                  c \in DOMAIN tally.support \ tally.winners},
             categories |-> {CategoryOf(k, sources, race) : k \in {Category[s] : s \in sources}},
             comparisons |-> {Comparison(s, race, tally.winners, tally.grade) : s \in Comparisons}]
    IN  unwarned @@ [warnings |-> Warnings(unwarned)]

(***************************************************************************)
(* The report, score_dataset: an open high-severity item that bears on a    *)
(* race blocks it, unless it is allowed.                                    *)
(***************************************************************************)
Relevant == {i \in pending : RelevantRaces(i) # {}}
Undecided == High(Relevant) # {}
Report == [races |-> [r \in Races |-> RaceConsensus(r)], flagged |-> Undecided]

(***************************************************************************)
(* The self-checks of the report, RaceConsensus.validate_result and         *)
(* ConsensusReport.validate_races.                                          *)
(***************************************************************************)
CategoryHolds(c) ==
    /\ c.covered <= c.eligible /\ c.explicit <= c.covered
    /\ \A choice \in DOMAIN c.support : c.support[choice] > 0
    /\ Total(c.support) = Unit * c.explicit
OverlapHolds(o) ==
    Cardinality(o.eligible) >= 2 /\ o.explicit \subseteq o.covered /\ o.covered \subseteq o.eligible
SumOver(categories, field(_)) == MapThenSumSet(field, categories)
CategoriesReconcile(r) ==
    /\ r.categoryCoverage = Cardinality({c \in r.categories : c.covered > 0})
    /\ SumOver(r.categories, LAMBDA c : c.eligible) = r.eligible
    /\ SumOver(r.categories, LAMBDA c : c.covered) = r.coverage
    /\ SumOver(r.categories, LAMBDA c : c.explicit) = r.explicit
    /\ \A choice \in DOMAIN r.support \cup UNION {DOMAIN c.support : c \in r.categories} :
          /\ choice \in DOMAIN r.support
          /\ r.support[choice] =
                SumOver(r.categories,
                        LAMBDA c : IF choice \in DOMAIN c.support THEN c.support[choice] ELSE 0)
ComparisonHolds(c, r) ==
    /\ c.choices # {} <=> c.status \in {"agrees", "differs", "no_consensus"}
    /\ c.choices # {} =>
          IF ~Ordinary(r.grade) THEN c.status = "no_consensus"
          ELSE /\ Cardinality(r.winners) = 1
               /\ c.status = IF r.winners \subseteq c.choices THEN "agrees" ELSE "differs"
WarningsHold(r) ==
    LET expected == [missing_coverage |-> r.missing # {},
                     low_category_coverage |-> r.categoryCoverage < Cardinality(r.categories),
                     no_endorsement |-> r.declining # {}, pending_review |-> r.pending # {},
                     low_confidence |-> r.unsure # {}, source_overlap |-> r.overlapping # {},
                     unresolved_high_severity |-> High(r.pending) # {},
                     low_coverage |-> r.explicit < MinimumExplicit]
    IN  /\ {w.code : w \in r.warnings} = {code \in DOMAIN expected : expected[code]}
        /\ \A v, w \in r.warnings : v.code = w.code => v = w
ResultHolds(r) ==
    /\ r.coverage + Cardinality(r.missing) = r.eligible
    /\ r.explicit + Cardinality(r.declining) = r.coverage
    /\ \A c \in r.categories : CategoryHolds(c)
    /\ CategoriesReconcile(r)
    /\ \A o \in r.overlaps : OverlapHolds(o)
    /\ r.overlapping = UNION {o.eligible : o \in r.overlaps}
    /\ \A c \in r.comparisons : ComparisonHolds(c, r)
    /\ Total(r.support) = Unit * r.explicit
    /\ r.winners = WinnersOf(r.support)
    /\ \A c \in r.winners : r.top = r.support[c]
    /\ r.grade = "TIED" <=> Cardinality(r.winners) > 1
    /\ {a.choice : a \in r.alternatives} = DOMAIN r.support \ r.winners
    /\ \A a \in r.alternatives : a.points = r.support[a.choice] /\ a.points > 0
    /\ WarningsHold(r)
    /\ r.grade = GradeFor(r.explicit, r.top, Total(r.support), Cardinality(r.winners) > 1)

(***************************************************************************)
(* compare_consensus_snapshots: the fields of a race that the audit of a    *)
(* changed panel compares.                                                  *)
(***************************************************************************)
RaceSnapshot(r) ==
    [winners |-> r.winners, top |-> r.top, grade |-> r.grade, explicit |-> r.explicit,
     coverage |-> r.coverage, eligible |-> r.eligible, missing |-> Cardinality(r.missing),
     categoryCoverage |-> r.categoryCoverage, warnings |-> r.warnings]
Changes(before, after) ==
    {r \in Races : RaceSnapshot(before.races[r]) # RaceSnapshot(after.races[r])}

(***************************************************************************)
(* What happens to the dataset between two builds.                          *)
(***************************************************************************)
Decided == {p \in Sources \X Races : decisions[p[1]][p[2]] # NoDecision}
Scored == last # NoBuild /\ last.decisions = decisions /\ last.pending = pending
Decide ==
    /\ Scored
    /\ \E s \in Sources : \E r \in Eligible[s], v \in Verdicts :
          /\ VerdictHolds(v, r) /\ v # decisions[s][r]
          /\ decisions' = [decisions EXCEPT ![s][r] = v]
          /\ Cardinality(Decided \cup {<<s, r>>}) <= MaxDecisions
    /\ UNCHANGED <<pending, last>>
OpenItem ==
    /\ Scored
    /\ \E i \in Items \ pending : pending' = pending \cup {i}
    /\ UNCHANGED <<decisions, last>>
ResolveItem ==
    /\ Scored
    /\ \E i \in pending : pending' = pending \ {i}
    /\ UNCHANGED <<decisions, last>>

\* The score command, with or without --allow-unresolved.
Score ==
    /\ ~Scored
    /\ \E allowUnresolved \in BOOLEAN : ~Undecided \/ allowUnresolved
    /\ last' = [decisions |-> decisions, pending |-> pending, report |-> Report]
    /\ UNCHANGED <<decisions, pending>>
ScoringNext == Decide \/ OpenItem \/ ResolveItem \/ Score

(***************************************************************************)
(* Properties.                                                              *)
(***************************************************************************)

(***************************************************************************)
(* Scoring never stops at its own checks: whatever the dataset, the report  *)
(* passes every validation of the model it is built into, and the           *)
(* high-severity flag says the same as the races.  (score_dataset,          *)
(* validate_result, validate_races.)                                        *)
(***************************************************************************)
ReportHolds ==
    Scored =>
        /\ \A r \in Races : ResultHolds(last.report.races[r])
        /\ last.report.flagged <=> \E r \in Races : High(last.report.races[r].pending) # {}

(***************************************************************************)
(* The consensus answers to its panel alone.  A decision moves no other     *)
(* race; the decision of a source that is not on the panel of its race      *)
(* moves no winner, grade or count; and one more source for the sole winner *)
(* keeps the winner and never lowers the grade.  (_score_race, grade_for,   *)
(* compare_consensus_snapshots.)                                            *)
(***************************************************************************)
Rank(grade) == CHOOSE i \in 1..7 :
    grade = <<"A+", "A", "B", "C", "D", "TIED", "Insufficient">>[i]
Verdictless(r) == [RaceSnapshot(r) EXCEPT !.warnings = {}]
MovesOnlyItsRace(s, r, before, after) ==
    /\ Changes(before, after) \subseteq {r}
    /\ Role[s] # "consensus" => Verdictless(before.races[r]) = Verdictless(after.races[r])
JoinsTheWinner(s, r, before) ==
    /\ Role[s] = "consensus"
    /\ Cardinality(before.races[r].winners) = 1
    /\ ~ExplicitStatus(last.decisions[s][r])
    /\ decisions[s][r].choices = before.races[r].winners
NeverLowers(before, after) ==
    /\ after.winners = before.winners
    /\ Rank(after.grade) <= Rank(before.grade)
AnswersToPanel ==
    (last # NoBuild /\ last.pending = pending) =>
        LET after == Report
        IN  \A s \in Sources, r \in Races : last.decisions[s][r] # decisions[s][r] =>
               /\ MovesOnlyItsRace(s, r, last.report, after)
               /\ JoinsTheWinner(s, r, last.report) =>
                     NeverLowers(last.report.races[r], after.races[r])

(***************************************************************************)
(* The report is well formed, and the panel's.                              *)
(***************************************************************************)
ReportIsThePanels == ReportHolds /\ AnswersToPanel
=============================================================================
