--------------------------- MODULE PublicationView ---------------------------
(***************************************************************************)
(* What a guide publishes of one scored dataset: the registry of sources    *)
(* and its transport codes (sources/models.py, sources/panel.py), the view  *)
(* model and its two client contracts (publication/builder.py), the         *)
(* projection every public page is made from, and the checks each of them   *)
(* has to pass (publication/models.py, personalization.py, comparisons.py). *)
(*                                                                          *)
(* A label, a link or a timestamp is a function of the record it belongs    *)
(* to and is left out.  A sorted list without repetitions is a set; the     *)
(* order of sources, sections and races is kept.                            *)
(***************************************************************************)
EXTENDS Scoring, SequencesExt

CONSTANTS
    Panel,        \* the registry's sources, in its order
    CodeOf,       \* per source: its transport code
    Groups,       \* the registry's categories: id, code, selectable, role
    Joins,        \* per source: its selection categories
    RetiredCodes,
    Gaps,         \* sources whose endorsements were not found or not accessible
    BallotOrder,  \* per race: its choices, in ballot order
    Layout        \* the sections of the ballot: id, races in order

(***************************************************************************)
(* The registry of sources.                                                 *)
(***************************************************************************)
GroupIds == {g.id : g \in Groups}
GroupOf(id) == CHOOSE g \in Groups : g.id = id
Codes == {CodeOf[s] : s \in Sources} \cup {g.code : g \in Groups}

RoleHolds(s) ==
    /\ Role[s] = "excluded" => Eligible[s] = {}
    /\ Category[s] \in Joins[s]
    /\ IF Role[s] = "comparison" THEN Category[s] = "comparison" /\ Joins[s] = {"comparison"}
       ELSE "comparison" \notin Joins[s]
IdentitiesHold ==
    /\ Cardinality(GroupIds) = Cardinality(Groups)
    /\ Cardinality(Codes) = Cardinality(Groups) + Cardinality(Sources)
    /\ RetiredCodes \cap Codes = {}
    /\ \A s \in Sources :
          /\ Joins[s] \subseteq GroupIds
          /\ Role[s] # "excluded" => \E id \in Joins[s] : GroupOf(id).selectable
          /\ \A id \in Joins[s] : GroupOf(id).role = "comparison" <=> Role[s] = "comparison"
RegistryHolds ==
    /\ Range(Panel) = Sources /\ IsInjective(Panel)
    /\ \A s \in Sources : RoleHolds(s)
    /\ IdentitiesHold
    /\ Cardinality({s \in Sources : Role[s] = "comparison"}) = 1

PublishedRaces(sections) == FlattenSeq([i \in DOMAIN sections |-> sections[i].races])
\* BallotOrder.validate_unique_placements and validate_inventory; ballot_order.
LayoutHolds ==
    /\ Range(PublishedRaces(Layout)) = Races /\ IsInjective(PublishedRaces(Layout))
    /\ IsInjective([i \in DOMAIN Layout |-> Layout[i].id])
    /\ \A r \in Races : Range(BallotOrder[r]) = ChoicesOf[r] /\ IsInjective(BallotOrder[r])
ASSUME PanelAssumption == RegistryHolds /\ LayoutHolds

Active == SelectSeq(Panel, LAMBDA s : Role[s] # "excluded")
Selectable(s) == Role[s] # "excluded"

\* What the publication needs and no check of the registry asks for: the
\* comparison source is listed last, and every race has a source.
ASSUME PublishableAssumption ==
    /\ Role[Last(Active)] = "comparison"
    /\ \A r \in Races : \E s \in Range(Active) : r \in Eligible[s]

\* build_panel_snapshot.
SnapshotGroups ==
    {[id |-> g.id, code |-> g.code, selectable |-> g.selectable, role |-> g.role,
      members |-> IF g.selectable THEN {CodeOf[s] : s \in {x \in Sources : Selectable(x) /\ g.id \in Joins[x]}}
                  ELSE {}] : g \in Groups}

(***************************************************************************)
(* One race.                                                                *)
(***************************************************************************)
CellState ==
    [endorsed |-> "endorsement", dual_endorsement |-> "multi_endorsement",
     multiple_endorsement |-> "multi_endorsement", no_endorsement |-> "no_endorsement",
     declined_to_endorse |-> "no_endorsement", not_covered |-> "not_covered",
     not_published |-> "not_covered", source_unavailable |-> "unavailable",
     unverified |-> "unverified", ambiguous |-> "unverified", absent |-> "not_covered"]
Affirmative(cell) == cell.state \in {"endorsement", "multi_endorsement"}
Applies(cell) == cell.state # "not_applicable"

SourceCell(s, race) ==
    LET d == IF race \in Eligible[s] THEN decisions[s][race] ELSE NoDecision
    IN  [source |-> s,
         state |-> IF race \in Eligible[s] THEN CellState[d.status] ELSE "not_applicable",
         allocation |-> [c \in d.choices |-> Unit \div Cardinality(d.choices)],
         evidence |-> d # NoDecision, warned |-> ~d.sure]
Cells(race) == {SourceCell(s, race) : s \in Range(Active)}

Chosen(cell) == DOMAIN cell.allocation
OnPanel(cell) == Role[cell.source] = "consensus"
SupportIn(cells) ==
    [c \in UNION {Chosen(x) : x \in cells} |->
        MapThenSumSet(LAMBDA x : IF c \in Chosen(x) THEN x.allocation[c] ELSE 0, cells)]
EndorsementGroups(cells) ==
    LET for == {x \in cells : OnPanel(x) /\ Affirmative(x)}
        points == SupportIn(for)
    IN  {[choice |-> c, points |-> points[c],
          endorsers |-> {[source |-> x.source, shared |-> x.state = "multi_endorsement",
                          warned |-> x.warned] : x \in {y \in for : c \in Chosen(y)}}] :
            c \in DOMAIN points}

NoShare == -1
PercentageWhole(points, total) ==
    IF total = 0 THEN NoShare ELSE (200 * points + total) \div (2 * total)

PublicationRace(section, race, result) ==
    LET leaders == SelectSeq(BallotOrder[race], LAMBDA c : c \in result.winners)
        total == Total(result.support)
        cells == Cells(race)
    IN
    [id |-> race, section |-> section, contested |-> Cardinality(ChoicesOf[race]) > 1,
     leaders |-> leaders, recommended |-> IF result.grade = "Insufficient" THEN <<>> ELSE leaders,
     grade |-> result.grade, top |-> result.top, total |-> total,
     percent |-> PercentageWhole(result.top, total),
     explicit |-> result.explicit, eligible |-> result.eligible, coverage |-> result.coverage,
     categoryCoverage |-> result.categoryCoverage, declining |-> Cardinality(result.declining),
     missing |-> Cardinality(result.missing), endorsements |-> EndorsementGroups(cells),
     categories |-> result.categories, alternatives |-> result.alternatives,
     comparisons |-> result.comparisons, warnings |-> {w.code : w \in result.warnings},
     cells |-> cells, candidates |-> BallotOrder[race]]

(***************************************************************************)
(* The view model of a report.                                              *)
(***************************************************************************)
Sections(report) ==
    LET race(l, r) == PublicationRace(l.id, r, report.races[r])
        section(l) == [id |-> l.id,
                       races |-> SelectSeq([i \in DOMAIN l.races |-> race(l, l.races[i])],
                                           LAMBDA x : x.id \in DOMAIN report.races)]
    IN  SelectSeq([i \in DOMAIN Layout |-> section(Layout[i])], LAMBDA x : x.races # <<>>)

CountIn(sections, s, states) ==
    MapThenSumSet(
        LAMBDA r : Cardinality({x \in r.cells : x.source = s /\ x.state \in states}),
        Range(PublishedRaces(sections)))
Counts(sections, s) ==
    [endorsed |-> CountIn(sections, s, {"endorsement", "multi_endorsement"}),
     split |-> CountIn(sections, s, {"multi_endorsement"})]

\* The overlap groups that at least two active sources belong to.
PublishedOverlaps == {g \in OverlapGroups : Cardinality(g \cap Range(Active)) > 1}
PublicationSource(sections, s) ==
    [id |-> s, category |-> Category[s], role |-> Role[s],
     overlaps |-> {g \in PublishedOverlaps : s \in g},
     counts |-> Counts(sections, s), gap |-> s \in Gaps]

\* Categories in the order of their first source, the comparison's last.
InOrderSeen(list) ==
    SelectSeq([i \in DOMAIN list |-> [at |-> i, is |-> list[i]]],
              LAMBDA x : \A j \in 1..(x.at - 1) : list[j] # x.is)
Methodology ==
    LET seen == InOrderSeen([i \in DOMAIN Active |-> Category[Active[i]]])
        listed(final) == SelectSeq([i \in DOMAIN seen |-> seen[i].is],
                                   LAMBDA k : (k = "comparison") = final)
        order == listed(FALSE) \o listed(TRUE)
    IN  [categories |-> [i \in DOMAIN order |->
                            [id |-> order[i],
                             members |-> SelectSeq(Active, LAMBDA s : Category[s] = order[i])]],
         overlaps |-> {g \cap Range(Active) : g \in PublishedOverlaps}]

PersonalizationRaces(sections) ==
    LET races == PublishedRaces(sections)
        scored(r) == {x \in r.cells : Applies(x)}
        lens(cell) == [code |-> CodeOf[cell.source], state |-> cell.state,
                       allocation |-> cell.allocation, warned |-> cell.warned]
    IN  [i \in DOMAIN races |->
            [id |-> races[i].id, eligible |-> {CodeOf[x.source] : x \in scored(races[i])},
             cells |-> {lens(x) : x \in scored(races[i])}, order |-> BallotOrder[races[i].id]]]
Personalization(published, sections) ==
    [comparisonCodes |-> {CodeOf[x.id] : x \in {y \in Range(published) : y.role = "comparison"}},
     minimum |-> MinimumExplicit, grades |-> Grades, groups |-> SnapshotGroups,
     sources |-> [i \in DOMAIN published |->
                    LET s == published[i].id
                    IN  [id |-> s, code |-> CodeOf[s], role |-> published[i].role,
                         selectable |-> Selectable(s), category |-> Category[s],
                         joins |-> Joins[s], overlaps |-> published[i].overlaps]],
     retired |-> RetiredCodes, races |-> PersonalizationRaces(sections)]

\* Where each race stands on the page.
Positions(sections) ==
    FlattenSeq([i \in DOMAIN sections |->
        [j \in DOMAIN sections[i].races |->
            [id |-> sections[i].races[j].id, section |-> sections[i].id, at |-> <<i, j>>]]])
DisplayIndex(sections) ==
    LET places == Positions(sections)
        races == PublishedRaces(sections)
    IN  [i \in DOMAIN races |->
            places[i] @@ [names |-> Range(BallotOrder[races[i].id]), leading |-> races[i].leaders,
                          top |-> races[i].top, total |-> races[i].total,
                          explicit |-> races[i].explicit]]

ViewModel(report) ==
    LET sections == Sections(report)
        published == SelectSeq([i \in DOMAIN Panel |-> PublicationSource(sections, Panel[i])],
                               LAMBDA x : x.role # "excluded")
    IN  [sources |-> published, sections |-> sections, methodology |-> Methodology,
         personalization |-> Personalization(published, sections),
         comparisons |-> DisplayIndex(sections),
         meta |-> [sources |-> Len(Active), published |-> Cardinality(DOMAIN report.races),
                   races |-> Cardinality(Races),
                   gaps |-> Cardinality({x \in Range(published) : x.gap})]]

(***************************************************************************)
(* What the public pages are made from: the races that are contested or     *)
(* well covered.  It is a copy, and nothing checks it again.                *)
(***************************************************************************)
IsRaceVisible(race, view) == race.contested \/ race.explicit >= view.personalization.minimum
GuideSections(view) ==
    SelectSeq([i \in DOMAIN view.sections |->
                  [view.sections[i] EXCEPT
                      !.races = SelectSeq(@, LAMBDA r : IsRaceVisible(r, view))]],
              LAMBDA x : x.races # <<>>)

\* *mutation*: the sources keep the counts of the complete view
PublicKeepingCounts(view) ==
    LET sections == GuideSections(view)
        shown == {r.id : r \in Range(PublishedRaces(sections))}
    IN  [view EXCEPT
            !.sections = sections, !.meta.published = Cardinality(shown),
            !.personalization.races = SelectSeq(@, LAMBDA r : r.id \in shown),
            !.comparisons = DisplayIndex(sections)]

PublicView(view) ==
    LET sections == GuideSections(view)
        shown == {r.id : r \in Range(PublishedRaces(sections))}
        places == Positions(sections)
    IN  [view EXCEPT
            !.sections = sections, !.meta.published = Cardinality(shown),
            !.sources = [i \in DOMAIN @ |-> [@[i] EXCEPT !.counts = Counts(sections, view.sources[i].id)]],
            !.personalization.races = SelectSeq(@, LAMBDA r : r.id \in shown),
            !.comparisons =
                LET kept == SelectSeq(@, LAMBDA x : x.id \in shown)
                IN  [i \in DOMAIN kept |-> [kept[i] EXCEPT !.at = places[i].at]]]

(***************************************************************************)
(* The checks of the view model.                                            *)
(***************************************************************************)
SumsTo(allocation, total) == MapThenSumSet(LAMBDA c : allocation[c], DOMAIN allocation) = total
FitsState(state, allocation) ==
    LET n == Cardinality(DOMAIN allocation)
    IN  /\ state = "endorsement" => n = 1
        /\ state = "multi_endorsement" => n >= 2
        /\ state \notin {"endorsement", "multi_endorsement"} => n = 0
        /\ n > 0 => /\ \A c \in DOMAIN allocation : allocation[c] > 0
                    /\ SumsTo(allocation, Unit)
CellHolds(cell) ==
    /\ FitsState(cell.state, cell.allocation)
    /\ \A c, d \in Chosen(cell) : cell.allocation[c] = cell.allocation[d]
    /\ cell.state \in {"endorsement", "multi_endorsement", "no_endorsement", "unavailable", "unverified"}
          => cell.evidence

LeadersHold(race) ==
    IF race.grade = "Insufficient" THEN Len(race.leaders) <= 1 /\ race.recommended = <<>>
    ELSE /\ race.grade = "TIED" => Len(race.leaders) >= 2
         /\ race.grade # "TIED" => Len(race.leaders) = 1
         /\ race.recommended = race.leaders
ShareHolds(race) ==
    IF race.total = 0 THEN race.leaders = <<>> /\ race.percent = NoShare
    ELSE /\ race.leaders # <<>> /\ race.top \in 1..race.total
         /\ race.percent = PercentageWhole(race.top, race.total) /\ race.percent \in 0..100
DisplaySemanticsHold(race) ==
    /\ IsInjective(race.candidates) /\ IsInjective(race.leaders)
    /\ LeadersHold(race) /\ ShareHolds(race)
    /\ \A x, y \in race.cells : x.source = y.source => x = y
    /\ \A a, b \in race.alternatives : a.choice = b.choice => a = b
    /\ {a.choice : a \in race.alternatives} \cap Range(race.leaders) = {}
    /\ race.coverage = race.explicit + race.declining
    /\ race.missing = race.eligible - race.coverage
    /\ \A a, b \in race.categories : a.category = b.category => a = b
    /\ race.eligible = SumOver(race.categories, LAMBDA c : c.eligible)
    /\ race.coverage = SumOver(race.categories, LAMBDA c : c.covered)
    /\ race.explicit = SumOver(race.categories, LAMBDA c : c.explicit)
    /\ race.categoryCoverage = Cardinality({c \in race.categories : c.covered > 0})

\* validate_topology: what a race says of itself is what its cells say.
Scorable(race) == {x \in race.cells : OnPanel(x) /\ Applies(x)}
Stating(cells) == {x \in cells : Affirmative(x) \/ x.state = "no_endorsement"}
CountsFollowCells(race) ==
    LET cells == Scorable(race)
        explicit == {x \in cells : Affirmative(x)}
    IN  /\ race.eligible = Cardinality(cells)
        /\ race.explicit = Cardinality(explicit)
        /\ race.coverage = Cardinality(Stating(cells))
        /\ race.declining = Cardinality(Stating(cells) \ explicit)
        /\ race.missing = Cardinality(cells) - race.coverage
        /\ race.categoryCoverage = Cardinality({Category[x.source] : x \in Stating(cells)})
EndorsementsFollowCells(race) ==
    LET explicit == {x \in Scorable(race) : Affirmative(x)}
        points == SupportIn(explicit)
    IN  /\ {e.choice : e \in race.endorsements} = DOMAIN points
        /\ \A e \in race.endorsements :
              LET cells == {x \in explicit : e.choice \in Chosen(x)}
              IN  /\ e.points = points[e.choice] /\ e.points > 0
                  /\ e.endorsers = {[source |-> x.source, shared |-> x.state = "multi_endorsement",
                                     warned |-> x.warned] : x \in cells}
CategoriesFollowCells(race) ==
    LET cells == Scorable(race)
        within(k) == {x \in cells : Category[x.source] = k}
        explicit(k) == {x \in within(k) : Affirmative(x)}
    IN  /\ {c.category : c \in race.categories} = {Category[x.source] : x \in cells}
        /\ \A c \in race.categories :
              /\ c.eligible = Cardinality(within(c.category))
              /\ c.covered = Cardinality(Stating(within(c.category)))
              /\ c.explicit = Cardinality(explicit(c.category))
              /\ c.support = SupportIn(explicit(c.category))
MethodologyHolds(view) ==
    LET listed == view.methodology.categories
        seen == InOrderSeen([i \in DOMAIN view.sources |-> view.sources[i].category])
        of(k) == SelectSeq(view.sources, LAMBDA x : x.category = k)
    IN  /\ [i \in DOMAIN listed |-> listed[i].id] = [i \in DOMAIN seen |-> seen[i].is]
        /\ \A k \in Range(listed) :
              k.members = [i \in DOMAIN of(k.id) |-> of(k.id)[i].id]
        /\ view.methodology.overlaps =
              {{x.id : x \in {y \in Range(view.sources) : g \in y.overlaps}} :
                  g \in UNION {x.overlaps : x \in Range(view.sources)}}
RaceTopologyHolds(race, view) ==
    /\ {x.source : x \in race.cells} = {x.id : x \in Range(view.sources)}
    /\ {c.source : c \in race.comparisons} =
          {x.id : x \in {y \in Range(view.sources) : y.role = "comparison"}}
    /\ CountsFollowCells(race) /\ EndorsementsFollowCells(race) /\ CategoriesFollowCells(race)
TopologyHolds(view) ==
    LET races == PublishedRaces(view.sections)
    IN  /\ IsInjective([i \in DOMAIN races |-> races[i].id])
        /\ MethodologyHolds(view)
        /\ \A section \in Range(view.sections) : \A r \in Range(section.races) :
              r.section = section.id /\ RaceTopologyHolds(r, view)
        /\ \A x \in Range(view.sources) :
              x.counts = Counts(view.sections, x.id) /\ x.counts.split <= x.counts.endorsed
        /\ view.meta.sources = Len(view.sources)
        /\ view.meta.gaps = Cardinality({x \in Range(view.sources) : x.gap})
        /\ view.meta.published = Len(races) /\ view.meta.published <= view.meta.races
\* PublicationSource.validate_overlap_groups.
GapsHold(view) == \A x \in Range(view.sources) : x.gap => x.counts.endorsed = 0

\* The contract of the lens in itself.
LensRaceHolds(race) ==
    /\ race.eligible # {}
    /\ Cardinality(race.cells) = Cardinality(race.eligible)
    /\ {x.code : x \in race.cells} = race.eligible
    /\ IsInjective(race.order)
    /\ \A x \in race.cells :
          /\ x.state \in {"endorsement", "multi_endorsement", "no_endorsement", "not_covered",
                          "unavailable", "unverified"}
          /\ FitsState(x.state, x.allocation)
          /\ DOMAIN x.allocation \subseteq Range(race.order)
ContractHolds(contract) ==
    LET with(p(_)) == {x.code : x \in {y \in Range(contract.sources) : p(y)}}
        live == {x.code : x \in Range(contract.sources)} \cup {g.code : g \in contract.groups}
        comparing == {g.id : g \in {h \in contract.groups : h.role = "comparison"}}
    IN  /\ Cardinality(live) = Len(contract.sources) + Cardinality(contract.groups)
        /\ live \cap contract.retired = {}
        /\ \A x \in Range(contract.sources) :
              /\ x.joins \subseteq {g.id : g \in contract.groups}
              /\ x.category \in x.joins /\ x.selectable
              /\ x.joins \cap comparing = IF x.role = "comparison" THEN comparing ELSE {}
        /\ \A g \in contract.groups :
              g.members = IF g.selectable THEN with(LAMBDA x : x.selectable /\ g.id \in x.joins) ELSE {}
        /\ contract.comparisonCodes = with(LAMBDA x : x.role = "comparison")
        /\ contract.comparisonCodes # {} /\ contract.comparisonCodes \subseteq with(LAMBDA x : x.selectable)
        /\ IsInjective([i \in DOMAIN contract.races |-> contract.races[i].id])
        /\ \A r \in Range(contract.races) : LensRaceHolds(r) /\ r.eligible \subseteq live

\* The lens payload is the displayed model's.
PersonalizationHolds(view) ==
    LET lens == view.personalization
        races == PublishedRaces(view.sections)
        code(s) == (CHOOSE x \in Range(lens.sources) : x.id = s).code
    IN  /\ ContractHolds(lens)
        /\ Len(lens.sources) = Len(view.sources) /\ Len(lens.races) = Len(races)
        /\ \A i \in DOMAIN view.sources :
              /\ lens.sources[i].id = view.sources[i].id
              /\ lens.sources[i].role = view.sources[i].role
              /\ lens.sources[i].category = view.sources[i].category
              /\ lens.sources[i].overlaps = view.sources[i].overlaps
        /\ \A i \in DOMAIN races :
              LET scored == {x \in races[i].cells : Applies(x)}
              IN  /\ lens.races[i].id = races[i].id
                  /\ lens.races[i].eligible = {code(x.source) : x \in scored}
                  /\ \A x \in scored :
                        [code |-> code(x.source), state |-> x.state, allocation |-> x.allocation,
                         warned |-> x.warned] \in lens.races[i].cells

\* The comparison page's contract, in itself and against the displayed model.
BaselineHolds(entry) ==
    /\ IsInjective(entry.leading) /\ Range(entry.leading) \subseteq entry.names /\ entry.names # {}
    /\ entry.leading = <<>> <=> entry.total = 0
    /\ entry.total > 0 => entry.top \in 1..entry.total
IndexHolds(entries) ==
    LET at(i) == entries[i].at
    IN  /\ IsInjective([i \in DOMAIN entries |-> entries[i].id])
        /\ entries # <<>> => at(1) = <<1, 1>>
        /\ \A i \in 2..Len(entries) :
              \/ at(i) = <<at(i - 1)[1], at(i - 1)[2] + 1>> /\ entries[i].section = entries[i - 1].section
              \/ at(i) = <<at(i - 1)[1] + 1, 1>>
        /\ \A i \in DOMAIN entries : BaselineHolds(entries[i])
ComparisonsHold(view) ==
    LET entries == view.comparisons
        races == PublishedRaces(view.sections)
        places == Positions(view.sections)
    IN  /\ IndexHolds(entries)
        /\ Len(entries) = Len(races) /\ Len(view.personalization.races) = Len(races)
        /\ \A i \in DOMAIN races :
              /\ [k \in DOMAIN places[i] |-> entries[i][k]] = places[i]
              /\ entries[i].id = view.personalization.races[i].id
              /\ entries[i].names = Range(view.personalization.races[i].order)
              /\ entries[i].leading = races[i].leaders
              /\ entries[i].top = races[i].top /\ entries[i].total = races[i].total
              /\ entries[i].explicit = races[i].explicit

ViewHolds(view) ==
    /\ \A r \in Range(PublishedRaces(view.sections)) :
          DisplaySemanticsHold(r) /\ \A x \in r.cells : CellHolds(x)
    /\ TopologyHolds(view) /\ GapsHold(view) /\ PersonalizationHolds(view) /\ ComparisonsHold(view)

(***************************************************************************)
(* The checks of the view against the report and the dataset.               *)
(***************************************************************************)
ViewRaceMatches(race, result) ==
    /\ race.contested = (Cardinality(ChoicesOf[race.id]) > 1)
    /\ Range(race.leaders) = result.winners
    /\ Range(race.recommended) = IF result.grade = "Insufficient" THEN {} ELSE result.winners
    /\ race.grade = result.grade /\ race.top = result.top /\ race.total = Total(result.support)
    /\ race.percent = PercentageWhole(result.top, Total(result.support))
    /\ race.explicit = result.explicit /\ race.eligible = result.eligible
    /\ race.coverage = result.coverage /\ race.categoryCoverage = result.categoryCoverage
    /\ race.declining = Cardinality(result.declining)
    /\ race.missing = Cardinality(result.missing)
    /\ race.comparisons = result.comparisons /\ race.alternatives = result.alternatives
    /\ race.warnings = {w.code : w \in result.warnings}
ValidatePublication(view, report) ==
    LET races == PublishedRaces(view.sections)
    IN  /\ {r.id : r \in Range(races)} = DOMAIN report.races
        /\ Len(races) = Cardinality(DOMAIN report.races)
        /\ \A r \in Range(races) :
              /\ ViewRaceMatches(r, report.races[r.id])
              /\ r.cells = Cells(r.id) /\ r.endorsements = EndorsementGroups(Cells(r.id))
        /\ view.meta.sources = Len(Active)
        /\ view.meta.published = Cardinality(DOMAIN report.races)
        /\ \A x \in Range(view.comparisons) :
              /\ Range(x.leading) = report.races[x.id].winners
              /\ x.explicit = report.races[x.id].explicit
              /\ x.names = ChoicesOf[x.id]
=============================================================================
