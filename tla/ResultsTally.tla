----------------------------- MODULE ResultsTally -----------------------------
(***************************************************************************)
(* The results file of an election, and the commands that write it          *)
(* (results/ingest.py, ingest_secretary_of_state.py, preliminary.py,        *)
(* models.py, validation.py and the results commands of cli.py): certified  *)
(* counts from the county's export, more of them merged from the            *)
(* Secretary of State's, and preliminary counts through a reviewed mapping. *)
(*                                                                          *)
(* A command that refuses writes nothing, so that every action is a command *)
(* that passed all of its checks.  Which texts normalise to one another is  *)
(* left to Labels and Names; election, registered authority and calendar    *)
(* day agree, or the command refuses.  A capture is the export it holds.    *)
(***************************************************************************)
EXTENDS Integers, Sequences, FiniteSets, SequencesExt, FiniteSetsExt, Functions, Relation

CONSTANTS
    Ballot,          \* per race: [kind, jurisdiction, eligible, choices in ballot order]
    Names,           \* per choice: the texts that name it
    Labels,          \* per authority and race: the texts of its contest
    Parent,          \* per jurisdiction: the one around it, or None
    CountyExports,   \* sequences of [contest, name, votes, ballots]
    StateExports,    \* sequences of [contest, total, rows]; rows of [name, votes, writeIn]
    PreliminaryExports,  \* [source, official, generated, captured, contests], see FeedHolds
    Plans,           \* reviewed mappings: per race its binding, see BindingHolds
    MaxCaptures,     \* bound: captures a preliminary file cites
    LastTry,         \* bound: the clock of failed refreshes
    Unknown          \* a fact the publisher does not state

VARIABLE results     \* the committed file
tallyVars == <<results>>

Contested == DOMAIN Ballot
Standing(r) == Range(Ballot[r].choices)
Order(r, c) == CHOOSE i \in DOMAIN Ballot[r].choices : Ballot[r].choices[i] = c
Votes(rows) == FoldSeq(LAMBDA row, sum : row.votes + sum, 0, rows)
ResultsCapture(kind, export) == [kind |-> kind, export |-> export]
ResultsInit == results = Unknown

\* validate_results_inventory: what the file names is on the ballot.
InventoryHolds(file) ==
    /\ file.kind = "preliminary" => DOMAIN file.races = Contested
    /\ \A r \in DOMAIN file.races :
          /\ r \in Contested /\ DOMAIN file.races[r].outcomes \subseteq Standing(r)
          /\ file.kind = "preliminary" => DOMAIN file.races[r].outcomes = Standing(r)
\* validate_results_evidence: nothing is cited from the election night.
EvidenceHolds(file) ==
    /\ \A r \in DOMAIN file.races : ResultsCapture(file.kind, file.races[r].capture) \in file.captures
    /\ file.kind = "preliminary" => \A failure \in file.failures :
          \E capture \in file.captures : capture.export.source = failure.source
WriteResults(file) == InventoryHolds(file) /\ EvidenceHolds(file) /\ results' = file

(***************************************************************************)
(* Matching and tallying, common to both certified adapters.                *)
(***************************************************************************)
MatchingRaces(authority, label, races) == {r \in races : label \in Labels[authority][r]}
MatchingChoices(name, r) == {c \in Standing(r) : name \in Names[c]}

\* resolve_and_build_expected_races: each expected race has one contest.
ContestsResolve(authority, labels, expected) ==
    /\ expected # {} /\ \A r \in expected : Ballot[r].eligible
    /\ \A i \in DOMAIN labels : Cardinality(MatchingRaces(authority, labels[i], expected)) <= 1
    /\ \A r \in expected : Cardinality({i \in DOMAIN labels : labels[i] \in Labels[authority][r]}) = 1
ContestOf(authority, labels, r) ==
    CHOOSE i \in DOMAIN labels : labels[i] \in Labels[authority][r]

Named(rows) == SelectSeq(rows, LAMBDA row : ~row.writeIn)
Tallied(r, rows) == {c \in Standing(r) : \E row \in Range(Named(rows)) : row.name \in Names[c]}

\* validate_resolved_tallies, and no choice twice (RaceResults).
TallyHolds(r, rows, total) ==
    /\ \A row \in Range(Named(rows)) : Cardinality(MatchingChoices(row.name, r)) = 1
    /\ Standing(r) \subseteq Tallied(r, rows)
    /\ total > 0 /\ Votes(Named(rows)) > 0
    /\ Len(Named(rows)) = Cardinality(Tallied(r, rows))

\* Ties go by the order of the ballot.  (A share is votes over all that are named.)
Outcomes(r, rows, top) ==
    LET votes == [c \in Tallied(r, rows) |->
                    (CHOOSE row \in Range(Named(rows)) : row.name \in Names[c]).votes]
        ahead(c) == {d \in DOMAIN votes : \/ votes[d] > votes[c]
                                          \/ votes[d] = votes[c] /\ Order(r, d) < Order(r, c)}
    IN  [c \in DOMAIN votes |-> [votes |-> votes[c], advanced |-> Cardinality(ahead(c)) < top]]
Race(r, authority, export, rows, total, top) ==
    [authority |-> authority, capture |-> export, total |-> total, outcomes |-> Outcomes(r, rows, top)]
TopCount(r) == IF Ballot[r].kind = "measure" THEN 1 ELSE 2

(***************************************************************************)
(* results ingest: the county's rows are grouped by contest, and the file   *)
(* is written anew.                                                         *)
(***************************************************************************)
CsvHolds(export) ==
    /\ export # << >>
    /\ \A x, y \in Range(export) : x.contest = y.contest => x.ballots = y.ballots
CountyContests(export) == SetToSeq({x.contest : x \in Range(export)})
CountyRows(r, export) ==
    LET labels == CountyContests(export)
        label == labels[ContestOf("county", labels, r)]
        rows == SelectSeq(export, LAMBDA x : x.contest = label)
    IN  [i \in DOMAIN rows |-> [name |-> rows[i].name, votes |-> rows[i].votes, ballots |-> rows[i].ballots,
                               writeIn |-> rows[i].name = "write-in"]]

IngestCounty(export, expected, night) ==
    LET total(r) == CountyRows(r, export)[1].ballots
    IN  /\ CsvHolds(export) /\ ContestsResolve("county", CountyContests(export), expected)
        /\ \A r \in expected : TallyHolds(r, CountyRows(r, export), total(r))
        /\ WriteResults([kind |-> "certified",
              races |-> [r \in expected |->
                            Race(r, "county", export, CountyRows(r, export), total(r), TopCount(r))],
              captures |-> {ResultsCapture("certified", export)} \cup night])

(***************************************************************************)
(* results ingest-secretary-of-state: more races join a certified file.     *)
(***************************************************************************)
StateContest(r, export) ==
    export[ContestOf("state", [i \in DOMAIN export |-> export[i].contest], r)]
\* merge_race_results
Merged(races, export) ==
    [results EXCEPT !.races = races @@ @, !.captures = @ \cup {ResultsCapture("certified", export)}]
IngestState(export, expected) ==
    /\ results # Unknown /\ results.kind = "certified"
    /\ \A r \in expected : Ballot[r].kind = "candidate"
    /\ ContestsResolve("state", [i \in DOMAIN export |-> export[i].contest], expected)
    /\ \A r \in expected : TallyHolds(r, StateContest(r, export).rows, StateContest(r, export).total)
    /\ expected \cap DOMAIN results.races = {}
    /\ WriteResults(Merged([r \in expected |->
           Race(r, "state", export, StateContest(r, export).rows, StateContest(r, export).total, 2)], export))

(***************************************************************************)
(* results ingest-preliminary: a reviewed mapping over the whole ballot.    *)
(***************************************************************************)
FeedHolds(feed) ==
    /\ feed.official # TRUE /\ feed.contests # << >>
    /\ IsInjective([i \in DOMAIN feed.contests |-> feed.contests[i].id])
    /\ \A contest \in Range(feed.contests) :
          /\ contest.rows # << >> /\ IsInjective([i \in DOMAIN contest.rows |-> contest.rows[i].id])
          /\ feed.source = "county" => contest.total = Votes(contest.rows)

\* The county counts all of a contest that lies within it.
Within == [x, y \in DOMAIN Parent |-> Parent[x] = y]
Coverage(b, feed) ==
    feed.source = "county" => ReflexiveTransitiveClosure(Within, DOMAIN Parent)[b.jurisdiction, "county"]

Contest(b, feed) == CHOOSE contest \in Range(feed.contests) : contest.id = b.contest
WriteIns(b, contest) ==
    {row \in Range(contest.rows) : row.flag = TRUE \/ \E o \in b.overrides : o.row = row.id}
NamedRows(b, contest) == Range(contest.rows) \ WriteIns(b, contest)
RowOf(contest, id) == CHOOSE row \in Range(contest.rows) : row.id = id

MappingHolds(r, b, contest) ==
    LET named == {row.id : row \in NamedRows(b, contest)}
    IN  /\ \A o \in b.overrides : \E row \in Range(contest.rows) :
              row.id = o.row /\ row.name = o.name /\ row.flag = o.flag
        /\ {m.row : m \in Range(b.rows)} = named /\ Len(b.rows) = Cardinality(named)
        /\ {m.choice : m \in Range(b.rows)} = Standing(r)
        /\ \A m \in Range(b.rows) :
              /\ RowOf(contest, m.row).name = m.name
              /\ MatchingChoices(m.name, r) = {m.choice}
BindingHolds(r, b, feed) ==
    /\ b.jurisdiction = Ballot[r].jurisdiction
    /\ \E contest \in Range(feed.contests) : contest.id = b.contest
    /\ LET contest == Contest(b, feed)
       IN  /\ contest.name = b.name /\ contest.kind = Ballot[r].kind
           /\ contest.reported # Unknown \/ feed.generated # Unknown
           /\ MappingHolds(r, b, contest)
    /\ Coverage(b, feed)

\* A choice mapped twice keeps the votes of its last row.
MappedVotes(b, contest, c) ==
    LET last == CHOOSE i \in DOMAIN b.rows :
                    b.rows[i].choice = c /\ \A j \in DOMAIN b.rows : b.rows[j].choice = c => j <= i
    IN  RowOf(contest, b.rows[last].row).votes
\* The publisher's own count time comes before the time of the export.
SourceTimestamp(race) == IF race.reported # Unknown THEN race.reported ELSE race.generated
Counted(r, b, feed) ==
    LET contest == Contest(b, feed)
    IN  [contest |-> contest.id, capture |-> feed,
         reported |-> contest.reported, generated |-> feed.generated, total |-> Votes(contest.rows), writeIns |-> Votes(SetToSeq(WriteIns(b, contest))),
         outcomes |-> [c \in Standing(r) |-> MappedVotes(b, contest, c)]]

\* *mutation*: the total of a preliminary tally is not compared
AnyTotal(race) == TRUE

TotalHolds(race) ==
    race.total = race.writeIns + FoldSet(LAMBDA c, s : race.outcomes[c] + s, 0, DOMAIN race.outcomes)

NotRegressed(old, races) ==
    \A r \in DOMAIN races : SourceTimestamp(old.races[r]) <= SourceTimestamp(races[r])

IngestPreliminary(plan, feeds) ==
    LET feed(r) == CHOOSE f \in feeds : f.source = plan[r].feed
        races == [r \in Contested |-> Counted(r, plan[r], feed(r))]
    IN  /\ \A f \in feeds : FeedHolds(f)
        /\ \A f, g \in feeds : f.source = g.source => f = g
        /\ \A r \in Contested : \E f \in feeds : f.source = plan[r].feed
        /\ \A r \in Contested : BindingHolds(r, plan[r], feed(r))
        /\ \A r \in Contested :
              /\ TotalHolds(races[r])
              /\ \A at \in {races[r].reported, races[r].generated} \ {Unknown} : at <= feed(r).captured
        /\ results # Unknown => results.kind = "preliminary" /\ NotRegressed(results, races)
        /\ WriteResults([kind |-> "preliminary", races |-> races,
              captures |-> {ResultsCapture("preliminary", f) : f \in feeds}
                              \cup (IF results = Unknown THEN {} ELSE results.captures),
              failures |-> IF results = Unknown THEN {} ELSE results.failures])
        /\ Cardinality(results'.captures) <= MaxCaptures

\* results record-refresh-failure, and the failing refresh itself.
RecordRefreshFailure(source, at) ==
    /\ results # Unknown /\ results.kind = "preliminary"
    /\ [source |-> source, at |-> at] \notin results.failures
    /\ WriteResults([results EXCEPT !.failures = @ \cup {[source |-> source, at |-> at]}])

TallyNext ==
    \/ \E export \in CountyExports, expected \in SUBSET Contested,
          night \in {{}, {ResultsCapture("election_night", Unknown)}} : IngestCounty(export, expected, night)
    \/ \E export \in StateExports, expected \in SUBSET Contested : IngestState(export, expected)
    \/ \E plan \in Plans, feeds \in {{f, g} : f, g \in PreliminaryExports} : IngestPreliminary(plan, feeds)
    \/ \E source \in {"county", "state"}, at \in 1..LastTry : RecordRefreshFailure(source, at)

(***************************************************************************)
(* Properties.                                                              *)
(***************************************************************************)

(***************************************************************************)
(* The file says of every race what the capture it cites says, whole: every *)
(* choice of the ballot with the votes of all its rows, no vote of the      *)
(* contest lost or counted twice, and whoever advanced was not beaten by    *)
(* one who did not.  (_build_race_results, _mapped_outcomes and their       *)
(* validators; `results validate` itself would pass a missing choice.)      *)
(***************************************************************************)
CapturedVotes(rows, c) == Votes(SelectSeq(rows, LAMBDA row : row.name \in Names[c]))
CertifiedAsCaptured(r, race) ==
    LET rows == IF race.authority = "county" THEN CountyRows(r, race.capture)
                ELSE StateContest(r, race.capture).rows
        won == {c \in Standing(r) : race.outcomes[c].advanced}
    IN  /\ ResultsCapture("certified", race.capture) \in results.captures
        /\ \A c \in Standing(r) : race.outcomes[c].votes = CapturedVotes(Named(rows), c)
        /\ Cardinality(won) = TopCount(r) \/ won = Standing(r)
        /\ \A c \in won, d \in Standing(r) \ won : race.outcomes[c].votes >= race.outcomes[d].votes
PreliminaryAsCaptured(r, race) ==
    LET contest == Contest(race, race.capture)
    IN  /\ ResultsCapture("preliminary", race.capture) \in results.captures
        /\ \A c \in Standing(r) : race.outcomes[c] =
              CapturedVotes(SelectSeq(contest.rows, LAMBDA row : row.flag # TRUE), c)
        /\ Votes(contest.rows) = race.writeIns + FoldSet(LAMBDA c, s : race.outcomes[c] + s, 0, Standing(r))
StatedAsCaptured ==
    results # Unknown => \A r \in DOMAIN results.races :
        LET race == results.races[r]
        IN  /\ DOMAIN race.outcomes = Standing(r)
            /\ IF results.kind = "certified" THEN CertifiedAsCaptured(r, race)
               ELSE PreliminaryAsCaptured(r, race)

==============================================================================
