------------------------------- MODULE MCResults -------------------------------
(***************************************************************************)
(* A ballot of a mayor, a levy and a senator, whose district is not within  *)
(* the county; exports that say all of it, less, more, twice or otherwise.  *)
(***************************************************************************)
EXTENDS ResultsTally, TLC

Contender(jurisdiction, choices) ==
    [kind |-> "candidate", jurisdiction |-> jurisdiction, eligible |-> TRUE, choices |-> choices]
MCBallot ==
    [mayor |-> Contender("city", <<"ada", "bo", "cy">>), senate |-> Contender("district", <<"dan">>),
     levy |-> [kind |-> "measure", jurisdiction |-> "city", eligible |-> TRUE, choices |-> <<"yes", "no">>]]
MCNames ==
    [ada |-> {"Ada", "A. Ada"}, bo |-> {"Bo"}, cy |-> {"Cy"}, dan |-> {"Dan"}, yes |-> {"Yes"}, no |-> {"No"}]
MCLabels ==
    [county |-> [mayor |-> {"Mayor", "City Mayor"}, senate |-> {"Senate"}, levy |-> {"Levy"}],
     state |-> [mayor |-> {"Mayor"}, senate |-> {"Senate"}, levy |-> {"Levy"}]]
MCParent == [city |-> "county", county |-> "state", district |-> "state", state |-> Unknown]

County(contest, name, votes) == [contest |-> contest, name |-> name, votes |-> votes, ballots |-> 9]
CountyExport(v) ==
    <<County("Mayor", "Ada", v[1]), County("Mayor", "Bo", v[2]), County("Mayor", "Cy", v[3]),
      County("Mayor", "write-in", 1), County("Levy", "Yes", v[2]), County("Levy", "No", v[3])>>
MCCountyExports ==
    LET good == CountyExport(<<3, 2, 1>>)
    IN  {CountyExport(v) : v \in {<<3, 2, 1>>, <<1, 1, 1>>, <<1, 2, 2>>, <<0, 0, 0>>}}
        \cup {RemoveAt(good, i) : i \in {1, 3, 6}}
        \cup {Append(good, x) : x \in {County("Mayor", "A. Ada", 1), County("Mayor", "Eve", 1), County("Other", "Eve", 1),
                                      County("City Mayor", "Ada", 1), [County("Levy", "Yes", 1) EXCEPT !.ballots = 8]}}

Row(name, votes, writeIn) == [name |-> name, votes |-> votes, writeIn |-> writeIn]
StateExport(rows) ==
    <<[contest |-> "Senate", total |-> 9, rows |-> <<Row("Dan", 4, FALSE), Row("Eve", 2, TRUE)>>],
      [contest |-> "Mayor", total |-> 9, rows |-> rows]>>
MCStateExports ==
    {StateExport(rows) : rows \in {<<Row("Ada", 2, FALSE), Row("Bo", 2, FALSE), Row("Cy", 3, FALSE)>>,
                                   <<Row("Ada", 2, FALSE), Row("Bo", 2, FALSE)>>}}

FeedRow(id, name, votes, flag) == [id |-> id, name |-> name, votes |-> votes, flag |-> flag]
FeedContest(id, kind, rows, total, reported) ==
    [id |-> id, name |-> id, kind |-> kind, rows |-> rows, total |-> total, reported |-> reported]
CountyFeed(official, extra, votes, at) ==
    [source |-> "county", official |-> official, generated |-> Unknown, captured |-> 2,
     contests |->
        <<FeedContest("mayor", "candidate",
            <<FeedRow(1, "Ada", votes, FALSE), FeedRow(2, "Bo", 1, FALSE), FeedRow(3, "Cy", 0, FALSE)>> \o extra,
            votes + 1 + Votes(extra), at),
          FeedContest("levy", "measure", <<FeedRow(1, "Yes", 1, FALSE), FeedRow(2, "No", 2, FALSE)>>, 3, at),
          FeedContest("senate", "candidate", <<FeedRow(1, "Dan", 1, FALSE)>>, 1, at)>>]
StateFeed(at, rows) ==
    [source |-> "state", official |-> Unknown, generated |-> at, captured |-> 2,
     contests |-> <<FeedContest("senate", "candidate", rows, Unknown, Unknown)>>]
MCPreliminaryExports ==
    {CountyFeed(FALSE, << >>, at, at) : at \in 1..3} \cup {CountyFeed(TRUE, << >>, 2, 2)}
    \cup {CountyFeed(FALSE, <<FeedRow(4, "A. Ada", votes, FALSE)>>, 2, 2) : votes \in {0, 1}}
    \cup {CountyFeed(FALSE, <<FeedRow(4, "Write-in", 1, flag)>>, 2, 2) : flag \in BOOLEAN}
    \cup {StateFeed(at, <<FeedRow(1, "Dan", at, Unknown), FeedRow(2, "Write-in", 1, TRUE)>>) : at \in 1..2}

Mapped(row, name, choice) == [row |-> row, name |-> name, choice |-> choice]
Binding(feed, contest, jurisdiction, rows, overrides) ==
    [feed |-> feed, contest |-> contest, name |-> contest, jurisdiction |-> jurisdiction,
     rows |-> rows, overrides |-> overrides]
Plan(rows, overrides, senate) ==
    [mayor |-> Binding("county", "mayor", "city",
                   <<Mapped(1, "Ada", "ada"), Mapped(2, "Bo", "bo"), Mapped(3, "Cy", "cy")>> \o rows, overrides),
     levy |-> Binding("county", "levy", "city", <<Mapped(1, "Yes", "yes"), Mapped(2, "No", "no")>>, {}),
     senate |-> Binding(senate, "senate", "district", <<Mapped(1, "Dan", "dan")>>, {})]
MCPlans ==
    {Plan(<< >>, {}, "state"), Plan(<< >>, {}, "county"), Plan(<<Mapped(4, "A. Ada", "ada")>>, {}, "state"),
     Plan(<< >>, {[row |-> 4, name |-> "Write-in", flag |-> FALSE]}, "state")}
================================================================================
