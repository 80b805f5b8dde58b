----------------------------- MODULE MCPublication -----------------------------
EXTENDS Publication, MCElection
MCPanel == <<paper, district, blog, union, times>>
MCCodes == (paper :> "papr") @@ (union :> "unio") @@ (district :> "dist") @@ (times :> "stim") @@ (blog :> "blog")
MCCategory == [s \in Sources |-> CASE s = union -> "labor" [] s = times -> "comparison" [] OTHER -> "press"]
MCJoins == [s \in Sources |-> IF s = paper THEN {"press", "labor"} ELSE {MCCategory[s]}]
Group(id, code, selectable, role) == [id |-> id, code |-> code, selectable |-> selectable, role |-> role]
MCGroups == {Group("press", "Gprs", TRUE, "tallying"), Group("labor", "Glab", TRUE, "tallying"),
             Group("comparison", "Gcmp", TRUE, "comparison"), Group("hidden", "Ghid", FALSE, "tallying")}
MCBallotOrder == (mayor :> <<bo, ada, cy>>) @@ (council :> <<dee>>)
MCLayout == <<[id |-> "city", races |-> <<council>>], [id |-> "county", races |-> <<mayor>>]>>
Pick(groups, picked) == [groups |-> groups, sources |-> picked]
MCSelections ==
    {Pick({}, {}), Pick({}, {"papr"}), Pick({}, {"papr", "unio"}), Pick({"Glab"}, {}),
     Pick({"Glab", "Gprs"}, {}), Pick({"Ghid"}, {"dist"}), Pick({}, {"stim", "papr"}),
     Pick({"Gzzz"}, {"blog", "zzzz", "unio"}), Pick({"Gcmp"}, {})}
MCOverlaps == {{paper, union}, {district, times}, {union, blog}}
G(grade, share, explicit) == [grade |-> grade, share |-> share, explicit |-> explicit]
MCGrades == <<G("A+", 90, 3), G("A", 75, 0), G("B", 60, 0), G("C", 50, 0), G("D", 0, 0)>>
V(status, choices, sure) == [status |-> status, choices |-> choices, sure |-> sure]
MCVerdicts == {V("endorsed", {ada}, TRUE), V("endorsed", {bo}, FALSE), V("endorsed", {dee}, TRUE),
               V("dual_endorsement", {ada, bo}, TRUE), V("multiple_endorsement", {ada, bo, cy}, TRUE),
               V("no_endorsement", {}, TRUE), V("source_unavailable", {}, TRUE)}
MCItems == {[source |-> paper, races |-> {}, severity |-> "high"]}

(***************************************************************************)
(* A behaviour explores the datasets, or the exports of small ones; once a  *)
(* bundle has been started, only review items change.                       *)
(***************************************************************************)
CONSTANT MaxExported   \* bound: decisions in a dataset that is exported
DatasetNext == ScoringNext /\ UNCHANGED exportVars
SmallExportNext ==
    /\ PublicationNext
    /\ Cardinality(Decided') <= MaxExported
    /\ decisions' # decisions => staged = NoBundle /\ Generations = {}
=============================================================================
