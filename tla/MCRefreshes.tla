------------------------------ MODULE MCRefreshes ------------------------------
(***************************************************************************)
(* The two refreshes, composed: one source by an operator's processes, and  *)
(* the preliminary results by the hourly job; the commands that read an     *)
(* export into the results file; and the report, the pages and the bundles  *)
(* made of a dataset that changes under them.  They share nothing;          *)
(* `refreshed` says which of them a behaviour follows.                      *)
(***************************************************************************)
EXTENDS SourceRefresh, PreliminaryRefresh, MCResults, MCPublication, TLC

\* The processes that refresh a source are alike.
MCSymmetry == Permutations(Processes)

MCBodies == {[time |-> 0, votes |-> 0], [time |-> 1, votes |-> 1], [time |-> 1, votes |-> 2]}
MCSeed == [time |-> 1, votes |-> 1]
MCFeeds == <<"county", "statewide">>

VARIABLE refreshed
refreshesVars == <<refreshed, vars, refreshVars, tallyVars, publicationVars>>

RefreshesInit ==
    /\ refreshed \in {"source", "results", "tally", "datasets", "exports"}
    /\ Init /\ RefreshInit /\ ResultsInit /\ PublicationInit
RefreshesNext ==
    \/ refreshed = "source" /\ Next /\ UNCHANGED <<refreshed, refreshVars, tallyVars, publicationVars>>
    \/ refreshed = "results" /\ RefreshNext /\ UNCHANGED <<refreshed, vars, tallyVars, publicationVars>>
    \/ refreshed = "tally" /\ TallyNext /\ UNCHANGED <<refreshed, vars, refreshVars, publicationVars>>
    \/ refreshed = "datasets" /\ DatasetNext /\ UNCHANGED <<refreshed, vars, refreshVars, tallyVars>>
    \/ refreshed = "exports" /\ SmallExportNext /\ UNCHANGED <<refreshed, vars, refreshVars, tallyVars>>
RefreshesSpec == RefreshesInit /\ [][RefreshesNext]_refreshesVars
=============================================================================
