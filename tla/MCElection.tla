------------------------------ MODULE MCElection ------------------------------
(***************************************************************************)
(* The election the pipeline's runs share: a race of three candidates and   *)
(* one of a single candidate, and a panel of five sources.                  *)
(***************************************************************************)
EXTENDS Election

CONSTANTS mayor, council, ada, bo, cy, dee, paper, union, district, times, blog

MCChoices == (mayor :> {ada, bo, cy}) @@ (council :> {dee})
MCRole == [s \in Sources |-> CASE s = times -> "comparison" [] s = blog -> "excluded" [] OTHER -> "consensus"]
MCEligible ==
    [s \in Sources |-> CASE s = blog -> {} [] s = district -> {mayor} [] OTHER -> {mayor, council}]
===============================================================================
