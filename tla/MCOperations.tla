----------------------------- MODULE MCOperations -----------------------------
(***************************************************************************)
(* The scheduled operations, composed: the calendar's job, the link check   *)
(* and the verification of endorsements.  The watcher of calendar.yml that  *)
(* reports missed verifications is in Verification, where it holds that     *)
(* workflow's concurrency group.  They share nothing else, so that          *)
(* `operation` says which of them a behaviour follows.                      *)
(***************************************************************************)
EXTENDS CalendarTracking, LinkRot, Verification, TLC

CONSTANTS auto, person

M(id, kind, day, actual, recorded) ==
    [id |-> id, kind |-> kind, date |-> day, actual |-> actual, recorded |-> recorded]
MCCalendar ==
    {M("opens", "collection_opens", 1, FALSE, FALSE),
     M("guide", "guide_publishes", 1, TRUE, FALSE),
     M("absentee", "special_absentee_ballots_available", 1, TRUE, FALSE),
     M("mail", "overseas_service_ballots_mail", 1, TRUE, FALSE),
     M("day", "election_day", 2, TRUE, FALSE),
     M("night", "results_capture_election_night", 2, FALSE, FALSE),
     M("certified", "results_capture_post_certification", 3, TRUE, TRUE),
     M("ingest", "results_ingest", 3, TRUE, TRUE)}
MCArtifacts ==
    {[kind |-> "evidence_manifest", authority |-> authority, title |-> "election-night results"] :
        authority \in BOOLEAN}

MCPolicy ==
    [s \in {auto, person} |->
        [automatic |-> s = auto, dailyFromCollection |-> FALSE,
         interval |-> IF s = person THEN 2 ELSE 0]]

VARIABLE operation
operationVars == <<operation, calendarVars, linkVars, verificationVars>>

Tracking(A) == operation = "calendar" /\ A /\ UNCHANGED <<operation, linkVars, verificationVars>>
Checking(A) == operation = "links" /\ A /\ UNCHANGED <<operation, calendarVars, verificationVars>>
Verifying(A) == operation = "verification" /\ A /\ UNCHANGED <<operation, calendarVars, linkVars>>

OperationsInit ==
    /\ operation \in {"calendar", "links", "verification"}
    /\ CalendarInit /\ LinksInit /\ VerificationInit
OperationsNext == Tracking(CalendarNext) \/ Checking(LinksNext) \/ Verifying(VerificationNext)

\* Each with its own fairness.
OperationsSpec ==
    /\ OperationsInit /\ [][OperationsNext]_operationVars
    /\ WF_operationVars(Tracking(Upkeep))
    /\ WF_operationVars(Checking(CheckStep))
    /\ WF_operationVars(Verifying(Workflow))
=============================================================================
