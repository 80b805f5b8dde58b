--------------------------- MODULE CalendarTracking --------------------------
(***************************************************************************)
(* The election calendar's scheduled job (calendar.yml): `calendar track`   *)
(* opens one GitHub issue per milestone coming due, and `calendar watch`    *)
(* escalates the issue of a milestone whose promised artifact never reached *)
(* the repository (calendar/models.py, tracking.py, watch.py,               *)
(* github_tracker.py, cli.py).                                              *)
(*                                                                          *)
(* The job is serialized by its concurrency group.  Every call to GitHub    *)
(* may fail, before or after its effect; people edit and copy issues and    *)
(* merge artifacts at any time.  Days are Pacific days; a job runs within   *)
(* one of them.                                                             *)
(***************************************************************************)
EXTENDS Naturals, Sequences, FiniteSets

CONSTANTS
    Calendar,            \* the milestones of an election: id, kind, date,
                         \* actual (date_status), recorded (artifact_record)
    Collecting,          \* whether the election is a primary or a general one
    LeadDays,
    ArtifactWindowDays,
    StaleEscalationDays,
    CollectionStaleDays,
    Artifacts,           \* what people may merge: kind, authority, title
    LastDate,            \* bound: the days of the model
    MaxOutages,          \* bound: failed calls and cancelled jobs
    MaxEdits,            \* bound: edits and copies of issues
    MaxLandings,         \* bound: artifacts merged
    NoJob

OfKind(kind) == {m \in Calendar : m.kind = kind}
ElectionDate == (CHOOSE m \in OfKind("election_day") : TRUE).date

\* MILESTONE_PHASES, validate_offset_phase: the side of election day.
Before == {"initialize_election", "filing_closes", "official_inventory_import",
           "source_panel_freeze", "collection_opens", "special_absentee_ballots_available",
           "overseas_service_ballots_mail", "ballots_mail", "guide_publishes",
           "guide_published", "refresh"}
OnTheDay == {"election_day", "results_capture_election_night"}
After == {"certification", "results_capture_post_certification", "results_ingest",
          "retrospective"}
MilestoneHolds(m) ==
    /\ m.kind = "guide_published" => m.actual
    /\ m.kind \in Before => m.date < ElectionDate
    /\ m.kind \in OnTheDay => m.date = ElectionDate
    /\ m.kind \in After => m.date > ElectionDate

\* _validate_election_milestones.
RunwayHolds ==
    /\ Cardinality(OfKind("guide_publishes")) = 1
    /\ Collecting => Cardinality(OfKind("special_absentee_ballots_available")) = 1
    /\ Cardinality(OfKind("overseas_service_ballots_mail")) = 1
    /\ \A guide \in OfKind("guide_publishes") :
          /\ \A opening \in OfKind("collection_opens") : opening.date <= guide.date
          /\ \A mail \in OfKind("overseas_service_ballots_mail") :
                ~guide.actual => guide.date <= mail.date
CapturesInOrder ==
    LET captures == OfKind("results_capture_post_certification")
    IN  /\ \A capture \in captures, c \in OfKind("certification") : capture.date >= c.date
        /\ \A ingest \in OfKind("results_ingest"), capture \in captures :
              ingest.date >= capture.date
CalendarHolds ==
    /\ Cardinality(OfKind("election_day")) = 1
    /\ \A kind \in {"results_capture_election_night", "results_capture_post_certification",
                    "results_ingest"} : OfKind(kind) # {}
    /\ \A m \in Calendar : MilestoneHolds(m)
    /\ \A m, n \in Calendar : m.id = n.id => m = n
    /\ OfKind("collection_opens") # {} => RunwayHolds
    /\ \A m \in Calendar : m.date \in Nat
    /\ LastDate \in Nat \ {0} /\ MaxOutages \in Nat /\ MaxEdits \in Nat
    /\ CapturesInOrder
    /\ LeadDays \in Nat /\ ArtifactWindowDays \in Nat /\ CollectionStaleDays \in Nat
    /\ StaleEscalationDays \in Nat /\ ArtifactWindowDays < StaleEscalationDays
ASSUME CalendarAssumption == CalendarHolds

VARIABLES
    date,      \* the day, Pacific
    landed,    \* the artifacts on main, with their stamp and the day they were merged
    trackers,  \* the issues of each milestone
    job,       \* the job in progress
    outages, edits

calendarVars == <<date, landed, trackers, job, outages, edits>>

Stages == {"overdue", "stale"}
\* Whether the marker ends the body, the title still names the milestone, both
\* were ever gone; the labels and the escalation comments, by stage.
Issue(opened) ==
    [marker |-> TRUE, titled |-> TRUE, lost |-> FALSE, opened |-> opened,
     labels |-> {}, comments |-> [s \in Stages |-> 0]]

CalendarInit ==
    /\ date = 1
    /\ landed = {}
    /\ trackers = [m \in Calendar |-> <<>>]
    /\ job = NoJob
    /\ outages = 0
    /\ edits = 0

(***************************************************************************)
(* calendar track.                                                          *)
(***************************************************************************)
DueMilestones(asOf) ==
    {m \in Calendar :
        /\ m.kind # "special_absentee_ballots_available"
        /\ ~m.actual
        /\ asOf <= m.date /\ m.date <= asOf + LeadDays}

Issues(m) == {trackers[m][i] : i \in DOMAIN trackers[m]}
Marked(m) == \E issue \in Issues(m) : issue.marker

\* *mutation*: a title without a marker is not noticed
NoCollision(m) == FALSE

Collides(m) == \E issue \in Issues(m) : issue.titled

PlanIssues(asOf) == {m \in DueMilestones(asOf) : ~Marked(m) /\ ~Collides(m)}

\* The issues are listed once; the date is the UTC one, the Pacific day or the
\* next.  The checkout is the tree that watch will read.
StartTracking ==
    /\ job = NoJob
    /\ \E utc \in {date, date + 1} :
          job' = [step |-> "create", plan |-> PlanIssues(utc), main |-> landed, todo |-> {}]
    /\ UNCHANGED <<date, landed, trackers, outages, edits>>

\* The soonest first.
CreateIssue ==
    /\ job # NoJob /\ job.step = "create"
    /\ \E m \in job.plan :
          /\ \A n \in job.plan : m.date <= n.date
          /\ trackers' = [trackers EXCEPT ![m] = Append(@, Issue(TRUE))]
          /\ job' = [job EXCEPT !.plan = @ \ {m}]
    /\ UNCHANGED <<date, landed, outages, edits>>

(***************************************************************************)
(* calendar watch.                                                          *)
(***************************************************************************)
\* ARTIFACT_EXPECTATIONS.
Expectation(kinds, authority, phrase) ==
    [kinds |-> kinds, authority |-> authority, phrase |-> phrase]
Promised == {"results_ingest", "collection_opens", "results_capture_election_night",
             "results_capture_post_certification", "refresh"}
ArtifactExpectation(kind) ==
    CASE kind = "results_ingest" -> Expectation({"results_file"}, FALSE, "")
      [] kind \in {"collection_opens", "refresh"} ->
            Expectation({"evidence_manifest", "refresh_event"}, FALSE, "")
      [] kind = "results_capture_election_night" ->
            Expectation({"evidence_manifest"}, TRUE, "election-night results")
      [] kind = "results_capture_post_certification" ->
            Expectation({"evidence_manifest"}, TRUE, "certified")

\* A collection may land until the guide is published.
WindowEnd(m) ==
    IF m.kind = "collection_opens"
    THEN (CHOOSE guide \in OfKind("guide_publishes") : TRUE).date
    ELSE m.date + ArtifactWindowDays

ReachedStages(m, asOf) ==
    LET stale == IF m.kind = "collection_opens" THEN WindowEnd(m) + CollectionStaleDays
                 ELSE m.date + StaleEscalationDays
    IN  {s \in Stages : asOf > IF s = "overdue" THEN WindowEnd(m) ELSE stale}

InWindow(m, artifact) == m.date <= artifact.at /\ artifact.at <= WindowEnd(m)
CaptureMatches(m, capture) ==
    LET expected == ArtifactExpectation(m.kind)
    IN  /\ capture.kind = "evidence_manifest" /\ "evidence_manifest" \in expected.kinds
        /\ InWindow(m, capture)
        /\ capture.authority = expected.authority
        /\ expected.phrase \in {"", capture.title}
ArtifactExists(m, artifacts) ==
    LET expected == ArtifactExpectation(m.kind).kinds
    IN  IF "results_file" \in expected THEN \E a \in artifacts : a.kind = "results_file"
        ELSE \E a \in artifacts :
                \/ CaptureMatches(m, a)
                \/ a.kind = "refresh_event" /\ "refresh_event" \in expected /\ InWindow(m, a)

MissingArtifacts(asOf, artifacts) ==
    {m \in Calendar :
        /\ m.kind \in Promised
        /\ ~m.recorded
        /\ ReachedStages(m, asOf) # {}
        /\ ~ArtifactExists(m, artifacts)}

Escalation(m, i, stage) == [of |-> m, issue |-> i, stage |-> stage]

\* *mutation*: only the first issue of a milestone is escalated
FirstIssueOnly(m) ==
    {i \in DOMAIN trackers[m] : trackers[m][i].marker /\ \A j \in 1..(i - 1) : ~trackers[m][j].marker}

\* Every issue with the marker.
TrackedIssueNumbers(m) == {i \in DOMAIN trackers[m] : trackers[m][i].marker}

ReadEscalationMarkers(m, i) == {s \in Stages : trackers[m][i].comments[s] > 0}

PlanEscalations(asOf, artifacts) ==
    UNION {UNION {{Escalation(m, i, s) : s \in ReachedStages(m, asOf) \ ReadEscalationMarkers(m, i)} :
                      i \in TrackedIssueNumbers(m)} :
               m \in MissingArtifacts(asOf, artifacts)}

\* Watch runs whether or not tracking failed.
StartArtifactWatch ==
    /\ job # NoJob /\ job.step = "create" /\ job.plan = {}
    /\ job' = [job EXCEPT !.step = "escalate", !.todo = PlanEscalations(date, job.main)]
    /\ UNCHANGED <<date, landed, trackers, outages, edits>>

\* By date, by issue, overdue before stale.
Precedes(e, f) ==
    \/ e.of.date < f.of.date
    \/ e.of.date = f.of.date /\ e.of # f.of
    \/ e.of = f.of /\ e.issue < f.issue
    \/ e.of = f.of /\ e.issue = f.issue /\ (e.stage = "overdue" \/ f.stage = "stale")
Foremost(todo) == {e \in todo : \A f \in todo : Precedes(e, f)}

\* escalate: the label, then the comment that carries the marker.
EscalationLabel ==
    /\ job # NoJob /\ job.step = "escalate"
    /\ \E e \in Foremost(job.todo) :
          /\ trackers' = [trackers EXCEPT ![e.of][e.issue].labels = @ \cup {e.stage}]
          /\ job' = [job EXCEPT !.step = "comment", !.plan = {e}, !.todo = @ \ {e}]
    /\ UNCHANGED <<date, landed, outages, edits>>
EscalationComment ==
    /\ job # NoJob /\ job.step = "comment"
    /\ \E e \in job.plan :
          trackers' = [trackers EXCEPT ![e.of][e.issue].comments[e.stage] = @ + 1]
    /\ job' = [job EXCEPT !.step = "escalate", !.plan = {}]
    /\ UNCHANGED <<date, landed, outages, edits>>

FinishWatch ==
    /\ job # NoJob /\ job.step = "escalate" /\ job.todo = {}
    /\ job' = NoJob
    /\ UNCHANGED <<date, landed, trackers, outages, edits>>

\* A call of track fails: watch still runs.  A call of watch fails: the job
\* ends.  An effect whose answer is lost is the step followed by this one.
Outage == outages < MaxOutages /\ outages' = outages + 1
CallFails ==
    /\ job # NoJob /\ Outage
    /\ job' = IF job.step = "create" THEN [job EXCEPT !.plan = {}] ELSE NoJob
    /\ UNCHANGED <<date, landed, trackers, edits>>
JobCancelled ==
    /\ job # NoJob /\ Outage
    /\ job' = NoJob
    /\ UNCHANGED <<date, landed, trackers, edits>>

(***************************************************************************)
(* Time and people.                                                         *)
(***************************************************************************)
NextDate ==
    /\ job = NoJob
    /\ date < LastDate
    /\ date' = date + 1
    /\ UNCHANGED <<landed, trackers, job, outages, edits>>

Edit == edits < MaxEdits /\ edits' = edits + 1

\* An edit moves the marker off the last line or puts it back, retitles, or both.
Edited(issue, marker, titled) ==
    [issue EXCEPT !.marker = marker, !.titled = titled, !.lost = @ \/ (~marker /\ ~titled)]
EditIssue ==
    /\ Edit
    /\ \E m \in Calendar : \E i \in DOMAIN trackers[m] :
          \E marker \in BOOLEAN, titled \in {trackers[m][i].titled, FALSE} :
             LET new == Edited(trackers[m][i], marker, titled)
             IN  new # trackers[m][i] /\ trackers' = [trackers EXCEPT ![m][i] = new]
    /\ UNCHANGED <<date, landed, job, outages>>
CopyIssue ==
    /\ Edit
    /\ \E m \in Calendar :
          Len(trackers[m]) = 1 /\ trackers' = [trackers EXCEPT ![m] = Append(@, Issue(FALSE))]
    /\ UNCHANGED <<date, landed, job, outages>>

LandArtifact ==
    /\ Cardinality(landed) < MaxLandings
    /\ \E a \in Artifacts, at \in 1..date :
          landed' = landed \cup
              {[kind |-> a.kind, authority |-> a.authority, title |-> a.title,
                at |-> at, merged |-> date]}
    /\ UNCHANGED <<date, trackers, job, outages, edits>>

Upkeep ==
    \/ StartTracking \/ CreateIssue \/ StartArtifactWatch \/ EscalationLabel
    \/ EscalationComment \/ FinishWatch
CalendarNext ==
    \/ Upkeep \/ CallFails \/ JobCancelled \/ NextDate \/ EditIssue \/ CopyIssue \/ LandArtifact

CalendarSpec == CalendarInit /\ [][CalendarNext]_calendarVars

(***************************************************************************)
(* Properties.                                                              *)
(***************************************************************************)
Issued == [marker : BOOLEAN, titled : BOOLEAN, lost : BOOLEAN, opened : BOOLEAN,
           labels : SUBSET Stages, comments : [Stages -> Nat]]
Escalations == [of : Calendar, issue : Nat, stage : Stages]
Landings ==
    {[kind |-> a.kind, authority |-> a.authority, title |-> a.title, at |-> at, merged |-> day] :
        a \in Artifacts, at \in 1..LastDate, day \in 1..LastDate}
CalendarTypeOK ==
    /\ date \in 1..LastDate
    /\ landed \subseteq Landings
    /\ \A a \in landed : a.at <= a.merged /\ a.merged <= date
    /\ trackers \in [Calendar -> Seq(Issued)]
    /\ job = NoJob \/ job \in [step : {"create", "escalate", "comment"},
                              plan : (SUBSET Calendar) \cup (SUBSET Escalations),
                              main : SUBSET Landings, todo : SUBSET Escalations]
    /\ outages \in 0..MaxOutages /\ edits \in 0..MaxEdits

(***************************************************************************)
(* The calendar opens one issue per milestone, whatever fails, is repeated, *)
(* edited or copied: a second one only when an issue lost both its marker   *)
(* and its title.  (plan_issues, unmarked_collisions.)                      *)
(***************************************************************************)
OpenedOnce ==
    \A m \in Calendar :
        Cardinality({i \in DOMAIN trackers[m] : trackers[m][i].opened})
            <= 1 + Cardinality({i \in DOMAIN trackers[m] : trackers[m][i].lost})

(***************************************************************************)
(* What is escalated is escalated once per issue and stage, under its       *)
(* label, after the window has closed, and never when the artifact was      *)
(* merged while it was open: nothing retracts an escalation.                *)
(* (reached_stages, artifact_exists, escalate.)                             *)
(***************************************************************************)
NeverEscalatedInVain ==
    \A m \in Calendar : \A i \in DOMAIN trackers[m], s \in Stages :
        trackers[m][i].comments[s] > 0 =>
            /\ trackers[m][i].comments[s] = 1
            /\ s \in trackers[m][i].labels
            /\ date > WindowEnd(m)
            /\ ~ArtifactExists(m, {a \in landed : a.merged <= WindowEnd(m)})

(***************************************************************************)
(* Whatever fails and is retried, the calendar acts once: one issue, one    *)
(* escalation, and that for a real loss.                                    *)
(***************************************************************************)
ActsOnce == OpenedOnce /\ NeverEscalatedInVain

(***************************************************************************)
(* No loss stays quiet: again and again every milestone that is still       *)
(* missing its artifact has every stage it reached posted on each of its    *)
(* issues, when jobs keep being started.  (plan_escalations and the retry   *)
(* of escalate.)                                                            *)
(***************************************************************************)
EveryLossIsEscalated ==
    []<>(\A m \in MissingArtifacts(date, landed) : \A i \in DOMAIN trackers[m] :
            trackers[m][i].marker =>
                \A s \in ReachedStages(m, date) : trackers[m][i].comments[s] > 0)
=============================================================================
