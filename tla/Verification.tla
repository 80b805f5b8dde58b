----------------------------- MODULE Verification ----------------------------
(***************************************************************************)
(* Endorsement verification: the workflow that checks the due sources and   *)
(* pushes the observations to the archive branch, and the reconciliation    *)
(* of the observations with one GitHub issue per day, done by the same      *)
(* workflow and by the calendar's watcher (endorsement-verification.yml,    *)
(* calendar.yml, collection/verification_runtime.py, verification_tasks.py, *)
(* verification_review.py and verification_access.py).                      *)
(*                                                                          *)
(* The two workflows hold one concurrency group: `run` is the one that has  *)
(* it.  Any of its steps may fail, before or after its effect, and the job   *)
(* ends there with all it had in memory.  People close issues, review and   *)
(* acknowledge between runs; what they record comes from main and is merged *)
(* into the archive by the next verification.                               *)
(***************************************************************************)
EXTENDS VerificationSchedule

CONSTANTS
    LastDay,      \* bound: the days of the model
    Snapshots,    \* what a publication may hold
    Outcomes,     \* bound: the kinds of failure of a refresh, of FailureKinds
    MaxFailures,  \* bound: steps that fail
    MaxActs,      \* bound: what people record
    NoRun

ASSUME BoundAssumption ==
    /\ LastDay \in Nat /\ LastDay >= ElectionDay /\ MaxFailures \in Nat /\ MaxActs \in Nat
    /\ Outcomes \subseteq FailureKinds /\ "access" \in Outcomes

VARIABLES
    today,
    archive,   \* the archive branch: activation, checks, approvals, reviews
    main,      \* what people recorded on main, not yet merged into the archive
    admitted,  \* the source reviews main has admitted
    issues,    \* per day: how many task issues, open, labelled "priority: high"
    posted,    \* the section markers in the comments
    repeated,  \* the markers that were commented more than once
    run,       \* the workflow run in progress
    failures,
    acts

verificationVars == <<today, archive, main, admitted, issues, posted, repeated, run, failures, acts>>
github == <<issues, posted, repeated>>
people == <<main, admitted, acts>>

Days == 1..LastDay
Records(activation, checks, approvals, reviews) ==
    [activation |-> activation, checks |-> checks, approvals |-> approvals, reviews |-> reviews]
NoTask == [count |-> 0, open |-> FALSE, high |-> FALSE]
\* A comment for a check, for a missing day, or for a day without activation.
Missing(source, day) == [missing |-> source, day |-> day]
Startup(day) == [startup |-> day]

VerificationTypeOK ==
    /\ today \in Days
    /\ archive.activation \in {Never} \cup Days
    /\ \A c \in archive.checks \cup main.checks : ValidCheck(c) /\ c.day <= c.at /\ c.at <= today
    /\ archive.approvals \subseteq Snapshots
    /\ issues \in [Days -> [count : 0..2, open : BOOLEAN, high : BOOLEAN]]
    /\ repeated \subseteq posted
    /\ run = NoRun \/ run.step \in {"check", "push", "list", "issue", "label", "comment"}
    /\ failures \in 0..MaxFailures
    /\ acts \in 0..MaxActs

VerificationInit ==
    /\ today = 1
    /\ archive = Records(Never, {}, {}, {})
    /\ main = Records(Never, {}, {}, {})
    /\ admitted = {}
    /\ issues = [d \in Days |-> NoTask]
    /\ posted = {}
    /\ repeated = {}
    /\ run = NoRun
    /\ failures = 0
    /\ acts = 0

(***************************************************************************)
(* The verification run, run_verification.                                  *)
(***************************************************************************)
Begin(step, tree) ==
    run' = [step |-> step, tree |-> tree, todo |-> {}, section |-> NoRun,
            tasks |-> issues, known |-> {}]

\* The archive branch is continued and main merged into it.
StartVerification ==
    /\ run = NoRun
    /\ Begin("check", Records(archive.activation, archive.checks \cup main.checks,
                              archive.approvals \cup main.approvals,
                              archive.reviews \cup main.reviews))
    /\ UNCHANGED <<today, archive, main, admitted, issues, posted, repeated, failures, acts>>

\* The access disposition of a new failed check: the failure shows nothing of
\* the publication, and a complete review that main had admitted stands, with
\* no later evidence of another content, which an unclear failure is not.
Intervening(checks, source, review, at) ==
    \E c \in OfSource(checks, source) :
        /\ review.day < c.at /\ c.at < at
        /\ Event(c)
        /\ c.status \in {"created", "updated"} \/ (c.status = "failed" /\ c.failure = "content")
AccessLimited(tree, source, day, at, failure) ==
    /\ failure = "access"
    /\ day >= EffectiveFrom
    /\ \E review \in tree.reviews \cap admitted :
          /\ review.source = source
          /\ review.day <= at
          /\ ~Intervening(tree.checks, source, review, at)

\* One refresh: it fails, or yields a snapshot that is new, other than the last
\* or the same.
LastSnapshot(checks, source) ==
    LET refreshed == {c \in OfSource(checks, source) : c.snapshot # NoSnapshot}
    IN  IF refreshed = {} THEN NoSnapshot ELSE Latest(refreshed).snapshot
Refreshed(tree, source, day, at, result) ==
    LET before == LastSnapshot(tree.checks, source)
    IN  IF result \in Snapshots
        THEN NewCheck(source, day, at,
                      IF before = NoSnapshot THEN "created"
                      ELSE IF before = result THEN "unchanged" ELSE "updated",
                      "live", result, "none", FALSE)
        ELSE NewCheck(source, day, at, "failed", "live", NoSnapshot, result,
                      AccessLimited(tree, source, day, at, result))

\* *mutation*: missing days are reported but not recorded
NoMissedRecords(tree, asOf) == {}

\* A missed obligation of the plan is recorded unless the day has a record.
MissedRecords(tree, asOf) ==
    {NewCheck(m[1], m[2], asOf, "missed", "watch", NoSnapshot, "none", FALSE) :
        m \in {n \in Missed(tree.checks, tree.activation, asOf) :
                  n[2] \notin Observed(tree.checks, n[1])}}

DueSources(tree, asOf) ==
    {s \in Sources : Due(tree.checks, tree.activation, s, asOf)}

\* The transaction on the working copy: the activation, the missed days, and a
\* check or a manual obligation of every due source.
Verified(tree, asOf, result) ==
    LET due == DueSources(tree, asOf)
        with == [tree EXCEPT !.activation = ActivationOn(tree.activation, asOf),
                             !.checks = @ \cup MissedRecords(tree, asOf)]
        day(s) == ScheduledFor(tree.checks, tree.activation, s, asOf)
        checkOf(s) ==
            IF Policy[s].automatic THEN Refreshed(with, s, day(s), asOf, result[s])
            ELSE NewCheck(s, day(s), asOf, "manual_due", "live", NoSnapshot, "none", FALSE)
    IN  IF due = {} THEN tree ELSE [with EXCEPT !.checks = @ \cup {checkOf(s) : s \in due}]

RunVerification ==
    /\ run # NoRun /\ run.step = "check"
    /\ \E result \in [Sources -> Snapshots \cup Outcomes] :
          /\ \A s \in Sources :
                (~Policy[s].automatic \/ s \notin DueSources(run.tree, today)) =>
                    result[s] = "access"
          /\ run' = [run EXCEPT !.tree = Verified(run.tree, today, result), !.step = "push"]
    /\ UNCHANGED <<today, archive, people, github, failures>>

\* The commit is pushed before its links are used.
Push ==
    /\ run # NoRun /\ run.step = "push"
    /\ archive' = run.tree
    /\ run' = [run EXCEPT !.step = "list"]
    /\ UNCHANGED <<today, people, github, failures>>

\* The watcher of calendar.yml reads the archive as it is.
StartWatch ==
    /\ run = NoRun
    /\ Begin("list", archive)
    /\ UNCHANGED <<today, archive, people, github, failures>>

(***************************************************************************)
(* The sections, task_sections.                                             *)
(***************************************************************************)
Section(source, day, marker, escalated, handled) ==
    [source |-> source, day |-> day, marker |-> marker, escalated |-> escalated,
     handled |-> handled]

MarkerOf(check) == IF check.status = "missed" THEN Missing(check.source, check.day) ELSE check

\* Only an identical publication whose snapshot a person approved is quiet; a
\* manual obligation is quiet once it was met or its failed access handled.
Quiet(check, tree) ==
    \/ check.status = "manual"
    \/ check.status = "unchanged" /\ check.snapshot \in tree.approvals /\ check.mode = "live"
    \/ /\ check.status = "manual_due"
       /\ \E c \in OfSource(tree.checks, check.source) :
             c.day = check.day /\ (c.status = "manual" \/ c.limited)

Escalated(check, checks) ==
    /\ Event(check) \/ check.status = "missed"
    /\ ConsecutiveFailures(checks, check.source, check.day, {}) >= 3

RecordedSections(tree, asOf) ==
    {Section(c.source, c.day, MarkerOf(c), Escalated(c, tree.checks), c.limited) :
        c \in {d \in tree.checks : d.day <= asOf /\ ~Quiet(d, tree)}}

\* *mutation*: only recorded days have sections
NoWatchSections(tree, asOf) == {}

\* The watch also reports the days that have no record yet.
WatchSections(tree, asOf) ==
    LET missed == Missed(tree.checks, tree.activation, asOf)
        reported == {<<s.source, s.day>> : s \in RecordedSections(tree, asOf)}
        daysOf(source) == {m[2] : m \in {n \in missed : n[1] = source}}
    IN  {Section(m[1], m[2], Missing(m[1], m[2]),
                 ConsecutiveFailures(tree.checks, m[1], asOf, daysOf(m[1])) >= 3, FALSE) :
            m \in missed \ reported}

\* No activation in the active window: today's startup failed so far.  The third
\* day in a row is escalated.
StartupSections(tree, asOf, known) ==
    IF tree.activation = Never /\ Planned(Never, asOf)
    THEN {Section(NoRun, asOf, Startup(asOf),
                  \A back \in 0..2 :
                      asOf > back /\ Startup(asOf - back) \in known \cup {Startup(asOf)},
                  FALSE)}
    ELSE {}

Sections(tree, asOf, known) ==
    RecordedSections(tree, asOf) \cup WatchSections(tree, asOf)
        \cup StartupSections(tree, asOf, known)

(***************************************************************************)
(* The reconciliation, reconcile_tasks.                                     *)
(***************************************************************************)
\* *mutation*: the observations already in the comments are not read
UnknownMarkers == {}

\* The markers that end the comments of the listed tasks.
KnownMarkers == posted

\* Every issue and every comment is listed.
ListTasks ==
    /\ run # NoRun /\ run.step = "list"
    /\ run' = [run EXCEPT
                  !.step = "issue",
                  !.tasks = issues,
                  !.known = KnownMarkers,
                  !.todo = {s \in Sections(run.tree, today, KnownMarkers) :
                               s.marker \notin KnownMarkers}]
    /\ UNCHANGED <<today, archive, people, github, failures>>

Reopened(task) == [task EXCEPT !.open = TRUE]

\* The day's issue: created with its marker, or reopened when it was closed and
\* the observation still needs somebody.
Task(section) ==
    LET task == run.tasks[section.day]
    IN  IF task.count = 0 THEN [NoTask EXCEPT !.count = 1, !.open = TRUE]
        ELSE IF ~task.open /\ ~section.handled THEN Reopened(task)
        ELSE task

Opened(task, count, open) == [task EXCEPT !.count = count, !.open = open]
OpenTask(section) ==
    LET new == run.tasks[section.day].count = 0
    IN  issues' = [issues EXCEPT ![section.day] =
                      Opened(@, IF new THEN @.count + 1 ELSE @.count, Task(section).open)]

\* The sections come in the order of the files, whose names are hashes: one
\* order among all, the same in every run.  A repeated task stops the job.
NextSection ==
    /\ run # NoRun /\ run.step = "issue" /\ run.todo # {}
    /\ LET section == CHOOSE s \in run.todo : TRUE
       IN /\ run.tasks[section.day].count <= 1
          /\ OpenTask(section)
          /\ run' = [run EXCEPT !.section = section,
                                !.todo = @ \ {section},
                                !.tasks[section.day] = Task(section),
                                !.step = IF section.escalated THEN "label" ELSE "comment"]
    /\ UNCHANGED <<today, archive, people, posted, repeated, failures>>

AddLabel(day) == issues' = [issues EXCEPT ![day].high = TRUE]

EscalateTask ==
    /\ run # NoRun /\ run.step = "label"
    /\ AddLabel(run.section.day)
    /\ run' = [run EXCEPT !.step = "comment"]
    /\ UNCHANGED <<today, archive, people, posted, repeated, failures>>

Post(marker) ==
    /\ posted' = posted \cup {marker}
    /\ repeated' = repeated \cup ({marker} \cap posted)

CommentTask ==
    /\ run # NoRun /\ run.step = "comment"
    /\ Post(run.section.marker)
    /\ run' = [run EXCEPT !.step = "issue", !.section = NoRun,
                          !.known = @ \cup {run.section.marker}]
    /\ UNCHANGED <<today, archive, people, issues, failures>>

FinishRun ==
    /\ run # NoRun /\ run.step = "issue" /\ run.todo = {}
    /\ run' = NoRun
    /\ UNCHANGED <<today, archive, people, github, failures>>

\* A step fails or the runner dies: the job ends with what it has done so far.
\* An effect whose answer is lost is the step followed by this one.
StepFails ==
    /\ run # NoRun
    /\ failures < MaxFailures
    /\ failures' = failures + 1
    /\ run' = NoRun
    /\ UNCHANGED <<today, archive, people, github>>

(***************************************************************************)
(* Time and people, between runs.                                           *)
(***************************************************************************)
NextDay ==
    /\ run = NoRun
    /\ today < LastDay
    /\ today' = today + 1
    /\ UNCHANGED <<archive, people, github, run, failures>>

Act == run = NoRun /\ acts < MaxActs /\ acts' = acts + 1

CloseTask ==
    /\ Act
    /\ \E d \in Days : issues[d].open /\ issues' = [issues EXCEPT ![d].open = FALSE]
    /\ UNCHANGED <<today, archive, main, admitted, posted, repeated, run, failures>>

\* approve_baseline: only the snapshot of an executed live check.
ApproveBaseline ==
    /\ Act
    /\ \E c \in archive.checks :
          /\ c.mode = "live" /\ Event(c) /\ c.snapshot # NoSnapshot
          /\ c.snapshot \notin main.approvals
          /\ main' = [main EXCEPT !.approvals = @ \cup {c.snapshot}]
    /\ UNCHANGED <<today, archive, admitted, github, run, failures>>

ManualObligations == {c \in archive.checks : c.status = "manual_due"}

\* acknowledge_manual: an existing obligation.
AcknowledgeManual ==
    /\ Act
    /\ \E c \in ManualObligations :
          main' = [main EXCEPT !.checks = @ \cup
              {NewCheck(c.source, c.day, today, "manual", "human", NoSnapshot, "none", FALSE)}]
    /\ UNCHANGED <<today, archive, admitted, github, run, failures>>

\* record_manual_access_failure: once for a moment; its disposition is decided
\* when it is recorded.
RecordManualFailure ==
    /\ Act
    /\ \E c \in ManualObligations :
          LET known == Records(archive.activation, archive.checks \cup main.checks,
                               archive.approvals, archive.reviews)
          IN  /\ ~\E d \in known.checks : d.source = c.source /\ d.at = today /\ Event(d)
              /\ main' = [main EXCEPT !.checks = @ \cup
                     {NewCheck(c.source, c.day, today, "failed", "human", NoSnapshot, "access",
                               AccessLimited(known, c.source, c.day, today, "access"))}]
    /\ UNCHANGED <<today, archive, admitted, github, run, failures>>

\* qualify_initial_review proposes a review; only main's admission counts.
QualifyReview ==
    /\ Act
    /\ \E s \in Sources : main' = [main EXCEPT !.reviews = @ \cup {[source |-> s, day |-> today]}]
    /\ UNCHANGED <<today, archive, admitted, github, run, failures>>
AdmitReview ==
    /\ run = NoRun
    /\ main.reviews # admitted
    /\ admitted' = main.reviews
    /\ UNCHANGED <<today, archive, main, acts, github, run, failures>>

Workflow ==
    \/ StartVerification \/ StartWatch \/ RunVerification \/ Push \/ ListTasks
    \/ NextSection \/ EscalateTask \/ CommentTask \/ FinishRun
Person ==
    \/ CloseTask \/ ApproveBaseline \/ AcknowledgeManual \/ RecordManualFailure
    \/ QualifyReview \/ AdmitReview
VerificationNext == Workflow \/ StepFails \/ NextDay \/ Person

VerificationSpec == VerificationInit /\ [][VerificationNext]_verificationVars

\* The schedules start the workflows again and again, and a step that does not
\* fail is taken.
FairVerification == VerificationSpec /\ WF_verificationVars(Workflow)

(***************************************************************************)
(* Properties.                                                              *)
(***************************************************************************)

(***************************************************************************)
(* The committed history has no hole: once it is activated, every date the  *)
(* schedule names, up to the last day with a record, has a record of every  *)
(* source, a check, an obligation or the note that it was missed, even when *)
(* runs were lost for days.  (run_verification: the missed days and the     *)
(* checks are pushed as one commit.)                                        *)
(***************************************************************************)
HistoryHasNoHole ==
    archive.activation # Never =>
        \A s \in Sources :
            \A day \in ScheduledDates(archive.activation, s) :
                (\E c \in archive.checks : c.at >= day /\ c.mode # "human" /\ c.source = s)
                    => day \in Observed(archive.checks, s)

(***************************************************************************)
(* The schedule keeps ahead of the freshness deadline: a source verified on *)
(* its last scheduled date, or since, is not overdue before the next one,   *)
(* to the day, whichever phase of the cadence either date belongs to.       *)
(* (scheduled_dates and freshness_deadline.)                                *)
(***************************************************************************)
ScheduleOutpacesStaleness ==
    \A s \in Sources :
        LET successes == Successes(archive.checks, archive.approvals, s)
            success == Latest(successes).at
            dates == {d \in ScheduledDates(archive.activation, s) : d <= today}
        IN  (successes # {} /\ today <= ElectionDay /\ success >= LastOf(dates))
                => today <= FreshnessDeadline(success, s, today)

(***************************************************************************)
(* The schedule is kept and is kept up with: no date of it is without a     *)
(* record, and a source that was verified on each of its dates never reads  *)
(* as stale.  (run_verification, scheduled_dates, freshness_deadline.)      *)
(***************************************************************************)
ScheduleIsKept == HistoryHasNoHole /\ ScheduleOutpacesStaleness

(***************************************************************************)
(* An observation is commented once, however often jobs fail, lose answers  *)
(* and are repeated; a day has one task; and a comment that still needs     *)
(* somebody stands on an open task, labelled when it is the third failing   *)
(* day.  (reconcile_tasks.)                                                 *)
(***************************************************************************)
PostedOnceAndVisible ==
    [][ /\ repeated' = {}
        /\ \A d \in Days : issues'[d].count <= 1
        /\ \A marker \in posted' \ posted :
              LET task == issues'[run.section.day]
              IN  /\ task.count = 1
                  /\ run.section.handled \/ task.open
                  /\ run.section.escalated => task.high ]_verificationVars

(***************************************************************************)
(* Nothing is dropped: again and again a run ends and every               *)
(* scheduled day before today is commented, met by a person or quiet, when  *)
(* workflows keep being started.  (task_sections with --watch, and the      *)
(* retries of reconcile_tasks.)                                             *)
(***************************************************************************)
Surfaced(source, day) ==
    \/ Missing(source, day) \in posted
    \/ \E c \in OfSource(archive.checks, source) :
          c.day = day /\ (MarkerOf(c) \in posted \/ Quiet(c, archive))
EveryObligationSurfaces ==
    []<>(/\ run = NoRun
         /\ archive.activation # Never =>
               \A s \in Sources :
                  \A day \in ScheduledDates(archive.activation, s) :
                     day < today => Surfaced(s, day))
=============================================================================
