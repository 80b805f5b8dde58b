------------------------- MODULE VerificationSchedule ------------------------
(***************************************************************************)
(* What endorsement verification owes on a day: collection/verification.py  *)
(* and the counting of failures in verification_runtime.py, for one         *)
(* election.                                                                *)
(*                                                                          *)
(* Days are numbered; the calendar anchors are constants.  A check is the   *)
(* record of one attempt or of one obligation:                              *)
(*   source, day (scheduled_for), at (the day of checked_at), status, mode, *)
(*   the snapshot its event named, the kind of its failure and whether it   *)
(*   carries an access disposition.  A failure is of "access" when the      *)
(*   fetch says that nothing of the publication was received, of "content"  *)
(*   when something was captured or asks for review, and "unclear" when     *)
(*   it says neither.                                                       *)
(***************************************************************************)
EXTENDS Naturals, FiniteSets

CONSTANTS
    Sources,       \* the eligible sources
    Policy,        \* per source: automatic, dailyFromCollection, interval (0: none)
    Collection,    \* the day collection opens
    Issuance,      \* the day ballots are issued
    ElectionDay,
    Weekly,        \* the days of the weekly cadence
    EffectiveFrom, \* the first scheduled day of the access-failure policy
    NoSnapshot,
    Never          \* the day of an activation not yet recorded

\* read_policy and SourcePolicy: the anchors are in order, an interval excludes
\* a daily schedule from collection.
PolicyHolds ==
    /\ Collection \in Nat \ {0} /\ Issuance \in Nat /\ ElectionDay \in Nat
    /\ Collection <= Issuance /\ Issuance <= ElectionDay
    /\ Weekly \in Nat \ {0} /\ EffectiveFrom \in Nat
    /\ Policy \in [Sources -> [automatic : BOOLEAN, dailyFromCollection : BOOLEAN, interval : Nat]]
    /\ \A s \in Sources : Policy[s].interval = 0 \/ ~Policy[s].dailyFromCollection
    /\ Never = 0
ASSUME PolicyAssumption == PolicyHolds

Statuses == {"created", "updated", "unchanged", "failed", "manual", "manual_due", "missed"}
Event(check) == check.status \in {"created", "updated", "unchanged", "failed"}

FailureKinds == {"access", "content", "unclear"}

NewCheck(source, day, at, status, mode, snapshot, failure, limited) ==
    [source |-> source, day |-> day, at |-> at, status |-> status, mode |-> mode,
     snapshot |-> snapshot, failure |-> failure, limited |-> limited]

\* CheckRecord.validate_result
ValidCheck(check) ==
    /\ check.limited => check.status = "failed" /\ check.mode # "fixture"
    /\ check.status = "manual" => check.mode = "human"
    /\ check.status = "missed" => check.mode = "watch"
    /\ check.status \notin {"manual", "missed"} =>
          \/ check.mode \in {"live", "fixture"}
          \/ check.status = "failed" /\ check.mode = "human"

\* check_order: an administrative marker never stands behind an outcome of the
\* same moment.
Rank(check) ==
    CASE check.status = "manual_due" -> 0
      [] check.status = "missed" -> 1
      [] check.status = "failed" -> 2
      [] OTHER -> 3
Later(c, d) == c.at > d.at \/ (c.at = d.at /\ Rank(c) >= Rank(d))
Latest(checks) == CHOOSE c \in checks : \A d \in checks : Later(c, d)

(***************************************************************************)
(* The schedule.                                                            *)
(***************************************************************************)
DailyFrom(source) == IF Policy[source].dailyFromCollection THEN Collection ELSE Issuance

\* *mutation*: the daily phase is never entered
WeeklyOnly(day, source) ==
    (day - Collection) % (IF Policy[source].interval # 0 THEN Policy[source].interval ELSE Weekly) = 0

\* scheduled_dates: an interval, or weekly until the daily phase, counted from
\* the start of the phase a day is in.
Regular(day, source) ==
    LET daily == DailyFrom(source)
        anchor == IF day >= daily THEN daily ELSE Collection
        step == IF Policy[source].interval # 0 THEN Policy[source].interval
                ELSE IF day >= daily THEN 1 ELSE Weekly
    IN  (day - anchor) % step = 0

\* source_scheduled_dates: the day of activation always; with an interval the
\* issuance and the election day too.
ScheduledDates(activation, source) ==
    {day \in Collection..ElectionDay : day >= activation /\ Regular(day, source)}
    \cup {activation}
    \cup IF Policy[source].interval # 0
         THEN {day \in {Issuance, ElectionDay} : day >= activation} ELSE {}

OfSource(checks, source) == {c \in checks : c.source = source}
Observed(checks, source) == {c.day : c \in OfSource(checks, source)}
MissedDays(checks, source) ==
    {c.day : c \in {d \in OfSource(checks, source) : d.status = "missed"}}

\* Until activation only today's obligations exist.
ActivationOn(activation, asOf) == IF activation = Never THEN asOf ELSE activation

Pending(checks, activation, source, asOf) ==
    ScheduledDates(ActivationOn(activation, asOf), source) \ Observed(checks, source)
DueDays(checks, activation, source, asOf) ==
    {day \in Pending(checks, activation, source, asOf) : day <= asOf}

\* plan_verification looks at an election from its collection on, and after the
\* election day only when it was activated.
Planned(activation, asOf) ==
    asOf >= Collection /\ (asOf > ElectionDay => activation # Never)

Due(checks, activation, source, asOf) ==
    /\ Planned(activation, asOf)
    /\ DueDays(checks, activation, source, asOf) # {}
    /\ asOf <= ElectionDay

LastOf(days) == CHOOSE d \in days : \A e \in days : e <= d

\* The day a check of a due source is recorded for: an interval keeps the last
\* day it was due, everything else is observed today.
ScheduledFor(checks, activation, source, asOf) ==
    IF Policy[source].interval # 0
    THEN LastOf(DueDays(checks, activation, source, asOf)) ELSE asOf

\* The missing days the plan reports, those already recorded as missed included.
Missed(checks, activation, asOf) ==
    IF ~Planned(activation, asOf) THEN {}
    ELSE {m \in Sources \X (Collection..asOf) :
             /\ m[2] < asOf
             /\ m[2] \in DueDays(checks, activation, m[1], asOf) \cup MissedDays(checks, m[1])}

(***************************************************************************)
(* Coverage: when a source was last verified, and how long that counts.     *)
(***************************************************************************)
Successes(checks, approvals, source) ==
    {c \in OfSource(checks, source) :
        \/ c.status = "manual"
        \/ /\ c.mode = "live"
           /\ c.status \in {"created", "updated", "unchanged"}
           /\ c.snapshot \in approvals}

Attempted(checks, source) == {c \in OfSource(checks, source) : c.status # "manual_due"}

\* freshness_deadline: the elapsed age that a success of day `success` allows.
FreshnessDeadline(success, source, asOf) ==
    LET daily == DailyFrom(source)
        larger(a, b) == IF a >= b THEN a ELSE b
        smaller(a, b) == IF a <= b THEN a ELSE b
    IN  IF Policy[source].interval # 0 THEN success + Policy[source].interval
        ELSE IF asOf < daily THEN success + Weekly
        ELSE IF success >= daily THEN success + 1
        ELSE smaller(success + Weekly, larger(daily, success + 1))

\* consecutive_failures: the failed or missing days at the end of the days
\* attempted through `through`; a day in `missing` counts as failed.
ConsecutiveFailures(checks, source, through, missing) ==
    LET attempted == {c \in Attempted(checks, source) : c.day <= through}
        absent == {day \in missing : day <= through}
        days == {c.day : c \in attempted} \cup absent
        latest(day) == Latest({c \in attempted : c.day = day})
        failed(day) == day \in absent \/ latest(day).status \in {"failed", "missed"}
    IN  Cardinality({day \in days : \A later \in days : later >= day => failed(later)})
=============================================================================
