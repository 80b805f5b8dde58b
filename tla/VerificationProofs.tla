-------------------------- MODULE VerificationProofs --------------------------
(***************************************************************************)
(* That the schedule of endorsement verification is kept and its            *)
(* observations are posted once, for every policy, calendar, number of days *)
(* and sequence of lost runs.                                               *)
(***************************************************************************)
EXTENDS Verification, WellFoundedInduction, TLAPS

(***************************************************************************)
(* Numbers.                                                                 *)
(***************************************************************************)
\* A set of numbers that is not empty has a least member.
LEMMA LeastExists ==
  ASSUME NEW T, T \subseteq Nat, T # {}
  PROVE  \E x \in T : \A y \in T : x <= y
<1> DEFINE R == OpToRel(<, Nat)
<1>1. PICK x \in T : \A y \in T : ~(<<y, x>> \in R)
  <2> HIDE DEF R
  <2>1. IsWellFoundedOn(R, Nat)
    BY NatLessThanWellFounded DEF R
  <2> QED
    BY <2>1, WFMin
<1>2. \A y \in T : ~(y < x)
  BY <1>1 DEF OpToRel
<1> QED
  BY <1>2

\* The last of some days, none of which is after `n`.
LEMMA LastOfDays ==
  ASSUME NEW n \in Nat, NEW days, days # {}, \A d \in days : d \in Nat /\ d <= n
  PROVE  LastOf(days) \in days /\ \A d \in days : d <= LastOf(days)
<1> DEFINE T == {n - d : d \in days}
<1>1. PICK x \in T : \A y \in T : x <= y
  <2>1. T \subseteq Nat /\ T # {}
    OBVIOUS
  <2> QED
    BY <2>1, LeastExists
<1>2. PICK last \in days : x = n - last
  BY <1>1
<1>3. \A d \in days : d <= last
  BY <1>1, <1>2
<1> QED
  BY <1>3 DEF LastOf

\* Among w days in a row one is a multiple of w.
LEMMA MultipleExists ==
  ASSUME NEW a \in Nat, NEW w \in Nat \ {0}
  PROVE  \E d \in (a + 1)..(a + w) : d % w = 0
<1>1. a = (w * (a \div w)) + (a % w) /\ (a % w) \in 0..(w - 1) /\ (a \div w) \in Nat
  OBVIOUS
<1>2. \A q \in Nat : (w * q) % w = 0
  OBVIOUS
<1> DEFINE d == w * ((a \div w) + 1)
<1>3. d = (a - (a % w)) + w
  BY <1>1
<1>4. d \in (a + 1)..(a + w)
  BY <1>1, <1>3
<1>5. d % w = 0
  BY <1>1, <1>2
<1> QED
  BY <1>4, <1>5

\* And so one of them is a multiple of w days after an anchor before them.
LEMMA DayInStep ==
  ASSUME NEW anchor \in Nat, NEW day \in Nat, anchor <= day, NEW w \in Nat \ {0}
  PROVE  \E d \in (day + 1)..(day + w) : (d - anchor) % w = 0
<1>0. day - anchor \in Nat
  OBVIOUS
<1>1. PICK d \in ((day - anchor) + 1)..((day - anchor) + w) : d % w = 0
  BY <1>0, MultipleExists
<1>2. d + anchor \in (day + 1)..(day + w) /\ (d + anchor) - anchor = d
  BY <1>1
<1> QED
  BY <1>1, <1>2

(***************************************************************************)
(* The schedule and the freshness deadline.                                 *)
(***************************************************************************)
LEMMA PolicyTyped ==
  /\ Collection \in Nat \ {0} /\ Issuance \in Nat /\ ElectionDay \in Nat
  /\ Collection <= Issuance /\ Issuance <= ElectionDay
  /\ Weekly \in Nat \ {0} /\ Never = 0
  /\ \A s \in Sources :
        /\ Policy[s].interval \in Nat
        /\ Policy[s].automatic \in BOOLEAN
        /\ DailyFrom(s) \in Nat /\ Collection <= DailyFrom(s) /\ DailyFrom(s) <= ElectionDay
        /\ Policy[s].interval # 0 => DailyFrom(s) = Issuance
BY PolicyAssumption DEF PolicyHolds, DailyFrom

\* What the schedule names of an election activated in its window.
LEMMA DatesTyped ==
  ASSUME NEW activation \in Collection..ElectionDay, NEW s \in Sources
  PROVE  /\ ScheduledDates(activation, s) \subseteq Collection..ElectionDay
         /\ \A d \in ScheduledDates(activation, s) : activation <= d
         /\ activation \in ScheduledDates(activation, s)
         /\ \A d \in Collection..ElectionDay :
               d >= activation /\ Regular(d, s) => d \in ScheduledDates(activation, s)
         /\ Policy[s].interval # 0 /\ Issuance >= activation
               => Issuance \in ScheduledDates(activation, s)
BY PolicyTyped DEF ScheduledDates

\* When a success is stale, a later scheduled date has already come.
LEMMA StaleAfterDate ==
  ASSUME NEW activation \in Collection..ElectionDay, NEW s \in Sources,
         NEW success \in Nat, activation <= success,
         NEW asOf \in Nat, asOf <= ElectionDay,
         ~(asOf <= FreshnessDeadline(success, s, asOf))
  PROVE  \E d \in ScheduledDates(activation, s) : success < d /\ d <= asOf
<1> DEFINE daily == DailyFrom(s)
           interval == Policy[s].interval
<1>0. /\ daily \in Nat /\ Collection <= daily /\ daily <= ElectionDay /\ Collection \in Nat
      /\ interval \in Nat /\ Weekly \in Nat \ {0} /\ ElectionDay \in Nat /\ Issuance \in Nat
      /\ interval # 0 => daily = Issuance
      /\ Collection <= success
  BY PolicyTyped
<1>1. SUFFICES \E d \in Nat : success < d /\ d <= asOf /\
                  (Regular(d, s) \/ (interval # 0 /\ d = Issuance))
  BY <1>0, DatesTyped
<1> HIDE DEF daily, interval
<1>2. CASE interval # 0
  <2>1. success + interval < asOf
    BY <1>0, <1>2 DEF FreshnessDeadline, interval
  <2>2. CASE success < daily /\ daily <= success + interval
    BY <2>1, <2>2, <1>0, <1>2
  <2>3. CASE success + interval < daily
    <3>1. PICK d \in (success + 1)..(success + interval) : (d - Collection) % interval = 0
      BY <1>0, <1>2, DayInStep
    <3>2. Regular(d, s)
      BY <3>1, <2>3, <1>0, <1>2 DEF Regular, daily, interval
    <3> QED
      BY <3>1, <3>2, <2>1, <1>0
  <2>4. CASE daily <= success
    <3>1. PICK d \in (success + 1)..(success + interval) : (d - daily) % interval = 0
      BY <2>4, <1>0, <1>2, DayInStep
    <3>2. Regular(d, s)
      BY <3>1, <2>4, <1>0, <1>2 DEF Regular, daily, interval
    <3> QED
      BY <3>1, <3>2, <2>1, <1>0
  <2> QED
    BY <2>2, <2>3, <2>4, <1>0
<1>3. CASE interval = 0 /\ asOf < daily
  <2>1. success + Weekly < asOf
    BY <1>0, <1>3 DEF FreshnessDeadline, interval, daily
  <2>2. PICK d \in (success + 1)..(success + Weekly) : (d - Collection) % Weekly = 0
    BY <1>0, DayInStep
  <2>3. Regular(d, s)
    BY <2>1, <2>2, <1>0, <1>3 DEF Regular, daily, interval
  <2> QED
    BY <2>1, <2>2, <2>3, <1>0
<1>4. CASE interval = 0 /\ daily <= asOf
  <2>1. \A d \in Nat : d >= daily => Regular(d, s)
    <3>1. \A k \in Nat : k % 1 = 0
      OBVIOUS
    <3> QED
      BY <3>1, <1>0, <1>4 DEF Regular, daily, interval
  <2>2. CASE success < daily
    BY <2>1, <2>2, <1>0, <1>4
  <2>3. CASE daily <= success
    <3>1. success + 1 < asOf
      BY <2>3, <1>0, <1>4 DEF FreshnessDeadline, interval, daily
    <3> QED
      BY <3>1, <2>1, <2>3, <1>0
  <2> QED
    BY <2>2, <2>3, <1>0
<1> QED
  BY <1>2, <1>3, <1>4, <1>0

(***************************************************************************)
(* The records.  A tree, the archive's or that of a run, is whole when all  *)
(* its checks are well-formed and of days that have come, when no missing   *)
(* day is noted twice, and when its history has no hole.                    *)
(***************************************************************************)
Modes == {"live", "watch", "human", "fixture"}
Failures == {"none"} \cup FailureKinds
Results == Snapshots \cup Outcomes
Checks == [source : Sources, day : Days, at : Days, status : Statuses, mode : Modes,
           snapshot : Snapshots \cup {NoSnapshot}, failure : Failures, limited : BOOLEAN]

Check(c, asOf) == c \in Checks /\ ValidCheck(c) /\ c.day <= c.at /\ c.at <= asOf

\* A missing day is noted once.
OneMissed(checks) ==
  \A c, d \in checks : c.status = "missed" /\ d.status = "missed"
                          /\ c.source = d.source /\ c.day = d.day => c = d

NoHole(activation, checks) ==
  \A s \in Sources : \A day \in ScheduledDates(activation, s) :
     (\E c \in checks : c.at >= day /\ c.mode # "human" /\ c.source = s)
        => day \in Observed(checks, s)

Whole(tree, asOf) ==
  /\ tree = Records(tree.activation, tree.checks, tree.approvals, tree.reviews)
  /\ tree.approvals \subseteq Snapshots
  /\ tree.activation = Never => tree.checks = {}
  /\ tree.activation # Never =>
        tree.activation \in Collection..ElectionDay /\ tree.activation <= asOf
  /\ \A c \in tree.checks : Check(c, asOf) /\ tree.activation <= c.at
  /\ OneMissed(tree.checks)
  /\ tree.activation # Never => NoHole(tree.activation, tree.checks)

LEMMA DaysTyped == /\ Days \subseteq Nat /\ LastDay \in Nat /\ \A d \in Days : 1 <= d /\ d <= LastDay
                   /\ Collection..ElectionDay \subseteq Days
                   /\ \A d \in Nat, e \in Days : 1 <= d /\ d <= e => d \in Days
BY BoundAssumption, PolicyTyped DEF Days

LEMMA Words ==
  /\ \A w \in {"created", "updated", "unchanged", "failed", "manual", "manual_due", "missed"} :
        w \in Statuses
  /\ \A w \in {"live", "watch", "human", "fixture"} : w \in Modes
  /\ \A w \in {"none", "access"} \cup Outcomes : w \in Failures
BY BoundAssumption DEF Statuses, Modes, Failures, FailureKinds

LEMMA NewCheckTyped ==
  ASSUME NEW s \in Sources, NEW day \in Days, NEW at \in Days, NEW status \in Statuses,
         NEW mode \in Modes, NEW snapshot \in Snapshots \cup {NoSnapshot},
         NEW failure \in Failures, NEW limited \in BOOLEAN
  PROVE  LET c == NewCheck(s, day, at, status, mode, snapshot, failure, limited)
         IN  /\ c \in Checks
             /\ c.source = s /\ c.day = day /\ c.at = at /\ c.status = status /\ c.mode = mode
             /\ c.snapshot = snapshot /\ c.failure = failure /\ c.limited = limited
BY DEF NewCheck, Checks

\* What a refresh yields.
LEMMA RefreshedTyped ==
  ASSUME NEW tree, NEW s \in Sources, NEW day \in Days, NEW at \in Days, NEW result \in Results
  PROVE  LET c == Refreshed(tree, s, day, at, result)
         IN  /\ c \in Checks /\ ValidCheck(c)
             /\ c.source = s /\ c.day = day /\ c.at = at
             /\ c.mode = "live" /\ c.status # "missed"
<1> DEFINE c == Refreshed(tree, s, day, at, result)
<1>1. CASE result \in Snapshots
  <2>1. PICK status \in {"created", "unchanged", "updated"} :
               c = NewCheck(s, day, at, status, "live", result, "none", FALSE)
    BY <1>1 DEF Refreshed
  <2>2. status \in Statuses /\ "live" \in Modes /\ "none" \in Failures
    BY <2>1, Words
  <2>3. /\ c \in Checks /\ c.source = s /\ c.day = day /\ c.at = at
        /\ c.status = status /\ c.mode = "live" /\ ~c.limited
    BY <2>1, <2>2, <1>1 DEF NewCheck, Checks
  <2> QED
    BY <2>1, <2>3 DEF ValidCheck
<1>2. CASE result \notin Snapshots
  <2>1. PICK limited \in BOOLEAN :
               c = NewCheck(s, day, at, "failed", "live", NoSnapshot, result, limited)
    <3>1. AccessLimited(tree, s, day, at, result) \in BOOLEAN
      BY DEF AccessLimited
    <3> QED
      BY <3>1, <1>2 DEF Refreshed
  <2>2. result \in Failures /\ "failed" \in Statuses /\ "live" \in Modes
    BY <1>2, Words DEF Results
  <2>3. /\ c \in Checks /\ c.source = s /\ c.day = day /\ c.at = at
        /\ c.status = "failed" /\ c.mode = "live"
    BY <2>1, <2>2, NewCheckTyped
  <2> QED
    BY <2>3 DEF ValidCheck
<1> QED
  BY <1>1, <1>2

\* The day a check of a due source is recorded for.
LEMMA DayOfDue ==
  ASSUME NEW asOf \in Days, NEW tree, Whole(tree, asOf), NEW s \in Sources,
         s \in DueSources(tree, asOf)
  PROVE  LET day == ScheduledFor(tree.checks, tree.activation, s, asOf)
         IN  /\ Collection <= day /\ day \in Days /\ day <= asOf
             /\ asOf \in Pending(tree.checks, tree.activation, s, asOf) => day = asOf
<1> DEFINE days == DueDays(tree.checks, tree.activation, s, asOf)
<1>1. asOf \in Nat /\ Collection \in Nat \ {0} /\ Collection <= asOf /\ days # {} /\ asOf <= ElectionDay
  BY DaysTyped, PolicyTyped DEF DueSources, Due, Planned
<1>2. ActivationOn(tree.activation, asOf) \in Collection..ElectionDay
  BY <1>1, PolicyTyped DEF ActivationOn, Whole
<1>3. \A d \in days : d \in Collection..ElectionDay /\ d <= asOf
  BY <1>2, DatesTyped DEF DueDays, Pending
<1>4. LastOf(days) \in days /\ \A d \in days : d <= LastOf(days)
  <2> HIDE DEF days
  <2> QED
    BY <1>1, <1>3, LastOfDays
<1>5. asOf \in Pending(tree.checks, tree.activation, s, asOf) => asOf \in days
  BY <1>1 DEF DueDays
<1> DEFINE day == ScheduledFor(tree.checks, tree.activation, s, asOf)
<1>6. day = IF Policy[s].interval # 0 THEN LastOf(days) ELSE asOf
  BY DEF ScheduledFor
<1> HIDE DEF day, days
<1>7. Collection <= day /\ day \in Nat /\ day <= asOf /\ (asOf \in days => day = asOf)
  BY <1>1, <1>3, <1>4, <1>6
<1>8. day \in Days
  BY <1>1, <1>7, DaysTyped
<1> QED
  BY <1>5, <1>7, <1>8 DEF day

(***************************************************************************)
(* A verification leaves the tree whole.                                    *)
(***************************************************************************)
LEMMA VerifiedIsWhole ==
  ASSUME NEW asOf \in Days, NEW tree, Whole(tree, asOf),
         NEW result, \A s \in Sources : result[s] \in Results
  PROVE  /\ Whole(Verified(tree, asOf, result), asOf)
         /\ tree.activation # Never => Verified(tree, asOf, result).activation = tree.activation
<1> DEFINE due == DueSources(tree, asOf)
           active == ActivationOn(tree.activation, asOf)
           missed == MissedRecords(tree, asOf)
           with == [tree EXCEPT !.activation = active, !.checks = @ \cup missed]
           day(s) == ScheduledFor(tree.checks, tree.activation, s, asOf)
           checkOf(s) == IF Policy[s].automatic THEN Refreshed(with, s, day(s), asOf, result[s])
                         ELSE NewCheck(s, day(s), asOf, "manual_due", "live", NoSnapshot, "none", FALSE)
           fresh == {checkOf(s) : s \in due}
<1>1. CASE due = {}
  BY <1>1 DEF Verified
<1> HIDE DEF due, active, missed, with, day, checkOf, fresh
<1>2. CASE due # {}
  <2>1. /\ asOf \in Nat /\ Collection \in Nat \ {0} /\ Collection <= asOf /\ asOf <= ElectionDay
        /\ due \subseteq Sources /\ Planned(tree.activation, asOf)
    BY <1>2, DaysTyped, PolicyTyped DEF due, DueSources, Due, Planned
  <2>2. /\ active \in Collection..ElectionDay /\ active <= asOf /\ active # Never
        /\ tree.activation # Never => active = tree.activation
    BY <2>1, PolicyTyped DEF active, ActivationOn, Whole
  <2>3. \A m \in missed :
           /\ m \in Checks /\ ValidCheck(m) /\ m.source \in Sources
           /\ m = NewCheck(m.source, m.day, asOf, "missed", "watch", NoSnapshot, "none", FALSE)
           /\ m.at = asOf /\ m.status = "missed" /\ m.mode = "watch"
           /\ m.day \in Nat /\ m.day < asOf /\ m.day \notin Observed(tree.checks, m.source)
    <3> SUFFICES ASSUME NEW m \in missed
                 PROVE  /\ m \in Checks /\ ValidCheck(m) /\ m.source \in Sources
                        /\ m = NewCheck(m.source, m.day, asOf, "missed", "watch", NoSnapshot, "none", FALSE)
                        /\ m.at = asOf /\ m.status = "missed" /\ m.mode = "watch"
                        /\ m.day \in Nat /\ m.day < asOf
                        /\ m.day \notin Observed(tree.checks, m.source)
      OBVIOUS
    <3>1. PICK n \in Missed(tree.checks, tree.activation, asOf) :
             /\ n[2] \notin Observed(tree.checks, n[1])
             /\ m = NewCheck(n[1], n[2], asOf, "missed", "watch", NoSnapshot, "none", FALSE)
      BY DEF missed, MissedRecords
    <3>2. n[1] \in Sources /\ n[2] \in Collection..asOf /\ n[2] < asOf
      BY <3>1, <2>1 DEF Missed
    <3>3. n[2] \in Days /\ n[2] \in Nat
      BY <3>2, <2>1, DaysTyped
    <3>4. "missed" \in Statuses /\ "watch" \in Modes /\ "none" \in Failures
      BY Words
    <3>5. /\ m \in Checks /\ m.source = n[1] /\ m.day = n[2]
          /\ m.at = asOf /\ m.status = "missed" /\ m.mode = "watch" /\ ~m.limited
      BY <3>1, <3>2, <3>3, <3>4 DEF NewCheck, Checks
    <3> QED
      BY <3>1, <3>2, <3>3, <3>5 DEF ValidCheck
  <2>4. \A s \in Sources : \A d \in ScheduledDates(active, s) :
           d < asOf /\ d \notin Observed(tree.checks, s)
              => \E m \in missed : m.source = s /\ m.day = d
    <3> SUFFICES ASSUME NEW s \in Sources, NEW d \in ScheduledDates(active, s),
                        d < asOf, d \notin Observed(tree.checks, s)
                 PROVE  \E m \in missed : m.source = s /\ m.day = d
      OBVIOUS
    <3>1. d \in Collection..asOf
      BY <2>1, <2>2, DatesTyped
    <3>2. d \in DueDays(tree.checks, tree.activation, s, asOf)
      BY <3>1, <2>1 DEF DueDays, Pending, active
    <3>3. <<s, d>> \in Missed(tree.checks, tree.activation, asOf)
      BY <3>1, <3>2, <2>1 DEF Missed
    <3> DEFINE m == NewCheck(s, d, asOf, "missed", "watch", NoSnapshot, "none", FALSE)
    <3> DEFINE n == <<s, d>>
    <3>4. m \in missed
      <4>1. n \in {k \in Missed(tree.checks, tree.activation, asOf) :
                       k[2] \notin Observed(tree.checks, k[1])}
        BY <3>3
      <4>2. m = NewCheck(n[1], n[2], asOf, "missed", "watch", NoSnapshot, "none", FALSE)
        OBVIOUS
      <4> QED
        BY <4>1, <4>2, Zenon DEF missed, MissedRecords
    <3>5. m.source = s /\ m.day = d
      BY DEF NewCheck
    <3> QED
      BY <3>4, <3>5
  <2>5. \A s \in due : /\ Collection <= day(s) /\ day(s) \in Days /\ day(s) <= asOf
                       /\ asOf \in Pending(tree.checks, tree.activation, s, asOf) => day(s) = asOf
    BY <2>1, DayOfDue DEF due, day
  <2>6. \A s \in Sources : asOf \in ScheduledDates(active, s) /\ asOf \notin Observed(tree.checks, s)
           => s \in due /\ day(s) = asOf
    <3> SUFFICES ASSUME NEW s \in Sources, asOf \in ScheduledDates(active, s),
                        asOf \notin Observed(tree.checks, s)
                 PROVE  s \in due /\ day(s) = asOf
      OBVIOUS
    <3>1. asOf \in Pending(tree.checks, tree.activation, s, asOf)
      BY DEF Pending, active
    <3>2. s \in due
      BY <3>1, <2>1 DEF due, DueSources, Due, DueDays
    <3> QED
      BY <3>1, <3>2, <2>5
  <2>7. \A s \in due : /\ checkOf(s) \in Checks /\ ValidCheck(checkOf(s))
                       /\ checkOf(s).source = s /\ checkOf(s).day = day(s) /\ checkOf(s).at = asOf
                       /\ checkOf(s).mode = "live" /\ checkOf(s).status # "missed"
    <3> SUFFICES ASSUME NEW s \in due
                 PROVE  /\ checkOf(s) \in Checks /\ ValidCheck(checkOf(s))
                        /\ checkOf(s).source = s /\ checkOf(s).day = day(s) /\ checkOf(s).at = asOf
                        /\ checkOf(s).mode = "live" /\ checkOf(s).status # "missed"
      OBVIOUS
    <3>1. s \in Sources /\ day(s) \in Days
      BY <2>1, <2>5
    <3>2. CASE Policy[s].automatic
      BY <3>1, <3>2, RefreshedTyped DEF checkOf
    <3>3. CASE ~Policy[s].automatic
      <4>1. "manual_due" \in Statuses /\ "live" \in Modes /\ "none" \in Failures
        BY Words
      <4>2. checkOf(s) = NewCheck(s, day(s), asOf, "manual_due", "live", NoSnapshot, "none", FALSE)
        BY <3>3 DEF checkOf
      <4>3. /\ checkOf(s) \in Checks /\ checkOf(s).source = s /\ checkOf(s).day = day(s)
            /\ checkOf(s).at = asOf /\ checkOf(s).mode = "live" /\ checkOf(s).status = "manual_due"
            /\ ~checkOf(s).limited
        BY <4>1, <4>2, <3>1 DEF NewCheck, Checks
      <4> QED
        BY <4>3 DEF ValidCheck
    <3> QED
      BY <3>2, <3>3
  <2> DEFINE all == (tree.checks \cup missed) \cup fresh
  <2>8. Verified(tree, asOf, result) = Records(active, all, tree.approvals, tree.reviews)
    <3>1. Verified(tree, asOf, result) = [with EXCEPT !.checks = @ \cup fresh]
      BY <1>2 DEF Verified, due, active, missed, with, day, checkOf, fresh
    <3>2. PICK activation, checks, approvals, reviews :
             tree = [activation |-> activation, checks |-> checks, approvals |-> approvals,
                     reviews |-> reviews]
      BY DEF Whole, Records
    <3> QED
      BY <3>1, <3>2 DEF Records, with
  <2>9. \A c \in all : Check(c, asOf) /\ active <= c.at
    <3>1. \A c \in tree.checks : Check(c, asOf) /\ active <= c.at
      BY <2>2 DEF Whole
    <3>2. \A c \in missed : Check(c, asOf) /\ active <= c.at
      <4> SUFFICES ASSUME NEW c \in missed PROVE Check(c, asOf) /\ active <= c.at
        OBVIOUS
      <4>1. /\ c \in Checks /\ ValidCheck(c) /\ c.at = asOf /\ c.day \in Nat /\ c.day < asOf
        BY <2>3
      <4> QED
        BY <4>1, <2>1, <2>2 DEF Check
    <3>3. \A c \in fresh : Check(c, asOf) /\ active <= c.at
      BY <2>1, <2>2, <2>5, <2>7 DEF Check, fresh
    <3> QED
      BY <3>1, <3>2, <3>3
  <2>10. OneMissed(all)
    <3>1. \A c \in fresh : c.status # "missed"
      BY <2>7 DEF fresh
    <3>2. \A c \in tree.checks, m \in missed : c.source = m.source => c.day # m.day
      BY <2>3 DEF Observed, OfSource
    <3>3. \A c, d \in missed : c.source = d.source /\ c.day = d.day => c = d
      BY <2>3
    <3> QED
      BY <3>1, <3>2, <3>3 DEF OneMissed, Whole
  <2>11. NoHole(active, all)
    <3> SUFFICES ASSUME NEW s \in Sources, NEW d \in ScheduledDates(active, s),
                        NEW c \in all, c.at >= d, c.mode # "human", c.source = s
                 PROVE  \E e \in all : e.source = s /\ e.day = d
      BY DEF NoHole, Observed, OfSource
    <3>1. d \in Nat /\ c.at \in Nat /\ c.at <= asOf /\ asOf \in Nat
      BY <2>1, <2>2, <2>9, DatesTyped, DaysTyped DEF Check, Checks
    <3>2. CASE d \in Observed(tree.checks, s)
      BY <3>2 DEF Observed, OfSource
    <3>3. CASE d \notin Observed(tree.checks, s) /\ d < asOf
      BY <3>3, <2>4
    <3>4. CASE d \notin Observed(tree.checks, s) /\ d = asOf
      BY <3>4, <2>6, <2>7 DEF fresh
    <3> QED
      BY <3>1, <3>2, <3>3, <3>4
  <2>12. Whole(Records(active, all, tree.approvals, tree.reviews), asOf)
    <3> HIDE DEF all
    <3> QED
      BY <2>2, <2>9, <2>10, <2>11 DEF Whole, Records
  <2> QED
    BY <2>2, <2>8, <2>12 DEF Records
<1> QED
  BY <1>1, <1>2

\* It is still whole on a later day.
LEMMA WholeLater ==
  ASSUME NEW asOf \in Days, NEW later \in Days, asOf <= later, NEW tree, Whole(tree, asOf)
  PROVE  Whole(tree, later)
<1>1. \A c \in tree.checks : Check(c, later) /\ tree.activation <= c.at
  <2> SUFFICES ASSUME NEW c \in tree.checks PROVE Check(c, later) /\ tree.activation <= c.at
    OBVIOUS
  <2>1. Check(c, asOf) /\ tree.activation <= c.at
    BY DEF Whole
  <2>2. c.at \in Nat /\ asOf \in Nat /\ later \in Nat
    BY <2>1, DaysTyped DEF Check, Checks
  <2> QED
    BY <2>1, <2>2 DEF Check
<1>2. tree.activation # Never => tree.activation <= later
  <2> SUFFICES ASSUME tree.activation # Never PROVE tree.activation <= later
    OBVIOUS
  <2>1. tree.activation \in Collection..ElectionDay /\ tree.activation <= asOf
    BY DEF Whole
  <2>2. tree.activation \in Nat /\ asOf \in Nat /\ later \in Nat
    BY <2>1, DaysTyped
  <2> QED
    BY <2>1, <2>2
<1> QED
  BY <1>1, <1>2 DEF Whole

\* What people recorded on main can be merged.
Acceptable(record, archived, asOf) ==
  /\ record = Records(record.activation, record.checks, record.approvals, record.reviews)
  /\ record.approvals \subseteq Snapshots
  /\ \A c \in record.checks : /\ Check(c, asOf) /\ c.mode = "human"
                              /\ archived.activation # Never /\ archived.activation <= c.at

LEMMA MergedIsWhole ==
  ASSUME NEW asOf \in Days, Whole(archive, asOf), Acceptable(main, archive, asOf)
  PROVE  Whole(Records(archive.activation, archive.checks \cup main.checks,
                       archive.approvals \cup main.approvals,
                       archive.reviews \cup main.reviews), asOf)
<1> DEFINE checks == archive.checks \cup main.checks
<1>1. archive.activation = Never => checks = {}
  BY DEF Whole, Acceptable
<1>2. \A c \in checks : Check(c, asOf) /\ archive.activation <= c.at
  BY DEF Whole, Acceptable
<1>3. \A c \in main.checks : c.mode = "human" /\ c.status # "missed"
  BY DEF Acceptable, Check, ValidCheck
<1>4. OneMissed(checks)
  BY <1>3 DEF OneMissed, Whole
<1>5. archive.activation # Never => NoHole(archive.activation, checks)
  BY <1>3 DEF NoHole, Whole, Observed, OfSource
<1> QED
  BY <1>1, <1>2, <1>4, <1>5 DEF Whole, Acceptable, Records

(***************************************************************************)
(* The sections of a run have markers of their own.                         *)
(***************************************************************************)
Distinct(sections) ==
  /\ \A s \in sections : s.day \in Days
  /\ \A s, t \in sections : s.marker = t.marker => s = t

LEMMA MarkersDiffer ==
  /\ \A c \in Checks : \A s, d : c # Missing(s, d) /\ c # Startup(d)
  /\ \A s, d, e : Missing(s, d) # Startup(e)
  /\ \A r, s, d, e : Missing(r, d) = Missing(s, e) => r = s /\ d = e
<1>1. \A c \in Checks : \A s, d : c # Missing(s, d) /\ c # Startup(d)
  <2> SUFFICES ASSUME NEW c \in Checks, NEW s, NEW d
               PROVE  c # Missing(s, d) /\ c # Startup(d)
    OBVIOUS
  <2>1. "status" \in DOMAIN c
    BY DEF Checks
  <2>2. "status" \notin DOMAIN Missing(s, d) /\ "status" \notin DOMAIN Startup(d)
    BY DEF Missing, Startup
  <2> QED
    BY <2>1, <2>2
<1>2. \A s, d, e : Missing(s, d) # Startup(e)
  <2> SUFFICES ASSUME NEW s, NEW d, NEW e PROVE Missing(s, d) # Startup(e)
    OBVIOUS
  <2>1. "missing" \in DOMAIN Missing(s, d) /\ "missing" \notin DOMAIN Startup(e)
    BY DEF Missing, Startup
  <2> QED
    BY <2>1
<1>3. \A r, s, d, e : Missing(r, d) = Missing(s, e) => r = s /\ d = e
  BY DEF Missing
<1> QED
  BY <1>1, <1>2, <1>3

LEMMA SectionsAreDistinct ==
  ASSUME NEW asOf \in Days, NEW tree, Whole(tree, asOf), NEW known
  PROVE  Distinct(Sections(tree, asOf, known))
<1> DEFINE recorded(c) == Section(c.source, c.day, MarkerOf(c), Escalated(c, tree.checks), c.limited)
           missed == Missed(tree.checks, tree.activation, asOf)
           reported == {<<s.source, s.day>> : s \in RecordedSections(tree, asOf)}
           daysOf(source) == {m[2] : m \in {n \in missed : n[1] = source}}
           watched(m) == Section(m[1], m[2], Missing(m[1], m[2]),
                                 ConsecutiveFailures(tree.checks, m[1], asOf, daysOf(m[1])) >= 3, FALSE)
           three == \A back \in 0..2 :
                      asOf > back /\ Startup(asOf - back) \in known \cup {Startup(asOf)}
           startup == Section(NoRun, asOf, Startup(asOf), three, FALSE)
<1> HIDE DEF recorded, missed, reported, watched, startup
<1>1. \A c : /\ recorded(c).source = c.source /\ recorded(c).day = c.day
             /\ recorded(c).marker = MarkerOf(c)
  BY DEF recorded, Section
<1>2. \A m : watched(m).day = m[2] /\ watched(m).marker = Missing(m[1], m[2])
  BY DEF watched, Section
<1>3. startup.day = asOf /\ startup.marker = Startup(asOf)
  BY DEF startup, Section
<1>4. \A s \in RecordedSections(tree, asOf) : \E c \in tree.checks : s = recorded(c)
  BY DEF RecordedSections, recorded
<1>5. \A s \in WatchSections(tree, asOf) : \E m \in missed \ reported : s = watched(m)
  BY DEF WatchSections, watched, missed, reported
<1>6. \A s \in StartupSections(tree, asOf, known) : s = startup
  BY DEF StartupSections, startup
<1>7. \A c \in tree.checks : c \in Checks /\ c.day \in Days
  BY DEF Whole, Check, Checks
<1>8. \A m \in missed : m = <<m[1], m[2]>> /\ m[2] \in Days
  BY DaysTyped, PolicyTyped DEF missed, Missed
<1>9. \A c \in tree.checks : MarkerOf(c) = IF c.status = "missed" THEN Missing(c.source, c.day) ELSE c
  BY DEF MarkerOf
<1>10. \A c, d \in tree.checks : MarkerOf(c) = MarkerOf(d) => c = d
  BY <1>7, <1>9, MarkersDiffer DEF Whole, OneMissed
<1>11. \A s \in RecordedSections(tree, asOf), m \in missed \ reported : s.marker # Missing(m[1], m[2])
  <2> SUFFICES ASSUME NEW s \in RecordedSections(tree, asOf), NEW m \in missed \ reported,
                      s.marker = Missing(m[1], m[2])
               PROVE  FALSE
    OBVIOUS
  <2>1. PICK c \in tree.checks : s = recorded(c)
    BY <1>4
  <2>2. s.source = m[1] /\ s.day = m[2]
    BY <2>1, <1>1, <1>7, <1>9, MarkersDiffer
  <2>3. m = <<s.source, s.day>>
    BY <2>2, <1>8
  <2> QED
    BY <2>3 DEF reported
<1>12. \A s \in Sections(tree, asOf, known) : s.day \in Days
  BY <1>1, <1>2, <1>3, <1>4, <1>5, <1>6, <1>7, <1>8 DEF Sections
<1>13. \A s \in RecordedSections(tree, asOf) : \A t \in Sections(tree, asOf, known) :
          s.marker = t.marker => s = t
  <2>1. \A s, t \in RecordedSections(tree, asOf) : s.marker = t.marker => s = t
    BY <1>1, <1>4, <1>10
  <2>2. \A s \in RecordedSections(tree, asOf), t \in WatchSections(tree, asOf) : s.marker # t.marker
    BY <1>2, <1>5, <1>11
  <2>3. \A s \in RecordedSections(tree, asOf), t \in StartupSections(tree, asOf, known) :
          s.marker # t.marker
    BY <1>1, <1>3, <1>4, <1>6, <1>7, <1>9, MarkersDiffer
  <2> QED
    BY <2>1, <2>2, <2>3 DEF Sections
<1>14. \A s, t \in WatchSections(tree, asOf) : s.marker = t.marker => s = t
  <2> SUFFICES ASSUME NEW s \in WatchSections(tree, asOf), NEW t \in WatchSections(tree, asOf),
                      s.marker = t.marker
               PROVE  s = t
    OBVIOUS
  <2>1. PICK m \in missed : s = watched(m)
    BY <1>5
  <2>2. PICK n \in missed : t = watched(n)
    BY <1>5
  <2>3. m = n
    BY <2>1, <2>2, <1>2, <1>8, MarkersDiffer
  <2> QED
    BY <2>1, <2>2, <2>3
<1>15. \A s \in WatchSections(tree, asOf), t \in StartupSections(tree, asOf, known) :
          s.marker # t.marker
  BY <1>2, <1>3, <1>5, <1>6, MarkersDiffer
<1> QED
  BY <1>6, <1>12, <1>13, <1>14, <1>15 DEF Distinct, Sections

(***************************************************************************)
(* The invariant.  A run works from a whole tree on what the tasks really   *)
(* look like, towards markers that no comment has yet.                      *)
(***************************************************************************)
Steps == {"check", "push", "list", "issue", "label", "comment"}
Tasks == [count : 0..1, open : BOOLEAN, high : BOOLEAN]

\* What the run believes of the tasks is how they are.
TasksAgree(tasks) ==
  /\ tasks \in [Days -> Tasks]
  /\ \A d \in Days : tasks[d].count = issues[d].count /\ tasks[d].open = issues[d].open

\* The section at work has its task, and no comment.
AtWork(section, tasks, todo) ==
  /\ section.day \in Days
  /\ tasks[section.day].count = 1
  /\ section.handled \/ tasks[section.day].open
  /\ section.marker \notin posted
  /\ \A s \in todo : s.marker # section.marker

RunHolds(r) ==
  /\ r = [step |-> r.step, tree |-> r.tree, todo |-> r.todo, section |-> r.section,
          tasks |-> r.tasks, known |-> r.known]
  /\ r.step \in Steps
  /\ Whole(r.tree, today)
  /\ archive.activation # Never => r.tree.activation = archive.activation
  /\ r.step \in {"issue", "label", "comment"} =>
        /\ TasksAgree(r.tasks)
        /\ Distinct(r.todo)
        /\ \A s \in r.todo : s.marker \notin posted
  /\ r.step \in {"label", "comment"} => AtWork(r.section, r.tasks, r.todo)
  /\ r.step = "comment" /\ r.section.escalated => issues[r.section.day].high

VInv ==
  /\ today \in Days
  /\ Whole(archive, today)
  /\ Acceptable(main, archive, today)
  /\ issues \in [Days -> Tasks]
  /\ repeated = {}
  /\ failures \in 0..MaxFailures /\ acts \in 0..MaxActs
  /\ run # NoRun => RunHolds(run)

LEMMA VInit == VerificationInit => VInv
<1> SUFFICES ASSUME VerificationInit PROVE VInv
  OBVIOUS
<1>1. 1 \in Days
  BY BoundAssumption, PolicyTyped DEF Days
<1>2. \A t : t = Records(Never, {}, {}, {}) =>
         t.activation = Never /\ t.checks = {} /\ t.approvals = {} /\ t.reviews = {}
  BY DEF Records
<1>3. Whole(archive, today) /\ Acceptable(main, archive, today)
  BY <1>2 DEF VerificationInit, Whole, Acceptable, OneMissed
<1>4. issues \in [Days -> Tasks]
  BY DEF VerificationInit, NoTask, Tasks
<1> QED
  BY <1>1, <1>3, <1>4, BoundAssumption DEF VerificationInit, VInv

(***************************************************************************)
(* The verification's steps.                                                *)
(***************************************************************************)
LEMMA StartVerificationStep == VInv /\ StartVerification => VInv'
<1> SUFFICES ASSUME VInv, StartVerification PROVE VInv'
  OBVIOUS
<1> DEFINE tree == Records(archive.activation, archive.checks \cup main.checks,
                           archive.approvals \cup main.approvals, archive.reviews \cup main.reviews)
<1>1. Whole(tree, today)
  BY MergedIsWhole DEF VInv
<1>2. tree.activation = archive.activation
  BY DEF Records
<1> HIDE DEF tree
<1>3. /\ run' = [step |-> "check", tree |-> tree, todo |-> {}, section |-> NoRun, tasks |-> issues, known |-> {}]
      /\ UNCHANGED <<today, archive, main, admitted, issues, posted, repeated, failures, acts>>
  BY DEF StartVerification, Begin, tree
<1>4. RunHolds(run)'
  BY <1>1, <1>2, <1>3 DEF RunHolds, Steps
<1> QED
  BY <1>3, <1>4 DEF VInv

LEMMA StartWatchStep == VInv /\ StartWatch => VInv'
<1> SUFFICES ASSUME VInv, StartWatch PROVE VInv'
  OBVIOUS
<1>1. /\ run' = [step |-> "list", tree |-> archive, todo |-> {}, section |-> NoRun, tasks |-> issues, known |-> {}]
      /\ UNCHANGED <<today, archive, main, admitted, issues, posted, repeated, failures, acts>>
  BY DEF StartWatch, Begin, people, github
<1>2. RunHolds(run)'
  BY <1>1 DEF RunHolds, Steps, VInv
<1> QED
  BY <1>1, <1>2 DEF VInv

\* The fields of a run that goes on.
LEMMA RunGoesOn ==
  ASSUME NEW r, RunHolds(r), NEW n, NEW step, n = [r EXCEPT !.step = step]
  PROVE  n = [step |-> step, tree |-> r.tree, todo |-> r.todo, section |-> r.section,
              tasks |-> r.tasks, known |-> r.known]
<1>1. PICK s, t, todo, section, tasks, known :
         r = [step |-> s, tree |-> t, todo |-> todo, section |-> section, tasks |-> tasks,
              known |-> known]
  BY DEF RunHolds
<1>2. r.tree = t /\ r.todo = todo /\ r.section = section /\ r.tasks = tasks /\ r.known = known
  BY <1>1
<1>3. n = [step |-> step, tree |-> t, todo |-> todo, section |-> section, tasks |-> tasks,
           known |-> known]
  BY <1>1
<1> QED
  BY <1>2, <1>3

LEMMA RunVerificationStep == VInv /\ RunVerification => VInv'
<1> SUFFICES ASSUME VInv, RunVerification PROVE VInv'
  OBVIOUS
<1>1. /\ run # NoRun /\ RunHolds(run) /\ today \in Days
      /\ UNCHANGED <<today, archive, main, admitted, issues, posted, repeated, failures, acts>>
  BY DEF RunVerification, VInv, people, github
<1>2. PICK result \in [Sources -> Snapshots \cup Outcomes] :
         run' = [run EXCEPT !.tree = Verified(run.tree, today, result), !.step = "push"]
  BY DEF RunVerification
<1>3. \A s \in Sources : result[s] \in Results
  BY DEF Results
<1> PICK tree : tree = Verified(run.tree, today, result)
  OBVIOUS
<1>4. Whole(tree, today) /\ (run.tree.activation # Never => tree.activation = run.tree.activation)
  BY <1>1, <1>3, VerifiedIsWhole DEF RunHolds
<1>5. run' = [step |-> "push", tree |-> tree, todo |-> run.todo, section |-> run.section,
              tasks |-> run.tasks, known |-> run.known]
  <2>1. PICK s, t, todo, section, tasks, known :
           run = [step |-> s, tree |-> t, todo |-> todo, section |-> section, tasks |-> tasks,
                  known |-> known]
    BY <1>1 DEF RunHolds
  <2>2. run' = [step |-> "push", tree |-> tree, todo |-> todo, section |-> section,
                tasks |-> tasks, known |-> known]
    BY <1>2, <2>1
  <2> QED
    BY <2>1, <2>2
<1>6. RunHolds(run)'
  BY <1>1, <1>4, <1>5 DEF RunHolds, Steps
<1> QED
  BY <1>1, <1>6 DEF VInv

LEMMA PushStep == VInv /\ Push => VInv'
<1> SUFFICES ASSUME VInv, Push PROVE VInv'
  OBVIOUS
<1>1. /\ run # NoRun /\ RunHolds(run) /\ today \in Days
      /\ archive' = run.tree /\ run' = [run EXCEPT !.step = "list"]
      /\ UNCHANGED <<today, main, admitted, issues, posted, repeated, failures, acts>>
  BY DEF Push, VInv, people, github
<1>2. run' = [step |-> "list", tree |-> run.tree, todo |-> run.todo, section |-> run.section,
              tasks |-> run.tasks, known |-> run.known]
  BY <1>1, RunGoesOn
<1>3. RunHolds(run)'
  BY <1>1, <1>2 DEF RunHolds, Steps
<1>4. Whole(archive, today)'
  BY <1>1 DEF RunHolds
<1>5. Acceptable(main, archive, today)'
  BY <1>1 DEF RunHolds, VInv, Acceptable
<1> QED
  BY <1>1, <1>3, <1>4, <1>5 DEF VInv

(***************************************************************************)
(* The reconciliation's steps.                                              *)
(***************************************************************************)
LEMMA ListTasksStep == VInv /\ ListTasks => VInv'
<1> SUFFICES ASSUME VInv, ListTasks PROVE VInv'
  OBVIOUS
<1> DEFINE todo == {s \in Sections(run.tree, today, KnownMarkers) : s.marker \notin KnownMarkers}
<1>1. /\ run # NoRun /\ RunHolds(run) /\ today \in Days /\ issues \in [Days -> Tasks]
      /\ run' = [run EXCEPT !.step = "issue", !.tasks = issues, !.known = KnownMarkers, !.todo = todo]
      /\ UNCHANGED <<today, archive, main, admitted, issues, posted, repeated, failures, acts>>
  BY DEF ListTasks, VInv, people, github
<1>2. Distinct(todo) /\ \A s \in todo : s.marker \notin posted
  BY <1>1, SectionsAreDistinct DEF RunHolds, Distinct, KnownMarkers
<1> HIDE DEF todo
<1>3. run' = [step |-> "issue", tree |-> run.tree, todo |-> todo, section |-> run.section,
              tasks |-> issues, known |-> KnownMarkers]
  <2>1. PICK s, t, td, section, tasks, known :
           run = [step |-> s, tree |-> t, todo |-> td, section |-> section, tasks |-> tasks,
                  known |-> known]
    BY <1>1 DEF RunHolds
  <2> QED
    BY <1>1, <2>1
<1>4. TasksAgree(run.tasks)'
  BY <1>1, <1>3 DEF TasksAgree
<1>5. Distinct(run.todo)' /\ (\A s \in run.todo : s.marker \notin posted)'
  BY <1>1, <1>2, <1>3 DEF Distinct
<1>6. Whole(run.tree, today)' /\ (archive.activation # Never => run.tree.activation = archive.activation)'
  BY <1>1, <1>3 DEF RunHolds
<1>7. RunHolds(run)'
  BY <1>3, <1>4, <1>5, <1>6 DEF RunHolds, Steps
<1> QED
  BY <1>1, <1>7 DEF VInv

LEMMA OpenedFields ==
  ASSUME NEW t \in Tasks, NEW count \in 0..1, NEW open, open \in BOOLEAN,
         NEW n, n = Opened(t, count, open)
  PROVE  n \in Tasks /\ n.count = count /\ n.open = open
<1>1. PICK N, B : Tasks = [count : N, open : B, high : B] /\ N = 0..1 /\ B = BOOLEAN
  BY DEF Tasks
<1>2. PICK c \in N, o \in B, h \in B : t = [count |-> c, open |-> o, high |-> h]
  BY <1>1
<1>3. n = [count |-> count, open |-> open, high |-> h]
  BY <1>2 DEF Opened
<1>4. count \in N /\ open \in B
  BY <1>1
<1> QED
  BY <1>1, <1>2, <1>3, <1>4

\* The label, and the closing of a task.
LEMMA TaskMarked ==
  ASSUME NEW t \in Tasks, NEW n, n = [t EXCEPT !.high = TRUE]
  PROVE  n \in Tasks /\ n.high /\ n.count = t.count /\ n.open = t.open
<1>1. PICK N, B : Tasks = [count : N, open : B, high : B] /\ N = 0..1 /\ B = BOOLEAN
  BY DEF Tasks
<1>2. PICK c \in N, o \in B, h \in B : t = [count |-> c, open |-> o, high |-> h]
  BY <1>1
<1>3. n = [count |-> c, open |-> o, high |-> TRUE]
  BY <1>2
<1> QED
  BY <1>1, <1>2, <1>3

LEMMA TaskClosed ==
  ASSUME NEW t \in Tasks, NEW n, n = [t EXCEPT !.open = FALSE]
  PROVE  n \in Tasks
<1>1. PICK N, B : Tasks = [count : N, open : B, high : B] /\ N = 0..1 /\ B = BOOLEAN
  BY DEF Tasks
<1>2. PICK c \in N, o \in B, h \in B : t = [count |-> c, open |-> o, high |-> h]
  BY <1>1
<1>3. n = [count |-> c, open |-> FALSE, high |-> h]
  BY <1>2
<1> QED
  BY <1>1, <1>2, <1>3

\* What becomes of the task of a section, in the run's mind and on GitHub.
LEMMA TaskOpened ==
  ASSUME NEW section, RunHolds(run), run.step = "issue", section.day \in Days,
         issues \in [Days -> Tasks], OpenTask(section)
  PROVE  /\ issues' \in [Days -> Tasks]
         /\ \A d \in Days : issues'[d].count = IF d = section.day THEN 1 ELSE issues[d].count
         /\ \A d \in Days : d # section.day => issues'[d].open = issues[d].open
         /\ issues'[section.day].open = Task(section).open
         /\ Task(section) \in Tasks /\ Task(section).count = 1
         /\ section.handled \/ Task(section).open
<1> DEFINE day == section.day
           seen == run.tasks[day]
<1> HIDE DEF seen
<1>1. /\ seen \in Tasks /\ seen.count = issues[day].count
      /\ seen.open = issues[day].open /\ issues[day] \in Tasks
  BY DEF RunHolds, TasksAgree, seen
<1>2. PICK N, B : Tasks = [count : N, open : B, high : B] /\ N = 0..1 /\ B = BOOLEAN
  BY DEF Tasks
<1>3. 0 \in N /\ 1 \in N /\ TRUE \in B /\ FALSE \in B /\ seen.count \in N
  BY <1>1, <1>2
<1>4. PICK new : new = Task(section)
  OBVIOUS
<1>5. new \in Tasks /\ new.count = 1 /\ (section.handled \/ new.open)
  <2>1. CASE seen.count = 0
    <3>1. new = [[count |-> 0, open |-> FALSE, high |-> FALSE] EXCEPT !.count = 1, !.open = TRUE]
      BY <1>4, <2>1 DEF Task, NoTask, seen
    <3>2. new = [count |-> 1, open |-> TRUE, high |-> FALSE]
      BY <3>1
    <3> QED
      BY <1>2, <1>3, <3>2
  <2>2. CASE seen.count # 0 /\ ~seen.open /\ ~section.handled
    <3>1. PICK c \in N, o \in B, h \in B : seen = [count |-> c, open |-> o, high |-> h]
      BY <1>1, <1>2
    <3>2. new = [seen EXCEPT !.open = TRUE]
      BY <1>4, <2>2 DEF Task, Reopened, seen
    <3>3. new = [count |-> c, open |-> TRUE, high |-> h]
      BY <3>1, <3>2
    <3>4. c = 1
      BY <1>2, <2>2, <3>1
    <3> QED
      BY <1>2, <1>3, <3>1, <3>3, <3>4
  <2>3. CASE seen.count # 0 /\ (seen.open \/ section.handled)
    <3>1. new = seen
      BY <1>4, <2>3 DEF Task, seen
    <3> QED
      BY <1>1, <1>2, <1>3, <2>3, <3>1
  <2> QED
    BY <2>1, <2>2, <2>3
<1>6. PICK count : count = IF seen.count = 0 THEN issues[day].count + 1 ELSE issues[day].count
  OBVIOUS
<1>7. count = 1
  BY <1>1, <1>2, <1>3, <1>6
<1>8. PICK opened : opened = Opened(issues[day], count, new.open)
  OBVIOUS
<1>9. opened \in Tasks /\ opened.count = 1 /\ opened.open = new.open
  <2>1. new.open \in BOOLEAN
    BY <1>2, <1>5
  <2> QED
    BY <2>1, <1>1, <1>7, <1>8, OpenedFields
<1>10. issues' = [issues EXCEPT ![day] = opened]
  BY <1>4, <1>6, <1>8 DEF OpenTask, seen
<1> QED
  BY <1>4, <1>5, <1>9, <1>10

LEMMA NextSectionStep == VInv /\ NextSection => VInv'
<1> SUFFICES ASSUME VInv, NextSection PROVE VInv'
  OBVIOUS
<1> PICK section : section = CHOOSE s \in run.todo : TRUE
  OBVIOUS
<1>1. /\ run # NoRun /\ RunHolds(run) /\ today \in Days /\ issues \in [Days -> Tasks]
      /\ run.step = "issue" /\ section \in run.todo /\ OpenTask(section)
      /\ UNCHANGED <<today, archive, main, admitted, posted, repeated, failures, acts>>
  BY DEF NextSection, VInv, people
<1>2. PICK task, step : /\ task = Task(section)
                        /\ step = IF section.escalated THEN "label" ELSE "comment"
  OBVIOUS
<1>3. run' = [step |-> step, tree |-> run.tree, todo |-> run.todo \ {section}, section |-> section,
              tasks |-> [run.tasks EXCEPT ![section.day] = task], known |-> run.known]
  <2>1. PICK s, t, todo, sect, tasks, known :
           run = [step |-> s, tree |-> t, todo |-> todo, section |-> sect, tasks |-> tasks,
                  known |-> known]
    BY <1>1 DEF RunHolds
  <2>2. run' = [run EXCEPT !.section = section, !.todo = @ \ {section},
                           !.tasks[section.day] = task, !.step = step]
    BY <1>2 DEF NextSection
  <2>3. run' = [step |-> step, tree |-> t, todo |-> todo \ {section}, section |-> section,
                tasks |-> [tasks EXCEPT ![section.day] = task], known |-> known]
    BY <2>1, <2>2
  <2> QED
    BY <2>1, <2>3
<1>4. section.day \in Days /\ Distinct(run.todo) /\ TasksAgree(run.tasks)
      /\ \A s \in run.todo : s.marker \notin posted
  BY <1>1 DEF RunHolds, Distinct
<1>5. /\ issues' \in [Days -> Tasks]
      /\ \A d \in Days : issues'[d].count = IF d = section.day THEN 1 ELSE issues[d].count
      /\ \A d \in Days : d # section.day => issues'[d].open = issues[d].open
      /\ issues'[section.day].open = task.open
      /\ task \in Tasks /\ task.count = 1
      /\ section.handled \/ task.open
  BY <1>1, <1>2, <1>4, TaskOpened
<1>6. TasksAgree(run.tasks)'
  BY <1>3, <1>4, <1>5 DEF TasksAgree
<1>7. Distinct(run.todo)' /\ (\A s \in run.todo : s.marker \notin posted)'
  BY <1>1, <1>3, <1>4 DEF Distinct
<1>8. AtWork(run.section, run.tasks, run.todo)'
  <2>1. section.marker \notin posted /\ \A s \in run.todo \ {section} : s.marker # section.marker
    BY <1>1, <1>4 DEF Distinct
  <2>2. run'.tasks[section.day] = task
    BY <1>3, <1>4 DEF TasksAgree
  <2>3. run'.section = section /\ run'.todo = run.todo \ {section} /\ posted' = posted
    BY <1>1, <1>3
  <2> QED
    BY <1>4, <1>5, <2>1, <2>2, <2>3 DEF AtWork
<1>9. Whole(run.tree, today)' /\ (archive.activation # Never => run.tree.activation = archive.activation)'
  BY <1>1, <1>3 DEF RunHolds
<1>10. step \in {"label", "comment"} /\ (step = "comment" => ~section.escalated)
  BY <1>2
<1>11. RunHolds(run)'
  BY <1>3, <1>6, <1>7, <1>8, <1>9, <1>10 DEF RunHolds, Steps
<1> QED
  BY <1>1, <1>5, <1>11 DEF VInv

LEMMA EscalateTaskStep == VInv /\ EscalateTask => VInv'
<1> SUFFICES ASSUME VInv, EscalateTask PROVE VInv'
  OBVIOUS
<1> DEFINE day == run.section.day
<1>1. /\ run # NoRun /\ RunHolds(run) /\ today \in Days /\ issues \in [Days -> Tasks]
      /\ run.step = "label" /\ issues' = [issues EXCEPT ![day].high = TRUE]
      /\ run' = [run EXCEPT !.step = "comment"]
      /\ UNCHANGED <<today, archive, main, admitted, posted, repeated, failures, acts>>
  BY DEF EscalateTask, AddLabel, VInv, people
<1>2. run' = [step |-> "comment", tree |-> run.tree, todo |-> run.todo, section |-> run.section,
              tasks |-> run.tasks, known |-> run.known]
  BY <1>1, RunGoesOn
<1>3. day \in Days /\ TasksAgree(run.tasks) /\ AtWork(run.section, run.tasks, run.todo)
  BY <1>1 DEF RunHolds, AtWork
<1>5. PICK old, new : old = issues[day] /\ new = [old EXCEPT !.high = TRUE]
  OBVIOUS
<1>8. issues' = [issues EXCEPT ![day] = new]
  BY <1>1, <1>5
<1>9. /\ issues' \in [Days -> Tasks] /\ issues'[day].high
      /\ \A d \in Days : issues'[d].count = issues[d].count /\ issues'[d].open = issues[d].open
  <2>1. new \in Tasks /\ new.high /\ new.count = old.count /\ new.open = old.open
    BY <1>1, <1>3, <1>5, TaskMarked
  <2> HIDE DEF day
  <2> QED
    BY <1>1, <1>3, <1>5, <1>8, <2>1
<1>10. TasksAgree(run.tasks)'
  BY <1>2, <1>3, <1>9 DEF TasksAgree
<1>11. AtWork(run.section, run.tasks, run.todo)' /\ issues'[run'.section.day].high
  BY <1>1, <1>2, <1>3, <1>9 DEF AtWork
<1>12. /\ Distinct(run.todo)' /\ (\A s \in run.todo : s.marker \notin posted)'
       /\ Whole(run.tree, today)'
       /\ (archive.activation # Never => run.tree.activation = archive.activation)'
  BY <1>1, <1>2 DEF RunHolds, Distinct
<1>13. RunHolds(run)'
  BY <1>2, <1>10, <1>11, <1>12 DEF RunHolds, Steps
<1> QED
  BY <1>1, <1>9, <1>13 DEF VInv

LEMMA CommentTaskStep == VInv /\ CommentTask => VInv'
<1> SUFFICES ASSUME VInv, CommentTask PROVE VInv'
  OBVIOUS
<1>1. /\ run # NoRun /\ RunHolds(run) /\ today \in Days
      /\ run.step = "comment"
      /\ posted' = posted \cup {run.section.marker}
      /\ repeated' = repeated \cup ({run.section.marker} \cap posted)
      /\ run' = [run EXCEPT !.step = "issue", !.section = NoRun,
                            !.known = @ \cup {run.section.marker}]
      /\ UNCHANGED <<today, archive, main, admitted, issues, failures, acts>>
  BY DEF CommentTask, Post, VInv, people
<1>2. run' = [step |-> "issue", tree |-> run.tree, todo |-> run.todo, section |-> NoRun,
              tasks |-> run.tasks, known |-> run.known \cup {run.section.marker}]
  <2>1. PICK s, t, todo, sect, tasks, known :
           run = [step |-> s, tree |-> t, todo |-> todo, section |-> sect, tasks |-> tasks,
                  known |-> known]
    BY <1>1 DEF RunHolds
  <2> QED
    BY <1>1, <2>1
<1>3. /\ run.section.marker \notin posted /\ \A s \in run.todo : s.marker # run.section.marker
      /\ \A s \in run.todo : s.marker \notin posted
      /\ Distinct(run.todo) /\ TasksAgree(run.tasks)
  BY <1>1 DEF RunHolds, AtWork
<1>4. repeated' = {}
  BY <1>1, <1>3 DEF VInv
<1>5. Distinct(run.todo)' /\ (\A s \in run.todo : s.marker \notin posted)'
  BY <1>1, <1>2, <1>3 DEF Distinct
<1>6. TasksAgree(run.tasks)'
  BY <1>1, <1>2, <1>3 DEF TasksAgree
<1>7. Whole(run.tree, today)' /\ (archive.activation # Never => run.tree.activation = archive.activation)'
  BY <1>1, <1>2 DEF RunHolds
<1>8. RunHolds(run)'
  BY <1>2, <1>5, <1>6, <1>7 DEF RunHolds, Steps
<1> QED
  BY <1>1, <1>4, <1>8 DEF VInv

(***************************************************************************)
(* The end of a run, time and people.                                       *)
(***************************************************************************)
LEMMA EndStep == VInv /\ (FinishRun \/ StepFails) => VInv'
<1> SUFFICES ASSUME VInv, FinishRun \/ StepFails PROVE VInv'
  OBVIOUS
<1>1. /\ run' = NoRun /\ failures' \in 0..MaxFailures
      /\ UNCHANGED <<today, archive, main, admitted, issues, posted, repeated, acts>>
  BY BoundAssumption DEF FinishRun, StepFails, VInv, people, github
<1> QED
  BY <1>1 DEF VInv

LEMMA NextDayStep == VInv /\ NextDay => VInv'
<1> SUFFICES ASSUME VInv, NextDay PROVE VInv'
  OBVIOUS
<1>1. /\ run = NoRun /\ today \in Days /\ today < LastDay /\ today' = today + 1
      /\ UNCHANGED <<archive, main, admitted, issues, posted, repeated, run, failures, acts>>
  BY DEF NextDay, VInv, people, github
<1>2. today' \in Days /\ today <= today'
  BY <1>1, DaysTyped DEF Days
<1>3. Whole(archive, today)'
  BY <1>1, <1>2, WholeLater DEF VInv
<1>4. Acceptable(main, archive, today)'
  <2>1. \A c \in main.checks : Check(c, today')
    <3> SUFFICES ASSUME NEW c \in main.checks PROVE Check(c, today')
      OBVIOUS
    <3>1. Check(c, today)
      BY DEF VInv, Acceptable
    <3>2. c.at \in Nat /\ today \in Nat /\ today' \in Nat
      BY <1>1, <1>2, <3>1, DaysTyped DEF Check, Checks
    <3> QED
      BY <1>2, <3>1, <3>2 DEF Check
  <2> QED
    BY <1>1, <2>1 DEF VInv, Acceptable
<1> QED
  BY <1>1, <1>2, <1>3, <1>4 DEF VInv

LEMMA CloseTaskStep == VInv /\ CloseTask => VInv'
<1> SUFFICES ASSUME VInv, CloseTask PROVE VInv'
  OBVIOUS
<1>1. PICK d \in Days : issues' = [issues EXCEPT ![d].open = FALSE]
  BY DEF CloseTask
<1>2. /\ run = NoRun /\ run' = NoRun /\ acts' \in 0..MaxActs /\ issues \in [Days -> Tasks]
      /\ UNCHANGED <<today, archive, main, admitted, posted, repeated, failures>>
  BY BoundAssumption DEF CloseTask, Act, VInv
<1>4. PICK old, new : old = issues[d] /\ new = [old EXCEPT !.open = FALSE]
  OBVIOUS
<1>7. new \in Tasks
  BY <1>2, <1>4, TaskClosed
<1>8. issues' \in [Days -> Tasks]
  BY <1>1, <1>2, <1>4, <1>7
<1> QED
  BY <1>2, <1>8 DEF VInv

\* People add to main.
LEMMA MainGrows ==
  ASSUME VInv, run = NoRun, NEW checks, NEW approvals, NEW reviews,
         main' = Records(main.activation, checks, approvals, reviews),
         approvals \subseteq Snapshots,
         \A c \in checks \ main.checks : /\ Check(c, today) /\ c.mode = "human"
                                         /\ archive.activation # Never
                                         /\ archive.activation <= c.at,
         acts' \in 0..MaxActs,
         UNCHANGED <<today, archive, admitted, issues, posted, repeated, run, failures>>
  PROVE  VInv'
<1>1. /\ main'.activation = main.activation /\ main'.checks = checks
      /\ main'.approvals = approvals /\ main'.reviews = reviews
  BY DEF Records
<1>2. \A c \in checks : /\ Check(c, today) /\ c.mode = "human"
                        /\ archive.activation # Never /\ archive.activation <= c.at
  BY DEF VInv, Acceptable
<1>3. Acceptable(main', archive, today)
  BY <1>1, <1>2 DEF Acceptable
<1>4. Acceptable(main, archive, today)'
  BY <1>3
<1> QED
  BY <1>4 DEF VInv

LEMMA MainFields ==
  ASSUME Acceptable(main, archive, today), NEW checks, NEW approvals, NEW reviews, NEW n
  PROVE  /\ n = [main EXCEPT !.checks = checks]
               => n = Records(main.activation, checks, main.approvals, main.reviews)
         /\ n = [main EXCEPT !.approvals = approvals]
               => n = Records(main.activation, main.checks, approvals, main.reviews)
         /\ n = [main EXCEPT !.reviews = reviews]
               => n = Records(main.activation, main.checks, main.approvals, reviews)
<1>1. PICK a, c, p, r : main = [activation |-> a, checks |-> c, approvals |-> p, reviews |-> r]
  BY DEF Acceptable, Records
<1>2. main.activation = a /\ main.checks = c /\ main.approvals = p /\ main.reviews = r
  BY <1>1
<1>3. n = [main EXCEPT !.checks = checks]
               => n = [activation |-> a, checks |-> checks, approvals |-> p, reviews |-> r]
  BY <1>1
<1>4. n = [main EXCEPT !.approvals = approvals]
               => n = [activation |-> a, checks |-> c, approvals |-> approvals, reviews |-> r]
  BY <1>1
<1>5. n = [main EXCEPT !.reviews = reviews]
               => n = [activation |-> a, checks |-> c, approvals |-> p, reviews |-> reviews]
  BY <1>1
<1> QED
  BY <1>2, <1>3, <1>4, <1>5 DEF Records

\* One act of a person, between runs.
LEMMA ActTyped ==
  ASSUME VInv, Act, UNCHANGED <<issues, posted, repeated>>, UNCHANGED run
  PROVE  run = NoRun /\ acts' \in 0..MaxActs
BY BoundAssumption DEF VInv, Act

LEMMA ApproveBaselineStep == VInv /\ ApproveBaseline => VInv'
<1> SUFFICES ASSUME VInv, ApproveBaseline PROVE VInv'
  OBVIOUS
<1>1. PICK c \in archive.checks : /\ c.snapshot # NoSnapshot
                                  /\ main' = [main EXCEPT !.approvals = @ \cup {c.snapshot}]
  BY DEF ApproveBaseline
<1>2. /\ run = NoRun /\ acts' \in 0..MaxActs
      /\ UNCHANGED <<today, archive, admitted, issues, posted, repeated, run, failures>>
  BY BoundAssumption DEF ApproveBaseline, Act, VInv, github
<1>3. c.snapshot \in Snapshots
  BY <1>1 DEF VInv, Whole, Check, Checks
<1>4. PICK approvals : approvals = main.approvals \cup {c.snapshot}
  OBVIOUS
<1>5. main' = Records(main.activation, main.checks, approvals, main.reviews)
  BY <1>1, <1>4, MainFields DEF VInv
<1>6. approvals \subseteq Snapshots
  BY <1>3, <1>4 DEF VInv, Acceptable
<1> QED
  BY <1>2, <1>5, <1>6, MainGrows

\* What people record of an obligation.
LEMMA ManualChecked ==
  ASSUME VInv, NEW c \in ManualObligations, NEW status \in {"manual", "failed"},
         NEW failure \in {"none", "access"}, NEW limited \in BOOLEAN,
         status = "manual" => ~limited
  PROVE  LET d == NewCheck(c.source, c.day, today, status, "human", NoSnapshot, failure, limited)
         IN  /\ Check(d, today) /\ d.mode = "human"
             /\ archive.activation # Never /\ archive.activation <= d.at
<1> PICK d : d = NewCheck(c.source, c.day, today, status, "human", NoSnapshot, failure, limited)
  OBVIOUS
<1>1. /\ c \in Checks /\ c.source \in Sources /\ c.day \in Days /\ c.day <= c.at /\ c.at <= today
      /\ c.at \in Nat /\ c.day \in Nat /\ today \in Nat /\ today \in Days
      /\ archive.activation # Never /\ archive.activation <= c.at /\ archive.activation \in Nat
  BY DaysTyped DEF VInv, Whole, Check, Checks, ManualObligations
<1>2. status \in Statuses /\ "human" \in Modes /\ failure \in Failures
  BY Words
<1>3. /\ d \in Checks /\ d.day = c.day /\ d.at = today /\ d.status = status /\ d.mode = "human"
      /\ d.limited = limited
  BY <1>1, <1>2, NewCheckTyped
<1>4. ValidCheck(d)
  BY <1>3 DEF ValidCheck
<1> QED
  BY <1>1, <1>3, <1>4 DEF Check

LEMMA AcknowledgeManualStep == VInv /\ AcknowledgeManual => VInv'
<1> SUFFICES ASSUME VInv, AcknowledgeManual PROVE VInv'
  OBVIOUS
<1>1. PICK c \in ManualObligations : main' = [main EXCEPT !.checks = @ \cup
              {NewCheck(c.source, c.day, today, "manual", "human", NoSnapshot, "none", FALSE)}]
  BY DEF AcknowledgeManual
<1>2. /\ run = NoRun /\ acts' \in 0..MaxActs
      /\ UNCHANGED <<today, archive, admitted, issues, posted, repeated, run, failures>>
  BY BoundAssumption DEF AcknowledgeManual, Act, VInv, github
<1>3. PICK d : d = NewCheck(c.source, c.day, today, "manual", "human", NoSnapshot, "none", FALSE)
  OBVIOUS
<1>4. /\ Check(d, today) /\ d.mode = "human"
      /\ archive.activation # Never /\ archive.activation <= d.at
  BY <1>3, ManualChecked
<1>5. PICK checks : checks = main.checks \cup {d}
  OBVIOUS
<1>6. main' = Records(main.activation, checks, main.approvals, main.reviews)
  BY <1>1, <1>3, <1>5, MainFields DEF VInv
<1>7. main.approvals \subseteq Snapshots
  BY DEF VInv, Acceptable
<1>8. \A e \in checks \ main.checks : e = d
  BY <1>5
<1> QED
  BY <1>2, <1>4, <1>6, <1>7, <1>8, MainGrows

LEMMA RecordManualFailureStep == VInv /\ RecordManualFailure => VInv'
<1> SUFFICES ASSUME VInv, RecordManualFailure PROVE VInv'
  OBVIOUS
<1>1. PICK c \in ManualObligations, limited \in BOOLEAN : main' = [main EXCEPT !.checks = @ \cup
              {NewCheck(c.source, c.day, today, "failed", "human", NoSnapshot, "access", limited)}]
  <2>1. \A tree, s, day, at : AccessLimited(tree, s, day, at, "access") \in BOOLEAN
    BY DEF AccessLimited
  <2> QED
    BY <2>1 DEF RecordManualFailure
<1>2. /\ run = NoRun /\ acts' \in 0..MaxActs
      /\ UNCHANGED <<today, archive, admitted, issues, posted, repeated, run, failures>>
  BY BoundAssumption DEF RecordManualFailure, Act, VInv, github
<1>3. PICK d : d = NewCheck(c.source, c.day, today, "failed", "human", NoSnapshot, "access", limited)
  OBVIOUS
<1>4. /\ Check(d, today) /\ d.mode = "human"
      /\ archive.activation # Never /\ archive.activation <= d.at
  BY <1>3, ManualChecked
<1>5. PICK checks : checks = main.checks \cup {d}
  OBVIOUS
<1>6. main' = Records(main.activation, checks, main.approvals, main.reviews)
  BY <1>1, <1>3, <1>5, MainFields DEF VInv
<1>7. main.approvals \subseteq Snapshots
  BY DEF VInv, Acceptable
<1>8. \A e \in checks \ main.checks : e = d
  BY <1>5
<1> QED
  BY <1>2, <1>4, <1>6, <1>7, <1>8, MainGrows

LEMMA ReviewStep == VInv /\ (QualifyReview \/ AdmitReview) => VInv'
<1>1. VInv /\ QualifyReview => VInv'
  <2> SUFFICES ASSUME VInv, QualifyReview PROVE VInv'
    OBVIOUS
  <2>1. PICK s \in Sources : main' = [main EXCEPT !.reviews = @ \cup {[source |-> s, day |-> today]}]
    BY DEF QualifyReview
  <2>2. /\ run = NoRun /\ acts' \in 0..MaxActs
        /\ UNCHANGED <<today, archive, admitted, issues, posted, repeated, run, failures>>
    BY BoundAssumption DEF QualifyReview, Act, VInv, github
  <2>3. PICK reviews : reviews = main.reviews \cup {[source |-> s, day |-> today]}
    OBVIOUS
  <2>4. main' = Records(main.activation, main.checks, main.approvals, reviews)
    BY <2>1, <2>3, MainFields DEF VInv
  <2>5. main.approvals \subseteq Snapshots
    BY DEF VInv, Acceptable
  <2> QED
    BY <2>2, <2>4, <2>5, MainGrows
<1>2. VInv /\ AdmitReview => VInv'
  BY DEF AdmitReview, VInv, github
<1> QED
  BY <1>1, <1>2

(***************************************************************************)
(* The theorems.                                                            *)
(***************************************************************************)
\* The archive stays whole, whatever fails, and a run does what it believes to do.
THEOREM VerificationInvariant == VerificationSpec => []VInv
<1>1. VInv /\ [VerificationNext]_verificationVars => VInv'
  <2> SUFFICES ASSUME VInv, [VerificationNext]_verificationVars PROVE VInv'
    OBVIOUS
  <2>1. CASE StartVerification
    BY <2>1, StartVerificationStep
  <2>2. CASE StartWatch
    BY <2>2, StartWatchStep
  <2>3. CASE RunVerification
    BY <2>3, RunVerificationStep
  <2>4. CASE Push
    BY <2>4, PushStep
  <2>5. CASE ListTasks
    BY <2>5, ListTasksStep
  <2>6. CASE NextSection
    BY <2>6, NextSectionStep
  <2>7. CASE EscalateTask
    BY <2>7, EscalateTaskStep
  <2>8. CASE CommentTask
    BY <2>8, CommentTaskStep
  <2>9. CASE FinishRun \/ StepFails
    BY <2>9, EndStep
  <2>10. CASE NextDay
    BY <2>10, NextDayStep
  <2>11. CASE CloseTask
    BY <2>11, CloseTaskStep
  <2>12. CASE ApproveBaseline
    BY <2>12, ApproveBaselineStep
  <2>13. CASE AcknowledgeManual
    BY <2>13, AcknowledgeManualStep
  <2>14. CASE RecordManualFailure
    BY <2>14, RecordManualFailureStep
  <2>15. CASE QualifyReview \/ AdmitReview
    BY <2>15, ReviewStep
  <2>16. CASE UNCHANGED verificationVars
    <3>1. UNCHANGED <<today, archive, main, admitted, issues, posted, repeated, run, failures, acts>>
      BY <2>16 DEF verificationVars
    <3>2. RunHolds(run) => RunHolds(run)'
      BY <3>1 DEF RunHolds, TasksAgree, Distinct, AtWork
    <3> QED
      BY <3>1, <3>2 DEF VInv
  <2> QED
    BY <2>1, <2>2, <2>3, <2>4, <2>5, <2>6, <2>7, <2>8, <2>9, <2>10, <2>11, <2>12, <2>13, <2>14,
       <2>15, <2>16 DEF VerificationNext, Workflow, Person
<1> QED
  BY VInit, <1>1, PTL DEF VerificationSpec

\* The records, tasks, runs and counters stay well-formed.
THEOREM VerificationTypeCorrect == VerificationSpec => []VerificationTypeOK
<1>1. VInv => VerificationTypeOK
  <2> SUFFICES ASSUME VInv PROVE VerificationTypeOK
    OBVIOUS
  <2>1. archive.activation \in {Never} \cup Days
    BY DaysTyped DEF VInv, Whole
  <2>2. \A c \in archive.checks \cup main.checks : ValidCheck(c) /\ c.day <= c.at /\ c.at <= today
    BY DEF VInv, Whole, Acceptable, Check
  <2>3. issues \in [Days -> [count : 0..2, open : BOOLEAN, high : BOOLEAN]]
    <3>1. PICK B : B = BOOLEAN
      OBVIOUS
    <3>2. \A t \in [count : 0..1, open : B, high : B] : t \in [count : 0..2, open : B, high : B]
      OBVIOUS
    <3> QED
      BY <3>1, <3>2 DEF VInv, Tasks
  <2>4. run = NoRun \/ run.step \in {"check", "push", "list", "issue", "label", "comment"}
    BY DEF VInv, RunHolds, Steps
  <2> QED
    BY <2>1, <2>2, <2>3, <2>4 DEF VerificationTypeOK, VInv, Whole
<1> QED
  BY VerificationInvariant, <1>1, PTL

\* Of some checks one is the latest.
LEMMA LatestExists ==
  ASSUME NEW checks, checks # {}, checks \subseteq Checks
  PROVE  Latest(checks) \in checks /\ \A c \in checks : Later(Latest(checks), c)
<1>1. \A c \in checks : c.at \in Nat /\ c.at <= LastDay /\ Rank(c) \in 0..3
  BY DaysTyped DEF Checks, Rank
<1> DEFINE order(c) == (LastDay * 4 + 3) - (c.at * 4 + Rank(c))
           T == {order(c) : c \in checks}
<1>2. \A c \in checks : order(c) \in Nat
  BY <1>1, DaysTyped
<1>3. PICK x \in T : \A y \in T : x <= y
  <2>1. T \subseteq Nat /\ T # {}
    BY <1>2
  <2> QED
    BY <2>1, LeastExists
<1>4. PICK last \in checks : x = order(last)
  BY <1>3
<1>5. \A c \in checks : Later(last, c)
  <2> SUFFICES ASSUME NEW c \in checks PROVE Later(last, c)
    OBVIOUS
  <2>1. order(last) <= order(c)
    BY <1>3, <1>4
  <2>2. c.at * 4 + Rank(c) <= last.at * 4 + Rank(last)
    BY <2>1, <1>1, DaysTyped
  <2> QED
    BY <2>2, <1>1 DEF Later
<1> QED
  BY <1>5 DEF Latest

\* The dates of the schedule never go by without a record, and a source that was
\* verified on each of them never reads as stale (run_verification, scheduled_dates,
\* freshness_deadline).
THEOREM ScheduleKept == VerificationSpec => []ScheduleIsKept
<1>1. VInv => HistoryHasNoHole
  BY DEF VInv, Whole, NoHole, HistoryHasNoHole
<1>2. VInv => ScheduleOutpacesStaleness
  <2> SUFFICES ASSUME VInv, NEW s \in Sources,
                      Successes(archive.checks, archive.approvals, s) # {},
                      today <= ElectionDay,
                      Latest(Successes(archive.checks, archive.approvals, s)).at
                         >= LastOf({d \in ScheduledDates(archive.activation, s) : d <= today})
               PROVE  today <= FreshnessDeadline(
                                  Latest(Successes(archive.checks, archive.approvals, s)).at, s, today)
    BY DEF ScheduleOutpacesStaleness
  <2> DEFINE successes == Successes(archive.checks, archive.approvals, s)
             success == Latest(successes).at
             dates == {d \in ScheduledDates(archive.activation, s) : d <= today}
  <2>1. /\ successes \subseteq archive.checks /\ archive.checks \subseteq Checks
        /\ \A c \in archive.checks : archive.activation <= c.at /\ c.at \in Nat
    BY DaysTyped DEF Successes, OfSource, VInv, Whole, Check, Checks
  <2>2. /\ archive.activation \in Collection..ElectionDay /\ archive.activation <= today
        /\ today \in Nat
    BY <2>1, DaysTyped DEF VInv, Whole
  <2>3. success \in Nat /\ archive.activation <= success
    <3>1. Latest(successes) \in successes
      BY <2>1, LatestExists
    <3> QED
      BY <2>1, <3>1
  <2>4. \A d \in dates : d \in Nat /\ d <= today
    BY <2>2, DatesTyped, PolicyTyped
  <2>5. dates # {}
    BY <2>2, DatesTyped
  <2>6. \A d \in dates : d <= LastOf(dates) /\ LastOf(dates) \in dates
    <3> HIDE DEF dates
    <3> QED
      BY <2>2, <2>4, <2>5, LastOfDays
  <2> HIDE DEF success
  <2>7. \A d \in dates : ~(success < d)
    <3>1. success >= LastOf(dates)
      BY DEF success
    <3> HIDE DEF dates
    <3> QED
      BY <3>1, <2>3, <2>4, <2>6
  <2> QED
    BY <2>2, <2>3, <2>7, StaleAfterDate DEF success
<1> QED
  BY VerificationInvariant, <1>1, <1>2, PTL DEF ScheduleIsKept

\* However often jobs fail and are repeated, an observation is commented once, on the
\* only task of its day, open while it needs somebody and labelled when it is the third
\* failing day (reconcile_tasks).
THEOREM ObservationsPostedOnce == VerificationSpec => PostedOnceAndVisible
<1> DEFINE Once == /\ repeated' = {}
                   /\ \A d \in Days : issues'[d].count <= 1
                   /\ \A marker \in posted' \ posted :
                         LET task == issues'[run.section.day]
                         IN  /\ task.count = 1
                             /\ run.section.handled \/ task.open
                             /\ run.section.escalated => task.high
<1>1. VInv /\ VInv' /\ [VerificationNext]_verificationVars => [Once]_verificationVars
  <2> SUFFICES ASSUME VInv, VInv', VerificationNext PROVE Once
    OBVIOUS
  <2>1. repeated' = {} /\ \A d \in Days : issues'[d].count <= 1
    BY DEF VInv, Tasks
  <2>2. CASE CommentTask
    <3>1. /\ RunHolds(run) /\ run.step = "comment" /\ issues' = issues
      BY <2>2 DEF CommentTask, VInv
    <3>2. TasksAgree(run.tasks) /\ AtWork(run.section, run.tasks, run.todo)
          /\ (run.section.escalated => issues[run.section.day].high)
      BY <3>1 DEF RunHolds
    <3> QED
      BY <2>1, <3>1, <3>2 DEF TasksAgree, AtWork
  <2>3. CASE ~CommentTask
    <3>1. posted' = posted
      BY <2>3 DEF VerificationNext, Workflow, Person, StartVerification, StartWatch, RunVerification, Push,
           ListTasks, NextSection, EscalateTask, FinishRun, StepFails, NextDay, CloseTask,
           ApproveBaseline, AcknowledgeManual, RecordManualFailure, QualifyReview, AdmitReview,
           Begin, github
    <3> QED
      BY <2>1, <3>1
  <2> QED
    BY <2>2, <2>3
<1> QED
  BY VerificationInvariant, <1>1, PTL DEF VerificationSpec, PostedOnceAndVisible
===============================================================================
