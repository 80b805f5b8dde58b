---------------------------- MODULE OperationsProofs ----------------------------
(***************************************************************************)
(* Proofs about the operations that run on a clock.                         *)
(*                                                                          *)
(* The calendar: what its job plans is what still has to be done, although  *)
(* people edit and copy the issues and merge artifacts in the meantime, so  *)
(* that every issue is opened once and nothing is escalated twice or in     *)
(* vain.  The wait: the alarm that bounds the decoding of a report never    *)
(* reaches the caller, and a confirmation comes from one deployment.  The   *)
(* link check: what an alert names was gone twice.                          *)
(***************************************************************************)
EXTENDS ProductionWait, CalendarTracking, LinkRot, FiniteSetTheorems, SequenceTheorems, TLAPS

(***************************************************************************)
(* The calendar's inductive invariant.                                      *)
(***************************************************************************)
At(m, i) == trackers[m][i]

\* An issue that lost neither sign still shows one of them.
LossIsSeen ==
    \A m \in Calendar : \A i \in DOMAIN trackers[m] :
        ~At(m, i).lost => At(m, i).marker \/ At(m, i).titled

\* Of the issues the calendar opened for a milestone all but one lost both signs.
OneStands ==
    \A m \in Calendar : \A i, j \in DOMAIN trackers[m] :
        At(m, i).opened /\ At(m, j).opened /\ ~At(m, i).lost /\ ~At(m, j).lost => i = j

\* What is still to be opened was not opened, or is lost.
PlannedAreLost ==
    /\ job.plan \in SUBSET Calendar
    /\ \A m \in job.plan : \A i \in DOMAIN trackers[m] : At(m, i).opened => At(m, i).lost

\* What was merged before today is in the job's checkout.
CheckoutIsCurrent ==
    /\ job.main \subseteq landed
    /\ \A a \in landed : a.merged < date => a \in job.main

\* An escalation that is still to be made: its stage is reached, its artifact is
\* missing and it was not made before.
Outstanding(e) ==
    /\ e \in Escalations
    /\ e.issue \in DOMAIN trackers[e.of]
    /\ e.stage \in ReachedStages(e.of, date)
    /\ ~ArtifactExists(e.of, job.main)
    /\ At(e.of, e.issue).comments[e.stage] = 0

PlanHolds ==
    /\ CheckoutIsCurrent
    /\ job.step = "create" => PlannedAreLost
    /\ job.step # "create" => \A e \in job.todo : Outstanding(e)
    /\ job.step = "comment" =>
          \E e \in job.plan :
             /\ job.plan = {e} /\ e \notin job.todo
             /\ Outstanding(e) /\ e.stage \in At(e.of, e.issue).labels

CalendarInv ==
    /\ CalendarTypeOK
    /\ LossIsSeen
    /\ OneStands
    /\ NeverEscalatedInVain
    /\ job # NoJob => PlanHolds

(***************************************************************************)
(* How the issues change: one is appended, or one is replaced.              *)
(***************************************************************************)
LEMMA IssueTyped == ASSUME NEW opened \in BOOLEAN
                    PROVE  /\ Issue(opened) \in Issued
                           /\ Issue(opened).marker /\ Issue(opened).titled
                           /\ ~Issue(opened).lost /\ Issue(opened).opened = opened
                           /\ \A s \in Stages : Issue(opened).comments[s] = 0
BY DEF Issue, Issued, Stages

LEMMA Appending ==
    ASSUME NEW m \in Calendar, NEW new \in Issued, trackers \in [Calendar -> Seq(Issued)],
           trackers' = [trackers EXCEPT ![m] = Append(@, new)]
    PROVE  /\ trackers' \in [Calendar -> Seq(Issued)]
           /\ \A n \in Calendar : \A i \in DOMAIN trackers[n] :
                 i \in DOMAIN trackers'[n] /\ At(n, i)' = At(n, i)
           /\ \A n \in Calendar : \A i \in DOMAIN trackers'[n] :
                 i \in DOMAIN trackers[n] \/ (n = m /\ i = Len(trackers[m]) + 1 /\ At(n, i)' = new)
<1>1. trackers[m] \in Seq(Issued) /\ Len(trackers[m]) \in Nat /\ DOMAIN trackers[m] = 1..Len(trackers[m])
  BY LenProperties
<1>2. /\ Append(trackers[m], new) \in Seq(Issued)
      /\ DOMAIN Append(trackers[m], new) = 1..(Len(trackers[m]) + 1)
      /\ \A i \in 1..Len(trackers[m]) : Append(trackers[m], new)[i] = trackers[m][i]
      /\ Append(trackers[m], new)[Len(trackers[m]) + 1] = new
  BY <1>1, AppendProperties, LenProperties
<1>3. trackers'[m] = Append(trackers[m], new)
      /\ \A n \in Calendar \ {m} : trackers'[n] = trackers[n]
  OBVIOUS
<1>4. trackers' \in [Calendar -> Seq(Issued)]
  BY <1>2
<1>5. ASSUME NEW n \in Calendar, NEW i \in DOMAIN trackers[n]
      PROVE  i \in DOMAIN trackers'[n] /\ At(n, i)' = At(n, i)
  BY <1>1, <1>2, <1>3 DEF At
<1>6. ASSUME NEW n \in Calendar, NEW i \in DOMAIN trackers'[n]
      PROVE  i \in DOMAIN trackers[n] \/ (n = m /\ i = Len(trackers[m]) + 1 /\ At(n, i)' = new)
  <2>1. CASE n # m
    BY <1>3, <2>1
  <2>2. CASE n = m
    <3>1. i \in 1..Len(trackers[m]) \/ i = Len(trackers[m]) + 1
      BY <1>1, <1>2, <1>3, <2>2
    <3> QED
      BY <1>1, <1>2, <1>3, <2>2, <3>1 DEF At
  <2> QED
    BY <2>1, <2>2
<1> QED
  BY <1>4, <1>5, <1>6

LEMMA Replacing ==
    ASSUME NEW m \in Calendar, NEW i \in DOMAIN trackers[m], NEW new \in Issued,
           trackers \in [Calendar -> Seq(Issued)],
           trackers' = [trackers EXCEPT ![m] = [trackers[m] EXCEPT ![i] = new]]
    PROVE  /\ trackers' \in [Calendar -> Seq(Issued)]
           /\ \A n \in Calendar : DOMAIN trackers'[n] = DOMAIN trackers[n]
           /\ \A n \in Calendar : \A j \in DOMAIN trackers[n] :
                 At(n, j)' = IF n = m /\ j = i THEN new ELSE At(n, j)
<1>1. /\ [trackers[m] EXCEPT ![i] = new] \in Seq(Issued)
      /\ DOMAIN [trackers[m] EXCEPT ![i] = new] = DOMAIN trackers[m]
  <2>1. trackers[m] \in Seq(Issued) /\ i \in 1..Len(trackers[m])
    BY LenProperties
  <2>2. [trackers[m] EXCEPT ![i] = new] \in Seq(Issued)
    BY <2>1, ExceptSeq
  <2> QED
    BY <2>2
<1>2. /\ trackers'[m] = [trackers[m] EXCEPT ![i] = new]
      /\ \A n \in Calendar \ {m} : trackers'[n] = trackers[n]
  OBVIOUS
<1>3. trackers' \in [Calendar -> Seq(Issued)]
  BY <1>1
<1>4. \A n \in Calendar : DOMAIN trackers'[n] = DOMAIN trackers[n]
  BY <1>1, <1>2
<1>5. ASSUME NEW n \in Calendar, NEW j \in DOMAIN trackers[n]
      PROVE  At(n, j)' = IF n = m /\ j = i THEN new ELSE At(n, j)
  BY <1>2 DEF At
<1> QED
  BY <1>3, <1>4, <1>5

LEMMA AtTyped == CalendarTypeOK => \A m \in Calendar : \A i \in DOMAIN trackers[m] : At(m, i) \in Issued
BY LenProperties DEF CalendarTypeOK, At

(***************************************************************************)
(* What any step does to the issues: none disappears, what was opened stays *)
(* opened, what was lost stays lost; a new one shows both signs, and the    *)
(* calendar opens one only for a milestone it planned.                      *)
(***************************************************************************)
Kept(old, new) ==
    /\ new.opened = old.opened
    /\ old.lost => new.lost
    /\ (~old.lost => old.marker \/ old.titled) => (~new.lost => new.marker \/ new.titled)
    /\ old.labels \subseteq new.labels

Fresh(m, i) ==
    /\ i = Len(trackers[m]) + 1
    /\ At(m, i)'.marker /\ At(m, i)'.titled /\ ~At(m, i)'.lost
    /\ \A s \in Stages : At(m, i)'.comments[s] = 0
    /\ At(m, i)'.opened =>
          job # NoJob /\ job.step = "create" /\ m \in job.plan /\ job' = [job EXCEPT !.plan = @ \ {m}]

Grows ==
    /\ trackers' \in [Calendar -> Seq(Issued)]
    /\ \A n \in Calendar : \A i \in DOMAIN trackers[n] :
          i \in DOMAIN trackers'[n] /\ Kept(At(n, i), At(n, i)')
    /\ \A n \in Calendar : \A i \in DOMAIN trackers'[n] : i \in DOMAIN trackers[n] \/ Fresh(n, i)

CommentsKept ==
    \A n \in Calendar : \A i \in DOMAIN trackers[n] : At(n, i)'.comments = At(n, i).comments

LEMMA StillGrows == CalendarTypeOK /\ trackers' = trackers => Grows /\ CommentsKept
BY DEF CalendarTypeOK, Grows, Kept, CommentsKept, At

LEMMA AppendedGrows ==
    ASSUME CalendarTypeOK, NEW m \in Calendar, NEW opened \in BOOLEAN,
           trackers' = [trackers EXCEPT ![m] = Append(@, Issue(opened))],
           opened => /\ job # NoJob /\ job.step = "create" /\ m \in job.plan
                     /\ job' = [job EXCEPT !.plan = @ \ {m}]
    PROVE  Grows /\ CommentsKept
<1> DEFINE new == Issue(opened)
<1>1. /\ new \in Issued
      /\ new.marker /\ new.titled /\ ~new.lost /\ new.opened = opened
      /\ \A s \in Stages : new.comments[s] = 0
  BY IssueTyped
<1> HIDE DEF new
<1>2. /\ trackers' \in [Calendar -> Seq(Issued)]
      /\ \A n \in Calendar : \A i \in DOMAIN trackers[n] :
            i \in DOMAIN trackers'[n] /\ At(n, i)' = At(n, i)
      /\ \A n \in Calendar : \A i \in DOMAIN trackers'[n] :
            i \in DOMAIN trackers[n] \/ (n = m /\ i = Len(trackers[m]) + 1 /\ At(n, i)' = new)
  <2>1. trackers' = [trackers EXCEPT ![m] = Append(@, new)]
    BY DEF new
  <2> QED
    BY <1>1, <2>1, Appending DEF CalendarTypeOK
<1>3. ASSUME NEW n \in Calendar, NEW i \in DOMAIN trackers[n]
      PROVE  i \in DOMAIN trackers'[n] /\ Kept(At(n, i), At(n, i)')
  BY <1>2 DEF Kept
<1>4. ASSUME NEW n \in Calendar, NEW i \in DOMAIN trackers'[n]
      PROVE  i \in DOMAIN trackers[n] \/ Fresh(n, i)
  <2>1. CASE n = m /\ i = Len(trackers[m]) + 1 /\ At(n, i)' = new
    BY <1>1, <2>1 DEF Fresh
  <2> QED
    BY <1>2, <2>1
<1> QED
  BY <1>2, <1>3, <1>4 DEF Grows, CommentsKept

Replaced(m, i, new) == trackers' = [trackers EXCEPT ![m] = [trackers[m] EXCEPT ![i] = new]]

LEMMA ReplacedGrows ==
    ASSUME CalendarTypeOK, NEW m \in Calendar, NEW i \in DOMAIN trackers[m], NEW new \in Issued,
           Replaced(m, i, new),
           Kept(At(m, i), new)
    PROVE  /\ Grows /\ At(m, i)' = new
           /\ \A n \in Calendar : \A j \in DOMAIN trackers[n] :
                 At(n, j)' = IF n = m /\ j = i THEN new ELSE At(n, j)
<1>1. /\ trackers' \in [Calendar -> Seq(Issued)]
      /\ \A n \in Calendar : DOMAIN trackers'[n] = DOMAIN trackers[n]
      /\ \A n \in Calendar : \A j \in DOMAIN trackers[n] :
            At(n, j)' = IF n = m /\ j = i THEN new ELSE At(n, j)
  <2>1. trackers \in [Calendar -> Seq(Issued)]
    BY DEF CalendarTypeOK
  <2> QED
    BY <2>1, Replacing DEF At, Replaced
<1>2. ASSUME NEW n \in Calendar, NEW j \in DOMAIN trackers[n]
      PROVE  Kept(At(n, j), At(n, j)')
  <2>1. CASE n = m /\ j = i
    BY <1>1, <2>1
  <2>2. CASE ~(n = m /\ j = i)
    <3>1. At(n, j)' = At(n, j)
      BY <1>1, <2>2
    <3> QED
      BY <3>1 DEF Kept
  <2> QED
    BY <2>1, <2>2
<1> QED
  BY <1>1, <1>2 DEF Grows

LEMMA CreateGrows == CalendarTypeOK /\ CreateIssue /\ job.plan \in SUBSET Calendar => Grows /\ CommentsKept
<1> SUFFICES ASSUME CalendarTypeOK, CreateIssue, job.plan \in SUBSET Calendar PROVE Grows /\ CommentsKept
  OBVIOUS
<1>1. PICK m \in job.plan :
         /\ trackers' = [trackers EXCEPT ![m] = Append(@, Issue(TRUE))]
         /\ job' = [job EXCEPT !.plan = @ \ {m}]
  BY DEF CreateIssue
<1>2. m \in Calendar /\ job # NoJob /\ job.step = "create"
  BY DEF CreateIssue
<1> QED
  BY <1>1, <1>2, AppendedGrows

LEMMA CopyGrows == CalendarTypeOK /\ CopyIssue => Grows /\ CommentsKept
<1> SUFFICES ASSUME CalendarTypeOK, CopyIssue PROVE Grows /\ CommentsKept
  OBVIOUS
<1>1. PICK m \in Calendar : trackers' = [trackers EXCEPT ![m] = Append(@, Issue(FALSE))]
  BY DEF CopyIssue
<1> QED
  BY <1>1, AppendedGrows

LEMMA EditGrows == CalendarTypeOK /\ EditIssue => Grows /\ CommentsKept
<1> SUFFICES ASSUME CalendarTypeOK, EditIssue PROVE Grows /\ CommentsKept
  OBVIOUS
<1>1. PICK m \in Calendar : \E i \in DOMAIN trackers[m] :
         \E marker \in BOOLEAN, titled \in {At(m, i).titled, FALSE} :
            trackers' = [trackers EXCEPT ![m][i] = Edited(At(m, i), marker, titled)]
  BY DEF EditIssue, At
<1>9. PICK i \in DOMAIN trackers[m], marker \in BOOLEAN, titled \in BOOLEAN :
         trackers' = [trackers EXCEPT ![m][i] = Edited(At(m, i), marker, titled)]
  <2>1. \A i \in DOMAIN trackers[m] : At(m, i).titled \in BOOLEAN
    BY AtTyped DEF Issued
  <2> QED
    BY <1>1, <2>1
<1>2. At(m, i) \in Issued
  BY AtTyped
<1>3. Edited(At(m, i), marker, titled) \in Issued
  BY <1>2 DEF Issued, Edited
<1>4. PICK new \in Issued : new = Edited(At(m, i), marker, titled)
  BY <1>3
<1>6. /\ new.comments = At(m, i).comments
      /\ new.opened = At(m, i).opened /\ new.labels = At(m, i).labels
      /\ new.marker = marker /\ new.titled = titled
      /\ new.lost = (At(m, i).lost \/ (~marker /\ ~titled))
  BY <1>2, <1>4 DEF Issued, Edited
<1>8. Replaced(m, i, new)
  BY <1>4, <1>9 DEF Replaced
<1>5. Kept(At(m, i), new)
  BY <1>6 DEF Kept
<1>7. /\ Grows
      /\ \A n \in Calendar : \A j \in DOMAIN trackers[n] :
            At(n, j)' = IF n = m /\ j = i THEN new ELSE At(n, j)
  BY <1>8, <1>5, ReplacedGrows
<1> QED
  BY <1>6, <1>7 DEF CommentsKept

LEMMA LabelGrows ==
    CalendarInv /\ EscalationLabel =>
        /\ Grows /\ CommentsKept
        /\ \E e \in job.todo : /\ e.stage \in At(e.of, e.issue)'.labels
                             /\ job' = [job EXCEPT !.step = "comment", !.plan = {e}, !.todo = @ \ {e}]
<1> SUFFICES ASSUME CalendarInv, EscalationLabel
             PROVE  /\ Grows /\ CommentsKept
                    /\ \E e \in job.todo :
                          /\ e.stage \in At(e.of, e.issue)'.labels
                          /\ job' = [job EXCEPT !.step = "comment", !.plan = {e}, !.todo = @ \ {e}]
  OBVIOUS
<1>1. PICK e \in job.todo :
         /\ trackers' = [trackers EXCEPT ![e.of][e.issue].labels = @ \cup {e.stage}]
         /\ job' = [job EXCEPT !.step = "comment", !.plan = {e}, !.todo = @ \ {e}]
  BY DEF EscalationLabel, Foremost
<1>2. /\ CalendarTypeOK
      /\ e \in Escalations /\ e.issue \in DOMAIN trackers[e.of]
  BY DEF CalendarInv, PlanHolds, EscalationLabel, Outstanding
<1>3. e.of \in Calendar /\ e.stage \in Stages
  BY <1>2 DEF Escalations
<1>4. PICK m \in Calendar, i \in DOMAIN trackers[e.of] : m = e.of /\ i = e.issue
  BY <1>2, <1>3
<1>5. At(m, i) \in Issued
  BY <1>2, <1>4, AtTyped
<1>6. PICK new \in Issued : new = [At(m, i) EXCEPT !.labels = @ \cup {e.stage}]
  BY <1>3, <1>5 DEF Issued
<1>7. /\ Kept(At(m, i), new) /\ new.comments = At(m, i).comments /\ e.stage \in new.labels
  BY <1>5, <1>6 DEF Issued, Kept
<1>8. Replaced(m, i, new)
  BY <1>1, <1>4, <1>6 DEF Replaced, At
<1>9. /\ Grows /\ At(m, i)' = new
      /\ \A n \in Calendar : \A j \in DOMAIN trackers[n] :
            At(n, j)' = IF n = m /\ j = i THEN new ELSE At(n, j)
  BY <1>2, <1>4, <1>7, <1>8, ReplacedGrows
<1>10. CommentsKept
  BY <1>7, <1>9 DEF CommentsKept
<1>11. e.stage \in At(e.of, e.issue)'.labels
  BY <1>4, <1>7, <1>9 DEF At
<1> QED
  BY <1>1, <1>9, <1>10, <1>11

LEMMA CommentGrows ==
    CalendarInv /\ EscalationComment =>
        /\ Grows
        /\ \E e \in job.plan :
              /\ Outstanding(e) /\ e.stage \in At(e.of, e.issue).labels /\ e \notin job.todo
              /\ \A n \in Calendar : \A j \in DOMAIN trackers[n], s \in Stages :
                    At(n, j)'.comments[s] =
                        IF n = e.of /\ j = e.issue /\ s = e.stage THEN 1 ELSE At(n, j).comments[s]
<1> DEFINE Posted(e) ==
              \A n \in Calendar : \A j \in DOMAIN trackers[n], s \in Stages :
                 At(n, j)'.comments[s] =
                     IF n = e.of /\ j = e.issue /\ s = e.stage THEN 1 ELSE At(n, j).comments[s]
<1> SUFFICES ASSUME CalendarInv, EscalationComment
             PROVE  Grows /\ \E e \in job.plan : /\ Outstanding(e) /\ e.stage \in At(e.of, e.issue).labels
                                               /\ e \notin job.todo /\ Posted(e)
  OBVIOUS
<1>1. PICK e \in job.plan :
         /\ job.plan = {e} /\ e \notin job.todo
         /\ Outstanding(e) /\ e.stage \in At(e.of, e.issue).labels
  BY DEF CalendarInv, PlanHolds, EscalationComment
<1>2. trackers' = [trackers EXCEPT ![e.of][e.issue].comments[e.stage] = @ + 1]
  BY <1>1 DEF EscalationComment
<1>3. /\ CalendarTypeOK
      /\ e \in Escalations /\ e.issue \in DOMAIN trackers[e.of]
      /\ At(e.of, e.issue).comments[e.stage] = 0
  BY <1>1 DEF CalendarInv, Outstanding
<1>4. e.of \in Calendar /\ e.stage \in Stages
  BY <1>3 DEF Escalations
<1>5. PICK m \in Calendar, i \in DOMAIN trackers[e.of] : m = e.of /\ i = e.issue
  BY <1>3, <1>4
<1>6. At(m, i) \in Issued
  BY <1>3, <1>5, AtTyped
<1>7. PICK new \in Issued : new = [At(m, i) EXCEPT !.comments[e.stage] = 1]
  BY <1>4, <1>6 DEF Issued
<1>8. /\ Kept(At(m, i), new)
      /\ \A s \in Stages : new.comments[s] = IF s = e.stage THEN 1 ELSE At(m, i).comments[s]
  BY <1>4, <1>6, <1>7 DEF Issued, Kept
<1>9. Replaced(m, i, new)
  BY <1>2, <1>3, <1>5, <1>7 DEF Replaced, At
<1>10. /\ Grows
       /\ \A n \in Calendar : \A j \in DOMAIN trackers[n] :
             At(n, j)' = IF n = m /\ j = i THEN new ELSE At(n, j)
  BY <1>3, <1>5, <1>8, <1>9, ReplacedGrows
<1>11. Posted(e)
  BY <1>5, <1>8, <1>10
<1> QED
  BY <1>1, <1>10, <1>11

LEMMA NextGrows == CalendarInv /\ [CalendarNext]_calendarVars => Grows /\ (CommentsKept \/ EscalationComment)
<1> SUFFICES ASSUME CalendarInv, [CalendarNext]_calendarVars PROVE Grows /\ (CommentsKept \/ EscalationComment)
  OBVIOUS
<1>1. CalendarTypeOK
  BY DEF CalendarInv
<1>2. CASE CreateIssue
  BY <1>1, <1>2, CreateGrows DEF CalendarInv, PlanHolds, PlannedAreLost, CreateIssue
<1>3. CASE CopyIssue \/ EditIssue
  BY <1>1, <1>3, CopyGrows, EditGrows
<1>4. CASE EscalationLabel \/ EscalationComment
  BY <1>4, LabelGrows, CommentGrows
<1>5. CASE trackers' = trackers
  BY <1>1, <1>5, StillGrows
<1> QED
  BY <1>2, <1>3, <1>4, <1>5 DEF CalendarNext, Upkeep, StartTracking, StartArtifactWatch, FinishWatch,
     CallFails, JobCancelled, NextDate, LandArtifact, calendarVars

(***************************************************************************)
(* Days, artifacts and the job.                                             *)
(***************************************************************************)
LEMMA DaysPass ==
    CalendarTypeOK /\ [CalendarNext]_calendarVars =>
        /\ date' \in 1..LastDate /\ date \in Nat /\ date <= date'
        /\ date' # date => job = NoJob /\ job' = NoJob
        /\ landed \subseteq landed' /\ landed' \subseteq Landings
        /\ \A a \in landed' : a.at <= a.merged /\ a.merged <= date' /\ a.merged \in Nat
        /\ \A a \in landed' \ landed : a.merged = date
<1> SUFFICES ASSUME CalendarTypeOK, [CalendarNext]_calendarVars
             PROVE  /\ date' \in 1..LastDate /\ date \in Nat /\ date <= date'
                    /\ date' # date => job = NoJob /\ job' = NoJob
                    /\ landed \subseteq landed' /\ landed' \subseteq Landings
                    /\ \A a \in landed' : a.at <= a.merged /\ a.merged <= date' /\ a.merged \in Nat
                    /\ \A a \in landed' \ landed : a.merged = date
  OBVIOUS
<1>1. LastDate \in Nat /\ date \in 1..LastDate /\ date \in Nat
  BY CalendarAssumption DEF CalendarTypeOK, CalendarHolds
<1>2. \A a \in landed : a.merged \in Nat /\ a.at \in Nat
  BY <1>1 DEF CalendarTypeOK, Landings
<1>3. CASE LandArtifact
  <2>1. PICK a \in Artifacts, at \in 1..date :
           landed' = landed \cup {[kind |-> a.kind, authority |-> a.authority, title |-> a.title,
                                   at |-> at, merged |-> date]}
    BY <1>3 DEF LandArtifact
  <2>2. PICK new : new = [kind |-> a.kind, authority |-> a.authority, title |-> a.title,
                          at |-> at, merged |-> date]
    OBVIOUS
  <2>3. new \in Landings /\ new.at <= new.merged /\ new.merged = date
    BY <1>1, <2>2 DEF Landings
  <2>4. date' = date
    BY <1>3 DEF LandArtifact
  <2> QED
    BY <1>1, <1>2, <2>1, <2>2, <2>3, <2>4 DEF CalendarTypeOK
<1>4. CASE NextDate
  <2>1. date' = date + 1 /\ date < LastDate /\ landed' = landed /\ job = NoJob /\ job' = NoJob
    BY <1>4 DEF NextDate
  <2> QED
    BY <1>1, <1>2, <2>1 DEF CalendarTypeOK
<1>5. CASE date' = date /\ landed' = landed
  BY <1>1, <1>2, <1>5 DEF CalendarTypeOK
<1> QED
  BY <1>3, <1>4, <1>5 DEF CalendarNext, Upkeep, StartTracking, CreateIssue, StartArtifactWatch,
     EscalationLabel, EscalationComment, FinishWatch, CallFails, JobCancelled, EditIssue,
     CopyIssue, calendarVars

Jobs == [step : {"create", "escalate", "comment"}, plan : (SUBSET Calendar) \cup (SUBSET Escalations),
         main : SUBSET Landings, todo : SUBSET Escalations]

LEMMA EscalationsArePlanned ==
    ASSUME CalendarTypeOK, NEW artifacts, NEW e \in PlanEscalations(date, artifacts)
    PROVE  /\ e \in Escalations /\ e.issue \in DOMAIN trackers[e.of]
           /\ e.stage \in ReachedStages(e.of, date)
           /\ ~ArtifactExists(e.of, artifacts)
           /\ At(e.of, e.issue).comments[e.stage] = 0
<1>1. PICK m \in MissingArtifacts(date, artifacts) :
         \E i \in TrackedIssueNumbers(m) :
            \E s \in ReachedStages(m, date) \ ReadEscalationMarkers(m, i) : e = Escalation(m, i, s)
  BY DEF PlanEscalations
<1>9. PICK i \in TrackedIssueNumbers(m) :
         \E s \in ReachedStages(m, date) \ ReadEscalationMarkers(m, i) : e = Escalation(m, i, s)
  BY <1>1
<1>2. PICK s \in ReachedStages(m, date) \ ReadEscalationMarkers(m, i) : e = Escalation(m, i, s)
  BY <1>9
<1>3. m \in Calendar /\ ~ArtifactExists(m, artifacts)
  BY DEF MissingArtifacts
<1>4. i \in DOMAIN trackers[m] /\ i \in Nat
  BY <1>3, LenProperties DEF TrackedIssueNumbers, CalendarTypeOK
<1>5. s \in Stages /\ s \in ReachedStages(m, date)
  BY DEF ReachedStages
<1>6. At(m, i) \in Issued
  BY <1>3, <1>4, AtTyped
<1>7. At(m, i).comments[s] = 0
  BY <1>5, <1>6 DEF ReadEscalationMarkers, Issued, At
<1>8. e = [of |-> m, issue |-> i, stage |-> s]
  BY <1>2 DEF Escalation
<1> QED
  BY <1>3, <1>4, <1>5, <1>7, <1>8 DEF Escalations

LEMMA TypeStep == CalendarInv /\ [CalendarNext]_calendarVars => CalendarTypeOK'
<1> SUFFICES ASSUME CalendarInv, [CalendarNext]_calendarVars PROVE CalendarTypeOK'
  OBVIOUS
<1>1. CalendarTypeOK /\ Grows
  BY NextGrows DEF CalendarInv
<1>2. outages' \in 0..MaxOutages /\ edits' \in 0..MaxEdits
  <2>1. /\ outages' = outages \/ (outages < MaxOutages /\ outages' = outages + 1)
        /\ edits' = edits \/ (edits < MaxEdits /\ edits' = edits + 1)
    BY DEF CalendarNext, Upkeep, StartTracking, CreateIssue, StartArtifactWatch, EscalationLabel,
       EscalationComment, FinishWatch, CallFails, JobCancelled, NextDate, EditIssue, CopyIssue,
       LandArtifact, calendarVars, Outage, Edit
  <2>2. outages \in 0..MaxOutages /\ edits \in 0..MaxEdits /\ MaxOutages \in Nat /\ MaxEdits \in Nat
    BY <1>1, CalendarAssumption DEF CalendarTypeOK, CalendarHolds
  <2> QED
    BY <2>1, <2>2
<1>3. job' = NoJob \/ job' \in Jobs
  <2>1. job = NoJob \/ job \in Jobs
    BY <1>1 DEF CalendarTypeOK, Jobs
  <2>2. CASE StartTracking
    <3>1. PICK utc : job' = [step |-> "create", plan |-> PlanIssues(utc), main |-> landed, todo |-> {}]
      BY <2>2 DEF StartTracking
    <3>2. PlanIssues(utc) \in SUBSET Calendar /\ landed \in SUBSET Landings
      BY <1>1 DEF PlanIssues, DueMilestones, CalendarTypeOK
    <3> QED
      BY <3>1, <3>2 DEF Jobs
  <2>3. CASE CreateIssue
    <3>1. PICK m : job' = [job EXCEPT !.plan = @ \ {m}]
      BY <2>3 DEF CreateIssue
    <3>2. job \in Jobs
      BY <2>1, <2>3 DEF CreateIssue
    <3> QED
      BY <3>1, <3>2 DEF Jobs
  <2>4. CASE StartArtifactWatch
    <3>1. job \in Jobs /\ job' = [job EXCEPT !.step = "escalate", !.todo = PlanEscalations(date, job.main)]
      BY <2>1, <2>4 DEF StartArtifactWatch
    <3>2. PlanEscalations(date, job.main) \in SUBSET Escalations
      BY <1>1, EscalationsArePlanned
    <3> QED
      BY <3>1, <3>2 DEF Jobs
  <2>5. CASE EscalationLabel
    <3>1. PICK e \in job.todo : job' = [job EXCEPT !.step = "comment", !.plan = {e}, !.todo = @ \ {e}]
      BY <2>5, LabelGrows
    <3>2. job \in Jobs
      BY <2>1, <2>5 DEF EscalationLabel
    <3>3. e \in Escalations /\ {e} \in SUBSET Escalations /\ job.todo \ {e} \in SUBSET Escalations
      BY <3>2 DEF Jobs
    <3> QED
      BY <3>1, <3>2, <3>3 DEF Jobs
  <2>6. CASE EscalationComment
    BY <2>1, <2>6 DEF EscalationComment, Jobs
  <2>7. CASE CallFails
    BY <2>1, <2>7 DEF CallFails, Jobs
  <2>8. CASE job' = NoJob \/ job' = job
    BY <2>1, <2>8
  <2> QED
    BY <2>2, <2>3, <2>4, <2>5, <2>6, <2>7, <2>8 DEF CalendarNext, Upkeep, FinishWatch, JobCancelled,
       NextDate, EditIssue, CopyIssue, LandArtifact, calendarVars
<1> QED
  BY <1>1, <1>2, <1>3, DaysPass DEF CalendarTypeOK, Grows, Jobs

(***************************************************************************)
(* The invariant, conjunct by conjunct.                                     *)
(***************************************************************************)
LEMMA LossStep == CalendarInv /\ [CalendarNext]_calendarVars => LossIsSeen'
<1> SUFFICES ASSUME CalendarInv, [CalendarNext]_calendarVars,
                    NEW m \in Calendar, NEW i \in DOMAIN trackers'[m]
             PROVE  ~At(m, i)'.lost => At(m, i)'.marker \/ At(m, i)'.titled
  BY DEF LossIsSeen, At
<1>1. Grows
  BY NextGrows
<1>2. CASE i \in DOMAIN trackers[m]
  BY <1>1, <1>2 DEF CalendarInv, LossIsSeen, Grows, Kept
<1>3. CASE i \notin DOMAIN trackers[m]
  BY <1>1, <1>3 DEF Grows, Fresh
<1> QED
  BY <1>2, <1>3

LEMMA StandsStep == CalendarInv /\ [CalendarNext]_calendarVars => OneStands'
<1> SUFFICES ASSUME CalendarInv, [CalendarNext]_calendarVars,
                    NEW m \in Calendar, NEW i \in DOMAIN trackers'[m], NEW j \in DOMAIN trackers'[m],
                    At(m, i)'.opened, At(m, j)'.opened, ~At(m, i)'.lost, ~At(m, j)'.lost
             PROVE  i = j
  BY DEF OneStands, At
<1>1. Grows
  BY NextGrows
<1>2. ASSUME NEW k \in DOMAIN trackers'[m], k \notin DOMAIN trackers[m], At(m, k)'.opened,
             NEW l \in DOMAIN trackers[m], At(m, l)'.opened
      PROVE  At(m, l)'.lost
  <2>1. job # NoJob /\ job.step = "create" /\ m \in job.plan
    BY <1>1, <1>2 DEF Grows, Fresh
  <2>2. At(m, l).opened
    BY <1>1, <1>2 DEF Grows, Kept
  <2>3. At(m, l).lost
    BY <2>1, <2>2 DEF CalendarInv, PlanHolds, PlannedAreLost
  <2> QED
    BY <1>1, <2>3 DEF Grows, Kept
<1>3. CASE i \in DOMAIN trackers[m] /\ j \in DOMAIN trackers[m]
  BY <1>1, <1>3 DEF CalendarInv, OneStands, Grows, Kept
<1>4. CASE i \notin DOMAIN trackers[m] /\ j \notin DOMAIN trackers[m]
  BY <1>1, <1>4 DEF Grows, Fresh
<1> QED
  BY <1>2, <1>3, <1>4

(***************************************************************************)
(* Windows and artifacts.                                                   *)
(***************************************************************************)
LEMMA WindowIsADay == ASSUME NEW m \in Calendar PROVE WindowEnd(m) \in Nat
<1>1. CASE m.kind = "collection_opens"
  <2>1. Cardinality(OfKind("guide_publishes")) = 1
    BY <1>1, CalendarAssumption DEF CalendarHolds, RunwayHolds, OfKind
  <2>2. OfKind("guide_publishes") # {}
    BY <2>1, FS_EmptySet
  <2>3. (CHOOSE guide \in OfKind("guide_publishes") : TRUE) \in OfKind("guide_publishes")
    BY <2>2
  <2> QED
    BY <1>1, <2>3, CalendarAssumption DEF WindowEnd, CalendarHolds, OfKind
<1>2. CASE m.kind # "collection_opens"
  <2>1. m.date \in Nat /\ ArtifactWindowDays \in Nat
    BY CalendarAssumption DEF CalendarHolds
  <2> QED
    BY <1>2, <2>1 DEF WindowEnd
<1> QED
  BY <1>1, <1>2

LEMMA ReachedAfterWindow ==
    ASSUME NEW m \in Calendar, NEW day \in Nat, NEW s \in ReachedStages(m, day)
    PROVE  s \in Stages /\ WindowEnd(m) < day
<1>1. WindowEnd(m) \in Nat /\ m.date \in Nat
  BY WindowIsADay, CalendarAssumption DEF CalendarHolds
<1>2. /\ ArtifactWindowDays \in Nat /\ StaleEscalationDays \in Nat /\ CollectionStaleDays \in Nat
      /\ ArtifactWindowDays < StaleEscalationDays
  BY CalendarAssumption DEF CalendarHolds
<1>3. m.kind # "collection_opens" => WindowEnd(m) = m.date + ArtifactWindowDays
  BY DEF WindowEnd
<1>4. /\ s \in Stages
      /\ s = "overdue" => day > WindowEnd(m)
      /\ s # "overdue" => day > (IF m.kind = "collection_opens" THEN WindowEnd(m) + CollectionStaleDays
                                ELSE m.date + StaleEscalationDays)
  BY DEF ReachedStages
<1>5. CASE s = "overdue"
  BY <1>1, <1>4, <1>5
<1>6. CASE s # "overdue" /\ m.kind = "collection_opens"
  <2>1. day > WindowEnd(m) + CollectionStaleDays
    BY <1>4, <1>6
  <2> QED
    BY <1>1, <1>2, <1>4, <2>1
<1>7. CASE s # "overdue" /\ m.kind # "collection_opens"
  <2>1. day > m.date + StaleEscalationDays
    BY <1>4, <1>7
  <2> QED
    BY <1>1, <1>2, <1>3, <1>4, <1>7, <2>1
<1> QED
  BY <1>5, <1>6, <1>7

LEMMA ArtifactsOnlyHelp ==
    ASSUME NEW m, NEW few, NEW many, few \subseteq many, ArtifactExists(m, few)
    PROVE  ArtifactExists(m, many)
BY DEF ArtifactExists

LEMMA VainStep == CalendarInv /\ [CalendarNext]_calendarVars => NeverEscalatedInVain'
<1> DEFINE Timely(m) == {a \in landed : a.merged <= WindowEnd(m)}
<1> SUFFICES ASSUME CalendarInv, [CalendarNext]_calendarVars,
                    NEW m \in Calendar, NEW i \in DOMAIN trackers'[m], NEW s \in Stages,
                    At(m, i)'.comments[s] > 0
             PROVE  /\ At(m, i)'.comments[s] = 1
                    /\ s \in At(m, i)'.labels
                    /\ date' > WindowEnd(m)
                    /\ ~ArtifactExists(m, Timely(m)')
  BY DEF NeverEscalatedInVain, At
<1>1. Grows /\ (CommentsKept \/ EscalationComment)
  BY NextGrows
<1>2. /\ date' \in Nat /\ date \in Nat /\ date <= date' /\ landed \subseteq landed'
      /\ \A a \in landed' \ landed : a.merged = date
  <2>1. CalendarTypeOK /\ LastDate \in Nat
    BY CalendarAssumption DEF CalendarInv, CalendarHolds
  <2> QED
    BY <2>1, DaysPass
<1>3. WindowEnd(m) \in Nat
  BY WindowIsADay
<1>4. date > WindowEnd(m) => Timely(m)' = Timely(m) /\ date' > WindowEnd(m)
  BY <1>2, <1>3
<1>5. i \in DOMAIN trackers[m]
  BY <1>1 DEF Grows, Fresh
<1>6. At(m, i).labels \subseteq At(m, i)'.labels
  BY <1>1, <1>5 DEF Grows, Kept
<1>7. CASE At(m, i)'.comments[s] = At(m, i).comments[s]
  <2>1. /\ At(m, i).comments[s] = 1 /\ s \in At(m, i).labels
        /\ date > WindowEnd(m) /\ ~ArtifactExists(m, Timely(m))
    BY <1>5, <1>7 DEF CalendarInv, NeverEscalatedInVain, At
  <2> QED
    BY <1>4, <1>6, <1>7, <2>1
<1>8. CASE At(m, i)'.comments[s] # At(m, i).comments[s]
  <2>1. EscalationComment
    BY <1>1, <1>5, <1>8 DEF CommentsKept
  <2>2. PICK e \in job.plan :
           /\ Outstanding(e) /\ e.stage \in At(e.of, e.issue).labels
           /\ \A n \in Calendar : \A j \in DOMAIN trackers[n], t \in Stages :
                 At(n, j)'.comments[t] =
                     IF n = e.of /\ j = e.issue /\ t = e.stage THEN 1 ELSE At(n, j).comments[t]
    BY <2>1, CommentGrows
  <2>3. e.of = m /\ e.issue = i /\ e.stage = s /\ At(m, i)'.comments[s] = 1
    BY <1>5, <1>8, <2>2
  <2>4. s \in ReachedStages(m, date) /\ ~ArtifactExists(m, job.main) /\ s \in At(m, i).labels
    BY <2>2, <2>3 DEF Outstanding
  <2>5. date > WindowEnd(m)
    BY <1>2, <1>3, <2>4, ReachedAfterWindow
  <2>6. Timely(m) \subseteq job.main
    <3>1. \A a \in landed : a.merged < date => a \in job.main
      BY <2>1 DEF CalendarInv, PlanHolds, CheckoutIsCurrent, EscalationComment
    <3>2. \A a \in landed : a.merged \in Nat
      BY CalendarAssumption DEF CalendarInv, CalendarTypeOK, CalendarHolds, Landings
    <3> QED
      BY <1>2, <1>3, <2>5, <3>1, <3>2
  <2>7. ~ArtifactExists(m, Timely(m))
    BY <2>4, <2>6, ArtifactsOnlyHelp
  <2> QED
    BY <1>4, <1>6, <2>3, <2>4, <2>5, <2>7
<1> QED
  BY <1>7, <1>8

(***************************************************************************)
(* The plan: while the day, the checkout and the comments stand, what is    *)
(* outstanding stays so.                                                    *)
(***************************************************************************)
LEMMA StaysOutstanding ==
    ASSUME CalendarInv, [CalendarNext]_calendarVars, NEW e, Outstanding(e),
           date' = date, job'.main = job.main,
           At(e.of, e.issue)'.comments[e.stage] = At(e.of, e.issue).comments[e.stage]
    PROVE  Outstanding(e)'
<1>1. e.of \in Calendar
  BY DEF Outstanding, Escalations
<1>2. Grows
  BY NextGrows
<1> QED
  BY <1>1, <1>2 DEF Outstanding, Grows

LEMMA PlannedStayLost ==
    ASSUME CalendarInv, [CalendarNext]_calendarVars, job # NoJob, job.step = "create",
           job'.plan \subseteq job.plan,
           \A m \in job'.plan : ~(job' = [job EXCEPT !.plan = @ \ {m}])
    PROVE  PlannedAreLost'
<1>1. Grows
  BY NextGrows
<1>2. /\ job.plan \in SUBSET Calendar
      /\ \A m \in job.plan : \A i \in DOMAIN trackers[m] : At(m, i).opened => At(m, i).lost
  BY DEF CalendarInv, PlanHolds, PlannedAreLost
<1>3. ASSUME NEW m \in job'.plan, NEW i \in DOMAIN trackers'[m], At(m, i)'.opened
      PROVE  At(m, i)'.lost
  <2>1. m \in Calendar
    BY <1>2
  <2>2. CASE i \in DOMAIN trackers[m]
    BY <1>1, <1>2, <1>3, <2>1, <2>2 DEF Grows, Kept
  <2>3. CASE i \notin DOMAIN trackers[m]
    <3>1. Fresh(m, i)
      BY <1>1, <1>3, <2>1, <2>3 DEF Grows
    <3>2. job' = [job EXCEPT !.plan = @ \ {m}]
      BY <1>3, <3>1 DEF Fresh
    <3> QED
      BY <1>3, <3>2
  <2> QED
    BY <2>2, <2>3
<1> QED
  BY <1>2, <1>3 DEF PlannedAreLost, At

LEMMA PlanStep == CalendarInv /\ [CalendarNext]_calendarVars => (job' # NoJob => PlanHolds')
<1> SUFFICES ASSUME CalendarInv, [CalendarNext]_calendarVars, job' # NoJob PROVE PlanHolds'
  OBVIOUS
<1>1. /\ CalendarTypeOK /\ Grows /\ (CommentsKept \/ EscalationComment)
      /\ job # NoJob => PlanHolds /\ job \in Jobs
  BY NextGrows DEF CalendarInv, CalendarTypeOK, Jobs
<1>2. /\ date' # date => job = NoJob /\ job' = NoJob
      /\ landed \subseteq landed' /\ \A a \in landed' \ landed : a.merged = date
      /\ date \in Nat
  BY <1>1, DaysPass
<1>3. CASE StartTracking
  <2>1. PICK utc : job' = [step |-> "create", plan |-> PlanIssues(utc), main |-> landed, todo |-> {}]
    BY <1>3 DEF StartTracking
  <2>2. date' = date /\ landed' = landed /\ trackers' = trackers
    BY <1>3 DEF StartTracking
  <2>3. PlannedAreLost'
    <3>1. PlanIssues(utc) \in SUBSET Calendar
      BY DEF PlanIssues, DueMilestones
    <3>2. ASSUME NEW m \in PlanIssues(utc), NEW i \in DOMAIN trackers[m] PROVE At(m, i).lost
      <4>1. ~At(m, i).marker /\ ~At(m, i).titled
        BY DEF PlanIssues, Marked, Collides, Issues, At
      <4> QED
        BY <3>1, <4>1 DEF CalendarInv, LossIsSeen
    <3> QED
      BY <2>1, <2>2, <3>1, <3>2 DEF PlannedAreLost, At
  <2> QED
    BY <2>1, <2>2, <2>3 DEF PlanHolds, CheckoutIsCurrent
<1>4. ASSUME job # NoJob, job'.main = job.main PROVE CheckoutIsCurrent' /\ date' = date
  BY <1>1, <1>2, <1>4 DEF PlanHolds, CheckoutIsCurrent
<1>5. CASE CreateIssue
  <2>1. PICK m \in job.plan : job' = [job EXCEPT !.plan = @ \ {m}]
    BY <1>5 DEF CreateIssue
  <2>2. job # NoJob /\ job \in Jobs /\ job.step = "create"
    BY <1>1, <1>5 DEF CreateIssue
  <2>3. job'.main = job.main /\ job'.step = "create" /\ job'.plan = job.plan \ {m}
    BY <2>1, <2>2 DEF Jobs
  <2>4. \A n \in job'.plan : ~(job' = [job EXCEPT !.plan = @ \ {n}])
    <3>1. ASSUME NEW n \in job'.plan, job' = [job EXCEPT !.plan = @ \ {n}] PROVE FALSE
      <4>1. job'.plan = job.plan \ {n}
        BY <2>2, <3>1 DEF Jobs
      <4> QED
        BY <3>1, <4>1
    <3> QED
      BY <3>1
  <2>5. PlannedAreLost'
    BY <2>2, <2>3, <2>4, PlannedStayLost
  <2> QED
    BY <1>4, <2>2, <2>3, <2>5 DEF PlanHolds
<1>6. CASE StartArtifactWatch
  <2>1. job # NoJob /\ job \in Jobs
    BY <1>1, <1>6 DEF StartArtifactWatch
  <2>2. /\ job' = [job EXCEPT !.step = "escalate", !.todo = PlanEscalations(date, job.main)]
        /\ date' = date /\ trackers' = trackers
    BY <1>6 DEF StartArtifactWatch
  <2>3. job'.main = job.main /\ job'.step = "escalate" /\ job'.todo = PlanEscalations(date, job.main)
    BY <2>1, <2>2 DEF Jobs
  <2>4. ASSUME NEW e \in job'.todo PROVE Outstanding(e)'
    BY <1>1, <2>2, <2>3, EscalationsArePlanned DEF Outstanding, At
  <2> QED
    BY <1>4, <2>1, <2>3, <2>4 DEF PlanHolds
<1>7. CASE EscalationLabel
  <2>1. PICK e \in job.todo :
           /\ e.stage \in At(e.of, e.issue)'.labels
           /\ job' = [job EXCEPT !.step = "comment", !.plan = {e}, !.todo = @ \ {e}]
    BY <1>7, LabelGrows
  <2>2. job # NoJob /\ job \in Jobs /\ job.step = "escalate" /\ CommentsKept
    BY <1>1, <1>7, LabelGrows DEF EscalationLabel
  <2>3. job'.main = job.main /\ job'.step = "comment" /\ job'.plan = {e} /\ job'.todo = job.todo \ {e}
    BY <2>1, <2>2 DEF Jobs
  <2>4. ASSUME NEW f \in job.todo PROVE Outstanding(f)'
    <3>1. Outstanding(f)
      BY <1>1, <2>2 DEF PlanHolds
    <3>2. At(f.of, f.issue)'.comments = At(f.of, f.issue).comments
      BY <2>2, <3>1 DEF Outstanding, Escalations, CommentsKept
    <3> QED
      BY <1>4, <2>2, <2>3, <3>1, <3>2, StaysOutstanding
  <2> QED
    BY <1>4, <2>1, <2>2, <2>3, <2>4 DEF PlanHolds, At
<1>8. CASE EscalationComment
  <2>1. PICK e \in job.plan :
           /\ e \notin job.todo /\ Outstanding(e)
           /\ \A n \in Calendar : \A j \in DOMAIN trackers[n], s \in Stages :
                 At(n, j)'.comments[s] =
                     IF n = e.of /\ j = e.issue /\ s = e.stage THEN 1 ELSE At(n, j).comments[s]
    BY <1>8, CommentGrows
  <2>2. job # NoJob /\ job \in Jobs /\ job.step = "comment"
    BY <1>1, <1>8 DEF EscalationComment
  <2>3. job'.main = job.main /\ job'.step = "escalate" /\ job'.todo = job.todo
    BY <1>8, <2>2 DEF EscalationComment, Jobs
  <2>4. ASSUME NEW f \in job.todo PROVE Outstanding(f)'
    <3>1. Outstanding(f) /\ f \in Escalations /\ e \in Escalations
      BY <1>1, <2>1, <2>2 DEF PlanHolds, Outstanding
    <3>2. f # e
      BY <2>1
    <3>3. ~(f.of = e.of /\ f.issue = e.issue /\ f.stage = e.stage)
      BY <3>1, <3>2 DEF Escalations
    <3>4. At(f.of, f.issue)'.comments[f.stage] = At(f.of, f.issue).comments[f.stage]
      <4>1. f.of \in Calendar /\ f.issue \in DOMAIN trackers[f.of] /\ f.stage \in Stages
        BY <3>1 DEF Outstanding, Escalations
      <4> QED
        BY <2>1, <3>3, <4>1
    <3> QED
      BY <1>4, <2>2, <2>3, <3>1, <3>4, StaysOutstanding
  <2> QED
    BY <1>4, <2>2, <2>3, <2>4 DEF PlanHolds
<1>9. CASE CallFails
  <2>1. job # NoJob /\ job \in Jobs /\ job.step = "create" /\ job' = [job EXCEPT !.plan = {}]
    BY <1>1, <1>9 DEF CallFails
  <2>2. job'.main = job.main /\ job'.step = "create" /\ job'.plan = {}
    BY <2>1 DEF Jobs
  <2> QED
    BY <1>4, <2>1, <2>2 DEF PlanHolds, PlannedAreLost
<1>10. CASE job' = job /\ CommentsKept /\ ~CreateIssue
  <2>1. job # NoJob /\ PlanHolds /\ job \in Jobs
    BY <1>1, <1>10
  <2>2. CASE job.step = "create"
    <3>1. \A m \in job'.plan : ~(job' = [job EXCEPT !.plan = @ \ {m}])
      <4>1. ASSUME NEW m \in job'.plan, job' = [job EXCEPT !.plan = @ \ {m}] PROVE FALSE
        <5>1. job'.plan = job.plan \ {m}
          BY <2>1, <4>1 DEF Jobs
        <5> QED
          BY <1>10, <4>1, <5>1
      <4> QED
        BY <4>1
    <3>2. PlannedAreLost'
      BY <1>10, <2>1, <2>2, <3>1, PlannedStayLost
    <3> QED
      BY <1>4, <1>10, <2>1, <2>2, <3>2 DEF PlanHolds
  <2>3. CASE job.step # "create"
    <3>1. ASSUME NEW e, Outstanding(e) PROVE Outstanding(e)'
      <4>1. At(e.of, e.issue)'.comments = At(e.of, e.issue).comments
        BY <1>10, <3>1 DEF Outstanding, Escalations, CommentsKept
      <4> QED
        BY <1>4, <1>10, <2>1, <3>1, <4>1, StaysOutstanding
    <3>2. ASSUME NEW e, Outstanding(e), e.stage \in At(e.of, e.issue).labels
          PROVE  e.stage \in At(e.of, e.issue)'.labels
      BY <1>1, <3>2 DEF Outstanding, Escalations, Grows, Kept
    <3> QED
      BY <1>4, <1>10, <2>1, <2>3, <3>1, <3>2 DEF PlanHolds
  <2> QED
    BY <2>2, <2>3
<1> QED
  BY <1>1, <1>3, <1>5, <1>6, <1>7, <1>8, <1>9, <1>10 DEF CalendarNext, Upkeep, FinishWatch, JobCancelled,
     NextDate, EditIssue, CopyIssue, LandArtifact, calendarVars

LEMMA CalendarInvInit == CalendarInit => CalendarInv
<1> SUFFICES ASSUME CalendarInit PROVE CalendarInv
  OBVIOUS
<1>1. \A m \in Calendar : trackers[m] = << >>
  BY DEF CalendarInit
<1>2. trackers \in [Calendar -> Seq(Issued)]
  BY DEF CalendarInit
<1>3. CalendarTypeOK
  BY <1>2, CalendarAssumption DEF CalendarInit, CalendarTypeOK, CalendarHolds
<1> QED
  BY <1>1, <1>3 DEF CalendarInit, CalendarInv, LossIsSeen, OneStands, NeverEscalatedInVain

\* Whatever fails or is edited, the calendar's job plans only what is still to be done:
\* issues nobody opened or that are lost, and escalations nobody made.
THEOREM CalendarInvariant == CalendarSpec => []CalendarInv
<1>1. CalendarInv /\ [CalendarNext]_calendarVars => CalendarInv'
  BY TypeStep, LossStep, StandsStep, VainStep, PlanStep DEF CalendarInv
<1> QED
  BY CalendarInvInit, <1>1, PTL DEF CalendarSpec

\* The variables of the calendar keep their types.
THEOREM CalendarTypeCorrect == CalendarSpec => []CalendarTypeOK
<1>1. CalendarInv => CalendarTypeOK
  BY DEF CalendarInv
<1> QED
  BY CalendarInvariant, <1>1, PTL

LEMMA OneStandsBounds == CalendarTypeOK /\ OneStands => OpenedOnce
<1> SUFFICES ASSUME CalendarTypeOK, OneStands, NEW m \in Calendar
             PROVE  Cardinality({i \in DOMAIN trackers[m] : trackers[m][i].opened})
                        <= 1 + Cardinality({i \in DOMAIN trackers[m] : trackers[m][i].lost})
  BY DEF OpenedOnce
<1> DEFINE Opened == {i \in DOMAIN trackers[m] : trackers[m][i].opened}
           Lost   == {i \in DOMAIN trackers[m] : trackers[m][i].lost}
<1>1. IsFiniteSet(DOMAIN trackers[m])
  <2>1. Len(trackers[m]) \in Nat /\ DOMAIN trackers[m] = 1..Len(trackers[m])
    BY LenProperties DEF CalendarTypeOK
  <2> QED
    BY <2>1, FS_Interval
<1>2. IsFiniteSet(Lost) /\ Cardinality(Lost) \in Nat
  BY <1>1, FS_Subset, FS_CardinalityType
<1>3. CASE Opened \subseteq Lost
  <2>1. Cardinality(Opened) <= Cardinality(Lost) /\ IsFiniteSet(Opened)
    BY <1>2, <1>3, FS_Subset
  <2>2. Cardinality(Opened) \in Nat
    BY <2>1, FS_CardinalityType
  <2> QED
    BY <1>2, <2>1, <2>2
<1>4. CASE ~(Opened \subseteq Lost)
  <2>1. PICK k \in Opened : k \notin Lost
    BY <1>4
  <2>2. Opened \subseteq Lost \cup {k}
    BY <2>1 DEF OneStands, At
  <2>3. IsFiniteSet(Lost \cup {k}) /\ Cardinality(Lost \cup {k}) = Cardinality(Lost) + 1
    BY <1>2, <2>1, FS_AddElement
  <2>4. Cardinality(Opened) <= Cardinality(Lost \cup {k}) /\ IsFiniteSet(Opened)
    BY <2>2, <2>3, FS_Subset
  <2>5. Cardinality(Opened) \in Nat
    BY <2>4, FS_CardinalityType
  <2> QED
    BY <1>2, <2>3, <2>4, <2>5
<1> QED
  BY <1>3, <1>4

\* One issue per milestone and one escalation per issue and stage, for a real loss only
\* (plan_issues, unmarked_collisions, plan_escalations and the order of escalate).
THEOREM CalendarActsOnce == CalendarSpec => []ActsOnce
<1>1. CalendarInv => ActsOnce
  BY OneStandsBounds DEF CalendarInv, ActsOnce
<1> QED
  BY CalendarInvariant, <1>1, PTL

(***************************************************************************)
(* The wait's inductive invariant: where SIGALRM stands at every step of    *)
(* the decoding, and where the answers of the reports come from.            *)
(***************************************************************************)
AlarmHolds ==
    /\ callerRan = FALSE
    /\ handler = "caller" => timer = FALSE /\ pending = FALSE
    /\ masked = IF alarmPc \in {"disarm", "consume", "restore", "unmask"} THEN TRUE ELSE FALSE
    /\ alarmPc \in {"idle", "install", "unmask", "done"} => handler = "caller"
    /\ alarmPc = "arm" => handler = "ours"
    /\ alarmPc \in {"arm", "restore"} => timer = FALSE /\ pending = FALSE
    /\ alarmPc = "consume" => timer = FALSE
    /\ waitPc # "decoding" => alarmPc = "idle"

\* The deployments that answered, the first of them with the manifest.
FromTheManifestOn(report) ==
    /\ report.sources \in SUBSET (1..live)
    /\ report.contract # NoContract =>
          \E d \in report.sources : /\ Content[d].manifest = report.contract
                                   /\ \A e \in report.sources : d <= e

\* No answer of the earlier report came from a later deployment.
NoLater(earlier, later) == \A d \in earlier.sources, e \in later.sources : d <= e

IsProbe(p) ==
    /\ p = [state |-> p.state, todo |-> p.todo, report |-> p.report]
    /\ p.report = [manifest |-> p.report.manifest, contract |-> p.report.contract,
                   checks |-> p.report.checks, allOk |-> p.report.allOk,
                   error |-> p.report.error, sources |-> p.report.sources]

ReportsHold ==
    /\ live \in Deployments
    /\ IsProbe(probe)
    /\ FromTheManifestOn(probe.report)
    /\ \A i \in 1..Len(attempts) : FromTheManifestOn(attempts[i]) /\ NoLater(attempts[i], probe.report)
    /\ \A i, j \in 1..Len(attempts) : i < j => NoLater(attempts[i], attempts[j])

\* The pass that waits for a second one is the last attempt that was judged.
PassesHold ==
    /\ waitPc # "done" => result = NoResult
    /\ waitPc \in {"report"} => clock >= Deadline
    /\ waitPc \in {"loop", "probing", "decoding", "sleep"} /\ successful # << >> =>
          /\ Len(attempts) > 0 /\ successful = << Len(attempts) >>
          /\ CompleteStrictReport(attempts[Len(attempts)], activeWindow)
    /\ waitPc = "judge" =>
          /\ Len(attempts) > 0
          /\ successful # << >> =>
                /\ Len(attempts) > 1 /\ successful = << Len(attempts) - 1 >>
                /\ CompleteStrictReport(attempts[Len(attempts) - 1], activeWindow)

AttemptsAreListed == \E S : attempts \in Seq(S)

WaitInv ==
    /\ WaitTypeOK
    /\ AlarmHolds
    /\ mode # "wait" => clock = 0
    /\ AttemptsAreListed
    /\ ReportsHold
    /\ PassesHold

(***************************************************************************)
(* The alarm.                                                               *)
(***************************************************************************)
LEMMA AlarmRests ==
    AlarmTypeOK /\ AlarmHolds /\ UNCHANGED alarmVars /\ clock' \in 0..(WaitTicks + ExtraTicks)
        /\ (waitPc # "decoding" => waitPc' # "decoding") /\ (waitPc = "decoding" => waitPc' = waitPc)
    => AlarmTypeOK' /\ AlarmHolds'
BY DEF AlarmTypeOK, AlarmHolds, alarmVars

LEMMA DecodeStep ==
    AlarmTypeOK /\ AlarmHolds /\ Decode => AlarmTypeOK' /\ AlarmHolds'
<1> SUFFICES ASSUME AlarmTypeOK, AlarmHolds, Decode PROVE AlarmTypeOK' /\ AlarmHolds'
  OBVIOUS
<1> USE DEF AlarmTypeOK, AlarmHolds, AlarmPcs, Outcomes
<1>1. waitPc = "decoding" /\ waitPc' = waitPc
  BY DEF Decode, waitVars
<1>2. CASE DecodeRefused
  BY <1>1, <1>2 DEF DecodeRefused
<1>3. CASE DecodeBegins
  BY <1>1, <1>3 DEF DecodeBegins
<1>4. CASE InstallHandler
  BY <1>1, <1>4 DEF InstallHandler
<1>5. CASE ArmTimer
  BY <1>1, <1>5 DEF ArmTimer
<1>6. CASE ParseReport \/ StopDecoding \/ CheckDeadline
  BY <1>1, <1>6 DEF ParseReport, StopDecoding, CheckDeadline
<1>7. CASE BlockAlarm
  BY <1>1, <1>7 DEF BlockAlarm
<1>8. CASE DisarmTimer \/ ConsumeAlarm
  BY <1>1, <1>8 DEF DisarmTimer, ConsumeAlarm
<1>9. CASE RestoreHandler \/ UnmaskAlarm
  BY <1>1, <1>9 DEF RestoreHandler, UnmaskAlarm
<1>10. CASE TimerFires
  BY <1>1, <1>10 DEF TimerFires
<1>11. CASE TakeAlarm
  BY <1>1, <1>11 DEF TakeAlarm
<1> QED
  BY <1>2, <1>3, <1>4, <1>5, <1>6, <1>7, <1>8, <1>9, <1>10, <1>11 DEF Decode, DecodeNext

LEMMA AlarmStep == AlarmTypeOK /\ AlarmHolds /\ [WaitNext]_waitingVars => AlarmTypeOK' /\ AlarmHolds'
<1> SUFFICES ASSUME AlarmTypeOK, AlarmHolds, [WaitNext]_waitingVars PROVE AlarmTypeOK' /\ AlarmHolds'
  OBVIOUS
<1>1. CASE Decode
  BY <1>1, DecodeStep
<1>2. CASE ReceiveReport
  BY <1>2 DEF ReceiveReport, AlarmTypeOK, AlarmHolds, AlarmPcs, Outcomes
<1>3. CASE Decoded
  BY <1>3 DEF Decoded, Finish, AlarmTypeOK, AlarmHolds, AlarmPcs, Outcomes
<1>4. CASE Tick
  <2>1. clock' \in 0..(WaitTicks + ExtraTicks)
    BY <1>4, ClockAssumption DEF Tick, AlarmTypeOK
  <2> QED
    BY <1>4, <2>1, AlarmRests DEF Tick, waitVars
<1>5. CASE /\ UNCHANGED <<clock, alarmVars>>
           /\ waitPc # "decoding" => waitPc' # "decoding"
           /\ waitPc = "decoding" => waitPc' = waitPc
  BY <1>5, AlarmRests DEF AlarmTypeOK
<1>6. CASE FetchManifest \/ ManifestFails \/ Request \/ SendReport \/ WorkerFails \/ Deploy
  BY <1>5, <1>6 DEF FetchManifest, ManifestFails, Request, SendReport, WorkerFails, Deploy, WorkerVars
<1>7. CASE StartProbe \/ ReportOnce \/ ReceiveFailure \/ ProbeExpires
  BY <1>5, <1>7 DEF StartProbe, ReportOnce, ReceiveFailure, ProbeExpires, Finish
<1>8. CASE Judge \/ Wake \/ LoopEnds \/ ReportTimeout
  BY <1>5, <1>8 DEF Judge, Wake, LoopEnds, ReportTimeout
<1>9. CASE UNCHANGED waitingVars
  BY <1>5, <1>9 DEF waitingVars, waitVars
<1> QED
  BY <1>1, <1>2, <1>3, <1>4, <1>6, <1>7, <1>8, <1>9 DEF WaitNext, Program, Done

LEMMA AlarmInvInit == WaitInit => AlarmTypeOK /\ AlarmHolds
<1> SUFFICES ASSUME WaitInit PROVE AlarmTypeOK /\ AlarmHolds
  OBVIOUS
<1>1. clock \in 0..(WaitTicks + ExtraTicks)
  BY ClockAssumption DEF WaitInit
<1>2. AlarmTypeOK
  BY <1>1 DEF WaitInit, AlarmInit, AlarmTypeOK, AlarmPcs, Outcomes
<1>3. AlarmHolds
  BY DEF WaitInit, AlarmInit, AlarmHolds
<1> QED
  BY <1>2, <1>3

\* Whenever the timer fires and whatever fails on the way, the caller's handler never runs
\* for our alarm and finds the signal as it left it (the `finally` of _decode_result).
THEOREM CallerIsUndisturbed == WaitSpec => []CallerAlarmUndisturbed
<1>1. AlarmTypeOK /\ AlarmHolds => CallerAlarmUndisturbed
  BY DEF AlarmHolds, CallerAlarmUndisturbed
<1> QED
  BY AlarmInvInit, AlarmStep, <1>1, PTL DEF WaitSpec

(***************************************************************************)
(* The reports.                                                             *)
(***************************************************************************)
LEMMA Attempted ==
    ASSUME AttemptsAreListed, NEW report, attempts' = Append(attempts, report)
    PROVE  /\ AttemptsAreListed'
           /\ Len(attempts) \in Nat /\ Len(attempts') = Len(attempts) + 1
           /\ \A i \in 1..Len(attempts) : attempts'[i] = attempts[i]
           /\ attempts'[Len(attempts')] = report
<1>1. PICK S : attempts \in Seq(S)
  BY DEF AttemptsAreListed
<1> DEFINE T == S \cup {report}
<1>2. attempts \in Seq(T) /\ report \in T
  <2>1. /\ Len(attempts) \in Nat /\ DOMAIN attempts = 1..Len(attempts)
        /\ attempts \in [1..Len(attempts) -> S]
    BY <1>1, LenProperties
  <2>2. attempts \in [1..Len(attempts) -> T]
    BY <2>1
  <2> QED
    BY <2>1, <2>2, IsASeq
<1> HIDE DEF T
<1>3. Append(attempts, report) \in Seq(T)
  BY <1>2, AppendProperties
<1> QED
  BY <1>1, <1>2, <1>3, AppendProperties, LenProperties DEF AttemptsAreListed

LEMMA LiveIsCounted == /\ Deployments = 1..Cardinality(Deployments) /\ Cardinality(Deployments) \in Nat
                       /\ 1 \in Deployments
<1>1. Cardinality(Deployments) \in Nat
  BY DeploymentAssumption, FS_CardinalityType
<1>2. Deployments = 1..Cardinality(Deployments) /\ Deployments # {}
  BY DeploymentAssumption
<1> QED
  BY <1>1, <1>2

\* An attempt is added: its report came from the probe or from nowhere.
LEMMA ReportAdded ==
    ASSUME AttemptsAreListed, ReportsHold, NEW report, attempts' = Append(attempts, report), live' = live,
           report = probe.report \/ (report.sources = {} /\ report.contract = NoContract),
           probe' = NoProbe \/ (probe' = probe /\ report.sources = {})
    PROVE  AttemptsAreListed' /\ ReportsHold'
<1>1. /\ AttemptsAreListed'
      /\ Len(attempts) \in Nat /\ Len(attempts') = Len(attempts) + 1
      /\ \A i \in 1..Len(attempts) : attempts'[i] = attempts[i]
      /\ attempts'[Len(attempts')] = report
  BY Attempted
<1>2. FromTheManifestOn(report) /\ \A i \in 1..Len(attempts) : NoLater(attempts[i], report)
  BY DEF ReportsHold, FromTheManifestOn, NoLater
<1>3. IsProbe(probe') /\ FromTheManifestOn(probe'.report)
      /\ NoLater(report, probe'.report) /\ \A i \in 1..Len(attempts) : NoLater(attempts[i], probe'.report)
  BY DEF ReportsHold, IsProbe, NoProbe, EmptyReport, FromTheManifestOn, NoLater
<1>4. \A i \in 1..Len(attempts') : i \in 1..Len(attempts) \/ i = Len(attempts')
  BY <1>1
<1>5. \A i \in 1..Len(attempts') : FromTheManifestOn(attempts'[i]) /\ NoLater(attempts'[i], probe'.report)
  BY <1>1, <1>2, <1>3, <1>4 DEF ReportsHold
<1>6. ASSUME NEW i \in 1..Len(attempts'), NEW j \in 1..Len(attempts'), i < j
      PROVE  NoLater(attempts'[i], attempts'[j])
  <2>1. i \in 1..Len(attempts)
    BY <1>1, <1>6
  <2>2. CASE j \in 1..Len(attempts)
    BY <1>1, <1>6, <2>1, <2>2 DEF ReportsHold
  <2>3. CASE j = Len(attempts')
    BY <1>1, <1>2, <2>1, <2>3
  <2> QED
    BY <1>4, <2>2, <2>3
<1> QED
  BY <1>1, <1>3, <1>5, <1>6 DEF ReportsHold, FromTheManifestOn, NoLater, IsProbe

\* The worker's report grows by what the live deployment answers.
LEMMA ReportGrows ==
    ASSUME ReportsHold, attempts' = attempts, live' = live, IsProbe(probe'),
           \/ probe'.report.sources = {} /\ probe'.report.contract = NoContract
           \/ /\ probe'.report.sources = {live}
              /\ probe'.report.contract \in {NoContract, Content[live].manifest}
           \/ /\ probe'.report.contract = probe.report.contract
              /\ probe'.report.sources \in {probe.report.sources, probe.report.sources \cup {live}}
    PROVE  ReportsHold'
<1>1. live \in 1..live /\ live \in Nat
  BY LiveIsCounted DEF ReportsHold
<1>2. FromTheManifestOn(probe'.report)
  BY <1>1 DEF ReportsHold, FromTheManifestOn
<1>3. \A i \in 1..Len(attempts) : NoLater(attempts[i], probe'.report)
  BY <1>1 DEF ReportsHold, FromTheManifestOn, NoLater
<1> QED
  BY <1>2, <1>3 DEF ReportsHold, FromTheManifestOn, NoLater, IsProbe

LEMMA ReportsStep ==
    AttemptsAreListed /\ ReportsHold /\ [WaitNext]_waitingVars => AttemptsAreListed' /\ ReportsHold'
<1> SUFFICES ASSUME AttemptsAreListed, ReportsHold, [WaitNext]_waitingVars PROVE AttemptsAreListed' /\ ReportsHold'
  OBVIOUS
<1>1. IsProbe(probe) /\ probe.report.sources \in SUBSET (1..live)
  BY DEF ReportsHold, FromTheManifestOn
<1>2. ASSUME attempts' = attempts PROVE AttemptsAreListed'
  BY <1>2 DEF AttemptsAreListed
<1>3. CASE FetchManifest
  <2>1. /\ attempts' = attempts /\ live' = live
        /\ \E contract \in {NoContract, Content[live].manifest} :
              probe' = [state |-> "requests", todo |-> PlanRequests(Content[live].manifest, Strict, activeWindow),
                        report |-> [EmptyReport EXCEPT !.manifest = TRUE, !.contract = contract,
                                                       !.sources = {live}]]
    BY <1>3 DEF FetchManifest, WorkerVars
  <2>2. IsProbe(probe') /\ probe'.report.sources = {live}
        /\ probe'.report.contract \in {NoContract, Content[live].manifest}
    <3>4. PICK contract \in {NoContract, Content[live].manifest} :
             probe' = [state |-> "requests",
                       todo |-> PlanRequests(Content[live].manifest, Strict, activeWindow),
                       report |-> [EmptyReport EXCEPT !.manifest = TRUE, !.contract = contract,
                                                      !.sources = {live}]]
      BY <2>1
    <3>1. PICK todo :
             probe' = [state |-> "requests", todo |-> todo,
                       report |-> [EmptyReport EXCEPT !.manifest = TRUE, !.contract = contract,
                                                      !.sources = {live}]]
      BY <3>4
    <3>2. probe' = [state |-> "requests", todo |-> todo,
                    report |-> [manifest |-> TRUE, contract |-> contract, checks |-> << >>,
                                allOk |-> TRUE, error |-> "none", sources |-> {live}]]
      BY <3>1 DEF EmptyReport
    <3> QED
      BY <3>2 DEF IsProbe
  <2> QED
    BY <1>2, <2>1, <2>2, ReportGrows
<1>4. CASE ManifestFails
  <2>1. /\ attempts' = attempts /\ live' = live
        /\ probe' = [state |-> "sent", todo |-> << >>, report |-> EmptyReport]
    BY <1>4 DEF ManifestFails, WorkerVars
  <2>2. IsProbe(probe') /\ probe'.report.sources = {} /\ probe'.report.contract = NoContract
    BY <2>1 DEF IsProbe, EmptyReport
  <2> QED
    BY <1>2, <2>1, <2>2, ReportGrows
<1>5. CASE Request
  <2>1. attempts' = attempts /\ live' = live
    BY <1>5 DEF Request, WorkerVars
  <2>2. PICK sources \in {{live}, {}} : \E ok : Observe(ok, sources)
    BY <1>5 DEF Request
  <2>3. /\ IsProbe(probe') /\ probe'.report.contract = probe.report.contract
        /\ probe'.report.sources = probe.report.sources \cup sources
    <3>1. PICK state, todo, parsed, contract, checks, allOk, error, seen :
             probe = [state |-> state, todo |-> todo,
                      report |-> [manifest |-> parsed, contract |-> contract, checks |-> checks,
                                  allOk |-> allOk, error |-> error, sources |-> seen]]
      BY <1>1 DEF IsProbe
    <3>2. PICK ok : Observe(ok, sources)
      BY <2>2
    <3>3. PICK passes : probe' = [state |-> state, todo |-> Tail(todo),
                    report |-> [manifest |-> parsed, contract |-> contract,
                                checks |-> Append(checks, Head(todo)), allOk |-> passes,
                                error |-> error, sources |-> seen \cup sources]]
      <4>1. PICK passes : probe' = [probe EXCEPT !.todo = Tail(probe.todo),
                                                 !.report.checks = Append(@, Head(probe.todo)),
                                                 !.report.allOk = passes,
                                                 !.report.sources = @ \cup sources]
        BY <3>2 DEF Observe
      <4>2. probe.todo = todo /\ probe.report.checks = checks /\ probe.report.sources = seen
        BY <3>1
      <4>3. probe' = [probe EXCEPT !.todo = Tail(todo), !.report.checks = Append(checks, Head(todo)),
                                   !.report.allOk = passes, !.report.sources = seen \cup sources]
        BY <4>1, <4>2, Zenon
      <4> QED
        BY <3>1, <4>3, ZenonT(60)
    <3> QED
      BY <3>1, <3>3 DEF IsProbe
  <2>4. probe'.report.sources \in {probe.report.sources, probe.report.sources \cup {live}}
    BY <2>2, <2>3
  <2> QED
    BY <1>2, <2>1, <2>3, <2>4, ReportGrows
<1>6. CASE SendReport \/ WorkerFails
  <2>1. /\ attempts' = attempts /\ live' = live
        /\ \E state \in {"sent", "lost"} : probe' = [probe EXCEPT !.state = state]
    BY <1>6 DEF SendReport, WorkerFails, WorkerVars
  <2>2. IsProbe(probe') /\ probe'.report = probe.report
    BY <1>1, <2>1 DEF IsProbe
  <2> QED
    BY <1>2, <2>1, <2>2, ReportGrows
<1>7. CASE Deploy
  <2>1. live' = live + 1 /\ live' \in Deployments /\ attempts' = attempts /\ probe' = probe
    BY <1>7 DEF Deploy
  <2>2. live \in Nat /\ 1..live \subseteq 1..live'
    BY <2>1, LiveIsCounted DEF ReportsHold
  <2> QED
    BY <1>2, <2>1, <2>2 DEF ReportsHold, FromTheManifestOn, NoLater, IsProbe
<1>8. CASE StartProbe
  <2>1. CASE probe' = [NoProbe EXCEPT !.state = "manifest"] /\ attempts' = attempts
    <3>1. IsProbe(probe') /\ probe'.report.sources = {} /\ probe'.report.contract = NoContract
      BY <2>1 DEF IsProbe, NoProbe, EmptyReport
    <3> QED
      BY <1>2, <1>8, <2>1, <3>1, ReportGrows DEF StartProbe
  <2>2. CASE probe' = probe /\ attempts' = Append(attempts, FailedProbe("enforcement"))
    <3>1. FailedProbe("enforcement").sources = {} /\ FailedProbe("enforcement").contract = NoContract
      BY DEF FailedProbe, EmptyReport
    <3> QED
      BY <1>8, <2>2, <3>1, ReportAdded DEF StartProbe
  <2> QED
    BY <1>8, <2>1, <2>2 DEF StartProbe
<1>9. CASE ReportOnce \/ ReceiveFailure \/ ProbeExpires \/ Decoded
  <2>1. PICK report : /\ report = probe.report \/ \E why : report = FailedProbe(why)
                      /\ attempts' = Append(attempts, report) /\ probe' = NoProbe /\ live' = live
    BY <1>9 DEF ReportOnce, ReceiveFailure, ProbeExpires, Decoded, Finish
  <2>2. \A why : FailedProbe(why).sources = {} /\ FailedProbe(why).contract = NoContract
    BY DEF FailedProbe, EmptyReport
  <2> QED
    BY <2>1, <2>2, ReportAdded
<1>10. CASE ReportTimeout
  <2>1. live' = live /\ probe' = probe
    BY <1>10 DEF ReportTimeout
  <2>2. CASE attempts' = Append(attempts, FailedProbe("deadline"))
    <3>1. FailedProbe("deadline").sources = {} /\ FailedProbe("deadline").contract = NoContract
      BY DEF FailedProbe, EmptyReport
    <3> QED
      BY <2>1, <2>2, <3>1, ReportAdded
  <2>3. CASE attempts' = attempts
    BY <1>2, <2>1, <2>3 DEF ReportsHold, FromTheManifestOn, NoLater, IsProbe
  <2> QED
    BY <1>10, <2>2, <2>3 DEF ReportTimeout
<1>11. CASE attempts' = attempts /\ probe' = probe /\ live' = live
  BY <1>2, <1>11 DEF ReportsHold, FromTheManifestOn, NoLater, IsProbe
<1>12. CASE ReceiveReport \/ Decode \/ Judge \/ Wake \/ LoopEnds \/ Tick \/ UNCHANGED waitingVars
  BY <1>11, <1>12 DEF ReceiveReport, Decode, Judge, Wake, LoopEnds, Tick, waitingVars, waitVars
<1> QED
  BY <1>3, <1>4, <1>5, <1>6, <1>7, <1>8, <1>9, <1>10, <1>12 DEF WaitNext, Program, Done

(***************************************************************************)
(* The passes.                                                              *)
(***************************************************************************)
LEMMA PassAwaits ==
    ASSUME AttemptsAreListed, PassesHold, waitPc \in {"loop", "probing", "decoding"},
           NEW report, attempts' = Append(attempts, report), waitPc' = "judge",
           UNCHANGED <<successful, activeWindow, result>>
    PROVE  PassesHold'
<1>1. /\ Len(attempts) \in Nat /\ Len(attempts') = Len(attempts) + 1
      /\ \A i \in 1..Len(attempts) : attempts'[i] = attempts[i]
  BY Attempted
<1>2. CASE successful # << >>
  <2>1. /\ Len(attempts) > 0 /\ successful = << Len(attempts) >>
        /\ CompleteStrictReport(attempts[Len(attempts)], activeWindow)
    BY <1>2 DEF PassesHold
  <2>2. /\ Len(attempts') > 1 /\ Len(attempts) = Len(attempts') - 1
        /\ attempts'[Len(attempts)] = attempts[Len(attempts)]
    BY <1>1, <2>1
  <2>3. successful' = << Len(attempts') - 1 >>
    BY <2>1, <2>2
  <2>4. attempts'[Len(attempts') - 1] = attempts[Len(attempts)] /\ activeWindow' = activeWindow
    BY <2>1, <2>2
  <2>5. CompleteStrictReport(attempts[Len(attempts) - 1], activeWindow)'
    BY <2>1, <2>4
  <2>6. result' = NoResult /\ Len(attempts') > 0
    BY <2>2 DEF PassesHold
  <2> QED
    BY <2>2, <2>3, <2>5, <2>6 DEF PassesHold
<1>3. CASE successful = << >>
  BY <1>1, <1>3 DEF PassesHold
<1> QED
  BY <1>2, <1>3

LEMMA PassesRest ==
    ASSUME PassesHold, UNCHANGED <<attempts, successful, activeWindow, result>>,
           waitPc' = "report" => clock' >= Deadline,
           \/ waitPc' = waitPc
           \/ waitPc # "done" /\ waitPc' = "report"
           \/ {waitPc, waitPc'} \subseteq {"loop", "probing", "decoding", "sleep"}
    PROVE  PassesHold'
BY DEF PassesHold

LEMMA PairAppended == ASSUME NEW a \in Nat, NEW b \in Nat
                      PROVE  Append(<< a >>, b) = << a, b >> /\ Len(<< a, b >>) = 2
<1>1. << a >> \in Seq(Nat) /\ Len(<< a >>) = 1 /\ << a >>[1] = a
  OBVIOUS
<1>2. << a, b >> \in Seq(Nat) /\ Len(<< a, b >>) = 2 /\ << a, b >>[1] = a /\ << a, b >>[2] = b
  OBVIOUS
<1>3. /\ Append(<< a >>, b) \in Seq(Nat) /\ Len(Append(<< a >>, b)) = 2
      /\ Append(<< a >>, b)[1] = a /\ Append(<< a >>, b)[2] = b
  BY <1>1, AppendProperties
<1>4. \A i \in 1..Len(<< a, b >>) : Append(<< a >>, b)[i] = << a, b >>[i]
  BY <1>2, <1>3
<1> QED
  BY <1>2, <1>3, <1>4, SeqEqual

LEMMA JudgeStep ==
    ASSUME AttemptsAreListed, ReportsHold, PassesHold, clock \in Nat, Judge
    PROVE  /\ PassesHold'
           /\ \/ successful' \in {successful, << >>, << Len(attempts) >>}
              \/ successful' = << Len(attempts) - 1, Len(attempts) >> /\ Len(attempts) > 1
           /\ result'.ok /\ ~result.ok =>
                 /\ clock < Deadline /\ waitPc' = "done" /\ Len(attempts) > 1
                 /\ result'.indices = << Len(attempts) - 1, Len(attempts) >>
                 /\ attempts[Len(attempts) - 1].contract = attempts[Len(attempts)].contract
                 /\ CompleteStrictReport(attempts[Len(attempts) - 1], activeWindow)
                 /\ CompleteStrictReport(attempts[Len(attempts)], activeWindow)
<1> DEFINE n == Len(attempts)
<1>1. /\ waitPc = "judge" /\ result = NoResult /\ n > 0 /\ n \in Nat
      /\ UNCHANGED <<clock, attempts, activeWindow>>
  <2>1. n \in Nat
    BY LenProperties DEF AttemptsAreListed
  <2> QED
    BY <2>1 DEF Judge, PassesHold
<1>2. CASE clock >= Deadline
  <2>1. waitPc' = "report" /\ successful' = successful /\ result' = result
    BY <1>2 DEF Judge
  <2>2. PassesHold'
    BY <1>1, <1>2, <2>1, PassesRest
  <2> QED
    BY <2>1, <2>2
<1>3. CASE ~(clock >= Deadline) /\ ~CompleteStrictReport(LastAttempt, activeWindow)
  <2>1. successful' = << >>
    BY <1>3 DEF Judge
  <2>2. Len(successful') # 2
    BY <2>1
  <2>3. waitPc' = "sleep" /\ result' = result
    BY <1>3, <2>2 DEF Judge
  <2> QED
    BY <1>1, <2>1, <2>3 DEF PassesHold
<1>4. CASE ~(clock >= Deadline) /\ CompleteStrictReport(LastAttempt, activeWindow)
  <2>1. successful' = Continued
    BY <1>4 DEF Judge
  <2>2. CASE successful = << >> \/ attempts[successful[Len(successful)]].contract # LastAttempt.contract
    <3>1. successful' = << n >> /\ Len(successful') = 1
      <4>1. successful = << >> => Append(successful, n) = << n >>
        OBVIOUS
      <4> QED
        BY <2>1, <2>2, <4>1 DEF Continued
    <3>2. waitPc' = "sleep" /\ result' = result
      BY <1>4, <3>1 DEF Judge
    <3> QED
      BY <1>1, <1>4, <3>1, <3>2 DEF PassesHold, LastAttempt
  <2>3. CASE successful # << >> /\ attempts[successful[Len(successful)]].contract = LastAttempt.contract
    <3>1. /\ n > 1 /\ successful = << n - 1 >>
          /\ CompleteStrictReport(attempts[n - 1], activeWindow)
      BY <1>1, <2>3 DEF PassesHold
    <3>2. Len(successful) = 1 /\ successful[Len(successful)] = n - 1
      BY <3>1
    <3>3. successful' = Append(<< n - 1 >>, n)
      BY <2>1, <2>3, <3>1 DEF Continued
    <3>4. successful' = << n - 1, n >> /\ Len(successful') = 2
      <4>1. \A a, b \in Nat : Append(<< a >>, b) = << a, b >> /\ Len(<< a, b >>) = 2
        BY PairAppended
      <4>2. n \in Nat /\ n - 1 \in Nat
        BY <1>1, <3>1
      <4> QED
        BY <3>3, <4>1, <4>2
    <3>5. /\ result' = [ok |-> TRUE, indices |-> successful', timedOut |-> FALSE]
          /\ waitPc' = "done"
      BY <1>4, <3>4 DEF Judge
    <3>6. PassesHold'
      BY <3>5 DEF PassesHold
    <3>7. result'.indices = << n - 1, n >>
      BY <3>4, <3>5
    <3>8. /\ CompleteStrictReport(attempts[n - 1], activeWindow)
          /\ CompleteStrictReport(attempts[n], activeWindow)
          /\ attempts[n - 1].contract = attempts[n].contract
          /\ clock < Deadline
      BY <1>4, <2>3, <3>1, <3>2, ClockAssumption DEF LastAttempt, Deadline
    <3> QED
      BY <3>1, <3>5, <3>6, <3>7, <3>8
  <2> QED
    BY <2>2, <2>3
<1> QED
  BY <1>2, <1>3, <1>4

LEMMA PassesStep ==
    AttemptsAreListed /\ AlarmTypeOK /\ ReportsHold /\ PassesHold /\ [WaitNext]_waitingVars => PassesHold'
<1> SUFFICES ASSUME AttemptsAreListed, AlarmTypeOK, ReportsHold, PassesHold, [WaitNext]_waitingVars PROVE PassesHold'
  OBVIOUS
<1>1. clock \in Nat /\ WaitTicks \in Nat
  BY ClockAssumption DEF AlarmTypeOK
<1>2. CASE /\ UNCHANGED <<attempts, successful, activeWindow, result>>
           /\ clock' = clock /\ waitPc' = waitPc
  BY <1>2, PassesRest DEF PassesHold
<1>3. CASE FetchManifest \/ ManifestFails \/ Request \/ SendReport \/ WorkerFails \/ Deploy \/ UNCHANGED waitingVars
  BY <1>2, <1>3 DEF FetchManifest, ManifestFails, Request, SendReport, WorkerFails, Deploy, WorkerVars,
     waitingVars, waitVars
<1>4. CASE Decode
  <2>1. clock' = clock
    BY <1>4 DEF Decode, DecodeNext, DecodeRefused, DecodeBegins, InstallHandler, ArmTimer, ParseReport,
       StopDecoding, CheckDeadline, BlockAlarm, DisarmTimer, ConsumeAlarm, RestoreHandler,
       UnmaskAlarm, TimerFires, TakeAlarm
  <2> QED
    BY <1>2, <1>4, <2>1 DEF Decode, waitVars
<1>5. CASE Tick
  <2>1. clock' = clock + 1 /\ waitPc' = waitPc /\ UNCHANGED <<attempts, successful, activeWindow, result>>
    BY <1>5 DEF Tick, waitVars
  <2>2. waitPc' = "report" => clock' >= Deadline
    BY <1>1, <2>1 DEF PassesHold, Deadline
  <2> QED
    BY <2>1, <2>2, PassesRest
<1>6. CASE StartProbe
  <2>1. /\ waitPc = "loop" /\ UNCHANGED <<clock, successful, activeWindow, result>>
        /\ \/ waitPc' = "probing" /\ attempts' = attempts
           \/ waitPc' = "judge" /\ attempts' = Append(attempts, FailedProbe("enforcement"))
    BY <1>6 DEF StartProbe
  <2>2. CASE waitPc' = "probing" /\ attempts' = attempts
    BY <2>1, <2>2, PassesRest
  <2>3. CASE waitPc' = "judge" /\ attempts' = Append(attempts, FailedProbe("enforcement"))
    BY <2>1, <2>3, PassAwaits
  <2> QED
    BY <2>1, <2>2, <2>3
<1>7. CASE ReceiveFailure \/ ProbeExpires \/ Decoded
  <2>1. /\ waitPc \in {"probing", "decoding"} /\ waitPc' = "judge"
        /\ UNCHANGED <<successful, activeWindow, result>>
        /\ \E report : attempts' = Append(attempts, report)
    BY <1>7 DEF ReceiveFailure, ProbeExpires, Decoded, Finish
  <2> QED
    BY <2>1, PassAwaits
<1>8. CASE ReportOnce \/ ReportTimeout
  BY <1>8 DEF ReportOnce, ReportTimeout, Finish, PassesHold
<1>9. CASE Judge
  BY <1>1, <1>9, JudgeStep
<1>10. CASE ReceiveReport
  BY <1>10, PassesRest DEF ReceiveReport
<1>11. CASE Wake \/ LoopEnds
  <2>1. /\ waitPc \in {"sleep", "loop"} /\ UNCHANGED <<clock, attempts, successful, activeWindow, result>>
        /\ waitPc' = "loop" \/ (waitPc' = "report" /\ clock >= Deadline)
    BY <1>1, <1>11 DEF Wake, LoopEnds, Deadline
  <2> QED
    BY <2>1, PassesRest
<1> QED
  BY <1>3, <1>4, <1>5, <1>6, <1>7, <1>8, <1>9, <1>10, <1>11 DEF WaitNext, Program, Done

LEMMA ClockStep ==
    AlarmTypeOK /\ (mode # "wait" => clock = 0) /\ [WaitNext]_waitingVars =>
        /\ mode' = mode /\ activeWindow' = activeWindow
        /\ mode # "wait" => clock' = 0
        /\ clock \in Nat /\ clock' \in Nat /\ clock <= clock'
<1> SUFFICES ASSUME AlarmTypeOK, mode # "wait" => clock = 0, [WaitNext]_waitingVars
             PROVE  /\ mode' = mode /\ activeWindow' = activeWindow
                    /\ mode # "wait" => clock' = 0
                    /\ clock \in Nat /\ clock' \in Nat /\ clock <= clock'
  OBVIOUS
<1>1. clock \in Nat
  BY ClockAssumption DEF AlarmTypeOK
<1>2. mode' = mode /\ activeWindow' = activeWindow
  BY DEF WaitNext, Program, FetchManifest, ManifestFails, Request, SendReport, WorkerFails, WorkerVars,
     StartProbe, ReportOnce, ReceiveReport, ReceiveFailure, ProbeExpires, Decode, Decoded, Judge,
     Wake, LoopEnds, ReportTimeout, Tick, Deploy, Done, waitingVars, waitVars
<1>3. clock' = clock \/ (mode = "wait" /\ clock' = clock + 1)
  <2>1. CASE Decode
    BY <2>1 DEF Decode, DecodeNext, DecodeRefused, DecodeBegins, InstallHandler, ArmTimer, ParseReport,
       StopDecoding, CheckDeadline, BlockAlarm, DisarmTimer, ConsumeAlarm, RestoreHandler,
       UnmaskAlarm, TimerFires, TakeAlarm
  <2> QED
    BY <2>1 DEF WaitNext, Program, FetchManifest, ManifestFails, Request, SendReport, WorkerFails, WorkerVars,
       StartProbe, ReportOnce, ReceiveReport, ReceiveFailure, ProbeExpires, Decoded, Judge,
       Wake, LoopEnds, ReportTimeout, Tick, Deploy, Done, waitingVars
<1> QED
  BY <1>1, <1>2, <1>3

\* WaitTypeOK without what other lemmas keep: the alarm, the site and the passes.
Typed ==
    /\ mode \in {"wait", "release", "availability"} /\ activeWindow \in BOOLEAN
    /\ errors \in 0..MaxErrors
    /\ waitPc \in {"loop", "probing", "decoding", "judge", "sleep", "report", "done"}
    /\ startedAt \in 0..WaitTicks
    /\ probe.state \in {"off", "manifest", "requests", "sent", "lost"}

LEMMA TypedStep == WaitInv /\ [WaitNext]_waitingVars => Typed'
<1> SUFFICES ASSUME WaitInv, [WaitNext]_waitingVars PROVE Typed'
  OBVIOUS
<1>1. Typed /\ AlarmTypeOK /\ IsProbe(probe)
  BY DEF WaitInv, WaitTypeOK, Typed, ReportsHold
<1>2. mode' = mode /\ activeWindow' = activeWindow /\ clock \in Nat
  BY <1>1, ClockStep DEF WaitInv
<1>3. errors' \in 0..MaxErrors
  <2>1. errors' = errors \/ (errors < MaxErrors /\ errors' = errors + 1)
    BY DEF WaitNext, Program, FetchManifest, ManifestFails, Request, SendReport, WorkerFails, CountError,
       StartProbe, ReportOnce, ReceiveReport, ReceiveFailure, ProbeExpires, Decode, Decoded, Judge,
       Wake, LoopEnds, ReportTimeout, Tick, Deploy, Done, waitingVars, waitVars
  <2> QED
    BY <1>1, <2>1, DeploymentAssumption DEF Typed
<1>4. waitPc' \in {"loop", "probing", "decoding", "judge", "sleep", "report", "done"}
  BY <1>1 DEF Typed, WaitNext, Program, FetchManifest, ManifestFails, Request, SendReport, WorkerFails, WorkerVars,
     StartProbe, ReportOnce, ReceiveReport, ReceiveFailure, ProbeExpires, Finish, Decode, Decoded, Judge,
     Wake, LoopEnds, ReportTimeout, Tick, Deploy, Done, waitingVars, waitVars
<1>5. startedAt' \in 0..WaitTicks
  <2>1. startedAt' = startedAt \/ (startedAt' = clock /\ (mode = "wait" => clock < WaitTicks))
    BY DEF WaitNext, Program, FetchManifest, ManifestFails, Request, SendReport, WorkerFails, WorkerVars,
       StartProbe, ReportOnce, ReceiveReport, ReceiveFailure, ProbeExpires, Decode, Decoded, Judge,
       Wake, LoopEnds, ReportTimeout, Tick, Deploy, Done, waitingVars, waitVars, Deadline
  <2>2. startedAt \in 0..WaitTicks /\ WaitTicks \in Nat \ {0} /\ (mode # "wait" => clock = 0)
    BY <1>1, ClockAssumption DEF Typed, WaitInv
  <2> QED
    BY <1>2, <2>1, <2>2
<1>6. probe'.state \in {"off", "manifest", "requests", "sent", "lost"}
  <2>1. CASE FetchManifest \/ ManifestFails
    BY <2>1 DEF FetchManifest, ManifestFails
  <2>2. CASE Request
    <3>1. PICK state, todo, report : probe = [state |-> state, todo |-> todo, report |-> report]
      BY <1>1 DEF IsProbe
    <3>2. PICK ok : \E sources : Observe(ok, sources)
      BY <2>2 DEF Request
    <3>3. PICK sources : Observe(ok, sources)
      BY <3>2
    <3>4. probe'.state = probe.state
      BY <3>1, <3>3 DEF Observe
    <3> QED
      BY <1>1, <3>4 DEF Typed
  <2>3. CASE SendReport \/ WorkerFails
    <3>1. PICK state \in {"sent", "lost"} : probe' = [probe EXCEPT !.state = state]
      BY <2>3 DEF SendReport, WorkerFails
    <3> QED
      BY <1>1, <3>1 DEF IsProbe
  <2>4. CASE probe' = NoProbe \/ probe' = [NoProbe EXCEPT !.state = "manifest"] \/ probe' = probe
    BY <1>1, <2>4 DEF NoProbe, Typed
  <2> QED
    BY <2>1, <2>2, <2>3, <2>4 DEF WaitNext, Program, StartProbe, ReportOnce, ReceiveReport, ReceiveFailure,
       ProbeExpires, Finish, Decode, Decoded, Judge, Wake, LoopEnds, ReportTimeout, Tick, Deploy,
       Done, waitingVars, waitVars
<1> QED
  BY <1>1, <1>2, <1>3, <1>4, <1>5, <1>6 DEF Typed

LEMMA SuccessfulStep ==
    WaitInv /\ [WaitNext]_waitingVars =>
        /\ successful' \in Seq(Nat) /\ Len(successful') <= 2
        /\ \A i \in 1..Len(successful') : successful'[i] \in 1..Len(attempts')
<1> SUFFICES ASSUME WaitInv, [WaitNext]_waitingVars
             PROVE  /\ successful' \in Seq(Nat) /\ Len(successful') <= 2
                    /\ \A i \in 1..Len(successful') : successful'[i] \in 1..Len(attempts')
  OBVIOUS
<1>1. /\ successful \in Seq(Nat) /\ Len(successful) <= 2
      /\ \A i \in 1..Len(successful) : successful[i] \in 1..Len(attempts)
      /\ AttemptsAreListed /\ ReportsHold /\ PassesHold /\ AlarmTypeOK
  BY DEF WaitInv, WaitTypeOK
<1>2. Len(attempts) \in Nat
  BY <1>1, LenProperties DEF AttemptsAreListed
<1>3. CASE Judge
  <2>1. attempts' = attempts /\ Len(attempts) > 0 /\ clock \in Nat
    BY <1>1, <1>3, ClockAssumption DEF Judge, PassesHold, AlarmTypeOK
  <2>2. \/ successful' \in {successful, << >>, << Len(attempts) >>}
        \/ successful' = << Len(attempts) - 1, Len(attempts) >> /\ Len(attempts) > 1
    BY <1>1, <1>3, <2>1, JudgeStep
  <2>3. CASE successful' = successful
    BY <1>1, <2>1, <2>3
  <2>6. CASE successful' = << >>
    BY <2>6
  <2>4. CASE successful' = << Len(attempts) >>
    BY <1>2, <2>1, <2>4
  <2>5. CASE successful' = << Len(attempts) - 1, Len(attempts) >> /\ Len(attempts) > 1
    <3>1. Len(attempts) - 1 \in 1..Len(attempts) /\ Len(attempts) \in 1..Len(attempts)
      BY <1>2, <2>5
    <3>2. successful' \in Seq(Nat) /\ Len(successful') = 2
      BY <1>2, <2>5
    <3>3. successful'[1] = Len(attempts) - 1 /\ successful'[2] = Len(attempts)
      BY <2>5
    <3> QED
      BY <2>1, <3>1, <3>2, <3>3
  <2> QED
    BY <2>2, <2>3, <2>4, <2>5, <2>6
<1>4. CASE ~Judge
  <2>1. /\ successful' = successful
        /\ attempts' = attempts \/ (\E report : attempts' = Append(attempts, report))
    BY <1>4 DEF WaitNext, Program, FetchManifest, ManifestFails, Request, SendReport, WorkerFails, WorkerVars,
       StartProbe, ReportOnce, ReceiveReport, ReceiveFailure, ProbeExpires, Finish, Decode, Decoded,
       Wake, LoopEnds, ReportTimeout, Tick, Deploy, Done, waitingVars, waitVars
  <2>2. Len(attempts') \in Nat /\ Len(attempts) <= Len(attempts')
    BY <1>1, <1>2, <2>1, Attempted
  <2> QED
    BY <1>1, <1>2, <2>1, <2>2
<1> QED
  BY <1>3, <1>4

LEMMA WaitInvInit == WaitInit => WaitInv
<1> SUFFICES ASSUME WaitInit PROVE WaitInv
  OBVIOUS
<1>1. AlarmTypeOK /\ AlarmHolds
  BY AlarmInvInit
<1>2. activeWindow \in BOOLEAN
  BY DeploymentAssumption DEF WaitInit
<1>3. WaitTypeOK
  <2>1. errors \in 0..MaxErrors /\ startedAt \in 0..WaitTicks
    BY ClockAssumption, DeploymentAssumption DEF WaitInit
  <2>2. successful = << >> /\ successful \in Seq(Nat) /\ Len(successful) = 0
    BY DEF WaitInit
  <2>3. live \in Deployments /\ probe.state = "off"
    BY LiveIsCounted DEF WaitInit, NoProbe
  <2>4. mode \in {"wait", "release", "availability"} /\ waitPc = "loop"
    BY DEF WaitInit
  <2> QED
    BY <1>1, <1>2, <2>1, <2>2, <2>3, <2>4 DEF WaitTypeOK
<1>4. AttemptsAreListed
  <2>1. attempts \in Seq({})
    BY DEF WaitInit
  <2> QED
    BY <2>1 DEF AttemptsAreListed
<1>5. ReportsHold
  <2>1. live \in Deployments /\ Len(attempts) = 0
    BY LiveIsCounted DEF WaitInit
  <2>2. IsProbe(probe) /\ probe.report.sources = {} /\ probe.report.contract = NoContract
    BY DEF WaitInit, IsProbe, NoProbe, EmptyReport
  <2> QED
    BY <2>1, <2>2 DEF ReportsHold, FromTheManifestOn
<1>6. PassesHold
  BY DEF WaitInit, PassesHold
<1> QED
  BY <1>1, <1>3, <1>4, <1>5, <1>6 DEF WaitInit, WaitInv

\* However the site moves and the worker fails, a report's answers follow its manifest, and
\* a pass that counts is the last attempt or the one before it.
THEOREM WaitInvariant == WaitSpec => []WaitInv
<1>1. WaitInv /\ [WaitNext]_waitingVars => WaitInv'
  <2> SUFFICES ASSUME WaitInv, [WaitNext]_waitingVars PROVE WaitInv'
    OBVIOUS
  <2>1. /\ AlarmTypeOK /\ AlarmHolds /\ AttemptsAreListed /\ ReportsHold /\ PassesHold
        /\ mode # "wait" => clock = 0
    BY DEF WaitInv, WaitTypeOK
  <2>2. AlarmTypeOK' /\ AlarmHolds'
    BY <2>1, AlarmStep
  <2>3. AttemptsAreListed' /\ ReportsHold'
    BY <2>1, ReportsStep
  <2>4. PassesHold'
    BY <2>1, PassesStep
  <2>5. mode' # "wait" => clock' = 0
    BY <2>1, ClockStep
  <2>6. WaitTypeOK'
    BY <2>2, <2>3, TypedStep, SuccessfulStep DEF WaitTypeOK, Typed, ReportsHold
  <2> QED
    BY <2>2, <2>3, <2>4, <2>5, <2>6 DEF WaitInv
<1> QED
  BY WaitInvInit, <1>1, PTL DEF WaitSpec

\* The variables of the wait and of its alarm keep their types.
THEOREM WaitTypeCorrect == WaitSpec => []WaitTypeOK
<1>1. WaitInv => WaitTypeOK
  BY DEF WaitInv
<1> QED
  BY WaitInvariant, <1>1, PTL

(***************************************************************************)
(* The confirmation.  Every deployment has a manifest of its own: to upload *)
(* the same site again is no other deployment, and the site does not come   *)
(* back to an earlier one while it is waited for.                           *)
(***************************************************************************)
DistinctDeployments ==
    \A d, e \in Deployments : Content[d].manifest = Content[e].manifest => d = e

LEMMA OneDeployment ==
    ASSUME DistinctDeployments, ReportsHold, Len(attempts) \in Nat, Len(attempts) > 1,
           attempts[Len(attempts) - 1].contract = attempts[Len(attempts)].contract,
           attempts[Len(attempts)].contract # NoContract
    PROVE  \E d \in Deployments : /\ attempts[Len(attempts) - 1].sources = {d}
                                  /\ Content[d].manifest = attempts[Len(attempts) - 1].contract
<1> DEFINE first  == attempts[Len(attempts) - 1]
           second == attempts[Len(attempts)]
<1>1. Len(attempts) - 1 \in 1..Len(attempts) /\ Len(attempts) \in 1..Len(attempts)
  OBVIOUS
<1>2. FromTheManifestOn(first) /\ FromTheManifestOn(second) /\ NoLater(first, second)
  <2>1. Len(attempts) - 1 < Len(attempts)
    OBVIOUS
  <2> QED
    BY <1>1, <2>1 DEF ReportsHold
<1> HIDE DEF first, second
<1>3. first.contract = second.contract /\ second.contract # NoContract
  BY DEF first, second
<1>4. PICK d \in first.sources : Content[d].manifest = first.contract /\ \A f \in first.sources : d <= f
  BY <1>2, <1>3 DEF FromTheManifestOn
<1>5. PICK e \in second.sources : Content[e].manifest = second.contract
  BY <1>2, <1>3 DEF FromTheManifestOn
<1>6. \A f \in first.sources \cup second.sources : f \in Deployments /\ f \in Nat
  BY <1>2, LiveIsCounted DEF FromTheManifestOn, ReportsHold
<1>7. d = e
  BY <1>3, <1>4, <1>5, <1>6 DEF DistinctDeployments
<1>8. \A f \in first.sources : f = d
  BY <1>2, <1>4, <1>6, <1>7 DEF NoLater
<1> QED
  BY <1>4, <1>6, <1>8 DEF first

LEMMA ResultsAreFinal ==
    [WaitNext]_waitingVars =>
        \/ result' = result
        \/ Judge /\ (result' = result \/ result'.timedOut = FALSE)
        \/ ReportTimeout /\ result'.ok = FALSE
        \/ ReportOnce /\ mode # "wait" /\ result'.timedOut = FALSE
<1> SUFFICES ASSUME [WaitNext]_waitingVars
             PROVE  \/ result' = result
                    \/ Judge /\ (result' = result \/ result'.timedOut = FALSE)
                    \/ ReportTimeout /\ result'.ok = FALSE
                    \/ ReportOnce /\ mode # "wait" /\ result'.timedOut = FALSE
  OBVIOUS
<1>1. CASE Judge
  BY <1>1 DEF Judge
<1>2. CASE ReportTimeout
  BY <1>2 DEF ReportTimeout
<1>3. CASE ReportOnce
  BY <1>3 DEF ReportOnce
<1> QED
  BY <1>1, <1>2, <1>3 DEF WaitNext, Program, FetchManifest, ManifestFails, Request, SendReport, WorkerFails,
     WorkerVars, StartProbe, ReceiveReport, ReceiveFailure, ProbeExpires, Decode, Decoded, Wake,
     LoopEnds, Tick, Deploy, Done, waitingVars, waitVars

LEMMA ConfirmedStep ==
    ASSUME DistinctDeployments, WaitInv, ConfirmedFromOneDeployment, [WaitNext]_waitingVars
    PROVE  ConfirmedFromOneDeployment'
<1> SUFFICES ASSUME waitPc' = "done", mode' = "wait", result'.ok
             PROVE  ConfirmedFromOneDeployment'
  BY DEF ConfirmedFromOneDeployment
<1>1. /\ AttemptsAreListed /\ ReportsHold /\ PassesHold /\ clock \in Nat
      /\ mode' = mode /\ activeWindow' = activeWindow
  BY ClockStep DEF WaitInv, WaitTypeOK
<1>2. CASE waitPc = "done"
  <2>1. attempts' = attempts /\ result' = result
    BY <1>1, <1>2 DEF WaitNext, Program, FetchManifest, ManifestFails, Request, SendReport, WorkerFails,
       WorkerVars, StartProbe, ReportOnce, ReceiveReport, ReceiveFailure, ProbeExpires, Decode,
       Decoded, Judge, Wake, LoopEnds, ReportTimeout, Tick, Deploy, Done, waitingVars, waitVars
  <2> QED
    BY <1>1, <1>2, <2>1 DEF ConfirmedFromOneDeployment, CompleteStrictReport, ReportOk
<1>3. CASE waitPc # "done"
  <2>1. result = NoResult /\ ~result.ok
    BY <1>1, <1>3 DEF PassesHold, NoResult
  <2>2. Judge
    BY <1>1, <2>1, ResultsAreFinal
  <2>3. /\ Len(attempts) > 1
        /\ result'.indices = << Len(attempts) - 1, Len(attempts) >>
        /\ attempts[Len(attempts) - 1].contract = attempts[Len(attempts)].contract
        /\ CompleteStrictReport(attempts[Len(attempts) - 1], activeWindow)
        /\ CompleteStrictReport(attempts[Len(attempts)], activeWindow)
    BY <1>1, <2>1, <2>2, JudgeStep
  <2>4. Len(attempts) \in Nat
    BY <1>1, LenProperties DEF AttemptsAreListed
  <2>5. attempts[Len(attempts)].contract # NoContract
    BY <2>3 DEF CompleteStrictReport
  <2>6. PICK d \in Deployments : /\ attempts[Len(attempts) - 1].sources = {d}
                                /\ Content[d].manifest = attempts[Len(attempts) - 1].contract
    BY <1>1, <2>3, <2>4, <2>5, OneDeployment
  <2>7. attempts' = attempts
    BY <2>2 DEF Judge
  <2>8. /\ result'.indices[1] = Len(attempts) - 1 /\ result'.indices[2] = Len(attempts)
        /\ result'.indices[2] = result'.indices[1] + 1
    BY <2>3, <2>4
  <2> DEFINE first  == attempts'[result'.indices[1]]
             second == attempts'[result'.indices[2]]
  <2>9. /\ first = attempts[Len(attempts) - 1] /\ second = attempts[Len(attempts)]
        /\ activeWindow' = activeWindow
    BY <1>1, <2>7, <2>8
  <2>10. /\ first.contract = second.contract
         /\ CompleteStrictReport(first, activeWindow') /\ CompleteStrictReport(second, activeWindow')
         /\ \E e \in Deployments : first.sources = {e} /\ Content[e].manifest = first.contract
    BY <2>3, <2>6, <2>9
  <2> QED
    BY <2>8, <2>10 DEF ConfirmedFromOneDeployment, CompleteStrictReport, ReportOk
<1> QED
  BY <1>2, <1>3

\* A wait is confirmed before its deadline and by two passes over one deployment, and one
\* that gives up says so, whenever the site moves, the worker dies or the alarm rings
\* (lines 308-332 of production_wait.py).
THEOREM WaitConfirmsSoundly == ASSUME DistinctDeployments PROVE WaitSpec => ConfirmedSoundly
<1>1. WaitInit => ConfirmedFromOneDeployment
  BY DEF WaitInit, ConfirmedFromOneDeployment
<1>2. WaitInv /\ ConfirmedFromOneDeployment /\ [WaitNext]_waitingVars => ConfirmedFromOneDeployment'
  BY ConfirmedStep
<1> DEFINE Soundly == /\ ConfirmedFromOneDeployment'
                      /\ (result'.ok /\ ~result.ok /\ mode = "wait") => clock < Deadline
                      /\ (result'.timedOut /\ ~result.timedOut) =>
                            /\ clock >= Deadline
                            /\ attempts'[Len(attempts')].error = "deadline"
<1>3. WaitInv /\ ConfirmedFromOneDeployment /\ [WaitNext]_waitingVars => [Soundly]_waitingVars
  <2> SUFFICES ASSUME WaitInv, ConfirmedFromOneDeployment, WaitNext PROVE Soundly
    BY DEF waitingVars
  <2>1. AttemptsAreListed /\ ReportsHold /\ PassesHold /\ clock \in Nat
    BY ClockStep DEF WaitInv, WaitTypeOK
  <2>2. (result'.ok /\ ~result.ok /\ mode = "wait") => clock < Deadline
    <3> SUFFICES ASSUME result'.ok, ~result.ok, mode = "wait" PROVE clock < Deadline
      OBVIOUS
    <3>1. Judge
      BY ResultsAreFinal
    <3> QED
      BY <2>1, <3>1, JudgeStep
  <2>3. ASSUME result'.timedOut, ~result.timedOut
        PROVE  clock >= Deadline /\ attempts'[Len(attempts')].error = "deadline"
    <3>1. ReportTimeout
      BY <2>3, ResultsAreFinal
    <3>2. clock >= Deadline
      BY <2>1, <3>1 DEF ReportTimeout, PassesHold
    <3>3. CASE attempts' = Append(attempts, FailedProbe("deadline"))
      <4>1. attempts'[Len(attempts')] = FailedProbe("deadline")
        BY <2>1, <3>3, Attempted
      <4> QED
        BY <3>2, <4>1 DEF FailedProbe, EmptyReport
    <3>4. CASE attempts' = attempts /\ attempts # << >> /\ LastAttempt.error = "deadline"
      BY <3>2, <3>4 DEF LastAttempt
    <3> QED
      BY <3>1, <3>3, <3>4 DEF ReportTimeout
  <2> QED
    BY <2>2, <2>3, ConfirmedStep
<1> HIDE DEF Soundly
<1>4. WaitSpec => [][Soundly]_waitingVars
  BY WaitInvariant, <1>1, <1>2, <1>3, PTL DEF WaitSpec
<1> QED
  BY <1>4 DEF ConfirmedSoundly, Soundly

(***************************************************************************)
(* The link check and its alert (link_check_state.py, link_rot_alert.py).  *)
(***************************************************************************)
AlertStates == {"none", "open", "closed"}
CheckSteps == {"restore", "probe", "find", "act", "save"}
Checks == [step : CheckSteps, file : SUBSET Links, found : SUBSET Links, confirmed : SUBSET Links,
           wrote : BOOLEAN, alert : Alerts \cup {NoAlert}]
LinksTypeOK ==
  /\ cache \in SUBSET Links
  /\ alerts \in [Alerts -> AlertStates]
  /\ streak \in [Links -> 0..2]
  /\ touches \in Nat
  /\ check # NoCheck => check \in Checks

\* Who is in a state file was found gone by the check that wrote it, and no recorded check
\* has found otherwise since; who is confirmed was found so twice.
StreakInv ==
  /\ \A u \in cache : streak[u] >= 1
  /\ check # NoCheck =>
       /\ \A u \in check.file : streak[u] >= 1
       /\ \A u \in check.confirmed : streak[u] >= 2
       /\ check.wrote => check.file = check.found
       /\ check.step \in {"restore", "probe"} => ~check.wrote
       /\ ~check.wrote => check.confirmed = {}

\* A check that found no open alert is beside those only that people reopened since.
OpenInv ==
  check # NoCheck /\ check.step = "act" /\ check.alert = NoAlert => OpenAlerts \subseteq reopened

LinksInv == LinksTypeOK /\ StreakInv /\ OpenInv

\* Every step keeps the invariant, raises only what was confirmed, and opens an alert only
\* beside reopened ones.
LEMMA LinksStep ==
  ASSUME LinksInv, [LinksNext]_linkVars
  PROVE  /\ LinksInv'
         /\ (alerts' # alerts \/ raised' # raised) /\ touches' = touches =>
               \A u \in raised' : raised' = check.confirmed => streak[u] >= 2
         /\ (\E a \in Alerts : alerts[a] = "none" /\ alerts'[a] = "open") => OpenAlerts \subseteq reopened
<1> USE DEF LinksInv
<1>0. /\ cache \in SUBSET Links /\ alerts \in [Alerts -> AlertStates] /\ streak \in [Links -> 0..2]
      /\ touches \in Nat /\ (check # NoCheck => check \in Checks)
  BY DEF LinksTypeOK
<1>00. OpenAlerts \subseteq Alerts
  BY DEF OpenAlerts
<1>1. CASE UNCHANGED linkVars
  BY <1>1 DEF linkVars, LinksTypeOK, StreakInv, OpenInv, OpenAlerts
<1>2. CASE StartCheck
  <2>1. /\ check' = [step |-> "restore", file |-> {}, found |-> {}, confirmed |-> {},
                     wrote |-> FALSE, alert |-> NoAlert]
        /\ UNCHANGED <<cache, alerts, raised, streak, reopened, touches>>
    BY <1>2 DEF StartCheck
  <2>2. check' \in Checks
    BY <2>1 DEF Checks, CheckSteps
  <2>3. LinksTypeOK'
    BY <1>0, <2>1, <2>2 DEF LinksTypeOK
  <2>4. StreakInv'
    BY <2>1 DEF StreakInv
  <2>5. OpenInv'
    BY <2>1 DEF OpenInv, OpenAlerts
  <2> QED BY <2>1, <2>3, <2>4, <2>5
<1>3. CASE RestoreState
  <2>1. /\ check # NoCheck /\ check.step = "restore" /\ check \in Checks
        /\ check' = [check EXCEPT !.step = "probe", !.file = cache]
        /\ UNCHANGED <<cache, alerts, raised, streak, reopened, touches>>
    BY <1>0, <1>3 DEF RestoreState
  <2>2. check' = [step |-> "probe", file |-> cache, found |-> check.found,
                  confirmed |-> check.confirmed, wrote |-> check.wrote, alert |-> check.alert]
    BY <2>1 DEF Checks
  <2>3. check' \in Checks
    BY <1>0, <2>1, <2>2 DEF Checks, CheckSteps
  <2>4. LinksTypeOK'
    BY <1>0, <2>1, <2>3 DEF LinksTypeOK
  <2>5. StreakInv'
    BY <2>1, <2>2 DEF StreakInv
  <2>6. OpenInv'
    BY <2>1, <2>2 DEF OpenInv, OpenAlerts
  <2> QED BY <2>1, <2>4, <2>5, <2>6
<1>4. CASE RunLinkCheck
  <2> DEFINE gone == {u \in Links : CauseConfirmsRot(u)}
  <2>1. /\ check # NoCheck /\ check.step = "probe" /\ check \in Checks
        /\ check' = [check EXCEPT !.step = "find", !.found = gone, !.wrote = TRUE,
                                  !.confirmed = ConfirmedFailures(gone, check.file),
                                  !.file = gone]
        /\ streak' = [u \in Links |-> IF page[u] = "gone" /\ streak[u] < 2
                                      THEN streak[u] + 1 ELSE streak[u]]
        /\ UNCHANGED <<cache, alerts, raised, touches>>
    BY <1>0, <1>4 DEF RunLinkCheck
  <2>2. check' = [step |-> "find", file |-> gone, found |-> gone,
                  confirmed |-> gone \cap check.file, wrote |-> TRUE, alert |-> check.alert]
    <3>1. PICK g : g = gone
      OBVIOUS
    <3>2. check' = [check EXCEPT !.step = "find", !.found = g, !.wrote = TRUE,
                                 !.confirmed = g \cap check.file, !.file = g]
      BY <2>1, <3>1 DEF ConfirmedFailures
    <3>3. check' = [step |-> "find", file |-> g, found |-> g,
                    confirmed |-> g \cap check.file, wrote |-> TRUE, alert |-> check.alert]
      BY <2>1, <3>2 DEF Checks
    <3> QED BY <3>1, <3>3
  <2>3. check' \in Checks
    <3>1. PICK g \in SUBSET Links : g = gone
      OBVIOUS
    <3>2. PICK both \in SUBSET Links : both = g \cap check.file
      OBVIOUS
    <3>3. check' = [step |-> "find", file |-> g, found |-> g,
                    confirmed |-> both, wrote |-> TRUE, alert |-> check.alert]
      BY <2>2, <3>1, <3>2
    <3>4. check.alert \in Alerts \cup {NoAlert}
      BY <2>1 DEF Checks
    <3> QED BY <3>3, <3>4 DEF Checks, CheckSteps
  <2>4. \A u \in Links : /\ streak'[u] \in 0..2 /\ streak'[u] >= streak[u]
                         /\ page[u] = "gone" => streak'[u] >= 1
                         /\ page[u] = "gone" /\ streak[u] >= 1 => streak'[u] >= 2
    BY <1>0, <2>1
  <2>5. streak' \in [Links -> 0..2]
    BY <2>1, <2>4
  <2>6. LinksTypeOK'
    BY <1>0, <2>1, <2>3, <2>5 DEF LinksTypeOK
  <2>7. StreakInv'
    <3>1. \A u \in cache' : streak'[u] >= 1
      BY <1>0, <2>1, <2>4, <2>5 DEF StreakInv
    <3>2. \A u \in gone : streak'[u] >= 1
      BY <2>4 DEF CauseConfirmsRot
    <3>3. \A u \in gone \cap check.file : streak'[u] >= 2
      BY <2>1, <2>4 DEF CauseConfirmsRot, StreakInv
    <3> QED BY <2>2, <3>1, <3>2, <3>3 DEF StreakInv
  <2>8. OpenInv'
    BY <2>1, <2>2 DEF OpenInv, OpenAlerts
  <2> QED BY <2>1, <2>6, <2>7, <2>8
<1>5. CASE FindOpenAlert
  <2>1. PICK a \in IF OpenAlerts = {} THEN {NoAlert} ELSE OpenAlerts :
           check' = [check EXCEPT !.step = "act", !.alert = a]
    BY <1>5 DEF FindOpenAlert
  <2>2. /\ check # NoCheck /\ check.step = "find" /\ check \in Checks
        /\ UNCHANGED <<cache, alerts, raised, streak, touches>>
    BY <1>0, <1>5 DEF FindOpenAlert
  <2>3. check' = [step |-> "act", file |-> check.file, found |-> check.found,
                  confirmed |-> check.confirmed, wrote |-> check.wrote, alert |-> a]
    BY <2>1, <2>2 DEF Checks
  <2>4. check' \in Checks
    BY <1>00, <2>1, <2>2, <2>3 DEF Checks, CheckSteps
  <2>5. LinksTypeOK'
    BY <1>0, <2>2, <2>4 DEF LinksTypeOK
  <2>6. StreakInv'
    BY <2>2, <2>3 DEF StreakInv
  <2>7. a = NoAlert => OpenAlerts = {}
    BY <1>00, <2>1, LinksAssumption DEF Alerts
  <2>8. OpenInv'
    BY <2>2, <2>3, <2>7 DEF OpenInv, OpenAlerts
  <2> QED BY <2>2, <2>5, <2>6, <2>8
<1>6. ASSUME NEW alerts2, NEW raised2, NEW yes \in BOOLEAN, NEW there \in BOOLEAN,
             AtAct(yes, there), Acted(alerts2, raised2)
      PROVE  /\ check # NoCheck /\ check \in Checks /\ check.step = "act"
             /\ alerts' = alerts2 /\ raised' = raised2 /\ UNCHANGED <<cache, streak, touches>>
             /\ StreakInv' /\ (check' \in Checks) /\ check'.step = "save"
             /\ (check.confirmed # {}) = yes /\ (check.alert # NoAlert) = there
             /\ \A u \in check.confirmed : streak[u] >= 2
  <2>1. /\ check # NoCheck /\ check.step = "act" /\ check \in Checks
        /\ check' = [check EXCEPT !.step = "save"]
        /\ alerts' = alerts2 /\ raised' = raised2 /\ UNCHANGED <<cache, streak, touches>>
        /\ (check.confirmed # {}) = yes /\ (check.alert # NoAlert) = there
    BY <1>0, <1>6 DEF AtAct, Acted
  <2>2. check' = [step |-> "save", file |-> check.file, found |-> check.found,
                  confirmed |-> check.confirmed, wrote |-> check.wrote, alert |-> check.alert]
    BY <2>1 DEF Checks
  <2>3. check' \in Checks
    BY <2>1, <2>2 DEF Checks, CheckSteps
  <2>4. StreakInv'
    BY <2>1, <2>2 DEF StreakInv
  <2> QED BY <2>1, <2>2, <2>3, <2>4 DEF StreakInv
<1>7. CASE QuietAlert \/ UpdateAlert
  <2>1. CASE QuietAlert
    <3>1. AtAct(FALSE, FALSE) /\ Acted(alerts, raised)
      BY <2>1 DEF QuietAlert
    <3>2. /\ UNCHANGED <<alerts, raised, cache, streak, touches>> /\ StreakInv'
          /\ check' \in Checks /\ check'.step = "save"
      BY <1>6, <3>1
    <3> QED BY <1>0, <3>2 DEF LinksTypeOK, OpenInv, OpenAlerts
  <2>2. CASE UpdateAlert
    <3>1. AtAct(TRUE, TRUE) /\ Acted(alerts, check.confirmed)
      BY <2>2 DEF UpdateAlert
    <3>2. /\ UNCHANGED <<alerts, cache, streak, touches>> /\ raised' = check.confirmed /\ StreakInv'
          /\ check' \in Checks /\ check'.step = "save" /\ \A u \in check.confirmed : streak[u] >= 2
      BY <1>6, <3>1
    <3> QED BY <1>0, <3>2 DEF LinksTypeOK, OpenInv, OpenAlerts
  <2> QED BY <1>7, <2>1, <2>2
<1>8. CASE CloseAlert
  <2>1. AtAct(FALSE, TRUE) /\ Acted(Closed(check.alert), raised)
    BY <1>8 DEF CloseAlert
  <2>2. /\ alerts' = Closed(check.alert) /\ raised' = raised /\ UNCHANGED <<cache, streak, touches>>
        /\ StreakInv' /\ check' \in Checks /\ check'.step = "save"
        /\ (check.confirmed # {}) = FALSE
    BY <1>6, <2>1
  <2>3. alerts' \in [Alerts -> AlertStates]
    BY <1>0, <2>2 DEF Closed, AlertStates
  <2>4. \A a \in Alerts : alerts[a] = "none" => alerts'[a] # "open"
    BY <1>0, <2>2 DEF Closed
  <2>5. OpenInv'
    BY <2>2 DEF OpenInv
  <2> QED BY <1>0, <2>2, <2>3, <2>4, <2>5 DEF LinksTypeOK
<1>9. CASE CreateAlert
  <2>1. AtAct(TRUE, FALSE) /\ Acted([alerts EXCEPT ![NewAlert] = "open"], check.confirmed)
    BY <1>9 DEF CreateAlert
  <2>2. /\ alerts' = [alerts EXCEPT ![NewAlert] = "open"] /\ raised' = check.confirmed
        /\ UNCHANGED <<cache, streak, touches>>
        /\ StreakInv' /\ check' \in Checks /\ check'.step = "save"
        /\ check # NoCheck /\ check.step = "act" /\ (check.alert # NoAlert) = FALSE
        /\ \A u \in check.confirmed : streak[u] >= 2
    BY <1>6, <2>1
  <2>3. alerts' \in [Alerts -> AlertStates]
    BY <1>0, <2>2 DEF AlertStates
  <2>4. OpenAlerts \subseteq reopened
    BY <2>2 DEF OpenInv
  <2>5. OpenInv'
    BY <2>2 DEF OpenInv
  <2> QED BY <1>0, <2>2, <2>3, <2>4, <2>5 DEF LinksTypeOK
<1>10. CASE SaveState
  <2>1. /\ check # NoCheck /\ check \in Checks /\ cache' = check.file /\ check' = NoCheck
        /\ streak' = IF check.wrote
                     THEN [u \in Links |-> IF u \in check.found THEN streak[u] ELSE 0] ELSE streak
        /\ UNCHANGED <<alerts, raised, touches>>
    BY <1>0, <1>10 DEF SaveState
  <2>2. streak' \in [Links -> 0..2] /\ cache' \in SUBSET Links
    BY <1>0, <2>1 DEF Checks
  <2>3. StreakInv'
    BY <1>0, <2>1, <2>2 DEF StreakInv
  <2> QED BY <1>0, <2>1, <2>2, <2>3 DEF LinksTypeOK, OpenInv, OpenAlerts
<1>11. CASE CheckFails
  <2>1. /\ check # NoCheck /\ check \in Checks /\ check' = [check EXCEPT !.step = "save"]
        /\ UNCHANGED <<cache, alerts, raised, streak, reopened, touches>>
    BY <1>0, <1>11 DEF CheckFails
  <2>2. check' = [step |-> "save", file |-> check.file, found |-> check.found,
                  confirmed |-> check.confirmed, wrote |-> check.wrote, alert |-> check.alert]
    BY <2>1 DEF Checks
  <2>3. check' \in Checks
    BY <2>1, <2>2 DEF Checks, CheckSteps
  <2>4. StreakInv' /\ OpenInv'
    BY <2>1, <2>2 DEF StreakInv, OpenInv, OpenAlerts
  <2> QED BY <1>0, <2>1, <2>3, <2>4 DEF LinksTypeOK
<1>12. CASE RunnerDies
  <2>1. check' = NoCheck /\ UNCHANGED <<cache, alerts, raised, streak, reopened, touches>>
    BY <1>12 DEF RunnerDies
  <2> QED BY <1>0, <2>1 DEF LinksTypeOK, StreakInv, OpenInv, OpenAlerts
<1>13. CASE EvictCache
  <2>1. cache' = {} /\ UNCHANGED <<check, alerts, raised, streak, reopened, touches>>
    BY <1>13 DEF EvictCache
  <2> QED BY <1>0, <2>1 DEF LinksTypeOK, StreakInv, OpenInv, OpenAlerts
<1>14. CASE PageChanges
  <2>1. UNCHANGED <<cache, check, alerts, raised, streak, reopened, touches>>
    BY <1>14 DEF PageChanges
  <2> QED BY <1>0, <2>1 DEF LinksTypeOK, StreakInv, OpenInv, OpenAlerts
<1>15. CASE TouchAlert
  <2>1. PICK a \in Alerts :
           \/ alerts[a] = "open" /\ alerts' = [alerts EXCEPT ![a] = "closed"] /\ reopened' = reopened
           \/ alerts[a] = "closed" /\ alerts' = [alerts EXCEPT ![a] = "open"] /\ reopened' = reopened \cup {a}
    BY <1>15 DEF TouchAlert
  <2>2. touches' = touches + 1 /\ UNCHANGED <<cache, raised, streak, check>>
    BY <1>15 DEF TouchAlert
  <2>3. /\ alerts' \in [Alerts -> AlertStates]
        /\ OpenAlerts \subseteq reopened => OpenAlerts' \subseteq reopened'
        /\ \A b \in Alerts : alerts[b] = "none" => alerts'[b] # "open"
    BY <1>0, <2>1 DEF AlertStates, OpenAlerts
  <2>5. OpenInv'
    BY <2>2, <2>3 DEF OpenInv
  <2>6. LinksTypeOK' /\ StreakInv' /\ touches' # touches
    BY <1>0, <2>2, <2>3 DEF LinksTypeOK, StreakInv
  <2> QED BY <2>3, <2>5, <2>6
<1> QED
  BY <1>1, <1>2, <1>3, <1>4, <1>5, <1>7, <1>8, <1>9, <1>10, <1>11, <1>12, <1>13, <1>14, <1>15
     DEF LinksNext, CheckStep

(***************************************************************************)
(* An alert names only links that two checks found gone without a recorded *)
(* check in between that did not, and none is opened beside an open one    *)
(* that people did not reopen after the check looked: for any links and    *)
(* alerts, whatever steps fail, runners die or caches are evicted          *)
(* (confirmed_failures, next_state, plan_alert_action).                    *)
(***************************************************************************)
THEOREM AlertsWereConfirmed == LinksSpec => AlertsAreConfirmed
<1>1. LinksInit => LinksInv
  <2> SUFFICES ASSUME LinksInit PROVE LinksInv
    OBVIOUS
  <2>1. LinksTypeOK /\ StreakInv
    BY DEF LinksInit, LinksTypeOK, StreakInv, AlertStates
  <2>3. OpenInv
    BY DEF LinksInit, OpenInv
  <2> QED BY <2>1, <2>3 DEF LinksInv
<1>2. LinksInv /\ [LinksNext]_linkVars => LinksInv'
  BY LinksStep
<1>3. LinksInv /\ LinksInv' /\ [LinksNext]_linkVars =>
        [ /\ (alerts' # alerts \/ raised' # raised) /\ touches' = touches =>
              \A u \in raised' : raised' = check.confirmed => streak[u] >= 2
          /\ (\E a \in Alerts : alerts[a] = "none" /\ alerts'[a] = "open") =>
                OpenAlerts \subseteq reopened ]_linkVars
  BY LinksStep DEF LinksInv
<1> QED BY <1>1, <1>2, <1>3, PTL DEF LinksSpec, AlertsAreConfirmed
=============================================================================
