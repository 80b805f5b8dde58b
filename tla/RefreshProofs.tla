---------------------------- MODULE RefreshProofs ----------------------------
(***************************************************************************)
(* Proofs about SourceRefresh, for any processes, contents, times and      *)
(* disturbances, and about PreliminaryRefresh, for any sources, exports,   *)
(* jobs and Updates.                                                       *)
(***************************************************************************)
EXTENDS SourceRefresh, PreliminaryRefresh, WellFoundedInduction, TLAPS

\* Among some events or captures, one is not older than the others.
HasLatest(S) == S = {} \/ \E e \in S : \A f \in S : f.at <= e.at

KeptOf(c) == {m \in captures : m.kept /\ m.content = c}

LatestInv == HasLatest(events) /\ \A c \in Contents : HasLatest(KeptOf(c))

\* Who works has the lock, and still knows what the history ends with.
LockInv ==
  \A p \in Processes : pc[p] # "idle" =>
    /\ lock = p
    /\ task[p] \in Request
    /\ latest[p] = LatestOf(events)
    /\ Extends(task[p].at, latest[p])

\* What a process extracts from is recorded and holds the bytes it read.
CaptureInv ==
  \A p \in Processes :
    /\ pc[p] = "idle" => capture[p] = Nothing
    /\ pc[p] \in {"check", "extract", "commit"} /\ capture[p] # Nothing =>
         capture[p] \in captures /\ capture[p].content = task[p].content
    /\ pc[p] \in {"extract", "commit"} => capture[p] # Nothing
    /\ pc[p] = "check" /\ task[p].mode = "facts_only" => capture[p] # Nothing
    /\ pc[p] = "commit" => NewSnapshot(p) \in snapshots

SnapshotInv ==
  \A s \in snapshots : s.capture \in captures /\ s.capture.content = s.content

RInv ==
  /\ TypeOK /\ LatestInv /\ LockInv /\ CaptureInv /\ SnapshotInv
  /\ HistoryIsAChain /\ CommittedIsComplete /\ FactsMatchCapture

LEMMA LatestIsIn ==
  ASSUME NEW S, HasLatest(S), S # {}
  PROVE  LatestOf(S) \in S /\ \A f \in S : f.at <= LatestOf(S).at
<1>1. \E e \in S : \A f \in S : f.at <= e.at
  BY DEF HasLatest
<1>2. LatestOf(S) = CHOOSE e \in S : \A f \in S : f.at <= e.at
  BY DEF LatestOf
<1> QED
  BY <1>1, <1>2

\* One more event or capture leaves a latest one.
LEMMA LatestOfMore ==
  ASSUME NEW S, HasLatest(S), NEW x, x.at \in Int, \A y \in S : y.at \in Int
  PROVE  HasLatest(S \cup {x})
<1>1. CASE S = {}
  BY <1>1 DEF HasLatest
<1>2. CASE S # {}
  <2>1. PICK e \in S : \A f \in S : f.at <= e.at
    BY <1>2 DEF HasLatest
  <2>2. CASE x.at <= e.at
    BY <2>1, <2>2 DEF HasLatest
  <2>3. CASE ~(x.at <= e.at)
    <3>1. \A f \in S \cup {x} : f.at <= x.at
      BY <2>1, <2>3
    <3> QED
      BY <3>1 DEF HasLatest
  <2> QED
    BY <2>2, <2>3
<1> QED
  BY <1>1, <1>2

\* The end of the history is an event of it, and what is later than it is later than all.
LEMMA HistoryEnd ==
  ASSUME TypeOK, LatestInv
  PROVE  /\ LatestOf(events) \in Event \cup {Nothing}
         /\ LatestOf(events) = Nothing => events = {}
         /\ LatestOf(events) # Nothing => LatestOf(events) \in events
         /\ \A t \in Nat : Extends(t, LatestOf(events)) => \A f \in events : f.at < t
<1>1. events \subseteq Event /\ HasLatest(events)
  BY DEF TypeOK, LatestInv
<1>2. CASE events = {}
  BY <1>2 DEF LatestOf
<1>3. CASE events # {}
  <2>1. LatestOf(events) \in events /\ \A f \in events : f.at <= LatestOf(events).at
    BY <1>1, <1>3, LatestIsIn
  <2>2. LatestOf(events) \in Event /\ LatestOf(events) # Nothing
    BY <1>1, <2>1, RefreshAssumption
  <2>3. \A f \in events : f.at \in Int
    BY <1>1 DEF Event
  <2> QED
    BY <2>1, <2>2, <2>3 DEF Extends
<1> QED
  BY <1>2, <1>3

\* What a process starts from was committed by the event it read.
LEMMA PreviousTyped ==
  ASSUME RInv, NEW p \in Processes, pc[p] # "idle"
  PROVE  /\ Previous(p) \in Snapshot \cup {Nothing}
         /\ Previous(p) = Newest(LatestOf(events))
         /\ Previous(p) # Nothing =>
              /\ Previous(p) \in snapshots
              /\ Previous(p).capture \in Manifest
              /\ Previous(p).capture.content = Previous(p).content
<1>1. Previous(p) = Newest(LatestOf(events))
  BY DEF RInv, LockInv, Previous
<1>2. LatestOf(events) \in Event \cup {Nothing}
  BY HistoryEnd DEF RInv
<1>3. Previous(p) \in Snapshot \cup {Nothing}
  BY <1>1, <1>2 DEF Newest, Event
<1>4. ASSUME Previous(p) # Nothing
      PROVE  Previous(p) \in snapshots
  <2>1. LatestOf(events) \in events
    BY <1>1, <1>4, HistoryEnd DEF RInv, Newest
  <2> QED
    BY <1>1, <1>4, <2>1 DEF RInv, CommittedIsComplete
<1>5. ASSUME Previous(p) # Nothing
      PROVE  Previous(p).capture \in Manifest /\ Previous(p).capture.content = Previous(p).content
  BY <1>4, <1>5 DEF RInv, SnapshotInv, TypeOK
<1> QED
  BY <1>1, <1>3, <1>4, <1>5

\* A new event that extends the history keeps it a chain of complete commits.
LEMMA AppendStep ==
  ASSUME RInv, NEW e \in Event, events' = events \cup {e},
         snapshots' = snapshots, captures' = captures,
         Extends(e.at, LatestOf(events)), e.previous = Newest(LatestOf(events)),
         e.snapshot # Nothing => e.snapshot \in snapshots,
         e.status # "failed" => e.capture.content = e.snapshot.content
  PROVE  /\ events' \subseteq Event /\ LatestInv' /\ SnapshotInv'
         /\ HistoryIsAChain' /\ CommittedIsComplete' /\ FactsMatchCapture'
<1>1. events \subseteq Event /\ e.at \in Nat /\ \A f \in events : f.at \in Nat
  BY DEF RInv, TypeOK, Event
<1>2. \A f \in events : f.at < e.at
  BY <1>1, HistoryEnd DEF RInv
<1>3. LatestInv'
  <2>1. HasLatest(events \cup {e})
    BY <1>1, LatestOfMore DEF RInv, LatestInv
  <2> QED
    BY <2>1 DEF RInv, LatestInv, KeptOf, HasLatest
<1>4. HistoryIsAChain'
  <2>1. {f \in events' : f.at < e.at} = events
    BY <1>1, <1>2
  <2>2. \A g \in events : {f \in events' : f.at < g.at} = {f \in events : f.at < g.at}
    BY <1>1, <1>2
  <2>3. \A g \in events : g.previous = Newest(LatestOf({f \in events' : f.at < g.at}))
    BY <2>2 DEF RInv, HistoryIsAChain, Before
  <2>4. e.previous = Newest(LatestOf({f \in events' : f.at < e.at}))
    BY <2>1
  <2>5. \A g, f \in events' : f.at = g.at => f = g
    BY <1>1, <1>2 DEF RInv, HistoryIsAChain
  <2>6. \A g \in events' : g.previous = Newest(LatestOf({f \in events' : f.at < g.at}))
    BY <2>3, <2>4
  <2> QED
    BY <2>5, <2>6 DEF HistoryIsAChain, Before
<1>5. CommittedIsComplete'
  <2>1. Newest(e) # Nothing => Newest(e) \in snapshots
    <3>1. CASE e.snapshot # Nothing
      BY <3>1 DEF Newest
    <3>2. CASE e.snapshot = Nothing
      <4>1. e # Nothing
        BY RefreshAssumption
      <4>2. Newest(e) = Newest(LatestOf(events))
        BY <3>2, <4>1 DEF Newest
      <4>3. LatestOf(events) # Nothing => LatestOf(events) \in events
        BY HistoryEnd DEF RInv
      <4>4. LatestOf(events) = Nothing => Newest(LatestOf(events)) = Nothing
        BY DEF Newest
      <4> QED
        BY <4>2, <4>3, <4>4 DEF RInv, CommittedIsComplete
    <3> QED
      BY <3>1, <3>2
  <2>2. Newest(e) # Nothing => Newest(e).capture \in captures
    BY <2>1 DEF RInv, SnapshotInv
  <2> QED
    BY <2>1, <2>2 DEF RInv, CommittedIsComplete
<1>6. FactsMatchCapture' /\ SnapshotInv'
  BY DEF RInv, FactsMatchCapture, SnapshotInv
<1> QED
  BY <1>1, <1>3, <1>4, <1>5, <1>6

\* Only one process works at a time.
LEMMA Alone ==
  ASSUME RInv, NEW p \in Processes, pc[p] # "idle"
  PROVE  lock = p /\ \A q \in Processes \ {p} : pc[q] = "idle"
BY DEF RInv, LockInv

\* A process that stops has nothing left to keep.
LEMMA StopStep ==
  ASSUME RInv, NEW p \in Processes, Stop(p), pc[p] # "idle"
  PROVE  /\ lock' \in Processes \cup {Nothing}
         /\ pc' \in [Processes -> {"idle", "observe", "check", "extract", "commit", "fail"}]
         /\ task' \in [Processes -> Request \cup {Nothing}]
         /\ latest' \in [Processes -> Event \cup {Nothing}]
         /\ capture' \in [Processes -> Manifest \cup {Nothing}]
         /\ \A q \in Processes : pc'[q] = "idle" /\ capture'[q] = Nothing
<1>1. \A q \in Processes \ {p} : pc[q] = "idle" /\ capture[q] = Nothing
  BY Alone DEF RInv, CaptureInv
<1> QED
  BY <1>1 DEF RInv, TypeOK, Stop

LEMMA WriteStep ==
  ASSUME RInv, NEW p \in Processes, pc[p] # "idle",
         NEW status \in Statuses, NEW s \in Snapshot \cup {Nothing},
         NEW m \in Manifest \cup {Nothing}, Write(p, status, s, m),
         s # Nothing => s \in snapshots,
         status # "failed" => m.content = s.content
  PROVE  RInv'
<1> DEFINE e == [at |-> task[p].at, status |-> status, capture |-> m,
                 snapshot |-> s, previous |-> Previous(p)]
<1>1. task[p] \in Request /\ Extends(task[p].at, LatestOf(events))
  BY DEF RInv, LockInv
<1>2. Previous(p) \in Snapshot \cup {Nothing} /\ Previous(p) = Newest(LatestOf(events))
  BY PreviousTyped
<1>3. e \in Event
  BY <1>1, <1>2 DEF Event, Request
<1>4. events' = events \cup {e} /\ snapshots' = snapshots /\ captures' = captures
  BY DEF Write
<1>5. Extends(e.at, LatestOf(events)) /\ e.previous = Newest(LatestOf(events))
  BY <1>1, <1>2
<1>6. e.snapshot = s /\ e.status = status /\ e.capture = m
  OBVIOUS
<1> HIDE DEF e
<1>7. /\ events' \subseteq Event /\ LatestInv' /\ SnapshotInv'
      /\ HistoryIsAChain' /\ CommittedIsComplete' /\ FactsMatchCapture'
  BY <1>3, <1>4, <1>5, <1>6, AppendStep
<1>8. Stop(p) /\ UNCHANGED <<bytes, disturbances>>
  BY DEF Write
<1>9. TypeOK'
  BY <1>4, <1>7, <1>8, StopStep DEF RInv, TypeOK
<1>10. LockInv' /\ CaptureInv'
  BY <1>8, StopStep DEF LockInv, CaptureInv
<1> QED
  BY <1>7, <1>9, <1>10 DEF RInv

\* The history is as before while a process works.
LEMMA SameEvents ==
  ASSUME RInv, events' = events, snapshots \subseteq snapshots', captures \subseteq captures'
  PROVE  HistoryIsAChain' /\ CommittedIsComplete' /\ FactsMatchCapture' /\ HasLatest(events')
BY DEF RInv, LatestInv, HistoryIsAChain, Before, CommittedIsComplete, FactsMatchCapture

LEMMA SameCaptures ==
  ASSUME RInv, captures' = captures
  PROVE  \A c \in Contents : HasLatest(KeptOf(c)')
BY DEF RInv, LatestInv, KeptOf

\* A capture adds one to those of its content.
LEMMA MoreCaptures ==
  ASSUME RInv, NEW m \in Manifest, captures' = captures \cup {m}
  PROVE  \A c \in Contents : HasLatest(KeptOf(c)')
<1> TAKE c \in Contents
<1>1. HasLatest(KeptOf(c))
  BY DEF RInv, LatestInv
<1>2. m.at \in Int /\ \A n \in KeptOf(c) : n.at \in Int
  BY DEF RInv, TypeOK, KeptOf, Manifest
<1>3. HasLatest(KeptOf(c) \cup {m})
  BY <1>1, <1>2, LatestOfMore
<1>4. KeptOf(c)' = KeptOf(c) \/ KeptOf(c)' = KeptOf(c) \cup {m}
  BY DEF KeptOf
<1> QED
  BY <1>1, <1>3, <1>4

\* A process at work keeps the lock and the end of the history.
LEMMA WorkStep ==
  ASSUME RInv, NEW p \in Processes, pc[p] # "idle", NEW label,
         UNCHANGED <<events, lock, task, latest>>, snapshots \subseteq snapshots',
         pc' = [pc EXCEPT ![p] = label]
  PROVE  LockInv' /\ \A q \in Processes \ {p} : pc'[q] = "idle"
<1>1. \A q \in Processes \ {p} : pc'[q] = "idle"
  BY Alone DEF RInv, TypeOK
<1>2. \A q \in Processes :
        pc'[q] # "idle" => lock' = q /\ task'[q] \in Request /\ latest'[q] = LatestOf(events')
  BY <1>1 DEF RInv, LockInv
<1>3. Extends(task[p].at, latest[p])'
  BY DEF RInv, LockInv, Extends
<1> QED
  BY <1>1, <1>2, <1>3 DEF LockInv

LEMMA BeginStep ==
  ASSUME RInv, NEW p \in Processes, NEW r \in Request, Begin(p, r)
  PROVE  RInv'
<1>1. TypeOK'
  <2>1. LatestOf(events) \in Event \cup {Nothing}
    BY HistoryEnd DEF RInv
  <2>2. FirstStep(r.mode) \in {"observe", "check"}
    BY DEF FirstStep
  <2> QED
    BY <2>1, <2>2 DEF RInv, TypeOK, Begin
<1>2. \A q \in Processes : pc[q] = "idle"
  BY RefreshAssumption DEF RInv, LockInv, Begin
<1>3. LockInv'
  <2>1. Extends(r.at, LatestOf(events))'
    BY DEF Begin, Extends, LatestOf
  <2> QED
    BY <1>2, <2>1 DEF RInv, TypeOK, LockInv, Begin
<1>4. CaptureInv'
  <2>1. \A q \in Processes : capture'[q] = Nothing
    BY <1>2 DEF RInv, CaptureInv, Begin
  <2>2. \A q \in Processes : pc'[q] # "idle" => pc'[q] = FirstStep(r.mode) /\ task'[q] = r
    BY <1>2 DEF RInv, TypeOK, Begin
  <2>3. \A q \in Processes :
          /\ pc'[q] # "extract" /\ pc'[q] # "commit"
          /\ pc'[q] = "check" => task'[q].mode # "facts_only"
    BY <2>2 DEF FirstStep
  <2> QED
    BY <2>1, <2>3 DEF CaptureInv
<1> QED
  BY <1>1, <1>3, <1>4, SameEvents, SameCaptures DEF RInv, LatestInv, SnapshotInv, Begin

LEMMA ObserveStep ==
  ASSUME RInv, NEW p \in Processes, Observe(p)
  PROVE  RInv'
<1>1. PICK c \in Contents :
        /\ captures' = captures \cup {Recorded(p, c, FALSE)}
        /\ capture' = [capture EXCEPT ![p] = Recorded(p, c, FALSE)]
        /\ Reads(p, c, "check")
  BY DEF Observe
<1>2. pc[p] # "idle" /\ task[p] \in Request
  BY DEF Observe, RInv, LockInv
<1>3. Recorded(p, c, FALSE) \in Manifest /\ Recorded(p, c, FALSE).content = c
  BY <1>2 DEF Recorded, Manifest, Request
<1>4. \/ pc' = [pc EXCEPT ![p] = "check"] /\ c = task[p].content
      \/ pc' = [pc EXCEPT ![p] = "fail"]
  BY <1>1 DEF Reads
<1>5. TypeOK'
  <2>1. disturbances' \in 0..MaxDisturbances
    BY <1>1, RefreshAssumption DEF RInv, TypeOK, Reads
  <2>2. pc' \in [Processes -> {"idle", "observe", "check", "extract", "commit", "fail"}]
    BY <1>4 DEF RInv, TypeOK
  <2> QED
    BY <1>1, <1>3, <2>1, <2>2 DEF RInv, TypeOK, Observe
<1>6. LockInv' /\ \A q \in Processes \ {p} : pc'[q] = "idle"
  BY <1>2, <1>4, WorkStep DEF Observe
<1>7. CaptureInv'
  <2>1. \A q \in Processes \ {p} : capture'[q] = Nothing
    BY <1>1, <1>2, Alone DEF RInv, CaptureInv
  <2>2. capture'[p] = Recorded(p, c, FALSE) /\ capture'[p] \in captures' /\ capture'[p] # Nothing
    BY <1>1, <1>3, RefreshAssumption DEF RInv, TypeOK
  <2>3. pc'[p] = "fail" \/ (pc'[p] = "check" /\ capture'[p].content = task'[p].content)
    BY <1>3, <1>4, <2>2 DEF RInv, TypeOK, Observe
  <2> QED
    BY <1>6, <2>1, <2>2, <2>3 DEF CaptureInv
<1>8. SnapshotInv'
  BY <1>1 DEF RInv, SnapshotInv, Observe
<1> QED
  BY <1>1, <1>3, <1>5, <1>6, <1>7, <1>8, SameEvents, MoreCaptures
  DEF RInv, LatestInv, Observe

LEMMA CaptureStep ==
  ASSUME RInv, NEW p \in Processes, Capture(p)
  PROVE  RInv'
<1>1. PICK c \in Contents :
        /\ captures' = captures \cup {Recorded(p, c, TRUE)}
        /\ bytes' = bytes \cup {c}
        /\ capture' = [capture EXCEPT ![p] = Recorded(p, c, TRUE)]
        /\ Reads(p, c, "extract")
  BY DEF Capture
<1>2. pc[p] # "idle" /\ task[p] \in Request
  BY DEF Capture, Changed, RInv, LockInv
<1>3. Recorded(p, c, TRUE) \in Manifest /\ Recorded(p, c, TRUE).content = c
  BY <1>2 DEF Recorded, Manifest, Request
<1>4. \/ pc' = [pc EXCEPT ![p] = "extract"] /\ c = task[p].content
      \/ pc' = [pc EXCEPT ![p] = "fail"]
  BY <1>1 DEF Reads
<1>5. TypeOK'
  <2>1. disturbances' \in 0..MaxDisturbances
    BY <1>1, RefreshAssumption DEF RInv, TypeOK, Reads
  <2>2. pc' \in [Processes -> {"idle", "observe", "check", "extract", "commit", "fail"}]
    BY <1>4 DEF RInv, TypeOK
  <2> QED
    BY <1>1, <1>3, <2>1, <2>2 DEF RInv, TypeOK, Capture
<1>6. LockInv' /\ \A q \in Processes \ {p} : pc'[q] = "idle"
  BY <1>2, <1>4, WorkStep DEF Capture
<1>7. CaptureInv'
  <2>1. \A q \in Processes \ {p} : capture'[q] = Nothing
    BY <1>1, <1>2, Alone DEF RInv, CaptureInv
  <2>2. capture'[p] = Recorded(p, c, TRUE) /\ capture'[p] \in captures' /\ capture'[p] # Nothing
    BY <1>1, <1>3, RefreshAssumption DEF RInv, TypeOK
  <2>3. pc'[p] = "fail" \/ (pc'[p] = "extract" /\ capture'[p].content = task'[p].content)
    BY <1>3, <1>4, <2>2 DEF RInv, TypeOK, Capture
  <2> QED
    BY <1>6, <2>1, <2>2, <2>3 DEF CaptureInv
<1>8. SnapshotInv'
  BY <1>1 DEF RInv, SnapshotInv, Capture
<1> QED
  BY <1>1, <1>3, <1>5, <1>6, <1>7, <1>8, SameEvents, MoreCaptures
  DEF RInv, LatestInv, Capture

LEMMA ReuseStep ==
  ASSUME RInv, NEW p \in Processes, Reuse(p)
  PROVE  RInv'
<1>1. pc[p] = "check" /\ task[p] \in Request
  BY DEF Reuse, Changed, RInv, LockInv
<1>2. /\ capture' = [capture EXCEPT ![p] = capture'[p]]
      /\ capture'[p] # Nothing
      /\ capture'[p] \in captures /\ capture'[p].content = task[p].content
  <2>1. CASE task[p].mode = "facts_only" /\ UNCHANGED capture
    BY <1>1, <2>1 DEF RInv, TypeOK, CaptureInv
  <2>2. CASE Existing(p) # {} /\ capture' = [capture EXCEPT ![p] = LatestOf(Existing(p))]
    <3>1. Existing(p) = KeptOf(task[p].content)
      BY DEF Existing, KeptOf
    <3>2. HasLatest(Existing(p))
      BY <1>1, <3>1 DEF RInv, LatestInv, Request
    <3>3. LatestOf(Existing(p)) \in Existing(p)
      BY <2>2, <3>2, LatestIsIn
    <3>4. capture'[p] \in Existing(p)
      BY <2>2, <3>3 DEF RInv, TypeOK
    <3>5. capture'[p] \in Manifest /\ capture'[p] # Nothing
      BY <3>4, RefreshAssumption DEF Existing, RInv, TypeOK
    <3> QED
      BY <2>2, <3>4, <3>5 DEF Existing, RInv, TypeOK
  <2> QED
    BY <2>1, <2>2 DEF Reuse
<1>3. TypeOK'
  BY <1>2 DEF RInv, TypeOK, Reuse
<1>4. LockInv' /\ \A q \in Processes \ {p} : pc'[q] = "idle"
  BY <1>1, WorkStep DEF Reuse
<1>5. CaptureInv'
  <2>1. \A q \in Processes \ {p} : capture'[q] = Nothing
    BY <1>1, <1>2, Alone DEF RInv, TypeOK, CaptureInv
  <2>2. pc'[p] = "extract"
    BY DEF RInv, TypeOK, Reuse
  <2> QED
    BY <1>2, <1>4, <2>1, <2>2 DEF CaptureInv, Reuse
<1> QED
  BY <1>3, <1>4, <1>5, SameEvents, SameCaptures DEF RInv, LatestInv, SnapshotInv, Reuse

LEMMA WriteSnapshotStep ==
  ASSUME RInv, NEW p \in Processes, WriteSnapshot(p)
  PROVE  RInv'
<1>1. pc[p] = "extract" /\ task[p] \in Request
  BY DEF WriteSnapshot, RInv, LockInv
<1>2. /\ capture[p] \in captures /\ capture[p] \in Manifest
      /\ capture[p] # Nothing /\ capture[p].content = task[p].content
  BY <1>1 DEF RInv, TypeOK, CaptureInv
<1>3. NewSnapshot(p) \in Snapshot
  BY <1>1, <1>2 DEF NewSnapshot, Snapshot, Request
<1>4. TypeOK'
  BY <1>3 DEF RInv, TypeOK, WriteSnapshot
<1>5. LockInv' /\ \A q \in Processes \ {p} : pc'[q] = "idle"
  BY <1>1, WorkStep DEF WriteSnapshot
<1>6. CaptureInv'
  <2>1. \A q \in Processes \ {p} : capture'[q] = Nothing
    BY <1>1, Alone DEF RInv, CaptureInv, WriteSnapshot
  <2>2. pc'[p] = "commit" /\ NewSnapshot(p)' = NewSnapshot(p)
    BY DEF RInv, TypeOK, WriteSnapshot, NewSnapshot
  <2> QED
    BY <1>2, <1>5, <2>1, <2>2 DEF CaptureInv, WriteSnapshot
<1>7. SnapshotInv'
  <2>1. NewSnapshot(p).capture = capture[p] /\ NewSnapshot(p).content = task[p].content
    BY DEF NewSnapshot
  <2> QED
    BY <1>2, <2>1 DEF RInv, SnapshotInv, WriteSnapshot
<1> QED
  BY <1>4, <1>5, <1>6, <1>7, SameEvents, SameCaptures DEF RInv, LatestInv, WriteSnapshot

LEMMA RecordFailureStep ==
  ASSUME RInv, NEW t \in 1..LastTime, RecordFailure(t)
  PROVE  RInv'
<1> DEFINE e == [at |-> t, status |-> "failed", capture |-> Nothing,
                 snapshot |-> Nothing, previous |-> Newest(LatestOf(events))]
<1>1. LatestOf(events) \in Event \cup {Nothing}
  BY HistoryEnd DEF RInv
<1>2. Newest(LatestOf(events)) \in Snapshot \cup {Nothing}
  BY <1>1 DEF Newest, Event
<1>3. e \in Event
  BY <1>2 DEF Event, Statuses
<1>4. /\ e.at = t /\ e.status = "failed" /\ e.snapshot = Nothing
      /\ e.previous = Newest(LatestOf(events))
  OBVIOUS
<1>5. events' = events \cup {e} /\ Extends(t, LatestOf(events))
  BY DEF RecordFailure
<1>6. UNCHANGED <<captures, bytes, snapshots, lock, pc, task, latest, capture, disturbances>>
  BY DEF RecordFailure, process
<1> HIDE DEF e
<1>7. /\ events' \subseteq Event /\ LatestInv' /\ SnapshotInv'
      /\ HistoryIsAChain' /\ CommittedIsComplete' /\ FactsMatchCapture'
  BY <1>3, <1>4, <1>5, <1>6, AppendStep
<1>8. TypeOK'
  BY <1>6, <1>7 DEF RInv, TypeOK
<1>9. \A p \in Processes : pc[p] = "idle"
  BY RefreshAssumption DEF RInv, LockInv, RecordFailure
<1>10. LockInv' /\ CaptureInv'
  BY <1>6, <1>9 DEF RInv, LockInv, CaptureInv, NewSnapshot
<1> QED
  BY <1>7, <1>8, <1>10 DEF RInv

\* What a process may still name as its capture when it writes its event.
LEMMA CurrentCaptureTyped ==
  ASSUME RInv, NEW p \in Processes, pc[p] = "check"
  PROVE  /\ Previous(p) # Nothing \/ capture[p] # Nothing => CurrentCapture(p) \in Manifest
         /\ Unchanged(p) => CurrentCapture(p).content = Previous(p).content
<1>1. capture[p] # Nothing => capture[p] \in Manifest /\ capture[p].content = task[p].content
  BY DEF RInv, TypeOK, CaptureInv
<1>2. Previous(p) # Nothing =>
        Previous(p).capture \in Manifest /\ Previous(p).capture.content = Previous(p).content
  BY PreviousTyped
<1> QED
  BY <1>1, <1>2 DEF CurrentCapture, Unchanged

\* Every way of writing an event is one of WriteStep.
LEMMA WritingSteps ==
  ASSUME RInv, NEW p \in Processes,
         \/ VerificationFails(p) \/ RecordUnchanged(p) \/ ExistingFails(p)
         \/ ExtractionFails(p) \/ Commit(p) \/ Fail(p)
  PROVE  RInv'
<1>1. CASE VerificationFails(p)
  <2>1. Previous(p) # Nothing /\ pc[p] = "check"
    BY <1>1 DEF VerificationFails, PreviousVerifies
  <2>2. CurrentCapture(p) \in Manifest
    BY <2>1, CurrentCaptureTyped
  <2>3. Write(p, "failed", Nothing, CurrentCapture(p))
    BY <1>1 DEF VerificationFails
  <2> QED
    BY <2>1, <2>2, <2>3, WriteStep DEF Statuses
<1>2. CASE RecordUnchanged(p)
  <2>1. Unchanged(p) /\ Previous(p) # Nothing /\ pc[p] = "check"
    BY <1>2 DEF RecordUnchanged, Unchanged
  <2>2. CurrentCapture(p) \in Manifest /\ CurrentCapture(p).content = Previous(p).content
    BY <2>1, CurrentCaptureTyped
  <2>3. Previous(p) \in Snapshot /\ Previous(p) \in snapshots
    BY <2>1, PreviousTyped
  <2>4. Write(p, "unchanged", Previous(p), CurrentCapture(p))
    BY <1>2 DEF RecordUnchanged
  <2> QED
    BY <2>1, <2>2, <2>3, <2>4, WriteStep DEF Statuses
<1>3. CASE ExistingFails(p)
  <2>1. pc[p] # "idle" /\ Write(p, "failed", Nothing, Nothing)
    BY <1>3 DEF ExistingFails, Changed
  <2> QED
    BY <2>1, WriteStep DEF Statuses
<1>4. CASE ExtractionFails(p) \/ Fail(p)
  <2>1. pc[p] # "idle" /\ Write(p, "failed", Nothing, capture[p])
    BY <1>4 DEF ExtractionFails, Fail
  <2>2. capture[p] \in Manifest \cup {Nothing}
    BY DEF RInv, TypeOK
  <2> QED
    BY <2>1, <2>2, WriteStep DEF Statuses
<1>5. CASE Commit(p)
  <2>1. pc[p] = "commit"
    BY <1>5 DEF Commit
  <2>2. NewSnapshot(p) \in snapshots /\ NewSnapshot(p) \in Snapshot
    BY <2>1 DEF RInv, TypeOK, CaptureInv
  <2>3. capture[p] # Nothing
    BY <2>1 DEF RInv, CaptureInv
  <2>4. capture[p] \in Manifest /\ capture[p].content = task[p].content
    BY <2>1, <2>3 DEF RInv, TypeOK, CaptureInv
  <2>5. NewSnapshot(p).content = task[p].content
    BY DEF NewSnapshot
  <2>6. PICK status \in Statuses : Write(p, status, NewSnapshot(p), capture[p])
    BY <1>5 DEF Commit, Statuses
  <2> QED
    BY <2>1, <2>2, <2>4, <2>5, <2>6, WriteStep
<1> QED
  BY <1>1, <1>2, <1>3, <1>4, <1>5

LEMMA DieStep ==
  ASSUME RInv, NEW p \in Processes, Die(p)
  PROVE  RInv'
<1>1. Stop(p) /\ pc[p] # "idle" /\ UNCHANGED <<captures, bytes, snapshots, events>>
  BY DEF Die
<1>2. disturbances' \in 0..MaxDisturbances
  BY RefreshAssumption DEF RInv, TypeOK, Die
<1>3. TypeOK'
  BY <1>1, <1>2, StopStep DEF RInv, TypeOK
<1>4. LockInv' /\ CaptureInv'
  BY <1>1, StopStep DEF LockInv, CaptureInv
<1> QED
  BY <1>1, <1>3, <1>4, SameEvents, SameCaptures DEF RInv, LatestInv, SnapshotInv

\* Steps that change no more than the local artifacts.
LEMMA IdleStep ==
  ASSUME RInv, UNCHANGED <<captures, snapshots, events, lock, process>>,
         bytes' \subseteq bytes, disturbances' \in 0..MaxDisturbances
  PROVE  RInv'
<1>1. UNCHANGED <<pc, task, latest, capture>>
  BY DEF process
<1>2. TypeOK' /\ LockInv' /\ CaptureInv' /\ SnapshotInv'
  BY <1>1 DEF RInv, TypeOK, LockInv, CaptureInv, SnapshotInv, Extends, LatestOf, NewSnapshot
<1> QED
  BY <1>2, SameEvents, SameCaptures DEF RInv, LatestInv

\* The inductive invariant: the lock holder knows the end of the history and works from
\* records that exist, and the history is a chain of complete commits.
THEOREM RefreshInvariant == Spec => []RInv
<1>1. Init => RInv
  BY RefreshAssumption
  DEF Init, RInv, TypeOK, LatestInv, HasLatest, KeptOf, LockInv, CaptureInv, SnapshotInv,
      HistoryIsAChain, CommittedIsComplete, FactsMatchCapture
<1>2. RInv /\ [Next]_vars => RInv'
  <2> SUFFICES ASSUME RInv, [Next]_vars PROVE RInv'
    OBVIOUS
  <2>1. CASE UNCHANGED vars
    BY <2>1, IdleStep DEF vars, RInv, TypeOK
  <2>2. ASSUME NEW p \in Processes, NEW r \in Request, Begin(p, r) PROVE RInv'
    BY <2>2, BeginStep
  <2>3. ASSUME NEW p \in Processes, Observe(p) PROVE RInv'
    BY <2>3, ObserveStep
  <2>4. ASSUME NEW p \in Processes,
               \/ VerificationFails(p) \/ RecordUnchanged(p) \/ ExistingFails(p)
               \/ ExtractionFails(p) \/ Commit(p) \/ Fail(p)
        PROVE  RInv'
    BY <2>4, WritingSteps
  <2>5. ASSUME NEW p \in Processes, Capture(p) PROVE RInv'
    BY <2>5, CaptureStep
  <2>6. ASSUME NEW p \in Processes, Reuse(p) PROVE RInv'
    BY <2>6, ReuseStep
  <2>7. ASSUME NEW p \in Processes, WriteSnapshot(p) PROVE RInv'
    BY <2>7, WriteSnapshotStep
  <2>8. ASSUME NEW p \in Processes, Die(p) PROVE RInv'
    BY <2>8, DieStep
  <2>9. ASSUME NEW t \in 1..LastTime, RecordFailure(t) PROVE RInv'
    BY <2>9, RecordFailureStep
  <2>10. ASSUME NEW c \in Contents, LoseBytes(c) PROVE RInv'
    <3>1. disturbances' \in 0..MaxDisturbances
      BY <2>10, RefreshAssumption DEF RInv, TypeOK, LoseBytes
    <3> QED
      BY <2>10, <3>1, IdleStep DEF LoseBytes
  <2> QED
    BY <2>1, <2>2, <2>3, <2>4, <2>5, <2>6, <2>7, <2>8, <2>9, <2>10 DEF Next
<1> QED
  BY <1>1, <1>2, PTL DEF Spec

\* The state stays in its space (TypeOK).
THEOREM RefreshTypeCorrect == Spec => []TypeOK
<1>1. RInv => TypeOK
  BY DEF RInv
<1> QED
  BY <1>1, RefreshInvariant, PTL

\* The history of a source never forks, however many processes refresh it and die
\* (_source_lock, _require_later_timestamp).
THEOREM HistoryNeverForks == Spec => []HistoryIsAChain
<1>1. RInv => HistoryIsAChain
  BY DEF RInv
<1> QED
  BY <1>1, RefreshInvariant, PTL

\* A refresh that dies never leaves an incomplete snapshot committed
\* (_refresh_source_locked).
THEOREM CommitsAreComplete == Spec => []CommittedIsComplete
<1>1. RInv => CommittedIsComplete
  BY DEF RInv
<1> QED
  BY <1>1, RefreshInvariant, PTL

\* Committed facts come from the bytes their capture names.
THEOREM FactsAlwaysMatch == Spec => []FactsMatchCapture
<1>1. RInv => FactsMatchCapture
  BY DEF RInv
<1> QED
  BY <1>1, RefreshInvariant, PTL

\* Committed facts are there and are those of their capture (_refresh_source_locked).
THEOREM CommitsAreFaithful == Spec => []CommittedIsFaithful
<1>1. CommittedIsComplete /\ FactsMatchCapture => CommittedIsFaithful
  BY DEF CommittedIsFaithful
<1> QED
  BY <1>1, CommitsAreComplete, FactsAlwaysMatch, PTL

\* Bytes that were captured are not captured again, unless the input changed to them
\* while it was captured (_capture_for_content).
THEOREM CapturesAreReused == Spec => NoDuplicateCapture
<1> DEFINE New(m) ==
      m.kept => \/ \A old \in captures : old.kept => old.content # m.content
                \/ \E p \in Processes : lock = p /\ task[p].content # m.content
<1>1. ASSUME RInv, [Next]_vars, NEW m \in captures' \ captures
      PROVE  New(m)
  <2>1. PICK p \in Processes : Observe(p) \/ Capture(p)
    BY <1>1 DEF Next, vars, Begin, VerificationFails, RecordUnchanged, ExistingFails, Reuse,
      ExtractionFails, WriteSnapshot, Commit, Fail, Die, RecordFailure, LoseBytes, Write
  <2>2. CASE Observe(p)
    <3>1. m.kept = FALSE
      BY <1>1, <2>2 DEF Observe, Recorded
    <3> QED
      BY <3>1
  <2>3. CASE Capture(p)
    <3>1. PICK c \in Contents : captures' = captures \cup {Recorded(p, c, TRUE)}
      BY <2>3 DEF Capture
    <3>2. m.content = c
      BY <1>1, <3>1 DEF Recorded
    <3>3. lock = p
      BY <1>1, <2>3 DEF Capture, Changed, RInv, LockInv
    <3>4. \A old \in captures : old.kept => old.content # task[p].content
      BY <2>3 DEF Capture, Existing
    <3> QED
      BY <3>2, <3>3, <3>4
  <2> QED
    BY <2>1, <2>2, <2>3
<1>2. RInv /\ [Next]_vars => [\A m \in captures' \ captures : New(m)]_vars
  BY <1>1
<1> QED
  BY <1>2, RefreshInvariant, PTL DEF Spec, NoDuplicateCapture

(***************************************************************************)
(* The hourly refresh.  What a job may know of an earlier denial is in the  *)
(* state it was left, in the branch it would recover, or on main; what it   *)
(* tells is relative to a main that changed meanwhile.                      *)
(***************************************************************************)

Kinds == {"captured", "denied", "failed"}
Observations == [source : SourcesAsked, at : Nat, kind : Kinds, body : Bodies \cup {Seed, NoState}]
Entries == [counts : SUBSET SourcesAsked, failures : SUBSET Observations]

\* Some answers until `n`: a source gives one at a time, and every source has given one.
Answers(N, n) ==
    /\ n \in Nat /\ N \subseteq Observations
    /\ \A o, p \in N : o.source = p.source /\ o.at = p.at => o = p
    /\ \A o \in N : o.at <= n
    /\ \A s \in SourcesAsked : \E o \in N : o.source = s
\* Evidence that has the answer each hold of the sources stands on.
Known(M, N) == \A s \in SourcesAsked : OnHold(s, N) => Latest(s, N) \in M

TreeHolds(t, N) ==
    /\ t = [counts |-> t.counts, bound |-> t.bound, failures |-> t.failures,
            updates |-> t.updates, manifests |-> t.manifests]
    /\ t.counts \in [SourcesAsked -> Bodies \cup {Seed}]
    /\ t.failures \subseteq N /\ t.manifests \subseteq N
    /\ t.updates \in Seq(Entries)
    /\ \A s \in SourcesAsked : \E o \in t.manifests : o.source = s

\* A refresh made `new` of `old`, and told what it changed.
Forward(old, new) ==
    /\ \A s \in SourcesAsked : old.counts[s].time <= new.counts[s].time
    /\ old.failures \subseteq new.failures
Branched(old, new) ==
    /\ Forward(old, new)
    /\ new.updates = IF Substantive(Entry(old, new)) THEN Append(old.updates, Entry(old, new)) ELSE old.updates

\* Only people wrote since.
AuthoredSince(u, v) ==
    /\ Len(u) <= Len(v)
    /\ \A i \in 1..Len(u) : v[i] = u[i]
    /\ \A i \in Len(u) + 1..Len(v) : v[i] = Authored
Since(old, new) == ResultsFile(new) = ResultsFile(old) /\ AuthoredSince(old.updates, new.updates)

BranchHolds(b, m, N) ==
    /\ b = [tree |-> b.tree, base |-> b.base, ancestor |-> b.ancestor]
    /\ TreeHolds(b.tree, N) /\ TreeHolds(b.base, N) /\ Branched(b.base, b.tree)
    /\ Since(b.base, m) \/ Since(b.tree, m)

\* A job that found the branch would take it up.
Recoverable(b, m) ==
    b # NoBranch /\ ~b.ancestor /\ ~Conflicts(b, m) /\ MergeTrees(b, m) # m

KeptShape(k) == k = [phase |-> k.phase, holds |-> k.holds, blocked |-> k.blocked]

Opening == {"candidate", "state", "intent", "preflight"}
Asking == {"state", "intent", "preflight", "request"}
Closing == {"completion", "artifact", "plan"}
Leaving == {"push", "pr", "handoff", "save"}

JobShape(r, N) ==
    /\ r = [step |-> r.step, tree |-> r.tree, base |-> r.base, recover |-> r.recover, kept |-> r.kept,
            asked |-> r.asked, report |-> r.report, publish |-> r.publish]
    /\ r.step \in Opening \cup Asking \cup Closing \cup Leaving
    /\ r.recover \in BOOLEAN /\ r.asked \in 0..Len(Feeds)
    /\ TreeHolds(r.tree, N) /\ TreeHolds(r.base, N)
JobAges(r, N, n) ==
    /\ r.step \in Opening => r.asked = 0 /\ \A o \in N : o.at < n
    /\ r.step = "request" => \A o \in N : o.at < n \/ \E i \in 1..r.asked : o.source = Feeds[i]
JobKnows(r, N) ==
    /\ r.step # "candidate" /\ (r.step = "state" => r.recover) => Known(r.tree.manifests, N)
    /\ r.step \in {"artifact", "plan"} \cup Leaving => KeptShape(r.kept) /\ r.kept.holds = HeldIn(r.tree)
JobAsks(r, N, n) ==
    r.step = "request" =>
       /\ \A i \in 1..r.asked : \E b \in Bodies : Observation(Feeds[i], n, "captured", b) \in r.tree.manifests
       /\ \A i \in r.asked + 1..Len(Feeds) : ~OnHold(Feeds[i], N)
JobTells(r) ==
    IF r.recover THEN r.step # "plan" /\ Branched(r.base, r.tree)
    ELSE IF r.step = "push" THEN Branched(r.base, r.tree)
    ELSE Forward(r.base, r.tree) /\ r.tree.updates = r.base.updates

WorldHolds ==
    /\ Answers(observed, jobs) /\ TreeHolds(main, observed)
    /\ branch = NoBranch \/ BranchHolds(branch, main, observed)
    /\ Recoverable(branch, main) => Known(branch.tree.manifests \cup main.manifests, observed)
    /\ intended \/ \A s \in SourcesAsked : ~OnHold(s, observed)
    /\ saved = NoState \/ (KeptShape(saved) /\ Known(saved.holds, observed) /\ saved.holds \subseteq observed)

\* A job at work on a candidate works alone, beside people who write Updates.
JobAlone(r) ==
    /\ r.step \in Asking \cup Closing \cup {"push"} =>
          ~pr /\ Since(r.base, main) /\ (r.recover \/ ~Recoverable(branch, main)) /\ JobTells(r)
    /\ r.step \in {"preflight", "request"} => ~r.recover /\ intended /\ saved = NoState
JobHolds(r) ==
    /\ JobShape(r, observed) /\ JobAges(r, observed, jobs) /\ JobKnows(r, observed)
    /\ JobAsks(r, observed, jobs) /\ JobAlone(r)

\* The inductive invariant.
RefreshInv == WorldHolds /\ (refresh = NoRefresh \/ JobHolds(refresh))
LEMMA LeastNumber ==
  ASSUME NEW T, T \subseteq Nat, T # {}
  PROVE  \E x \in T : \A y \in T : x <= y
<1> DEFINE R == OpToRel(<, Nat)
<1>1. PICK x \in T : \A y \in T : ~(<<y, x>> \in R)
  <2> HIDE DEF R
  <2>1. IsWellFoundedOn(R, Nat)
    BY NatLessThanWellFounded DEF R
  <2> QED
    BY <2>1, WFMin
<1>2. \A y \in T : ~(y < x)
  BY <1>1 DEF OpToRel
<1> QED
  BY <1>2

\* Of the answers of a source one is the latest.
LEMMA LatestIs ==
  ASSUME NEW N, NEW n, Answers(N, n), NEW M, M \subseteq N, NEW s, \E o \in M : o.source = s
  PROVE  /\ Latest(s, M) \in M /\ Latest(s, M).source = s
         /\ \A p \in M : p.source = s => p.at <= Latest(s, M).at
<1> DEFINE S == {o \in M : o.source = s}
           T == {n - o.at : o \in S}
<1>1. \A o \in S : o \in N /\ o.source = s /\ o.at \in Nat /\ o.at <= n
  BY DEF Answers, Observations
<1>2. n \in Nat /\ \A o, p \in S : o.at = p.at => o = p
  BY <1>1 DEF Answers
<1>3. S # {}
  OBVIOUS
<1> HIDE DEF S
<1>4. T \subseteq Nat /\ T # {}
  BY <1>1, <1>2, <1>3
<1>5. PICK x \in T : \A y \in T : x <= y
  <2> HIDE DEF T
  <2> QED
    BY <1>4, LeastNumber
<1>6. PICK o \in S : x = n - o.at
  OBVIOUS
<1>7. \A p \in S : p.at <= o.at
  <2> TAKE p \in S
  <2>1. n - p.at \in T
    OBVIOUS
  <2>2. n - o.at <= n - p.at
    BY <1>5, <1>6, <2>1
  <2> QED
    BY <1>1, <1>2, <2>2
<1>8. \A p \in S \ {o} : Later(o, p)
  BY <1>1, <1>2, <1>7 DEF Later
<1> DEFINE l == CHOOSE m \in S : \A p \in S \ {m} : Later(m, p)
<1>9. l \in S /\ \A p \in S \ {l} : Later(l, p)
  BY <1>8
<1>10. Latest(s, M) = l
  BY DEF Latest, S
<1> HIDE DEF l
<1>11. \A p \in S : p.at <= l.at
  BY <1>1, <1>9 DEF Later
<1> QED
  BY <1>9, <1>10, <1>11 DEF S

\* The answer that no other of its source is later than is the latest.
LEMMA LatestEquals ==
  ASSUME NEW N, NEW n, Answers(N, n), NEW M, M \subseteq N, NEW o \in M,
         \A p \in M : p.source = o.source => p.at <= o.at
  PROVE  Latest(o.source, M) = o
<1> DEFINE l == Latest(o.source, M)
<1>1. l \in M /\ l.source = o.source /\ o.at <= l.at
  BY LatestIs
<1> HIDE DEF l
<1>2. l.at <= o.at
  BY <1>1
<1>3. l \in N /\ o \in N /\ l.at \in Nat /\ o.at \in Nat
  BY <1>1 DEF Answers, Observations
<1>4. l = o
  BY <1>1, <1>2, <1>3 DEF Answers
<1> QED
  BY <1>4 DEF l

\* Evidence that has the latest answer of a source shows it.
LEMMA LatestKnown ==
  ASSUME NEW N, NEW n, Answers(N, n), NEW M, M \subseteq N, NEW s \in SourcesAsked, Latest(s, N) \in M
  PROVE  Latest(s, M) = Latest(s, N)
<1> DEFINE l == Latest(s, N)
<1>1. l.source = s /\ \A p \in N : p.source = s => p.at <= l.at
  BY LatestIs DEF Answers
<1>2. l \in M
  OBVIOUS
<1> HIDE DEF l
<1>3. Latest(s, M) = l
  BY <1>1, <1>2, LatestEquals
<1> QED
  BY <1>3 DEF l

\* Evidence that has the answers the holds stand on shows them.
LEMMA HoldsAreShown ==
  ASSUME NEW N, NEW n, Answers(N, n), NEW M, M \subseteq N, Known(M, N), NEW s \in SourcesAsked, OnHold(s, N)
  PROVE  OnHold(s, M)
BY LatestKnown DEF Known, OnHold

\* An answer given now is the latest of its source, and leaves the others.
LEMMA LatestMore ==
  ASSUME NEW N, NEW n \in Nat, NEW m, Answers(N, m), m <= n, NEW o \in Observations, o.at = n,
         \A p \in N : p.source = o.source => p.at < n
  PROVE  /\ Answers(N \cup {o}, n)
         /\ Latest(o.source, N \cup {o}) = o
         /\ \A s \in SourcesAsked \ {o.source} : Latest(s, N \cup {o}) = Latest(s, N)
<1> DEFINE K == N \cup {o}
<1>1. Answers(K, n)
  <2>1. \A p \in N : p.at \in Nat /\ p.at <= m
    BY DEF Answers, Observations
  <2>2. m \in Nat
    BY DEF Answers
  <2>3. \A p \in K : p.at <= n
    BY <2>1, <2>2
  <2>4. \A p, q \in K : p.source = q.source /\ p.at = q.at => p = q
    BY <2>1 DEF Answers
  <2> QED
    BY <2>3, <2>4 DEF Answers
<1>2. \A p \in K : p.source = o.source => p.at <= o.at
  BY <1>1 DEF Answers, Observations
<1>3. Latest(o.source, K) = o
  <2> HIDE DEF K
  <2>1. o \in K
    BY DEF K
  <2> QED
    BY <1>1, <1>2, <2>1, LatestEquals
<1>4. ASSUME NEW s \in SourcesAsked \ {o.source}
      PROVE  Latest(s, K) = Latest(s, N)
  <2>1. {p \in K : p.source = s} = {p \in N : p.source = s}
    OBVIOUS
  <2> QED
    BY <2>1 DEF Latest
<1> QED
  BY <1>1, <1>3, <1>4

\* A hold that is known is known by more evidence, and a hold known needs only its denial.
LEMMA KnownMore ==
  ASSUME NEW N, NEW M, NEW L, Known(M, N), M \subseteq L
  PROVE  Known(L, N)
BY DEF Known

LEMMA KnownByDenials ==
  ASSUME NEW N, NEW t, Known(t.manifests, N)
  PROVE  Known(HeldIn(t), N)
BY DEF Known, HeldIn, OnHold

\* Evidence that gains an answer as it is given keeps what it knew.
LEMMA KnownStep ==
  ASSUME NEW N, NEW n \in Nat, NEW m, Answers(N, m), m <= n, NEW o \in Observations, o.at = n,
         \A p \in N : p.source = o.source => p.at < n, NEW M, Known(M, N)
  PROVE  Known(M \cup {o}, N \cup {o})
<1>1. Latest(o.source, N \cup {o}) = o
  BY LatestMore
<1>2. \A s \in SourcesAsked \ {o.source} : Latest(s, N \cup {o}) = Latest(s, N)
  BY LatestMore
<1> QED
  BY <1>1, <1>2 DEF Known, OnHold

LEMMA EntryTyped ==
  ASSUME NEW N, N \subseteq Observations, NEW old, NEW new, TreeHolds(old, N), TreeHolds(new, N)
  PROVE  /\ Entry(old, new) \in Entries
         /\ Substantive(Entry(old, new)) <=> Entry(old, new) # Authored
BY DEF TreeHolds, Entry, Entries, Told, Substantive, Authored

\* A merge takes each file whole, from the branch or from main.
LEMMA MergeTakes ==
  ASSUME NEW b, NEW m
  PROVE  /\ ResultsFile(MergeTrees(b, m)) = MergedFile(ResultsFile(b.base), ResultsFile(b.tree), ResultsFile(m))
         /\ MergeTrees(b, m).updates = MergedFile(b.base.updates, b.tree.updates, m.updates)
         /\ MergeTrees(b, m).manifests = b.tree.manifests \cup m.manifests
         /\ MergeTrees(b, m) = [counts |-> MergeTrees(b, m).counts, bound |-> MergeTrees(b, m).bound,
                                failures |-> MergeTrees(b, m).failures, updates |-> MergeTrees(b, m).updates,
                                manifests |-> MergeTrees(b, m).manifests]
<1> DEFINE R == MergedFile(ResultsFile(b.base), ResultsFile(b.tree), ResultsFile(m))
<1>1. R = <<R[1], R[2], R[3]>>
  <2>1. R = ResultsFile(b.tree) \/ R = ResultsFile(m)
    BY DEF MergedFile
  <2> HIDE DEF R
  <2> QED
    BY <2>1 DEF ResultsFile
<1>2. MergeTrees(b, m) = [counts |-> R[1], bound |-> R[2], failures |-> R[3],
                          updates |-> MergedFile(b.base.updates, b.tree.updates, m.updates),
                          manifests |-> b.tree.manifests \cup m.manifests]
  BY DEF MergeTrees
<1> HIDE DEF R
<1>3. ResultsFile(MergeTrees(b, m)) = R
  BY <1>1, <1>2 DEF ResultsFile
<1> QED
  BY <1>2, <1>3 DEF R

\* When a merge brings nothing.
LEMMA MergeIsIdle ==
  ASSUME NEW N, NEW b, NEW m, TreeHolds(m, N)
  PROVE  MergeTrees(b, m) = m <=>
           /\ ResultsFile(b.tree) \in {ResultsFile(b.base), ResultsFile(m)}
           /\ b.tree.updates = b.base.updates \/ b.tree.updates = m.updates
           /\ b.tree.manifests \subseteq m.manifests
<1> DEFINE g == MergeTrees(b, m)
<1>1. /\ ResultsFile(g) = MergedFile(ResultsFile(b.base), ResultsFile(b.tree), ResultsFile(m))
      /\ g.updates = MergedFile(b.base.updates, b.tree.updates, m.updates)
      /\ g.manifests = b.tree.manifests \cup m.manifests
      /\ g = [counts |-> g.counts, bound |-> g.bound, failures |-> g.failures,
              updates |-> g.updates, manifests |-> g.manifests]
  BY MergeTakes
<1> HIDE DEF g
<1>2. m = [counts |-> m.counts, bound |-> m.bound, failures |-> m.failures,
           updates |-> m.updates, manifests |-> m.manifests]
  BY DEF TreeHolds
<1>3. g = m <=> /\ ResultsFile(g) = ResultsFile(m) /\ g.updates = m.updates /\ g.manifests = m.manifests
  BY <1>1, <1>2 DEF ResultsFile
<1>4. ResultsFile(g) = ResultsFile(m) <=>
        ResultsFile(b.tree) \in {ResultsFile(b.base), ResultsFile(m)}
  BY <1>1 DEF MergedFile
<1>5. g.updates = m.updates <=> b.tree.updates = b.base.updates \/ b.tree.updates = m.updates
  BY <1>1 DEF MergedFile
<1> QED
  BY <1>1, <1>3, <1>4, <1>5 DEF g

\* What was written since differs from what the branch told, and so never hides it.
LEMMA WrittenApart ==
  ASSUME NEW N, N \subseteq Observations, NEW b, NEW m, BranchHolds(b, m, N), TreeHolds(m, N),
         b.tree.updates # b.base.updates
  PROVE  /\ Since(b.base, m) => m.updates # b.tree.updates
         /\ Since(b.tree, m) => m.updates # b.base.updates
         /\ b.tree.updates = Append(b.base.updates, Entry(b.base, b.tree))
         /\ Len(b.tree.updates) = Len(b.base.updates) + 1
<1> DEFINE e == Entry(b.base, b.tree)
<1>1. /\ Len(b.tree.updates) = Len(b.base.updates) + 1
      /\ b.tree.updates[Len(b.base.updates) + 1] = e
      /\ e # Authored
  <2>1. TreeHolds(b.base, N) /\ TreeHolds(b.tree, N)
    BY DEF BranchHolds
  <2>2. b.tree.updates = Append(b.base.updates, e) /\ Substantive(e)
    BY DEF BranchHolds, Branched
  <2>3. e \in Entries /\ (Substantive(e) <=> e # Authored)
    BY <2>1, EntryTyped
  <2>4. b.base.updates \in Seq(Entries)
    BY <2>1 DEF TreeHolds
  <2> HIDE DEF e
  <2> QED
    BY <2>2, <2>3, <2>4
<1>2. Len(b.base.updates) \in Nat /\ Len(m.updates) \in Nat
  BY DEF BranchHolds, TreeHolds
<1>3. ASSUME Since(b.base, m), m.updates = b.tree.updates
      PROVE  FALSE
  BY <1>1, <1>2, <1>3 DEF Since, AuthoredSince
<1>4. ASSUME Since(b.tree, m), m.updates = b.base.updates
      PROVE  FALSE
  BY <1>1, <1>2, <1>4 DEF Since, AuthoredSince
<1>5. b.tree.updates = Append(b.base.updates, Entry(b.base, b.tree))
  BY DEF BranchHolds, Branched
<1> QED
  BY <1>1, <1>3, <1>4, <1>5

\* A branch that merges cleanly brings what it told, if main has not got it yet.
LEMMA MergeBranches ==
  ASSUME NEW N, N \subseteq Observations, NEW b, NEW m, BranchHolds(b, m, N), TreeHolds(m, N),
         ~Conflicts(b, m)
  PROVE  /\ TreeHolds(MergeTrees(b, m), N) /\ Branched(m, MergeTrees(b, m))
         /\ Since(b.tree, MergeTrees(b, m))
<1> DEFINE g == MergeTrees(b, m)
<1>1. /\ ResultsFile(g) = MergedFile(ResultsFile(b.base), ResultsFile(b.tree), ResultsFile(m))
      /\ g.updates = MergedFile(b.base.updates, b.tree.updates, m.updates)
      /\ g.manifests = b.tree.manifests \cup m.manifests
      /\ g = [counts |-> g.counts, bound |-> g.bound, failures |-> g.failures,
              updates |-> g.updates, manifests |-> g.manifests]
  BY MergeTakes
<1> HIDE DEF g
<1>2. ResultsFile(g) = ResultsFile(b.tree)
  BY <1>1 DEF MergedFile, BranchHolds, Since, Conflicts, FileConflicts
<1>3. TreeHolds(b.tree, N) /\ TreeHolds(b.base, N) /\ Branched(b.base, b.tree)
  BY DEF BranchHolds
<1>4. /\ g.counts = b.tree.counts /\ g.failures = b.tree.failures /\ g.bound = b.tree.bound
  BY <1>2 DEF ResultsFile
<1>5. g.updates = b.tree.updates \/ g.updates = m.updates
  BY <1>1 DEF MergedFile
<1>6. TreeHolds(g, N)
  BY <1>1, <1>3, <1>4, <1>5 DEF TreeHolds
<1>7. CASE Since(b.tree, m)
  <2>1. g.updates = m.updates
    BY <1>1, <1>7, WrittenApart DEF MergedFile, Conflicts, FileConflicts
  <2>2. ResultsFile(m) = ResultsFile(b.tree)
    BY <1>7 DEF Since
  <2>3. g.counts = m.counts /\ g.failures = m.failures
    BY <1>4, <2>2 DEF ResultsFile
  <2>4. Entry(m, g) = Authored
    BY <2>3 DEF Entry, Authored
  <2>5. ~Substantive(Entry(m, g))
    BY <1>6, <2>4, EntryTyped
  <2>6. Forward(m, g)
    BY <2>3, FeedsAssumption DEF Forward, TreeHolds
  <2> QED
    BY <1>2, <1>6, <1>7, <2>1, <2>2, <2>5, <2>6 DEF Branched, Since, g
<1>8. CASE Since(b.base, m)
  <2>1. ResultsFile(m) = ResultsFile(b.base) /\ AuthoredSince(b.base.updates, m.updates)
    BY <1>8 DEF Since
  <2>2. m.counts = b.base.counts /\ m.failures = b.base.failures
    BY <2>1 DEF ResultsFile
  <2>3. Entry(m, g) = Entry(b.base, b.tree)
    BY <1>4, <2>2 DEF Entry
  <2>4. Forward(m, g)
    BY <1>3, <1>4, <2>2 DEF Forward, Branched
  <2>5. CASE b.tree.updates = b.base.updates
    <3>1. g.updates = m.updates
      BY <1>1, <2>5 DEF MergedFile
    <3>2. ~Substantive(Entry(b.base, b.tree))
      <4>1. b.base.updates \in Seq(Entries) /\ Entry(b.base, b.tree) \in Entries
        BY <1>3, EntryTyped DEF TreeHolds
      <4>2. Len(Append(b.base.updates, Entry(b.base, b.tree))) = Len(b.base.updates) + 1
        BY <4>1
      <4>3. Len(b.base.updates) \in Nat
        BY <4>1
      <4>4. Append(b.base.updates, Entry(b.base, b.tree)) # b.base.updates
        BY <4>2, <4>3
      <4> QED
        BY <1>3, <2>5, <4>4 DEF Branched
    <3> QED
      BY <1>2, <1>6, <2>1, <2>3, <2>4, <2>5, <3>1, <3>2 DEF Branched, Since, g
  <2>6. CASE b.tree.updates # b.base.updates
    <3>1. m.updates = b.base.updates /\ g.updates = b.tree.updates
      BY <1>1, <1>8, <2>6, WrittenApart DEF MergedFile, Conflicts, FileConflicts
    <3>2. Substantive(Entry(b.base, b.tree))
      BY <1>3, <2>6 DEF Branched
    <3>3. g.updates = Append(m.updates, Entry(m, g))
      BY <2>3, <2>6, <3>1, WrittenApart
    <3>4. AuthoredSince(b.tree.updates, g.updates)
      <4>1. Len(b.tree.updates) \in Nat
        BY <1>3 DEF TreeHolds
      <4> QED
        BY <3>1, <4>1 DEF AuthoredSince
    <3> QED
      BY <1>2, <1>6, <2>3, <2>4, <3>2, <3>3, <3>4 DEF Branched, Since, g
  <2> QED
    BY <2>5, <2>6
<1> QED
  BY <1>7, <1>8 DEF BranchHolds

\* Once main has what a branch says, nothing is left to recover from it.
LEMMA MergedIsDone ==
  ASSUME NEW N, N \subseteq Observations, NEW b, NEW m, BranchHolds(b, m, N), TreeHolds(m, N),
         Since(b.tree, m), b.tree.manifests \subseteq m.manifests
  PROVE  ~Recoverable(b, m)
<1>1. ResultsFile(m) = ResultsFile(b.tree)
  BY DEF Since
<1>2. ASSUME ~Conflicts(b, m)
      PROVE  b.tree.updates = b.base.updates \/ b.tree.updates = m.updates
  BY <1>2, WrittenApart DEF Conflicts, FileConflicts
<1> QED
  BY <1>1, <1>2, MergeIsIdle DEF Recoverable

Wrote(m) == [m EXCEPT !.updates = Append(@, Authored)]

\* People write one more Update.
LEMMA AuthoredMore ==
  ASSUME NEW N, N \subseteq Observations, NEW m, TreeHolds(m, N),
         NEW w, w = Wrote(m)
  PROVE  /\ TreeHolds(w, N) /\ ResultsFile(w) = ResultsFile(m) /\ w.manifests = m.manifests
         /\ Len(w.updates) = Len(m.updates) + 1
         /\ Since(m, w)
         /\ \A old : TreeHolds(old, N) /\ Since(old, m) => Since(old, w)
<1>1. m = [counts |-> m.counts, bound |-> m.bound, failures |-> m.failures,
           updates |-> m.updates, manifests |-> m.manifests]
  BY DEF TreeHolds
<1>2. /\ w = [counts |-> m.counts, bound |-> m.bound, failures |-> m.failures,
              updates |-> w.updates, manifests |-> m.manifests]
      /\ w.updates = Append(m.updates, Authored)
  BY <1>1 DEF Wrote
<1>3. w.counts = m.counts /\ w.bound = m.bound /\ w.failures = m.failures /\ w.manifests = m.manifests
  BY <1>2
<1>4. m.updates \in Seq(Entries) /\ Authored \in Entries
  BY DEF TreeHolds, Entries, Authored, Told
<1> DEFINE u == m.updates
           a == Authored
<1>5. /\ Append(u, a) \in Seq(Entries) /\ Len(Append(u, a)) = Len(u) + 1 /\ Append(u, a)[Len(u) + 1] = a
      /\ \A i \in 1..Len(u) : Append(u, a)[i] = u[i]
  <2> HIDE DEF a
  <2> QED
    BY <1>4 DEF a
<1>6. Len(m.updates) \in Nat
  BY <1>4
<1>7. AuthoredSince(m.updates, w.updates)
  BY <1>2, <1>5, <1>6 DEF AuthoredSince
<1>8. TreeHolds(w, N)
  BY <1>2, <1>3, <1>5 DEF TreeHolds
<1>9. ResultsFile(w) = ResultsFile(m)
  BY <1>3 DEF ResultsFile
<1>10. ASSUME NEW old, TreeHolds(old, N), Since(old, m)
       PROVE  Since(old, w)
  <2>1. Len(old.updates) \in Nat /\ AuthoredSince(old.updates, m.updates) /\ ResultsFile(m) = ResultsFile(old)
    BY <1>10 DEF TreeHolds, Since
  <2>2. AuthoredSince(old.updates, w.updates)
    BY <1>2, <1>5, <1>6, <2>1 DEF AuthoredSince
  <2> QED
    BY <1>9, <2>1, <2>2 DEF Since
<1> QED
  BY <1>2, <1>3, <1>5, <1>7, <1>8, <1>9, <1>10 DEF Since

\* An Update people write leaves the branch as it was, and makes nothing of it recoverable.
LEMMA AuthoredBeside ==
  ASSUME NEW N, N \subseteq Observations, NEW m, TreeHolds(m, N), NEW b, BranchHolds(b, m, N),
         NEW w, w = Wrote(m)
  PROVE  BranchHolds(b, w, N) /\ (Recoverable(b, w) => Recoverable(b, m))
<1>1. /\ TreeHolds(w, N) /\ ResultsFile(w) = ResultsFile(m) /\ w.manifests = m.manifests
      /\ Len(w.updates) = Len(m.updates) + 1
      /\ \A old : TreeHolds(old, N) /\ Since(old, m) => Since(old, w)
  BY AuthoredMore
<1>2. BranchHolds(b, w, N)
  BY <1>1 DEF BranchHolds
<1>3. Len(m.updates) \in Nat /\ Len(b.base.updates) \in Nat /\ Len(b.tree.updates) \in Nat
  BY DEF BranchHolds, TreeHolds
<1>4. ASSUME Conflicts(b, m)
      PROVE  Conflicts(b, w)
  <2>1. FileConflicts(ResultsFile(b.base), ResultsFile(b.tree), ResultsFile(m)) => Conflicts(b, w)
    BY <1>1 DEF Conflicts
  <2>2. ASSUME FileConflicts(b.base.updates, b.tree.updates, m.updates)
        PROVE  FileConflicts(b.base.updates, b.tree.updates, w.updates)
    <3>1. b.tree.updates # b.base.updates /\ m.updates # b.base.updates /\ m.updates # b.tree.updates
      BY <2>2 DEF FileConflicts
    <3>2. Len(b.tree.updates) = Len(b.base.updates) + 1
      BY <3>1, WrittenApart
    <3>3. Since(b.base, w) => w.updates # b.tree.updates
      BY <1>1, <1>2, <3>1, WrittenApart
    <3>4. Since(b.tree, w) => w.updates # b.base.updates
      BY <1>1, <1>2, <3>1, WrittenApart
    <3>5. Since(b.tree, m) => w.updates # b.tree.updates
      BY <1>1, <1>3 DEF Since, AuthoredSince
    <3>6. Since(b.base, m) => w.updates # b.base.updates
      BY <1>1, <1>3 DEF Since, AuthoredSince
    <3>7. w.updates # b.base.updates /\ w.updates # b.tree.updates
      BY <1>1, <3>3, <3>4, <3>5, <3>6 DEF BranchHolds
    <3> QED
      BY <3>1, <3>7 DEF FileConflicts
  <2> QED
    BY <1>4, <2>1, <2>2 DEF Conflicts
<1>5. ASSUME ~Conflicts(b, m), MergeTrees(b, m) = m, ~Conflicts(b, w)
      PROVE  MergeTrees(b, w) = w
  <2>1. /\ ResultsFile(b.tree) \in {ResultsFile(b.base), ResultsFile(m)}
        /\ b.tree.updates = b.base.updates \/ b.tree.updates = m.updates
        /\ b.tree.manifests \subseteq m.manifests
    BY <1>5, MergeIsIdle
  <2>2. b.tree.updates = b.base.updates \/ b.tree.updates = w.updates
    <3>1. SUFFICES ASSUME b.tree.updates # b.base.updates
                   PROVE  FALSE
      OBVIOUS
    <3>2. b.tree.updates = m.updates
      BY <2>1, <3>1
    <3>3. Since(b.tree, m)
      BY <3>1, <3>2, WrittenApart DEF BranchHolds
    <3>4. w.updates # b.base.updates /\ w.updates # b.tree.updates
      <4>1. Since(b.tree, w)
        BY <1>1, <3>3 DEF BranchHolds
      <4>2. w.updates # b.base.updates
        BY <1>1, <1>2, <3>1, <4>1, WrittenApart
      <4> QED
        BY <1>1, <1>3, <3>2, <4>2
    <3> QED
      BY <1>5, <3>1, <3>4 DEF Conflicts, FileConflicts
  <2> QED
    BY <1>1, <2>1, <2>2, MergeIsIdle
<1> QED
  BY <1>2, <1>4, <1>5 DEF Recoverable

\* A step of the job that leaves everything else alone.
LEMMA JobStep ==
  ASSUME RefreshInv, UNCHANGED <<github, record, jobs, observed, authored>>,
         NEW n, n = refresh', n = NoRefresh \/ JobHolds(n)
  PROVE  RefreshInv'
BY DEF RefreshInv, WorldHolds, JobHolds, JobAlone, Recoverable, BranchHolds, github, record

LEMMA TakeCandidateStep ==
  ASSUME RefreshInv, TakeCandidate
  PROVE  RefreshInv'
<1> DEFINE unmerged == branch # NoBranch /\ ~branch.ancestor
           tree == IF unmerged THEN MergeTrees(branch, main) ELSE main
<1>1. PICK n : n = refresh'
  OBVIOUS
<1>2. /\ refresh.step = "candidate" /\ refresh # NoRefresh /\ ~pr /\ (unmerged => ~Conflicts(branch, main))
      /\ n = [refresh EXCEPT !.step = "state", !.tree = tree, !.base = main, !.recover = tree # main]
  BY <1>1 DEF TakeCandidate, AtStep
<1>3. JobHolds(refresh) /\ WorldHolds
  BY <1>2 DEF RefreshInv
<1>4. refresh.asked = 0 /\ \A o \in observed : o.at < jobs
  BY <1>2, <1>3 DEF JobHolds, JobAges, Opening
<1>5. PICK r, c : r = refresh /\ c = (tree # main)
  OBVIOUS
<1>6. n = [step |-> "state", tree |-> tree, base |-> main, recover |-> c, kept |-> r.kept,
           asked |-> r.asked, report |-> r.report, publish |-> r.publish]
  <2> HIDE DEF tree
  <2>1. r = [step |-> r.step, tree |-> r.tree, base |-> r.base, recover |-> r.recover, kept |-> r.kept,
             asked |-> r.asked, report |-> r.report, publish |-> r.publish]
    BY <1>3, <1>5 DEF JobHolds, JobShape
  <2> QED
    BY <1>2, <1>5, <2>1
<1>7. TreeHolds(main, observed) /\ Branched(main, main) /\ Since(main, main) /\ observed \subseteq Observations
  <2>1. TreeHolds(main, observed) /\ observed \subseteq Observations
    BY <1>3 DEF WorldHolds, Answers
  <2>2. Entry(main, main) = Authored
    BY DEF Entry, Authored
  <2>3. Forward(main, main)
    BY <2>1, FeedsAssumption DEF Forward, TreeHolds
  <2>4. Len(main.updates) \in Nat
    BY <2>1 DEF TreeHolds
  <2> QED
    BY <2>1, <2>2, <2>3, <2>4, EntryTyped DEF Branched, Since, AuthoredSince
<1>8. TreeHolds(tree, observed) /\ Branched(main, tree)
  BY <1>2, <1>3, <1>7, MergeBranches DEF WorldHolds
<1>9. tree # main => Known(tree.manifests, observed)
  <2>1. SUFFICES ASSUME tree # main
                 PROVE  Known(tree.manifests, observed)
    OBVIOUS
  <2>2. tree = MergeTrees(branch, main) /\ unmerged
    BY <2>1
  <2>3. Recoverable(branch, main)
    BY <1>2, <2>1, <2>2 DEF Recoverable
  <2>4. Known(branch.tree.manifests \cup main.manifests, observed)
    BY <1>3, <2>3 DEF WorldHolds
  <2> QED
    BY <2>2, <2>4, MergeTakes
<1>10. tree = main => ~Recoverable(branch, main)
  BY DEF Recoverable
<1> HIDE DEF tree
<1>11. JobShape(n, observed)
  <2>1. r.asked \in 0..Len(Feeds)
    BY <1>3, <1>5 DEF JobHolds, JobShape
  <2>2. c \in BOOLEAN
    BY <1>5
  <2> QED
    BY <1>6, <1>7, <1>8, <2>1, <2>2 DEF JobShape, Asking
<1>12. JobAges(n, observed, jobs)
  BY <1>4, <1>5, <1>6 DEF JobAges
<1>13. JobKnows(n, observed) /\ JobAsks(n, observed, jobs)
  BY <1>5, <1>6, <1>9 DEF JobKnows, JobAsks, Leaving
<1>14. JobAlone(n)
  <2>1. JobTells(n)
    BY <1>5, <1>6, <1>8 DEF JobTells, Branched
  <2>2. n.recover \/ ~Recoverable(branch, main)
    BY <1>5, <1>6, <1>10
  <2> QED
    BY <1>2, <1>6, <1>7, <2>1, <2>2 DEF JobAlone
<1> QED
  BY <1>1, <1>11, <1>12, <1>13, <1>14, JobStep DEF JobHolds, TakeCandidate

LEMMA TreeGains ==
  ASSUME NEW N, NEW t, TreeHolds(t, N), NEW more, NEW K, N \subseteq K, more \subseteq K
  PROVE  /\ TreeHolds(WithEvidence(t, more), K)
         /\ WithEvidence(t, more) =
              [counts |-> t.counts, bound |-> t.bound, failures |-> t.failures,
               updates |-> t.updates, manifests |-> t.manifests \cup more]
<1>1. t = [counts |-> t.counts, bound |-> t.bound, failures |-> t.failures,
           updates |-> t.updates, manifests |-> t.manifests]
  BY DEF TreeHolds
<1>2. WithEvidence(t, more) =
        [counts |-> t.counts, bound |-> t.bound, failures |-> t.failures,
         updates |-> t.updates, manifests |-> t.manifests \cup more]
  BY <1>1 DEF WithEvidence
<1> DEFINE w == WithEvidence(t, more)
<1> HIDE DEF w
<1>3. TreeHolds(w, K)
  BY <1>2 DEF TreeHolds, w
<1> QED
  BY <1>2, <1>3 DEF w

\* Evidence alone tells nothing.
LEMMA SameTold ==
  ASSUME NEW old, NEW new, NEW w,
         w.counts = new.counts, w.failures = new.failures, w.updates = new.updates
  PROVE  /\ Forward(old, new) => Forward(old, w)
         /\ Branched(old, new) => Branched(old, w)
<1>1. Entry(old, w) = Entry(old, new)
  BY DEF Entry
<1> QED
  BY <1>1 DEF Branched, Forward

\* A step that goes on with the same candidate.
Moved(r, s) == [r EXCEPT !.step = s]
LEMMA MovedIs ==
  ASSUME NEW N, NEW r, JobShape(r, N), NEW s, NEW n, n = Moved(r, s)
  PROVE  n = [step |-> s, tree |-> r.tree, base |-> r.base, recover |-> r.recover, kept |-> r.kept,
              asked |-> r.asked, report |-> r.report, publish |-> r.publish]
<1>1. r = [step |-> r.step, tree |-> r.tree, base |-> r.base, recover |-> r.recover, kept |-> r.kept,
           asked |-> r.asked, report |-> r.report, publish |-> r.publish]
  BY DEF JobShape
<1> QED
  BY <1>1 DEF Moved

LEMMA PreliminaryStarts ==
  ASSUME RefreshInit
  PROVE  RefreshInv
<1> DEFINE N == {Observation(s, 0, "captured", Seed) : s \in SourcesAsked}
<1>1. /\ main = [counts |-> [s \in SourcesAsked |-> Seed], bound |-> [s \in SourcesAsked |-> 0],
                 failures |-> {}, updates |-> << >>, manifests |-> N]
      /\ branch = NoBranch /\ saved = NoState /\ refresh = NoRefresh /\ jobs = 0 /\ observed = N
  BY DEF RefreshInit
<1>2. \A o \in N : /\ o \in Observations /\ o.at = 0 /\ o.kind = "captured"
                   /\ o = Observation(o.source, 0, "captured", Seed)
  BY DEF Observation, Observations, Kinds
<1>3. \A s \in SourcesAsked : \E o \in N : o.source = s
  <2> TAKE s \in SourcesAsked
  <2>1. Observation(s, 0, "captured", Seed) \in N
    OBVIOUS
  <2>2. Observation(s, 0, "captured", Seed).source = s
    BY DEF Observation
  <2> HIDE DEF N
  <2> QED
    BY <2>1, <2>2
<1> HIDE DEF N
<1>4. Answers(N, 0)
  BY <1>2, <1>3 DEF Answers
<1>5. TreeHolds(main, N)
  BY <1>1, <1>3 DEF TreeHolds
<1>6. \A s \in SourcesAsked : ~OnHold(s, N)
  <2> TAKE s \in SourcesAsked
  <2>1. Latest(s, N) \in N
    BY <1>3, <1>4, LatestIs
  <2> QED
    BY <1>2, <2>1 DEF OnHold, Denied
<1>7. ~Recoverable(branch, main)
  BY <1>1 DEF Recoverable
<1> QED
  BY <1>1, <1>4, <1>5, <1>6, <1>7 DEF RefreshInv, WorldHolds

LEMMA StartJobStep ==
  ASSUME RefreshInv, StartJob
  PROVE  RefreshInv'
<1>1. PICK n : n = refresh'
  OBVIOUS
<1>2. n = [step |-> "candidate", tree |-> main, base |-> main, recover |-> FALSE, kept |-> NoState,
           asked |-> 0, report |-> NoState, publish |-> FALSE]
  BY <1>1 DEF StartJob
<1>3. jobs' = jobs + 1 /\ UNCHANGED <<main, branch, pr, saved, intended, observed>>
  BY DEF StartJob, github, record
<1>4. WorldHolds
  BY DEF RefreshInv
<1>5. Answers(observed, jobs') /\ \A o \in observed : o.at < jobs'
  <2>1. jobs \in Nat /\ \A o \in observed : o.at \in Nat /\ o.at <= jobs
    BY <1>4 DEF WorldHolds, Answers, Observations
  <2>2. jobs' \in Nat /\ \A o \in observed : o.at < jobs'
    BY <1>3, <2>1
  <2>3. \A o \in observed : o.at <= jobs'
    BY <2>1, <2>2
  <2> QED
    BY <1>4, <2>2, <2>3 DEF WorldHolds, Answers
<1>6. WorldHolds'
  BY <1>3, <1>4, <1>5 DEF WorldHolds, Recoverable, BranchHolds
<1>7. JobShape(n, observed)
  <2>1. Len(Feeds) \in Nat
    BY FeedsAssumption
  <2> QED
    BY <1>2, <1>4, <2>1 DEF JobShape, Opening, WorldHolds
<1>8. JobAges(n, observed, jobs')
  BY <1>2, <1>5 DEF JobAges
<1>9. JobKnows(n, observed) /\ JobAsks(n, observed, jobs') /\ JobAlone(n)'
  BY <1>2 DEF JobKnows, JobAsks, JobAlone, Leaving, Asking, Closing
<1> QED
  BY <1>1, <1>3, <1>6, <1>7, <1>8, <1>9 DEF RefreshInv, JobHolds

LEMMA ValidateStateStep ==
  ASSUME RefreshInv, ValidateState
  PROVE  RefreshInv'
<1> DEFINE holds == IF saved = NoState THEN {} ELSE saved.holds
<1>1. PICK n, r, t : n = refresh' /\ r = refresh /\ t = WithEvidence(refresh.tree, holds)
  OBVIOUS
<1>2. /\ r.step = "state" /\ refresh # NoRefresh /\ (r.recover \/ (intended => OutcomeKnown(saved)))
      /\ n = [r EXCEPT !.step = "intent", !.tree = t]
  BY <1>1 DEF ValidateState, AtStep
<1>3. JobHolds(r) /\ WorldHolds
  BY <1>1, <1>2 DEF RefreshInv
<1>4. n = [step |-> "intent", tree |-> t, base |-> r.base, recover |-> r.recover, kept |-> r.kept,
           asked |-> r.asked, report |-> r.report, publish |-> r.publish]
  <2>1. r = [step |-> r.step, tree |-> r.tree, base |-> r.base, recover |-> r.recover, kept |-> r.kept,
             asked |-> r.asked, report |-> r.report, publish |-> r.publish]
    BY <1>3 DEF JobHolds, JobShape
  <2> QED
    BY <1>2, <2>1
<1>5. /\ TreeHolds(t, observed)
      /\ t = [counts |-> r.tree.counts, bound |-> r.tree.bound, failures |-> r.tree.failures,
              updates |-> r.tree.updates, manifests |-> r.tree.manifests \cup holds]
  <2>1. TreeHolds(r.tree, observed) /\ holds \subseteq observed
    BY <1>3 DEF JobHolds, JobShape, WorldHolds
  <2> HIDE DEF holds
  <2> QED
    BY <1>1, <2>1, TreeGains
<1>6. Known(t.manifests, observed)
  <2>1. CASE r.recover
    <3>1. Known(r.tree.manifests, observed)
      BY <1>2, <1>3, <2>1 DEF JobHolds, JobKnows
    <3> QED
      BY <1>5, <3>1, KnownMore
  <2>2. CASE ~intended
    BY <1>3, <2>2 DEF WorldHolds, Known
  <2>3. CASE saved # NoState
    <3>1. Known(holds, observed)
      BY <1>3, <2>3 DEF WorldHolds
    <3> QED
      BY <1>5, <3>1, KnownMore
  <2> QED
    BY <1>2, <2>1, <2>2, <2>3 DEF OutcomeKnown
<1> HIDE DEF holds
<1>7. JobShape(n, observed)
  BY <1>3, <1>4, <1>5 DEF JobHolds, JobShape, Asking
<1>8. JobAges(n, observed, jobs)
  BY <1>2, <1>3, <1>4 DEF JobHolds, JobAges, Opening
<1>9. JobKnows(n, observed) /\ JobAsks(n, observed, jobs)
  BY <1>4, <1>6 DEF JobKnows, JobAsks, Leaving
<1>10. JobAlone(n)
  <2>1. t.counts = r.tree.counts /\ t.failures = r.tree.failures /\ t.updates = r.tree.updates
    BY <1>5
  <2>2. ~pr /\ Since(r.base, main) /\ (r.recover \/ ~Recoverable(branch, main)) /\ JobTells(r)
    BY <1>2, <1>3 DEF JobHolds, JobAlone, Asking
  <2>3. JobTells(n)
    BY <1>2, <1>4, <2>1, <2>2, SameTold DEF JobTells
  <2> QED
    BY <1>4, <2>2, <2>3 DEF JobAlone
<1> QED
  BY <1>1, <1>7, <1>8, <1>9, <1>10, JobStep DEF JobHolds, ValidateState

LEMMA PersistIntentStep ==
  ASSUME RefreshInv, PersistIntent
  PROVE  RefreshInv'
<1> DEFINE s == IF refresh.recover THEN "completion" ELSE "preflight"
<1>1. PICK n, r : n = refresh' /\ r = refresh
  OBVIOUS
<1>2. r.step = "intent" /\ refresh # NoRefresh /\ n = Moved(r, s)
  BY <1>1 DEF PersistIntent, AtStep, Continue, Moved
<1>3. JobHolds(r) /\ WorldHolds
  BY <1>1, <1>2 DEF RefreshInv
<1>4. /\ n = [step |-> s, tree |-> r.tree, base |-> r.base, recover |-> r.recover, kept |-> r.kept,
              asked |-> r.asked, report |-> r.report, publish |-> r.publish]
      /\ s = IF r.recover THEN "completion" ELSE "preflight"
  BY <1>1, <1>2, <1>3, MovedIs DEF JobHolds
<1> HIDE DEF s
<1>5. UNCHANGED <<main, branch, pr, jobs, observed>> /\ intended' = TRUE /\ saved' = NoState
  BY DEF PersistIntent, github
<1>6. WorldHolds'
  BY <1>3, <1>5 DEF WorldHolds, Recoverable, BranchHolds
<1>7. JobShape(n, observed)
  BY <1>3, <1>4 DEF JobHolds, JobShape, Closing, Opening
<1>8. JobAges(n, observed, jobs)
  BY <1>2, <1>3, <1>4 DEF JobHolds, JobAges, Opening
<1>9. JobKnows(n, observed) /\ JobAsks(n, observed, jobs)
  BY <1>2, <1>3, <1>4 DEF JobHolds, JobKnows, JobAsks, Leaving
<1>10. JobAlone(n)'
  <2>1. ~pr /\ Since(r.base, main) /\ (r.recover \/ ~Recoverable(branch, main)) /\ JobTells(r)
    BY <1>2, <1>3 DEF JobHolds, JobAlone, Asking
  <2>2. JobTells(n)
    BY <1>2, <1>4, <2>1 DEF JobTells
  <2>3. ~(n.step \in {"preflight", "request"}) \/ ~n.recover
    BY <1>3, <1>4 DEF JobHolds, JobShape
  <2> QED
    BY <1>4, <1>5, <2>1, <2>2, <2>3 DEF JobAlone, Recoverable
<1> QED
  BY <1>1, <1>5, <1>6, <1>7, <1>8, <1>9, <1>10 DEF RefreshInv, JobHolds

\* A refresh that stops with a report tells what its candidate does.
Ended(r, t, report) == [r EXCEPT !.step = "completion", !.tree = t, !.report = report]
LEMMA EndedJob ==
  ASSUME RefreshInv, NEW r, r = refresh, JobHolds(r), r.step \in {"preflight", "request"},
         NEW t, TreeHolds(t, observed), Known(t.manifests, observed), Forward(r.base, t),
         t.updates = r.base.updates,
         NEW report, NEW n, n = Ended(r, t, report)
  PROVE  JobHolds(n)
<1>1. n = [step |-> "completion", tree |-> t, base |-> r.base, recover |-> r.recover, kept |-> r.kept,
           asked |-> r.asked, report |-> report, publish |-> r.publish]
  <2>1. r = [step |-> r.step, tree |-> r.tree, base |-> r.base, recover |-> r.recover, kept |-> r.kept,
             asked |-> r.asked, report |-> r.report, publish |-> r.publish]
    BY DEF JobHolds, JobShape
  <2> QED
    BY <2>1 DEF Ended
<1>2. JobShape(n, observed)
  BY <1>1 DEF JobHolds, JobShape, Closing
<1>3. JobAges(n, observed, jobs) /\ JobKnows(n, observed) /\ JobAsks(n, observed, jobs)
  BY <1>1 DEF JobAges, JobKnows, JobAsks, Opening, Leaving
<1>4. ~r.recover /\ ~pr /\ Since(r.base, main) /\ ~Recoverable(branch, main)
  BY DEF JobHolds, JobAlone, Asking
<1>5. JobAlone(n)
  BY <1>1, <1>4 DEF JobAlone, JobTells
<1> QED
  BY <1>2, <1>3, <1>5 DEF JobHolds

LEMMA PreflightStep ==
  ASSUME RefreshInv, Preflight
  PROVE  RefreshInv'
<1>1. PICK n, r : n = refresh' /\ r = refresh
  OBVIOUS
<1>2. r.step = "preflight" /\ refresh # NoRefresh
  BY <1>1 DEF Preflight, AtStep
<1>3. JobHolds(r) /\ WorldHolds
  BY <1>1, <1>2 DEF RefreshInv
<1>4. Known(r.tree.manifests, observed) /\ TreeHolds(r.tree, observed)
  BY <1>2, <1>3 DEF JobHolds, JobShape, JobKnows
<1>5. ~r.recover /\ ~pr /\ Since(r.base, main) /\ ~Recoverable(branch, main) /\ JobTells(r)
      /\ intended /\ saved = NoState
  BY <1>2, <1>3 DEF JobHolds, JobAlone, Asking
<1>6. CASE \E s \in SourcesAsked : OnHold(s, r.tree.manifests)
  <2>1. n = Ended(r, r.tree, "blocked")
    BY <1>1, <1>6 DEF Preflight, Blocked, Ended
  <2>2. Forward(r.base, r.tree) /\ r.tree.updates = r.base.updates
    BY <1>2, <1>5 DEF JobTells
  <2>3. JobHolds(n)
    BY <1>1, <1>2, <1>3, <1>4, <2>1, <2>2, EndedJob
  <2> QED
    BY <1>1, <2>3, JobStep DEF Preflight
<1>7. CASE ~\E s \in SourcesAsked : OnHold(s, r.tree.manifests)
  <2>1. n = Moved(r, "request")
    BY <1>1, <1>7 DEF Preflight, Continue, Moved
  <2>2. n = [step |-> "request", tree |-> r.tree, base |-> r.base, recover |-> r.recover, kept |-> r.kept,
             asked |-> r.asked, report |-> r.report, publish |-> r.publish]
    BY <1>3, <2>1, MovedIs DEF JobHolds
  <2>3. \A s \in SourcesAsked : ~OnHold(s, observed)
    <3>1. Answers(observed, jobs) /\ r.tree.manifests \subseteq observed
      BY <1>3, <1>4 DEF WorldHolds, TreeHolds
    <3> QED
      BY <1>4, <1>7, <3>1, HoldsAreShown
  <2>4. \A i \in 1..Len(Feeds) : Feeds[i] \in SourcesAsked
    BY FeedsAssumption DEF SourcesAsked, Range
  <2>5. r.asked = 0 /\ \A o \in observed : o.at < jobs
    BY <1>2, <1>3 DEF JobHolds, JobAges, Opening
  <2>6. JobShape(n, observed)
    BY <1>3, <2>2 DEF JobHolds, JobShape, Asking
  <2>7. JobAges(n, observed, jobs)
    BY <2>2, <2>5 DEF JobAges, Opening
  <2>8. JobKnows(n, observed)
    BY <1>4, <2>2 DEF JobKnows, Leaving
  <2>9. JobAsks(n, observed, jobs)
    BY <2>2, <2>3, <2>4, <2>5 DEF JobAsks
  <2>10. JobAlone(n)
    BY <1>2, <1>5, <2>2 DEF JobAlone, JobTells
  <2> QED
    BY <1>1, <2>6, <2>7, <2>8, <2>9, <2>10, JobStep DEF JobHolds, Preflight
<1> QED
  BY <1>6, <1>7

\* What an answer leaves of the world: at the end of a request, nothing waits for a job to recover it.
LEMMA AnswerLeaves ==
  ASSUME WorldHolds, intended, saved = NoState, ~Recoverable(branch, main),
         NEW o \in Observations, o.at = jobs, \A p \in observed : p.source = o.source => p.at < jobs,
         observed' = observed \cup {o}, UNCHANGED <<main, branch, pr, saved, intended, jobs>>
  PROVE  WorldHolds'
<1>1. jobs \in Nat /\ Answers(observed, jobs) /\ jobs <= jobs
  BY DEF WorldHolds, Answers
<1>2. Answers(observed', jobs')
  BY <1>1, LatestMore
<1>3. \A t : TreeHolds(t, observed) => TreeHolds(t, observed')
  BY DEF TreeHolds
<1>4. TreeHolds(main, observed')
  BY <1>3 DEF WorldHolds
<1>5. branch = NoBranch \/ BranchHolds(branch, main, observed')
  BY <1>3 DEF WorldHolds, BranchHolds
<1> QED
  BY <1>2, <1>4, <1>5 DEF WorldHolds, Recoverable

\* The source a request asks has not been asked by this job, and is not on hold.
LEMMA RequestTurn ==
  ASSUME RefreshInv, AtStep("request"), refresh.asked < Len(Feeds)
  PROVE  /\ Feeds[refresh.asked + 1] \in SourcesAsked
         /\ ~OnHold(Feeds[refresh.asked + 1], observed)
         /\ \A p \in observed : p.source = Feeds[refresh.asked + 1] => p.at < jobs
         /\ jobs \in Nat
<1>1. refresh # NoRefresh /\ refresh.step = "request"
  BY DEF AtStep
<1>2. JobHolds(refresh) /\ WorldHolds
  BY <1>1 DEF RefreshInv
<1>3. refresh.asked \in Nat /\ refresh.asked + 1 \in refresh.asked + 1..Len(Feeds) /\ Len(Feeds) \in Nat
  BY <1>2, FeedsAssumption DEF JobHolds, JobShape
<1>4. refresh.asked + 1 \in DOMAIN Feeds /\ \A i \in 1..refresh.asked : i \in DOMAIN Feeds
  BY <1>3, FeedsAssumption
<1>5. \A i \in 1..refresh.asked : Feeds[i] # Feeds[refresh.asked + 1]
  BY <1>3, <1>4, FeedsAssumption DEF IsInjective
<1>6. \A p \in observed : p.at < jobs \/ \E i \in 1..refresh.asked : p.source = Feeds[i]
  BY <1>1, <1>2 DEF JobHolds, JobAges
<1>7. ~OnHold(Feeds[refresh.asked + 1], observed)
  BY <1>1, <1>2, <1>3 DEF JobHolds, JobAsks
<1> QED
  BY <1>2, <1>4, <1>5, <1>6, <1>7 DEF SourcesAsked, Range, WorldHolds, Answers

LEMMA RequestFailsStep ==
  ASSUME RefreshInv, RequestFails
  PROVE  RefreshInv'
<1> DEFINE answer(kind) == Observation(Feeds[refresh.asked + 1], jobs, kind, NoState)
<1>a. PICK kind \in {"denied", "failed"} :
        /\ observed' = observed \cup {answer(kind)}
        /\ Blocked([WithEvidence(refresh.tree, {answer(kind)}) EXCEPT !.failures = @ \cup {answer(kind)}])
  BY DEF RequestFails
<1>b. PICK o, n, r : o = answer(kind) /\ n = refresh' /\ r = refresh
  OBVIOUS
<1>c. PICK t : t = [WithEvidence(refresh.tree, {o}) EXCEPT !.failures = @ \cup {o}]
  OBVIOUS
<1>1. /\ o = Observation(Feeds[refresh.asked + 1], jobs, kind, NoState)
      /\ n = refresh' /\ r = refresh
      /\ t = [WithEvidence(refresh.tree, {o}) EXCEPT !.failures = @ \cup {o}]
      /\ observed' = observed \cup {o} /\ Blocked(t)
  BY <1>a, <1>b, <1>c
<1>2. AtStep("request") /\ refresh.asked < Len(Feeds) /\ refresh # NoRefresh /\ r.step = "request"
  BY <1>1 DEF RequestFails, AtStep
<1>3. JobHolds(r) /\ WorldHolds
  BY <1>1, <1>2 DEF RefreshInv
<1>4. /\ o \in Observations /\ o.at = jobs
      /\ \A p \in observed : p.source = o.source => p.at < jobs
  BY <1>1, <1>2, RequestTurn DEF Observation, Observations, Kinds
<1>5. ~r.recover /\ ~pr /\ Since(r.base, main) /\ ~Recoverable(branch, main) /\ JobTells(r)
      /\ intended /\ saved = NoState
  BY <1>2, <1>3 DEF JobHolds, JobAlone, Asking
<1>6. UNCHANGED <<main, branch, pr, saved, intended, jobs>>
  BY DEF RequestFails, github, record
<1>7. WorldHolds'
  BY <1>1, <1>3, <1>4, <1>5, <1>6, AnswerLeaves
<1>8. /\ TreeHolds(r.tree, observed) /\ Known(r.tree.manifests, observed)
      /\ Forward(r.base, r.tree) /\ r.tree.updates = r.base.updates
  BY <1>2, <1>3, <1>5 DEF JobHolds, JobShape, JobKnows, JobTells
<1>9. t = [counts |-> r.tree.counts, bound |-> r.tree.bound, failures |-> r.tree.failures \cup {o},
           updates |-> r.tree.updates, manifests |-> r.tree.manifests \cup {o}]
  <2>1. PICK w : w = WithEvidence(r.tree, {o})
    OBVIOUS
  <2>2. w = [counts |-> r.tree.counts, bound |-> r.tree.bound, failures |-> r.tree.failures,
             updates |-> r.tree.updates, manifests |-> r.tree.manifests \cup {o}]
    <3>1. {o} \subseteq observed \cup {o} /\ observed \subseteq observed \cup {o}
      OBVIOUS
    <3> QED
      BY <1>8, <2>1, <3>1, TreeGains
  <2>3. t = [w EXCEPT !.failures = @ \cup {o}]
    BY <1>1, <2>1
  <2> QED
    BY <2>2, <2>3
<1>10. TreeHolds(t, observed \cup {o})
  <2>1. o \in observed \cup {o}
    OBVIOUS
  <2>2. t.failures = r.tree.failures \cup {o} /\ t.manifests = r.tree.manifests \cup {o}
        /\ t.counts = r.tree.counts /\ t.updates = r.tree.updates
    BY <1>9
  <2> QED
    BY <1>8, <1>9, <2>1, <2>2 DEF TreeHolds
<1>11. Known(t.manifests, observed')
  <2>1. jobs \in Nat /\ Answers(observed, jobs) /\ jobs <= jobs
    BY <1>3 DEF WorldHolds, Answers
  <2>2. Known(r.tree.manifests \cup {o}, observed \cup {o})
    BY <1>4, <1>8, <2>1, KnownStep
  <2>3. t.manifests = r.tree.manifests \cup {o}
    BY <1>9
  <2> QED
    BY <1>1, <2>2, <2>3
<1>12. Forward(r.base, t) /\ t.updates = r.base.updates
  BY <1>8, <1>9 DEF Forward
<1>13. n = [step |-> "completion", tree |-> t, base |-> r.base, recover |-> r.recover, kept |-> r.kept,
            asked |-> r.asked, report |-> "blocked", publish |-> r.publish]
  <2>1. r = [step |-> r.step, tree |-> r.tree, base |-> r.base, recover |-> r.recover, kept |-> r.kept,
             asked |-> r.asked, report |-> r.report, publish |-> r.publish]
    BY <1>3 DEF JobHolds, JobShape
  <2>2. n = [r EXCEPT !.step = "completion", !.tree = t, !.report = "blocked"]
    BY <1>1 DEF Blocked
  <2> QED
    BY <2>1, <2>2
<1>14. JobShape(n, observed')
  <2>1. TreeHolds(r.base, observed')
    BY <1>1, <1>3 DEF JobHolds, JobShape, TreeHolds
  <2> QED
    BY <1>1, <1>3, <1>10, <1>13, <2>1 DEF JobHolds, JobShape, Closing
<1>15. JobAges(n, observed', jobs) /\ JobKnows(n, observed') /\ JobAsks(n, observed', jobs)
  BY <1>11, <1>13 DEF JobAges, JobKnows, JobAsks, Opening, Leaving
<1>16. JobAlone(n)'
  BY <1>5, <1>6, <1>12, <1>13 DEF JobAlone, JobTells, Recoverable
<1> QED
  BY <1>1, <1>6, <1>7, <1>14, <1>15, <1>16 DEF RefreshInv, JobHolds

LEMMA RequestSucceedsStep ==
  ASSUME RefreshInv, RequestSucceeds
  PROVE  RefreshInv'
<1>1. PICK body, o, n, r, t :
        /\ body \in Bodies
        /\ o = Observation(Feeds[refresh.asked + 1], jobs, "captured", body)
        /\ n = refresh' /\ r = refresh /\ t = WithEvidence(refresh.tree, {o})
        /\ observed' = observed \cup {o}
        /\ n = [r EXCEPT !.asked = @ + 1, !.tree = t]
  BY DEF RequestSucceeds
<1>2. AtStep("request") /\ refresh.asked < Len(Feeds) /\ refresh # NoRefresh /\ r.step = "request"
  BY <1>1 DEF RequestSucceeds, AtStep
<1>3. JobHolds(r) /\ WorldHolds
  BY <1>1, <1>2 DEF RefreshInv
<1>4. /\ o \in Observations /\ o.at = jobs /\ o.source = Feeds[r.asked + 1]
      /\ \A p \in observed : p.source = o.source => p.at < jobs
      /\ o.source \in SourcesAsked
  BY <1>1, <1>2, RequestTurn DEF Observation, Observations, Kinds
<1>5. ~r.recover /\ ~pr /\ Since(r.base, main) /\ ~Recoverable(branch, main) /\ JobTells(r)
      /\ intended /\ saved = NoState
  BY <1>2, <1>3 DEF JobHolds, JobAlone, Asking
<1>6. UNCHANGED <<main, branch, pr, saved, intended, jobs>>
  BY DEF RequestSucceeds, github, record
<1>7. WorldHolds'
  BY <1>1, <1>3, <1>4, <1>5, <1>6, AnswerLeaves
<1>8. /\ TreeHolds(r.tree, observed) /\ Known(r.tree.manifests, observed)
      /\ Forward(r.base, r.tree) /\ r.tree.updates = r.base.updates
  BY <1>2, <1>3, <1>5 DEF JobHolds, JobShape, JobKnows, JobTells
<1>9. /\ TreeHolds(t, observed \cup {o})
      /\ t = [counts |-> r.tree.counts, bound |-> r.tree.bound, failures |-> r.tree.failures,
              updates |-> r.tree.updates, manifests |-> r.tree.manifests \cup {o}]
  <2>1. {o} \subseteq observed \cup {o} /\ observed \subseteq observed \cup {o}
    OBVIOUS
  <2> QED
    BY <1>1, <1>8, <2>1, TreeGains
<1>10. t.counts = r.tree.counts /\ t.failures = r.tree.failures /\ t.updates = r.tree.updates
       /\ t.manifests = r.tree.manifests \cup {o}
  BY <1>9
<1>11. jobs \in Nat /\ Answers(observed, jobs) /\ jobs <= jobs
  BY <1>3 DEF WorldHolds, Answers
<1>12. Known(t.manifests, observed')
  <2>1. Known(r.tree.manifests \cup {o}, observed \cup {o})
    BY <1>4, <1>8, <1>11, KnownStep
  <2> QED
    BY <1>1, <1>10, <2>1
<1>13. n = [step |-> r.step, tree |-> t, base |-> r.base, recover |-> r.recover, kept |-> r.kept,
            asked |-> r.asked + 1, report |-> r.report, publish |-> r.publish]
  <2>1. r = [step |-> r.step, tree |-> r.tree, base |-> r.base, recover |-> r.recover, kept |-> r.kept,
             asked |-> r.asked, report |-> r.report, publish |-> r.publish]
    BY <1>3 DEF JobHolds, JobShape
  <2> QED
    BY <1>1, <2>1
<1>14. r.asked \in Nat /\ Len(Feeds) \in Nat /\ r.asked < Len(Feeds)
  BY <1>1, <1>2, <1>3, FeedsAssumption DEF JobHolds, JobShape
<1>15. JobShape(n, observed')
  <2>1. TreeHolds(r.base, observed')
    BY <1>1, <1>3 DEF JobHolds, JobShape, TreeHolds
  <2>2. r.asked + 1 \in 0..Len(Feeds)
    BY <1>14
  <2> QED
    BY <1>1, <1>2, <1>3, <1>9, <1>13, <2>1, <2>2 DEF JobHolds, JobShape, Asking
<1>16. JobAges(n, observed', jobs)
  <2>1. \A p \in observed : p.at < jobs \/ \E i \in 1..r.asked : p.source = Feeds[i]
    BY <1>2, <1>3 DEF JobHolds, JobAges
  <2>2. r.asked + 1 \in 1..r.asked + 1 /\ \A i \in 1..r.asked : i \in 1..r.asked + 1
    BY <1>14
  <2>3. \A p \in observed' : p.at < jobs \/ \E i \in 1..r.asked + 1 : p.source = Feeds[i]
    BY <1>1, <1>4, <2>1, <2>2
  <2> QED
    BY <1>2, <1>13, <2>3 DEF JobAges, Opening
<1>17. JobAsks(n, observed', jobs)
  <2>1. ASSUME NEW i \in 1..r.asked + 1
        PROVE  \E b \in Bodies : Observation(Feeds[i], jobs, "captured", b) \in t.manifests
    <3>1. CASE i \in 1..r.asked
      BY <1>2, <1>3, <1>10, <3>1 DEF JobHolds, JobAsks
    <3>2. CASE i = r.asked + 1
      BY <1>1, <1>10, <3>2
    <3> QED
      BY <1>14, <3>1, <3>2
  <2>2. ASSUME NEW i \in (r.asked + 1) + 1..Len(Feeds)
        PROVE  ~OnHold(Feeds[i], observed')
    <3>1. ~OnHold(Feeds[i], observed)
      BY <1>2, <1>3, <1>14 DEF JobHolds, JobAsks
    <3>2. i \in DOMAIN Feeds /\ r.asked + 1 \in DOMAIN Feeds /\ i # r.asked + 1
      BY <1>14, FeedsAssumption
    <3>3. Feeds[i] \in SourcesAsked \ {o.source}
      BY <1>4, <3>2, FeedsAssumption DEF IsInjective, SourcesAsked, Range
    <3>4. Latest(Feeds[i], observed \cup {o}) = Latest(Feeds[i], observed)
      BY <1>4, <1>11, <3>3, LatestMore
    <3> QED
      BY <1>1, <3>1, <3>4 DEF OnHold
  <2> QED
    BY <1>13, <2>1, <2>2 DEF JobAsks
<1>18. JobKnows(n, observed')
  BY <1>2, <1>12, <1>13 DEF JobKnows, Leaving
<1>19. JobAlone(n)'
  <2>1. Forward(r.base, t)
    BY <1>8, <1>10, SameTold
  <2> QED
    BY <1>2, <1>5, <1>6, <1>8, <1>10, <1>13, <2>1 DEF JobAlone, JobTells, Recoverable
<1> QED
  BY <1>1, <1>6, <1>7, <1>15, <1>16, <1>17, <1>18, <1>19 DEF RefreshInv, JobHolds

LEMMA PrepareStep ==
  ASSUME RefreshInv, Prepare
  PROVE  RefreshInv'
<1> DEFINE counts == [s \in SourcesAsked |-> Latest(s, refresh.tree.manifests).body]
           bound == [s \in SourcesAsked |-> jobs]
<1>1. PICK n, r, t : /\ n = refresh' /\ r = refresh
                     /\ t = [refresh.tree EXCEPT !.counts = counts, !.bound = bound]
  OBVIOUS
<1>2. refresh # NoRefresh /\ r.step = "request" /\ r.asked = Len(Feeds)
  BY <1>1 DEF Prepare, AtStep
<1>3. JobHolds(r) /\ WorldHolds
  BY <1>1, <1>2 DEF RefreshInv
<1>4. /\ TreeHolds(r.tree, observed) /\ Known(r.tree.manifests, observed)
      /\ Forward(r.base, r.tree) /\ r.tree.updates = r.base.updates
  BY <1>2, <1>3 DEF JobHolds, JobShape, JobKnows, JobAlone, JobTells, Asking
<1>5. \A s \in SourcesAsked : Latest(s, r.tree.manifests).body \in Bodies
  <2> TAKE s \in SourcesAsked
  <2>1. PICK i \in 1..Len(Feeds) : s = Feeds[i]
    BY FeedsAssumption DEF SourcesAsked, Range
  <2>2. PICK b \in Bodies : Observation(Feeds[i], jobs, "captured", b) \in r.tree.manifests
    BY <1>2, <1>3 DEF JobHolds, JobAsks
  <2>3. PICK o : o = Observation(Feeds[i], jobs, "captured", b)
    OBVIOUS
  <2>4. o \in r.tree.manifests /\ o.source = s /\ o.at = jobs /\ o.body = b
    BY <2>1, <2>2, <2>3 DEF Observation
  <2>5. Answers(observed, jobs) /\ r.tree.manifests \subseteq observed
    BY <1>3, <1>4 DEF WorldHolds, TreeHolds
  <2>6. \A p \in r.tree.manifests : p.source = o.source => p.at <= o.at
    BY <2>4, <2>5 DEF Answers
  <2>7. Latest(s, r.tree.manifests) = o
    BY <2>4, <2>5, <2>6, LatestEquals
  <2> QED
    BY <2>4, <2>7
<1>6. CASE ~Regressed(r.tree.counts, counts) /\ n = Ended(r, t, "prepared")
  <2>1. t = [counts |-> counts, bound |-> bound, failures |-> r.tree.failures,
             updates |-> r.tree.updates, manifests |-> r.tree.manifests]
    <3>1. PICK u : u = r.tree
      OBVIOUS
    <3>2. u = [counts |-> u.counts, bound |-> u.bound, failures |-> u.failures,
               updates |-> u.updates, manifests |-> u.manifests]
      BY <1>4, <3>1 DEF TreeHolds
    <3> HIDE DEF counts, bound
    <3>3. t = [u EXCEPT !.counts = counts, !.bound = bound]
      BY <1>1, <3>1
    <3> QED
      BY <3>1, <3>2, <3>3
  <2>2. counts \in [SourcesAsked -> Bodies]
    BY <1>1, <1>5
  <2>3. \A s \in SourcesAsked : r.tree.counts[s].time <= counts[s].time
    <3> HIDE DEF counts
    <3> QED
      BY <1>4, <1>6, <2>2, FeedsAssumption DEF Regressed, TreeHolds
  <2> HIDE DEF counts, bound
  <2>4. t.counts = counts /\ t.failures = r.tree.failures /\ t.updates = r.tree.updates
        /\ t.manifests = r.tree.manifests
    BY <2>1
  <2>5. TreeHolds(t, observed) /\ Known(t.manifests, observed)
    BY <1>4, <2>1, <2>2, <2>4 DEF TreeHolds
  <2>6. Forward(r.base, t)
    <3>1. \A s \in SourcesAsked :
            /\ r.base.counts[s].time \in Int /\ r.tree.counts[s].time \in Int /\ counts[s].time \in Int
            /\ r.base.counts[s].time <= r.tree.counts[s].time
      BY <1>3, <1>4, <2>2, FeedsAssumption DEF JobHolds, JobShape, TreeHolds, Forward
    <3>2. \A s \in SourcesAsked : r.base.counts[s].time <= t.counts[s].time
      BY <2>3, <2>4, <3>1
    <3> QED
      BY <1>4, <2>4, <3>2 DEF Forward
  <2>7. JobHolds(n)
    BY <1>1, <1>2, <1>3, <1>4, <1>6, <2>4, <2>5, <2>6, EndedJob
  <2> QED
    BY <1>1, <2>7, JobStep DEF Prepare
<1>7. CASE n = Ended(r, r.tree, "blocked")
  <2>1. JobHolds(n)
    BY <1>1, <1>2, <1>3, <1>4, <1>7, EndedJob
  <2> QED
    BY <1>1, <2>1, JobStep DEF Prepare
<1>8. \/ ~Regressed(r.tree.counts, counts) /\ n = Ended(r, t, "prepared")
      \/ n = Ended(r, r.tree, "blocked")
  BY <1>1 DEF Prepare, Blocked, Ended
<1> QED
  BY <1>6, <1>7, <1>8

LEMMA CompleteStep ==
  ASSUME RefreshInv, Complete
  PROVE  RefreshInv'
<1> DEFINE k == [phase |-> "prepared", holds |-> HeldIn(refresh.tree), blocked |-> refresh.report = "blocked"]
           p == ~(refresh.report = "blocked") \/ ResultsFile(refresh.tree) # ResultsFile(refresh.base)
<1>1. PICK n, r, q, l : n = refresh' /\ r = refresh /\ q = p /\ l = k
  OBVIOUS
<1>2. r.step = "completion" /\ refresh # NoRefresh /\ n = [r EXCEPT !.step = "artifact", !.kept = l, !.publish = q]
  BY <1>1 DEF Complete, AtStep
<1>3. JobHolds(r)
  BY <1>1, <1>2 DEF RefreshInv
<1>4. KeptShape(l) /\ l.holds = HeldIn(r.tree)
  BY <1>1 DEF KeptShape
<1> HIDE DEF k, p
<1>5. n = [step |-> "artifact", tree |-> r.tree, base |-> r.base, recover |-> r.recover, kept |-> l,
           asked |-> r.asked, report |-> r.report, publish |-> q]
  <2>1. r = [step |-> r.step, tree |-> r.tree, base |-> r.base, recover |-> r.recover, kept |-> r.kept,
             asked |-> r.asked, report |-> r.report, publish |-> r.publish]
    BY <1>3 DEF JobHolds, JobShape
  <2> QED
    BY <1>2, <2>1
<1>6. JobShape(n, observed)
  BY <1>3, <1>5 DEF JobHolds, JobShape, Closing
<1>7. JobAges(n, observed, jobs) /\ JobAsks(n, observed, jobs)
  BY <1>5 DEF JobAges, JobAsks, Opening
<1>8. JobKnows(n, observed)
  BY <1>2, <1>3, <1>4, <1>5 DEF JobHolds, JobKnows
<1>9. JobAlone(n)
  BY <1>2, <1>3, <1>5 DEF JobHolds, JobAlone, JobTells, Closing
<1> QED
  BY <1>1, <1>6, <1>7, <1>8, <1>9, JobStep DEF JobHolds, Complete

LEMMA RetainCandidateStep ==
  ASSUME RefreshInv, RetainCandidate
  PROVE  RefreshInv'
<1> DEFINE s == IF refresh.publish THEN IF refresh.recover THEN "push" ELSE "plan" ELSE "handoff"
<1>1. PICK n, r : n = refresh' /\ r = refresh
  OBVIOUS
<1>2. r.step = "artifact" /\ refresh # NoRefresh /\ n = Moved(r, s)
  BY <1>1 DEF RetainCandidate, AtStep, Continue, Moved
<1>3. JobHolds(r)
  BY <1>1, <1>2 DEF RefreshInv
<1>4. s \in {"push", "plan", "handoff"} /\ (s = "push" => r.recover) /\ (s = "plan" => ~r.recover)
  BY <1>1
<1> HIDE DEF s
<1>5. n = [step |-> s, tree |-> r.tree, base |-> r.base, recover |-> r.recover, kept |-> r.kept,
           asked |-> r.asked, report |-> r.report, publish |-> r.publish]
  BY <1>2, <1>3, MovedIs DEF JobHolds
<1>6. JobShape(n, observed)
  BY <1>3, <1>4, <1>5 DEF JobHolds, JobShape, Closing, Leaving
<1>7. JobAges(n, observed, jobs) /\ JobAsks(n, observed, jobs)
  BY <1>4, <1>5 DEF JobAges, JobAsks, Opening
<1>8. JobKnows(n, observed)
  BY <1>2, <1>3, <1>4, <1>5 DEF JobHolds, JobKnows, Leaving
<1>9. JobAlone(n)
  BY <1>2, <1>3, <1>4, <1>5 DEF JobHolds, JobAlone, JobTells, Closing
<1> QED
  BY <1>1, <1>6, <1>7, <1>8, <1>9, JobStep DEF JobHolds, RetainCandidate

LEMMA PlanUpdateStep ==
  ASSUME RefreshInv, PlanUpdate
  PROVE  RefreshInv'
<1>1. PICK n, r, t, e, u :
        /\ n = refresh' /\ r = refresh /\ e = Entry(r.base, r.tree) /\ t = WithUpdate(r.tree, e)
        /\ u = IF Substantive(e) THEN Append(r.tree.updates, e) ELSE r.tree.updates
  OBVIOUS
<1>2. r.step = "plan" /\ refresh # NoRefresh /\ n = [r EXCEPT !.step = "push", !.tree = t]
  BY <1>1 DEF PlanUpdate, AtStep
<1>3. JobHolds(r) /\ WorldHolds
  BY <1>1, <1>2 DEF RefreshInv
<1>4. /\ TreeHolds(r.tree, observed) /\ TreeHolds(r.base, observed) /\ observed \subseteq Observations
      /\ ~r.recover /\ ~pr /\ Since(r.base, main) /\ ~Recoverable(branch, main)
      /\ Forward(r.base, r.tree) /\ r.tree.updates = r.base.updates
  BY <1>2, <1>3 DEF JobHolds, JobShape, JobAlone, JobTells, Closing, WorldHolds, Answers
<1>5. u = IF Substantive(Entry(r.base, r.tree)) THEN Append(r.base.updates, Entry(r.base, r.tree))
          ELSE r.base.updates
  BY <1>1, <1>4
<1>6. u \in Seq(Entries)
  <2>1. r.base.updates \in Seq(Entries) /\ Entry(r.base, r.tree) \in Entries
    BY <1>4, EntryTyped DEF TreeHolds
  <2> DEFINE d == Entry(r.base, r.tree)
  <2>2. Append(r.base.updates, d) \in Seq(Entries)
    <3> HIDE DEF d
    <3> QED
      BY <2>1 DEF d
  <2> QED
    BY <1>5, <2>1, <2>2
<1>7. t = [counts |-> r.tree.counts, bound |-> r.tree.bound, failures |-> r.tree.failures,
           updates |-> u, manifests |-> r.tree.manifests]
  <2>1. PICK w : w = r.tree
    OBVIOUS
  <2>2. w = [counts |-> w.counts, bound |-> w.bound, failures |-> w.failures,
             updates |-> w.updates, manifests |-> w.manifests]
    BY <1>4, <2>1 DEF TreeHolds
  <2>3. t = [w EXCEPT !.updates = u]
    BY <1>1, <2>1 DEF WithUpdate
  <2> QED
    BY <2>1, <2>2, <2>3
<1>8. t.counts = r.tree.counts /\ t.failures = r.tree.failures /\ t.manifests = r.tree.manifests /\ t.updates = u
  BY <1>7
<1>9. TreeHolds(t, observed)
  BY <1>4, <1>6, <1>7, <1>8 DEF TreeHolds
<1>10. Branched(r.base, t)
  <2>1. Entry(r.base, t) = Entry(r.base, r.tree)
    BY <1>8 DEF Entry
  <2> QED
    BY <1>4, <1>5, <1>8, <2>1 DEF Branched, Forward
<1>11. n = [step |-> "push", tree |-> t, base |-> r.base, recover |-> r.recover, kept |-> r.kept,
            asked |-> r.asked, report |-> r.report, publish |-> r.publish]
  <2>1. r = [step |-> r.step, tree |-> r.tree, base |-> r.base, recover |-> r.recover, kept |-> r.kept,
             asked |-> r.asked, report |-> r.report, publish |-> r.publish]
    BY <1>3 DEF JobHolds, JobShape
  <2> QED
    BY <1>2, <2>1
<1>12. JobShape(n, observed)
  BY <1>3, <1>9, <1>11 DEF JobHolds, JobShape, Leaving
<1>13. JobAges(n, observed, jobs) /\ JobAsks(n, observed, jobs)
  BY <1>11 DEF JobAges, JobAsks, Opening
<1>14. JobKnows(n, observed)
  <2>1. HeldIn(t) = HeldIn(r.tree)
    BY <1>8 DEF HeldIn
  <2> QED
    BY <1>2, <1>3, <1>8, <1>11, <2>1 DEF JobHolds, JobKnows
<1>15. JobAlone(n)
  BY <1>4, <1>10, <1>11 DEF JobAlone, JobTells
<1> QED
  BY <1>1, <1>12, <1>13, <1>14, <1>15, JobStep DEF JobHolds, PlanUpdate

\* A job that is past its push only keeps its state.
LEMMA LeavingJob ==
  ASSUME RefreshInv, NEW r, r = refresh, JobHolds(r), r.step \in {"plan"} \cup Leaving,
         NEW s \in {"pr", "handoff", "save"}, NEW k, KeptShape(k), k.holds = r.kept.holds,
         NEW n, n = [step |-> s, tree |-> r.tree, base |-> r.base, recover |-> r.recover, kept |-> k,
                     asked |-> r.asked, report |-> r.report, publish |-> r.publish]
  PROVE  /\ JobShape(n, observed) /\ JobAges(n, observed, jobs) /\ JobAsks(n, observed, jobs)
         /\ JobKnows(n, observed) /\ JobAlone(n) /\ JobAlone(n)'
<1>1. JobShape(n, observed)
  BY DEF JobHolds, JobShape, Leaving
<1>2. JobAges(n, observed, jobs) /\ JobAsks(n, observed, jobs)
  BY DEF JobAges, JobAsks, Opening
<1>3. JobKnows(n, observed)
  BY DEF JobHolds, JobKnows, Leaving
<1>4. JobAlone(n) /\ JobAlone(n)'
  BY DEF JobAlone, Asking, Closing
<1> QED
  BY <1>1, <1>2, <1>3, <1>4

\* A state that is called complete has the holds it had.
LEMMA CompletedKeeps ==
  ASSUME NEW k, KeptShape(k)
  PROVE  KeptShape(Completed(k)) /\ Completed(k).holds = k.holds
<1>1. Completed(k) = [phase |-> "complete", holds |-> k.holds, blocked |-> k.blocked]
  BY DEF KeptShape, Completed
<1> DEFINE l == Completed(k)
<1> HIDE DEF l
<1>2. KeptShape(l) /\ l.holds = k.holds
  BY <1>1 DEF KeptShape, l
<1> QED
  BY <1>2 DEF l

LEMMA PushBranchStep ==
  ASSUME RefreshInv, PushBranch
  PROVE  RefreshInv'
<1>1. PICK n, r, b : n = refresh' /\ r = refresh /\ b = branch'
  OBVIOUS
<1>2. r.step = "push" /\ refresh # NoRefresh /\ n = Moved(r, "pr")
  BY <1>1 DEF PushBranch, AtStep, Continue, Moved
<1>3. JobHolds(r) /\ WorldHolds
  BY <1>1, <1>2 DEF RefreshInv
<1>4. n = [step |-> "pr", tree |-> r.tree, base |-> r.base, recover |-> r.recover, kept |-> r.kept,
           asked |-> r.asked, report |-> r.report, publish |-> r.publish]
  BY <1>2, <1>3, MovedIs DEF JobHolds
<1>5. b = [tree |-> r.tree, base |-> r.base, ancestor |-> FALSE]
  BY <1>1 DEF PushBranch
<1>6. UNCHANGED <<main, pr, saved, intended, jobs, observed>>
  BY DEF PushBranch, record
<1>7. /\ TreeHolds(r.tree, observed) /\ TreeHolds(r.base, observed) /\ Since(r.base, main)
      /\ Branched(r.base, r.tree) /\ Known(r.tree.manifests, observed)
      /\ KeptShape(r.kept)
  BY <1>2, <1>3 DEF JobHolds, JobShape, JobAlone, JobTells, JobKnows, Leaving
<1>8. BranchHolds(b, main, observed)
  BY <1>5, <1>7 DEF BranchHolds
<1>9. Known(b.tree.manifests \cup main.manifests, observed)
  <2>1. b.tree = r.tree
    BY <1>5
  <2> QED
    BY <1>7, <2>1, KnownMore
<1>10. WorldHolds'
  BY <1>1, <1>3, <1>6, <1>8, <1>9 DEF WorldHolds
<1>11. /\ JobShape(n, observed) /\ JobAges(n, observed, jobs) /\ JobAsks(n, observed, jobs)
       /\ JobKnows(n, observed) /\ JobAlone(n)'
  BY <1>1, <1>2, <1>3, <1>4, <1>7, LeavingJob DEF Leaving
<1> QED
  BY <1>1, <1>6, <1>10, <1>11 DEF RefreshInv, JobHolds

LEMMA OpenPrStep ==
  ASSUME RefreshInv, OpenPr
  PROVE  RefreshInv'
<1>1. PICK n, r, k : n = refresh' /\ r = refresh /\ k = Completed(refresh.kept)
  OBVIOUS
<1>2. r.step = "pr" /\ refresh # NoRefresh /\ n = [r EXCEPT !.step = "save", !.kept = k]
  BY <1>1 DEF OpenPr, AtStep
<1>3. JobHolds(r) /\ WorldHolds
  BY <1>1, <1>2 DEF RefreshInv
<1>4. n = [step |-> "save", tree |-> r.tree, base |-> r.base, recover |-> r.recover, kept |-> k,
           asked |-> r.asked, report |-> r.report, publish |-> r.publish]
  <2>1. r = [step |-> r.step, tree |-> r.tree, base |-> r.base, recover |-> r.recover, kept |-> r.kept,
             asked |-> r.asked, report |-> r.report, publish |-> r.publish]
    BY <1>3 DEF JobHolds, JobShape
  <2> QED
    BY <1>2, <2>1
<1>5. KeptShape(k) /\ k.holds = r.kept.holds /\ r.step \in {"plan"} \cup Leaving
  BY <1>1, <1>2, <1>3, CompletedKeeps DEF JobHolds, JobKnows, Leaving
<1>6. UNCHANGED <<main, branch, saved, intended, jobs, observed>>
  BY DEF OpenPr, record
<1>7. WorldHolds'
  BY <1>3, <1>6 DEF WorldHolds, Recoverable, BranchHolds
<1>8. /\ JobShape(n, observed) /\ JobAges(n, observed, jobs) /\ JobAsks(n, observed, jobs)
      /\ JobKnows(n, observed) /\ JobAlone(n)'
  BY <1>1, <1>3, <1>4, <1>5, LeavingJob
<1> QED
  BY <1>1, <1>6, <1>7, <1>8 DEF RefreshInv, JobHolds

LEMMA PublicationFailsStep ==
  ASSUME RefreshInv, PublicationFails
  PROVE  RefreshInv'
<1>1. PICK n, r : n = refresh' /\ r = refresh
  OBVIOUS
<1>2. r.step \in {"plan", "push", "pr"} /\ refresh # NoRefresh /\ n = Moved(r, "handoff")
  BY <1>1 DEF PublicationFails, Continue, Moved
<1>3. JobHolds(r)
  BY <1>1, <1>2 DEF RefreshInv
<1>4. n = [step |-> "handoff", tree |-> r.tree, base |-> r.base, recover |-> r.recover, kept |-> r.kept,
           asked |-> r.asked, report |-> r.report, publish |-> r.publish]
  BY <1>2, <1>3, MovedIs DEF JobHolds
<1>5. KeptShape(r.kept) /\ r.step \in {"plan"} \cup Leaving
  BY <1>2, <1>3 DEF JobHolds, JobKnows, Leaving
<1>6. JobHolds(n)
  BY <1>1, <1>3, <1>4, <1>5, LeavingJob DEF JobHolds
<1> QED
  BY <1>1, <1>6, JobStep DEF PublicationFails

LEMMA HandOffStep ==
  ASSUME RefreshInv, HandOff
  PROVE  RefreshInv'
<1>1. PICK n, r, k : /\ n = refresh' /\ r = refresh
                     /\ k = IF refresh.kept.blocked THEN Completed(refresh.kept) ELSE refresh.kept
  OBVIOUS
<1>2. r.step = "handoff" /\ refresh # NoRefresh /\ n = [r EXCEPT !.step = "save", !.kept = k]
  BY <1>1 DEF HandOff, AtStep
<1>3. JobHolds(r)
  BY <1>1, <1>2 DEF RefreshInv
<1>4. n = [step |-> "save", tree |-> r.tree, base |-> r.base, recover |-> r.recover, kept |-> k,
           asked |-> r.asked, report |-> r.report, publish |-> r.publish]
  <2>1. r = [step |-> r.step, tree |-> r.tree, base |-> r.base, recover |-> r.recover, kept |-> r.kept,
             asked |-> r.asked, report |-> r.report, publish |-> r.publish]
    BY <1>3 DEF JobHolds, JobShape
  <2> QED
    BY <1>2, <2>1
<1>5. KeptShape(k) /\ k.holds = r.kept.holds /\ r.step \in {"plan"} \cup Leaving
  BY <1>1, <1>2, <1>3, CompletedKeeps DEF JobHolds, JobKnows, Leaving
<1>6. JobHolds(n)
  BY <1>1, <1>3, <1>4, <1>5, LeavingJob DEF JobHolds
<1> QED
  BY <1>1, <1>6, JobStep DEF HandOff

LEMMA SaveRefreshStep ==
  ASSUME RefreshInv, SaveRefresh
  PROVE  RefreshInv'
<1>1. refresh.step = "save" /\ refresh # NoRefresh /\ refresh' = NoRefresh /\ saved' = refresh.kept
  BY DEF SaveRefresh, AtStep, EndJob
<1>2. JobHolds(refresh) /\ WorldHolds
  BY <1>1 DEF RefreshInv
<1>3. UNCHANGED <<main, branch, intended, jobs, observed>>
  BY DEF SaveRefresh, github
<1>4. /\ KeptShape(refresh.kept) /\ refresh.kept.holds = HeldIn(refresh.tree)
      /\ Known(refresh.tree.manifests, observed) /\ TreeHolds(refresh.tree, observed)
  BY <1>1, <1>2 DEF JobHolds, JobShape, JobKnows, Leaving
<1>5. Known(refresh.kept.holds, observed) /\ refresh.kept.holds \subseteq observed
  BY <1>4, KnownByDenials DEF HeldIn, TreeHolds
<1>6. WorldHolds'
  BY <1>1, <1>2, <1>3, <1>4, <1>5 DEF WorldHolds, Recoverable, BranchHolds
<1> QED
  BY <1>1, <1>6 DEF RefreshInv

\* A pull request is open only when no job is at work on a candidate.
LEMMA IdleJob ==
  ASSUME RefreshInv, pr, UNCHANGED <<refresh, saved, intended, jobs, observed>>
  PROVE  refresh' = NoRefresh \/ JobHolds(refresh)'
<1>1. ASSUME refresh # NoRefresh
      PROVE  JobHolds(refresh)'
  <2>1. JobHolds(refresh)
    BY <1>1 DEF RefreshInv
  <2>2. refresh.step \notin Asking \cup Closing \cup {"push"}
    BY <2>1 DEF JobHolds, JobAlone
  <2>3. JobAlone(refresh)'
    BY <2>2 DEF JobAlone, Asking
  <2> QED
    BY <2>1, <2>3 DEF JobHolds
<1> QED
  BY <1>1

LEMMA MergePrStep ==
  ASSUME RefreshInv, MergePr
  PROVE  RefreshInv'
<1>1. /\ pr /\ branch # NoBranch /\ ~Conflicts(branch, main) /\ main' = MergeTrees(branch, main)
      /\ UNCHANGED <<saved, intended, refresh, jobs, observed>>
  BY DEF MergePr, record
<1>2. PICK b, c : b = branch /\ c = branch'
  OBVIOUS
<1>3. WorldHolds /\ BranchHolds(b, main, observed) /\ observed \subseteq Observations /\ TreeHolds(main, observed)
  BY <1>1, <1>2 DEF RefreshInv, WorldHolds, Answers
<1>4. TreeHolds(main', observed) /\ Since(b.tree, main')
  BY <1>1, <1>2, <1>3, MergeBranches
<1>5. BranchHolds(b, main', observed)
  BY <1>3, <1>4 DEF BranchHolds
<1>6. ~Recoverable(b, main')
  <2>1. b.tree.manifests \subseteq main'.manifests
    BY <1>1, <1>2, MergeTakes
  <2> QED
    BY <1>3, <1>4, <1>5, <2>1, MergedIsDone
<1>7. (c = NoBranch \/ BranchHolds(c, main', observed)) /\ ~Recoverable(c, main')
  <2>1. CASE c = NoBranch
    BY <2>1 DEF Recoverable
  <2>2. CASE c = b
    BY <1>5, <1>6, <2>2
  <2>3. CASE c = [b EXCEPT !.ancestor = TRUE]
    <3>1. b = [tree |-> b.tree, base |-> b.base, ancestor |-> b.ancestor]
      BY <1>3 DEF BranchHolds
    <3>2. c = [tree |-> b.tree, base |-> b.base, ancestor |-> TRUE]
      BY <2>3, <3>1
    <3> QED
      BY <1>5, <3>2 DEF BranchHolds, Recoverable
  <2> QED
    BY <1>2, <2>1, <2>2, <2>3 DEF MergePr
<1>8. WorldHolds'
  BY <1>1, <1>2, <1>3, <1>4, <1>7 DEF WorldHolds
<1> QED
  BY <1>1, <1>8, IdleJob DEF RefreshInv

LEMMA ClosePrStep ==
  ASSUME RefreshInv, ClosePr
  PROVE  RefreshInv'
<1>1. pr /\ branch' \in {NoBranch, branch} /\ UNCHANGED <<main, saved, intended, refresh, jobs, observed>>
  BY DEF ClosePr, record
<1>2. Recoverable(branch', main) => branch' = branch
  BY <1>1 DEF Recoverable
<1>3. WorldHolds'
  BY <1>1, <1>2 DEF RefreshInv, WorldHolds, Recoverable, BranchHolds
<1> QED
  BY <1>1, <1>3, IdleJob DEF RefreshInv

LEMMA AuthorUpdateStep ==
  ASSUME RefreshInv, AuthorUpdate
  PROVE  RefreshInv'
<1>1. PICK m, w : m = main /\ w = main'
  OBVIOUS
<1>2. w = Wrote(m) /\ UNCHANGED <<branch, pr, saved, intended, refresh, jobs, observed>>
  BY <1>1 DEF AuthorUpdate, record, Wrote
<1>3. WorldHolds /\ TreeHolds(m, observed) /\ observed \subseteq Observations
  BY <1>1 DEF RefreshInv, WorldHolds, Answers
<1>4. /\ TreeHolds(w, observed) /\ w.manifests = m.manifests
      /\ \A old : TreeHolds(old, observed) /\ Since(old, m) => Since(old, w)
  BY <1>2, <1>3, AuthoredMore
<1>5. /\ branch = NoBranch \/ BranchHolds(branch, w, observed)
      /\ Recoverable(branch, w) => Recoverable(branch, m)
  <2>1. CASE branch = NoBranch
    BY <2>1 DEF Recoverable
  <2>2. CASE BranchHolds(branch, m, observed)
    BY <1>2, <1>3, <2>2, AuthoredBeside
  <2> QED
    BY <1>1, <1>3, <2>1, <2>2 DEF WorldHolds
<1>6. WorldHolds'
  BY <1>1, <1>2, <1>3, <1>4, <1>5 DEF WorldHolds
<1>7. ASSUME refresh # NoRefresh
      PROVE  JobHolds(refresh)'
  <2>1. JobHolds(refresh) /\ TreeHolds(refresh.base, observed)
    BY <1>7 DEF RefreshInv, JobHolds, JobShape
  <2>2. JobAlone(refresh)'
    BY <1>1, <1>2, <1>4, <1>5, <2>1 DEF JobHolds, JobAlone
  <2> QED
    BY <1>2, <2>1, <2>2 DEF JobHolds
<1> QED
  BY <1>2, <1>6, <1>7 DEF RefreshInv

LEMMA LoseStateStep ==
  ASSUME RefreshInv, LoseState
  PROVE  RefreshInv'
<1>1. saved' = NoState /\ UNCHANGED <<main, branch, pr, intended, refresh, jobs, observed>>
  BY DEF LoseState, github
<1>2. WorldHolds'
  BY <1>1 DEF RefreshInv, WorldHolds, Recoverable, BranchHolds
<1>3. ASSUME refresh # NoRefresh
      PROVE  JobHolds(refresh)'
  BY <1>1, <1>3 DEF RefreshInv, JobHolds, JobAlone, Recoverable
<1> QED
  BY <1>1, <1>2, <1>3 DEF RefreshInv

LEMMA DisposeStep ==
  ASSUME RefreshInv, Dispose
  PROVE  RefreshInv'
<1> DEFINE more == {Observation(s, jobs + 1, "captured", Seed) : s \in {f \in SourcesAsked : OnHold(f, observed)}}
<1>1. PICK K, w, k, l : /\ K = observed \cup more /\ w = WithEvidence(main, more)
                        /\ k = saved /\ l = [saved EXCEPT !.blocked = FALSE]
  OBVIOUS
<1>2. /\ refresh = NoRefresh /\ saved # NoState /\ main' = w /\ observed' = K /\ saved' = l /\ jobs' = jobs + 1
      /\ UNCHANGED <<branch, pr, intended, refresh>>
  BY <1>1 DEF Dispose
<1>3. WorldHolds /\ Answers(observed, jobs) /\ TreeHolds(main, observed)
  BY DEF RefreshInv, WorldHolds
<1>4. jobs \in Nat /\ \A p \in observed : p.at \in Nat /\ p.at <= jobs
  BY <1>3 DEF Answers, Observations
<1>5. /\ \A o \in more : /\ o \in Observations /\ o.at = jobs + 1 /\ o.kind = "captured"
                         /\ o = Observation(o.source, jobs + 1, "captured", Seed)
                         /\ o.source \in SourcesAsked /\ OnHold(o.source, observed)
      /\ \A s \in SourcesAsked : OnHold(s, observed) => Observation(s, jobs + 1, "captured", Seed) \in more
  <2>1. ASSUME NEW s \in SourcesAsked, OnHold(s, observed)
        PROVE  LET o == Observation(s, jobs + 1, "captured", Seed)
               IN  /\ o \in Observations /\ o.at = jobs + 1 /\ o.kind = "captured"
                   /\ o = Observation(o.source, jobs + 1, "captured", Seed)
                   /\ o.source \in SourcesAsked /\ OnHold(o.source, observed)
    BY <1>4, <2>1 DEF Observation, Observations, Kinds
  <2> QED
    BY <2>1
<1> HIDE DEF more
<1>6. Answers(K, jobs + 1)
  <2>1. \A o, p \in K : o.source = p.source /\ o.at = p.at => o = p
    BY <1>1, <1>3, <1>4, <1>5 DEF Answers
  <2>2. \A o \in K : o.at <= jobs + 1
    BY <1>1, <1>4, <1>5
  <2> QED
    BY <1>1, <1>3, <1>4, <1>5, <2>1, <2>2 DEF Answers
<1>7. \A s \in SourcesAsked : ~OnHold(s, K)
  <2> TAKE s \in SourcesAsked
  <2>1. CASE OnHold(s, observed)
    <3>1. PICK o \in more : o = Observation(s, jobs + 1, "captured", Seed)
      BY <1>5, <2>1
    <3>2. o.source = s /\ o.at = jobs + 1 /\ o.kind = "captured" /\ o \in K
      BY <1>1, <1>5, <3>1 DEF Observation
    <3>3. \A p \in K : p.source = o.source => p.at <= o.at
      BY <1>6, <3>2 DEF Answers
    <3>4. Latest(s, K) = o
      BY <1>6, <3>2, <3>3, LatestEquals
    <3> QED
      BY <3>2, <3>4 DEF OnHold, Denied
  <2>2. CASE ~OnHold(s, observed)
    <3>1. \A o \in more : o.source # s
      BY <1>5, <2>2
    <3>2. {p \in K : p.source = s} = {p \in observed : p.source = s}
      BY <1>1, <3>1
    <3>3. Latest(s, K) = Latest(s, observed)
      BY <3>2 DEF Latest
    <3> QED
      BY <2>2, <3>3 DEF OnHold
  <2> QED
    BY <2>1, <2>2
<1>8. \A M : Known(M, K)
  BY <1>7 DEF Known
<1>9. /\ TreeHolds(w, K)
      /\ w = [counts |-> main.counts, bound |-> main.bound, failures |-> main.failures,
              updates |-> main.updates, manifests |-> main.manifests \cup more]
  <2>1. observed \subseteq K /\ more \subseteq K
    BY <1>1
  <2> QED
    BY <1>1, <1>3, <2>1, TreeGains
<1>10. \A old : Since(old, main) => Since(old, w)
  <2>1. w.counts = main.counts /\ w.bound = main.bound /\ w.failures = main.failures /\ w.updates = main.updates
    BY <1>9
  <2> QED
    BY <2>1 DEF Since, ResultsFile
<1>11. branch = NoBranch \/ BranchHolds(branch, w, K)
  <2>1. \A t : TreeHolds(t, observed) => TreeHolds(t, K)
    BY <1>1 DEF TreeHolds
  <2> QED
    BY <1>3, <1>10, <2>1 DEF WorldHolds, BranchHolds
<1>12. KeptShape(l) /\ l.holds \subseteq K
  <2>1. KeptShape(k) /\ k.holds \subseteq observed
    BY <1>1, <1>2, <1>3 DEF WorldHolds
  <2>2. l = [phase |-> k.phase, holds |-> k.holds, blocked |-> FALSE]
    BY <1>1, <2>1 DEF KeptShape
  <2> QED
    BY <1>1, <2>1, <2>2 DEF KeptShape
<1>13. WorldHolds'
  BY <1>2, <1>6, <1>7, <1>8, <1>9, <1>11, <1>12 DEF WorldHolds
<1> QED
  BY <1>2, <1>13 DEF RefreshInv

LEMMA PreliminaryStep ==
  ASSUME RefreshInv, [RefreshNext]_refreshVars
  PROVE  RefreshInv'
<1>1. CASE UNCHANGED refreshVars
  BY <1>1 DEF refreshVars, RefreshInv, WorldHolds, JobHolds, JobAlone, Recoverable, BranchHolds
<1>2. CASE JobDies \/ PendingCandidate
  BY <1>2, JobStep DEF JobDies, PendingCandidate, EndJob
<1>3. CASE StartJob \/ TakeCandidate \/ ValidateState \/ PersistIntent \/ Preflight
  BY <1>3, StartJobStep, TakeCandidateStep, ValidateStateStep, PersistIntentStep, PreflightStep
<1>4. CASE RequestFails \/ RequestSucceeds \/ Prepare
  BY <1>4, RequestFailsStep, RequestSucceedsStep, PrepareStep
<1>5. CASE Complete \/ RetainCandidate \/ PlanUpdate \/ PushBranch \/ OpenPr
  BY <1>5, CompleteStep, RetainCandidateStep, PlanUpdateStep, PushBranchStep, OpenPrStep
<1>6. CASE PublicationFails \/ HandOff \/ SaveRefresh
  BY <1>6, PublicationFailsStep, HandOffStep, SaveRefreshStep
<1>7. CASE MergePr \/ ClosePr \/ AuthorUpdate \/ LoseState \/ Dispose
  BY <1>7, MergePrStep, ClosePrStep, AuthorUpdateStep, LoseStateStep, DisposeStep
<1> QED
  BY <1>1, <1>2, <1>3, <1>4, <1>5, <1>6, <1>7 DEF RefreshNext

\* The strengthening for the hourly refresh: what the world keeps, and what the job at work knows.
THEOREM PreliminaryInvariant == RefreshSpec => []RefreshInv
<1>1. RefreshInit => RefreshInv
  BY PreliminaryStarts
<1>2. RefreshInv /\ [RefreshNext]_refreshVars => RefreshInv'
  BY PreliminaryStep
<1> QED
  BY <1>1, <1>2, PTL DEF RefreshSpec

LEMMA DenialStep ==
  ASSUME RefreshInv, [RefreshNext]_refreshVars
  PROVE  \A o \in observed' \ observed : refresh # NoRefresh => ~OnHold(o.source, observed)
<1>1. CASE RequestFails
  <2>1. PICK kind \in {"denied", "failed"} :
          observed' = observed \cup {Observation(Feeds[refresh.asked + 1], jobs, kind, NoState)}
    BY <1>1 DEF RequestFails
  <2> QED
    BY <1>1, <2>1, RequestTurn DEF RequestFails, Observation
<1>2. CASE RequestSucceeds
  <2>1. PICK body \in Bodies :
          observed' = observed \cup {Observation(Feeds[refresh.asked + 1], jobs, "captured", body)}
    BY <1>2 DEF RequestSucceeds
  <2> QED
    BY <1>2, <2>1, RequestTurn DEF RequestSucceeds, Observation
<1>3. CASE Dispose
  BY <1>3 DEF Dispose
<1>4. CASE UNCHANGED refreshVars
  BY <1>4 DEF refreshVars
<1>5. ~RequestFails /\ ~RequestSucceeds /\ ~Dispose => observed' = observed
  BY <1>4 DEF RefreshNext, StartJob, JobDies, PendingCandidate, TakeCandidate, ValidateState,
     PersistIntent, Preflight, Prepare, Complete, RetainCandidate, PlanUpdate, PushBranch, OpenPr,
     PublicationFails, HandOff, SaveRefresh, MergePr, ClosePr, AuthorUpdate, LoseState, refreshVars
<1> QED
  BY <1>1, <1>2, <1>3, <1>5

\* A source that denied access is not asked before people have reviewed it: DenialHolds, for any
\* sources and number of jobs, wherever jobs die and whatever the cache drops.
THEOREM DenialIsKept == RefreshSpec => DenialHolds
<1>1. RefreshInv /\ [RefreshNext]_refreshVars =>
        [\A o \in observed' \ observed : refresh # NoRefresh => ~OnHold(o.source, observed)]_refreshVars
  BY DenialStep
<1> QED
  BY <1>1, PreliminaryInvariant, PTL DEF RefreshSpec, DenialHolds

\* What a step may make of main.
MainTold(m, w) ==
  /\ \A s \in SourcesAsked : w.counts[s].time >= m.counts[s].time
  /\ m.failures \subseteq w.failures /\ m.manifests \subseteq w.manifests
  /\ IsPrefix(m.updates, w.updates)
  /\ LET told == {i \in DOMAIN w.updates \ DOMAIN m.updates : w.updates[i] # Authored}
         entry == Entry(m, w)
     IN  IF entry = Authored THEN told = {} ELSE \E i \in told : told = {i} /\ w.updates[i] = entry

\* Updates that start with those of before.
LEMMA PrefixIs ==
  ASSUME NEW u \in Seq(Entries), NEW v \in Seq(Entries), Len(u) <= Len(v), \A i \in 1..Len(u) : v[i] = u[i]
  PROVE  IsPrefix(u, v)
<1>1. SubSeq(u, 1, Len(u)) = SubSeq(v, 1, Len(u))
  OBVIOUS
<1> QED
  BY <1>1 DEF IsPrefix

LEMMA UntoldMain ==
  ASSUME NEW N, N \subseteq Observations, NEW m, NEW w, TreeHolds(m, N), NEW K, K \subseteq Observations, TreeHolds(w, K),
         w.counts = m.counts, w.failures = m.failures, m.manifests \subseteq w.manifests,
         AuthoredSince(m.updates, w.updates)
  PROVE  MainTold(m, w)
<1>1. m.updates \in Seq(Entries) /\ w.updates \in Seq(Entries)
  BY DEF TreeHolds
<1>2. IsPrefix(m.updates, w.updates)
  BY <1>1, PrefixIs DEF AuthoredSince
<1>3. Entry(m, w) = Authored
  BY DEF Entry, Authored
<1>4. {i \in DOMAIN w.updates \ DOMAIN m.updates : w.updates[i] # Authored} = {}
  BY <1>1 DEF AuthoredSince
<1>5. \A s \in SourcesAsked : w.counts[s].time >= m.counts[s].time
  BY FeedsAssumption DEF TreeHolds
<1> QED
  BY <1>2, <1>3, <1>4, <1>5 DEF MainTold

LEMMA BranchedMain ==
  ASSUME NEW N, N \subseteq Observations, NEW m, NEW w, TreeHolds(m, N), TreeHolds(w, N),
         Branched(m, w), m.manifests \subseteq w.manifests
  PROVE  MainTold(m, w)
<1> DEFINE e == Entry(m, w)
           told == {i \in DOMAIN w.updates \ DOMAIN m.updates : w.updates[i] # Authored}
<1>1. m.updates \in Seq(Entries) /\ w.updates \in Seq(Entries)
  BY DEF TreeHolds
<1>2. Len(m.updates) \in Nat /\ Len(w.updates) \in Nat
  BY <1>1
<1>3. \A s \in SourcesAsked : w.counts[s].time >= m.counts[s].time
  BY FeedsAssumption DEF TreeHolds, Branched, Forward
<1>4. m.failures \subseteq w.failures
  BY DEF Branched, Forward
<1>5. CASE w.updates = m.updates
  <2>1. IsPrefix(m.updates, w.updates)
    BY <1>1, <1>2, <1>5, PrefixIs
  <2>2. ~Substantive(e)
    <3>1. ASSUME Substantive(e)
          PROVE  Len(w.updates) = Len(m.updates) + 1
      <4>1. w.updates = Append(m.updates, e) /\ e \in Entries
        BY <3>1, EntryTyped DEF Branched
      <4> HIDE DEF e
      <4> QED
        BY <1>1, <4>1
    <3> QED
      BY <1>2, <1>5, <3>1
  <2>3. e = Authored
    BY <2>2, EntryTyped
  <2>4. told = {}
    BY <1>5
  <2> QED
    BY <1>3, <1>4, <2>1, <2>3, <2>4 DEF MainTold
<1>6. CASE w.updates # m.updates
  <2>1. /\ Len(w.updates) = Len(m.updates) + 1
        /\ \A i \in 1..Len(m.updates) : w.updates[i] = m.updates[i]
        /\ w.updates[Len(m.updates) + 1] = e /\ e # Authored
    <3>1. w.updates = Append(m.updates, e) /\ Substantive(e)
      BY <1>6 DEF Branched
    <3>2. e \in Entries /\ e # Authored
      BY <3>1, EntryTyped
    <3> HIDE DEF e
    <3> QED
      BY <1>1, <3>1, <3>2
  <2> HIDE DEF e
  <2>2. IsPrefix(m.updates, w.updates)
    BY <1>1, <1>2, <2>1, PrefixIs
  <2>3. told = {Len(m.updates) + 1} /\ Len(m.updates) + 1 \in told
    BY <1>1, <1>2, <2>1
  <2>4. \E i \in told : told = {i} /\ w.updates[i] = e
    BY <2>1, <2>3
  <2> HIDE DEF told
  <2> QED
    BY <1>3, <1>4, <2>1, <2>2, <2>4 DEF MainTold, told, e
<1> QED
  BY <1>5, <1>6

LEMMA ToldStep ==
  ASSUME RefreshInv, [RefreshNext]_refreshVars
  PROVE  MainTold(main, main')
<1>1. PICK m, w : m = main /\ w = main'
  OBVIOUS
<1>2. WorldHolds /\ TreeHolds(m, observed) /\ observed \subseteq Observations
  BY <1>1 DEF RefreshInv, WorldHolds, Answers
<1>3. TreeHolds(w, observed') /\ observed' \subseteq Observations
  BY <1>1, PreliminaryStep DEF RefreshInv, WorldHolds, Answers
<1>4. Len(m.updates) \in Nat
  BY <1>2 DEF TreeHolds
<1>5. CASE MergePr
  <2>1. /\ branch # NoBranch /\ ~Conflicts(branch, m) /\ w = MergeTrees(branch, m)
        /\ BranchHolds(branch, m, observed)
    BY <1>1, <1>2, <1>5 DEF MergePr, WorldHolds
  <2>2. TreeHolds(w, observed) /\ Branched(m, w)
    BY <1>2, <2>1, MergeBranches
  <2>3. m.manifests \subseteq w.manifests
    BY <2>1, MergeTakes
  <2> QED
    BY <1>1, <1>2, <2>2, <2>3, BranchedMain
<1>6. CASE AuthorUpdate
  <2>1. w = Wrote(m)
    BY <1>1, <1>6 DEF AuthorUpdate, Wrote
  <2>2. TreeHolds(w, observed) /\ ResultsFile(w) = ResultsFile(m) /\ w.manifests = m.manifests /\ Since(m, w)
    BY <1>2, <2>1, AuthoredMore
  <2>3. w.counts = m.counts /\ w.failures = m.failures /\ AuthoredSince(m.updates, w.updates)
    BY <2>2 DEF ResultsFile, Since
  <2> QED
    BY <1>1, <1>2, <2>2, <2>3, UntoldMain
<1>7. CASE Dispose
  <2>1. PICK more : w = WithEvidence(m, more)
    BY <1>1, <1>7 DEF Dispose
  <2>2. w = [counts |-> m.counts, bound |-> m.bound, failures |-> m.failures,
             updates |-> m.updates, manifests |-> m.manifests \cup more]
    <3>1. observed \subseteq observed \cup more /\ more \subseteq observed \cup more
      OBVIOUS
    <3> QED
      BY <1>2, <2>1, <3>1, TreeGains
  <2>3. w.counts = m.counts /\ w.failures = m.failures /\ m.manifests \subseteq w.manifests
        /\ w.updates = m.updates
    BY <2>2
  <2>4. AuthoredSince(m.updates, w.updates)
    BY <1>4, <2>3 DEF AuthoredSince
  <2> QED
    BY <1>1, <1>2, <1>3, <2>3, <2>4, UntoldMain
<1>8. CASE w = m
  <2>1. AuthoredSince(m.updates, w.updates)
    BY <1>4, <1>8 DEF AuthoredSince
  <2> QED
    BY <1>1, <1>2, <1>8, <2>1, UntoldMain
<1>9. ~MergePr /\ ~AuthorUpdate /\ ~Dispose => main' = main
  BY DEF RefreshNext, StartJob, JobDies, PendingCandidate, TakeCandidate, ValidateState,
     PersistIntent, Preflight, RequestFails, RequestSucceeds, Prepare, Complete, RetainCandidate,
     PlanUpdate, PushBranch, OpenPr, PublicationFails, HandOff, SaveRefresh, ClosePr, LoseState,
     github, refreshVars
<1> QED
  BY <1>1, <1>5, <1>6, <1>7, <1>8, <1>9

\* Main never goes back, and every change of what it says comes with the one Update that tells it.
THEOREM MainStaysTold == RefreshSpec => MainIsTold
<1>1. RefreshInv /\ [RefreshNext]_refreshVars => [MainTold(main, main')]_refreshVars
  BY ToldStep
<1> QED
  BY <1>1, PreliminaryInvariant, PTL DEF RefreshSpec, MainIsTold, MainTold
=============================================================================
