---------------------------- MODULE SourceRefresh ----------------------------
(***************************************************************************)
(* The refresh of one source (collection/refresh.py): processes take the   *)
(* source's lock, record what they read, extract a snapshot and append an  *)
(* event that commits it.  Records are files, written whole as in          *)
(* EvidenceStore; a process may die between any two of them.               *)
(***************************************************************************)
EXTENDS Integers

CONSTANTS Processes,
          Contents,      \* bytes a page may have
          Extractors,    \* adapter, parser version and recognized text
          LastTime,      \* check times are 1..LastTime (a bound)
          MaxDisturbances,  \* deaths, changed inputs and lost artifacts (a bound)
          Nothing

Modes == {"retain_original", "facts_only"}
Request == [at : 1..LastTime, content : Contents, extractor : Extractors, mode : Modes]
Manifest == [at : 1..LastTime, content : Contents, kept : BOOLEAN]
Snapshot == [at : 1..LastTime, content : Contents, extractor : Extractors, capture : Manifest]
Statuses == {"created", "updated", "unchanged", "failed"}
Event == [at : 1..LastTime, status : Statuses, capture : Manifest \cup {Nothing},
          snapshot : Snapshot \cup {Nothing}, previous : Snapshot \cup {Nothing}]

ASSUME RefreshAssumption ==
  /\ LastTime \in Nat /\ MaxDisturbances \in Nat
  /\ Nothing \notin Processes \cup Manifest \cup Snapshot \cup Event

VARIABLES
  captures,   \* public manifests of the source
  bytes,      \* contents the local artifact store holds
  snapshots,
  events,
  lock,       \* process that has the source's lock
  pc,
  task,       \* request of each process
  latest,     \* latest event when it took the lock
  capture,    \* manifest it works from
  disturbances

process == <<pc, task, latest, capture>>
vars == <<captures, bytes, snapshots, events, lock, process, disturbances>>

TypeOK ==
  /\ captures \subseteq Manifest
  /\ bytes \subseteq Contents
  /\ snapshots \subseteq Snapshot
  /\ events \subseteq Event
  /\ lock \in Processes \cup {Nothing}
  /\ pc \in [Processes -> {"idle", "observe", "check", "extract", "commit", "fail"}]
  /\ task \in [Processes -> Request \cup {Nothing}]
  /\ latest \in [Processes -> Event \cup {Nothing}]
  /\ capture \in [Processes -> Manifest \cup {Nothing}]
  /\ disturbances \in 0..MaxDisturbances

Init ==
  /\ captures = {} /\ bytes = {} /\ snapshots = {} /\ events = {} /\ lock = Nothing
  /\ disturbances = 0
  /\ pc = [p \in Processes |-> "idle"]
  /\ task = [p \in Processes |-> Nothing]
  /\ latest = [p \in Processes |-> Nothing]
  /\ capture = [p \in Processes |-> Nothing]

LatestOf(history) ==
  IF history = {} THEN Nothing ELSE CHOOSE e \in history : \A f \in history : f.at <= e.at

\* The snapshot an event leaves committed.
Newest(e) == IF e = Nothing THEN Nothing ELSE IF e.snapshot # Nothing THEN e.snapshot ELSE e.previous

Previous(p) == Newest(latest[p])

\* The process ends; the system drops its lock, if it has it.
Stop(p) ==
  /\ lock' = IF lock = p THEN Nothing ELSE lock
  /\ pc' = [pc EXCEPT ![p] = "idle"]
  /\ task' = [task EXCEPT ![p] = Nothing]
  /\ latest' = [latest EXCEPT ![p] = Nothing]
  /\ capture' = [capture EXCEPT ![p] = Nothing]

\* Mutation of Extends: a time equal to that of the latest event will do.
ExtendsOrRepeats(t, e) == e # Nothing => t >= e.at /\ (Newest(e) # Nothing => Newest(e) \in snapshots)

\* A check must be later than the latest event, whose snapshot must be there to be read.
Extends(t, e) == e # Nothing => t > e.at /\ (Newest(e) # Nothing => Newest(e) \in snapshots)

FirstStep(mode) == IF mode = "facts_only" THEN "observe" ELSE "check"

\* A process with a request gets the lock and reads the history; the artifact it read
\* before that, while it waited, may be any.
Begin(p, r) ==
  /\ pc[p] = "idle" /\ lock = Nothing /\ Extends(r.at, LatestOf(events))
  /\ lock' = p
  /\ pc' = [pc EXCEPT ![p] = FirstStep(r.mode)]
  /\ task' = [task EXCEPT ![p] = r]
  /\ latest' = [latest EXCEPT ![p] = LatestOf(events)]
  /\ UNCHANGED <<captures, bytes, snapshots, events, capture, disturbances>>

\* Mutation of Reads: what was read first is extracted, whatever was recorded.
ReadsUnchecked(p, c, next) ==
  /\ pc' = [pc EXCEPT ![p] = next]
  /\ \/ c = task[p].content /\ UNCHANGED disturbances
     \/ disturbances < MaxDisturbances /\ disturbances' = disturbances + 1

\* The input is read a second time to be recorded, and may have changed meanwhile.
Reads(p, c, next) ==
  \/ c = task[p].content /\ pc' = [pc EXCEPT ![p] = next] /\ UNCHANGED disturbances
  \/ /\ c # task[p].content /\ pc' = [pc EXCEPT ![p] = "fail"]
     /\ disturbances < MaxDisturbances /\ disturbances' = disturbances + 1

Recorded(p, c, kept) == [at |-> task[p].at, content |-> c, kept |-> kept]

\* A facts-only refresh records what it observed before anything else.
Observe(p) ==
  /\ pc[p] = "observe"
  /\ \E c \in Contents :
       /\ captures' = captures \cup {Recorded(p, c, FALSE)}
       /\ capture' = [capture EXCEPT ![p] = Recorded(p, c, FALSE)]
       /\ Reads(p, c, "check")
  /\ UNCHANGED <<bytes, snapshots, events, lock, task, latest>>

Matches(m, s) == m \in captures /\ m.content = s.content

\* The committed snapshot and what the latest event refers to can still be verified.
PreviousVerifies(p) ==
  Previous(p) # Nothing =>
    /\ Matches(Previous(p).capture, Previous(p))
    /\ task[p].mode = "retain_original" =>
         Previous(p).capture.kept /\ Previous(p).content \in bytes
    /\ task[p].mode = "facts_only" /\ latest[p].status # "failed" =>
         Matches(latest[p].capture, Previous(p))

Unchanged(p) ==
  /\ Previous(p) # Nothing
  /\ Previous(p).content = task[p].content
  /\ Previous(p).extractor = task[p].extractor

\* Each refresh ends by writing one event and giving up the lock.
Write(p, status, snapshot, manifest) ==
  /\ events' = events \cup {[at |-> task[p].at, status |-> status, capture |-> manifest,
                             snapshot |-> snapshot, previous |-> Previous(p)]}
  /\ Stop(p)
  /\ UNCHANGED <<captures, bytes, snapshots, disturbances>>

CurrentCapture(p) == IF capture[p] # Nothing THEN capture[p] ELSE Previous(p).capture

VerificationFails(p) ==
  /\ pc[p] = "check" /\ ~PreviousVerifies(p)
  /\ Write(p, "failed", Nothing, CurrentCapture(p))

RecordUnchanged(p) ==
  /\ pc[p] = "check" /\ PreviousVerifies(p) /\ Unchanged(p)
  /\ Write(p, "unchanged", Previous(p), CurrentCapture(p))

Changed(p) == pc[p] = "check" /\ PreviousVerifies(p) /\ ~Unchanged(p)

\* Mutation of Existing: only the committed snapshot's capture is looked at.
ExistingCommitted(p) ==
  {m \in captures : m.kept /\ m.content = task[p].content
                    /\ Previous(p) # Nothing /\ m = Previous(p).capture}

Existing(p) == {m \in captures : m.kept /\ m.content = task[p].content}

\* The bytes of a capture of this content are gone or damaged.
ExistingFails(p) ==
  /\ Changed(p) /\ task[p].mode = "retain_original"
  /\ Existing(p) # {} /\ task[p].content \notin bytes
  /\ Write(p, "failed", Nothing, Nothing)

Capture(p) ==
  /\ Changed(p) /\ task[p].mode = "retain_original" /\ Existing(p) = {}
  /\ \E c \in Contents :
       /\ captures' = captures \cup {Recorded(p, c, TRUE)}
       /\ bytes' = bytes \cup {c}
       /\ capture' = [capture EXCEPT ![p] = Recorded(p, c, TRUE)]
       /\ Reads(p, c, "extract")
  /\ UNCHANGED <<snapshots, events, lock, task, latest>>

\* An earlier capture of the same bytes, or this refresh's observation, will do.
Reuse(p) ==
  /\ Changed(p)
  /\ \/ task[p].mode = "facts_only" /\ UNCHANGED capture
     \/ /\ task[p].mode = "retain_original"
        /\ Existing(p) # {} /\ task[p].content \in bytes
        /\ capture' = [capture EXCEPT ![p] = LatestOf(Existing(p))]
  /\ pc' = [pc EXCEPT ![p] = "extract"]
  /\ UNCHANGED <<captures, bytes, snapshots, events, lock, task, latest, disturbances>>

ExtractionFails(p) ==
  /\ pc[p] = "extract"
  /\ Write(p, "failed", Nothing, capture[p])

NewSnapshot(p) ==
  [at |-> task[p].at, content |-> task[p].content, extractor |-> task[p].extractor,
   capture |-> capture[p]]

WriteSnapshot(p) ==
  /\ pc[p] = "extract"
  /\ snapshots' = snapshots \cup {NewSnapshot(p)}
  /\ pc' = [pc EXCEPT ![p] = "commit"]
  /\ UNCHANGED <<captures, bytes, events, lock, task, latest, capture, disturbances>>

\* Mutation of Commit: the event does not wait for the snapshot.
CommitEarly(p) ==
  /\ pc[p] \in {"extract", "commit"}
  /\ Write(p, IF Previous(p) = Nothing THEN "created" ELSE "updated", NewSnapshot(p), capture[p])

Commit(p) ==
  /\ pc[p] = "commit"
  /\ Write(p, IF Previous(p) = Nothing THEN "created" ELSE "updated", NewSnapshot(p), capture[p])

\* The input changed while it was recorded.
Fail(p) ==
  /\ pc[p] = "fail"
  /\ Write(p, "failed", Nothing, capture[p])

\* A fetch that failed is recorded under the lock too, in one step as it has no other effect.
RecordFailure(t) ==
  /\ lock = Nothing /\ Extends(t, LatestOf(events))
  /\ events' = events \cup {[at |-> t, status |-> "failed", capture |-> Nothing,
                             snapshot |-> Nothing, previous |-> Newest(LatestOf(events))]}
  /\ UNCHANGED <<captures, bytes, snapshots, lock, process, disturbances>>

Die(p) ==
  /\ pc[p] # "idle" /\ disturbances < MaxDisturbances
  /\ Stop(p)
  /\ disturbances' = disturbances + 1
  /\ UNCHANGED <<captures, bytes, snapshots, events>>

\* Local artifacts are not in the repository and may be lost.
LoseBytes(c) ==
  /\ c \in bytes /\ disturbances < MaxDisturbances
  /\ bytes' = bytes \ {c}
  /\ disturbances' = disturbances + 1
  /\ UNCHANGED <<captures, snapshots, events, lock, process>>

Next ==
  \/ \E p \in Processes :
       \/ \E r \in Request : Begin(p, r)
       \/ Observe(p) \/ VerificationFails(p) \/ RecordUnchanged(p)
       \/ ExistingFails(p) \/ Capture(p) \/ Reuse(p) \/ ExtractionFails(p)
       \/ WriteSnapshot(p) \/ Commit(p) \/ Fail(p) \/ Die(p)
  \/ \E t \in 1..LastTime : RecordFailure(t)
  \/ \E c \in Contents : LoseBytes(c)

Spec == Init /\ [][Next]_vars

(***************************************************************************)
(* Properties.                                                             *)
(***************************************************************************)
Before(e) == LatestOf({f \in events : f.at < e.at})

\* Events have different times and each starts from the snapshot that its predecessor
\* left committed, so the history of a source never forks (_source_lock,
\* _require_later_timestamp, _committed_snapshot).
HistoryIsAChain ==
  \A e \in events :
    /\ \A f \in events : f.at = e.at => f = e
    /\ e.previous = Newest(Before(e))

\* What an event commits can be read, and so can its capture: a refresh that dies never
\* leaves an incomplete snapshot committed (_refresh_source_locked).
CommittedIsComplete ==
  \A e \in events :
    Newest(e) # Nothing => Newest(e) \in snapshots /\ Newest(e).capture \in captures

\* The facts an event commits come from the bytes its capture names, even when the input
\* changes between the two reads of it.
FactsMatchCapture ==
  \A e \in events : e.status # "failed" => e.capture.content = e.snapshot.content

\* Both: what is committed is there, and says what its capture says, whoever dies between
\* the records of a refresh and however the input changes under it.
CommittedIsFaithful == CommittedIsComplete /\ FactsMatchCapture

\* Bytes that were captured once are not captured again by a later refresh of them, be it
\* after a failure, a crash, a parser fix or a detour over other bytes; only an input that
\* changes while it is captured may turn out to hold old bytes (_capture_for_content).
NoDuplicateCapture ==
  [][\A m \in captures' \ captures : m.kept =>
       \/ \A old \in captures : old.kept => old.content # m.content
       \/ \E p \in Processes : lock = p /\ task[p].content # m.content]_vars
=============================================================================
