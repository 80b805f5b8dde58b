---------------------------- MODULE StorageProofs ----------------------------
(***************************************************************************)
(* Proofs about what the program puts on disk: the evidence (EvidenceStore *)
(* for any processes, captures, names and file sizes) and the exported     *)
(* bundles (Publication, for any dataset and files), with any number of    *)
(* failures.                                                               *)
(***************************************************************************)
EXTENDS EvidenceStore, Publication, FiniteSetTheorems, TLAPS

(***************************************************************************)
(* The evidence.                                                           *)
(***************************************************************************)

\* A process at work has something to install.
WriterInv ==
  \A w \in Writers :
    progress[w] # "idle" => recording[w] \in Captures /\ PayloadOf(recording[w], phase[w]) # Nothing

\* A path holds what its name allows, whole where there are hard links.
FileInv ==
  \A p \in Paths : files[p] # NoFile =>
    /\ files[p].of # Nothing
    /\ p[1] = "bytes" => files[p].of = p[2]
    /\ p[1] = "manifest" => files[p].of \in Captures /\ Name[files[p].of] = p[2]
    /\ links[p[1]] => files[p].length = Chunks

\* Who copies does so alone, and only where there are no hard links; who compares where
\* there are finds a file.
CopyInv ==
  \A w \in Writers :
    /\ progress[w] = "copy" => ~links[phase[w]] /\ files[Path(w)].of = Payload(w)
    /\ \A v \in Writers : progress[w] = "copy" /\ Installs(v, Path(w)) => v = w
    /\ progress[w] = "compare" /\ links[phase[w]] => files[Path(w)] # NoFile

\* Who installs a manifest has installed its bytes.
BytesFirst ==
  \A w \in Writers :
    progress[w] # "idle" /\ phase[w] = "manifest" /\ links["bytes"] => Verifies(recording[w], "bytes")

SInv ==
  /\ StoreTypeOK /\ WriterInv /\ FileInv /\ CopyInv /\ BytesFirst
  /\ ManifestsHaveBytes /\ ReturnedVerifies /\ OnlyRealConflicts

\* What is to be installed has a path to go to.
LEMMA PathTyped ==
  ASSUME NEW c \in Captures, NEW d \in Directories, PayloadOf(c, d) # Nothing
  PROVE  /\ PathOf(c, d) \in Paths /\ PathOf(c, d)[1] = d
         /\ PayloadOf(c, d) \in Contents \cup Captures
         /\ d = "bytes" => PathOf(c, d)[2] = PayloadOf(c, d)
         /\ d = "manifest" => PayloadOf(c, d) = c /\ PathOf(c, d)[2] = Name[c]
BY StoreAssumption DEF PathOf, PayloadOf, Paths, Directories

\* The same for the process that installs it.
LEMMA WriterTyped ==
  ASSUME StoreTypeOK, WriterInv, NEW w \in Writers, progress[w] # "idle"
  PROVE  /\ recording[w] \in Captures /\ phase[w] \in Directories
         /\ Path(w) \in Paths /\ Path(w)[1] = phase[w]
         /\ Payload(w) \in Contents \cup Captures /\ Payload(w) # Nothing
         /\ phase[w] = "bytes" => Path(w)[2] = Payload(w)
         /\ phase[w] = "manifest" => Payload(w) = recording[w] /\ Path(w)[2] = Name[recording[w]]
<1>1. recording[w] \in Captures /\ phase[w] \in Directories /\ PayloadOf(recording[w], phase[w]) # Nothing
  BY DEF StoreTypeOK, WriterInv
<1> QED
  BY <1>1, PathTyped DEF Path, Payload

\* What a file is, is what it holds and how much of it.
LEMMA FileTyped ==
  ASSUME StoreTypeOK, NEW p \in Paths
  PROVE  /\ files[p].of \in Contents \cup Captures \cup {Nothing} /\ files[p].length \in 0..Chunks
         /\ files[p] = [of |-> files[p].of, length |-> files[p].length]
BY DEF StoreTypeOK

\* A file appears where there was none.
Appears(w) ==
  /\ progress[w] = "install" /\ files[Path(w)] = NoFile
  /\ files' = [files EXCEPT ![Path(w)] =
                 [of |-> Payload(w), length |-> IF links[phase[w]] THEN Chunks ELSE 0]]

\* A file that is being copied grows, or its copier gives up and removes it.
Grows(w) ==
  /\ progress[w] = "copy" /\ files[Path(w)].length < Chunks
  /\ files' = [files EXCEPT ![Path(w)] =
                 [of |-> files[Path(w)].of, length |-> files[Path(w)].length + 1]]

Removed(w) ==
  progress[w] = "copy" /\ files' = [files EXCEPT ![Path(w)] = NoFile] /\ Stop(w)

Touched(w) == Grows(w) \/ Removed(w)

\* Nothing else happens to the files, and hard links do not come or go.
LEMMA FileSteps ==
  ASSUME StoreTypeOK, WriterInv, [StoreNext]_storeVars
  PROVE  /\ links' = links
         /\ files' = files \/ \E w \in Writers : Appears(w) \/ Touched(w)
<1>1. CASE UNCHANGED storeVars
  BY <1>1 DEF storeVars
<1>2. ASSUME NEW w \in Writers, Link(w)
      PROVE  links' = links /\ (files' = files \/ Appears(w))
  BY <1>2 DEF Link, Compares, Appears, WholeFile
<1>3. ASSUME NEW w \in Writers, OpenCopy(w)
      PROVE  links' = links /\ (files' = files \/ Appears(w))
  BY <1>3 DEF OpenCopy, Compares, Appears
<1>4. ASSUME NEW w \in Writers, CopyChunk(w)
      PROVE  links' = links /\ Touched(w)
  BY <1>4 DEF CopyChunk, Touched, Grows
<1>5. ASSUME NEW w \in Writers, CopyFails(w)
      PROVE  links' = links /\ Touched(w)
  BY <1>5 DEF CopyFails, Touched, Removed
<1>6. ASSUME NEW w \in Writers,
             (\E c \in Captures : Begin(w, c)) \/ CloseCopy(w) \/ Compare(w) \/ Die(w)
      PROVE  links' = links /\ files' = files
  BY <1>6 DEF Begin, CloseCopy, Compare, Die
<1> QED
  BY <1>1, <1>2, <1>3, <1>4, <1>5, <1>6 DEF StoreNext

\* A file is only touched by the process that is copying it.
LEMMA Untouched ==
  ASSUME StoreTypeOK, WriterInv, [StoreNext]_storeVars, NEW p \in Paths,
         files[p] # NoFile, \A w \in Writers : ~Installs(w, p)
  PROVE  files'[p] = files[p]
<1>1. ASSUME NEW w \in Writers, Appears(w) \/ Touched(w)
      PROVE  files'[p] = files[p]
  <2>1. Path(w) # p
    BY <1>1 DEF Appears, Touched, Grows, Removed, Installs
  <2> QED
    BY <1>1, <2>1 DEF Appears, Touched, Grows, Removed, StoreTypeOK
<1> QED
  BY <1>1, FileSteps

\* So a file in a directory with hard links is never touched.
LEMMA LinkedStays ==
  ASSUME StoreTypeOK, WriterInv, CopyInv, [StoreNext]_storeVars, NEW p \in Paths,
         files[p] # NoFile, links[p[1]]
  PROVE  files'[p] = files[p]
<1>1. ASSUME NEW w \in Writers, Installs(w, p)
      PROVE  FALSE
  <2>1. Path(w)[1] = phase[w] /\ ~links[phase[w]]
    BY <1>1, WriterTyped DEF Installs, CopyInv
  <2> QED
    BY <1>1, <2>1 DEF Installs
<1> QED
  BY <1>1, Untouched

\* What verifies in a directory with hard links goes on doing so.
LEMMA VerifiesStays ==
  ASSUME StoreTypeOK, WriterInv, CopyInv, [StoreNext]_storeVars,
         NEW c \in Captures, NEW d \in Directories, links[d], Verifies(c, d)
  PROVE  Verifies(c, d)'
<1>1. CASE PayloadOf(c, d) = Nothing
  BY <1>1 DEF Verifies, PayloadOf
<1>2. CASE PayloadOf(c, d) # Nothing
  <2>1. PathOf(c, d) \in Paths /\ PathOf(c, d)[1] = d
    BY <1>2, PathTyped
  <2>2. files[PathOf(c, d)] = WholeFile(PayloadOf(c, d))
    BY <1>2 DEF Verifies
  <2>3. files[PathOf(c, d)] # NoFile
    BY <1>2, <2>2 DEF WholeFile, NoFile
  <2>4. files'[PathOf(c, d)] = files[PathOf(c, d)]
    BY <2>1, <2>3, LinkedStays
  <2> QED
    BY <2>2, <2>4 DEF Verifies, PathOf, PayloadOf, WholeFile
<1> QED
  BY <1>1, <1>2

\* A process that finds a file sets out to compare it.
Waits(w) ==
  /\ progress[w] = "install" /\ files[Path(w)] # NoFile /\ files' = files
  /\ progress' = [progress EXCEPT ![w] = "compare"] /\ recording' = recording /\ phase' = phase

\* One that finds none and cannot link begins to copy.
Copies(w) ==
  /\ Appears(w) /\ ~links[phase[w]]
  /\ progress' = [progress EXCEPT ![w] = "copy"] /\ recording' = recording /\ phase' = phase

\* With its bytes installed, a process goes on to its manifest.
GoesOn(w) ==
  /\ phase[w] = "bytes" /\ progress[w] # "idle" /\ files'[Path(w)] = WholeFile(Payload(w))
  /\ progress' = [progress EXCEPT ![w] = "install"] /\ recording' = recording
  /\ phase' = [phase EXCEPT ![w] = "manifest"]

\* With its manifest installed, it returns.
Returns(w) ==
  /\ phase[w] = "manifest" /\ progress[w] # "idle" /\ files'[Path(w)] = WholeFile(Payload(w))
  /\ returned' = returned \cup {recording[w]}

\* A process is refused whose file holds something else.
Refuses(w) ==
  /\ progress[w] = "compare" /\ files[Path(w)] # NoFile /\ ~Same(w)
  /\ refused' = refused \cup {<<recording[w], phase[w]>>}

ProcessStep(w) ==
  \/ \E c \in Captures : Begin(w, c)
  \/ Stop(w) /\ returned' = returned /\ (refused' = refused \/ Refuses(w))
  \/ Stop(w) /\ Returns(w) /\ refused' = refused
  \/ (Waits(w) \/ Copies(w) \/ GoesOn(w)) /\ returned' = returned /\ refused' = refused

\* A file that is whole before or after the step lets its process go on or return.
LEMMA Installing ==
  ASSUME NEW w \in Writers, progress[w] # "idle", Installed(w), refused' = refused,
         files'[Path(w)] = WholeFile(Payload(w))
  PROVE  ProcessStep(w)
BY DEF Installed, ProcessStep, GoesOn, Returns

\* What a step does to the process that takes it.
LEMMA ProcessSteps ==
  ASSUME StoreTypeOK, WriterInv, CopyInv, [StoreNext]_storeVars
  PROVE  /\ failures' \in 0..MaxFailures
         /\ \/ UNCHANGED <<progress, recording, phase, returned, refused>>
            \/ \E w \in Writers : ProcessStep(w)
<1>1. failures' \in 0..MaxFailures
  BY StoreAssumption
  DEF StoreTypeOK, StoreNext, storeVars, Begin, Link, OpenCopy, CopyChunk, CloseCopy, CopyFails, Compare, Die
<1>2. CASE UNCHANGED storeVars
  BY <1>1, <1>2 DEF storeVars, process
<1>3. ASSUME NEW w \in Writers, Link(w)
      PROVE  ProcessStep(w)
  <2>1. CASE files[Path(w)] # NoFile /\ Compares(w)
    BY <1>3, <2>1 DEF Link, Compares, ProcessStep, Waits
  <2>2. CASE files' = [files EXCEPT ![Path(w)] = WholeFile(Payload(w))] /\ Installed(w)
    <3>1. progress[w] # "idle" /\ refused' = refused
      BY <1>3 DEF Link
    <3>2. files'[Path(w)] = WholeFile(Payload(w))
      BY <2>2, <3>1, WriterTyped DEF StoreTypeOK
    <3> QED
      BY <2>2, <3>1, <3>2, Installing
  <2> QED
    BY <1>3, <2>1, <2>2 DEF Link
<1>4. ASSUME NEW w \in Writers, OpenCopy(w)
      PROVE  ProcessStep(w)
  BY <1>4 DEF OpenCopy, Compares, ProcessStep, Waits, Copies, Appears
<1>5. ASSUME NEW w \in Writers, CloseCopy(w)
      PROVE  ProcessStep(w)
  <2>1. Path(w) \in Paths /\ files[Path(w)].of = Payload(w) /\ files[Path(w)].length = Chunks
    BY <1>5, WriterTyped DEF CloseCopy, CopyInv
  <2>2. files'[Path(w)] = WholeFile(Payload(w))
    BY <1>5, <2>1, FileTyped DEF CloseCopy, WholeFile
  <2> QED
    BY <1>5, <2>2, Installing DEF CloseCopy
<1>6. ASSUME NEW w \in Writers, Compare(w)
      PROVE  ProcessStep(w)
  <2>1. CASE Same(w) /\ Installed(w) /\ refused' = refused
    BY <1>6, <2>1, Installing DEF Compare, Same
  <2>2. CASE ~Same(w) /\ Stop(w) /\ returned' = returned
    BY <1>6, <2>2 DEF Compare, ProcessStep, Refuses
  <2> QED
    BY <1>6, <2>1, <2>2 DEF Compare
<1>7. ASSUME NEW w \in Writers, CopyFails(w) \/ Die(w)
      PROVE  ProcessStep(w)
  BY <1>7 DEF CopyFails, Die, ProcessStep
<1>8. ASSUME NEW w \in Writers, CopyChunk(w)
      PROVE  UNCHANGED <<progress, recording, phase, returned, refused>>
  BY <1>8 DEF CopyChunk, process
<1>9. ASSUME NEW w \in Writers, NEW c \in Captures, Begin(w, c)
      PROVE  ProcessStep(w)
  BY <1>9 DEF ProcessStep
<1> QED
  BY <1>1, <1>2, <1>3, <1>4, <1>5, <1>6, <1>7, <1>8, <1>9 DEF StoreNext

\* The files keep their type.
LEMMA FilesTypeStep ==
  ASSUME StoreTypeOK, WriterInv, [StoreNext]_storeVars
  PROVE  files' \in [Paths -> [of : Contents \cup Captures \cup {Nothing}, length : 0..Chunks]]
<1> DEFINE File == [of : Contents \cup Captures \cup {Nothing}, length : 0..Chunks]
<1>1. ASSUME NEW w \in Writers, Appears(w) \/ Touched(w)
      PROVE  files' \in [Paths -> File]
  <2>1. Path(w) \in Paths /\ Payload(w) \in Contents \cup Captures
    BY <1>1, WriterTyped DEF Appears, Touched, Grows, Removed
  <2>2. NoFile \in File
    BY StoreAssumption DEF NoFile
  <2>3. [of |-> Payload(w), length |-> IF links[phase[w]] THEN Chunks ELSE 0] \in File
    BY <2>1, StoreAssumption
  <2>4. files[Path(w)].of \in Contents \cup Captures \cup {Nothing}
        /\ files[Path(w)].length \in 0..Chunks
    BY <2>1, FileTyped
  <2>5. files[Path(w)].length < Chunks =>
          [of |-> files[Path(w)].of, length |-> files[Path(w)].length + 1] \in File
    BY <2>4, StoreAssumption
  <2>6. files \in [Paths -> File]
    BY DEF StoreTypeOK
  <2> HIDE DEF File
  <2> QED
    BY <1>1, <2>2, <2>3, <2>5, <2>6 DEF Appears, Touched, Grows, Removed
<1> QED
  BY <1>1, FileSteps DEF StoreTypeOK

\* The variables keep their types.
LEMMA StoreTypeStep ==
  ASSUME StoreTypeOK, WriterInv, CopyInv, [StoreNext]_storeVars
  PROVE  StoreTypeOK'
<1>1. links' \in [Directories -> BOOLEAN]
  BY FileSteps DEF StoreTypeOK
<1>2. ASSUME NEW w \in Writers, ProcessStep(w)
      PROVE  /\ progress' \in [Writers -> {"idle", "install", "copy", "compare"}]
             /\ recording' \in [Writers -> Captures \cup {Nothing}]
             /\ phase' \in [Writers -> Directories]
             /\ returned' \subseteq Captures
             /\ refused' \subseteq Captures \X Directories
  <2>1. progress[w] # "idle" => recording[w] \in Captures /\ phase[w] \in Directories
    BY WriterTyped
  <2>2. CASE \E c \in Captures : Begin(w, c)
    BY <2>2 DEF Begin, FirstPhase, StoreTypeOK, Directories
  <2>3. CASE Stop(w) /\ returned' = returned /\ (refused' = refused \/ Refuses(w))
    BY <2>1, <2>3 DEF Stop, Refuses, StoreTypeOK, Directories
  <2>4. CASE Stop(w) /\ Returns(w) /\ refused' = refused
    BY <2>1, <2>4 DEF Stop, Returns, StoreTypeOK, Directories
  <2>5. CASE (Waits(w) \/ Copies(w) \/ GoesOn(w)) /\ returned' = returned /\ refused' = refused
    BY <2>5 DEF Waits, Copies, GoesOn, StoreTypeOK, Directories
  <2> QED
    BY <1>2, <2>2, <2>3, <2>4, <2>5 DEF ProcessStep
<1>3. /\ progress' \in [Writers -> {"idle", "install", "copy", "compare"}]
      /\ recording' \in [Writers -> Captures \cup {Nothing}]
      /\ phase' \in [Writers -> Directories]
      /\ returned' \subseteq Captures
      /\ refused' \subseteq Captures \X Directories
  BY <1>2, ProcessSteps DEF StoreTypeOK
<1> QED
  BY <1>1, <1>3, FilesTypeStep, ProcessSteps DEF StoreTypeOK

Keeps(v) == progress'[v] = progress[v] /\ recording'[v] = recording[v] /\ phase'[v] = phase[v]

\* What a step does to any one process.
LEMMA ProcessOf ==
  ASSUME StoreTypeOK, WriterInv, CopyInv, [StoreNext]_storeVars, NEW v \in Writers
  PROVE  \/ Keeps(v)
         \/ progress'[v] = "idle"
         \/ progress'[v] = "install" /\ \E c \in Captures : recording'[v] = c /\ phase'[v] = FirstPhase(c)
         \/ /\ progress[v] = "install" /\ progress'[v] = "compare" /\ recording'[v] = recording[v] /\ phase'[v] = phase[v]
            /\ files[Path(v)] # NoFile /\ files' = files
         \/ /\ progress'[v] = "copy" /\ recording'[v] = recording[v] /\ phase'[v] = phase[v]
            /\ Appears(v) /\ ~links[phase[v]]
         \/ /\ progress[v] # "idle" /\ progress'[v] = "install" /\ recording'[v] = recording[v]
            /\ phase[v] = "bytes" /\ phase'[v] = "manifest"
            /\ files'[Path(v)] = WholeFile(Payload(v))
<1>1. CASE UNCHANGED <<progress, recording, phase>>
  BY <1>1 DEF Keeps
<1>2. ASSUME NEW w \in Writers, ProcessStep(w), v # w
      PROVE  Keeps(v)
  BY <1>2 DEF ProcessStep, Begin, Stop, Waits, Copies, GoesOn, Keeps, StoreTypeOK
<1>3. CASE ProcessStep(v)
  <2>1. CASE \E c \in Captures : Begin(v, c)
    BY <2>1 DEF Begin, StoreTypeOK
  <2>2. CASE Stop(v)
    BY <2>2 DEF Stop, StoreTypeOK
  <2>3. CASE Waits(v)
    BY <2>3 DEF Waits, StoreTypeOK
  <2>4. CASE Copies(v)
    BY <2>4 DEF Copies, StoreTypeOK
  <2>5. CASE GoesOn(v)
    BY <2>5 DEF GoesOn, StoreTypeOK
  <2> QED
    BY <1>3, <2>1, <2>2, <2>3, <2>4, <2>5 DEF ProcessStep
<1> QED
  BY <1>1, <1>2, <1>3, ProcessSteps

\* A process that begins has something to install, and the manifest always is something.
LEMMA WriterInvStep ==
  ASSUME StoreTypeOK, WriterInv, CopyInv, [StoreNext]_storeVars
  PROVE  WriterInv'
<1> SUFFICES ASSUME NEW v \in Writers, progress'[v] # "idle"
             PROVE  recording'[v] \in Captures /\ PayloadOf(recording'[v], phase'[v]) # Nothing
  BY DEF WriterInv, PayloadOf
<1>1. CASE Keeps(v)
  BY <1>1 DEF Keeps, WriterInv
<1>2. CASE \E c \in Captures : recording'[v] = c /\ phase'[v] = FirstPhase(c)
  BY <1>2, StoreAssumption DEF FirstPhase, PayloadOf
<1>3. CASE progress[v] # "idle" /\ recording'[v] = recording[v] /\ phase'[v] = phase[v]
  BY <1>3 DEF WriterInv
<1>4. CASE progress[v] # "idle" /\ recording'[v] = recording[v] /\ phase'[v] = "manifest"
  BY <1>4, StoreAssumption DEF WriterInv, PayloadOf
<1> QED
  BY <1>1, <1>2, <1>3, <1>4, ProcessOf DEF Appears

\* What a step puts at a path is what its process may put there.
LEMMA FileInvStep ==
  ASSUME StoreTypeOK, WriterInv, FileInv, CopyInv, [StoreNext]_storeVars
  PROVE  FileInv'
<1> SUFFICES ASSUME NEW p \in Paths, files'[p] # NoFile
             PROVE  /\ files'[p].of # Nothing
                    /\ p[1] = "bytes" => files'[p].of = p[2]
                    /\ p[1] = "manifest" => files'[p].of \in Captures /\ Name[files'[p].of] = p[2]
                    /\ links[p[1]] => files'[p].length = Chunks
  BY FileSteps DEF FileInv, Paths, NoFile
<1>1. CASE files'[p] = files[p]
  BY <1>1 DEF FileInv
<1>2. ASSUME NEW w \in Writers, Appears(w) \/ Touched(w), p = Path(w)
      PROVE  /\ files'[p].of = Payload(w) /\ progress[w] # "idle"
             /\ links[p[1]] => files'[p].length = Chunks
  <2>1. CASE Appears(w)
    BY <1>2, <2>1, WriterTyped DEF Appears, StoreTypeOK
  <2>2. CASE Grows(w)
    BY <1>2, <2>2, WriterTyped DEF Grows, StoreTypeOK, CopyInv
  <2>3. CASE Removed(w)
    BY <1>2, <2>3 DEF Removed, StoreTypeOK
  <2> QED
    BY <1>2, <2>1, <2>2, <2>3 DEF Touched
<1>3. ASSUME NEW w \in Writers, Appears(w) \/ Touched(w), p # Path(w)
      PROVE  files'[p] = files[p]
  BY <1>3 DEF Appears, Touched, Grows, Removed, StoreTypeOK
<1>4. ASSUME NEW w \in Writers, Appears(w) \/ Touched(w), p = Path(w)
      PROVE  /\ files'[p].of # Nothing
             /\ p[1] = "bytes" => files'[p].of = p[2]
             /\ p[1] = "manifest" => files'[p].of \in Captures /\ Name[files'[p].of] = p[2]
             /\ links[p[1]] => files'[p].length = Chunks
  BY <1>2, <1>4, WriterTyped
<1> QED
  BY <1>1, <1>3, <1>4, FileSteps

\* A copier's file is there, so nobody else begins to copy it.
LEMMA CopiedFile ==
  ASSUME StoreTypeOK, WriterInv, CopyInv, NEW v \in Writers, progress[v] = "copy"
  PROVE  files[Path(v)] # NoFile /\ ~links[phase[v]] /\ Path(v) \in Paths
BY WriterTyped DEF CopyInv, NoFile

\* Copiers stay alone with their files, and compared files stay where nobody can copy.
LEMMA CopyInvStep ==
  ASSUME StoreTypeOK, WriterInv, CopyInv, [StoreNext]_storeVars
  PROVE  CopyInv'
<1>1. links' = links
  BY FileSteps
<1>2. ASSUME NEW v \in Writers, progress'[v] = "copy"
      PROVE  \/ Keeps(v) /\ progress[v] = "copy"
             \/ Appears(v) /\ ~links[phase[v]] /\ recording'[v] = recording[v] /\ phase'[v] = phase[v]
  BY <1>2, ProcessOf DEF Keeps
<1>3. ASSUME NEW v \in Writers, progress'[v] = "copy"
      PROVE  ~links'[phase'[v]] /\ files'[Path(v)'].of = Payload(v)'
  <2>1. Path(v)' = Path(v) /\ Payload(v)' = Payload(v) /\ phase'[v] = phase[v]
    BY <1>2, <1>3 DEF Path, Payload, PathOf, PayloadOf, Keeps
  <2>2. CASE Appears(v) /\ ~links[phase[v]]
    BY <1>1, <2>1, <2>2, WriterTyped DEF Appears, StoreTypeOK
  <2>3. CASE Keeps(v) /\ progress[v] = "copy"
    <3>1. files[Path(v)].of = Payload(v) /\ ~links[phase[v]] /\ Path(v) \in Paths
          /\ files[Path(v)] # NoFile
      BY <2>3, CopiedFile DEF CopyInv
    <3>2. ASSUME NEW u \in Writers, Appears(u)
          PROVE  files'[Path(v)].of = Payload(v)
      BY <3>1, <3>2 DEF Appears, StoreTypeOK
    <3>3. ASSUME NEW u \in Writers, Grows(u)
          PROVE  files'[Path(v)].of = Payload(v)
      BY <3>1, <3>3 DEF Grows, StoreTypeOK
    <3>4. ASSUME NEW u \in Writers, Removed(u)
          PROVE  files'[Path(v)].of = Payload(v)
      <4>1. progress'[u] = "idle"
        BY <3>4 DEF Removed, Stop, StoreTypeOK
      <4>2. Path(u) # Path(v)
        BY <1>3, <2>3, <3>4, <4>1 DEF Removed, Installs, CopyInv
      <4> QED
        BY <3>1, <3>4, <4>2 DEF Removed, StoreTypeOK
    <3> QED
      BY <1>1, <2>1, <3>1, <3>2, <3>3, <3>4, FileSteps DEF Touched
  <2> QED
    BY <1>2, <1>3, <2>2, <2>3
<1>4. ASSUME NEW v \in Writers, NEW u \in Writers, progress'[v] = "copy", progress'[u] = "copy",
             Path(u)' = Path(v)'
      PROVE  u = v
  <2>1. Path(u) = Path(v)
    BY <1>2, <1>4 DEF Path, PathOf, Keeps
  <2>2. CASE progress[v] = "copy" /\ progress[u] = "copy"
    BY <2>1, <2>2 DEF CopyInv, Installs
  <2>3. CASE Appears(v) /\ progress[u] = "copy"
    BY <2>1, <2>3, CopiedFile DEF Appears
  <2>4. CASE Appears(u) /\ progress[v] = "copy"
    BY <2>1, <2>4, CopiedFile DEF Appears
  <2>5. CASE Appears(u) /\ Appears(v)
    <3>1. PICK w \in Writers : ProcessStep(w) \/ UNCHANGED <<progress, recording, phase>>
      BY ProcessSteps
    <3>2. progress[u] = "install" /\ progress[v] = "install"
      BY <2>5 DEF Appears
    <3>3. u = w /\ v = w
      BY <1>4, <3>1, <3>2
      DEF ProcessStep, Begin, Stop, Waits, Copies, GoesOn, StoreTypeOK
    <3> QED
      BY <3>3
  <2> QED
    BY <1>2, <1>4, <2>2, <2>3, <2>4, <2>5
<1>5. ASSUME NEW v \in Writers, progress'[v] = "compare", links'[phase'[v]]
      PROVE  files'[Path(v)'] # NoFile
  <2>1. Path(v)' = Path(v) /\ phase'[v] = phase[v]
        /\ \/ progress[v] = "compare"
           \/ progress[v] = "install" /\ files[Path(v)] # NoFile /\ files' = files
    BY <1>5, ProcessOf DEF Path, PathOf, Keeps
  <2>2. CASE progress[v] = "compare"
    <3>1. files[Path(v)] # NoFile /\ Path(v) \in Paths /\ links[Path(v)[1]]
      BY <1>1, <1>5, <2>1, <2>2, WriterTyped DEF CopyInv
    <3> QED
      BY <2>1, <3>1, LinkedStays
  <2> QED
    BY <2>1, <2>2
<1> QED
  BY <1>3, <1>4, <1>5 DEF CopyInv, Installs

\* A process comes to its manifest only by installing its bytes.
LEMMA BytesFirstStep ==
  ASSUME StoreTypeOK, WriterInv, CopyInv, BytesFirst, [StoreNext]_storeVars
  PROVE  BytesFirst'
<1> SUFFICES ASSUME NEW v \in Writers, progress'[v] # "idle", phase'[v] = "manifest", links["bytes"],
                    NEW c, c = recording'[v]
             PROVE  Verifies(c, "bytes")'
  BY FileSteps DEF BytesFirst, Verifies, PathOf, PayloadOf
<1>1. CASE progress[v] # "idle" /\ recording'[v] = recording[v] /\ phase'[v] = phase[v]
  <2>1. Verifies(c, "bytes") /\ c \in Captures
    BY <1>1 DEF BytesFirst, WriterInv
  <2> QED
    BY <2>1, VerifiesStays DEF Directories
<1>2. CASE \E d \in Captures : recording'[v] = d /\ phase'[v] = FirstPhase(d)
  BY <1>2 DEF FirstPhase, Verifies, PayloadOf
<1>3. CASE /\ recording'[v] = recording[v] /\ phase[v] = "bytes"
           /\ files'[Path(v)] = WholeFile(Payload(v))
  BY <1>3 DEF Verifies, Path, Payload, PathOf, PayloadOf, WholeFile
<1> QED
  BY <1>1, <1>2, <1>3, ProcessOf DEF Keeps, Appears

\* A manifest appears only after its bytes.
LEMMA ManifestsStep ==
  ASSUME StoreTypeOK, WriterInv, CopyInv, BytesFirst, ManifestsHaveBytes, [StoreNext]_storeVars
  PROVE  ManifestsHaveBytes'
<1> SUFFICES ASSUME NEW c \in Captures, links["bytes"], Bytes[c] # Nothing,
                    files'[PathOf(c, "manifest")].of = c
             PROVE  Verifies(c, "bytes")'
  BY FileSteps DEF ManifestsHaveBytes, Verifies, PathOf, PayloadOf, WholeFile
<1> DEFINE m == PathOf(c, "manifest")
<1>1. m \in Paths /\ m[1] = "manifest"
  BY PathTyped, StoreAssumption DEF PayloadOf, Directories
<1>2. ASSUME NEW w \in Writers, Appears(w), m = Path(w)
      PROVE  Verifies(c, "bytes")
  <2>1. phase[w] = "manifest" /\ Payload(w) = recording[w]
    BY <1>1, <1>2, WriterTyped DEF Appears
  <2>2. files'[m].of = Payload(w)
    BY <1>1, <1>2 DEF Appears, StoreTypeOK
  <2> QED
    BY <1>2, <2>1, <2>2 DEF BytesFirst, Appears
<1>3. ASSUME NEW w \in Writers, Removed(w), m = Path(w)
      PROVE  FALSE
  BY <1>1, <1>3, StoreAssumption DEF Removed, NoFile, StoreTypeOK
<1>4. ASSUME NEW w \in Writers, Grows(w) \/ (m # Path(w) /\ (Appears(w) \/ Removed(w)))
      PROVE  files'[m].of = files[m].of
  BY <1>1, <1>4 DEF Appears, Grows, Removed, StoreTypeOK
<1>5. files'[m].of = files[m].of \/ Verifies(c, "bytes")
  BY <1>2, <1>3, <1>4, FileSteps DEF Touched
<1>6. Verifies(c, "bytes")
  BY <1>5 DEF ManifestsHaveBytes, Verifies, PayloadOf
<1> QED
  BY <1>6, VerifiesStays DEF Directories

\* Who returns has installed both.
LEMMA ReturnedStep ==
  ASSUME StoreTypeOK, WriterInv, CopyInv, BytesFirst, ReturnedVerifies, [StoreNext]_storeVars
  PROVE  ReturnedVerifies'
<1> SUFFICES ASSUME NEW c \in returned', NEW d \in Directories, links[d]
             PROVE  Verifies(c, d)'
  BY FileSteps DEF ReturnedVerifies
<1>1. CASE c \in returned
  BY <1>1, VerifiesStays DEF ReturnedVerifies, StoreTypeOK
<1>2. ASSUME NEW w \in Writers, Returns(w), c = recording[w]
      PROVE  Verifies(c, d)'
  <2>1. CASE d = "manifest"
    BY <1>2, <2>1 DEF Returns, Verifies, Path, Payload, PathOf, PayloadOf, WholeFile
  <2>2. CASE d = "bytes"
    BY <1>2, <2>2, VerifiesStays DEF Returns, BytesFirst, WriterInv
  <2> QED
    BY <2>1, <2>2 DEF Directories
<1>3. ASSUME NEW w \in Writers, ProcessStep(w), c \notin returned
      PROVE  Returns(w) /\ c = recording[w]
  BY <1>3 DEF ProcessStep, Begin, Returns
<1> QED
  BY <1>1, <1>2, <1>3, ProcessSteps

\* A whole file that is not the one to be installed is another record's manifest.
LEMMA RefusalIsReal ==
  ASSUME StoreTypeOK, WriterInv, FileInv, NEW w \in Writers, Refuses(w), links[phase[w]]
  PROVE  RealConflict(recording[w], phase[w])
<1>1. /\ recording[w] \in Captures /\ Path(w) \in Paths /\ Path(w)[1] = phase[w]
      /\ phase[w] \in Directories
      /\ phase[w] = "bytes" => Path(w)[2] = Payload(w)
      /\ phase[w] = "manifest" => Payload(w) = recording[w]
  BY WriterTyped DEF Refuses
<1>2. files[Path(w)] = WholeFile(files[Path(w)].of)
  BY <1>1, FileTyped DEF FileInv, Refuses, WholeFile
<1>3. files[Path(w)].of # Payload(w)
  BY <1>2 DEF Refuses, Same
<1>4. phase[w] = "manifest" /\ files[Path(w)].of \in Captures \ {recording[w]}
  BY <1>1, <1>3 DEF FileInv, Refuses, Directories
<1> QED
  BY <1>2, <1>4 DEF RealConflict, Path

\* A real conflict stays one, as the other record stays.
LEMMA ConflictsStep ==
  ASSUME StoreTypeOK, WriterInv, FileInv, CopyInv, OnlyRealConflicts, [StoreNext]_storeVars
  PROVE  OnlyRealConflicts'
<1> SUFFICES ASSUME NEW r \in refused', links[r[2]]
             PROVE  RealConflict(r[1], r[2])'
  BY FileSteps DEF OnlyRealConflicts
<1>1. ASSUME NEW c \in Captures, NEW d \in Directories, links[d], RealConflict(c, d)
      PROVE  RealConflict(c, d)'
  <2>1. PICK e \in Captures \ {c} : d = "manifest" /\ files[PathOf(c, d)] = WholeFile(e)
    BY <1>1 DEF RealConflict
  <2>2. PathOf(c, d) \in Paths /\ PathOf(c, d)[1] = d
    BY <2>1, PathTyped, StoreAssumption DEF PayloadOf
  <2>3. files[PathOf(c, d)] # NoFile
    BY <2>1, StoreAssumption DEF WholeFile, NoFile
  <2>4. files'[PathOf(c, d)] = files[PathOf(c, d)]
    BY <1>1, <2>2, <2>3, LinkedStays
  <2> QED
    BY <2>1, <2>4 DEF RealConflict, PathOf, WholeFile
<1>2. CASE r \in refused
  <2>1. r[1] \in Captures /\ r[2] \in Directories
    BY <1>2 DEF StoreTypeOK
  <2> QED
    BY <1>1, <1>2, <2>1 DEF OnlyRealConflicts
<1>3. ASSUME NEW w \in Writers, Refuses(w), r = <<recording[w], phase[w]>>
      PROVE  RealConflict(r[1], r[2])'
  <2>1. recording[w] \in Captures /\ phase[w] \in Directories
    BY <1>3, WriterTyped DEF Refuses
  <2> QED
    BY <1>1, <1>3, <2>1, RefusalIsReal
<1>4. ASSUME NEW w \in Writers, ProcessStep(w), r \notin refused
      PROVE  Refuses(w) /\ r = <<recording[w], phase[w]>>
  BY <1>4 DEF ProcessStep, Begin, Refuses
<1> QED
  BY <1>2, <1>3, <1>4, ProcessSteps

\* At first there are no files and no processes at work.
LEMMA StoreStarts ==
  StoreInit => SInv
<1> SUFFICES ASSUME StoreInit PROVE SInv
  OBVIOUS
<1>1. \A p \in Paths : files[p] = NoFile
  BY DEF StoreInit
<1>2. \A c \in Captures : PathOf(c, "manifest") \in Paths /\ c # Nothing
  BY PathTyped, StoreAssumption DEF PayloadOf, Directories
<1>3. StoreTypeOK
  BY StoreAssumption DEF StoreInit, StoreTypeOK, NoFile, Directories
<1>4. WriterInv /\ CopyInv /\ BytesFirst
  BY DEF StoreInit, WriterInv, CopyInv, BytesFirst
<1>5. FileInv
  BY <1>1 DEF FileInv
<1>6. ManifestsHaveBytes
  BY <1>1, <1>2 DEF ManifestsHaveBytes, NoFile
<1>7. ReturnedVerifies /\ OnlyRealConflicts
  BY DEF StoreInit, ReturnedVerifies, OnlyRealConflicts
<1> QED
  BY <1>3, <1>4, <1>5, <1>6, <1>7 DEF SInv

\* The invariant is inductive, so it always holds.
THEOREM StoreInvariant == StoreSpec => []SInv
<1>1. SInv /\ [StoreNext]_storeVars => SInv'
  BY StoreTypeStep, WriterInvStep, FileInvStep, CopyInvStep, BytesFirstStep, ManifestsStep,
     ReturnedStep, ConflictsStep DEF SInv
<1> QED
  BY StoreStarts, <1>1, PTL DEF StoreSpec

\* The store keeps its types for any number of processes, captures and failures.
THEOREM StoreTypeCorrect == StoreSpec => []StoreTypeOK
<1>1. SInv => StoreTypeOK
  BY DEF SInv
<1> QED
  BY StoreInvariant, <1>1, PTL

\* On any file system, a file is only touched by the process that is copying it.
THEOREM FilesNeverChange == StoreSpec => InstalledNeverChanges
<1>1. SInv /\ [StoreNext]_storeVars =>
        [\A p \in Paths : files[p] # NoFile /\ (\A w \in Writers : ~Installs(w, p))
           => files'[p] = files[p]]_storeVars
  BY Untouched DEF SInv
<1> QED
  BY StoreInvariant, <1>1, PTL DEF StoreSpec, InstalledNeverChanges

\* With hard links, a manifest that can be seen has its bytes, whoever died when.
THEOREM ManifestsAlwaysHaveBytes == StoreSpec => []ManifestsHaveBytes
<1>1. SInv => ManifestsHaveBytes
  BY DEF SInv
<1> QED
  BY StoreInvariant, <1>1, PTL

\* With hard links, what record_capture returned for verifies ever after.
THEOREM ReturnedAlwaysVerifies == StoreSpec => []ReturnedVerifies
<1>1. SInv => ReturnedVerifies
  BY DEF SInv
<1> QED
  BY StoreInvariant, <1>1, PTL

\* With hard links, manifests have their bytes and what was returned for stays
\* (record_capture).
THEOREM StoredAlwaysWhole == StoreSpec => []StoredIsWhole
<1>1. ManifestsHaveBytes /\ ReturnedVerifies => StoredIsWhole
  BY DEF StoredIsWhole
<1> QED
  BY <1>1, ManifestsAlwaysHaveBytes, ReturnedAlwaysVerifies, PTL

\* With hard links, ImmutableRecordError is raised only over another record of the name.
THEOREM RefusalsAreReal == StoreSpec => []OnlyRealConflicts
<1>1. SInv => OnlyRealConflicts
  BY DEF SInv
<1> QED
  BY StoreInvariant, <1>1, PTL

(***************************************************************************)
(* The exported bundle (write_publication_bundle).                         *)
(***************************************************************************)
Listed(q) == q \in Seq({q[i] : i \in DOMAIN q})

(***************************************************************************)
(* What stands is whole; what was moved aside is whole too, waits for the  *)
(* export that moved it, and leaves its place empty.                       *)
(***************************************************************************)
ExportInv ==
  /\ IsGeneration(standing) /\ IsGeneration(backup)
  /\ backup # NoBundle => standing = NoBundle /\ AllStaged
  /\ Listed(orphans)

LEMMA SetAsideLater ==
  ASSUME NEW q, Listed(q), NEW x
  PROVE  /\ Range(Append(q, x)) = Range(q) \cup {x}
         /\ Listed(Append(q, x))
<1>0. PICK S : q \in Seq(S)
  BY DEF Listed
<1>1. q \in Seq(S \cup {x}) /\ x \in S \cup {x}
  BY <1>0
<1>2. PICK r : r = Append(q, x)
  OBVIOUS
<1>3. /\ r \in Seq(S \cup {x}) /\ Len(r) = Len(q) + 1 /\ Len(q) \in Nat
      /\ DOMAIN r = 1..Len(r) /\ DOMAIN q = 1..Len(q)
      /\ \A i \in 1..Len(q) : r[i] = q[i]
      /\ r[Len(q) + 1] = x
  BY <1>1, <1>2
<1>4. Range(r) = Range(q) \cup {x}
  BY <1>3 DEF Range
<1>5. Listed(r)
  <2> DEFINE R == {r[i] : i \in DOMAIN r}
  <2>1. r = [i \in 1..Len(r) |-> r[i]] /\ Len(r) \in Nat /\ \A i \in 1..Len(r) : r[i] \in R
    BY <1>3
  <2> HIDE DEF R
  <2>2. r \in Seq(R)
    BY <2>1
  <2> QED BY <2>2 DEF R, Listed
<1> QED BY <1>2, <1>4, <1>5

\* Scoring leaves the export alone, and the export the scoring.
LEMMA ExportStep ==
  ASSUME ExportInv, [PublicationNext]_publicationVars
  PROVE  /\ ExportInv'
         /\ ReadTogether
         /\ ~(Generations \subseteq Generations') => standing' # NoBundle
<1> DEFINE Lost == ~(Generations \subseteq Generations')
<1>0. /\ IsGeneration(standing) /\ IsGeneration(backup)
      /\ backup # NoBundle => standing = NoBundle /\ AllStaged
      /\ Listed(orphans)
  BY DEF ExportInv
<1>1. CASE UNCHANGED publicationVars \/ (ScoringNext /\ UNCHANGED exportVars)
  <2>1. UNCHANGED <<staged, standing, backup, orphans>>
    BY <1>1 DEF publicationVars, exportVars
  <2>2. ExportInv' /\ ReadTogether
    BY <1>0, <2>1 DEF ExportInv, IsGeneration, AllStaged, ReadTogether
  <2>3. Generations' = Generations
    BY <2>1 DEF Generations
  <2> QED BY <2>2, <2>3
<1>2. CASE StartExport
  <2>1. /\ staged = NoBundle /\ UNCHANGED <<standing, backup, orphans>>
        /\ staged'.build.report = last.report /\ last.report = Report
    BY <1>2 DEF StartExport, ReportRevalidates, Bundle
  <2>2. backup = NoBundle
    BY <1>0, <2>1 DEF AllStaged
  <2>3. ExportInv' /\ ReadTogether
    BY <1>0, <2>1, <2>2 DEF ExportInv, IsGeneration, ReadTogether
  <2>4. Generations' = Generations
    BY <2>1 DEF Generations
  <2> QED BY <2>3, <2>4
<1>3. CASE StageFile
  <2>1. staged # NoBundle /\ ~AllStaged /\ UNCHANGED <<standing, backup, orphans>>
    BY <1>3 DEF StageFile, AllStaged
  <2>2. ExportInv' /\ ReadTogether
    BY <1>0, <2>1 DEF ExportInv, IsGeneration, ReadTogether
  <2>3. Generations' = Generations
    BY <2>1 DEF Generations
  <2> QED BY <2>2, <2>3
<1>4. CASE SetAside
  <2>1. /\ AllStaged /\ standing # NoBundle /\ standing' = NoBundle /\ backup' = standing
        /\ staged' = staged /\ orphans' = orphans
    BY <1>4 DEF SetAside
  <2>2. ExportInv' /\ ReadTogether
    BY <1>0, <2>1 DEF ExportInv, IsGeneration, ReadTogether, AllStaged
  <2>3. backup = NoBundle
    BY <1>0, <2>1
  <2>4. Generations \subseteq Generations'
    BY <2>1, <2>3 DEF Generations
  <2> QED BY <2>2, <2>4
<1>5. CASE Install
  <2>1. /\ AllStaged /\ standing' = staged /\ staged' = NoBundle /\ backup' = NoBundle
        /\ orphans' = orphans
    BY <1>5 DEF Install
  <2>2. ExportInv' /\ ReadTogether /\ standing' # NoBundle
    BY <1>0, <2>1 DEF ExportInv, IsGeneration, ReadTogether, AllStaged
  <2> QED BY <2>2
<1>6. CASE ExportFails
  <2>1. /\ staged # NoBundle /\ staged' = NoBundle /\ backup' = NoBundle /\ orphans' = orphans
        /\ standing' = IF backup # NoBundle THEN backup ELSE standing
    BY <1>6 DEF ExportFails
  <2>2. ExportInv' /\ ReadTogether
    BY <1>0, <2>1 DEF ExportInv, IsGeneration, ReadTogether
  <2>3. Generations \subseteq Generations'
    BY <1>0, <2>1 DEF Generations
  <2> QED BY <2>2, <2>3
<1>7. CASE ExportDies
  <2>1. /\ backup # NoBundle /\ orphans' = Append(orphans, backup) /\ standing' = standing
        /\ staged' = NoBundle /\ backup' = NoBundle
    BY <1>7 DEF ExportDies
  <2>2. /\ Range(orphans') = Range(orphans) \cup {backup}
        /\ Listed(orphans')
    BY <1>0, <2>1, SetAsideLater
  <2>3. ExportInv' /\ ReadTogether
    BY <1>0, <2>1, <2>2 DEF ExportInv, IsGeneration, ReadTogether
  <2>4. Generations \subseteq Generations'
    BY <2>1, <2>2 DEF Generations
  <2> QED BY <2>3, <2>4
<1> QED BY <1>1, <1>2, <1>3, <1>4, <1>5, <1>6, <1>7 DEF PublicationNext

(***************************************************************************)
(* A generation in place, or moved aside, is whole, and only an export     *)
(* that has staged everything moves one aside (write_publication_bundle).  *)
(***************************************************************************)
THEOREM ExportInvariant == PublicationSpec => []ExportInv
<1>1. PublicationInit => ExportInv
  BY DEF PublicationInit, ExportInit, ExportInv, IsGeneration, Listed
<1>2. ExportInv /\ [PublicationNext]_publicationVars => ExportInv'
  BY ExportStep
<1> QED BY <1>1, <1>2, PTL DEF PublicationSpec

(***************************************************************************)
(* An export reads a report of the dataset it reads, puts only a whole     *)
(* generation in place, and takes none away unless another one stands, at  *)
(* whatever step it fails or is killed (export_build,                      *)
(* write_publication_bundle).                                              *)
(***************************************************************************)
THEOREM ExportStaysSound == PublicationSpec => ExportIsSound
<1>1. ASSUME ExportInv, ExportInv', [PublicationNext]_publicationVars
      PROVE  [/\ ReadTogether /\ IsGeneration(standing')
              /\ ~(Generations \subseteq Generations') => standing' # NoBundle]_publicationVars
  BY <1>1, ExportStep DEF ExportInv
<1> QED BY <1>1, ExportInvariant, PTL DEF PublicationSpec, ExportIsSound
=============================================================================
