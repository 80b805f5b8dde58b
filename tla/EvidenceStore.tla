---------------------------- MODULE EvidenceStore ----------------------------
(***************************************************************************)
(* The local evidence store (evidence/storage.py): artifacts named by      *)
(* their content and manifests named by capture, written by processes that *)
(* share directories and no lock.  A capture installs its bytes, then its  *)
(* manifest; an observation has no bytes to install.                       *)
(*                                                                         *)
(* A file is installed by a hard link to a finished temporary file, or,    *)
(* where the directory's file system has none, by copying it in place.     *)
(* The temporary files are private and left out.                           *)
(***************************************************************************)
EXTENDS Naturals

CONSTANTS Writers,
          Captures,
          Contents,
          Names,
          Bytes,         \* content each capture stores, or Nothing
          Name,          \* file name of its manifest
          Nothing,
          Chunks,        \* writes that copying a file takes
          MaxFailures    \* processes that die or fail in a copy (a bound)

ASSUME StoreAssumption ==
  /\ Bytes \in [Captures -> Contents \cup {Nothing}]
  /\ Name \in [Captures -> Names]
  /\ Nothing \notin Captures \cup Contents
  /\ Chunks \in Nat \ {0}
  /\ MaxFailures \in Nat

Directories == {"bytes", "manifest"}
Paths == ({"bytes"} \X Contents) \cup ({"manifest"} \X Names)

VARIABLES
  links,      \* which directories' file systems have hard links
  files,      \* what each path holds, and how much of it
  progress,   \* what each process is about to do
  recording,  \* capture it records
  phase,      \* directory it installs into
  returned,   \* captures whose recording returned
  refused,    \* <<capture, directory>> pairs that raised ImmutableRecordError
  failures

process == <<progress, recording, phase>>
storeVars == <<links, files, process, returned, refused, failures>>

NoFile == [of |-> Nothing, length |-> 0]
WholeFile(payload) == [of |-> payload, length |-> Chunks]

StoreTypeOK ==
  /\ links \in [Directories -> BOOLEAN]
  /\ files \in [Paths -> [of : Contents \cup Captures \cup {Nothing}, length : 0..Chunks]]
  /\ progress \in [Writers -> {"idle", "install", "copy", "compare"}]
  /\ recording \in [Writers -> Captures \cup {Nothing}]
  /\ phase \in [Writers -> Directories]
  /\ returned \subseteq Captures
  /\ refused \subseteq Captures \X Directories
  /\ failures \in 0..MaxFailures

StoreInit ==
  /\ links \in [Directories -> BOOLEAN]
  /\ files = [p \in Paths |-> NoFile]
  /\ progress = [w \in Writers |-> "idle"]
  /\ recording = [w \in Writers |-> Nothing]
  /\ phase = [w \in Writers |-> "bytes"]
  /\ returned = {} /\ refused = {} /\ failures = 0

PathOf(c, d) == <<d, IF d = "bytes" THEN Bytes[c] ELSE Name[c]>>
PayloadOf(c, d) == IF d = "bytes" THEN Bytes[c] ELSE c

Path(w) == PathOf(recording[w], phase[w])
Payload(w) == PayloadOf(recording[w], phase[w])

\* Mutation of FirstPhase: the manifest is written before the bytes.
FirstPhaseManifest(c) == "manifest"

FirstPhase(c) == IF Bytes[c] = Nothing THEN "manifest" ELSE "bytes"

Begin(w, c) ==
  /\ progress[w] = "idle"
  /\ progress' = [progress EXCEPT ![w] = "install"]
  /\ recording' = [recording EXCEPT ![w] = c]
  /\ phase' = [phase EXCEPT ![w] = FirstPhase(c)]
  /\ UNCHANGED <<links, files, returned, refused, failures>>

\* The process ends, in success or with an error.
Stop(w) ==
  /\ progress' = [progress EXCEPT ![w] = "idle"]
  /\ recording' = [recording EXCEPT ![w] = Nothing]
  /\ phase' = [phase EXCEPT ![w] = "bytes"]

Installed(w) ==
  \/ /\ phase[w] = "bytes"
     /\ progress' = [progress EXCEPT ![w] = "install"]
     /\ phase' = [phase EXCEPT ![w] = "manifest"]
     /\ UNCHANGED <<recording, returned>>
  \/ phase[w] = "manifest" /\ Stop(w) /\ returned' = returned \cup {recording[w]}

Compares(w) ==
  /\ progress' = [progress EXCEPT ![w] = "compare"]
  /\ UNCHANGED <<files, recording, phase, returned>>

\* A hard link appears whole, and only where there is no file.
Link(w) ==
  /\ progress[w] = "install" /\ links[phase[w]]
  /\ \/ files[Path(w)] # NoFile /\ Compares(w)
     \/ /\ files[Path(w)] = NoFile
        /\ files' = [files EXCEPT ![Path(w)] = WholeFile(Payload(w))]
        /\ Installed(w)
  /\ UNCHANGED <<links, refused, failures>>

\* Mutation of OpenCopy: opened without O_EXCL, an existing file is truncated.
OpenCopyTruncates(w) ==
  /\ progress[w] = "install" /\ ~links[phase[w]]
  /\ files' = [files EXCEPT ![Path(w)] = [of |-> Payload(w), length |-> 0]]
  /\ progress' = [progress EXCEPT ![w] = "copy"]
  /\ UNCHANGED <<links, recording, phase, returned, refused, failures>>

\* Without hard links the file is created empty, and others see it from then on.
OpenCopy(w) ==
  /\ progress[w] = "install" /\ ~links[phase[w]]
  /\ \/ files[Path(w)] # NoFile /\ Compares(w)
     \/ /\ files[Path(w)] = NoFile
        /\ files' = [files EXCEPT ![Path(w)] = [of |-> Payload(w), length |-> 0]]
        /\ progress' = [progress EXCEPT ![w] = "copy"]
        /\ UNCHANGED <<recording, phase, returned>>
  /\ UNCHANGED <<links, refused, failures>>

CopyChunk(w) ==
  /\ progress[w] = "copy" /\ files[Path(w)].length < Chunks
  /\ files' = [files EXCEPT ![Path(w)] = [of |-> @.of, length |-> @.length + 1]]
  /\ UNCHANGED <<links, process, returned, refused, failures>>

CloseCopy(w) ==
  /\ progress[w] = "copy" /\ files[Path(w)].length = Chunks
  /\ Installed(w)
  /\ UNCHANGED <<links, files, refused, failures>>

\* A write or the final flush fails, or the process is interrupted: the copy is removed.
CopyFails(w) ==
  /\ progress[w] = "copy" /\ failures < MaxFailures
  /\ files' = [files EXCEPT ![Path(w)] = NoFile]
  /\ Stop(w)
  /\ failures' = failures + 1
  /\ UNCHANGED <<links, returned, refused>>

\* Mutation of Same: any file at the path will do.
SameWhatever(w) == files[Path(w)] # NoFile

\* Mutation of Same: an existing file is always a conflict.
SameNever(w) == FALSE

Same(w) == files[Path(w)] = WholeFile(Payload(w))

\* Another file is there: the same bytes are as good as installed, others are an error.
Compare(w) ==
  /\ progress[w] = "compare"
  /\ \/ Same(w) /\ Installed(w) /\ UNCHANGED refused
     \/ /\ ~Same(w)
        /\ refused' = IF files[Path(w)] = NoFile THEN refused
                      ELSE refused \cup {<<recording[w], phase[w]>>}
        /\ Stop(w)
        /\ UNCHANGED returned
  /\ UNCHANGED <<links, files, failures>>

\* The process is killed, or fails in a step that leaves no file behind.
Die(w) ==
  /\ progress[w] # "idle" /\ failures < MaxFailures
  /\ Stop(w)
  /\ failures' = failures + 1
  /\ UNCHANGED <<links, files, returned, refused>>

StoreNext ==
  \E w \in Writers :
    \/ \E c \in Captures : Begin(w, c)
    \/ Link(w) \/ OpenCopy(w) \/ CopyChunk(w) \/ CloseCopy(w) \/ CopyFails(w)
    \/ Compare(w) \/ Die(w)

StoreSpec == StoreInit /\ [][StoreNext]_storeVars

(***************************************************************************)
(* Properties.                                                             *)
(***************************************************************************)
Installs(w, p) == progress[w] = "copy" /\ Path(w) = p

\* A file is only touched by the process that is copying it: whatever the others do, it
\* is never replaced, truncated or removed after that (_install_exclusive).
InstalledNeverChanges ==
  [][\A p \in Paths : files[p] # NoFile /\ (\A w \in Writers : ~Installs(w, p))
       => files'[p] = files[p]]_storeVars

\* With hard links, wherever a manifest can be seen, its bytes are there, so that
\* survey_byte_presence reports no loss after a crash (record_capture).
ManifestsHaveBytes ==
  \A c \in Captures :
    links["bytes"] /\ Bytes[c] # Nothing /\ files[PathOf(c, "manifest")].of = c
      => files[PathOf(c, "bytes")] = WholeFile(Bytes[c])

Verifies(c, d) == PayloadOf(c, d) # Nothing => files[PathOf(c, d)] = WholeFile(PayloadOf(c, d))

\* With hard links, what record_capture returned for stays readable and verifiable.
ReturnedVerifies == \A c \in returned, d \in Directories : links[d] => Verifies(c, d)

\* Both: no manifest without its bytes, whatever dies, and nothing lost of what a process
\* was told is stored.
StoredIsWhole == ManifestsHaveBytes /\ ReturnedVerifies

RealConflict(c, d) ==
  d = "manifest" /\ \E e \in Captures \ {c} : files[PathOf(c, d)] = WholeFile(e)

\* With hard links, a record is refused only for another one of the same name, and bytes
\* never are, for their name is their hash.
OnlyRealConflicts == \A r \in refused : links[r[2]] => RealConflict(r[1], r[2])

\* As its docstring has it, ImmutableRecordError is raised when an operation would
\* overwrite other evidence, on any file system.
EveryConflictIsReal == \A r \in refused : RealConflict(r[1], r[2])

\* As the capture document has it, a capture stores its bytes, on any file system.
EveryReturnedVerifies == \A c \in returned, d \in Directories : Verifies(c, d)
=============================================================================
