--------------------------- MODULE ReleaseEvidence ---------------------------
(***************************************************************************)
(* The receipts of one release, kept as bot comments on its owning issue.  *)
(* A receipt and its reports are cut into parts of one comment each; index *)
(* comments list the parts, and the seal, posted last, lists the indexes.  *)
(* Comments are only added.  A writer may die after any of them; the next  *)
(* attempt to retain the same receipt takes up the parts it finds.         *)
(*                                                                         *)
(* A receipt is named by the digest of its bytes (the marker's group).     *)
(* Its stages are 1 for its reports and receipt.json, then one for every   *)
(* level of index, then the seal.  A comment's identity is its position.   *)
(***************************************************************************)
EXTENDS Naturals, Sequences

CONSTANTS Receipts,
          Archive,          \* canonical archive each receipt binds
          Upload,           \* upload each receipt records, 0 for none
          ReportParts,      \* comments needed for its other reports
          ReceiptParts,     \* comments needed for its receipt.json
          IndexParts,       \* comments needed for each level of its index
          Repeated,         \* receipts whose retention verification-only runs repeat
          NoReceipt,
          MaxInterruptions  \* writers that die (a bound)

ASSUME EvidenceAssumption ==
  /\ NoReceipt \notin Receipts
  /\ Archive \in [Receipts -> Nat]
  /\ Upload \in [Receipts -> Nat]
  /\ ReportParts \in [Receipts -> Nat]
  /\ ReceiptParts \in [Receipts -> Nat \ {0}]
  /\ IndexParts \in [Receipts -> Seq(Nat \ {0}) \ {<<>>}]
  /\ Repeated \subseteq Receipts
  /\ MaxInterruptions \in Nat

VARIABLES
  comments,       \* the bot's evidence comments, oldest first
  writer,         \* receipt being retained by the run holding the lock
  stage,          \* stage it is at
  posted,         \* comments of that stage retained so far
  refs,           \* comments of the stage below, which this one lists
  interruptions

run == <<writer, stage, posted, refs>>
vars == <<comments, run, interruptions>>

SealStage(r) == Len(IndexParts[r]) + 2

Count(r, s) ==
  IF s = 1 THEN ReportParts[r] + ReceiptParts[r]
  ELSE IF s = SealStage(r) THEN 1 ELSE IndexParts[r][s - 1]

Comment == [receipt : Receipts, stage : Nat \ {0}, part : Nat \ {0}, refs : Seq(Nat)]

TypeOK ==
  /\ comments \in Seq(Comment)
  /\ \A i \in DOMAIN comments :
       /\ comments[i].stage \in 1..SealStage(comments[i].receipt)
       /\ comments[i].part \in 1..Count(comments[i].receipt, comments[i].stage)
  /\ writer \in Receipts \cup {NoReceipt}
  /\ writer # NoReceipt => stage \in 1..SealStage(writer) /\ Len(posted) < Count(writer, stage)
  /\ posted \in Seq(DOMAIN comments)
  /\ refs \in Seq(DOMAIN comments)
  /\ interruptions \in 0..MaxInterruptions

Init ==
  /\ comments = <<>>
  /\ writer = NoReceipt /\ stage = 1 /\ posted = <<>> /\ refs = <<>>
  /\ interruptions = 0

(***************************************************************************)
(* Reading the evidence: what _comments and _completed accept.             *)
(***************************************************************************)
\* Two receipts of a release may differ in everything but these.
Contradicts(r, s) ==
  \/ Archive[r] # Archive[s]
  \/ Upload[r] # 0 /\ Upload[s] # 0 /\ Upload[r] # Upload[s]

Parts(r, s, p) ==
  {i \in DOMAIN comments : /\ comments[i].receipt = r
                           /\ comments[i].stage = s
                           /\ comments[i].part = p}

Seals == {i \in DOMAIN comments : comments[i].stage = SealStage(comments[i].receipt)}

\* The receipts load_verified_receipts returns.
Loaded == {comments[i].receipt : i \in Seals}

\* A receipt.json all parts of which are posted, sealed or not.
ReceiptPosted(r) == \A p \in ReportParts[r] + 1 .. Count(r, 1) : Parts(r, 1, p) # {}

NoDuplicateParts ==
  \A i, j \in DOMAIN comments :
    comments[i].receipt = comments[j].receipt /\ comments[i].stage = comments[j].stage
      /\ comments[i].part = comments[j].part => i = j

FragmentsAgree ==
  \A r, s \in Receipts : ReceiptPosted(r) /\ ReceiptPosted(s) => ~Contradicts(r, s)

\* ids are the whole of stage s of r, and each of them lists what is below it.
Assembles(r, s, ids, below) ==
  /\ Len(ids) = Count(r, s)
  /\ \A p \in 1..Len(ids) : ids[p] \in Parts(r, s, p) /\ comments[ids[p]].refs = below

\* From a seal down through the levels of the index to the reports.
SealAssembles(i) ==
  LET r == comments[i].receipt
      layer[s \in 1..SealStage(r)] ==
        IF s = SealStage(r) THEN <<i>> ELSE comments[layer[s + 1][1]].refs
  IN  \A s \in 1..SealStage(r) :
        Assembles(r, s, layer[s], IF s = 1 THEN <<>> ELSE layer[s - 1])

Readable == NoDuplicateParts /\ FragmentsAgree /\ \A i \in Seals : SealAssembles(i)

(***************************************************************************)
(* Retaining a receipt.                                                    *)
(***************************************************************************)
\* Mutation of CanonicalWith: the recorded uploads are not compared.
CanonicalArchiveOnly(r) ==
  \A s \in Receipts : ReceiptPosted(s) => Archive[r] = Archive[s]

\* Mutation of CanonicalWith: evidence that was begun and not sealed is an error.
CanonicalWithoutPartial(r) ==
  /\ \A s \in Receipts : ReceiptPosted(s) => ~Contradicts(r, s)
  /\ \A i \in DOMAIN comments : comments[i].receipt \in Loaded

CanonicalWith(r) == \A s \in Receipts : ReceiptPosted(s) => ~Contradicts(r, s)

\* retain_evidence reads every comment once, then works from what it read.
Start(r) ==
  /\ writer = NoReceipt
  /\ Readable
  /\ CanonicalWith(r)
  /\ writer' = r /\ stage' = 1 /\ posted' = <<>> /\ refs' = <<>>
  /\ UNCHANGED <<comments, interruptions>>

End == writer' = NoReceipt /\ stage' = 1 /\ posted' = <<>> /\ refs' = <<>>

\* Mutation of StageDone: a list of parts is taken for complete one part early.
StageDoneEarly(ids) == Len(ids) + 1 >= Count(writer, stage)

StageDone(ids) == Len(ids) = Count(writer, stage)

\* The next stage lists exactly the parts of this one; after the seal nothing is left.
Advance(i) ==
  LET ids == Append(posted, i)
  IN  IF ~StageDone(ids) THEN posted' = ids /\ UNCHANGED <<writer, stage, refs>>
      ELSE IF stage = SealStage(writer) THEN End
      ELSE stage' = stage + 1 /\ refs' = ids /\ posted' = <<>> /\ UNCHANGED writer

\* Mutation of Found: a retry does not look for the parts an earlier writer left.
FoundNothing(part) == {}

Found(part) == Parts(writer, stage, part)

NextComment ==
  [receipt |-> writer, stage |-> stage, part |-> Len(posted) + 1, refs |-> refs]

PostPart ==
  /\ writer # NoReceipt
  /\ Found(Len(posted) + 1) = {}
  /\ comments' = Append(comments, NextComment)
  /\ Advance(Len(comments) + 1)
  /\ UNCHANGED interruptions

\* A part that is there already must be the same part.
ReusePart ==
  /\ writer # NoReceipt
  /\ \E i \in Found(Len(posted) + 1) :
       IF comments[i].refs = refs THEN Advance(i) ELSE End
  /\ UNCHANGED <<comments, interruptions>>

\* The comment is posted and its response lost, so the writer fails.
PostPartLost ==
  /\ writer # NoReceipt
  /\ interruptions < MaxInterruptions
  /\ Found(Len(posted) + 1) = {}
  /\ comments' = Append(comments, NextComment)
  /\ End
  /\ interruptions' = interruptions + 1

\* The writer dies, or GitHub refuses the comment.
Interrupt ==
  /\ writer # NoReceipt
  /\ interruptions < MaxInterruptions
  /\ End
  /\ interruptions' = interruptions + 1
  /\ UNCHANGED comments

Next == PostPart \/ ReusePart \/ PostPartLost \/ Interrupt \/ \E r \in Receipts : Start(r)

Spec == Init /\ [][Next]_vars

(***************************************************************************)
(* Properties.                                                             *)
(***************************************************************************)
\* However often retention is interrupted and repeated, no part is posted twice, so
\* no later reader takes the evidence for conflicting (retain_evidence, _comments).
EvidenceIsUnambiguous == NoDuplicateParts

\* Every seal leads through its indexes to all parts of its reports, the receipt among
\* them, so reading it cannot fail (_index_parts, _assemble).
SealsAreComplete == \A i \in Seals : SealAssembles(i)

\* Receipts whose bytes are there, sealed or not, agree on the canonical archive and
\* the upload (_check_canonical_receipts).
PostedReceiptsAgree == FragmentsAgree

\* Readers see whole receipts appear one by one and never vanish or contradict.
EvidenceLog == INSTANCE ReceiptLog WITH log <- Loaded

ImplementsLog == EvidenceLog!LogSpec

(***************************************************************************)
(* Fairness: a writer goes on, and verification-only runs, which get the   *)
(* lock in turn, first retain the upload receipt once more.                *)
(***************************************************************************)
FairSpec == Spec /\ WF_vars(PostPart \/ ReusePart) /\ \A r \in Repeated : SF_vars(Start(r))

\* A receipt that was posted and not sealed is never shut out: nothing contradicting it
\* gets in meanwhile, and repeating its retention seals it.
RepeatedRetentionSeals == \A r \in Repeated : ReceiptPosted(r) ~> r \in Loaded
=============================================================================
