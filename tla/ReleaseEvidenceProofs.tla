------------------------ MODULE ReleaseEvidenceProofs ------------------------
(***************************************************************************)
(* Proofs about what a release leaves for others to compare with: the      *)
(* durable receipts (ReleaseEvidence, of any number of parts and index     *)
(* levels, and any number of interruptions), the snapshot of the Updates   *)
(* page in production (UpdatesGate, for any sites, any first one, and any  *)
(* number of lanes and of deployments put back by hand), the release       *)
(* bundle a later one is compared with (ReleaseLineage, for any bundles),  *)
(* the candidate that is recorded (CandidateBuild, for any repository),    *)
(* and where the addresses of a staged site lead (HostedSite, for any      *)
(* elections, races, bundles and logs).                                    *)
(***************************************************************************)
EXTENDS ReleaseEvidence, UpdatesGate, ReleaseLineage, CandidateBuild, FiniteSetTheorems,
        WellFoundedInduction, TLAPS

\* The stages below s of r have all their parts.
Below(r, s) == \A t \in 1..(s - 1) : \A p \in 1..Count(r, t) : Parts(r, t, p) # {}

\* A part is posted once everything it lists, directly or not, is there.
BelowInv ==
  \A r \in Receipts : \A s \in 1..SealStage(r) : \A p \in 1..Count(r, s) :
    Parts(r, s, p) # {} => Below(r, s)

\* So is the part a writer is about to post, whose receipt nothing posted contradicts.
WriterInv ==
  \A r \in Receipts : \A s \in 1..SealStage(r) :
    writer = r /\ stage = s =>
      /\ Below(r, s)
      /\ \A p \in 1..Len(posted) : Parts(r, s, p) # {}
      /\ CanonicalWith(r)

EInv == TypeOK /\ NoDuplicateParts /\ BelowInv /\ WriterInv /\ FragmentsAgree

\* The stages and their sizes.
LEMMA Sizes ==
  ASSUME NEW r \in Receipts
  PROVE  /\ SealStage(r) \in Nat /\ SealStage(r) >= 3
         /\ \A s \in 1..SealStage(r) : Count(r, s) \in Nat /\ Count(r, s) >= 1
         /\ Count(r, 1) = ReportParts[r] + ReceiptParts[r]
         /\ ReportParts[r] \in Nat /\ ReceiptParts[r] \in Nat
<1>1. IndexParts[r] \in Seq(Nat \ {0}) /\ IndexParts[r] # <<>>
  BY EvidenceAssumption
<1>2. Len(IndexParts[r]) \in Nat /\ Len(IndexParts[r]) >= 1
  BY <1>1
<1>3. ReportParts[r] \in Nat /\ ReceiptParts[r] \in Nat \ {0}
  BY EvidenceAssumption
<1>4. SealStage(r) \in Nat /\ SealStage(r) >= 3
  BY <1>2 DEF SealStage
<1>5. ASSUME NEW s \in 1..SealStage(r)
      PROVE  Count(r, s) \in Nat /\ Count(r, s) >= 1
  <2>1. CASE s = 1
    BY <2>1, <1>3 DEF Count
  <2>2. CASE s = SealStage(r)
    BY <2>2, <1>4 DEF Count
  <2>3. CASE s # 1 /\ s # SealStage(r)
    <3>1. s - 1 \in 1..Len(IndexParts[r])
      BY <2>3, <1>2, <1>4 DEF SealStage
    <3>2. IndexParts[r][s - 1] \in Nat \ {0}
      BY <3>1, <1>1
    <3> QED
      BY <3>2, <2>3 DEF Count
  <2> QED
    BY <2>1, <2>2, <2>3
<1> QED
  BY <1>3, <1>4, <1>5 DEF Count

\* What a posted part changes, whether or not its writer learns of it.
LEMMA Posting ==
  ASSUME TypeOK, writer \in Receipts, comments' = Append(comments, NextComment)
  PROVE  /\ Len(comments) \in Nat
         /\ DOMAIN comments = 1..Len(comments)
         /\ DOMAIN comments' = 1..(Len(comments) + 1)
         /\ comments'[Len(comments) + 1] = NextComment
         /\ \A i \in DOMAIN comments : comments'[i] = comments[i]
         /\ NextComment \in Comment
         /\ Len(posted) \in Nat
         /\ stage \in 1..SealStage(writer)
         /\ Len(posted) + 1 \in 1..Count(writer, stage)
<1>1. comments \in Seq(Comment)
  BY DEF TypeOK
<1>2. writer # NoReceipt
  BY EvidenceAssumption
<1>3. stage \in 1..SealStage(writer) /\ Len(posted) < Count(writer, stage)
  BY <1>2 DEF TypeOK
<1>4. posted \in Seq(DOMAIN comments) /\ refs \in Seq(DOMAIN comments)
  BY DEF TypeOK
<1>5. Len(posted) \in Nat
  BY <1>4
<1>6. SealStage(writer) \in Nat /\ Count(writer, stage) \in Nat
  BY <1>3, Sizes
<1>7. Len(posted) + 1 \in 1..Count(writer, stage)
  BY <1>3, <1>5, <1>6
<1>8. DOMAIN comments \subseteq Nat
  BY <1>1
<1>9. refs \in Seq(Nat)
  BY <1>4, <1>8
<1>10. NextComment \in Comment
  BY <1>3, <1>5, <1>6, <1>9 DEF NextComment, Comment
<1> QED
  BY <1>1, <1>3, <1>5, <1>7, <1>10

\* The comments only grow, so what was posted stays posted.
LEMMA PartsGrow ==
  ASSUME TypeOK, [Next]_vars, NEW r, NEW s, NEW p
  PROVE  Parts(r, s, p) \subseteq Parts(r, s, p)'
<1>1. CASE UNCHANGED comments
  BY <1>1 DEF Parts
<1>2. CASE writer # NoReceipt /\ comments' = Append(comments, NextComment)
  <2>1. writer \in Receipts
    BY <1>2 DEF TypeOK
  <2> QED
    BY <1>2, <2>1, Posting DEF Parts
<1>3. UNCHANGED comments \/ (writer # NoReceipt /\ comments' = Append(comments, NextComment))
  BY DEF Next, vars, PostPart, ReusePart, PostPartLost, Interrupt, Start
<1> QED
  BY <1>1, <1>2, <1>3

\* What a writer does to the comments and to its own state.
Posted == comments' = Append(comments, NextComment)
Kept == UNCHANGED comments

\* Every step posts the next part that was not found, or posts nothing.
LEMMA PostsOnce ==
  ASSUME TypeOK, [Next]_vars
  PROVE  \/ Kept
         \/ writer \in Receipts /\ Posted /\ Parts(writer, stage, Len(posted) + 1) = {}
<1>1. PostPart \/ PostPartLost => Posted /\ writer # NoReceipt
                                    /\ Parts(writer, stage, Len(posted) + 1) = {}
  BY DEF PostPart, PostPartLost, Posted, Found
<1>2. ReusePart \/ Interrupt \/ (\E r \in Receipts : Start(r)) => Kept
  BY DEF ReusePart, Interrupt, Start, Kept
<1>3. UNCHANGED vars => Kept
  BY DEF vars, Kept
<1>4. writer # NoReceipt => writer \in Receipts
  BY DEF TypeOK
<1> QED
  BY <1>1, <1>2, <1>3, <1>4 DEF Next

\* A part that was looked for in vain is not a duplicate.
LEMMA NoDuplicateStep ==
  ASSUME TypeOK, NoDuplicateParts, [Next]_vars
  PROVE  NoDuplicateParts'
<1>1. CASE Kept
  BY <1>1 DEF Kept, NoDuplicateParts
<1>2. CASE writer \in Receipts /\ Posted /\ Parts(writer, stage, Len(posted) + 1) = {}
  <2> DEFINE new == Len(comments) + 1
  <2>1. /\ Len(comments) \in Nat
        /\ DOMAIN comments = 1..Len(comments) /\ DOMAIN comments' = 1..new
        /\ comments'[new] = NextComment
        /\ \A i \in DOMAIN comments : comments'[i] = comments[i]
    BY <1>2, Posting DEF Posted
  <2>2. \A i \in DOMAIN comments :
          ~ /\ comments[i].receipt = writer
            /\ comments[i].stage = stage
            /\ comments[i].part = Len(posted) + 1
    BY <1>2 DEF Parts
  <2>3. /\ NextComment.receipt = writer /\ NextComment.stage = stage
        /\ NextComment.part = Len(posted) + 1
    BY DEF NextComment
  <2>4. \A i \in DOMAIN comments' : i \in DOMAIN comments \/ i = new
    BY <2>1
  <2> QED
    BY <2>1, <2>2, <2>3, <2>4 DEF NoDuplicateParts
<1> QED
  BY <1>1, <1>2, PostsOnce

\* A stage with all its parts keeps them.
LEMMA BelowGrows ==
  ASSUME TypeOK, [Next]_vars, NEW r, NEW s, Below(r, s)
  PROVE  Below(r, s)'
BY PartsGrow DEF Below

\* A part is there because it was, or because it is the one a writer posts now.
LEMMA NewParts ==
  ASSUME TypeOK, [Next]_vars, NEW r, NEW s, NEW p, Parts(r, s, p)' # {}
  PROVE  \/ Parts(r, s, p) # {}
         \/ writer = r /\ writer \in Receipts /\ stage = s /\ p = Len(posted) + 1 /\ Posted
<1>1. CASE Kept
  BY <1>1 DEF Kept, Parts
<1>2. CASE writer \in Receipts /\ Posted
  <2>1. PICK i \in DOMAIN comments' :
          comments'[i].receipt = r /\ comments'[i].stage = s /\ comments'[i].part = p
    BY DEF Parts
  <2>2. CASE i \in DOMAIN comments
    BY <2>1, <2>2, <1>2, Posting DEF Posted, Parts
  <2>3. CASE i = Len(comments) + 1
    BY <2>1, <2>3, <1>2, Posting DEF Posted, NextComment
  <2> QED
    BY <2>1, <2>2, <2>3, <1>2, Posting DEF Posted
<1> QED
  BY <1>1, <1>2, PostsOnce

\* Whatever a writer posts comes after everything it lists.
LEMMA BelowInvStep ==
  ASSUME TypeOK, BelowInv, WriterInv, [Next]_vars
  PROVE  BelowInv'
<1> SUFFICES ASSUME NEW r \in Receipts, NEW s \in 1..SealStage(r), NEW p \in 1..Count(r, s),
                    Parts(r, s, p)' # {}
             PROVE  Below(r, s)'
  BY DEF BelowInv, SealStage, Count
<1>1. CASE Parts(r, s, p) # {}
  BY <1>1, BelowGrows DEF BelowInv
<1>2. CASE writer = r /\ stage = s
  BY <1>2, BelowGrows DEF WriterInv
<1> QED
  BY <1>1, <1>2, NewParts

\* A receipt.json is posted because it was, or because its writer posts the last part.
LEMMA NewReceiptPosted ==
  ASSUME TypeOK, [Next]_vars, NEW r \in Receipts, ReceiptPosted(r)'
  PROVE  ReceiptPosted(r) \/ (writer = r /\ stage = 1)
<1>1. \A p \in ReportParts[r] + 1 .. Count(r, 1) : Parts(r, 1, p)' # {}
  BY DEF ReceiptPosted, Count, SealStage
<1>2. CASE ~(writer = r /\ stage = 1)
  <2>1. \A p \in ReportParts[r] + 1 .. Count(r, 1) : Parts(r, 1, p) # {}
    BY <1>1, <1>2, NewParts
  <2> QED
    BY <2>1 DEF ReceiptPosted
<1> QED
  BY <1>2

\* A receipt does not contradict itself, and contradiction is mutual.
LEMMA ContradictsSymmetric ==
  ASSUME NEW r \in Receipts, NEW s \in Receipts
  PROVE  ~Contradicts(r, r) /\ (Contradicts(r, s) <=> Contradicts(s, r))
BY DEF Contradicts

\* The run holding the lock starts where nothing contradicts its receipt, and meanwhile
\* no other receipt is posted.
LEMMA CanonicalStays ==
  ASSUME TypeOK, [Next]_vars, NEW r \in Receipts, writer = r \/ Kept, CanonicalWith(r)
  PROVE  CanonicalWith(r)'
<1> SUFFICES ASSUME NEW s \in Receipts, ReceiptPosted(s)'
             PROVE  ~Contradicts(r, s)
  BY DEF CanonicalWith, Contradicts
<1>1. CASE ReceiptPosted(s)
  BY <1>1 DEF CanonicalWith
<1>2. CASE writer = s
  <2>1. CASE Kept
    <3>1. ReceiptPosted(s)
      BY <2>1 DEF Kept, ReceiptPosted, Parts, Count, SealStage
    <3> QED
      BY <3>1 DEF CanonicalWith
  <2>2. CASE writer = r
    BY <1>2, <2>2, ContradictsSymmetric
  <2> QED
    BY <2>1, <2>2
<1> QED
  BY <1>1, <1>2, NewReceiptPosted

\* Receipts that are posted agree.
LEMMA FragmentsAgreeStep ==
  ASSUME TypeOK, FragmentsAgree, WriterInv, [Next]_vars
  PROVE  FragmentsAgree'
<1> SUFFICES ASSUME NEW r \in Receipts, NEW s \in Receipts,
                    ReceiptPosted(r)', ReceiptPosted(s)'
             PROVE  ~Contradicts(r, s)
  BY DEF FragmentsAgree, Contradicts
<1>1. stage \in 1..SealStage(writer) \/ writer = NoReceipt
  BY DEF TypeOK
<1>2. NoReceipt \notin Receipts
  BY EvidenceAssumption
<1>3. ASSUME NEW q \in Receipts, writer = q
      PROVE  CanonicalWith(q)
  BY <1>1, <1>2, <1>3 DEF WriterInv
<1>4. CASE ReceiptPosted(r) /\ ReceiptPosted(s)
  BY <1>4 DEF FragmentsAgree
<1>5. CASE writer = r /\ ReceiptPosted(s)
  BY <1>3, <1>5 DEF CanonicalWith
<1>6. CASE writer = s /\ ReceiptPosted(r)
  <2>1. ~Contradicts(s, r)
    BY <1>3, <1>6 DEF CanonicalWith
  <2> QED
    BY <2>1, ContradictsSymmetric
<1>7. CASE writer = r /\ writer = s
  BY <1>7, ContradictsSymmetric
<1> QED
  BY <1>4, <1>5, <1>6, <1>7, NewReceiptPosted

\* What retaining one more part makes of the writer.
LEMMA Advancing ==
  ASSUME TypeOK, writer \in Receipts, NEW i, Advance(i)
  PROVE  \/ /\ Len(posted) + 1 # Count(writer, stage)
            /\ posted' = Append(posted, i) /\ UNCHANGED <<writer, stage, refs>>
         \/ writer' = NoReceipt /\ stage' = 1 /\ posted' = <<>> /\ refs' = <<>>
         \/ /\ Len(posted) + 1 = Count(writer, stage) /\ stage # SealStage(writer)
            /\ stage' = stage + 1 /\ posted' = <<>> /\ refs' = Append(posted, i)
            /\ UNCHANGED writer
<1>1. posted \in Seq(DOMAIN comments)
  BY DEF TypeOK
<1>2. Len(Append(posted, i)) = Len(posted) + 1
  BY <1>1
<1> QED
  BY <1>2 DEF Advance, StageDone, End

\* With one more part retained, the writer is again about to post a part all that it
\* lists is there for.
LEMMA WriterAdvances ==
  ASSUME TypeOK, WriterInv, [Next]_vars, NEW i, Advance(i),
         NEW w \in Receipts, NEW t, NEW m, w = writer, t = stage, m = Len(posted) + 1,
         Parts(w, t, m)' # {},
         NEW r \in Receipts, NEW s \in 1..SealStage(r), r = writer', s = stage'
  PROVE  /\ Below(r, s)'
         /\ \A p \in 1..Len(posted') : Parts(r, s, p)' # {}
         /\ CanonicalWith(r)'
<1>1. /\ t \in 1..SealStage(w) /\ SealStage(w) \in Nat
      /\ Len(posted) \in Nat /\ posted \in Seq(DOMAIN comments)
      /\ Count(w, t) \in Nat
  <2>1. w # NoReceipt
    BY EvidenceAssumption
  <2>2. t \in 1..SealStage(w)
    BY <2>1 DEF TypeOK
  <2>3. posted \in Seq(DOMAIN comments)
    BY DEF TypeOK
  <2> QED
    BY <2>2, <2>3, Sizes
<1>2. Below(w, t) /\ CanonicalWith(w) /\ \A p \in 1..Len(posted) : Parts(w, t, p) # {}
  BY <1>1 DEF WriterInv
<1>3. Below(w, t)'
  BY <1>2, BelowGrows
<1>4. \A p \in 1..Len(posted) : Parts(w, t, p)' # {}
  BY <1>2, PartsGrow
<1>5. \A p \in 1..m : Parts(w, t, p)' # {}
  BY <1>1, <1>4
<1>6. CanonicalWith(w)'
  BY <1>2, CanonicalStays
<1>7. r # NoReceipt
  BY EvidenceAssumption
<1>8. CASE posted' = Append(posted, i) /\ UNCHANGED <<writer, stage, refs>>
  <2>1. r = w /\ s = t /\ Len(posted') = m
    BY <1>1, <1>8
  <2> QED
    BY <1>3, <1>5, <1>6, <2>1
<1>9. CASE /\ Len(posted) + 1 = Count(writer, stage)
           /\ stage' = stage + 1 /\ posted' = <<>> /\ UNCHANGED writer
  <2>1. r = w /\ s = t + 1 /\ Len(posted') = 0 /\ m = Count(w, t)
    BY <1>9
  <2>2. \A p \in 1..Count(w, t) : Parts(w, t, p)' # {}
    BY <1>5, <2>1
  <2>3. \A u \in 1..t : u \in 1..(t - 1) \/ u = t
    BY <1>1
  <2>4. Below(w, t + 1)'
    <3>1. \A u \in 1..t : \A p \in 1..Count(w, u) : Parts(w, u, p)' # {}
      BY <1>3, <2>2, <2>3 DEF Below, Count, SealStage
    <3>2. (t + 1) - 1 = t
      BY <1>1
    <3> QED
      BY <3>1, <3>2 DEF Below, Count, SealStage
  <2> QED
    BY <1>6, <2>1, <2>4
<1> QED
  BY <1>7, <1>8, <1>9, Advancing

\* A writer is about to post a part all that it lists is there for.
LEMMA WriterInvStep ==
  ASSUME TypeOK, WriterInv, [Next]_vars
  PROVE  WriterInv'
<1> SUFFICES ASSUME NEW r \in Receipts, NEW s \in 1..SealStage(r), r = writer', s = stage'
             PROVE  /\ Below(r, s)'
                    /\ \A p \in 1..Len(posted') : Parts(r, s, p)' # {}
                    /\ CanonicalWith(r)'
  BY DEF WriterInv, SealStage
<1>1. r # NoReceipt
  BY EvidenceAssumption
<1>2. PICK w, t, m : w = writer /\ t = stage /\ m = Len(posted) + 1
  OBVIOUS
<1>3. CASE PostPart
  <2>1. w \in Receipts /\ Posted /\ Advance(Len(comments) + 1)
    BY <1>2, <1>3 DEF PostPart, Posted, TypeOK
  <2>2. Parts(w, t, m)' # {}
    BY <1>2, <2>1, Posting DEF Posted, NextComment, Parts
  <2> QED
    BY <1>2, <2>1, <2>2, WriterAdvances
<1>4. CASE ReusePart
  <2>1. w \in Receipts
    BY <1>2, <1>4 DEF ReusePart, TypeOK
  <2>2. PICK i \in Parts(w, t, m) : Advance(i) \/ End
    BY <1>2, <1>4 DEF ReusePart, Found
  <2>3. Advance(i)
    BY <1>1, <2>2 DEF End
  <2>4. Parts(w, t, m)' # {}
    BY <2>2, PartsGrow
  <2> QED
    BY <1>2, <2>1, <2>3, <2>4, WriterAdvances
<1>5. CASE \E q \in Receipts : Start(q)
  <2>1. s = 1 /\ posted' = <<>> /\ CanonicalWith(r) /\ Kept
    BY <1>5 DEF Start, Kept
  <2>2. CanonicalWith(r)'
    BY <2>1, CanonicalStays
  <2>3. Below(r, s)'
    BY <2>1 DEF Below
  <2> QED
    BY <2>1, <2>2, <2>3
<1>6. CASE UNCHANGED vars
  <2>1. w = r /\ t = s /\ posted' = posted /\ Kept
    BY <1>2, <1>6 DEF vars, run, Kept
  <2>2. /\ Below(r, s)
        /\ \A p \in 1..Len(posted) : Parts(r, s, p) # {}
        /\ CanonicalWith(r)
    BY <1>2, <2>1 DEF WriterInv
  <2>3. Below(r, s)' /\ \A p \in 1..Len(posted) : Parts(r, s, p)' # {}
    BY <2>2, BelowGrows, PartsGrow
  <2>4. CanonicalWith(r)'
    BY <2>1, <2>2, CanonicalStays
  <2> QED
    BY <2>1, <2>3, <2>4
<1>7. CASE PostPartLost \/ Interrupt
  BY <1>1, <1>7 DEF PostPartLost, Interrupt, End
<1> QED
  BY <1>3, <1>4, <1>5, <1>6, <1>7 DEF Next

\* A writer at work never sits at a full stage, for an empty one is never full.
RunType ==
  /\ writer \in Receipts \cup {NoReceipt}
  /\ writer # NoReceipt => stage \in 1..SealStage(writer) /\ Len(posted) < Count(writer, stage)
  /\ posted \in Seq(DOMAIN comments)
  /\ refs \in Seq(DOMAIN comments)

\* The comments stay well-formed, and none goes away.
LEMMA CommentsTyped ==
  ASSUME TypeOK, [Next]_vars
  PROVE  /\ comments' \in Seq(Comment)
         /\ \A i \in DOMAIN comments' :
              /\ comments'[i].stage \in 1..SealStage(comments'[i].receipt)
              /\ comments'[i].part \in 1..Count(comments'[i].receipt, comments'[i].stage)
         /\ DOMAIN comments \subseteq DOMAIN comments'
<1>1. CASE Kept
  BY <1>1 DEF Kept, TypeOK
<1>2. CASE writer \in Receipts /\ Posted
  <2> DEFINE new == Len(comments) + 1
  <2>1. /\ Len(comments) \in Nat /\ DOMAIN comments = 1..Len(comments)
        /\ DOMAIN comments' = 1..new /\ comments'[new] = NextComment
        /\ \A i \in DOMAIN comments : comments'[i] = comments[i]
        /\ NextComment \in Comment
        /\ stage \in 1..SealStage(writer)
        /\ Len(posted) + 1 \in 1..Count(writer, stage)
    BY <1>2, Posting DEF Posted
  <2>2. comments' \in Seq(Comment)
    BY <1>2, <2>1 DEF Posted, TypeOK
  <2>3. /\ NextComment.receipt = writer /\ NextComment.stage = stage
        /\ NextComment.part = Len(posted) + 1
    BY DEF NextComment
  <2>4. ASSUME NEW i \in DOMAIN comments'
        PROVE  /\ comments'[i].stage \in 1..SealStage(comments'[i].receipt)
               /\ comments'[i].part \in 1..Count(comments'[i].receipt, comments'[i].stage)
    <3>1. CASE i = new
      BY <3>1, <2>1, <2>3
    <3>2. CASE i # new
      <4>1. i \in DOMAIN comments
        BY <3>2, <2>1
      <4>2. comments'[i] = comments[i]
        BY <4>1, <2>1
      <4> QED
        BY <4>1, <4>2 DEF TypeOK
    <3> QED
      BY <3>1, <3>2
  <2> QED
    BY <2>1, <2>2, <2>4
<1> QED
  BY <1>1, <1>2, PostsOnce

\* A list of comments stays one when comments are added.
LEMMA SequencesGrow ==
  ASSUME NEW S, NEW T, S \subseteq T, NEW q \in Seq(S)
  PROVE  q \in Seq(T)
OBVIOUS

\* Retaining one more part leaves a well-formed writer.
LEMMA AdvanceTyped ==
  ASSUME TypeOK, writer \in Receipts, DOMAIN comments \subseteq DOMAIN comments',
         NEW i \in DOMAIN comments', Advance(i)
  PROVE  RunType'
<1> DEFINE T == DOMAIN comments'
<1>1. posted \in Seq(T) /\ refs \in Seq(T)
  BY SequencesGrow DEF TypeOK
<1>2. Append(posted, i) \in Seq(T) /\ Len(Append(posted, i)) = Len(posted) + 1 /\ Len(posted) \in Nat
  BY <1>1
<1>3. writer # NoReceipt /\ stage \in 1..SealStage(writer) /\ Len(posted) < Count(writer, stage)
  BY EvidenceAssumption DEF TypeOK
<1>4. /\ SealStage(writer) \in Nat
      /\ \A s \in 1..SealStage(writer) : Count(writer, s) \in Nat /\ Count(writer, s) >= 1
  BY Sizes
<1>5. <<>> \in Seq(T) /\ Len(<<>>) = 0
  OBVIOUS
<1>6. CASE /\ Len(posted) + 1 # Count(writer, stage)
           /\ posted' = Append(posted, i) /\ UNCHANGED <<writer, stage, refs>>
  <2>1. Len(posted') < Count(writer, stage)
    BY <1>2, <1>3, <1>4, <1>6
  <2> QED
    BY <2>1, <1>1, <1>2, <1>3, <1>6 DEF RunType, Count, SealStage
<1>7. CASE writer' = NoReceipt /\ stage' = 1 /\ posted' = <<>> /\ refs' = <<>>
  BY <1>5, <1>7 DEF RunType
<1>8. CASE /\ Len(posted) + 1 = Count(writer, stage) /\ stage # SealStage(writer)
           /\ stage' = stage + 1 /\ posted' = <<>> /\ refs' = Append(posted, i)
           /\ UNCHANGED writer
  <2>1. stage + 1 \in 1..SealStage(writer)
    BY <1>3, <1>4, <1>8
  <2>2. Len(posted') < Count(writer, stage + 1)
    BY <2>1, <1>4, <1>5, <1>8
  <2> QED
    BY <2>1, <2>2, <1>2, <1>5, <1>8 DEF RunType, Count, SealStage
<1> QED
  BY <1>6, <1>7, <1>8, Advancing

\* Every step keeps the variables in their types.
LEMMA TypeStep ==
  ASSUME TypeOK, [Next]_vars
  PROVE  TypeOK'
<1>1. DOMAIN comments \subseteq DOMAIN comments'
  BY CommentsTyped
<1>2. interruptions' \in 0..MaxInterruptions
  BY EvidenceAssumption
  DEF TypeOK, Next, vars, PostPart, ReusePart, PostPartLost, Interrupt, Start
<1>3. ASSUME End PROVE RunType'
  BY <1>3 DEF End, RunType
<1>4. RunType'
  <2>1. CASE PostPart
    <3>1. writer \in Receipts /\ Posted /\ Advance(Len(comments) + 1)
      BY <2>1 DEF PostPart, Posted, TypeOK
    <3>2. Len(comments) + 1 \in DOMAIN comments'
      BY <3>1, Posting DEF Posted
    <3> QED
      BY <1>1, <3>1, <3>2, AdvanceTyped
  <2>2. CASE ReusePart
    <3>1. writer \in Receipts
      BY <2>2 DEF ReusePart, TypeOK
    <3>2. PICK i \in Found(Len(posted) + 1) : Advance(i) \/ End
      BY <2>2 DEF ReusePart
    <3>3. i \in DOMAIN comments'
      BY <1>1 DEF Found, Parts
    <3> QED
      BY <1>1, <1>3, <3>1, <3>2, <3>3, AdvanceTyped
  <2>3. CASE PostPartLost \/ Interrupt
    BY <1>3, <2>3 DEF PostPartLost, Interrupt
  <2>4. CASE \E r \in Receipts : Start(r)
    <3>1. PICK r \in Receipts : Start(r)
      BY <2>4
    <3>2. 1 \in 1..SealStage(r) /\ Count(r, 1) \in Nat /\ Count(r, 1) >= 1
      BY Sizes
    <3>3. writer' = r /\ stage' = 1 /\ posted' = <<>> /\ refs' = <<>>
      BY <3>1 DEF Start
    <3>4. Len(posted') < Count(r, 1)
      BY <3>2, <3>3
    <3> QED
      BY <3>2, <3>3, <3>4 DEF RunType, Count, SealStage
  <2>5. CASE UNCHANGED vars
    BY <2>5 DEF RunType, TypeOK, vars, run, Count, SealStage
  <2> QED
    BY <2>1, <2>2, <2>3, <2>4, <2>5 DEF Next
<1> QED
  BY <1>2, <1>4, CommentsTyped DEF TypeOK, RunType, Count, SealStage

\* Nothing is posted at first.
LEMMA EInvInit ==
  Init => EInv
<1> SUFFICES ASSUME Init PROVE EInv
  OBVIOUS
<1> USE DEF Init
<1>1. DOMAIN comments = {}
  OBVIOUS
<1>2. \A r, s, p : Parts(r, s, p) = {}
  BY <1>1 DEF Parts
<1>3. TypeOK
  BY <1>1, EvidenceAssumption DEF TypeOK
<1>4. NoDuplicateParts /\ BelowInv
  BY <1>1, <1>2 DEF NoDuplicateParts, BelowInv
<1>5. WriterInv
  BY EvidenceAssumption DEF WriterInv
<1>6. FragmentsAgree
  <2> SUFFICES ASSUME NEW r \in Receipts PROVE ~ReceiptPosted(r)
    BY DEF FragmentsAgree
  <2>1. /\ ReportParts[r] \in Nat /\ ReceiptParts[r] \in Nat \ {0}
        /\ Count(r, 1) = ReportParts[r] + ReceiptParts[r]
    BY Sizes, EvidenceAssumption
  <2>2. ReportParts[r] + 1 \in ReportParts[r] + 1 .. Count(r, 1)
    BY <2>1
  <2> QED
    BY <1>2, <2>2 DEF ReceiptPosted
<1> QED
  BY <1>3, <1>4, <1>5, <1>6 DEF EInv

\* The invariant is inductive, so it always holds.
THEOREM EvidenceInvariant == Spec => []EInv
<1>1. EInv /\ [Next]_vars => EInv'
  BY TypeStep, NoDuplicateStep, BelowInvStep, WriterInvStep, FragmentsAgreeStep DEF EInv
<1> QED
  BY EInvInit, <1>1, PTL DEF Spec

\* The comments stay well-formed evidence, and a writer is always at a stage of its
\* receipt that lacks parts.
THEOREM EvidenceTypeCorrect == Spec => []TypeOK
<1>1. EInv => TypeOK
  BY DEF EInv
<1> QED
  BY EvidenceInvariant, <1>1, PTL

\* However often retention is interrupted and repeated, no part is posted twice, so that
\* _comments never takes the evidence for conflicting.
THEOREM NoPartIsPostedTwice == Spec => []EvidenceIsUnambiguous
<1>1. EInv => EvidenceIsUnambiguous
  BY DEF EInv, EvidenceIsUnambiguous
<1> QED
  BY EvidenceInvariant, <1>1, PTL

\* Receipts whose bytes are posted, sealed or not, agree on archive and upload, so that
\* _check_canonical_receipts never fails on what is there.
THEOREM PostedReceiptsNeverContradict == Spec => []PostedReceiptsAgree
<1>1. EInv => PostedReceiptsAgree
  BY DEF EInv, PostedReceiptsAgree
<1> QED
  BY EvidenceInvariant, <1>1, PTL

\* What a seal lists is posted, the receipt among it.
LEMMA LoadedIsPosted ==
  ASSUME TypeOK, BelowInv, NEW r \in Loaded
  PROVE  r \in Receipts /\ ReceiptPosted(r)
<1>1. PICK i \in DOMAIN comments :
        comments[i].receipt = r /\ comments[i].stage = SealStage(r)
  BY DEF Loaded, Seals
<1>2. comments[i] \in Comment /\ comments[i].part \in 1..Count(r, SealStage(r))
  BY <1>1 DEF TypeOK
<1>3. r \in Receipts
  BY <1>1, <1>2 DEF Comment
<1>4. /\ SealStage(r) \in 1..SealStage(r) /\ 1 \in 1..(SealStage(r) - 1)
      /\ ReportParts[r] \in Nat /\ Count(r, 1) \in Nat
  BY <1>3, Sizes
<1>5. i \in Parts(r, SealStage(r), comments[i].part)
  BY <1>1 DEF Parts
<1>6. Below(r, SealStage(r))
  BY <1>2, <1>3, <1>4, <1>5 DEF BelowInv
<1>7. \A p \in 1..Count(r, 1) : Parts(r, 1, p) # {}
  BY <1>4, <1>6 DEF Below
<1>8. \A p \in ReportParts[r] + 1 .. Count(r, 1) : p \in 1..Count(r, 1)
  BY <1>4
<1> QED
  BY <1>3, <1>7, <1>8 DEF ReceiptPosted

\* A step seals the receipt of its writer, or no receipt.
LEMMA SealsOnlyTheWriters ==
  ASSUME TypeOK, [Next]_vars
  PROVE  \/ Loaded' = Loaded
         \/ writer \in Receipts /\ Loaded' = Loaded \cup {writer}
<1>1. CASE Kept
  BY <1>1 DEF Kept, Loaded, Seals
<1>2. CASE writer \in Receipts /\ Posted
  <2> DEFINE new == Len(comments) + 1
  <2>1. /\ Len(comments) \in Nat /\ DOMAIN comments = 1..Len(comments)
        /\ DOMAIN comments' = 1..new /\ comments'[new] = NextComment
        /\ \A i \in DOMAIN comments : comments'[i] = comments[i]
        /\ NextComment.receipt = writer /\ NextComment.stage = stage
    BY <1>2, Posting DEF Posted, NextComment
  <2>2. DOMAIN comments' = DOMAIN comments \cup {new}
    BY <2>1
  <2>3. Seals' = {i \in DOMAIN comments' : comments'[i].stage = SealStage(comments'[i].receipt)}
    BY DEF Seals, SealStage
  <2>4. Seals' = Seals \cup (IF stage = SealStage(writer) THEN {new} ELSE {})
    <3>1. \A i \in DOMAIN comments : i \in Seals' <=> i \in Seals
      BY <2>1, <2>2, <2>3 DEF Seals
    <3>2. new \in Seals' <=> stage = SealStage(writer)
      BY <2>1, <2>2, <2>3
    <3>3. Seals' \subseteq DOMAIN comments \cup {new} /\ Seals \subseteq DOMAIN comments
      BY <2>2, <2>3 DEF Seals
    <3> QED
      BY <3>1, <3>2, <3>3
  <2>5. Loaded' = {comments'[i].receipt : i \in Seals'}
    BY DEF Loaded
  <2>6. \A i \in Seals : comments'[i].receipt = comments[i].receipt
    BY <2>1 DEF Seals
  <2>7. CASE stage = SealStage(writer)
    BY <1>2, <2>1, <2>4, <2>5, <2>6, <2>7 DEF Loaded
  <2>8. CASE stage # SealStage(writer)
    BY <2>4, <2>5, <2>6, <2>8 DEF Loaded
  <2> QED
    BY <2>7, <2>8
<1> QED
  BY <1>1, <1>2, PostsOnce

\* The comments implement the abstract log: whole receipts appear one by one, stay, and
\* none contradicts one that readers have seen.
THEOREM EvidenceImplementsLog == Spec => ImplementsLog
<1>1. Init => EvidenceLog!LogInit
  BY DEF Init, EvidenceLog!LogInit, Loaded, Seals
<1>2. EInv /\ [Next]_vars => [EvidenceLog!LogNext]_Loaded
  <2> SUFFICES ASSUME EInv, [Next]_vars PROVE [EvidenceLog!LogNext]_Loaded
    OBVIOUS
  <2>1. CASE Loaded' = Loaded
    BY <2>1
  <2>2. CASE writer \in Receipts /\ Loaded' = Loaded \cup {writer}
    <3>1. stage \in 1..SealStage(writer)
      BY <2>2, EvidenceAssumption DEF EInv, TypeOK
    <3>2. CanonicalWith(writer)
      BY <2>2, <3>1 DEF EInv, WriterInv
    <3>3. \A s \in Loaded : ~Contradicts(writer, s)
      BY <3>2, LoadedIsPosted DEF EInv, CanonicalWith
    <3>4. EvidenceLog!Seal(writer)
      BY <2>2, <3>3 DEF EvidenceLog!Seal, EvidenceLog!Contradicts, Contradicts
    <3> QED
      BY <2>2, <3>4 DEF EvidenceLog!LogNext
  <2> QED
    BY <2>1, <2>2, SealsOnlyTheWriters DEF EInv
<1> QED
  BY <1>1, <1>2, EvidenceInvariant, PTL DEF Spec, ImplementsLog, EvidenceLog!LogSpec

(***************************************************************************)
(* What comments list.  A seal is posted last, but that everything it      *)
(* leads to is there says nothing of whether it leads there: for that, the *)
(* list in every comment must be the whole stage below it.                 *)
(***************************************************************************)
\* ids are the parts of stage s of r, all of them and in order.
Whole(r, s, ids) ==
  /\ Len(ids) = Count(r, s)
  /\ \A p \in 1..Len(ids) : ids[p] \in Parts(r, s, p)

\* What a part of stage s of r lists.
Lists(r, s, ids) == IF s = 1 THEN ids = <<>> ELSE Whole(r, s - 1, ids)

\* Every comment lists the whole stage below it, and so does the one a writer is about
\* to post; the comments it took for its stage are the parts of it.
LinkInv ==
  /\ \A i \in DOMAIN comments : Lists(comments[i].receipt, comments[i].stage, comments[i].refs)
  /\ writer # NoReceipt =>
       /\ Lists(writer, stage, refs)
       /\ \A p \in 1..Len(posted) : posted[p] \in Parts(writer, stage, p)

\* A list of all parts of a stage stays one.
LEMMA ListsGrow ==
  ASSUME TypeOK, [Next]_vars, NEW r, NEW s, NEW ids, Lists(r, s, ids)
  PROVE  Lists(r, s, ids)'
<1>1. \A t, p : Parts(r, t, p) \subseteq Parts(r, t, p)'
  BY PartsGrow
<1> QED
  BY <1>1 DEF Lists, Whole, Count, SealStage

\* A posted part that lists what its writer had is a part like the others.
LEMMA CommentsLink ==
  ASSUME TypeOK, LinkInv, [Next]_vars, NEW i \in DOMAIN comments'
  PROVE  Lists(comments[i].receipt, comments[i].stage, comments[i].refs)'
<1>1. CASE i \in DOMAIN comments /\ comments'[i] = comments[i]
  <2>1. Lists(comments[i].receipt, comments[i].stage, comments[i].refs)
    BY <1>1 DEF LinkInv
  <2> DEFINE c == comments[i]
  <2>2. PICK r, s, ids : r = c.receipt /\ s = c.stage /\ ids = c.refs
    OBVIOUS
  <2>3. Lists(r, s, ids)
    BY <2>1, <2>2
  <2> HIDE DEF c
  <2>4. Lists(r, s, ids)'
    BY <2>3, ListsGrow
  <2> QED
    BY <2>4, <2>2, <1>1 DEF c
<1>2. CASE writer \in Receipts /\ Posted
  <2>1. /\ Len(comments) \in Nat /\ DOMAIN comments' = 1..(Len(comments) + 1)
        /\ DOMAIN comments = 1..Len(comments)
        /\ comments'[Len(comments) + 1] = NextComment
        /\ \A j \in DOMAIN comments : comments'[j] = comments[j]
    BY <1>2, Posting DEF Posted
  <2>2. CASE i \in DOMAIN comments
    BY <1>1, <2>1, <2>2
  <2>3. CASE i = Len(comments) + 1
    <3>1. writer # NoReceipt
      BY <1>2, EvidenceAssumption
    <3>2. PICK r, s, ids : r = writer /\ s = stage /\ ids = refs
      OBVIOUS
    <3>3. Lists(r, s, ids)'
      BY <3>1, <3>2, ListsGrow DEF LinkInv
    <3>4. comments'[i].receipt = r /\ comments'[i].stage = s /\ comments'[i].refs = ids
      BY <2>1, <2>3, <3>2 DEF NextComment
    <3> QED
      BY <3>3, <3>4
  <2> QED
    BY <2>1, <2>2, <2>3
<1>3. CASE Kept
  BY <1>1, <1>3 DEF Kept
<1> QED
  BY <1>2, <1>3, PostsOnce

\* With one more part retained, the writer has the right parts and the right list.
LEMMA WriterLinkAdvances ==
  ASSUME TypeOK, LinkInv, [Next]_vars, writer \in Receipts, NEW i, Advance(i),
         NEW r, NEW s, NEW m, r = writer, s = stage, m = Len(posted) + 1,
         i \in Parts(r, s, m)', writer' # NoReceipt
  PROVE  /\ Lists(writer, stage, refs)'
         /\ \A p \in 1..Len(posted') : posted'[p] \in Parts(writer, stage, p)'
<1>1. writer # NoReceipt
  BY EvidenceAssumption
<1>2. posted \in Seq(DOMAIN comments) /\ Len(posted) \in Nat
  BY DEF TypeOK
<1>3. s \in 1..SealStage(r) /\ SealStage(r) \in Nat
  BY <1>1, Sizes DEF TypeOK
<1>4. \A p \in 1..Len(posted) : posted[p] \in Parts(r, s, p)'
  BY <1>1, PartsGrow DEF LinkInv
<1>5. PICK ids : ids = Append(posted, i)
  OBVIOUS
<1>6. /\ Len(ids) = m
      /\ \A p \in 1..Len(ids) : ids[p] \in Parts(r, s, p)'
  <2>1. Len(ids) = m /\ ids[m] = i /\ \A p \in 1..Len(posted) : ids[p] = posted[p]
    BY <1>2, <1>5
  <2>2. \A p \in 1..m : p \in 1..Len(posted) \/ p = m
    BY <1>2
  <2> QED
    BY <2>1, <2>2, <1>4
<1>7. CASE posted' = ids /\ UNCHANGED <<writer, stage, refs>>
  <2>1. PICK below : below = refs
    OBVIOUS
  <2>2. Lists(r, s, below)'
    BY <1>1, <2>1, ListsGrow DEF LinkInv
  <2> QED
    BY <1>6, <1>7, <2>1, <2>2
<1>8. CASE /\ Len(posted) + 1 = Count(writer, stage)
           /\ stage' = stage + 1 /\ posted' = <<>> /\ refs' = ids /\ UNCHANGED writer
  <2>1. Whole(r, s, ids)'
    BY <1>6, <1>8 DEF Whole, Count, SealStage
  <2>2. s + 1 # 1 /\ (s + 1) - 1 = s
    BY <1>3
  <2>3. Lists(r, s + 1, ids)'
    BY <2>1, <2>2 DEF Lists
  <2> QED
    BY <1>8, <2>3
<1> QED
  BY <1>5, <1>7, <1>8, Advancing

\* Every step keeps the lists right.
LEMMA LinkInvStep ==
  ASSUME TypeOK, LinkInv, [Next]_vars
  PROVE  LinkInv'
<1>1. \A i \in DOMAIN comments' : Lists(comments[i].receipt, comments[i].stage, comments[i].refs)'
  BY CommentsLink
<1>2. ASSUME writer' # NoReceipt
      PROVE  /\ Lists(writer, stage, refs)'
             /\ \A p \in 1..Len(posted') : posted'[p] \in Parts(writer, stage, p)'
  <2>1. PICK r, s, m : r = writer /\ s = stage /\ m = Len(posted) + 1
    OBVIOUS
  <2>2. CASE PostPart
    <3>1. writer \in Receipts /\ Posted /\ Advance(Len(comments) + 1)
      BY <2>2 DEF PostPart, Posted, TypeOK
    <3>2. Len(comments) + 1 \in Parts(r, s, m)'
      BY <2>1, <3>1, Posting DEF Posted, NextComment, Parts
    <3> QED
      BY <1>2, <2>1, <3>1, <3>2, WriterLinkAdvances
  <2>3. CASE ReusePart
    <3>1. writer \in Receipts
      BY <2>3 DEF ReusePart, TypeOK
    <3>2. PICK i \in Parts(r, s, m) : Advance(i) \/ End
      BY <2>1, <2>3 DEF ReusePart, Found
    <3>3. Advance(i)
      BY <1>2, <3>2 DEF End
    <3>4. i \in Parts(r, s, m)'
      BY <3>2, PartsGrow
    <3> QED
      BY <1>2, <2>1, <3>1, <3>3, <3>4, WriterLinkAdvances
  <2>4. CASE \E q \in Receipts : Start(q)
    <3>1. stage' = 1 /\ refs' = <<>> /\ posted' = <<>>
      BY <2>4 DEF Start
    <3>2. Len(<<>>) = 0
      OBVIOUS
    <3> QED
      BY <3>1, <3>2 DEF Lists
  <2>5. CASE UNCHANGED vars
    BY <1>2, <2>5 DEF vars, run, LinkInv, Lists, Whole, Parts, Count, SealStage
  <2>6. CASE PostPartLost \/ Interrupt
    BY <1>2, <2>6 DEF PostPartLost, Interrupt, End
  <2> QED
    BY <2>2, <2>3, <2>4, <2>5, <2>6 DEF Next
<1> QED
  BY <1>1, <1>2 DEF LinkInv

\* The receipts' comments are well-formed, agree, and list what they should.
LinkedInv == EInv /\ LinkInv

\* The lists are always right.
THEOREM EvidenceLinks == Spec => []LinkedInv
<1>1. Init => LinkInv
  BY DEF Init, LinkInv
<1>2. TypeOK /\ LinkInv /\ [Next]_vars => LinkInv'
  BY LinkInvStep
<1>3. EInv => TypeOK
  BY DEF EInv
<1> QED
  BY <1>1, <1>2, <1>3, EvidenceInvariant, PTL DEF Spec, LinkedInv

\* A part that is there is there once, so two lists of a whole stage are the same list.
LEMMA WholeIsUnique ==
  ASSUME NoDuplicateParts, NEW r, NEW s, NEW a \in Seq(Nat), NEW b \in Seq(Nat),
         Whole(r, s, a), Whole(r, s, b)
  PROVE  a = b
<1>1. Len(a) = Len(b)
  BY DEF Whole
<1>2. ASSUME NEW p \in 1..Len(a) PROVE a[p] = b[p]
  <2>1. a[p] \in Parts(r, s, p) /\ b[p] \in Parts(r, s, p)
    BY <1>1 DEF Whole
  <2> QED
    BY <2>1 DEF NoDuplicateParts, Parts
<1> QED
  BY <1>1, <1>2

\* Counting down: what holds at the top and passes from each stage to the one below
\* holds of all.
LessThan == {p \in Nat \X Nat : p[1] < p[2]}

LEMMA LeastElement ==
  ASSUME NEW T, T \subseteq Nat, T # {}
  PROVE  \E x \in T : \A y \in T : x <= y
<1>1. OpToRel(<, Nat) = LessThan
  BY DEF OpToRel, LessThan
<1>2. IsWellFoundedOn(LessThan, Nat)
  BY <1>1, NatLessThanWellFounded
<1>3. PICK x \in T : \A y \in T : ~(<<y, x>> \in LessThan)
  BY <1>2, WFMin
<1>4. ASSUME NEW y \in T PROVE x <= y
  <2>1. x \in Nat /\ y \in Nat
    OBVIOUS
  <2>2. <<y, x>> \in Nat \X Nat /\ <<y, x>>[1] = y /\ <<y, x>>[2] = x
    BY <2>1
  <2>3. ~(y < x)
    BY <1>3, <2>2 DEF LessThan
  <2> QED
    BY <2>1, <2>3
<1> QED
  BY <1>3, <1>4

LEMMA CountingDown ==
  ASSUME NEW K \in Nat, NEW S, K \in S, \A s \in 1..(K - 1) : s + 1 \in S => s \in S
  PROVE  1..K \subseteq S
<1> DEFINE T == {d \in 0..(K - 1) : K - d \notin S}
<1>1. CASE T = {}
  <2> SUFFICES ASSUME NEW s \in 1..K PROVE s \in S
    OBVIOUS
  <2>1. K - s \in 0..(K - 1) /\ K - (K - s) = s
    OBVIOUS
  <2> QED
    BY <1>1, <2>1
<1>2. CASE T # {}
  <2>1. PICK d \in T : \A e \in T : d <= e
    <3>1. T \subseteq Nat
      OBVIOUS
    <3> HIDE DEF T
    <3> QED
      BY <1>2, <3>1, LeastElement
  <2>2. d # 0
    OBVIOUS
  <2>3. d - 1 \in 0..(K - 1) /\ d - 1 \notin T
    BY <2>1, <2>2
  <2>4. K - (d - 1) \in S
    BY <2>3
  <2>5. K - d \in 1..(K - 1) /\ (K - d) + 1 = K - (d - 1)
    BY <2>1, <2>2
  <2> QED
    BY <2>1, <2>4, <2>5
<1> QED
  BY <1>1, <1>2

\* The lists that the levels of r's index hold, read downwards from the seal i.
Levels(r, i, layer) ==
  layer = [s \in 1..SealStage(r) |->
             IF s = SealStage(r) THEN <<i>> ELSE comments[layer[s + 1][1]].refs]

\* A seal is the only part of its stage, and everything below it is there.
LEMMA SealIsWhole ==
  ASSUME LinkedInv, NEW i \in Seals
  PROVE  LET r == comments[i].receipt
         IN  /\ r \in Receipts
             /\ i \in Parts(r, SealStage(r), 1)
             /\ Whole(r, SealStage(r), <<i>>)
             /\ Below(r, SealStage(r))
<1> DEFINE r == comments[i].receipt
<1>1. i \in DOMAIN comments /\ comments[i].stage = SealStage(r)
  BY DEF Seals
<1>2. comments[i] \in Comment /\ comments[i].part \in 1..Count(r, SealStage(r))
  BY <1>1 DEF LinkedInv, EInv, TypeOK
<1>3. r \in Receipts
  BY <1>2 DEF Comment
<1>4. SealStage(r) \in Nat /\ SealStage(r) >= 3
  BY <1>3, Sizes
<1>5. Count(r, SealStage(r)) = 1
  BY <1>4 DEF Count
<1>6. comments[i].part = 1
  BY <1>2, <1>5
<1>7. i \in Parts(r, SealStage(r), 1)
  BY <1>1, <1>6 DEF Parts
<1>8. Whole(r, SealStage(r), <<i>>)
  BY <1>5, <1>7 DEF Whole
<1>9. Below(r, SealStage(r))
  BY <1>3, <1>4, <1>5, <1>7 DEF LinkedInv, EInv, BelowInv
<1> QED
  BY <1>3, <1>7, <1>8, <1>9

\* What a part above the first stage lists is the whole stage below it.
LEMMA PartLists ==
  ASSUME LinkedInv, NEW r \in Receipts, NEW s \in 1..SealStage(r), NEW p, NEW j \in Parts(r, s, p)
  PROVE  /\ comments[j].refs \in Seq(Nat)
         /\ IF s = 1 THEN comments[j].refs = <<>> ELSE Whole(r, s - 1, comments[j].refs)
<1>1. j \in DOMAIN comments /\ comments[j].receipt = r /\ comments[j].stage = s
  BY DEF Parts
<1>2. comments[j] \in Comment
  BY <1>1 DEF LinkedInv, EInv, TypeOK
<1>3. comments[j].refs \in Seq(Nat)
  BY <1>2 DEF Comment
<1>4. Lists(comments[j].receipt, comments[j].stage, comments[j].refs)
  BY <1>1 DEF LinkedInv, LinkInv
<1> QED
  BY <1>1, <1>3, <1>4 DEF Lists

\* A whole stage begins with its first part.
LEMMA WholeBegins ==
  ASSUME NEW r \in Receipts, NEW s \in 1..SealStage(r), NEW ids, Whole(r, s, ids)
  PROVE  ids[1] \in Parts(r, s, 1)
BY Sizes DEF Whole

\* Reading downwards from a seal is possible.
LEMMA LevelsExist ==
  ASSUME LinkedInv, NEW i \in Seals
  PROVE  \E layer : Levels(comments[i].receipt, i, layer)
<1> DEFINE r == comments[i].receipt
           K == SealStage(r)
           first(s) == CHOOSE j : j \in Parts(r, s, 1)
           layer == [s \in 1..K |-> IF s = K THEN <<i>> ELSE comments[first(s + 1)].refs]
<1>1. /\ r \in Receipts /\ i \in Parts(r, K, 1)
      /\ Whole(r, K, <<i>>) /\ Below(r, K)
  BY SealIsWhole
<1>2. K \in Nat /\ K >= 3 /\ \A s \in 1..K : Count(r, s) \in Nat /\ Count(r, s) >= 1
  BY <1>1, Sizes
<1>3. \A s \in 1..K : first(s) \in Parts(r, s, 1)
  <2> SUFFICES ASSUME NEW s \in 1..K PROVE Parts(r, s, 1) # {}
    OBVIOUS
  <2>1. CASE s = K
    BY <1>1, <2>1
  <2>2. CASE s # K
    <3>1. s \in 1..(K - 1) /\ 1 \in 1..Count(r, s)
      BY <1>2, <2>2
    <3> QED
      BY <1>1, <3>1 DEF Below
  <2> QED
    BY <2>1, <2>2
<1>4. ASSUME NEW s \in 1..K PROVE Whole(r, s, layer[s])
  <2>1. CASE s = K
    BY <1>1, <2>1
  <2>2. CASE s # K
    <3>1. s + 1 \in 1..K /\ s + 1 # 1 /\ (s + 1) - 1 = s
      BY <1>2, <2>2
    <3>2. Whole(r, s, comments[first(s + 1)].refs)
      BY <1>1, <1>3, <3>1, PartLists
    <3> QED
      BY <2>2, <3>2
  <2> QED
    BY <2>1, <2>2
<1>5. ASSUME NEW s \in 1..K PROVE layer[s][1] = first(s)
  <2>1. layer[s][1] \in Parts(r, s, 1)
    BY <1>1, <1>4, WholeBegins
  <2>2. first(s) \in Parts(r, s, 1)
    BY <1>3
  <2> QED
    BY <2>1, <2>2 DEF Parts, LinkedInv, EInv, NoDuplicateParts
<1>6. ASSUME NEW s \in 1..K
      PROVE  layer[s] = IF s = K THEN <<i>> ELSE comments[layer[s + 1][1]].refs
  <2>1. CASE s = K
    BY <2>1
  <2>2. CASE s # K
    <3>1. s + 1 \in 1..K
      BY <1>2, <2>2
    <3>2. layer[s + 1][1] = first(s + 1)
      BY <1>5, <3>1
    <3>3. layer[s] = comments[first(s + 1)].refs
      BY <2>2
    <3> HIDE DEF layer, first
    <3> QED
      BY <2>2, <3>2, <3>3
  <2> QED
    BY <2>1, <2>2
<1>7. layer = [s \in 1..K |-> layer[s]]
  OBVIOUS
<1> HIDE DEF layer
<1>8. layer = [s \in 1..K |-> IF s = K THEN <<i>> ELSE comments[layer[s + 1][1]].refs]
  BY <1>6, <1>7
<1> QED
  BY <1>8 DEF Levels

\* Whatever it reads at a level is that whole level.
LEMMA LevelsAreWhole ==
  ASSUME LinkedInv, NEW i \in Seals, NEW layer, Levels(comments[i].receipt, i, layer),
         NEW s \in 1..SealStage(comments[i].receipt)
  PROVE  Whole(comments[i].receipt, s, layer[s]) /\ layer[s] \in Seq(Nat)
<1> DEFINE r == comments[i].receipt
           K == SealStage(r)
           Good == {t \in 1..K : Whole(r, t, layer[t]) /\ layer[t] \in Seq(Nat)}
<1>1. r \in Receipts /\ Whole(r, K, <<i>>)
  BY SealIsWhole
<1>2. K \in Nat /\ K >= 3
  BY <1>1, Sizes
<1>3. \A t \in 1..K : layer[t] = IF t = K THEN <<i>> ELSE comments[layer[t + 1][1]].refs
  BY DEF Levels
<1>4. i \in Nat
  BY DEF Seals, LinkedInv, EInv, TypeOK
<1>5. K \in Good
  <2>1. K \in 1..K /\ layer[K] = <<i>>
    BY <1>2, <1>3
  <2>2. <<i>> \in Seq(Nat)
    BY <1>4
  <2> QED
    BY <1>1, <2>1, <2>2
<1>6. ASSUME NEW t \in 1..(K - 1), t + 1 \in Good PROVE t \in Good
  <2>1. t \in 1..K /\ t + 1 \in 1..K /\ t # K /\ t + 1 # 1 /\ (t + 1) - 1 = t
    BY <1>2
  <2>2. layer[t] = comments[layer[t + 1][1]].refs
    BY <1>3, <2>1
  <2>3. layer[t + 1][1] \in Parts(r, t + 1, 1)
    BY <1>1, <1>6, <2>1, WholeBegins
  <2>4. Whole(r, t, layer[t]) /\ layer[t] \in Seq(Nat)
    BY <1>1, <2>1, <2>2, <2>3, PartLists
  <2> QED
    BY <2>1, <2>4
<1> HIDE DEF Good
<1>7. 1..K \subseteq Good
  BY <1>2, <1>5, <1>6, CountingDown
<1> QED
  BY <1>7 DEF Good

\* Reading downwards from a seal finds each level whole, and every part of it lists the
\* level below.
LEMMA SealLeads ==
  ASSUME LinkedInv, NEW i \in Seals
  PROVE  SealAssembles(i)
<1> DEFINE r == comments[i].receipt
           layer[s \in 1..SealStage(r)] ==
             IF s = SealStage(r) THEN <<i>> ELSE comments[layer[s + 1][1]].refs
<1>1. r \in Receipts
  BY SealIsWhole
<1>2. SealStage(r) \in Nat
  BY <1>1, Sizes
<1>3. layer = [s \in 1..SealStage(r) |->
                 IF s = SealStage(r) THEN <<i>> ELSE comments[layer[s + 1][1]].refs]
  <2>1. \E f : f = [s \in 1..SealStage(r) |->
                      IF s = SealStage(r) THEN <<i>> ELSE comments[f[s + 1][1]].refs]
    BY LevelsExist DEF Levels
  <2> QED
    BY <2>1
<1>4. Levels(r, i, layer)
  BY <1>3 DEF Levels
<1>5. SealAssembles(i) <=>
        \A s \in 1..SealStage(r) :
          Assembles(r, s, layer[s], IF s = 1 THEN <<>> ELSE layer[s - 1])
  BY DEF SealAssembles
<1> HIDE DEF layer
<1>6. ASSUME NEW s \in 1..SealStage(r)
      PROVE  Assembles(r, s, layer[s], IF s = 1 THEN <<>> ELSE layer[s - 1])
  <2>1. Whole(r, s, layer[s])
    BY <1>4, LevelsAreWhole
  <2>2. ASSUME NEW p \in 1..Len(layer[s])
        PROVE  comments[layer[s][p]].refs = IF s = 1 THEN <<>> ELSE layer[s - 1]
    <3>1. layer[s][p] \in Parts(r, s, p)
      BY <2>1 DEF Whole
    <3>2. CASE s = 1
      BY <1>1, <3>1, <3>2, PartLists
    <3>3. CASE s # 1
      <4>1. s - 1 \in 1..SealStage(r)
        BY <1>2, <3>3
      <4>2. Whole(r, s - 1, layer[s - 1]) /\ layer[s - 1] \in Seq(Nat)
        BY <1>4, <4>1, LevelsAreWhole
      <4>3. Whole(r, s - 1, comments[layer[s][p]].refs) /\ comments[layer[s][p]].refs \in Seq(Nat)
        BY <1>1, <3>1, <3>3, PartLists
      <4> QED
        BY <3>3, <4>2, <4>3, WholeIsUnique DEF LinkedInv, EInv
    <3> QED
      BY <3>2, <3>3
  <2> QED
    BY <2>1, <2>2 DEF Assembles, Whole
<1> QED
  BY <1>5, <1>6

\* Every seal leads through its indexes to all parts of its reports, so that a reader
\* (_index_parts, _assemble) never fails on one.
THEOREM SealsLeadToReceipts == Spec => []SealsAreComplete
<1>1. LinkedInv => SealsAreComplete
  BY SealLeads DEF SealsAreComplete
<1> QED
  BY EvidenceLinks, <1>1, PTL

\* The evidence can always be read, so that only a receipt that contradicts what is
\* posted is ever refused by retain_evidence.
THEOREM EvidenceIsReadable == Spec => []Readable
<1>1. LinkedInv => Readable
  BY SealLeads DEF LinkedInv, EInv, Readable
<1> QED
  BY EvidenceLinks, <1>1, PTL

\* A part that an earlier writer left is the part the next one would have posted.
RetriesAgree == writer # NoReceipt => \A i \in Found(Len(posted) + 1) : comments[i].refs = refs

\* A retry that finds parts of its receipt never takes them for another's: retaining a
\* receipt again can be interrupted but does not fail ("conflicting evidence").
THEOREM RetriesNeverConflict == Spec => []RetriesAgree
<1>1. LinkedInv => RetriesAgree
  <2> SUFFICES ASSUME LinkedInv, writer # NoReceipt, NEW i \in Found(Len(posted) + 1)
               PROVE  comments[i].refs = refs
    BY DEF RetriesAgree
  <2>1. /\ writer \in Receipts /\ stage \in 1..SealStage(writer)
        /\ refs \in Seq(DOMAIN comments) /\ DOMAIN comments \subseteq Nat
    BY DEF LinkedInv, EInv, TypeOK
  <2>2. refs \in Seq(Nat)
    BY <2>1
  <2>3. Lists(writer, stage, refs)
    BY DEF LinkedInv, LinkInv
  <2>4. i \in Parts(writer, stage, Len(posted) + 1)
    BY DEF Found
  <2>5. /\ comments[i].refs \in Seq(Nat)
        /\ IF stage = 1 THEN comments[i].refs = <<>> ELSE Whole(writer, stage - 1, comments[i].refs)
    BY <2>1, <2>4, PartLists
  <2>6. CASE stage = 1
    BY <2>3, <2>5, <2>6 DEF Lists
  <2>7. CASE stage # 1
    BY <2>2, <2>3, <2>5, <2>7, WholeIsUnique DEF Lists, LinkedInv, EInv
  <2> QED
    BY <2>6, <2>7
<1> QED
  BY EvidenceLinks, <1>1, PTL

(***************************************************************************)
(* The Updates gate.                                                       *)
(*                                                                         *)
(* What the gate holds to compare with is what production serves, unless   *)
(* someone put another deployment back since it last looked; and it goes   *)
(* on to upload only what passes that comparison.                          *)
(***************************************************************************)
LaneInv ==
  /\ lane.step # "none" => lane.candidate \in DeployedSites
  /\ lane.step \notin {"none", "manifest"} => lane.first \in Sites
  /\ lane.step \in {"artifact", "reread artifact"} => lane.second \in Sites
  /\ lane.step = "reread" => lane.baseline = lane.first.snapshot
  /\ lane.step = "reread artifact" => lane.baseline = lane.second.snapshot
  /\ lane.step \in {"compare", "upload"} /\ moved = FALSE => lane.baseline = served.snapshot
  /\ lane.step = "upload" => UpdatesPass(lane.baseline, lane.candidate.snapshot)

GateInv == GateTypeOK /\ LaneInv

\* Going on to a step changes nothing else of the lane.
LEMMA ToStepKeeps ==
  ASSUME lane \in Lanes, NEW step \in LaneSteps, ToStep(step)
  PROVE  /\ lane' \in Lanes /\ lane'.step = step
         /\ lane'.candidate = lane.candidate /\ lane'.first = lane.first
         /\ lane'.second = lane.second /\ lane'.baseline = lane.baseline
<1>1. PICK steps, baselines : steps = LaneSteps /\ baselines = {s.snapshot : s \in Sites} \cup {None}
  OBVIOUS
<1>2. lane \in [step : steps, candidate : DeployedSites \cup {None}, first : Sites \cup {None},
                second : Sites \cup {None}, baseline : baselines]
  BY <1>1 DEF Lanes
<1>3. /\ lane' \in [step : steps, candidate : DeployedSites \cup {None}, first : Sites \cup {None},
                    second : Sites \cup {None}, baseline : baselines]
      /\ lane'.step = step
      /\ lane'.candidate = lane.candidate /\ lane'.first = lane.first
      /\ lane'.second = lane.second /\ lane'.baseline = lane.baseline
  BY <1>1, <1>2 DEF ToStep
<1> QED
  BY <1>1, <1>3 DEF Lanes

\* A lane that is refused or done leaves nothing behind.
LEMMA RefuseEnds ==
  ASSUME Refuse
  PROVE  lane' \in Lanes /\ lane'.step = "none"
BY DEF Refuse, NoLane, Lanes, LaneSteps

\* What the steps that read production make of the lane.
LEMMA LaneReads ==
  ASSUME lane \in Lanes, served \in Sites
  PROVE  /\ ReadManifest =>
              /\ lane' \in Lanes /\ lane'.step \in {"again", "deployment"}
              /\ lane'.candidate = lane.candidate /\ lane'.first = served
         /\ FetchSnapshot => Refuse \/
              /\ lane' \in Lanes /\ lane'.step = "reread"
              /\ lane'.candidate = lane.candidate /\ lane'.first = lane.first
              /\ lane'.baseline = lane.first.snapshot
         /\ ReadAgain =>
              /\ lane' \in Lanes /\ lane'.step = "artifact"
              /\ lane'.candidate = lane.candidate /\ lane'.first = lane.first
              /\ lane'.second = served
         /\ DownloadArtifact /\ lane.second \in Sites => Refuse \/
              /\ lane' \in Lanes /\ lane'.step = "reread artifact"
              /\ lane'.candidate = lane.candidate /\ lane'.first = lane.first
              /\ lane'.second = lane.second /\ lane'.baseline = lane.second.snapshot
         /\ \A site \in DeployedSites : StartLane(site) =>
              lane' \in Lanes /\ lane'.step = "manifest" /\ lane'.candidate = site
<1>1. PICK steps, baselines : steps = LaneSteps /\ baselines = {s.snapshot : s \in Sites} \cup {None}
  OBVIOUS
<1> DEFINE L == [step : steps, candidate : DeployedSites \cup {None}, first : Sites \cup {None},
                 second : Sites \cup {None}, baseline : baselines]
<1>2. L = Lanes
  BY <1>1 DEF Lanes
<1>3. /\ {"none", "manifest", "again", "deployment", "reread", "artifact", "reread artifact"} \subseteq steps
      /\ \A s \in Sites : s.snapshot \in baselines
      /\ None \in baselines
  BY <1>1 DEF LaneSteps
<1>4. lane \in L
  BY <1>2
<1>5. ASSUME ReadManifest
      PROVE  /\ lane' \in L /\ lane'.step \in {"again", "deployment"}
             /\ lane'.candidate = lane.candidate /\ lane'.first = served
  BY <1>3, <1>4, <1>5 DEF ReadManifest
<1>6. ASSUME FetchSnapshot
      PROVE  \/ Refuse
             \/ /\ lane' \in L /\ lane'.step = "reread"
                /\ lane'.candidate = lane.candidate /\ lane'.first = lane.first
                /\ lane'.baseline = lane.first.snapshot
  BY <1>3, <1>4, <1>6 DEF FetchSnapshot
<1>7. ASSUME ReadAgain
      PROVE  /\ lane' \in L /\ lane'.step = "artifact"
             /\ lane'.candidate = lane.candidate /\ lane'.first = lane.first
             /\ lane'.second = served
  BY <1>3, <1>4, <1>7 DEF ReadAgain
<1>8. ASSUME DownloadArtifact, lane.second \in Sites
      PROVE  \/ Refuse
             \/ /\ lane' \in L /\ lane'.step = "reread artifact"
                /\ lane'.candidate = lane.candidate /\ lane'.first = lane.first
                /\ lane'.second = lane.second /\ lane'.baseline = lane.second.snapshot
  BY <1>3, <1>4, <1>8 DEF DownloadArtifact
<1>9. ASSUME NEW site \in DeployedSites, StartLane(site)
      PROVE  lane' \in L /\ lane'.step = "manifest" /\ lane'.candidate = site
  BY <1>3, <1>9 DEF StartLane, NoLane
<1> HIDE DEF L
<1> QED
  BY <1>2, <1>5, <1>6, <1>7, <1>8, <1>9

\* The variables besides the lane keep their types.
LEMMA RestTyped ==
  ASSUME GateTypeOK, LaneInv, [GateNext]_gateVars
  PROVE  /\ served' \in Sites /\ reached' \subseteq Sites /\ expired' \subseteq Sites
         /\ verified' \in Sites \cup {None}
         /\ moved' \in BOOLEAN
         /\ count' \in [lanes : 0..MaxUploads, byHand : 0..MaxByHand]
<1>1. count' \in [lanes : 0..MaxUploads, byHand : 0..MaxByHand]
  <2>1. count \in [lanes : 0..MaxUploads, byHand : 0..MaxByHand]
    BY DEF GateTypeOK
  <2>2. \/ count' = count
        \/ count.lanes < MaxUploads /\ count' = [count EXCEPT !.lanes = @ + 1]
        \/ count.byHand < MaxByHand /\ count' = [count EXCEPT !.byHand = @ + 1]
    BY DEF GateNext, gateVars, StartLane, ReadManifest, MatchDeployment, FetchSnapshot, Reread,
           ReadAgain, DownloadArtifact, RereadArtifact, CompareUpdates, UploadSite, UploadFails,
           VerifyUpload, PutBack, ArtifactExpires, Quiet, Elsewhere
  <2> QED
    BY <2>1, <2>2, GateAssumption
<1>2. moved' \in BOOLEAN
  BY DEF GateTypeOK, GateNext, gateVars, StartLane, ReadManifest, MatchDeployment, FetchSnapshot,
         Reread, ReadAgain, DownloadArtifact, RereadArtifact, CompareUpdates, UploadSite,
         UploadFails, VerifyUpload, PutBack, ArtifactExpires, Quiet, Elsewhere
<1>3. /\ \/ served' = served /\ reached' = reached
         \/ /\ lane.step = "upload"
            /\ served' = lane.candidate /\ reached' = reached \cup {lane.candidate}
         \/ served' \in reached /\ reached' = reached
      /\ expired' = expired \/ \E site \in reached : expired' = expired \cup {site}
      /\ verified' \in {verified, served}
  BY DEF GateNext, gateVars, StartLane, ReadManifest, MatchDeployment, FetchSnapshot, Reread,
         ReadAgain, DownloadArtifact, RereadArtifact, CompareUpdates, UploadSite, UploadFails,
         VerifyUpload, PutBack, ArtifactExpires, Quiet, Elsewhere, Lane
<1>4. lane.step = "upload" => lane.candidate \in Sites
  BY DEF LaneInv, Sites
<1>5. /\ served \in Sites /\ reached \subseteq Sites /\ expired \subseteq Sites
      /\ verified \in Sites \cup {None}
  BY DEF GateTypeOK
<1> QED
  BY <1>1, <1>2, <1>3, <1>4, <1>5

\* The lane goes on only over what it has just read.
LEMMA LaneStep ==
  ASSUME GateTypeOK, LaneInv, [GateNext]_gateVars
  PROVE  lane' \in Lanes /\ LaneInv'
<1>1. lane \in Lanes /\ served \in Sites /\ moved \in BOOLEAN
  BY DEF GateTypeOK
<1>2. ASSUME Refuse PROVE lane' \in Lanes /\ LaneInv'
  BY <1>2, RefuseEnds DEF LaneInv
<1>3. ASSUME NEW site \in DeployedSites, StartLane(site) PROVE lane' \in Lanes /\ LaneInv'
  BY <1>1, <1>3, LaneReads DEF LaneInv
<1>4. CASE ReadManifest
  <2>1. Lane("manifest")
    BY <1>4 DEF ReadManifest
  <2> QED
    BY <1>1, <1>4, <2>1, LaneReads DEF LaneInv, Lane
<1>5. CASE MatchDeployment
  <2>1. Lane("deployment") /\ (ToStep("snapshot") \/ Refuse)
    BY <1>5 DEF MatchDeployment
  <2>2. "snapshot" \in LaneSteps
    BY DEF LaneSteps
  <2>3. CASE ToStep("snapshot")
    BY <1>1, <2>1, <2>2, <2>3, ToStepKeeps DEF LaneInv, Lane
  <2> QED
    BY <1>2, <2>1, <2>3
<1>6. CASE FetchSnapshot
  <2>1. Lane("snapshot")
    BY <1>6 DEF FetchSnapshot
  <2>2. CASE ~Refuse
    BY <1>1, <1>6, <2>1, <2>2, LaneReads DEF LaneInv, Lane
  <2> QED
    BY <1>2, <2>2
<1>7. CASE Reread
  <2>1. /\ Lane("reread") /\ served' = served
        /\ \/ Refuse
           \/ /\ served = lane.first
              /\ ToStep("compare") \/ ToStep("again")
    BY <1>7 DEF Reread, StillServed, Elsewhere
  <2>2. "compare" \in LaneSteps /\ "again" \in LaneSteps
    BY DEF LaneSteps
  <2>3. CASE served = lane.first /\ ToStep("compare")
    BY <1>1, <2>1, <2>2, <2>3, ToStepKeeps DEF LaneInv, Lane
  <2>4. CASE ToStep("again")
    BY <1>1, <2>1, <2>2, <2>4, ToStepKeeps DEF LaneInv, Lane
  <2> QED
    BY <1>2, <2>1, <2>3, <2>4
<1>8. CASE ReadAgain
  <2>1. Lane("again")
    BY <1>8 DEF ReadAgain
  <2> QED
    BY <1>1, <1>8, <2>1, LaneReads DEF LaneInv, Lane
<1>9. CASE DownloadArtifact
  <2>1. Lane("artifact")
    BY <1>9 DEF DownloadArtifact
  <2>2. lane.second \in Sites
    BY <2>1 DEF LaneInv, Lane
  <2>3. CASE ~Refuse
    BY <1>1, <1>9, <2>1, <2>2, <2>3, LaneReads DEF LaneInv, Lane
  <2> QED
    BY <1>2, <2>3
<1>10. CASE RereadArtifact
  <2>1. /\ Lane("reread artifact") /\ served' = served
        /\ Refuse \/ (served = lane.second /\ ToStep("compare"))
    BY <1>10 DEF RereadArtifact, StillServed, Elsewhere
  <2>2. "compare" \in LaneSteps
    BY DEF LaneSteps
  <2>3. CASE served = lane.second /\ ToStep("compare")
    BY <1>1, <2>1, <2>2, <2>3, ToStepKeeps DEF LaneInv, Lane
  <2> QED
    BY <1>2, <2>1, <2>3
<1>11. CASE CompareUpdates
  <2>1. /\ Lane("compare") /\ served' = served /\ moved' = moved
        /\ \/ Refuse
           \/ UpdatesPass(lane.baseline, lane.candidate.snapshot) /\ ToStep("upload")
    BY <1>11 DEF CompareUpdates, Quiet, Elsewhere
  <2>2. "upload" \in LaneSteps
    BY DEF LaneSteps
  <2>3. CASE UpdatesPass(lane.baseline, lane.candidate.snapshot) /\ ToStep("upload")
    BY <1>1, <2>1, <2>2, <2>3, ToStepKeeps DEF LaneInv, Lane
  <2> QED
    BY <1>2, <2>1, <2>3
<1>12. CASE UploadSite
  <2>1. Lane("upload") /\ (ToStep("verify") \/ Refuse)
    BY <1>12 DEF UploadSite
  <2>2. "verify" \in LaneSteps
    BY DEF LaneSteps
  <2>3. CASE ToStep("verify")
    BY <1>1, <2>1, <2>2, <2>3, ToStepKeeps DEF LaneInv, Lane
  <2> QED
    BY <1>2, <2>1, <2>3
<1>13. CASE UploadFails \/ VerifyUpload
  BY <1>2, <1>13 DEF UploadFails, VerifyUpload
<1>14. ASSUME NEW site, PutBack(site) PROVE lane' \in Lanes /\ LaneInv'
  BY <1>1, <1>14 DEF PutBack, LaneInv
<1>15. ASSUME NEW site, ArtifactExpires(site) PROVE lane' \in Lanes /\ LaneInv'
  BY <1>1, <1>15 DEF ArtifactExpires, LaneInv
<1>16. CASE UNCHANGED gateVars
  BY <1>1, <1>16 DEF gateVars, LaneInv
<1> QED
  BY <1>3, <1>4, <1>5, <1>6, <1>7, <1>8, <1>9, <1>10, <1>11, <1>12, <1>13, <1>14, <1>15,
     <1>16 DEF GateNext

LEMMA GateInvInit == GateInit => GateInv
<1> SUFFICES ASSUME GateInit PROVE GateInv
  OBVIOUS
<1>1. lane = NoLane /\ lane \in Lanes
  BY DEF GateInit, NoLane, Lanes, LaneSteps
<1>2. LaneInv
  BY <1>1 DEF LaneInv, NoLane
<1>3. count \in [lanes : 0..MaxUploads, byHand : 0..MaxByHand]
  BY GateAssumption DEF GateInit
<1> QED
  BY <1>1, <1>2, <1>3 DEF GateInv, GateTypeOK, GateInit, Sites

\* Sites, lane and counts stay well-formed, and the gate compares with what it read last.
THEOREM GateInvariant == GateSpec => []GateInv
<1>1. GateInv /\ [GateNext]_gateVars => GateInv'
  BY RestTyped, LaneStep DEF GateInv, GateTypeOK
<1> QED
  BY GateInvInit, <1>1, PTL DEF GateSpec

\* No upload changes what production tells of an election without a new entry, however
\* the site of before was read (check-updates in the deploy lane).
THEOREM NoUploadIsSilent == GateSpec => NoSilentChange
<1> DEFINE EntriesKept == (lane.step = "upload" /\ served' # served /\ ~moved') =>
                             UpdatesPass(served.snapshot, served'.snapshot)
<1>1. GateInv /\ [GateNext]_gateVars => [EntriesKept]_gateVars
  <2> SUFFICES ASSUME GateInv, [GateNext]_gateVars, lane.step = "upload", served' # served, ~moved'
               PROVE  UpdatesPass(served.snapshot, served'.snapshot)
    OBVIOUS
  <2>1. UploadSite
    BY DEF GateNext, gateVars, StartLane, ReadManifest, MatchDeployment, FetchSnapshot, Reread,
           ReadAgain, DownloadArtifact, RereadArtifact, CompareUpdates, UploadFails,
           VerifyUpload, PutBack, ArtifactExpires, Quiet, Elsewhere, Lane
  <2>2. served' = lane.candidate /\ moved' = moved /\ moved \in BOOLEAN
    BY <2>1 DEF UploadSite, GateInv, GateTypeOK
  <2>3. lane.baseline = served.snapshot
    BY <2>2 DEF GateInv, LaneInv
  <2> QED
    BY <2>2, <2>3 DEF GateInv, LaneInv
<1> QED
  BY GateInvariant, <1>1, PTL DEF GateSpec, NoSilentChange

----------------------------------------------------------------------------
\* Records are equal that have the same fields with the same values.
LEMMA RecordsAgree ==
    ASSUME NEW r, NEW s, Record(r), Record(s), DOMAIN r = DOMAIN s,
           \A field \in DOMAIN r : r[field] = s[field]
    PROVE  r = s
  BY DEF Record

\* The files of a build; the status and the manifest are beside them.
BundleFiles == {"dataset", "tables", "consensus", "view", "validation", "provenance", "build",
          "notes", "guide", "screens"}

\* What is set aside of each file.
LEMMA NormalizedByFile ==
    ASSUME NEW f, BundleFiles \subseteq DOMAIN f
    PROVE  /\ DOMAIN NormalizedFiles(f) = DOMAIN f
           /\ NormalizedFiles(f).dataset = f.dataset
           /\ NormalizedFiles(f).tables = f.tables
           /\ NormalizedFiles(f).screens = f.screens
           /\ NormalizedFiles(f).consensus = NormalizedConsensus(f)
           /\ NormalizedFiles(f).view = [f.view EXCEPT !.time = Plain, !.commit = Plain]
           /\ NormalizedFiles(f).validation = [f.validation EXCEPT !.time = Plain]
           /\ NormalizedFiles(f).provenance =
                 [f.provenance EXCEPT !.time = Plain, !.consensus = NormalizedConsensus(f)]
           /\ NormalizedFiles(f).notes = [f.notes EXCEPT !.time = Plain, !.commit = Plain]
           /\ NormalizedFiles(f).guide = NormalizedGuide(f.guide)
           /\ NormalizedFiles(f).build = NormalizedBuild(f)
<1>1. /\ DOMAIN NormalizedData(f) = DOMAIN f
      /\ NormalizedData(f).dataset = f.dataset
      /\ NormalizedData(f).tables = f.tables
      /\ NormalizedData(f).screens = f.screens
      /\ NormalizedData(f).consensus = NormalizedConsensus(f)
      /\ NormalizedData(f).view = [f.view EXCEPT !.time = Plain, !.commit = Plain]
      /\ NormalizedData(f).validation = [f.validation EXCEPT !.time = Plain]
      /\ NormalizedData(f).provenance =
            [f.provenance EXCEPT !.time = Plain, !.consensus = NormalizedConsensus(f)]
      /\ NormalizedData(f).notes = [f.notes EXCEPT !.time = Plain, !.commit = Plain]
      /\ NormalizedData(f).guide = NormalizedGuide(f.guide)
      /\ NormalizedData(f).build = f.build
  BY DEF BundleFiles, NormalizedData
<1>2. \A name \in DOMAIN f \ {"build"} : NormalizedFiles(f)[name] = NormalizedData(f)[name]
  BY <1>1 DEF NormalizedFiles
<1>3. DOMAIN NormalizedFiles(f) = DOMAIN f /\ NormalizedFiles(f).build = NormalizedBuild(f)
  BY <1>1 DEF NormalizedFiles, BundleFiles
<1> QED BY <1>1, <1>2, <1>3 DEF BundleFiles

\* Where two records agree once two fields are set aside, they agree in all others.
LEMMA SetAside ==
    ASSUME NEW r, NEW s, NEW a, NEW b, NEW x,
           [r EXCEPT ![a] = x, ![b] = x] = [s EXCEPT ![a] = x, ![b] = x]
    PROVE  /\ DOMAIN r = DOMAIN s
           /\ \A field \in DOMAIN r \ {a, b} : r[field] = s[field]
<1> DEFINE R == [r EXCEPT ![a] = x, ![b] = x]
           S == [s EXCEPT ![a] = x, ![b] = x]
<1>1. DOMAIN R = DOMAIN r /\ \A field \in DOMAIN r \ {a, b} : R[field] = r[field] OBVIOUS
<1>2. DOMAIN S = DOMAIN s /\ \A field \in DOMAIN s \ {a, b} : S[field] = s[field] OBVIOUS
<1> QED BY <1>1, <1>2

\* A tree is the files and the status.
LEMMA TreeOf ==
    ASSUME NEW bundle, "status" \notin DOMAIN bundle.files
    PROVE  /\ DOMAIN Tree(bundle) = DOMAIN bundle.files \cup {"status"}
           /\ Tree(bundle)["status"] = bundle.status
           /\ \A f \in DOMAIN bundle.files : Tree(bundle)[f] = bundle.files[f]
  BY DEF Tree

\* It depends on nothing else.
LEMMA TreeOfParts ==
    ASSUME NEW b, NEW c, b.files = c.files, b.status = c.status
    PROVE  Tree(b) = Tree(c)
<1> DEFINE T(files, status) ==
      [f \in DOMAIN files \cup {"status"} |-> IF f = "status" THEN status ELSE files[f]]
<1>1. Tree(b) = T(b.files, b.status) /\ Tree(c) = T(c.files, c.status) BY DEF Tree
<1> HIDE DEF T
<1> QED BY <1>1

\* The files a build makes, those of the publication among them.
LEMMA BuiltFiles ==
    ASSUME NEW source, NEW shots
    PROVE  /\ DOMAIN Files(source, shots) = BundleFiles
           /\ Files(source, shots).screens = shots
           /\ DOMAIN DataFiles(source) = {"dataset", "tables", "consensus", "view", "validation", "provenance"}
           /\ \A name \in DOMAIN DataFiles(source) : Files(source, shots)[name] = DataFiles(source)[name]
  BY DEF Files, DataFiles, BundleFiles

\* A built bundle, part by part.
LEMMA BuiltBundle ==
    ASSUME NEW source, NEW version, NEW shots, NEW bundle, bundle = Bundle(source, version, shots)
    PROVE  /\ DOMAIN bundle = {"files", "status", "manifest"} /\ Record(bundle)
           /\ bundle.files = Files(source, shots) /\ DOMAIN bundle.files = BundleFiles
           /\ bundle.status = ReleaseStatus(source, version, BundleFiles \cup {"status", "manifest"})
           /\ Record(bundle.manifest)
           /\ DOMAIN bundle.manifest = {"version", "panel", "time", "hashes", "unhashed"}
           /\ bundle.manifest.version = version /\ bundle.manifest.panel = source.inputs.panel
           /\ bundle.manifest.time = source.time /\ bundle.manifest.unhashed = Unhashed
           /\ bundle.manifest.hashes = ArtifactHashes(bundle.files, bundle.status)
<1>1. /\ DOMAIN bundle = {"files", "status", "manifest"} /\ Record(bundle)
      /\ bundle.files = Files(source, shots)
      /\ bundle.status = ReleaseStatus(source, version, BundleFiles \cup {"status", "manifest"})
  BY BuiltFiles DEF Bundle, Record
<1>2. bundle.status.panel = source.inputs.panel
  BY <1>1 DEF ReleaseStatus
<1>3. bundle.manifest =
          [version |-> version, panel |-> source.inputs.panel, time |-> source.time,
           hashes |-> ArtifactHashes(bundle.files, bundle.status), unhashed |-> Unhashed]
  BY <1>1, <1>2, BuiltFiles DEF Bundle
<1>4. /\ Record(bundle.manifest)
      /\ DOMAIN bundle.manifest = {"version", "panel", "time", "hashes", "unhashed"}
      /\ bundle.manifest.version = version /\ bundle.manifest.panel = source.inputs.panel
      /\ bundle.manifest.time = source.time /\ bundle.manifest.unhashed = Unhashed
      /\ bundle.manifest.hashes = ArtifactHashes(bundle.files, bundle.status)
  BY <1>3 DEF Record
<1> QED BY <1>1, <1>4, BuiltFiles

\* What is hashed, and that it is what stands.
LEMMA HashedTree ==
    ASSUME NEW bundle, DOMAIN bundle.files = BundleFiles
    PROVE  ArtifactHashes(bundle.files, bundle.status)
             = [f \in (BundleFiles \cup {"status"}) \ {"screens"} |-> Tree(bundle)[f]]
<1> DEFINE pair == [files |-> bundle.files, status |-> bundle.status]
<1>1. Tree(pair) = Tree(bundle)
  <2>1. pair.files = bundle.files /\ pair.status = bundle.status OBVIOUS
  <2> HIDE DEF pair
  <2> QED BY <2>1, TreeOfParts
<1>2. DOMAIN Tree(bundle) = BundleFiles \cup {"status"}
  BY TreeOf DEF BundleFiles
<1>3. ArtifactHashes(bundle.files, bundle.status) = [f \in DOMAIN Tree(bundle) \ Unhashed |-> Tree(bundle)[f]]
  BY <1>1 DEF ArtifactHashes
<1> QED BY <1>2, <1>3 DEF Unhashed

\* The source a bundle says it was built of, if the inputs are those of another.
Later(source, bundle) ==
    [source EXCEPT !.commit = bundle.status.commit, !.time = bundle.status.time]

LEMMA LaterSource ==
    ASSUME GenuineAssumption, NEW source \in Genuine, NEW bundle
    PROVE  LET later == Later(source, bundle)
           IN  /\ later.commit = bundle.status.commit /\ later.time = bundle.status.time
               /\ later.inputs = source.inputs /\ later.history = source.history
  BY DEF GenuineAssumption, Later

\* The tree of what is compared.
LEMMA NormalizedTree ==
    ASSUME NEW bundle, DOMAIN bundle.files = BundleFiles
    PROVE  /\ \A f \in BundleFiles : Tree(Normalized(bundle))[f] = NormalizedFiles(bundle.files)[f]
           /\ Tree(Normalized(bundle))["status"] = [bundle.status EXCEPT !.time = Plain, !.commit = Plain]
<1> DEFINE n == Normalized(bundle)
<1>1. /\ n.files = NormalizedFiles(bundle.files)
      /\ n.status = [bundle.status EXCEPT !.time = Plain, !.commit = Plain]
  BY DEF Normalized
<1>2. DOMAIN n.files = BundleFiles
  BY <1>1, NormalizedByFile
<1> HIDE DEF n
<1>3. /\ \A f \in BundleFiles : Tree(n)[f] = n.files[f]
      /\ Tree(n)["status"] = n.status
  BY <1>2, TreeOf DEF BundleFiles
<1> QED BY <1>1, <1>3 DEF n

\* What the normalised trees of two bundles say of each other, file by file.
LEMMA ComparedFiles ==
    ASSUME NEW release, NEW production, SameContent(release, production),
           DOMAIN release.files = BundleFiles, DOMAIN production.files = BundleFiles,
           DOMAIN release.manifest.hashes = (BundleFiles \cup {"status"}) \ {"screens"}
    PROVE  /\ DOMAIN production.manifest.hashes = DOMAIN release.manifest.hashes
           /\ \A f \in BundleFiles \ {"screens"} :
                 NormalizedFiles(production.files)[f] = NormalizedFiles(release.files)[f]
  BY NormalizedTree DEF SameContent, BundleFiles

\* What they say of the status.
LEMMA ComparedStatus ==
    ASSUME NEW release, NEW production, SameContent(release, production),
           "status" \in DOMAIN release.manifest.hashes,
           BundleFiles \subseteq DOMAIN release.files, 
           "status" \notin DOMAIN release.files, "status" \notin DOMAIN production.files
    PROVE  [production.status EXCEPT !.time = Plain, !.commit = Plain]
             = [release.status EXCEPT !.time = Plain, !.commit = Plain]
<1>1. ASSUME NEW bundle, "status" \notin DOMAIN bundle.files
      PROVE  Tree(Normalized(bundle))["status"] = [bundle.status EXCEPT !.time = Plain, !.commit = Plain]
  <2>1. /\ Normalized(bundle).files = NormalizedFiles(bundle.files)
        /\ Normalized(bundle).status = [bundle.status EXCEPT !.time = Plain, !.commit = Plain]
    BY DEF Normalized
  <2>2. DOMAIN NormalizedFiles(bundle.files) = DOMAIN bundle.files
    BY DEF NormalizedFiles, NormalizedData
  <2> QED BY <1>1, <2>1, <2>2, TreeOf
<1> QED BY <1>1 DEF SameContent

\* A file of the production bundle, of which time and commit were set aside, is the one the
\* later source gives.
LEMMA ProductionFiles ==
    ASSUME NEW source, NEW shots, ~source.inputs.preliminary,
           NEW later, NEW commit, NEW time, later.commit = commit, later.time = time,
           later.inputs = source.inputs, later.history = source.history,
           NEW f,
           Record(f), DOMAIN f = BundleFiles,
           \A name \in {"consensus", "view", "validation", "provenance", "build", "notes", "guide"} :
               Record(f[name]),
           Record(f.build.hashes),
           \A name \in BundleFiles \ {"screens"} :
               NormalizedFiles(f)[name] = NormalizedFiles(Files(source, shots))[name],
           \A name \in {"consensus", "view", "validation", "provenance", "build"} : f[name].time = time,
           f.build.commit = commit, f.view.commit = commit,
           f.build.consensus = f.consensus, f.provenance.consensus = f.consensus,
           \A name \in DOMAIN f.build.hashes : name \in DOMAIN f /\ f[name] = f.build.hashes[name],
           f.notes.time = time, f.notes.commit = commit,
           f.guide.date = time, f.guide.commit = commit, f.consensus.races = time
    PROVE  f = Files(later, f.screens)
<1> DEFINE g == Files(source, shots)
           h == Files(later, f.screens)
<1>1. Links(later) = Links(source)
  BY DEF Links
<1>2. DOMAIN h = BundleFiles /\ Record(h) /\ h.screens = f.screens
  BY BuiltFiles DEF Files, Record, BundleFiles
<1>3. h.dataset = g.dataset /\ h.tables = g.tables
  BY DEF Files, DataFiles
<1>4. /\ h.consensus = [election |-> source.inputs.election, time |-> time, races |-> time, dataset |-> g.dataset]
      /\ h.view = [election |-> source.inputs.election, time |-> time, commit |-> commit,
                   panel |-> source.inputs.panel, facts |-> source.inputs.facts, links |-> Links(source)]
      /\ h.validation = [election |-> source.inputs.election, time |-> time]
      /\ h.provenance = [election |-> source.inputs.election, time |-> time, dataset |-> g.dataset,
                         consensus |-> h.consensus, inputs |-> source.inputs.facts]
      /\ h.build = [election |-> source.inputs.election, time |-> time, commit |-> commit,
                    consensus |-> h.consensus, inputs |-> source.inputs.facts, hashes |-> DataFiles(later)]
      /\ h.notes = [time |-> time, commit |-> commit, facts |-> source.inputs.facts,
                    history |-> source.history]
      /\ h.guide = [date |-> time, commit |-> commit, facts |-> source.inputs.facts,
                    links |-> Links(source)]
  BY <1>1 DEF Files, DataFiles
<1>5. /\ g.consensus = [election |-> source.inputs.election, time |-> source.time, races |-> source.time,
                        dataset |-> g.dataset]
      /\ g.view = [election |-> source.inputs.election, time |-> source.time, commit |-> source.commit,
                   panel |-> source.inputs.panel, facts |-> source.inputs.facts, links |-> Links(source)]
      /\ g.validation = [election |-> source.inputs.election, time |-> source.time]
      /\ g.provenance = [election |-> source.inputs.election, time |-> source.time, dataset |-> g.dataset,
                         consensus |-> g.consensus, inputs |-> source.inputs.facts]
      /\ g.build = [election |-> source.inputs.election, time |-> source.time, commit |-> source.commit,
                    consensus |-> g.consensus, inputs |-> source.inputs.facts, hashes |-> DataFiles(source)]
      /\ g.notes = [time |-> source.time, commit |-> source.commit, facts |-> source.inputs.facts,
                    history |-> source.history]
      /\ g.guide = [date |-> source.time, commit |-> source.commit, facts |-> source.inputs.facts,
                    links |-> Links(source)]
  BY DEF Files, DataFiles
<1>6. DOMAIN g = BundleFiles
  BY BuiltFiles
<1>7. DOMAIN DataFiles(source) = {"dataset", "tables", "consensus", "view", "validation", "provenance"}
  BY BuiltFiles
<1>8. /\ DOMAIN DataFiles(later) = {"dataset", "tables", "consensus", "view", "validation", "provenance"}
      /\ Record(DataFiles(later))
      /\ \A name \in DOMAIN DataFiles(later) : DataFiles(later)[name] = h[name]
  BY BuiltFiles DEF DataFiles, Record
<1>9. \A name \in BundleFiles \ {"screens"} : NormalizedFiles(f)[name] = NormalizedFiles(g)[name]
  OBVIOUS
<1> HIDE DEF g, h
<1>10. f.dataset = g.dataset /\ f.tables = g.tables
  BY <1>6, <1>9, NormalizedByFile DEF BundleFiles
<1>11. NormalizedConsensus(f) = NormalizedConsensus(g)
  <2>1. NormalizedFiles(f).consensus = NormalizedConsensus(f) BY NormalizedByFile
  <2>2. NormalizedFiles(g).consensus = NormalizedConsensus(g) BY <1>6, NormalizedByFile
  <2>3. NormalizedFiles(f).consensus = NormalizedFiles(g).consensus BY <1>9 DEF BundleFiles
  <2> QED BY <2>1, <2>2, <2>3
<1>12. [f.view EXCEPT !.time = Plain, !.commit = Plain] = [g.view EXCEPT !.time = Plain, !.commit = Plain]
  <2>1. NormalizedFiles(f).view = [f.view EXCEPT !.time = Plain, !.commit = Plain] BY NormalizedByFile
  <2>2. NormalizedFiles(g).view = [g.view EXCEPT !.time = Plain, !.commit = Plain]
    BY <1>6, NormalizedByFile
  <2>3. NormalizedFiles(f).view = NormalizedFiles(g).view BY <1>9 DEF BundleFiles
  <2> QED BY <2>1, <2>2, <2>3
<1>13. [f.validation EXCEPT !.time = Plain] = [g.validation EXCEPT !.time = Plain]
  <2>1. NormalizedFiles(f).validation = [f.validation EXCEPT !.time = Plain] BY NormalizedByFile
  <2>2. NormalizedFiles(g).validation = [g.validation EXCEPT !.time = Plain] BY <1>6, NormalizedByFile
  <2>3. NormalizedFiles(f).validation = NormalizedFiles(g).validation BY <1>9 DEF BundleFiles
  <2> QED BY <2>1, <2>2, <2>3
<1>14. [f.provenance EXCEPT !.time = Plain, !.consensus = NormalizedConsensus(f)]
         = [g.provenance EXCEPT !.time = Plain, !.consensus = NormalizedConsensus(g)]
  <2>1. NormalizedFiles(f).provenance = [f.provenance EXCEPT !.time = Plain, !.consensus = NormalizedConsensus(f)]
    BY NormalizedByFile
  <2>2. NormalizedFiles(g).provenance = [g.provenance EXCEPT !.time = Plain, !.consensus = NormalizedConsensus(g)]
    BY <1>6, NormalizedByFile
  <2>3. NormalizedFiles(f).provenance = NormalizedFiles(g).provenance BY <1>9 DEF BundleFiles
  <2> QED BY <2>1, <2>2, <2>3
<1>15. [f.notes EXCEPT !.time = Plain, !.commit = Plain] = [g.notes EXCEPT !.time = Plain, !.commit = Plain]
  <2>1. NormalizedFiles(f).notes = [f.notes EXCEPT !.time = Plain, !.commit = Plain] BY NormalizedByFile
  <2>2. NormalizedFiles(g).notes = [g.notes EXCEPT !.time = Plain, !.commit = Plain]
    BY <1>6, NormalizedByFile
  <2>3. NormalizedFiles(f).notes = NormalizedFiles(g).notes BY <1>9 DEF BundleFiles
  <2> QED BY <2>1, <2>2, <2>3
<1>16. NormalizedGuide(f.guide) = NormalizedGuide(g.guide)
  <2>1. NormalizedFiles(f).guide = NormalizedGuide(f.guide) BY NormalizedByFile
  <2>2. NormalizedFiles(g).guide = NormalizedGuide(g.guide) BY <1>6, NormalizedByFile
  <2>3. NormalizedFiles(f).guide = NormalizedFiles(g).guide BY <1>9 DEF BundleFiles
  <2> QED BY <2>1, <2>2, <2>3
<1>17. NormalizedBuild(f) = NormalizedBuild(g)
  <2>1. NormalizedFiles(f).build = NormalizedBuild(f) BY NormalizedByFile
  <2>2. NormalizedFiles(g).build = NormalizedBuild(g) BY <1>6, NormalizedByFile
  <2>3. NormalizedFiles(f).build = NormalizedFiles(g).build BY <1>9 DEF BundleFiles
  <2> QED BY <2>1, <2>2, <2>3
<1>18. f.dataset = h.dataset /\ f.tables = h.tables
  BY <1>3, <1>10
<1>19. f.consensus = h.consensus
  <2>1. [f.consensus EXCEPT !.time = Plain, !.races = Plain] = [g.consensus EXCEPT !.time = Plain, !.races = Plain]
    BY <1>11 DEF NormalizedConsensus
  <2>2. /\ DOMAIN f.consensus = DOMAIN g.consensus
        /\ \A k \in DOMAIN f.consensus \ {"time", "races"} : f.consensus[k] = g.consensus[k]
    BY <2>1, SetAside
  <2>3. Record(h.consensus) /\ DOMAIN h.consensus = DOMAIN f.consensus
    BY <2>2, <1>4, <1>5 DEF Record
  <2>4. \A k \in DOMAIN h.consensus : h.consensus[k] = f.consensus[k]
    BY <2>2, <1>4, <1>5
  <2> QED BY <2>3, <2>4, RecordsAgree
<1>20. f.view = h.view
  <2>1. [f.view EXCEPT !.time = Plain, !.commit = Plain] = [g.view EXCEPT !.time = Plain, !.commit = Plain]
    BY <1>12
  <2>2. /\ DOMAIN f.view = DOMAIN g.view
        /\ \A k \in DOMAIN f.view \ {"time", "commit"} : f.view[k] = g.view[k]
    BY <2>1, SetAside
  <2>3. Record(h.view) /\ DOMAIN h.view = DOMAIN f.view
    BY <2>2, <1>4, <1>5 DEF Record
  <2>4. \A k \in DOMAIN h.view : h.view[k] = f.view[k]
    BY <2>2, <1>4, <1>5
  <2> QED BY <2>3, <2>4, RecordsAgree
<1>21. f.validation = h.validation
  <2>1. [f.validation EXCEPT !.time = Plain] = [g.validation EXCEPT !.time = Plain]
    BY <1>13
  <2>2. /\ DOMAIN f.validation = DOMAIN g.validation
        /\ \A k \in DOMAIN f.validation \ {"time"} : f.validation[k] = g.validation[k]
    BY <2>1
  <2>3. Record(h.validation) /\ DOMAIN h.validation = DOMAIN f.validation
    BY <2>2, <1>4, <1>5 DEF Record
  <2>4. \A k \in DOMAIN h.validation : h.validation[k] = f.validation[k]
    BY <2>2, <1>4, <1>5
  <2> QED BY <2>3, <2>4, RecordsAgree
<1>22. f.provenance = h.provenance
  <2>1. [f.provenance EXCEPT !.time = Plain, !.consensus = NormalizedConsensus(f)]
          = [g.provenance EXCEPT !.time = Plain, !.consensus = NormalizedConsensus(g)]
    BY <1>14
  <2>2. /\ DOMAIN f.provenance = DOMAIN g.provenance
        /\ \A k \in DOMAIN f.provenance \ {"time", "consensus"} : f.provenance[k] = g.provenance[k]
    BY <2>1
  <2>3. Record(h.provenance) /\ DOMAIN h.provenance = DOMAIN f.provenance
    BY <2>2, <1>4, <1>5 DEF Record
  <2>4. \A k \in DOMAIN h.provenance : h.provenance[k] = f.provenance[k]
    BY <2>2, <1>4, <1>5, <1>19
  <2> QED BY <2>3, <2>4, RecordsAgree
<1>23. f.notes = h.notes
  <2>1. [f.notes EXCEPT !.time = Plain, !.commit = Plain] = [g.notes EXCEPT !.time = Plain, !.commit = Plain]
    BY <1>15
  <2>2. /\ DOMAIN f.notes = DOMAIN g.notes
        /\ \A k \in DOMAIN f.notes \ {"time", "commit"} : f.notes[k] = g.notes[k]
    BY <2>1, SetAside
  <2>3. Record(h.notes) /\ DOMAIN h.notes = DOMAIN f.notes
    BY <2>2, <1>4, <1>5 DEF Record
  <2>4. \A k \in DOMAIN h.notes : h.notes[k] = f.notes[k]
    BY <2>2, <1>4, <1>5
  <2> QED BY <2>3, <2>4, RecordsAgree
<1>24. f.guide = h.guide
  <2>1. [f.guide EXCEPT !.date = Plain, !.commit = Plain] = [g.guide EXCEPT !.date = Plain, !.commit = Plain]
    BY <1>16 DEF NormalizedGuide
  <2>2. /\ DOMAIN f.guide = DOMAIN g.guide
        /\ \A k \in DOMAIN f.guide \ {"date", "commit"} : f.guide[k] = g.guide[k]
    BY <2>1, SetAside
  <2>3. Record(h.guide) /\ DOMAIN h.guide = DOMAIN f.guide
    BY <2>2, <1>4, <1>5 DEF Record
  <2>4. \A k \in DOMAIN h.guide : h.guide[k] = f.guide[k]
    BY <2>2, <1>4, <1>5
  <2> QED BY <2>3, <2>4, RecordsAgree
<1>25. f.build = h.build
  <2>1. [f.build EXCEPT !.time = Plain, !.commit = Plain, !.consensus = NormalizedConsensus(f),
            !.hashes = [name \in DOMAIN f.build.hashes |-> NormalizedData(f)[name]]]
          = [g.build EXCEPT !.time = Plain, !.commit = Plain, !.consensus = NormalizedConsensus(g),
            !.hashes = [name \in DOMAIN g.build.hashes |-> NormalizedData(g)[name]]]
    BY <1>17 DEF NormalizedBuild
  <2> DEFINE F == [name \in DOMAIN f.build.hashes |-> NormalizedData(f)[name]]
             G == [name \in DOMAIN g.build.hashes |-> NormalizedData(g)[name]]
  <2>0. DOMAIN F = DOMAIN f.build.hashes /\ DOMAIN G = DOMAIN g.build.hashes OBVIOUS
  <2> HIDE DEF F, G
  <2>2. /\ DOMAIN f.build = DOMAIN g.build
        /\ \A k \in DOMAIN f.build \ {"time", "commit", "consensus", "hashes"} : f.build[k] = g.build[k]
        /\ "hashes" \in DOMAIN g.build => F = G
    BY <2>1 DEF F, G
  <2>3. Record(h.build) /\ DOMAIN h.build = DOMAIN f.build
    BY <2>2, <1>4, <1>5 DEF Record
  <2>4. DOMAIN f.build.hashes = DOMAIN DataFiles(later)
    BY <2>0, <2>2, <1>5, <1>7, <1>8
  <2>5. \A name \in DOMAIN f.build.hashes : f.build.hashes[name] = DataFiles(later)[name]
    BY <2>4, <1>8, <1>18, <1>19, <1>20, <1>21, <1>22
  <2>6. f.build.hashes = DataFiles(later)
    BY <2>4, <2>5, <1>8, RecordsAgree
  <2>7. \A k \in DOMAIN h.build : h.build[k] = f.build[k]
    BY <2>2, <2>6, <1>4, <1>5, <1>19
  <2> QED BY <2>3, <2>7, RecordsAgree
<1>26. \A name \in BundleFiles : f[name] = h[name]
  BY <1>2, <1>18, <1>19, <1>20, <1>21, <1>22, <1>23, <1>24, <1>25 DEF BundleFiles
<1> QED BY <1>2, <1>26, RecordsAgree DEF h

\* What the status and the manifest of a built bundle say.
LEMMA BuiltStatus ==
    ASSUME NEW source, NEW version, NEW shots, NEW bundle, bundle = Bundle(source, version, shots)
    PROVE  /\ bundle.status.included = BundleFiles \cup {"status", "manifest"}
           /\ bundle.status.version = version
           /\ bundle.status.commit = source.commit /\ bundle.status.time = source.time
           /\ bundle.status.panel = source.inputs.panel
           /\ DOMAIN bundle.manifest.hashes = (BundleFiles \cup {"status"}) \ {"screens"}
           /\ \A f \in DOMAIN bundle.manifest.hashes : bundle.manifest.hashes[f] = Tree(bundle)[f]
<1>1. bundle.status = ReleaseStatus(source, version, BundleFiles \cup {"status", "manifest"})
  BY BuiltBundle
<1>2. bundle.manifest.hashes = [f \in (BundleFiles \cup {"status"}) \ {"screens"} |-> Tree(bundle)[f]]
  <2>1. DOMAIN bundle.files = BundleFiles /\ bundle.manifest.hashes = ArtifactHashes(bundle.files, bundle.status)
    BY BuiltBundle
  <2> QED BY <2>1, HashedTree
<1> QED BY <1>1, <1>2 DEF ReleaseStatus

\* A status that agrees with a built one but for commit and time is that of the later source.
LEMMA ProductionStatus ==
    ASSUME NEW source, NEW later, later.inputs = source.inputs, NEW version, NEW included,
           NEW r, r = ReleaseStatus(source, version, included),
           NEW s, Record(s), s.commit = later.commit, s.time = later.time,
           DOMAIN s = DOMAIN r, \A k \in DOMAIN r \ {"time", "commit"} : s[k] = r[k]
    PROVE  /\ s = ReleaseStatus(later, version, included)
           /\ s.version = version /\ s.included = included /\ s.panel = source.inputs.panel
<1> DEFINE status == ReleaseStatus(later, version, included)
<1>1. Record(status) /\ DOMAIN status = DOMAIN r
  BY DEF ReleaseStatus, Record
<1>2. \A k \in DOMAIN r \ {"time", "commit"} : status[k] = r[k]
  BY DEF ReleaseStatus
<1>3. status.time = s.time /\ status.commit = s.commit
  BY DEF ReleaseStatus
<1>4. status.version = version /\ status.included = included /\ status.panel = source.inputs.panel
  BY DEF ReleaseStatus
<1> HIDE DEF status
<1>5. s = status
  BY <1>1, <1>2, <1>3, RecordsAgree
<1> QED BY <1>4, <1>5 DEF status

\* What passes is a rebuild: nothing else hides behind what was set aside.
LEMMA PassedIsRebuilt ==
    ASSUME BundlesAssumption, GenuineAssumption, NEW source \in Genuine,
           NEW release \in Bundles, NEW production \in Bundles, NEW commits,
           BuiltAs(release, source, release.status.version), ~source.inputs.preliminary,
           LineagePasses(release, production, commits)
    PROVE  Rebuilt(production, source) /\ production.status.version = release.status.version
<1> DEFINE version == release.status.version
           later == Later(source, production)
           built == Bundle(later, version, production.files.screens)
<1>1. PICK shots \in Shots : release = Bundle(source, version, shots)
  BY DEF BuiltAs
<1>2. /\ DOMAIN release.files = BundleFiles /\ release.files = Files(source, shots)
      /\ DOMAIN release.manifest.hashes = (BundleFiles \cup {"status"}) \ {"screens"}
  BY <1>1, BuiltBundle, BuiltStatus
<1>3. /\ Record(production) /\ DOMAIN production = {"files", "status", "manifest"}
      /\ Record(production.status) /\ Record(production.manifest) /\ Record(production.manifest.hashes)
      /\ Record(production.files) /\ DOMAIN production.files \cap {"status", "manifest"} = {}
      /\ \A f \in DOMAIN production.files \cap
                    {"consensus", "view", "validation", "provenance", "build", "notes", "guide"} :
              Record(production.files[f])
      /\ "build" \in DOMAIN production.files => Record(production.files.build.hashes)
  BY DEF BundlesAssumption
<1>4. [production.status EXCEPT !.time = Plain, !.commit = Plain]
         = [release.status EXCEPT !.time = Plain, !.commit = Plain]
  BY <1>2, <1>3, ComparedStatus DEF LineagePasses, BundleFiles
<1>5. /\ production.status = ReleaseStatus(later, version, BundleFiles \cup {"status", "manifest"})
      /\ production.status.version = version
      /\ production.status.included = BundleFiles \cup {"status", "manifest"}
      /\ production.status.panel = source.inputs.panel
  <2>1. release.status = ReleaseStatus(source, version, BundleFiles \cup {"status", "manifest"})
    BY <1>1, BuiltBundle
  <2>2. /\ later.inputs = source.inputs
        /\ later.commit = production.status.commit /\ later.time = production.status.time
    BY LaterSource
  <2>3. /\ DOMAIN production.status = DOMAIN release.status
        /\ \A k \in DOMAIN release.status \ {"time", "commit"} : production.status[k] = release.status[k]
    BY <1>4, SetAside
  <2> DEFINE included == BundleFiles \cup {"status", "manifest"}
             r == release.status  s == production.status
  <2>4. /\ r = ReleaseStatus(source, version, included) /\ Record(s)
        /\ s.commit = later.commit /\ s.time = later.time /\ later.inputs = source.inputs
        /\ DOMAIN s = DOMAIN r /\ \A k \in DOMAIN r \ {"time", "commit"} : s[k] = r[k]
    BY <2>1, <2>2, <2>3, <1>3
  <2> HIDE DEF later, version, included, r, s
  <2>5. /\ s = ReleaseStatus(later, version, included)
        /\ s.version = version /\ s.included = included /\ s.panel = source.inputs.panel
    BY <2>4, ProductionStatus
  <2> QED BY <2>5 DEF included, s
<1>6. DOMAIN production.files = BundleFiles
  BY <1>3, <1>5 DEF LineagePasses, Loads, Present, BundleFiles
<1>7. /\ DOMAIN production.manifest.hashes = (BundleFiles \cup {"status"}) \ {"screens"}
      /\ \A f \in BundleFiles \ {"screens"} :
            NormalizedFiles(production.files)[f] = NormalizedFiles(release.files)[f]
  BY <1>2, <1>6, ComparedFiles DEF LineagePasses
<1>8. production.files = Files(later, production.files.screens)
  <2> DEFINE f == production.files
             commit == production.status.commit
             time == production.status.time
  <2>1. /\ \A name \in {"consensus", "view", "validation", "provenance", "build"} : f[name].time = time
        /\ f.build.commit = commits[2] /\ f.view.commit = commits[2]
        /\ f.build.consensus = f.consensus /\ f.provenance.consensus = f.consensus
        /\ \A name \in DOMAIN f.build.hashes : name \in DOMAIN f /\ f[name] = f.build.hashes[name]
    BY DEF LineagePasses, Loads, InternalIdentities
  <2>2. commits[2] = commit
    BY DEF LineagePasses, Loads
  <2>3. /\ f.notes.time = time /\ f.notes.commit = commit
        /\ f.guide.date = time /\ f.guide.commit = commit /\ f.consensus.races = time
    BY DEF LineagePasses, StatesItsBuild
  <2>4. /\ Record(f) /\ Record(f.build.hashes)
        /\ \A name \in {"consensus", "view", "validation", "provenance", "build", "notes", "guide"} :
               Record(f[name])
    BY <1>3, <1>6 DEF BundleFiles
  <2>5. \A name \in BundleFiles \ {"screens"} :
           NormalizedFiles(f)[name] = NormalizedFiles(Files(source, shots))[name]
    BY <1>2, <1>7
  <2>6. DOMAIN f = BundleFiles BY <1>6
  <2>7. f.build.commit = commit /\ f.view.commit = commit BY <2>1, <2>2
  <2>8. /\ later.inputs = source.inputs /\ later.history = source.history
        /\ later.commit = commit /\ later.time = time
    BY LaterSource
  <2> HIDE DEF f, commit, time, later
  <2>9. f = Files(later, f.screens)
    BY <2>1, <2>3, <2>4, <2>5, <2>6, <2>7, <2>8, ProductionFiles
  <2> QED BY <2>9 DEF f
<1>9. built = Bundle(later, version, production.files.screens)
  OBVIOUS
<1> HIDE DEF later, built, version
<1>10. /\ DOMAIN built = {"files", "status", "manifest"} /\ Record(built)
       /\ built.files = production.files /\ built.status = production.status
  <2>1. /\ DOMAIN built = {"files", "status", "manifest"} /\ Record(built)
        /\ built.files = Files(later, production.files.screens)
        /\ built.status = ReleaseStatus(later, version, BundleFiles \cup {"status", "manifest"})
    <3>1. DOMAIN built = {"files", "status", "manifest"} BY <1>9, BuiltBundle
    <3>2. Record(built) BY <1>9, BuiltBundle
    <3>3. built.files = Files(later, production.files.screens) BY <1>9, BuiltBundle
    <3>4. built.status = ReleaseStatus(later, version, BundleFiles \cup {"status", "manifest"})
      BY <1>9, BuiltBundle
    <3> QED BY <3>1, <3>2, <3>3, <3>4
  <2> QED BY <1>5, <1>8, <2>1
<1>11. built.manifest = production.manifest
  <2> DEFINE m == production.manifest
             R == [f \in DOMAIN release.manifest.hashes |->
                     Tree([files |-> Normalized(release).files, status |-> Normalized(release).status])[f]]
             P == [f \in DOMAIN m.hashes |->
                     Tree([files |-> Normalized(production).files, status |-> Normalized(production).status])[f]]
  <2>1. [m EXCEPT !.time = Plain, !.hashes = P] = [release.manifest EXCEPT !.time = Plain, !.hashes = R]
    BY DEF LineagePasses, SameContent, Normalized
  <2>2. /\ DOMAIN release.manifest = {"version", "panel", "time", "hashes", "unhashed"}
        /\ release.manifest.version = version /\ release.manifest.panel = source.inputs.panel
        /\ release.manifest.unhashed = Unhashed
    BY <1>1, BuiltBundle
  <2>3. /\ Record(built.manifest)
        /\ DOMAIN built.manifest = {"version", "panel", "time", "hashes", "unhashed"}
    BY <1>9, BuiltBundle
  <2>4. /\ built.manifest.version = version /\ built.manifest.panel = later.inputs.panel
        /\ built.manifest.time = later.time /\ built.manifest.unhashed = Unhashed
    BY <1>9, BuiltBundle
  <2>5. built.manifest.hashes = ArtifactHashes(built.files, built.status)
    BY <1>9, BuiltBundle
  <2>6. later.inputs = source.inputs /\ later.time = production.status.time
    BY LaterSource DEF later
  <2>7. /\ m.time = production.status.time
        /\ \A f \in DOMAIN m.hashes : Tree(production)[f] = m.hashes[f]
    BY DEF LineagePasses, Loads, BundleVerifies
  <2>8. m.hashes = [f \in (BundleFiles \cup {"status"}) \ {"screens"} |-> Tree(production)[f]]
    BY <1>3, <1>7, <2>7 DEF Record
  <2>9. m.hashes = built.manifest.hashes
    <3>1. ArtifactHashes(production.files, production.status)
             = [f \in (BundleFiles \cup {"status"}) \ {"screens"} |-> Tree(production)[f]]
      BY <1>6, HashedTree
    <3> QED BY <1>10, <2>5, <2>8, <3>1
  <2> HIDE DEF R, P, m
  <2>10. /\ DOMAIN m = DOMAIN release.manifest
         /\ \A k \in DOMAIN m \ {"time", "hashes"} : m[k] = release.manifest[k]
    BY <2>1
  <2>11. \A k \in DOMAIN m : built.manifest[k] = m[k]
    BY <2>2, <2>4, <2>6, <2>7, <2>9, <2>10
  <2>12. Record(m) BY <1>3 DEF m
  <2>13. built.manifest = m
    BY <2>2, <2>3, <2>10, <2>11, <2>12, RecordsAgree
  <2> QED BY <2>13 DEF m
<1>12. built = production
  BY <1>3, <1>10, <1>11, RecordsAgree
<1>13. production.files.screens \in Shots
  BY <1>6 DEF Shots, BundleFiles
<1>14. BundleVerifies(production) /\ production = Bundle(later, version, production.files.screens)
  BY <1>9, <1>12 DEF LineagePasses, Loads
<1> QED BY <1>5, <1>13, <1>14 DEF Rebuilt, BuiltAs, later, Later, version

\* Two builds of the same inputs and history agree in what is compared.
LEMMA NormalizedAgree ==
    ASSUME NEW a, NEW b, a.inputs = b.inputs, a.history = b.history, ~a.inputs.preliminary,
           NEW s, NEW t
    PROVE  \A name \in BundleFiles \ {"screens"} :
              NormalizedFiles(Files(a, s))[name] = NormalizedFiles(Files(b, t))[name]
<1> DEFINE f == Files(a, s)
           g == Files(b, t)
<1>1. Links(a) = 0 /\ Links(b) = 0
  BY DEF Links
<1>2. DOMAIN f = BundleFiles /\ DOMAIN g = BundleFiles
  BY BuiltFiles
<1>3. f.dataset = g.dataset /\ f.tables = g.tables
  BY DEF Files, DataFiles
<1>4. NormalizedConsensus(f) = NormalizedConsensus(g)
  <2> DEFINE u == f.consensus  v == g.consensus
  <2>1. DOMAIN u = DOMAIN v /\ \A k \in DOMAIN u \ {"time", "races"} : u[k] = v[k]
    BY <1>1 DEF Files, DataFiles
  <2> HIDE DEF u, v
  <2>2. [u EXCEPT !.time = Plain, !.races = Plain] = [v EXCEPT !.time = Plain, !.races = Plain]
    BY <2>1
  <2> QED BY <2>2 DEF u, v, NormalizedConsensus
<1>5. [f.view EXCEPT !.time = Plain, !.commit = Plain] = [g.view EXCEPT !.time = Plain, !.commit = Plain]
  <2> DEFINE u == f.view  v == g.view
  <2>1. DOMAIN u = DOMAIN v /\ \A k \in DOMAIN u \ {"time", "commit"} : u[k] = v[k]
    BY <1>1 DEF Files, DataFiles
  <2> HIDE DEF u, v
  <2>2. [u EXCEPT !.time = Plain, !.commit = Plain] = [v EXCEPT !.time = Plain, !.commit = Plain]
    BY <2>1
  <2> QED BY <2>2 DEF u, v
<1>6. [f.validation EXCEPT !.time = Plain] = [g.validation EXCEPT !.time = Plain]
  BY DEF Files, DataFiles
<1>7. [f.provenance EXCEPT !.time = Plain, !.consensus = NormalizedConsensus(f)]
        = [g.provenance EXCEPT !.time = Plain, !.consensus = NormalizedConsensus(g)]
  <2> DEFINE u == f.provenance  v == g.provenance
             c == NormalizedConsensus(f)
             d == NormalizedConsensus(g)
  <2>1. DOMAIN u = DOMAIN v /\ \A k \in DOMAIN u \ {"time", "consensus"} : u[k] = v[k]
    BY DEF Files, DataFiles
  <2>2. c = d BY <1>4
  <2> HIDE DEF u, v, c, d
  <2>3. [u EXCEPT !.time = Plain, !.consensus = c] = [v EXCEPT !.time = Plain, !.consensus = d]
    BY <2>1, <2>2
  <2> QED BY <2>3 DEF u, v, c, d
<1>8. [f.notes EXCEPT !.time = Plain, !.commit = Plain] = [g.notes EXCEPT !.time = Plain, !.commit = Plain]
  <2> DEFINE u == f.notes  v == g.notes
  <2>1. DOMAIN u = DOMAIN v /\ \A k \in DOMAIN u \ {"time", "commit"} : u[k] = v[k]
    BY <1>1 DEF Files, DataFiles
  <2> HIDE DEF u, v
  <2>2. [u EXCEPT !.time = Plain, !.commit = Plain] = [v EXCEPT !.time = Plain, !.commit = Plain]
    BY <2>1
  <2> QED BY <2>2 DEF u, v
<1>9. NormalizedGuide(f.guide) = NormalizedGuide(g.guide)
  <2> DEFINE u == f.guide  v == g.guide
  <2>1. DOMAIN u = DOMAIN v /\ \A k \in DOMAIN u \ {"date", "commit"} : u[k] = v[k]
    BY <1>1 DEF Files, DataFiles
  <2> HIDE DEF u, v
  <2>2. [u EXCEPT !.date = Plain, !.commit = Plain] = [v EXCEPT !.date = Plain, !.commit = Plain]
    BY <2>1
  <2> QED BY <2>2 DEF u, v, NormalizedGuide
<1>10. /\ DOMAIN f.build = DOMAIN g.build
       /\ \A k \in DOMAIN f.build \ {"time", "commit", "consensus", "hashes"} : f.build[k] = g.build[k]
       /\ DOMAIN f.build.hashes = {"dataset", "tables", "consensus", "view", "validation", "provenance"}
       /\ DOMAIN g.build.hashes = DOMAIN f.build.hashes
  <2>1. f.build.hashes = DataFiles(a) /\ g.build.hashes = DataFiles(b)
    BY DEF Files
  <2>2. /\ DOMAIN f.build = {"election", "time", "commit", "consensus", "inputs", "hashes"}
        /\ DOMAIN g.build = {"election", "time", "commit", "consensus", "inputs", "hashes"}
        /\ f.build.election = g.build.election /\ f.build.inputs = g.build.inputs
    BY DEF Files
  <2> HIDE DEF f, g
  <2>3. DOMAIN DataFiles(a) = {"dataset", "tables", "consensus", "view", "validation", "provenance"}
    BY BuiltFiles
  <2>4. DOMAIN DataFiles(b) = {"dataset", "tables", "consensus", "view", "validation", "provenance"}
    BY BuiltFiles
  <2> QED BY <2>1, <2>2, <2>3, <2>4
<1> HIDE DEF f, g
<1>11. \A name \in DOMAIN f.build.hashes : NormalizedData(f)[name] = NormalizedData(g)[name]
  <2>1. NormalizedData(f).dataset = NormalizedData(g).dataset
    BY <1>2, <1>3 DEF NormalizedData, BundleFiles
  <2>2. NormalizedData(f).tables = NormalizedData(g).tables
    BY <1>2, <1>3 DEF NormalizedData, BundleFiles
  <2>3. NormalizedData(f).consensus = NormalizedData(g).consensus
    BY <1>2, <1>4 DEF NormalizedData, BundleFiles
  <2>4. NormalizedData(f).view = NormalizedData(g).view BY <1>2, <1>5 DEF NormalizedData, BundleFiles
  <2>5. NormalizedData(f).validation = NormalizedData(g).validation
    BY <1>2, <1>6 DEF NormalizedData, BundleFiles
  <2>6. NormalizedData(f).provenance = NormalizedData(g).provenance
    BY <1>2, <1>7 DEF NormalizedData, BundleFiles
  <2> QED BY <1>10, <2>1, <2>2, <2>3, <2>4, <2>5, <2>6
<1>12. NormalizedBuild(f) = NormalizedBuild(g)
  <2> DEFINE u == f.build  v == g.build
             c == NormalizedConsensus(f)
             d == NormalizedConsensus(g)
             F == [name \in DOMAIN f.build.hashes |-> NormalizedData(f)[name]]
             G == [name \in DOMAIN g.build.hashes |-> NormalizedData(g)[name]]
  <2>1. c = d BY <1>4
  <2>2. F = G BY <1>10, <1>11
  <2>3. /\ DOMAIN u = DOMAIN v
        /\ \A k \in DOMAIN u \ {"time", "commit", "consensus", "hashes"} : u[k] = v[k]
    BY <1>10
  <2> HIDE DEF u, v, c, d, F, G
  <2>4. [u EXCEPT !.time = Plain, !.commit = Plain, !.consensus = c, !.hashes = F]
          = [v EXCEPT !.time = Plain, !.commit = Plain, !.consensus = d, !.hashes = G]
    BY <2>1, <2>2, <2>3
  <2> QED BY <2>4 DEF u, v, c, d, F, G, NormalizedBuild
<1>13. /\ NormalizedFiles(f).dataset = f.dataset /\ NormalizedFiles(g).dataset = g.dataset
       /\ NormalizedFiles(f).tables = f.tables /\ NormalizedFiles(g).tables = g.tables
  BY <1>2, NormalizedByFile
<1>14. NormalizedFiles(f).consensus = NormalizedFiles(g).consensus
  <2>1. NormalizedFiles(f).consensus = NormalizedConsensus(f) BY <1>2, NormalizedByFile
  <2>2. NormalizedFiles(g).consensus = NormalizedConsensus(g) BY <1>2, NormalizedByFile
  <2> QED BY <2>1, <2>2, <1>4
<1>15. NormalizedFiles(f).guide = NormalizedFiles(g).guide
  <2>1. NormalizedFiles(f).guide = NormalizedGuide(f.guide) BY <1>2, NormalizedByFile
  <2>2. NormalizedFiles(g).guide = NormalizedGuide(g.guide) BY <1>2, NormalizedByFile
  <2> QED BY <2>1, <2>2, <1>9
<1>16. NormalizedFiles(f).build = NormalizedFiles(g).build
  <2>1. NormalizedFiles(f).build = NormalizedBuild(f) BY <1>2, NormalizedByFile
  <2>2. NormalizedFiles(g).build = NormalizedBuild(g) BY <1>2, NormalizedByFile
  <2> QED BY <2>1, <2>2, <1>12
<1>17. NormalizedFiles(f).view = NormalizedFiles(g).view
  <2>1. NormalizedFiles(f).view = [f.view EXCEPT !.time = Plain, !.commit = Plain]
    BY <1>2, NormalizedByFile
  <2>2. NormalizedFiles(g).view = [g.view EXCEPT !.time = Plain, !.commit = Plain]
    BY <1>2, NormalizedByFile
  <2> QED BY <2>1, <2>2, <1>5
<1>18. NormalizedFiles(f).validation = NormalizedFiles(g).validation
  <2>1. NormalizedFiles(f).validation = [f.validation EXCEPT !.time = Plain] BY <1>2, NormalizedByFile
  <2>2. NormalizedFiles(g).validation = [g.validation EXCEPT !.time = Plain] BY <1>2, NormalizedByFile
  <2> QED BY <2>1, <2>2, <1>6
<1>19. NormalizedFiles(f).provenance = NormalizedFiles(g).provenance
  <2>1. NormalizedFiles(f).provenance = [f.provenance EXCEPT !.time = Plain, !.consensus = NormalizedConsensus(f)]
    BY <1>2, NormalizedByFile
  <2>2. NormalizedFiles(g).provenance = [g.provenance EXCEPT !.time = Plain, !.consensus = NormalizedConsensus(g)]
    BY <1>2, NormalizedByFile
  <2> QED BY <2>1, <2>2, <1>7
<1>20. NormalizedFiles(f).notes = NormalizedFiles(g).notes
  <2>1. NormalizedFiles(f).notes = [f.notes EXCEPT !.time = Plain, !.commit = Plain]
    BY <1>2, NormalizedByFile
  <2>2. NormalizedFiles(g).notes = [g.notes EXCEPT !.time = Plain, !.commit = Plain]
    BY <1>2, NormalizedByFile
  <2> QED BY <2>1, <2>2, <1>8
<1>21. \A name \in BundleFiles \ {"screens"} : NormalizedFiles(f)[name] = NormalizedFiles(g)[name]
  BY <1>3, <1>13, <1>14, <1>15, <1>16, <1>17, <1>18, <1>19, <1>20 DEF BundleFiles
<1> QED BY <1>21 DEF f, g

\* What is built and verifies loads, at its own commit.
LEMMA BuiltLoads ==
    ASSUME NEW source, NEW version, NEW shots, NEW bundle, bundle = Bundle(source, version, shots),
           BundleVerifies(bundle)
    PROVE  Loads(bundle, bundle.status.commit) /\ StatesItsBuild(bundle)
<1> DEFINE f == Files(source, shots)
           status == bundle.status
           m == bundle.manifest
<1>1. bundle.files = f
  BY BuiltBundle
<1>2. DOMAIN bundle.files = BundleFiles
  BY BuiltBundle
<1>3. m.time = source.time
  BY BuiltBundle
<1>4. status = ReleaseStatus(source, version, BundleFiles \cup {"status", "manifest"})
  BY BuiltBundle
<1>5. /\ status.included = BundleFiles \cup {"status", "manifest"}
      /\ status.election = source.inputs.election /\ status.panel = source.inputs.panel
      /\ status.time = source.time /\ status.commit = source.commit
  BY <1>4 DEF ReleaseStatus
<1>6. /\ f.dataset.election = source.inputs.election
      /\ f.consensus.election = source.inputs.election
      /\ f.view.election = source.inputs.election
      /\ f.validation.election = source.inputs.election
      /\ f.provenance.election = source.inputs.election
      /\ f.build.election = source.inputs.election
  BY DEF Files, DataFiles
<1>7. /\ f.consensus.time = source.time /\ f.view.time = source.time /\ f.validation.time = source.time
      /\ f.provenance.time = source.time /\ f.build.time = source.time
      /\ f.consensus.races = source.time /\ f.notes.time = source.time /\ f.guide.date = source.time
      /\ f.build.commit = source.commit /\ f.view.commit = source.commit
      /\ f.notes.commit = source.commit /\ f.guide.commit = source.commit
      /\ f.view.panel = source.inputs.panel
  BY DEF Files, DataFiles
<1>8. /\ f.consensus.dataset = f.dataset /\ f.provenance.dataset = f.dataset
      /\ f.build.consensus = f.consensus /\ f.provenance.consensus = f.consensus
      /\ f.build.inputs = f.provenance.inputs
  BY DEF Files, DataFiles
<1>9. \A name \in DOMAIN f.build.hashes : name \in DOMAIN f /\ f[name] = f.build.hashes[name]
  <2>1. f.build.hashes = DataFiles(source) BY DEF Files
  <2> HIDE DEF f
  <2>2. /\ DOMAIN f = BundleFiles
        /\ DOMAIN DataFiles(source) = {"dataset", "tables", "consensus", "view", "validation", "provenance"}
        /\ \A name \in DOMAIN DataFiles(source) : f[name] = DataFiles(source)[name]
    BY BuiltFiles DEF f
  <2> QED BY <2>1, <2>2 DEF BundleFiles
<1> HIDE DEF f, status, m
<1>10. InternalIdentities(bundle, status.commit)
  BY <1>1, <1>3, <1>5, <1>6, <1>7, <1>8, <1>9 DEF InternalIdentities, status, m
<1>11. Present(bundle) = status.included
  BY <1>2, <1>5 DEF Present
<1>12. StatesItsBuild(bundle)
  BY <1>1, <1>5, <1>7 DEF StatesItsBuild, status
<1> QED BY <1>10, <1>11, <1>12 DEF Loads, status

\* An intact rebuild passes.
LEMMA RebuiltPasses ==
    ASSUME GenuineAssumption, NEW source \in Genuine, NEW release, NEW production,
           BuiltAs(release, source, release.status.version), ~source.inputs.preliminary,
           Rebuilt(production, source), production.status.version = release.status.version,
           NEW commits, commits = <<release.status.commit, production.status.commit>>,
           commits[1] # commits[2], commits \in Descends
    PROVE  LineagePasses(release, production, commits)
<1> DEFINE version == release.status.version
           later == Later(source, production)
<1>1. PICK s : release = Bundle(source, version, s)
  BY DEF BuiltAs
<1>2. PICK t : production = Bundle(later, version, t)
  BY DEF Rebuilt, BuiltAs, Later
<1>3. later.inputs = source.inputs /\ later.history = source.history
  BY LaterSource
<1> HIDE DEF later, version
<1>4. commits[1] = release.status.commit /\ commits[2] = production.status.commit
  OBVIOUS
<1>5. Loads(release, commits[1]) /\ StatesItsBuild(release)
  BY <1>1, <1>4, BuiltLoads DEF BuiltAs
<1>6. Loads(production, commits[2]) /\ StatesItsBuild(production)
  BY <1>2, <1>4, BuiltLoads DEF Rebuilt, BuiltAs
<1>7. release.files = Files(source, s) /\ DOMAIN release.files = BundleFiles
  BY <1>1, BuiltBundle
<1>8. production.files = Files(later, t) /\ DOMAIN production.files = BundleFiles
  BY <1>2, BuiltBundle
<1>9. release.status = ReleaseStatus(source, version, BundleFiles \cup {"status", "manifest"})
  BY <1>1, BuiltFiles DEF Bundle
<1>10. production.status = ReleaseStatus(later, version, BundleFiles \cup {"status", "manifest"})
  BY <1>2, BuiltFiles DEF Bundle
<1>11. ReleaseIdentity(release) = ReleaseIdentity(production)
  <2>1. /\ release.files.dataset = production.files.dataset
        /\ release.files.consensus.dataset = production.files.consensus.dataset
        /\ release.files.provenance.inputs = production.files.provenance.inputs
    BY <1>3, <1>7, <1>8 DEF Files, DataFiles
  <2>2. /\ release.status.panel = production.status.panel
        /\ release.status.election = production.status.election
        /\ release.status.version = production.status.version
    BY <1>3, <1>9, <1>10 DEF ReleaseStatus
  <2> QED BY <2>1, <2>2 DEF ReleaseIdentity
<1>12. DOMAIN release.manifest.hashes = (BundleFiles \cup {"status"}) \ {"screens"}
  BY <1>1, BuiltStatus
<1>13. DOMAIN production.manifest.hashes = (BundleFiles \cup {"status"}) \ {"screens"}
  BY <1>2, BuiltStatus
<1>14. \A name \in BundleFiles \ {"screens"} :
          NormalizedFiles(release.files)[name] = NormalizedFiles(production.files)[name]
  BY <1>3, <1>7, <1>8, NormalizedAgree
<1>15. [release.status EXCEPT !.time = Plain, !.commit = Plain]
          = [production.status EXCEPT !.time = Plain, !.commit = Plain]
  <2> DEFINE u == release.status  v == production.status
  <2>1. DOMAIN u = DOMAIN v /\ \A k \in DOMAIN u \ {"time", "commit"} : u[k] = v[k]
    BY <1>3, <1>9, <1>10 DEF ReleaseStatus
  <2> HIDE DEF u, v
  <2>2. [u EXCEPT !.time = Plain, !.commit = Plain] = [v EXCEPT !.time = Plain, !.commit = Plain]
    BY <2>1
  <2> QED BY <2>2 DEF u, v
<1>16. \A f \in (BundleFiles \cup {"status"}) \ {"screens"} :
          Tree(Normalized(release))[f] = Tree(Normalized(production))[f]
  <2>1. \A f \in BundleFiles \ {"screens"} :
          Tree(Normalized(release))[f] = Tree(Normalized(production))[f]
    BY <1>7, <1>8, <1>14, NormalizedTree
  <2>2. Tree(Normalized(release))["status"] = [release.status EXCEPT !.time = Plain, !.commit = Plain]
    BY <1>7, NormalizedTree
  <2>3. Tree(Normalized(production))["status"] = [production.status EXCEPT !.time = Plain, !.commit = Plain]
    BY <1>8, NormalizedTree
  <2> QED BY <1>15, <2>1, <2>2, <2>3
<1>17. Normalized(release).manifest = Normalized(production).manifest
  <2> DEFINE u == release.manifest  v == production.manifest
             x == [files |-> Normalized(release).files, status |-> Normalized(release).status]
             y == [files |-> Normalized(production).files, status |-> Normalized(production).status]
             R == [f \in DOMAIN u.hashes |-> Tree(x)[f]]
             P == [f \in DOMAIN v.hashes |-> Tree(y)[f]]
  <2>1. Normalized(release).manifest = [u EXCEPT !.time = Plain, !.hashes = R] BY DEF Normalized
  <2>2. Normalized(production).manifest = [v EXCEPT !.time = Plain, !.hashes = P] BY DEF Normalized
  <2>3. Tree(x) = Tree(Normalized(release)) /\ Tree(y) = Tree(Normalized(production))
    <3>1. /\ x.files = Normalized(release).files /\ x.status = Normalized(release).status
          /\ y.files = Normalized(production).files /\ y.status = Normalized(production).status
      OBVIOUS
    <3> HIDE DEF x, y
    <3> QED BY <3>1, TreeOfParts
  <2>4. /\ DOMAIN u = {"version", "panel", "time", "hashes", "unhashed"}
        /\ u.version = version /\ u.panel = source.inputs.panel /\ u.unhashed = Unhashed
    BY <1>1, BuiltBundle
  <2>5. /\ DOMAIN v = {"version", "panel", "time", "hashes", "unhashed"}
        /\ v.version = version /\ v.panel = later.inputs.panel /\ v.unhashed = Unhashed
    BY <1>2, BuiltBundle
  <2> HIDE DEF u, v, x, y
  <2>6. R = P
    BY <1>12, <1>13, <1>16, <2>3 DEF u, v
  <2> HIDE DEF R, P
  <2>7. DOMAIN u = DOMAIN v /\ \A k \in DOMAIN u \ {"time", "hashes"} : u[k] = v[k]
    BY <1>3, <2>4, <2>5
  <2>8. [u EXCEPT !.time = Plain, !.hashes = R] = [v EXCEPT !.time = Plain, !.hashes = P]
    BY <2>6, <2>7
  <2> QED BY <2>1, <2>2, <2>8
<1>18. release.manifest.unhashed = production.manifest.unhashed
  <2>1. release.manifest.unhashed = Unhashed BY <1>1, BuiltBundle
  <2>2. production.manifest.unhashed = Unhashed BY <1>2, BuiltBundle
  <2> QED BY <2>1, <2>2
<1> QED BY <1>5, <1>6, <1>11, <1>12, <1>13, <1>16, <1>17, <1>18 DEF LineagePasses, SameContent

\* The links of preliminary results are those of the build's commit.
LEMMA PreliminaryIsRefused ==
    ASSUME GenuineAssumption, NEW source \in Genuine, NEW release, NEW production,
           BuiltAs(release, source, release.status.version), source.inputs.preliminary,
           Rebuilt(production, source), NEW commits
    PROVE  ~LineagePasses(release, production, commits)
<1> SUFFICES ASSUME LineagePasses(release, production, commits) PROVE FALSE
  OBVIOUS
<1> DEFINE later == Later(source, production)
           version == release.status.version
           produced == production.status.version
<1>1. PICK s : release = Bundle(source, version, s)
  BY DEF BuiltAs
<1>2. PICK t : production = Bundle(later, produced, t)
  BY DEF Rebuilt, BuiltAs, Later
<1>3. later.inputs = source.inputs /\ later.commit = production.status.commit
  BY LaterSource
<1> HIDE DEF later, version, produced
<1>4. release.status.commit = source.commit
  BY <1>1, BuiltStatus
<1>5. source.commit # later.commit
  BY <1>3, <1>4 DEF LineagePasses, Loads
<1>6. release.files = Files(source, s) /\ DOMAIN release.files = BundleFiles
  BY <1>1, BuiltBundle
<1>7. production.files = Files(later, t) /\ DOMAIN production.files = BundleFiles
  BY <1>2, BuiltBundle
<1>8. DOMAIN release.manifest.hashes = (BundleFiles \cup {"status"}) \ {"screens"}
  BY <1>1, BuiltStatus
<1>9. NormalizedFiles(production.files).guide = NormalizedFiles(release.files).guide
  BY <1>6, <1>7, <1>8, ComparedFiles DEF LineagePasses, BundleFiles
<1>10. NormalizedGuide(production.files.guide) = NormalizedGuide(release.files.guide)
  <2>1. NormalizedFiles(production.files).guide = NormalizedGuide(production.files.guide)
    BY <1>7, NormalizedByFile
  <2>2. NormalizedFiles(release.files).guide = NormalizedGuide(release.files.guide)
    BY <1>6, NormalizedByFile
  <2> QED BY <1>9, <2>1, <2>2
<1>11. /\ release.files.guide =
             [date |-> source.time, commit |-> source.commit, facts |-> source.inputs.facts, links |-> source.commit]
       /\ production.files.guide =
             [date |-> later.time, commit |-> later.commit, facts |-> later.inputs.facts, links |-> later.commit]
  BY <1>3, <1>6, <1>7 DEF Files, Links
<1>12. production.files.guide.links = release.files.guide.links
  <2> DEFINE u == production.files.guide  v == release.files.guide
  <2>1. DOMAIN u = {"date", "commit", "facts", "links"} BY <1>11
  <2> HIDE DEF u, v
  <2>2. [u EXCEPT !.date = Plain, !.commit = Plain] = [v EXCEPT !.date = Plain, !.commit = Plain]
    BY <1>10 DEF NormalizedGuide, u, v
  <2>3. \A k \in DOMAIN u \ {"date", "commit"} : u[k] = v[k]
    BY <2>2, SetAside
  <2> QED BY <2>1, <2>3 DEF u, v
<1> QED BY <1>5, <1>11, <1>12

\* What has been compared is the report, judged as the code does.
ReportHolds ==
    report # << >> =>
        /\ report.release \in Bundles /\ report.production \in Bundles
        /\ \E a, b : report.commits = <<a, b>> 
        /\ report.commits[2] = report.production.status.commit
        /\ report.passed = LineagePasses(report.release, report.production, report.commits)

\* A report is of two bundles at hand and judged as the code does.
LEMMA ReportInvariant == LineageSpec => []ReportHolds
<1>1. LineageInit => ReportHolds
  BY DEF LineageInit, ReportHolds
<1>2. ReportHolds /\ [LineageNext]_report => ReportHolds'
  <2> SUFFICES ASSUME ReportHolds, [LineageNext]_report PROVE ReportHolds'
    OBVIOUS
  <2>1. CASE UNCHANGED report
    BY <2>1 DEF ReportHolds
  <2>2. CASE LineageNext
    <3>0. PICK release \in Bundles, production \in Bundles :
             \E commits \in {release.status.commit, production.status.commit} \X {production.status.commit} :
                VerifyLineage(release, production, commits)
      BY <2>2 DEF LineageNext
    <3>1. PICK commits \in {release.status.commit, production.status.commit} \X {production.status.commit} :
             VerifyLineage(release, production, commits)
      BY <3>0
    <3>2. /\ report'.release = release /\ report'.production = production /\ report'.commits = commits
          /\ report'.passed = LineagePasses(release, production, commits)
      BY <3>1 DEF VerifyLineage
    <3>3. /\ \E a, b : commits = <<a, b>>
          /\ commits[2] = production.status.commit
      BY <3>1
    <3> QED BY <3>2, <3>3 DEF ReportHolds
  <2> QED BY <2>1, <2>2
<1> QED BY <1>1, <1>2, PTL DEF LineageSpec

\* So it tells what is asked of it.
LEMMA ReportIsSound ==
    ASSUME ReportHolds PROVE LineageIsTheRelease
<1> SUFFICES ASSUME report # << >>, NEW source \in Genuine,
                    BuiltAs(report.release, source, report.release.status.version)
             PROVE  LET release == report.release  production == report.production
                        later == /\ report.commits = <<release.status.commit, production.status.commit>>
                                 /\ report.commits[1] # report.commits[2] /\ report.commits \in Descends
                                 /\ production.status.version = release.status.version
                    IN  /\ ~source.inputs.preliminary =>
                                (report.passed <=> later /\ Rebuilt(production, source))
                        /\ source.inputs.preliminary /\ Rebuilt(production, source) => ~report.passed
  BY DEF LineageIsTheRelease
<1> DEFINE release == report.release
           production == report.production
           commits == report.commits
<1>1. /\ release \in Bundles /\ production \in Bundles /\ \E a, b : commits = <<a, b>>
      /\ commits[2] = production.status.commit
      /\ report.passed = LineagePasses(release, production, commits)
  BY DEF ReportHolds
<1>2. BundlesAssumption /\ GenuineAssumption
  BY BundlesAssumption, GenuineAssumption
<1>3. BuiltAs(release, source, release.status.version)
  OBVIOUS
<1> HIDE DEF release, production, commits
<1>4. ASSUME ~source.inputs.preliminary, LineagePasses(release, production, commits)
      PROVE  /\ Rebuilt(production, source) /\ production.status.version = release.status.version
             /\ commits = <<release.status.commit, production.status.commit>>
             /\ commits[1] # commits[2] /\ commits \in Descends
  <2>1. Rebuilt(production, source) /\ production.status.version = release.status.version
    BY <1>1, <1>2, <1>3, <1>4, PassedIsRebuilt
  <2>2. commits[1] = release.status.commit /\ commits[1] # commits[2] /\ commits \in Descends
    BY <1>4 DEF LineagePasses, Loads
  <2> QED BY <1>1, <2>1, <2>2
<1>5. ASSUME ~source.inputs.preliminary, Rebuilt(production, source),
             production.status.version = release.status.version,
             commits = <<release.status.commit, production.status.commit>>,
             commits[1] # commits[2], commits \in Descends
      PROVE  LineagePasses(release, production, commits)
  BY <1>2, <1>3, <1>5, RebuiltPasses
<1>6. ASSUME source.inputs.preliminary, Rebuilt(production, source)
      PROVE  ~LineagePasses(release, production, commits)
  BY <1>2, <1>3, <1>6, PreliminaryIsRefused
<1> QED BY <1>1, <1>4, <1>5, <1>6 DEF release, production, commits

(***************************************************************************)
(* Comparing a genuine release with any bundle at all tells whether that    *)
(* bundle is an intact rebuild of it.  (verify_release_lineage)             *)
(***************************************************************************)
THEOREM LineageTellsRebuilds == LineageSpec => []LineageIsTheRelease
<1>1. ReportHolds => LineageIsTheRelease
  BY ReportIsSound
<1> QED BY <1>1, ReportInvariant, PTL

----------------------------------------------------------------------------
(* The candidate *)

\* As it was read at the commit checked out: of its data or, since an edit, of other data.
EditedBuild(commit, shots) ==
    Bundle(SourceOf(commit, [Repository[commit].inputs EXCEPT !.facts.told = "edited"]),
           CurrentOf(commit).version, shots)
ReadAt(archive, commit, edits) ==
    \/ IsBuiltOf(archive, commit)
    \/ edits = 1 /\ \E shots \in Screens : archive = EditedBuild(commit, shots)

\* What a build left, and a staged site: while nobody checked out another commit, of this one.
Made(archive, commit, edits, moves) ==
    /\ moves = 0 => archive.status.commit = commit
    /\ archive.status.commit = commit => ReadAt(archive, commit, edits)
ShowsItsRelease(site, commit) ==
    /\ IsOf(site, commit)
    /\ \E shots \in Screens :
          site.deployment.elections[1].manifest =
              Bundle(SourceOf(commit, Repository[commit].inputs), CurrentOf(commit).version, shots).manifest
MadeSite(site, commit, moves) ==
    /\ moves = 0 => site.deployment.elections[1].commit = commit
    /\ site.deployment.elections[1].commit = commit => ShowsItsRelease(site, commit)

StepSet == {<<"idle", "">>, <<"check", "a">>, <<"read", "a">>, <<"swap", "a">>,
            <<"check", "b">>, <<"read", "b">>, <<"swap", "b">>, <<"compare", "both">>,
            <<"resolve", "all">>, <<"stage", "site">>, <<"swap", "site">>, <<"recheck", "site">>}
Places == {"a", "b", "site"}

\* The shape of the state, and whose command is at work.
BuildTypeOK ==
    /\ head \in Commits /\ edited \in {"nothing", "data", "code"}
    /\ budget = [attempts |-> budget.attempts, edits |-> budget.edits, moves |-> budget.moves,
                 replaced |-> budget.replaced]
    /\ budget.edits \in {0, 1} /\ budget.moves \in {0, 1}
    /\ edited # "nothing" => budget.edits = 1
    /\ output = [place \in Places |-> output[place]]
    /\ job = [step |-> job.step, source |-> job.source, made |-> job.made, backup |-> job.backup,
              downloads |-> job.downloads]
    /\ job.step \in StepSet
    /\ job.step # <<"idle", "">> => /\ job.source \in Commits
                                    /\ budget.moves = 0 => job.source = head

\* What stands in the directory, and what is in hand between its two moves.
PlacesHold ==
    /\ \A b \in Builds : output[b] # None => Made(output[b], head, budget.edits, budget.moves)
    /\ output.site # None => MadeSite(output.site, head, budget.moves)
InHand ==
    /\ job.step \in {<<"swap", "a">>, <<"swap", "b">>} =>
          /\ Made(job.made, head, budget.edits, budget.moves)
          /\ job.backup # None => Made(job.backup, head, budget.edits, budget.moves)
    /\ job.step = <<"swap", "site">> =>
          /\ MadeSite(job.made, head, budget.moves)
          /\ job.backup # None => MadeSite(job.backup, head, budget.moves)

\* Pinned, each of them, in the declaration.
Downloaded ==
    \A b \in DOMAIN job.downloads :
        \E d \in Elections(Declared(job.source)) \ {CurrentOf(job.source)} : d.bundle = b /\ d.bundlePin # None

\* Of a build of the commit checked out, one of the two readings saw the commit itself.
OneReading(first, second, commit, edits) ==
    /\ ReadAt(first, commit, edits) /\ ReadAt(second, commit, edits)
    /\ IsBuiltOf(first, commit) \/ IsBuiltOf(second, commit)
ReadingsHold ==
    /\ job.step = <<"swap", "a">> => ReadAt(job.made, head, budget.edits)
    /\ job.step = <<"check", "b">> => ReadAt(output.a, head, budget.edits)
    /\ job.step = <<"read", "b">> =>
          /\ ReadAt(output.a, head, budget.edits)
          /\ IsBuiltOf(output.a, head) \/ (edited = "nothing" /\ budget.edits = 1)
    /\ job.step = <<"swap", "b">> => OneReading(output.a, job.made, head, budget.edits)
    /\ job.step = <<"compare", "both">> => OneReading(output.a, output.b, head, budget.edits)
    /\ job.step \in {<<"resolve", "all">>, <<"stage", "site">>} => IsBuiltOf(output.a, head)
TwoReadings == job.source = head => ReadingsHold
RecordsHold ==
    /\ \A r \in records :
          r = [source |-> r.source, archive |-> r.archive, site |-> r.site, kept |-> r.kept]
    /\ CandidateIsItsSource

\* The inductive invariant.
BuildInv == BuildTypeOK /\ PlacesHold /\ InHand /\ Downloaded /\ TwoReadings /\ RecordsHold

\* Two sequences joined: its length and elements.
LEMMA Joined ==
    ASSUME NEW S, NEW s \in Seq(S), NEW t \in Seq(S), NEW u, u = s \o t
    PROVE  /\ u \in Seq(S) /\ Len(u) = Len(s) + Len(t)
           /\ \A i \in 1..Len(s) : u[i] = s[i]
           /\ \A i \in 1..Len(t) : u[Len(s) + i] = t[i]
OBVIOUS

\* A sequence with one element more.
LEMMA Ended ==
    ASSUME NEW S, NEW s \in Seq(S), NEW x \in S, NEW u, u = Append(s, x)
    PROVE  /\ u \in Seq(S) /\ Len(u) = Len(s) + 1
           /\ \A i \in 1..Len(s) : u[i] = s[i]
           /\ u[Len(s) + 1] = x
OBVIOUS

\* A short sequence is the tuple of its elements.
LEMMA FewParts ==
    ASSUME NEW S, NEW s \in Seq(S)
    PROVE  /\ Len(s) = 2 => s = <<s[1], s[2]>>
           /\ Len(s) = 3 => s = <<s[1], s[2], s[3]>>
           /\ Len(s) = 4 => s = <<s[1], s[2], s[3], s[4]>>
           /\ Len(s) = 5 => s = <<s[1], s[2], s[3], s[4], s[5]>>
OBVIOUS

\* A path of two parts, continued.
LEMMA JoinedTwo ==
    ASSUME NEW S, NEW s \in Seq(S), NEW t \in Seq(S)
    PROVE  Len(s) = 2 =>
              /\ Len(t) = 1 => s \o t = <<s[1], s[2], t[1]>>
              /\ Len(t) = 2 => s \o t = <<s[1], s[2], t[1], t[2]>>
              /\ Len(t) = 3 => s \o t = <<s[1], s[2], t[1], t[2], t[3]>>
<1>1. \A u : u = s \o t =>
        /\ u \in Seq(S) /\ Len(u) = Len(s) + Len(t)
        /\ \A i \in 1..Len(s) : u[i] = s[i]
        /\ \A i \in 1..Len(t) : u[Len(s) + i] = t[i]
  BY Joined
<1>2. ASSUME NEW u \in Seq(S), Len(u) = Len(s) + Len(t), Len(s) = 2,
             \A i \in 1..Len(s) : u[i] = s[i], \A i \in 1..Len(t) : u[Len(s) + i] = t[i]
      PROVE  /\ Len(t) = 1 => u = <<s[1], s[2], t[1]>>
             /\ Len(t) = 2 => u = <<s[1], s[2], t[1], t[2]>>
             /\ Len(t) = 3 => u = <<s[1], s[2], t[1], t[2], t[3]>>
  <2>1. Len(t) = 1 => u = <<s[1], s[2], t[1]>>
    BY <1>2, FewParts
  <2>2. Len(t) = 2 => u = <<s[1], s[2], t[1], t[2]>>
    BY <1>2, FewParts
  <2>3. Len(t) = 3 => u = <<s[1], s[2], t[1], t[2], t[3]>>
    BY <1>2, FewParts
  <2> QED BY <2>1, <2>2, <2>3
<1> QED BY <1>1, <1>2

\* A short path, ended.
LEMMA EndedBy ==
    ASSUME NEW S, NEW s \in Seq(S), NEW x \in S
    PROVE  /\ Len(s) = 1 => Append(s, x) = <<s[1], x>>
           /\ Len(s) = 2 => Append(s, x) = <<s[1], s[2], x>>
           /\ Len(s) = 3 => Append(s, x) = <<s[1], s[2], s[3], x>>
           /\ Len(s) = 4 => Append(s, x) = <<s[1], s[2], s[3], s[4], x>>
<1>1. \A u : u = Append(s, x) =>
        /\ u \in Seq(S) /\ Len(u) = Len(s) + 1
        /\ \A i \in 1..Len(s) : u[i] = s[i]
        /\ u[Len(s) + 1] = x
  BY Ended
<1>2. ASSUME NEW u \in Seq(S), Len(u) = Len(s) + 1, \A i \in 1..Len(s) : u[i] = s[i], u[Len(s) + 1] = x
      PROVE  /\ Len(s) = 1 => u = <<s[1], x>>
             /\ Len(s) = 2 => u = <<s[1], s[2], x>>
             /\ Len(s) = 3 => u = <<s[1], s[2], s[3], x>>
             /\ Len(s) = 4 => u = <<s[1], s[2], s[3], s[4], x>>
  <2>1. Len(s) = 1 => u = <<s[1], x>>
    BY <1>2, FewParts
  <2>2. Len(s) = 2 => u = <<s[1], s[2], x>>
    BY <1>2, FewParts
  <2>3. Len(s) = 3 => u = <<s[1], s[2], s[3], x>>
    BY <1>2, FewParts
  <2>4. Len(s) = 4 => u = <<s[1], s[2], s[3], s[4], x>>
    BY <1>2, FewParts
  <2> QED BY <2>1, <2>2, <2>3, <2>4
<1> QED BY <1>1, <1>2

\* The same of tuples: two parts continued by one,
LEMMA JoinsOne ==
    ASSUME NEW a, NEW b, NEW x
    PROVE  <<a, b>> \o <<x>> = <<a, b, x>>
<1> DEFINE S == {a, b, x}
<1> SUFFICES ASSUME NEW s, s = <<a, b>>, NEW t, t = <<x>>
             PROVE  s \o t = <<s[1], s[2], t[1]>>
  OBVIOUS
<1>1. s \in Seq(S) /\ Len(s) = 2 /\ t \in Seq(S) /\ Len(t) = 1
  OBVIOUS
<1> HIDE DEF S
<1> QED BY <1>1, JoinedTwo

\* by two,
LEMMA JoinsTwo ==
    ASSUME NEW a, NEW b, NEW x, NEW y
    PROVE  <<a, b>> \o <<x, y>> = <<a, b, x, y>>
<1> DEFINE S == {a, b, x, y}
<1> SUFFICES ASSUME NEW s, s = <<a, b>>, NEW t, t = <<x, y>>
             PROVE  s \o t = <<s[1], s[2], t[1], t[2]>>
  OBVIOUS
<1>1. s \in Seq(S) /\ Len(s) = 2 /\ t \in Seq(S) /\ Len(t) = 2
  OBVIOUS
<1> HIDE DEF S
<1> QED BY <1>1, JoinedTwo

\* and by three;
LEMMA JoinsThree ==
    ASSUME NEW a, NEW b, NEW x, NEW y, NEW z
    PROVE  <<a, b>> \o <<x, y, z>> = <<a, b, x, y, z>>
<1> DEFINE S == {a, b, x, y, z}
<1> SUFFICES ASSUME NEW s, s = <<a, b>>, NEW t, t = <<x, y, z>>
             PROVE  s \o t = <<s[1], s[2], t[1], t[2], t[3]>>
  OBVIOUS
<1>1. s \in Seq(S) /\ Len(s) = 2 /\ t \in Seq(S) /\ Len(t) = 3
  OBVIOUS
<1> HIDE DEF S
<1> QED BY <1>1, JoinedTwo

\* one part ended,
LEMMA EndsOne ==
    ASSUME NEW a, NEW last
    PROVE  Append(<<a>>, last) = <<a, last>>
<1> DEFINE S == {a, last}
<1> SUFFICES ASSUME NEW s, s = <<a>>
             PROVE  Append(s, last) = <<s[1], last>>
  OBVIOUS
<1>1. s \in Seq(S) /\ Len(s) = 1 /\ last \in S
  OBVIOUS
<1> HIDE DEF S
<1> QED BY <1>1, EndedBy

\* two,
LEMMA EndsTwo ==
    ASSUME NEW a, NEW b, NEW last
    PROVE  Append(<<a, b>>, last) = <<a, b, last>>
<1> DEFINE S == {a, b, last}
<1> SUFFICES ASSUME NEW s, s = <<a, b>>
             PROVE  Append(s, last) = <<s[1], s[2], last>>
  OBVIOUS
<1>1. s \in Seq(S) /\ Len(s) = 2 /\ last \in S
  OBVIOUS
<1> HIDE DEF S
<1> QED BY <1>1, EndedBy

\* three,
LEMMA EndsThree ==
    ASSUME NEW a, NEW b, NEW c, NEW last
    PROVE  Append(<<a, b, c>>, last) = <<a, b, c, last>>
<1> DEFINE S == {a, b, c, last}
<1> SUFFICES ASSUME NEW s, s = <<a, b, c>>
             PROVE  Append(s, last) = <<s[1], s[2], s[3], last>>
  OBVIOUS
<1>1. s \in Seq(S) /\ Len(s) = 3 /\ last \in S
  OBVIOUS
<1> HIDE DEF S
<1> QED BY <1>1, EndedBy

\* and four.
LEMMA EndsFour ==
    ASSUME NEW a, NEW b, NEW c, NEW d, NEW last
    PROVE  Append(<<a, b, c, d>>, last) = <<a, b, c, d, last>>
<1> DEFINE S == {a, b, c, d, last}
<1> SUFFICES ASSUME NEW s, s = <<a, b, c, d>>
             PROVE  Append(s, last) = <<s[1], s[2], s[3], s[4], last>>
  OBVIOUS
<1>1. s \in Seq(S) /\ Len(s) = 4 /\ last \in S
  OBVIOUS
<1> HIDE DEF S
<1> QED BY <1>1, EndedBy

\* The addresses at hand, as they are.
LEMMA Addressed ==
    ASSUME NEW e, NEW x, NEW y, NEW z
    PROVE  /\ Page(<<x>>) = <<x, "index.html">> /\ Slash(<<x>>) = <<x, "">>
           /\ Home(e) = <<"e", e>> /\ Page(Home(e)) = <<"e", e, "index.html">>
           /\ Slash(Home(e)) = <<"e", e, "">>
           /\ At(e, <<x>>) = <<"e", e, x>>
           /\ Page(At(e, <<x>>)) = <<"e", e, x, "index.html">>
           /\ Slash(At(e, <<x>>)) = <<"e", e, x, "">>
           /\ At(e, <<x, y>>) = <<"e", e, x, y>>
           /\ Page(At(e, <<x, y>>)) = <<"e", e, x, y, "index.html">>
           /\ Slash(At(e, <<x, y>>)) = <<"e", e, x, y, "">>
           /\ At(e, <<x, y, z>>) = <<"e", e, x, y, z>>
<1>1. /\ Page(<<x>>) = <<x, "index.html">> /\ Slash(<<x>>) = <<x, "">>
      /\ \A p, q : Page(<<p, q>>) = <<p, q, "index.html">> /\ Slash(<<p, q>>) = <<p, q, "">>
  BY EndsOne, EndsTwo, Zenon DEF Page, Slash
<1>2. \A p, q, r : Page(<<p, q, r>>) = <<p, q, r, "index.html">> /\ Slash(<<p, q, r>>) = <<p, q, r, "">>
  BY EndsThree, Zenon DEF Page, Slash
<1>3. \A p, q, r, s : /\ Page(<<p, q, r, s>>) = <<p, q, r, s, "index.html">>
                      /\ Slash(<<p, q, r, s>>) = <<p, q, r, s, "">>
  BY EndsFour, Zenon DEF Page, Slash
<1>4. Home(e) = <<"e", e>>
  BY DEF Home
<1>5. At(e, <<x>>) = <<"e", e, x>>
  BY JoinsOne DEF At, Home
<1>6. At(e, <<x, y>>) = <<"e", e, x, y>>
  BY JoinsTwo DEF At, Home
<1>7. At(e, <<x, y, z>>) = <<"e", e, x, y, z>>
  BY JoinsThree DEF At, Home
<1> QED BY <1>1, <1>2, <1>3, <1>4, <1>5, <1>6, <1>7, Zenon

\* What is staged at a path, if nothing else is, is what the site holds there.
LEMMA StagedPair ==
    ASSUME NEW pairs, NEW path, NEW content, <<path, content>> \in pairs,
           \A pair \in pairs : pair[1] = path => pair[2] = content
    PROVE  path \in DOMAIN Assets(pairs) /\ Assets(pairs)[path] = content
BY DEF Assets

\* Addresses of different lengths differ, and so do those that differ in a part.
LEMMA Apart ==
    ASSUME NEW a, NEW b, NEW c, NEW d, NEW f, NEW p, NEW q, NEW r, NEW s, NEW t
    PROVE  /\ <<a, b, c>> = <<p, q, r>> => a = p /\ b = q /\ c = r
           /\ <<a, b, c, d, f>> = <<p, q, r, s, t>> => a = p /\ b = q /\ c = r /\ d = s /\ f = t
           /\ <<a, b, c>> # <<p>> /\ <<a, b, c>> # <<p, q>> 
           /\ <<a, b, c>> # <<p, q, r, s>> /\ <<a, b, c>> # <<p, q, r, s, t>>
           /\ <<a, b, c, d, f>> # <<p>> /\ <<a, b, c, d, f>> # <<p, q>> 
           /\ <<a, b, c, d, f>> # <<p, q, r>> /\ <<a, b, c, d, f>> # <<p, q, r, s>>
OBVIOUS

\* What else is staged of an election has other addresses.
OwnPages(d, bundle, pair, e) ==
    /\ pair[1] = Page(Home(e)) =>
          e = d.election /\ pair[2] = [page |-> "guide", guide |-> bundle.files.guide]
    /\ pair[1] = At(e, <<"release-manifest.json">>) => e = d.election /\ pair[2] = bundle.manifest
    /\ \A r : pair[1] = Page(At(e, <<"races", r>>)) =>
          /\ e = d.election
          /\ pair[2] = [page |-> "race", race |-> r, told |-> bundle.files.view.facts.told,
                        commit |-> bundle.files.view.commit]

\* Every file that is staged of an election is of this kind.
LEMMA PagesOfElection ==
    ASSUME NEW d, NEW bundle, NEW current, NEW authored, NEW e,
           NEW pair \in ElectionAssets(d, bundle, current, authored)
    PROVE  OwnPages(d, bundle, pair, e)
<1> USE DEF OwnPages
<1> DEFINE id == d.election
<1>1. \A r : /\ Page(Home(e)) = <<"e", e, "index.html">>
             /\ At(e, <<"release-manifest.json">>) = <<"e", e, "release-manifest.json">>
             /\ Page(At(e, <<"races", r>>)) = <<"e", e, "races", r, "index.html">>
  BY Addressed
<1>2. CASE pair = <<Page(Home(id)), [page |-> "guide", guide |-> bundle.files.guide]>>
  <2>1. pair[1] = <<"e", id, "index.html">> /\ pair[2] = [page |-> "guide", guide |-> bundle.files.guide]
    BY <1>2, Addressed
  <2> QED BY <1>1, <2>1, Apart
<1>3. CASE \E status : pair = <<At(id, <<"release-status.json">>), status>>
  <2>0. At(id, <<"release-status.json">>) = <<"e", id, "release-status.json">>
    BY Addressed
  <2>1. pair[1] = <<"e", id, "release-status.json">>
    BY <1>3, <2>0
  <2> QED BY <1>1, <2>1, Apart
<1>4. CASE pair = <<At(id, <<"release-manifest.json">>), bundle.manifest>>
  <2>1. pair[1] = <<"e", id, "release-manifest.json">> /\ pair[2] = bundle.manifest
    BY <1>4, Addressed
  <2> QED BY <1>1, <2>1, Apart
<1>5. CASE \E name, page : pair = <<Page(At(id, <<name>>)), page>>
  <2>0. \A name : Page(At(id, <<name>>)) = <<"e", id, name, "index.html">>
    BY Addressed
  <2>1. \E name : pair[1] = <<"e", id, name, "index.html">>
    BY <1>5, <2>0
  <2> QED BY <1>1, <2>1, Apart
<1>6. CASE \E r \in bundle.files.view.facts.races :
              pair = <<Page(At(id, <<"races", r>>)),
                       [page |-> "race", race |-> r, told |-> bundle.files.view.facts.told,
                        commit |-> bundle.files.view.commit]>>
  <2>1. PICK r : pair = <<Page(At(id, <<"races", r>>)),
                       [page |-> "race", race |-> r, told |-> bundle.files.view.facts.told,
                        commit |-> bundle.files.view.commit]>>
    BY <1>6
  <2>2. /\ pair[1] = <<"e", id, "races", r, "index.html">>
        /\ pair[2] = [page |-> "race", race |-> r, told |-> bundle.files.view.facts.told,
                        commit |-> bundle.files.view.commit]
    BY <2>1, Addressed
  <2> QED BY <1>1, <2>2, Apart
<1>7. CASE \E r, card : pair = <<At(id, <<"races", r, "og-image.png">>), card>>
  <2>0. \A r : At(id, <<"races", r, "og-image.png">>) = <<"e", id, "races", r, "og-image.png">>
    BY JoinsThree, Zenon DEF At, Home
  <2>1. PICK r : pair[1] = <<"e", id, "races", r, "og-image.png">>
    BY <1>7, <2>0
  <2> QED BY <1>1, <2>1, Apart
<1>8. \/ pair = <<Page(Home(id)), [page |-> "guide", guide |-> bundle.files.guide]>>
      \/ \E status : pair = <<At(id, <<"release-status.json">>), status>>
      \/ pair = <<At(id, <<"release-manifest.json">>), bundle.manifest>>
      \/ \E name, page : pair = <<Page(At(id, <<name>>)), page>>
      \/ \E r \in bundle.files.view.facts.races :
              pair = <<Page(At(id, <<"races", r>>)),
                       [page |-> "race", race |-> r, told |-> bundle.files.view.facts.told,
                        commit |-> bundle.files.view.commit]>>
      \/ \E r, card : pair = <<At(id, <<"races", r, "og-image.png">>), card>>
  BY Zenon DEF ElectionAssets
<1> QED BY <1>2, <1>3, <1>4, <1>5, <1>6, <1>7, <1>8

\* Nor has anything that is staged for the whole site.
LEMMA PagesOfSite ==
    ASSUME NEW e, NEW path,
           path \in {Page(<<"e">>), Page(<<"about">>), CalendarPath, <<"_headers">>, <<"_worker.js">>, SnapshotPath}
                    \cup Single
    PROVE  /\ path # Page(Home(e)) /\ path # At(e, <<"release-manifest.json">>)
           /\ \A r : path # Page(At(e, <<"races", r>>))
<1>1. \A r : /\ Page(Home(e)) = <<"e", e, "index.html">>
             /\ At(e, <<"release-manifest.json">>) = <<"e", e, "release-manifest.json">>
             /\ Page(At(e, <<"races", r>>)) = <<"e", e, "races", r, "index.html">>
  BY Addressed
<1>2. Page(<<"e">>) = <<"e", "index.html">> /\ Page(<<"about">>) = <<"about", "index.html">>
  BY Addressed
<1>3. (\E a : path = <<a>>) \/ (\E a, b : path = <<a, b>>)
  BY <1>2 DEF CalendarPath, SnapshotPath, Single
<1> QED BY <1>1, <1>3, Apart

\* The elections of a site differ, and so do their bundles.
LEMMA ElectionsDiffer ==
    ASSUME NEW site, ManifestDeclares(site), site.elections \in Seq(Elections(site)),
           NEW i \in 1..Len(site.elections), NEW j \in 1..Len(site.elections)
    PROVE  /\ site.elections[i].election = site.elections[j].election => i = j
           /\ site.elections[i].bundle = site.elections[j].bundle => i = j
<1> DEFINE n == Len(site.elections)
           of(field) == {site.elections[k][field] : k \in 1..n}
<1>1. n \in Nat /\ IsFiniteSet(1..n) /\ Cardinality(1..n) = n
  BY FS_Interval
<1>2. ASSUME NEW field \in {"election", "bundle"}, Cardinality(of(field)) = n,
             site.elections[i][field] = site.elections[j][field]
      PROVE  i = j
  <2> DEFINE f == [k \in 1..n |-> site.elections[k][field]]
  <2>1. f \in Surjection(1..n, of(field))
    BY DEF Surjection
  <2>2. f \in Injection(1..n, of(field))
    BY <1>1, <1>2, <2>1, FS_Surjection
  <2> QED BY <1>2, <2>2 DEF Injection, IsInjective
<1> QED BY <1>2 DEF ManifestDeclares

\* A staged site shows of every election the bundle it was given.
LEMMA StagedShows ==
    ASSUME NEW site, ManifestDeclares(site), site.elections \in Seq(Elections(site)),
           NEW bundles, NEW authored, NEW calendar, NEW d \in Elections(site)
    PROVE  Shows(Staged(site, bundles, authored, calendar), d, bundles[d.bundle])
<1> DEFINE current == bundles[site.elections[1].bundle]
           bundle == bundles[d.bundle]
           e == d.election
           worker == Worker(site, current, PublicPaths(site, bundles, authored))
           ofElections == UNION {ElectionAssets(x, bundles[x.bundle], current, authored) : x \in Elections(site)}
           ofSite == {<<Page(<<"e">>), SitePage("archive", current, site.current)>>,
                      <<Page(<<"about">>), SitePage("about", current, site.current)>>,
                      <<CalendarPath, [calendar |-> calendar, at |-> current.status.time,
                                       elections |-> {x.election : x \in Elections(site)}]>>,
                      <<<<"_headers">>, [headers |-> "headers"]>>,
                      <<<<"_worker.js">>, worker>>}
           icons == {<<path, [icon |-> path]>> : path \in Single}
           pairs == ofElections \cup ofSite \cup icons
           pages == StagedAssets(site, bundles, authored, calendar)
           assets == Staged(site, bundles, authored, calendar).assets
           guide == [page |-> "guide", guide |-> bundle.files.guide]
           race(r) == [page |-> "race", race |-> r, told |-> bundle.files.view.facts.told,
                       commit |-> bundle.files.view.commit]
<1>1. pages = Assets(pairs)
  BY DEF StagedAssets
<1>2. /\ <<Page(Home(e)), guide>> \in pairs
      /\ <<At(e, <<"release-manifest.json">>), bundle.manifest>> \in pairs
      /\ \A r \in Facts(bundle).races : <<Page(At(e, <<"races", r>>)), race(r)>> \in pairs
  <2>1. /\ <<Page(Home(e)), guide>> \in ElectionAssets(d, bundle, current, authored)
        /\ <<At(e, <<"release-manifest.json">>), bundle.manifest>> \in ElectionAssets(d, bundle, current, authored)
        /\ \A r \in bundle.files.view.facts.races :
              <<Page(At(e, <<"races", r>>)), race(r)>> \in ElectionAssets(d, bundle, current, authored)
    BY Zenon DEF ElectionAssets
  <2>2. ElectionAssets(d, bundle, current, authored) \subseteq pairs
    OBVIOUS
  <2> QED BY <2>1, <2>2 DEF Facts
<1>3. ASSUME NEW x \in Elections(site), x.election = e
      PROVE  x = d
  BY <1>3, ElectionsDiffer DEF Elections
<1>4. ASSUME NEW pair \in pairs
      PROVE  /\ pair[1] = Page(Home(e)) => pair[2] = guide
             /\ pair[1] = At(e, <<"release-manifest.json">>) => pair[2] = bundle.manifest
             /\ \A r : pair[1] = Page(At(e, <<"races", r>>)) => pair[2] = race(r)
  <2>1. CASE pair \in ofElections
    <3>1. PICK x \in Elections(site) : pair \in ElectionAssets(x, bundles[x.bundle], current, authored)
      BY <2>1
    <3> HIDE DEF current
    <3>2. OwnPages(x, bundles[x.bundle], pair, e)
      BY <3>1, PagesOfElection
    <3> QED BY <1>3, <3>2 DEF OwnPages
  <2>2. CASE pair \in ofSite \cup icons
    <3>1. pair[1] \in {Page(<<"e">>), Page(<<"about">>), CalendarPath, <<"_headers">>, <<"_worker.js">>,
                       SnapshotPath} \cup Single
      BY <2>2
    <3> QED BY <3>1, PagesOfSite
  <2> QED BY <2>1, <2>2
<1>5. SnapshotPath # Page(Home(e)) /\ SnapshotPath # At(e, <<"release-manifest.json">>)
      /\ \A r : SnapshotPath # Page(At(e, <<"races", r>>))
  BY PagesOfSite
<1>6. \A path \in DOMAIN pages : path # SnapshotPath => assets[path] = pages[path]
  BY DEF Staged, With
<1> HIDE DEF pairs, pages, assets, guide, race
<1>7. Page(Home(e)) \in DOMAIN pages /\ pages[Page(Home(e))] = guide
  BY <1>1, <1>2, <1>4, StagedPair
<1>8. /\ At(e, <<"release-manifest.json">>) \in DOMAIN pages
      /\ pages[At(e, <<"release-manifest.json">>)] = bundle.manifest
  BY <1>1, <1>2, <1>4, StagedPair
<1>9. ASSUME NEW r \in Facts(bundle).races
      PROVE  /\ Page(At(e, <<"races", r>>)) \in DOMAIN pages
             /\ pages[Page(At(e, <<"races", r>>))] = race(r)
  <2>1. <<Page(At(e, <<"races", r>>)), race(r)>> \in pairs
    BY <1>2, <1>9
  <2>2. \A pair \in pairs : pair[1] = Page(At(e, <<"races", r>>)) => pair[2] = race(r)
    BY <1>4
  <2> QED BY <1>1, <2>1, <2>2, StagedPair
<1>10. /\ assets[Page(Home(e))] = guide
       /\ assets[At(e, <<"release-manifest.json">>)] = bundle.manifest
       /\ \A r \in Facts(bundle).races : assets[Page(At(e, <<"races", r>>))] = race(r)
  BY <1>5, <1>6, <1>7, <1>8, <1>9
<1>11. /\ assets[Page(Home(e))].guide = bundle.files.guide
       /\ assets[At(e, <<"release-manifest.json">>)] = bundle.manifest
       /\ \A r \in Facts(bundle).races : assets[Page(At(e, <<"races", r>>))].told = Facts(bundle).told
  <2>1. guide.guide = bundle.files.guide
    BY DEF guide
  <2>2. \A r : race(r).told = Facts(bundle).told
    BY DEF race, Facts
  <2> QED BY <1>10, <2>1, <2>2
<1> QED BY <1>11 DEF assets, Shows

\* The manifest tells everything of a build but its screenshots.
LEMMA ManifestTells ==
    ASSUME NEW s, NEW t, NEW v, NEW w, NEW x, NEW y, Bundle(s, v, x).manifest = Bundle(t, w, y).manifest
    PROVE  Bundle(s, v, x) = Bundle(t, w, x)
<1> DEFINE named == {"dataset", "tables", "consensus", "view", "validation", "provenance", "build",
                     "notes", "guide", "screens"}
           hashes(source, version, shots) == Bundle(source, version, shots).manifest.hashes
<1>1. \A source, shots : DOMAIN Files(source, shots) = named
  BY DEF Files
<1>2. ASSUME NEW source, NEW version, NEW shots
      PROVE  /\ hashes(source, version, shots) = ArtifactHashes(Files(source, shots), Bundle(source, version, shots).status)
             /\ Bundle(source, version, shots).files = Files(source, shots)
             /\ Bundle(source, version, shots).status =
                    ReleaseStatus(source, version, named \cup {"status", "manifest"})
  BY <1>1 DEF Bundle
<1>3. ASSUME NEW source, NEW version, NEW shots
      PROVE  /\ hashes(source, version, shots).status = Bundle(source, version, shots).status
             /\ \A f \in named \ {"screens"} : hashes(source, version, shots)[f] = Files(source, shots)[f]
  <2> DEFINE files == Files(source, shots)
             status == Bundle(source, version, shots).status
             tree == Tree([files |-> files, status |-> status])
  <2> HIDE DEF files, status
  <2>1. DOMAIN tree = named \cup {"status"} /\ tree.status = status /\ \A f \in named : tree[f] = files[f]
    BY <1>1 DEF Tree, files
  <2>2. ArtifactHashes(files, status) = [f \in (named \cup {"status"}) \ {"screens"} |-> tree[f]]
    BY <2>1 DEF ArtifactHashes, Unhashed
  <2>3. hashes(source, version, shots) = ArtifactHashes(files, status)
    BY <1>2 DEF files, status
  <2> HIDE DEF tree, hashes
  <2> QED BY <2>1, <2>2, <2>3 DEF files, status
<1>4. Bundle(s, v, x).status = Bundle(t, w, x).status
  BY <1>2, <1>3
<1>5. Files(s, x) = Files(t, x)
  <2>1. \A f \in named \ {"screens"} : Files(s, x)[f] = Files(t, y)[f]
    BY <1>3
  <2>2. \A source : Files(source, x).screens = x
    BY DEF Files
  <2>3. \A f \in named \ {"screens"} : Files(t, x)[f] = Files(t, y)[f]
    BY DEF Files
  <2> QED BY <1>1, <2>1, <2>2, <2>3 DEF Files
<1>6. Bundle(s, v, x).manifest = Bundle(t, w, x).manifest
  BY <1>2, <1>4, <1>5 DEF Bundle
<1> QED BY <1>4, <1>5, <1>6 DEF Bundle

\* The order of the steps.
LEMMA StepsFollow ==
    /\ FollowingStep(<<"check", "a">>) = <<"read", "a">> /\ FollowingStep(<<"read", "a">>) = <<"swap", "a">>
    /\ FollowingStep(<<"swap", "a">>) = <<"check", "b">> /\ FollowingStep(<<"check", "b">>) = <<"read", "b">>
    /\ FollowingStep(<<"read", "b">>) = <<"swap", "b">>
    /\ FollowingStep(<<"swap", "b">>) = <<"compare", "both">>
    /\ FollowingStep(<<"compare", "both">>) = <<"resolve", "all">>
    /\ FollowingStep(<<"resolve", "all">>) = <<"stage", "site">>
    /\ FollowingStep(<<"stage", "site">>) = <<"swap", "site">>
    /\ FollowingStep(<<"swap", "site">>) = <<"recheck", "site">>
<1>1. /\ Len(Steps) = 11
      /\ Steps[1] = <<"check", "a">> /\ Steps[2] = <<"read", "a">> /\ Steps[3] = <<"swap", "a">>
      /\ Steps[4] = <<"check", "b">> /\ Steps[5] = <<"read", "b">> /\ Steps[6] = <<"swap", "b">>
      /\ Steps[7] = <<"compare", "both">> /\ Steps[8] = <<"resolve", "all">>
      /\ Steps[9] = <<"stage", "site">> /\ Steps[10] = <<"swap", "site">>
      /\ Steps[11] = <<"recheck", "site">>
  BY DEF Steps
<1>2. \A i, j \in 1..11 : Steps[i] = Steps[j] => i = j
  BY <1>1
<1>3. ASSUME NEW i \in 1..10
      PROVE  FollowingStep(Steps[i]) = Steps[i + 1]
  <2>1. (CHOOSE j \in 1..11 : Steps[j] = Steps[i]) = i
    BY <1>2
  <2> QED BY <1>1, <2>1 DEF FollowingStep
<1>4. /\ FollowingStep(Steps[1]) = Steps[2] /\ FollowingStep(Steps[2]) = Steps[3]
      /\ FollowingStep(Steps[3]) = Steps[4] /\ FollowingStep(Steps[4]) = Steps[5]
      /\ FollowingStep(Steps[5]) = Steps[6] /\ FollowingStep(Steps[6]) = Steps[7]
      /\ FollowingStep(Steps[7]) = Steps[8] /\ FollowingStep(Steps[8]) = Steps[9]
      /\ FollowingStep(Steps[9]) = Steps[10] /\ FollowingStep(Steps[10]) = Steps[11]
  BY <1>3
<1> QED BY <1>1, <1>4

\* No command at work.
Resting ==
    /\ job.step = <<"idle", "">>
    /\ job = [step |-> job.step, source |-> job.source, made |-> job.made, backup |-> job.backup,
              downloads |-> job.downloads]
    /\ InHand /\ Downloaded /\ TwoReadings

\* Between two commands nothing is in hand.
LEMMA IdleFacts == job = NoCommand => Resting
<1> SUFFICES ASSUME job = NoCommand PROVE Resting
  OBVIOUS
<1>1. /\ job.step = <<"idle", "">>
      /\ job = [step |-> job.step, source |-> job.source, made |-> job.made, backup |-> job.backup,
                downloads |-> job.downloads]
  BY DEF NoCommand
<1>2. DOMAIN job.downloads = {}
  <2>1. job.downloads = << >>
    BY DEF NoCommand
  <2> QED BY <2>1
<1>3. \A s \in StepSet \ {<<"idle", "">>} : job.step # s
  BY <1>1
<1>4. InHand /\ TwoReadings
  BY <1>3 DEF InHand, TwoReadings, ReadingsHold, StepSet
<1>5. Downloaded
  BY <1>2 DEF Downloaded
<1> QED BY <1>1, <1>4, <1>5 DEF Resting

\* The same of the next state.
LEMMA IdleLater == (job = NoCommand)' => Resting'
BY IdleFacts, PTL

\* A directory that is empty.
LEMMA BuildInvInit == CandidateInit => BuildInv
<1> SUFFICES ASSUME CandidateInit PROVE BuildInv
  OBVIOUS
<1>1. /\ head \in Commits /\ edited = "nothing" /\ job = NoCommand
      /\ output = [place \in Places |-> None] /\ records = {} /\ recovered = {}
      /\ budget = [attempts |-> 0, edits |-> 0, moves |-> 0, replaced |-> 0]
  BY DEF CandidateInit, Places
<1>2. BuildTypeOK
  BY <1>1, IdleFacts DEF Resting, BuildTypeOK, StepSet
<1>3. PlacesHold
  BY <1>1 DEF PlacesHold, Builds, Places
<1>4. RecordsHold
  BY <1>1 DEF RecordsHold, CandidateIsItsSource
<1> QED BY <1>1, <1>2, <1>3, <1>4, IdleFacts DEF Resting, BuildInv

\* A command that gives up leaves what stands.
LEMMA GivenUp ==
    ASSUME BuildInv, GiveUp, UNCHANGED <<Environment, output, budget>>
    PROVE  BuildInv'
<1>1. /\ head' = head /\ edited' = edited /\ records' = records /\ recovered' = recovered
      /\ output' = output /\ budget' = budget /\ job' = NoCommand
  BY DEF Environment, GiveUp
<1>2. BuildTypeOK'
  <2>1. job'.step \in StepSet /\ ~(job'.step # <<"idle", "">>)
    BY <1>1, IdleLater DEF Resting, StepSet
  <2> QED BY <1>1, <2>1, IdleLater DEF Resting, BuildInv, BuildTypeOK
<1>3. PlacesHold'
  BY <1>1 DEF BuildInv, PlacesHold
<1>4. RecordsHold'
  BY <1>1 DEF BuildInv, RecordsHold, CandidateIsItsSource
<1> QED BY <1>1, <1>2, <1>3, <1>4, IdleLater DEF Resting, BuildInv

\* A command begins at the commit that is checked out.
LEMMA BuildBegins ==
    ASSUME BuildInv, NEW commit \in Commits, BeginBuild(commit)
    PROVE  BuildInv'
<1>1. /\ head' = head /\ edited' = edited /\ records' = records /\ recovered' = recovered
      /\ output' = output /\ head = commit
      /\ job' = [step |-> <<"check", "a">>, source |-> commit, made |-> None, backup |-> None,
                 downloads |-> << >>]
      /\ budget' = [attempts |-> budget.attempts + 1, edits |-> budget.edits, moves |-> budget.moves,
                    replaced |-> budget.replaced]
  BY DEF BeginBuild, Environment, Clean, NoCommand, Steps, BuildInv, BuildTypeOK
<1>2. /\ budget'.edits = budget.edits /\ budget'.moves = budget.moves /\ job'.source = head'
      /\ DOMAIN job'.downloads = {} /\ job'.step = <<"check", "a">>
  BY <1>1
<1>3. BuildTypeOK'
  BY <1>1, <1>2 DEF BuildInv, BuildTypeOK, StepSet
<1>4. PlacesHold'
  BY <1>1, <1>2 DEF BuildInv, PlacesHold
<1>5. RecordsHold'
  BY <1>1 DEF BuildInv, RecordsHold, CandidateIsItsSource
<1>6. InHand' /\ TwoReadings'
  BY <1>2 DEF InHand, TwoReadings, ReadingsHold
<1>7. Downloaded'
  BY <1>2 DEF Downloaded
<1> QED BY <1>3, <1>4, <1>5, <1>6, <1>7 DEF BuildInv

\* A build that has the manifest of the commit's own is the commit's own.
LEMMA SameManifest ==
    ASSUME NEW x, NEW commit, NEW edits, ReadAt(x, commit, edits),
           NEW y, IsBuiltOf(y, commit), x.manifest = y.manifest
    PROVE  IsBuiltOf(x, commit)
<1> DEFINE own == SourceOf(commit, Repository[commit].inputs)
           other == SourceOf(commit, [Repository[commit].inputs EXCEPT !.facts.told = "edited"])
           version == CurrentOf(commit).version
<1>1. PICK shots \in Screens : x = Bundle(own, version, shots) \/ x = Bundle(other, version, shots)
  BY DEF ReadAt, IsBuiltOf, EditedBuild
<1>2. PICK others \in Screens :
          y = Bundle(own, version, others)
  BY DEF IsBuiltOf
<1>3. x = Bundle(own, version, shots)
  <2> HIDE DEF own, other, version
  <2> QED BY <1>1, <1>2, ManifestTells
<1> QED BY <1>3 DEF IsBuiltOf

\* What is staged of a commit's own build and of pinned bundles shows the release of the commit.
LEMMA StagedIsOf ==
    ASSUME NEW commit \in Commits, NEW archive, NEW downloads, NEW authored, NEW calendar,
           \A b \in DOMAIN downloads : \E d \in Elections(Declared(commit)) \ {CurrentOf(commit)} :
                d.bundle = b /\ d.bundlePin # None,
           CanStage(Declared(commit), With(downloads, CurrentOf(commit).bundle, archive), authored, commit)
    PROVE  LET staged == Staged(Declared(commit), With(downloads, CurrentOf(commit).bundle, archive),
                                authored, calendar)
           IN  /\ staged.deployment.elections[1].commit = commit
               /\ IsBuiltOf(archive, commit) => ShowsItsRelease(staged, commit)
<1> DEFINE site == Declared(commit)
           bundles == With(downloads, CurrentOf(commit).bundle, archive)
           staged == Staged(site, bundles, authored, calendar)
           n == Len(site.elections)
<1>1. /\ ManifestDeclares(site) /\ site.elections \in Seq(Elections(site)) /\ site.elections # << >>
      /\ DOMAIN bundles = {d.bundle : d \in Elections(site)}
      /\ \A d \in Elections(site) : BundleAnswers(d, bundles[d.bundle])
      /\ bundles[site.elections[1].bundle].status.commit = commit
  BY DeclarationsAssumption DEF CanStage, ManifestDeclares
<1>2. n \in Nat /\ 1 \in 1..n /\ site.elections[1] = CurrentOf(commit) /\ CurrentOf(commit) \in Elections(site)
  BY <1>1 DEF CurrentOf, Elections
<1>3. bundles[CurrentOf(commit).bundle] = archive /\ archive.status.commit = commit
  BY <1>1, <1>2 DEF With
<1>4. staged.deployment.elections = [i \in 1..n |->
          Deployed(site.elections[i], bundles[site.elections[i].bundle], bundles[site.elections[1].bundle], authored)]
  BY DEF Staged
<1>5. /\ staged.deployment.elections[1].commit = commit
      /\ staged.deployment.elections[1].manifest = archive.manifest
  <2>1. staged.deployment.elections[1] = Deployed(CurrentOf(commit), archive, archive, authored)
    BY <1>2, <1>3, <1>4
  <2> QED BY <1>3, <2>1 DEF Deployed
<1>6. ASSUME NEW d \in Elections(site)
      PROVE  Shows(staged, d, bundles[d.bundle])
  BY <1>1, StagedShows
<1>7. ASSUME NEW i \in 2..n
      PROVE  Shows(staged, site.elections[i], site.elections[i].bundlePin)
  <2> DEFINE d == site.elections[i]
  <2>0. i \in 1..n /\ i # 1 /\ d \in Elections(site)
    BY <1>2 DEF Elections
  <2>1. d.bundle # CurrentOf(commit).bundle
    BY <1>1, <1>2, <2>0, ElectionsDiffer
  <2>2. d.bundle \in DOMAIN downloads
    BY <1>1, <2>0, <2>1 DEF With
  <2>3. PICK x \in Elections(site) : x.bundle = d.bundle /\ x.bundlePin # None
    BY <2>2
  <2>4. x = d
    <3>1. PICK j \in 1..n : x = site.elections[j]
      BY DEF Elections
    <3> QED BY <1>1, <2>0, <2>3, <3>1, ElectionsDiffer
  <2>5. bundles[d.bundle] = d.bundlePin
    BY <1>1, <2>0, <2>3, <2>4 DEF BundleAnswers, Agrees
  <2> QED BY <1>6, <2>0, <2>5
<1>8. ASSUME IsBuiltOf(archive, commit)
      PROVE  ShowsItsRelease(staged, commit)
  <2>1. PICK shots \in Screens :
            archive = Bundle(SourceOf(commit, Repository[commit].inputs), CurrentOf(commit).version, shots)
    BY <1>8 DEF IsBuiltOf
  <2>2. Shows(staged, CurrentOf(commit), archive)
    BY <1>2, <1>3, <1>6
  <2>3. IsOf(staged, commit)
    BY <1>7, <2>1, <2>2 DEF IsOf
  <2> QED BY <1>5, <2>1, <2>3 DEF ShowsItsRelease
<1> QED BY <1>5, <1>8

\* A step that only goes on to the next one.
LEMMA Proceeds ==
    ASSUME BuildInv, Proceed, UNCHANGED <<Environment, output, budget>>,
           NEW next \in StepSet \ {<<"idle", "">>}, next = FollowingStep(job.step), job.step # <<"idle", "">>
    PROVE  /\ BuildTypeOK' /\ PlacesHold' /\ RecordsHold' /\ Downloaded'
           /\ job'.step = next /\ job'.source = job.source /\ job'.made = job.made /\ job'.backup = job.backup
           /\ head' = head /\ edited' = edited /\ output' = output /\ budget' = budget
<1>1. /\ head' = head /\ edited' = edited /\ records' = records /\ recovered' = recovered
      /\ output' = output /\ budget' = budget
      /\ job' = [step |-> next, source |-> job.source, made |-> job.made, backup |-> job.backup,
                 downloads |-> job.downloads]
  BY DEF Environment, Proceed, BuildInv, BuildTypeOK
<1>2. BuildTypeOK'
  BY <1>1 DEF BuildInv, BuildTypeOK
<1>3. PlacesHold'
  BY <1>1 DEF BuildInv, PlacesHold
<1>4. RecordsHold'
  BY <1>1 DEF BuildInv, RecordsHold, CandidateIsItsSource
<1>5. Downloaded'
  BY <1>1 DEF BuildInv, Downloaded
<1> QED BY <1>1, <1>2, <1>3, <1>4, <1>5

\* The check before a reading: after an edit that was undone, the one that can be made was made.
LEMMA CheckoutChecked ==
    ASSUME BuildInv, NEW b \in Builds, CheckCheckout(b)
    PROVE  BuildInv'
<1>1. CASE ~Clean(job.source)
  BY <1>1, GivenUp DEF CheckCheckout
<1>2. CASE Clean(job.source)
  <2>1. /\ Proceed /\ UNCHANGED <<Environment, output, budget>> /\ job.step = <<"check", b>>
        /\ FollowingStep(job.step) = <<"read", b>>
    BY <1>2, StepsFollow DEF CheckCheckout, Builds
  <2>2. <<"read", b>> \in StepSet \ {<<"idle", "">>} /\ job.step # <<"idle", "">>
    BY <2>1 DEF StepSet, Builds
  <2>3. /\ BuildTypeOK' /\ PlacesHold' /\ RecordsHold' /\ Downloaded'
        /\ job'.step = <<"read", b>> /\ job'.source = job.source
        /\ head' = head /\ edited' = edited /\ output' = output /\ budget' = budget
    BY <2>1, <2>2, Proceeds
  <2>4. InHand'
    BY <2>3 DEF InHand
  <2>5. TwoReadings'
    <3> SUFFICES ASSUME job'.source = head' PROVE ReadingsHold'
      BY DEF TwoReadings
    <3>1. CASE b = "a"
      BY <2>3, <3>1 DEF ReadingsHold
    <3>2. CASE b = "b"
      <4>1. ReadAt(output.a, head, budget.edits)
        BY <2>1, <2>3, <3>2 DEF BuildInv, TwoReadings, ReadingsHold
      <4>2. IsBuiltOf(output.a, head) \/ (edited = "nothing" /\ budget.edits = 1)
        BY <1>2, <4>1 DEF ReadAt, Clean
      <4>3. /\ ReadAt(output.a, head, budget.edits)'
            /\ (IsBuiltOf(output.a, head) \/ (edited = "nothing" /\ budget.edits = 1))'
        BY <2>3, <4>1, <4>2
      <4> QED BY <2>3, <3>2, <4>3 DEF ReadingsHold
    <3> QED BY <3>1, <3>2 DEF Builds
  <2> QED BY <2>3, <2>4, <2>5 DEF BuildInv
<1> QED BY <1>1, <1>2

\* A reading: of the commit itself, or of the edited data when an edit has been made.
LEMMA CheckoutRead ==
    ASSUME BuildInv, NEW b \in Builds, NEW shots \in Screens, ReadCheckout(b, shots)
    PROVE  BuildInv'
<1> DEFINE built == Bundle(SourceOf(job.source, InputsRead), CurrentOf(job.source).version, shots)
<1>1. CASE ~BundleVerifies(built)
  BY <1>1, GivenUp DEF ReadCheckout
<1>2. CASE BundleVerifies(built)
  <2>1. /\ job.step = <<"read", b>> /\ job.step # <<"idle", "">>
        /\ FollowingStep(job.step) = <<"swap", b>> /\ <<"swap", b>> \in StepSet
    BY StepsFollow DEF ReadCheckout, Builds, StepSet
  <2>2. /\ head' = head /\ edited' = edited /\ records' = records /\ recovered' = recovered
        /\ budget' = budget /\ output' = [output EXCEPT ![b] = None]
        /\ job' = [step |-> <<"swap", b>>, source |-> job.source, made |-> built, backup |-> output[b],
                   downloads |-> job.downloads]
    BY <1>2, <2>1 DEF ReadCheckout, Environment, BuildInv, BuildTypeOK
  <2> HIDE DEF built
  <2>3. BuildTypeOK'
    <3>1. output' = [place \in Places |-> output'[place]]
      BY <2>2 DEF BuildInv, BuildTypeOK
    <3>2. job' = [step |-> job'.step, source |-> job'.source, made |-> job'.made, backup |-> job'.backup,
                  downloads |-> job'.downloads]
      BY <2>2
    <3>3. job'.step \in StepSet /\ job'.source = job.source
      BY <2>1, <2>2
    <3> QED BY <2>1, <2>2, <3>1, <3>2, <3>3 DEF BuildInv, BuildTypeOK
  <2>4. PlacesHold'
    BY <2>2 DEF BuildInv, BuildTypeOK, PlacesHold, Builds, Places
  <2>5. RecordsHold'
    BY <2>2 DEF BuildInv, RecordsHold, CandidateIsItsSource
  <2>6. Downloaded'
    BY <2>2 DEF BuildInv, Downloaded
  <2>7. built.status.commit = job.source
    BY DEF built, Bundle, ReleaseStatus, SourceOf
  <2>8. job.source = head => /\ ReadAt(built, head, budget.edits)
                             /\ edited = "nothing" => IsBuiltOf(built, head)
    <3>1. CASE edited = "nothing"
      BY <3>1 DEF built, InputsRead, ReadAt, IsBuiltOf
    <3>2. CASE edited # "nothing"
      BY <3>2 DEF built, InputsRead, ReadAt, EditedBuild, BuildInv, BuildTypeOK
    <3> QED BY <3>1, <3>2
  <2>9. Made(built, head, budget.edits, budget.moves)
    BY <2>1, <2>7, <2>8 DEF Made, BuildInv, BuildTypeOK
  <2>10. output[b] # None => Made(output[b], head, budget.edits, budget.moves)
    BY DEF BuildInv, PlacesHold
  <2>11. InHand'
    BY <2>2, <2>9, <2>10 DEF InHand, Builds
  <2>12. TwoReadings'
    <3> SUFFICES ASSUME job'.source = head' PROVE ReadingsHold'
      BY DEF TwoReadings
    <3>1. ReadAt(built, head, budget.edits) /\ (edited = "nothing" => IsBuiltOf(built, head))
      BY <2>2, <2>8
    <3>2. CASE b = "a"
      BY <2>2, <3>1, <3>2 DEF ReadingsHold
    <3>3. CASE b = "b"
      <4>1. /\ ReadAt(output.a, head, budget.edits)
            /\ IsBuiltOf(output.a, head) \/ (edited = "nothing" /\ budget.edits = 1)
        BY <2>1, <2>2, <3>3 DEF BuildInv, TwoReadings, ReadingsHold
      <4>2. output'.a = output.a
        BY <2>2, <3>3 DEF BuildInv, BuildTypeOK, Places
      <4>3. OneReading(output.a, job.made, head, budget.edits)'
        BY <2>2, <3>1, <4>1, <4>2 DEF OneReading
      <4> QED BY <2>2, <3>3, <4>3 DEF ReadingsHold
    <3> QED BY <3>2, <3>3 DEF Builds
  <2> QED BY <2>3, <2>4, <2>5, <2>6, <2>11, <2>12 DEF BuildInv
<1> QED BY <1>1, <1>2

\* What was made takes its place, or what stood there comes back.
LEMMA MovedIn ==
    ASSUME BuildInv, NEW place \in Places, MoveIn(place)
    PROVE  BuildInv'
<1> DEFINE done == <<"swap", place>>
<1>1. /\ job.step = done /\ job.step # <<"idle", "">> /\ head' = head /\ edited' = edited
      /\ records' = records /\ recovered' = recovered /\ budget' = budget
  BY DEF MoveIn, Environment, Places
<1>2. FollowingStep(job.step) \in StepSet
      /\ (place = "a" => FollowingStep(job.step) = <<"check", "b">>)
      /\ (place = "b" => FollowingStep(job.step) = <<"compare", "both">>)
      /\ (place = "site" => FollowingStep(job.step) = <<"recheck", "site">>)
  BY <1>1, StepsFollow DEF StepSet, Places
<1>3. RecordsHold'
  BY <1>1 DEF BuildInv, RecordsHold, CandidateIsItsSource
<1>4. ASSUME NEW put, output' = [output EXCEPT ![place] = put],
             place # "site" => put = None \/ Made(put, head, budget.edits, budget.moves),
             place = "site" => put = None \/ MadeSite(put, head, budget.moves)
      PROVE  /\ PlacesHold' /\ output' = [p \in Places |-> output'[p]] /\ output'[place] = put
             /\ \A p \in Places \ {place} : output'[p] = output[p]
  <2>1. /\ output' = [p \in Places |-> output'[p]] /\ output'[place] = put
        /\ \A p \in Places \ {place} : output'[p] = output[p]
    BY <1>4 DEF BuildInv, BuildTypeOK
  <2>2. PlacesHold'
    BY <1>1, <1>4, <2>1 DEF BuildInv, PlacesHold, Builds, Places
  <2> QED BY <2>1, <2>2
<1>5. /\ place # "site" => Made(job.made, head, budget.edits, budget.moves)
                           /\ (job.backup = None \/ Made(job.backup, head, budget.edits, budget.moves))
      /\ place = "site" => MadeSite(job.made, head, budget.moves)
                           /\ (job.backup = None \/ MadeSite(job.backup, head, budget.moves))
  BY <1>1 DEF BuildInv, InHand, Places
<1>6. CASE output' = [output EXCEPT ![place] = job.backup] /\ GiveUp
  <2>1. PlacesHold' /\ output' = [p \in Places |-> output'[p]]
    BY <1>4, <1>5, <1>6
  <2>2. job' = NoCommand
    BY <1>6 DEF GiveUp
  <2>3. BuildTypeOK'
    <3>1. job'.step \in StepSet /\ ~(job'.step # <<"idle", "">>)
      BY <2>2, IdleLater DEF Resting, StepSet
    <3> QED BY <1>1, <2>1, <2>2, <3>1, IdleLater DEF Resting, BuildInv, BuildTypeOK
  <2> QED BY <1>3, <2>1, <2>2, <2>3, IdleLater DEF Resting, BuildInv
<1>7. CASE /\ output' = [output EXCEPT ![place] = job.made]
           /\ job' = [job EXCEPT !.step = FollowingStep(job.step), !.made = None, !.backup = None]
  <2>1. /\ PlacesHold' /\ output' = [p \in Places |-> output'[p]] /\ output'[place] = job.made
        /\ \A p \in Places \ {place} : output'[p] = output[p]
    BY <1>4, <1>5, <1>7
  <2>2. /\ job' = [step |-> FollowingStep(job.step), source |-> job.source, made |-> None, backup |-> None,
                   downloads |-> job.downloads]
    BY <1>7 DEF BuildInv, BuildTypeOK
  <2>3. BuildTypeOK'
    BY <1>1, <1>2, <2>1, <2>2 DEF BuildInv, BuildTypeOK
  <2>4. Downloaded'
    BY <2>2 DEF BuildInv, Downloaded
  <2>5. InHand'
    BY <1>2, <2>2 DEF InHand, Places
  <2>6. TwoReadings'
    <3> SUFFICES ASSUME job'.source = head' PROVE ReadingsHold'
      BY DEF TwoReadings
    <3>1. CASE place = "a"
      <4>1. ReadAt(job.made, head, budget.edits)
        BY <1>1, <2>2, <3>1 DEF BuildInv, TwoReadings, ReadingsHold
      <4>2. ReadAt(output.a, head, budget.edits)'
        BY <1>1, <2>1, <3>1, <4>1
      <4> QED BY <1>2, <2>2, <3>1, <4>2 DEF ReadingsHold
    <3>2. CASE place = "b"
      <4>1. OneReading(output.a, job.made, head, budget.edits)
        BY <1>1, <2>2, <3>2 DEF BuildInv, TwoReadings, ReadingsHold
      <4>2. output'.a = output.a /\ output'.b = job.made
        BY <2>1, <3>2 DEF Places
      <4>3. OneReading(output.a, output.b, head, budget.edits)'
        BY <1>1, <4>1, <4>2
      <4> QED BY <1>2, <2>2, <3>2, <4>3 DEF ReadingsHold
    <3>3. CASE place = "site"
      BY <1>2, <2>2, <3>3 DEF ReadingsHold
    <3> QED BY <3>1, <3>2, <3>3 DEF Places
  <2> QED BY <1>3, <2>1, <2>3, <2>4, <2>5, <2>6 DEF BuildInv
<1> QED BY <1>6, <1>7 DEF MoveIn

\* The two builds compared: what both say is what the one that read the commit says.
LEMMA Compared ==
    ASSUME BuildInv, Compare
    PROVE  BuildInv'
<1>1. CASE ~(Reproduces(output.a, output.b) /\ ArchiveHolds(output.a))
  BY <1>1, GivenUp DEF Compare
<1>2. CASE Reproduces(output.a, output.b) /\ ArchiveHolds(output.a)
  <2>1. /\ Proceed /\ UNCHANGED <<Environment, output, budget>> /\ job.step = <<"compare", "both">>
        /\ FollowingStep(job.step) = <<"resolve", "all">> /\ job.step # <<"idle", "">>
        /\ <<"resolve", "all">> \in StepSet \ {<<"idle", "">>}
    BY <1>2, StepsFollow DEF Compare, StepSet
  <2>2. /\ BuildTypeOK' /\ PlacesHold' /\ RecordsHold' /\ Downloaded'
        /\ job'.step = <<"resolve", "all">> /\ job'.source = job.source
        /\ head' = head /\ edited' = edited /\ output' = output /\ budget' = budget
    BY <2>1, Proceeds
  <2>3. InHand'
    BY <2>2 DEF InHand
  <2>4. TwoReadings'
    <3> SUFFICES ASSUME job'.source = head' PROVE ReadingsHold'
      BY DEF TwoReadings
    <3>1. OneReading(output.a, output.b, head, budget.edits)
      BY <2>1, <2>2 DEF BuildInv, TwoReadings, ReadingsHold
    <3>2. output.a.manifest = output.b.manifest
      BY <1>2 DEF Reproduces
    <3>3. IsBuiltOf(output.a, head)
      BY <3>1, <3>2, SameManifest DEF OneReading
    <3>4. IsBuiltOf(output.a, head)'
      BY <2>2, <3>3
    <3> QED BY <2>2, <3>4 DEF ReadingsHold
  <2> QED BY <2>2, <2>3, <2>4 DEF BuildInv
<1> QED BY <1>1, <1>2

\* What is invariant of the command and the directory, while nothing of them changes.
LEMMA Untouched ==
    ASSUME BuildInv, head' = head, edited' = edited, job' = job, output' = output, budget' = budget
    PROVE  BuildTypeOK' /\ PlacesHold' /\ InHand' /\ Downloaded' /\ TwoReadings'
<1>1. BuildTypeOK'
  BY DEF BuildInv, BuildTypeOK
<1>2. PlacesHold'
  BY DEF BuildInv, PlacesHold
<1>3. InHand'
  BY DEF BuildInv, InHand
<1>4. Downloaded'
  BY DEF BuildInv, Downloaded
<1>5. TwoReadings'
  <2>1. ReadingsHold => ReadingsHold'
    BY DEF ReadingsHold
  <2> QED BY <2>1 DEF BuildInv, TwoReadings
<1> QED BY <1>1, <1>2, <1>3, <1>4, <1>5

\* One more release downloaded, or all of them there.
LEMMA Resolved ==
    ASSUME BuildInv, Resolve
    PROVE  BuildInv'
<1>1. /\ job.step = <<"resolve", "all">> /\ job.step # <<"idle", "">>
      /\ UNCHANGED <<Environment, output, budget>>
  BY DEF Resolve
<1>2. CASE GiveUp
  BY <1>1, <1>2, GivenUp
<1>3. CASE Proceed
  <2>1. FollowingStep(job.step) = <<"stage", "site">> /\ <<"stage", "site">> \in StepSet \ {<<"idle", "">>}
    BY <1>1, StepsFollow DEF StepSet
  <2>2. /\ BuildTypeOK' /\ PlacesHold' /\ RecordsHold' /\ Downloaded'
        /\ job'.step = <<"stage", "site">> /\ job'.source = job.source
        /\ head' = head /\ edited' = edited /\ output' = output /\ budget' = budget
    BY <1>1, <1>3, <2>1, Proceeds
  <2>3. InHand'
    BY <2>2 DEF InHand
  <2>4. TwoReadings'
    BY <1>1, <2>2 DEF BuildInv, TwoReadings, ReadingsHold
  <2> QED BY <2>2, <2>3, <2>4 DEF BuildInv
<1>4. CASE \E d \in Awaited :
              /\ CanMaterialize(d, published)
              /\ job' = [job EXCEPT !.downloads = With(@, d.bundle, published[d.version])]
  <2>1. PICK d \in Elections(Declared(job.source)) \ {CurrentOf(job.source)} :
            /\ d.bundlePin # None
            /\ job' = [job EXCEPT !.downloads = With(@, d.bundle, published[d.version])]
    BY <1>4 DEF Awaited, CanMaterialize
  <2> DEFINE added == With(job.downloads, d.bundle, published[d.version])
  <2>a. DOMAIN added = DOMAIN job.downloads \cup {d.bundle}
    BY DEF With
  <2>b. job' = [job EXCEPT !.downloads = added]
    BY <2>1
  <2> HIDE DEF added
  <2>c. job' = [step |-> job.step, source |-> job.source, made |-> job.made, backup |-> job.backup,
                downloads |-> added]
    BY <2>b DEF BuildInv, BuildTypeOK
  <2>2. /\ head' = head /\ edited' = edited /\ records' = records /\ recovered' = recovered
        /\ output' = output /\ budget' = budget
        /\ job'.step = job.step /\ job'.source = job.source /\ job'.made = job.made
        /\ job'.backup = job.backup /\ job'.downloads = added
        /\ job' = [step |-> job'.step, source |-> job'.source, made |-> job'.made, backup |-> job'.backup,
                   downloads |-> job'.downloads]
        /\ DOMAIN job'.downloads = DOMAIN job.downloads \cup {d.bundle}
    BY <1>1, <2>a, <2>c DEF Environment
  <2>3. BuildTypeOK'
    BY <2>2 DEF BuildInv, BuildTypeOK
  <2>4. PlacesHold' /\ InHand' /\ TwoReadings'
    <3>1. PlacesHold'
      BY <2>2 DEF BuildInv, PlacesHold
    <3>2. InHand'
      BY <1>1, <2>2 DEF InHand
    <3>3. TwoReadings'
      BY <1>1, <2>2 DEF BuildInv, TwoReadings, ReadingsHold
    <3> QED BY <3>1, <3>2, <3>3
  <2>5. RecordsHold'
    BY <2>2 DEF BuildInv, RecordsHold, CandidateIsItsSource
  <2>6. Downloaded'
    BY <2>1, <2>2 DEF BuildInv, Downloaded
  <2> QED BY <2>3, <2>4, <2>5, <2>6 DEF BuildInv
<1> QED BY <1>2, <1>3, <1>4 DEF Resolve

\* The site staged of the first build and of what was downloaded.
LEMMA SiteStaged ==
    ASSUME BuildInv, Stage
    PROVE  BuildInv'
<1> DEFINE site == Declared(job.source)
           bundles == With(job.downloads, CurrentOf(job.source).bundle, output.a)
           staged == Staged(site, bundles, Repository[head].log, Repository[job.source].calendar)
           passes == /\ CanStage(site, bundles, Repository[head].log, job.source)
                     /\ StagedVerifies(staged, site, job.source)
<1>1. job.step = <<"stage", "site">> /\ job.step # <<"idle", "">> /\ job.source \in Commits
  BY DEF Stage, BuildInv, BuildTypeOK
<1>2. CASE ~passes
  BY <1>2, GivenUp DEF Stage
<1>3. CASE passes
  <2>1. FollowingStep(job.step) = <<"swap", "site">> /\ <<"swap", "site">> \in StepSet
    BY <1>1, StepsFollow DEF StepSet
  <2>2. /\ head' = head /\ edited' = edited /\ records' = records /\ recovered' = recovered
        /\ budget' = budget /\ output' = [output EXCEPT !.site = None]
        /\ job' = [step |-> <<"swap", "site">>, source |-> job.source, made |-> staged,
                   backup |-> output.site, downloads |-> job.downloads]
    BY <1>3, <2>1 DEF Stage, Environment, BuildInv, BuildTypeOK
  <2>3. /\ staged.deployment.elections[1].commit = job.source
        /\ IsBuiltOf(output.a, job.source) => ShowsItsRelease(staged, job.source)
    BY <1>1, <1>3, StagedIsOf DEF BuildInv, Downloaded
  <2> HIDE DEF staged
  <2>4. MadeSite(staged, head, budget.moves)
    BY <1>1, <2>3 DEF MadeSite, BuildInv, BuildTypeOK, TwoReadings, ReadingsHold
  <2>5. BuildTypeOK'
    <3>1. output' = [place \in Places |-> output'[place]]
      BY <2>2 DEF BuildInv, BuildTypeOK
    <3>2. job' = [step |-> job'.step, source |-> job'.source, made |-> job'.made, backup |-> job'.backup,
                  downloads |-> job'.downloads] /\ job'.source = job.source
      BY <2>2
    <3> QED BY <1>1, <2>1, <2>2, <3>1, <3>2 DEF BuildInv, BuildTypeOK
  <2>6. PlacesHold'
    BY <2>2 DEF BuildInv, BuildTypeOK, PlacesHold, Builds, Places
  <2>7. InHand'
    BY <2>2, <2>4 DEF InHand, BuildInv, PlacesHold
  <2>8. Downloaded'
    BY <2>2 DEF BuildInv, Downloaded
  <2>9. TwoReadings'
    BY <2>2 DEF TwoReadings, ReadingsHold
  <2>10. RecordsHold'
    BY <2>2 DEF BuildInv, RecordsHold, CandidateIsItsSource
  <2> QED BY <2>5, <2>6, <2>7, <2>8, <2>9, <2>10 DEF BuildInv
<1> QED BY <1>2, <1>3

\* The record, of whatever stands in the directory: the site verified is of the commit, and its manifest
\* says of the archive, whoever left it there, that it is too.
LEMMA Recorded ==
    ASSUME BuildInv, RecordCandidate
    PROVE  BuildInv'
<1> DEFINE archive == output.a  site == output.site
           record == [source |-> head, archive |-> archive, site |-> site, kept |-> TRUE]
<1>1. /\ head' = head /\ edited' = edited /\ job' = job /\ output' = output /\ budget' = budget
      /\ recovered' = recovered /\ records' = records \cup {record}
      /\ archive # None /\ site # None /\ VerifyCandidate(record, archive, site)
  BY DEF RecordCandidate
<1>2. Made(archive, head, budget.edits, budget.moves) /\ MadeSite(site, head, budget.moves)
  BY <1>1 DEF BuildInv, PlacesHold, Builds
<1>3. /\ archive.status.commit = head
      /\ site.deployment.elections[1].commit = head
      /\ site.deployment.elections[1].manifest = archive.manifest
  BY <1>1 DEF VerifyCandidate, StagedVerifies
<1>4. ReadAt(archive, head, budget.edits) /\ ShowsItsRelease(site, head)
  BY <1>2, <1>3 DEF Made, MadeSite
<1>5. IsBuiltOf(archive, head)
  <2>1. PICK shots \in Screens : site.deployment.elections[1].manifest =
            Bundle(SourceOf(head, Repository[head].inputs), CurrentOf(head).version, shots).manifest
    BY <1>4 DEF ShowsItsRelease
  <2> DEFINE own == Bundle(SourceOf(head, Repository[head].inputs), CurrentOf(head).version, shots)
  <2>2. IsBuiltOf(own, head) /\ archive.manifest = own.manifest
    BY <1>3, <2>1 DEF IsBuiltOf
  <2> HIDE DEF own
  <2> QED BY <1>4, <2>2, SameManifest
<1>6. RecordsHold'
  <2>1. IsBuiltOf(record.archive, record.source) /\ IsOf(record.site, record.source)
    BY <1>4, <1>5 DEF ShowsItsRelease
  <2> QED BY <1>1, <2>1 DEF BuildInv, RecordsHold, CandidateIsItsSource
<1>7. BuildTypeOK' /\ PlacesHold' /\ InHand' /\ Downloaded' /\ TwoReadings'
  BY <1>1, Untouched
<1> QED BY <1>6, <1>7 DEF BuildInv

\* The uploads expire, and a candidate is recovered.
LEMMA RecordUsed ==
    ASSUME BuildInv, NEW record \in records, ArtifactsExpire(record) \/ RecoverCandidate(record)
    PROVE  BuildInv'
<1>1. /\ head' = head /\ edited' = edited /\ job' = job /\ output' = output /\ budget' = budget
  BY DEF ArtifactsExpire, RecoverCandidate
<1>2. BuildTypeOK' /\ PlacesHold' /\ InHand' /\ Downloaded' /\ TwoReadings'
  BY <1>1, Untouched
<1>3. record = [source |-> record.source, archive |-> record.archive, site |-> record.site, kept |-> record.kept]
      /\ IsBuiltOf(record.archive, record.source) /\ IsOf(record.site, record.source)
  BY DEF BuildInv, RecordsHold, CandidateIsItsSource
<1>4. CASE ArtifactsExpire(record)
  <2> DEFINE kept == [source |-> record.source, archive |-> record.archive, site |-> record.site, kept |-> FALSE]
  <2>1. records' = (records \ {record}) \cup {kept} /\ recovered' = recovered
    BY <1>3, <1>4 DEF ArtifactsExpire
  <2>2. RecordsHold'
    BY <1>3, <2>1 DEF BuildInv, RecordsHold, CandidateIsItsSource
  <2> QED BY <1>2, <2>2 DEF BuildInv
<1>5. CASE RecoverCandidate(record)
  <2>1. records' = records /\ \E archive : /\ recovered' = recovered \cup {[source |-> record.source, archive |-> archive]}
                                           /\ IsBuiltOf(archive, record.source)
    BY <1>3, <1>5 DEF RecoverCandidate, Rebuild, IsBuiltOf
  <2>2. RecordsHold'
    BY <2>1 DEF BuildInv, RecordsHold, CandidateIsItsSource
  <2> QED BY <1>2, <2>2 DEF BuildInv
<1> QED BY <1>4, <1>5

\* People edit the checkout at most once, and check out another commit at most once: each check
\* asks for the checkout before it is read, and who edits it again for the second reading, and
\* undoes that again, is not noticed.
AtMostOnce == MaxEdits \in {0, 1} /\ MaxMoves \in {0, 1}

\* What people do meanwhile.
LEMMA PeopleActed ==
    ASSUME AtMostOnce, BuildInv,
           \/ \E kind \in {"data", "code"} : EditCheckout(kind)
           \/ UndoEdit
           \/ \E commit \in Commits : CheckOut(commit)
           \/ \E version, archive : ReplaceArchive(version, archive)
    PROVE  BuildInv'
<1>1. /\ job' = job /\ output' = output /\ records' = records /\ recovered' = recovered
      /\ budget' = [attempts |-> budget.attempts, edits |-> budget'.edits, moves |-> budget'.moves,
                    replaced |-> budget'.replaced]
  BY DEF EditCheckout, UndoEdit, CheckOut, ReplaceArchive, BuildInv, BuildTypeOK
<1>2. RecordsHold' /\ Downloaded'
  BY <1>1 DEF BuildInv, RecordsHold, CandidateIsItsSource, Downloaded
<1>3. CASE \E kind \in {"data", "code"} : EditCheckout(kind)
  <2>a. /\ head' = head /\ edited = "nothing" /\ edited' \in {"data", "code"}
        /\ budget.edits < MaxEdits /\ budget' = [budget EXCEPT !.edits = @ + 1]
    BY <1>3 DEF EditCheckout
  <2>b. budget.edits = 0
    <3>1. budget.edits \in {0, 1} /\ MaxEdits \in {0, 1}
      BY DEF AtMostOnce, BuildInv, BuildTypeOK
    <3> QED BY <2>a, <3>1
  <2>c. budget' = [attempts |-> budget.attempts, edits |-> budget.edits + 1, moves |-> budget.moves,
                   replaced |-> budget.replaced]
    BY <2>a DEF BuildInv, BuildTypeOK
  <2>1. /\ head' = head /\ edited = "nothing" /\ edited' \in {"data", "code"}
        /\ budget.edits = 0 /\ budget'.edits = 1 /\ budget'.moves = budget.moves
    BY <2>a, <2>b, <2>c
  <2>2. BuildTypeOK'
    BY <1>1, <2>1 DEF BuildInv, BuildTypeOK
  <2>3. \A x : /\ ReadAt(x, head, 0) => ReadAt(x, head, 1)
               /\ Made(x, head, 0, budget.moves) => Made(x, head, 1, budget.moves)
    BY DEF ReadAt, Made
  <2>4. PlacesHold' /\ InHand'
    BY <1>1, <2>1, <2>3 DEF BuildInv, PlacesHold, InHand
  <2>5. TwoReadings'
    BY <1>1, <2>1, <2>3 DEF BuildInv, TwoReadings, ReadingsHold, OneReading
  <2> QED BY <1>2, <2>2, <2>4, <2>5 DEF BuildInv
<1>4. CASE UndoEdit \/ \E version, archive : ReplaceArchive(version, archive)
  <2>1. /\ head' = head /\ edited' \in {edited, "nothing"}
        /\ edited' # edited => edited # "nothing"
        /\ budget'.edits = budget.edits /\ budget'.moves = budget.moves
    BY <1>4 DEF UndoEdit, ReplaceArchive, BuildInv, BuildTypeOK
  <2>2. BuildTypeOK'
    BY <1>1, <2>1 DEF BuildInv, BuildTypeOK
  <2>3. PlacesHold' /\ InHand'
    BY <1>1, <2>1 DEF BuildInv, PlacesHold, InHand
  <2>4. TwoReadings'
    BY <1>1, <2>1 DEF BuildInv, TwoReadings, ReadingsHold
  <2> QED BY <1>2, <2>2, <2>3, <2>4 DEF BuildInv
<1>5. CASE \E commit \in Commits : CheckOut(commit)
  <2>a. /\ head' \in Commits /\ head' # head /\ edited' = edited
        /\ budget.moves < MaxMoves /\ budget' = [budget EXCEPT !.moves = @ + 1]
    BY <1>5 DEF CheckOut
  <2>b. budget.moves = 0
    <3>1. budget.moves \in {0, 1} /\ MaxMoves \in {0, 1}
      BY DEF AtMostOnce, BuildInv, BuildTypeOK
    <3> QED BY <2>a, <3>1
  <2>c. budget' = [attempts |-> budget.attempts, edits |-> budget.edits, moves |-> budget.moves + 1,
                   replaced |-> budget.replaced]
    BY <2>a DEF BuildInv, BuildTypeOK
  <2>1. /\ head' \in Commits /\ head' # head /\ edited' = edited
        /\ budget.moves = 0 /\ budget'.moves = 1 /\ budget'.edits = budget.edits
    BY <2>a, <2>b, <2>c
  <2>s. job.step # <<"idle", "">> => job.source = head /\ head \in Commits
    BY <2>1 DEF BuildInv, BuildTypeOK
  <2>2. BuildTypeOK'
    <3>1. job'.step # <<"idle", "">> => job'.source \in Commits
      BY <1>1, <2>s
    <3>2. budget'.moves # 0 /\ budget'.moves \in {0, 1}
      BY <2>1
    <3>3. /\ budget.edits \in {0, 1} /\ (edited # "nothing" => budget.edits = 1)
          /\ edited \in {"nothing", "data", "code"} /\ job.step \in StepSet
          /\ output = [place \in Places |-> output[place]]
          /\ job = [step |-> job.step, source |-> job.source, made |-> job.made, backup |-> job.backup,
                    downloads |-> job.downloads]
      BY DEF BuildInv, BuildTypeOK
    <3>4. budget' = [attempts |-> budget'.attempts, edits |-> budget'.edits, moves |-> budget'.moves,
                     replaced |-> budget'.replaced]
      BY <2>c
    <3> QED BY <1>1, <2>1, <3>1, <3>2, <3>3, <3>4 DEF BuildTypeOK
  <2>3. \A x : /\ Made(x, head, budget.edits, 0) => Made(x, head', budget.edits, 1)
               /\ MadeSite(x, head, 0) => MadeSite(x, head', 1)
    BY <2>1 DEF Made, MadeSite
  <2>4. PlacesHold' /\ InHand'
    BY <1>1, <2>1, <2>3 DEF BuildInv, PlacesHold, InHand
  <2>5. TwoReadings'
    <3>1. job.step # <<"idle", "">> => job'.source # head'
      BY <1>1, <2>1, <2>s
    <3>2. ASSUME job.step = <<"idle", "">> PROVE ReadingsHold'
      <4>1. \A step \in StepSet \ {<<"idle", "">>} : job'.step # step
        BY <1>1, <3>2
      <4> QED BY <4>1 DEF ReadingsHold, StepSet
    <3> QED BY <3>1, <3>2 DEF TwoReadings
  <2> QED BY <1>2, <2>2, <2>4, <2>5 DEF BuildInv
<1> QED BY <1>3, <1>4, <1>5

\* The invariant is inductive.
LEMMA BuildInvStep ==
    ASSUME AtMostOnce, BuildInv, [CandidateNext]_buildVars
    PROVE  BuildInv'
<1>1. CASE UNCHANGED buildVars
  <2>1. /\ head' = head /\ edited' = edited /\ job' = job /\ output' = output /\ budget' = budget
        /\ records' = records /\ recovered' = recovered
    BY <1>1 DEF buildVars
  <2>2. RecordsHold'
    BY <2>1 DEF BuildInv, RecordsHold, CandidateIsItsSource
  <2> QED BY <2>1, <2>2, Untouched DEF BuildInv
<1>2. CASE Recheck \/ BuildDies
  BY <1>2, GivenUp DEF Recheck, BuildDies, GiveUp
<1>3. CASE CandidateNext
  BY <1>2, <1>3, BuildBegins, CheckoutChecked, CheckoutRead, MovedIn, Compared, Resolved, SiteStaged,
     Recorded, RecordUsed, PeopleActed DEF CandidateNext, Places
<1> QED BY <1>1, <1>3

(***************************************************************************)
(* A candidate is its source, for any repository, declarations, screens,   *)
(* published archives and number of commands, an archive replaced at any   *)
(* time: what is recorded or recovered is the release of its commit, and   *)
(* the site recorded with it shows that release and the pinned bundles.    *)
(* (build_current_candidate, record_candidate, recover_candidate)          *)
(***************************************************************************)
THEOREM CandidatesAreTheirSources ==
    ASSUME AtMostOnce
    PROVE  CandidateSpec => []CandidateIsItsSource
<1>1. BuildInv /\ [CandidateNext]_buildVars => BuildInv'
  BY BuildInvStep
<1>2. BuildInv => CandidateIsItsSource
  BY DEF BuildInv, RecordsHold
<1> QED BY <1>1, <1>2, BuildInvInit, PTL DEF CandidateSpec

----------------------------------------------------------------------------
(* The addresses *)

\* The words of which the addresses of a site are made, with its elections and races.
Words == {"", "e", "about", "index.html", "sources", "races", "comparisons", "compare", "updates",
          "corrections", "guide.pdf", "og-image.png", "release-status.json", "release-manifest.json",
          "favicon.svg", "favicon-32.png", "apple-touch-icon.png", "deployment-manifest.json",
          "updates-snapshot.json", "calendar.ics"}

\* A sequence, ended by one more element.
LEMMA Endings ==
    ASSUME NEW S, NEW s \in Seq(S), NEW x \in S
    PROVE  /\ Append(s, x) \in Seq(S) /\ s \o <<x>> = Append(s, x)
           /\ Len(Append(s, x)) = Len(s) + 1
           /\ Last(Append(s, x)) = x /\ Front(Append(s, x)) = s
<1>1. \A u : u = Append(s, x) =>
        /\ u \in Seq(S) /\ Len(u) = Len(s) + 1
        /\ \A i \in 1..Len(s) : u[i] = s[i]
        /\ u[Len(s) + 1] = x
  BY Ended
<1>2. ASSUME NEW u \in Seq(S), Len(u) = Len(s) + 1, \A i \in 1..Len(s) : u[i] = s[i], u[Len(s) + 1] = x
      PROVE  Last(u) = x /\ Front(u) = s
  <2>1. Last(u) = x
    BY <1>2 DEF Last
  <2>2. \A f : f = SubSeq(u, 1, Len(s)) => f \in Seq(S) /\ Len(f) = Len(s) /\ \A i \in 1..Len(s) : f[i] = s[i]
    BY <1>2
  <2>3. ASSUME NEW f \in Seq(S), Len(f) = Len(s), \A i \in 1..Len(s) : f[i] = s[i]
        PROVE  f = s
    BY <2>3
  <2>4. SubSeq(u, 1, Len(s)) = s
    BY <2>2, <2>3
  <2> QED BY <1>2, <2>1, <2>4 DEF Front
<1>3. \A u : u = s \o <<x>> =>
        /\ u \in Seq(S) /\ Len(u) = Len(s) + 1
        /\ \A i \in 1..Len(s) : u[i] = s[i]
        /\ u[Len(s) + 1] = x
  OBVIOUS
<1>4. s \o <<x>> = Append(s, x)
  BY <1>1, <1>3
<1> QED BY <1>1, <1>2, <1>4

\* A sequence without its last element.
LEMMA Fronts ==
    ASSUME NEW S, NEW s \in Seq(S), Len(s) > 1
    PROVE  /\ Front(s) \in Seq(S) /\ Len(Front(s)) = Len(s) - 1
           /\ Last(Front(s)) = s[Len(s) - 1]
<1>1. \A f : f = SubSeq(s, 1, Len(s) - 1) =>
          f \in Seq(S) /\ Len(f) = Len(s) - 1 /\ \A i \in 1..(Len(s) - 1) : f[i] = s[i]
  OBVIOUS
<1> QED BY <1>1 DEF Front, Last

\* A page of a directory, and the directory with its closing slash.
LEMMA BothOf ==
    ASSUME NEW S, Words \subseteq S, NEW dir \in Seq(S)
    PROVE  /\ Slash(dir) \in Seq(S) /\ Page(dir) \in Seq(S)
           /\ Len(Slash(dir)) = Len(dir) + 1
           /\ Last(Slash(dir)) = "" /\ Front(Slash(dir)) = dir
           /\ Last(Page(dir)) = "index.html"
<1>1. "" \in S /\ "index.html" \in S
  BY DEF Words
<1> QED BY <1>1, Endings DEF Slash, Page

\* A directory of a site.
Addressable(dir) ==
    \/ dir \in {<<"e">>, <<"about">>}
    \/ \E id : \/ dir = <<"e", id>>
              \/ \E x \in {"sources", "comparisons", "updates"} : dir = <<"e", id, x>>
              \/ \E r : dir = <<"e", id, "races", r>>

\* No directory of a site, with its closing slash, is t.
NoDirectory(t) ==
    /\ t # <<"e", "">> /\ t # <<"about", "">> /\ \A other : t # <<"e", other, "">>
    /\ \A other, x : x # "corrections" => t # <<"e", other, x, "">>
    /\ \A other, r : t # <<"e", other, "races", r, "">>
\* None is an address that the worker sends on.
LEMMA Unlike ==
    ASSUME NEW id, id # "",
           NEW t \in {<<"">>, <<"e">>, <<"about">>, <<"e", id>>, <<"e", id, "corrections">>,
                      <<"e", id, "corrections", "">>, <<"e", id, "corrections", "index.html">>}
    PROVE  NoDirectory(t)
<1> SUFFICES ASSUME NEW other, NEW r, NEW x, x # "corrections"
             PROVE  /\ t # <<"e", "">> /\ t # <<"about", "">> /\ t # <<"e", other, "">>
                    /\ t # <<"e", other, x, "">> /\ t # <<"e", other, "races", r, "">>
  <2>1. "corrections" # "sources"
    OBVIOUS
  <2> QED BY <2>1, Zenon DEF NoDirectory
<1>1. t = <<"">> \/ t = <<"e">> \/ t = <<"about">> \/ t = <<"e", id>> \/ t = <<"e", id, "corrections">>
      \/ t = <<"e", id, "corrections", "">> \/ t = <<"e", id, "corrections", "index.html">>
  OBVIOUS
<1>2. \A a : <<a>> # <<"e", "">> /\ <<a>> # <<"about", "">> /\ <<a>> # <<"e", other, "">>
             /\ <<a>> # <<"e", other, x, "">> /\ <<a>> # <<"e", other, "races", r, "">>
  OBVIOUS
<1>3. <<"e", id>> # <<"e", "">> /\ <<"e", id>> # <<"about", "">> /\ <<"e", id>> # <<"e", other, "">>
      /\ <<"e", id>> # <<"e", other, x, "">> /\ <<"e", id>> # <<"e", other, "races", r, "">>
  OBVIOUS
<1>4. <<"e", id, "corrections">> # <<"e", other, "">> /\ <<"e", id, "corrections">> # <<"e", "">>
      /\ <<"e", id, "corrections">> # <<"about", "">>
      /\ <<"e", id, "corrections">> # <<"e", other, x, "">>
      /\ <<"e", id, "corrections">> # <<"e", other, "races", r, "">>
  OBVIOUS
<1>5. \A a : /\ <<"e", id, "corrections", a>> # <<"e", other, "">> /\ <<"e", id, "corrections", a>> # <<"e", "">>
             /\ <<"e", id, "corrections", a>> # <<"about", "">>
             /\ <<"e", id, "corrections", a>> # <<"e", other, x, "">>
             /\ <<"e", id, "corrections", a>> # <<"e", other, "races", r, "">>
  OBVIOUS
<1> QED BY <1>1, <1>2, <1>3, <1>4, <1>5, Zenon

\* No address of a kind that is sent on.
Unsent(address, id) ==
    /\ address # <<"">> /\ address \notin {<<"e">>, <<"about">>}
    /\ address # <<"e", id>>
    /\ address \notin Retired(<<"e", id>>)
\* A directory with its closing slash is none of those.
LEMMA AddressableSlash ==
    ASSUME NEW dir, Addressable(dir), NEW id, id # ""
    PROVE  Unsent(Slash(dir), id)
<1>1. Retired(<<"e", id>>) = {<<"e", id, "corrections">>, <<"e", id, "corrections", "">>,
                              <<"e", id, "corrections", "index.html">>}
  BY JoinsOne, EndsThree, Zenon DEF Retired, Slash, Page
<1> DEFINE away == {<<"">>, <<"e">>, <<"about">>, <<"e", id>>, <<"e", id, "corrections">>,
                    <<"e", id, "corrections", "">>, <<"e", id, "corrections", "index.html">>}
<1>a. (\A t \in away : Slash(dir) # t) => Unsent(Slash(dir), id)
  BY <1>1 DEF Unsent
<1>b. \A t \in away : NoDirectory(t)
  BY Unlike
<1> HIDE DEF away
<1>2. CASE dir \in {<<"e">>, <<"about">>}
  <2>1. Slash(dir) = <<"e", "">> \/ Slash(dir) = <<"about", "">>
    BY <1>2, EndsOne DEF Slash
  <2> QED BY <1>a, <1>b, <2>1, Zenon DEF NoDirectory
<1>3. CASE \E other : dir = <<"e", other>>
  <2>1. PICK other : Slash(dir) = <<"e", other, "">>
    BY <1>3, EndsTwo DEF Slash
  <2> QED BY <1>a, <1>b, <2>1, Zenon DEF NoDirectory
<1>4. CASE \E other : \E x \in {"sources", "comparisons", "updates"} : dir = <<"e", other, x>>
  <2>1. PICK other, x : x \in {"sources", "comparisons", "updates"} /\ dir = <<"e", other, x>>
    BY <1>4
  <2>2. Slash(dir) = <<"e", other, x, "">>
    BY <2>1, EndsThree DEF Slash
  <2>3. x # "corrections"
    BY <2>1
  <2> QED BY <1>a, <1>b, <2>2, <2>3, Zenon DEF NoDirectory
<1>5. CASE \E other, r : dir = <<"e", other, "races", r>>
  <2>1. PICK other, r : dir = <<"e", other, "races", r>>
    BY <1>5
  <2>2. Slash(dir) = <<"e", other, "races", r, "">>
    BY <2>1, EndsFour DEF Slash
  <2> QED BY <1>a, <1>b, <2>2, Zenon DEF NoDirectory
<1> QED BY <1>2, <1>3, <1>4, <1>5 DEF Addressable

\* What the worker of a site knows: directories, with their closing slash and their page, and
\* files, of which none ends in a slash.
Knows(S, dirs, files, worker) ==
    /\ Words \subseteq S
    /\ \A dir \in dirs : dir \in Seq(S) /\ dir # << >> /\ Addressable(dir)
    /\ \A file \in files : file \in Seq(S) /\ file # << >> /\ Last(file) # ""
    /\ worker.public = (UNION {Both(dir) : dir \in dirs}) \cup files
    /\ \A root \in worker.roots : root \in dirs /\ \E id : id # "" /\ root = <<"e", id>>
    /\ worker.compared =
          {Front(path) : path \in {p \in worker.public :
                                      Len(p) > 2 /\ SubSeq(p, Len(p) - 1, Len(p)) = <<"comparisons", "">>}}
    /\ \E root \in worker.roots : worker.current = Slash(root)
    /\ <<"e", "compare">> \notin dirs \/ <<"e", "comparisons">> \notin dirs
    /\ {<<"e">>, <<"about">>} \subseteq dirs

\* What is public is a directory, its page or a file.
LEMMA PublicPath ==
    ASSUME NEW dirs, NEW files, NEW public, public = (UNION {Both(dir) : dir \in dirs}) \cup files,
           NEW path \in public
    PROVE  (\E dir \in dirs : path = Slash(dir) \/ path = Page(dir)) \/ path \in files
<1>1. CASE path \in UNION {Both(dir) : dir \in dirs}
  <2>1. PICK both \in {Both(dir) : dir \in dirs} : path \in both
    BY <1>1
  <2>2. PICK dir \in dirs : both = Both(dir)
    BY <2>1
  <2> QED BY <2>1, <2>2 DEF Both
<1>2. path \in (UNION {Both(dir) : dir \in dirs}) \cup files
  OBVIOUS
<1> QED BY <1>1, <1>2, Zenon

\* What is public and ends in a slash is a directory.
LEMMA PublicDirectory ==
    ASSUME NEW S, NEW dirs, NEW files, NEW worker, Knows(S, dirs, files, worker), NEW path \in worker.public
    PROVE  /\ path \in Seq(S) /\ path # << >>
           /\ Last(path) = "" => Front(path) \in dirs /\ path = Slash(Front(path))
<1>1. \A dir \in dirs :
        /\ Slash(dir) \in Seq(S) /\ Page(dir) \in Seq(S) /\ Last(Page(dir)) = "index.html"
        /\ Last(Slash(dir)) = "" /\ Front(Slash(dir)) = dir
        /\ Slash(dir) # << >> /\ Page(dir) # << >>
  <2> SUFFICES ASSUME NEW dir \in dirs
               PROVE  /\ Slash(dir) \in Seq(S) /\ Page(dir) \in Seq(S) /\ Last(Page(dir)) = "index.html"
                      /\ Last(Slash(dir)) = "" /\ Front(Slash(dir)) = dir
                      /\ Slash(dir) # << >> /\ Page(dir) # << >>
    OBVIOUS
  <2>1. dir \in Seq(S) /\ Words \subseteq S
    BY DEF Knows
  <2>2. \A s \in Seq(S) : \A x \in S : Append(s, x) # << >>
    <3>1. \A s \in Seq(S) : \A x \in S : Append(s, x) \in Seq(S) /\ Len(Append(s, x)) = Len(s) + 1
      BY Endings
    <3>2. \A u \in Seq(S) : \A s \in Seq(S) : Len(u) = Len(s) + 1 => u # << >>
      OBVIOUS
    <3> QED BY <3>1, <3>2
  <2>3. "" \in S /\ "index.html" \in S
    BY <2>1 DEF Words
  <2> QED BY <2>1, <2>2, <2>3, BothOf DEF Slash, Page
<1>2. CASE \E dir \in dirs : path = Slash(dir)
  BY <1>1, <1>2
<1>3. CASE \E dir \in dirs : path = Page(dir)
  BY <1>1, <1>3
<1>4. CASE path \in files
  BY <1>4 DEF Knows
<1>5. worker.public = (UNION {Both(dir) : dir \in dirs}) \cup files
  BY DEF Knows
<1>6. (\E dir \in dirs : path = Slash(dir) \/ path = Page(dir)) \/ path \in files
  BY <1>5, PublicPath, Zenon
<1> QED BY <1>2, <1>3, <1>4, <1>6

\* The last two elements of a sequence.
LEMMA LastTwo ==
    ASSUME NEW S, NEW p \in Seq(S), NEW n \in Nat, Len(p) = n, n > 2
    PROVE  \A u : u = SubSeq(p, n - 1, n) => u[1] = p[n - 1] /\ u[2] = p[n]
<1>1. \A u : u = SubSeq(p, n - 1, n) => \A i \in 1..2 : u[i] = p[(n - 1) + i - 1]
  OBVIOUS
<1>2. (n - 1) + 1 - 1 = n - 1 /\ (n - 1) + 2 - 1 = n
  OBVIOUS
<1> QED BY <1>1, <1>2
\* The elements of a pair.
LEMMA Pair == ASSUME NEW a, NEW b PROVE <<a, b>>[1] = a /\ <<a, b>>[2] = b
OBVIOUS

\* Comparisons are such directories.
LEMMA ComparedRoots ==
    ASSUME NEW S, NEW dirs, NEW files, NEW worker, Knows(S, dirs, files, worker), NEW root \in worker.compared
    PROVE  /\ root \in dirs /\ Slash(root) \in worker.public
           /\ Last(root) = "comparisons" /\ Front(root) \in Seq(S)
<1>1. PICK p \in worker.public : /\ root = Front(p) /\ Len(p) > 1 /\ Len(p) - 1 > 1
                                 /\ p[Len(p) - 1] = "comparisons" /\ Last(p) = ""
  <2>1. PICK p \in worker.public : /\ root = Front(p) /\ Len(p) > 2
                                   /\ SubSeq(p, Len(p) - 1, Len(p)) = <<"comparisons", "">>
    BY DEF Knows
  <2> DEFINE u == SubSeq(p, Len(p) - 1, Len(p))
  <2>2. p \in Seq(S)
    BY PublicDirectory
  <2>3. Len(p) > 2 /\ root = Front(p)
    BY <2>1
  <2>4. Len(p) \in Nat
    BY <2>2
  <2>5. u[1] = p[Len(p) - 1] /\ u[2] = p[Len(p)]
    BY <2>2, <2>3, <2>4, LastTwo
  <2>6. u = <<"comparisons", "">>
    BY <2>1
  <2> HIDE DEF u
  <2>7. u[1] = "comparisons" /\ u[2] = ""
    BY <2>6, Pair, Zenon
  <2>8. Len(p) > 1 /\ Len(p) - 1 > 1
    BY <2>3, <2>4
  <2>9. p[Len(p) - 1] = "comparisons" /\ Last(p) = ""
    BY <2>5, <2>7, Zenon DEF Last
  <2> QED BY <2>3, <2>8, <2>9, Zenon
<1>2. p \in Seq(S)
  BY PublicDirectory
<1>3. Front(p) \in dirs /\ p = Slash(Front(p))
  BY <1>1, PublicDirectory
<1>4. Front(p) \in Seq(S) /\ Last(Front(p)) = "comparisons"
  <2>1. Len(p) > 1
    BY <1>1, Zenon
  <2>2. Front(p) \in Seq(S) /\ Last(Front(p)) = p[Len(p) - 1]
    BY <1>2, <2>1, Fronts, Zenon
  <2> QED BY <1>1, <2>2
<1>5. Len(root) > 1
  <2>1. Len(p) > 1 /\ Len(p) - 1 > 1
    BY <1>1, Zenon
  <2>2. Len(Front(p)) = Len(p) - 1
    BY <1>2, <2>1, Fronts, Zenon
  <2> QED BY <1>1, <2>1, <2>2, Zenon
<1>6. Front(root) \in Seq(S)
  BY <1>1, <1>4, <1>5, Fronts, Zenon
<1> QED BY <1>1, <1>3, <1>4, <1>6

\* The directory an address was sent on to is where it stays.
LEMMA StaysPut ==
    ASSUME NEW S, NEW dirs, NEW files, NEW worker, Knows(S, dirs, files, worker),
           NEW next \in worker.public, Last(next) = "",
           \A root \in worker.compared : Front(next) # Front(root) \o <<"compare">>
    PROVE  Redirected(worker, next) = {}
<1> DEFINE dir == Front(next)
<1>1. dir \in dirs /\ next = Slash(dir) /\ Addressable(dir) /\ next \in Seq(S) /\ dir = Front(next)
  <2>1. Front(next) \in dirs /\ next = Slash(Front(next)) /\ next \in Seq(S)
    BY PublicDirectory, Zenon
  <2>2. \A x \in dirs : Addressable(x)
    BY DEF Knows
  <2> QED BY <2>1, <2>2
<1> HIDE DEF dir
<1>2. next # <<"">> /\ next \notin {<<"e">>, <<"about">>}
  <2>1. "e" # ""
    OBVIOUS
  <2>2. Unsent(next, "e")
    BY <1>1, <2>1, AddressableSlash, Zenon
  <2> QED BY <2>2 DEF Unsent
<1>3. ASSUME NEW root \in worker.roots
      PROVE  next # root /\ next \notin Retired(root)
  <2>1. PICK id : id # "" /\ root = <<"e", id>>
    BY DEF Knows
  <2>2. \A x : x # "" => Unsent(Slash(dir), x)
    BY <1>1, AddressableSlash, Zenon
  <2> QED BY <1>1, <2>1, <2>2, Zenon DEF Unsent
<1>4. Last(next) \notin Pdfs
  BY DEF Pdfs
<1>5. ASSUME NEW root \in worker.compared
      PROVE  next \notin {root, Front(root) \o <<"compare">>, Slash(Front(root) \o <<"compare">>)}
  <2>1. /\ Last(root) = "comparisons" /\ Front(root) \in Seq(S) /\ "compare" \in S /\ Words \subseteq S
    BY ComparedRoots DEF Knows, Words
  <2> DEFINE renamed == Front(root) \o <<"compare">>
  <2>2. renamed \in Seq(S) /\ Last(renamed) = "compare"
    <3>1. /\ renamed = Append(Front(root), "compare")
          /\ Append(Front(root), "compare") \in Seq(S) /\ Last(Append(Front(root), "compare")) = "compare"
      BY <2>1, Endings, Zenon
    <3> QED BY <3>1
  <2>3. Front(Slash(renamed)) = renamed
    BY <2>1, <2>2, BothOf
  <2>4. Front(next) # renamed
    OBVIOUS
  <2> HIDE DEF renamed
  <2>5. next # root /\ next # renamed
    BY <2>1, <2>2
  <2>6. next # Slash(renamed)
    BY <2>3, <2>4
  <2> QED BY <2>5, <2>6 DEF renamed
<1> QED BY <1>2, <1>3, <1>4, <1>5 DEF Redirected

\* A directory is public, with its slash and as its page.
LEMMA DirectoryPublic ==
    ASSUME NEW S, NEW dirs, NEW files, NEW worker, Knows(S, dirs, files, worker), NEW dir \in dirs
    PROVE  Slash(dir) \in worker.public /\ Last(Slash(dir)) = ""
<1>1. dir \in Seq(S) /\ Words \subseteq S /\ worker.public = (UNION {Both(x) : x \in dirs}) \cup files
  BY DEF Knows
<1>2. Slash(dir) \in Both(dir) /\ Both(dir) \in {Both(x) : x \in dirs}
  BY DEF Both
<1>3. Slash(dir) \in worker.public
  BY <1>1, <1>2
<1>4. Last(Slash(dir)) = ""
  BY <1>1, BothOf, Zenon
<1> QED BY <1>3, <1>4

\* One word is an address.
LEMMA OneWord == ASSUME NEW S, NEW x \in S PROVE <<x>> \in Seq(S)
OBVIOUS

\* Every address that is looked at is a sequence.
LEMMA AddressesArePaths ==
    ASSUME NEW S, NEW dirs, NEW files, NEW worker, Knows(S, dirs, files, worker), NEW address \in Addresses(worker)
    PROVE  address \in Seq(S)
<1>1. Words \subseteq S
  BY DEF Knows
<1>2. "" \in S /\ "e" \in S /\ "about" \in S /\ "corrections" \in S /\ "compare" \in S /\ "guide.pdf" \in S
  BY <1>1 DEF Words
<1>3. \A path \in worker.public : path \in Seq(S)
  BY PublicDirectory, Zenon
<1>4. \A root \in worker.roots : root \in Seq(S)
  BY DEF Knows
<1>5. CASE address \in worker.public
  BY <1>3, <1>5
<1>6. CASE address \in {<<"">>, <<"e">>, <<"about">>}
  <2>1. <<"">> \in Seq(S) /\ <<"e">> \in Seq(S) /\ <<"about">> \in Seq(S)
    BY <1>2, OneWord, Zenon
  <2> QED BY <1>6, <2>1
<1>7. CASE address \in {Front(path) : path \in {p \in worker.public : Len(p) > 1}}
  <2>1. PICK path \in worker.public : Len(path) > 1 /\ address = Front(path)
    BY <1>7
  <2> QED BY <1>3, <2>1, Fronts, Zenon
<1>8. CASE \E root \in worker.roots :
              address \in Retired(root) \cup {root \o <<"compare">>, Slash(root \o <<"compare">>),
                                             root \o <<"guide.pdf">>}
  <2>1. PICK root \in worker.roots :
              address \in Retired(root) \cup {root \o <<"compare">>, Slash(root \o <<"compare">>),
                                             root \o <<"guide.pdf">>}
    BY <1>8
  <2>2. root \in Seq(S)
    BY <1>4
  <2>3. \A x \in {"corrections", "compare", "guide.pdf"} : root \o <<x>> \in Seq(S)
    <3>1. \A x \in S : root \o <<x>> \in Seq(S)
      BY <2>2, Endings
    <3> QED BY <1>2, <3>1
  <2>4. \A x \in {"corrections", "compare", "guide.pdf"} :
            Slash(root \o <<x>>) \in Seq(S) /\ Page(root \o <<x>>) \in Seq(S)
    BY <1>1, <2>3, BothOf, Zenon
  <2>5. /\ root \o <<"corrections">> \in Seq(S) /\ root \o <<"compare">> \in Seq(S)
        /\ root \o <<"guide.pdf">> \in Seq(S)
        /\ Slash(root \o <<"corrections">>) \in Seq(S) /\ Page(root \o <<"corrections">>) \in Seq(S)
        /\ Slash(root \o <<"compare">>) \in Seq(S)
    BY <2>3, <2>4
  <2> QED BY <2>1, <2>5, Zenon DEF Retired
<1>9. \/ address \in worker.public \/ address \in {<<"">>, <<"e">>, <<"about">>}
      \/ address \in {Front(path) : path \in {p \in worker.public : Len(p) > 1}}
      \/ \E root \in worker.roots :
              address \in Retired(root) \cup {root \o <<"compare">>, Slash(root \o <<"compare">>),
                                             root \o <<"guide.pdf">>}
  BY Zenon DEF Addresses
<1> QED BY <1>5, <1>6, <1>7, <1>8, <1>9

\* The last part of an address.
LEMMA LastOf ==
    /\ \A a : Last(<<a>>) = a
    /\ \A a, b : Last(<<a, b>>) = b
    /\ \A a, b, c : Last(<<a, b, c>>) = c
    /\ \A a, b, c, d : Last(<<a, b, c, d>>) = d
    /\ \A a, b, c, d, f : Last(<<a, b, c, d, f>>) = f
<1>1. \A a : Last(<<a>>) = a
  BY DEF Last
<1>2. \A a, b : Last(<<a, b>>) = b
  BY DEF Last
<1>3. \A a, b, c : Last(<<a, b, c>>) = c
  BY DEF Last
<1>4. \A a, b, c, d : Last(<<a, b, c, d>>) = d
  BY DEF Last
<1>5. \A a, b, c, d, f : Last(<<a, b, c, d, f>>) = f
  BY DEF Last
<1> QED BY <1>1, <1>2, <1>3, <1>4, <1>5
\* What is before the last part of an address.
LEMMA FrontOf ==
    /\ \A a, b : Front(<<a, b>>) = <<a>>
    /\ \A a, b, c : Front(<<a, b, c>>) = <<a, b>>
    /\ \A a, b, c, d : Front(<<a, b, c, d>>) = <<a, b, c>>
<1>1. ASSUME NEW a, NEW b
      PROVE  Front(<<a, b>>) = <<a>>
  <2> DEFINE S == {a, b}
  <2>1. <<a>> \in Seq(S) /\ b \in S
    OBVIOUS
  <2> HIDE DEF S
  <2>2. Front(Append(<<a>>, b)) = <<a>>
    BY <2>1, Endings
  <2> QED BY <2>2, EndsOne, Zenon
<1>2. ASSUME NEW a, NEW b, NEW c
      PROVE  Front(<<a, b, c>>) = <<a, b>>
  <2> DEFINE S == {a, b, c}
  <2>1. <<a, b>> \in Seq(S) /\ c \in S
    OBVIOUS
  <2> HIDE DEF S
  <2>2. Front(Append(<<a, b>>, c)) = <<a, b>>
    BY <2>1, Endings
  <2> QED BY <2>2, EndsTwo, Zenon
<1>3. ASSUME NEW a, NEW b, NEW c, NEW d
      PROVE  Front(<<a, b, c, d>>) = <<a, b, c>>
  <2> DEFINE S == {a, b, c, d}
  <2>1. <<a, b, c>> \in Seq(S) /\ d \in S
    OBVIOUS
  <2> HIDE DEF S
  <2>2. Front(Append(<<a, b, c>>, d)) = <<a, b, c>>
    BY <2>1, Endings
  <2> QED BY <2>2, EndsThree, Zenon
<1> QED BY <1>1, <1>2, <1>3

\* Where comparisons were once: no directory with another name,
LEMMA NotRenamed ==
    ASSUME NEW S, NEW dirs, NEW files, NEW worker, Knows(S, dirs, files, worker), NEW root \in worker.compared
    PROVE  /\ Front(root) \o <<"compare">> \in Seq(S)
           /\ Last(Front(root) \o <<"compare">>) = "compare"
           /\ Front(Front(root) \o <<"compare">>) = Front(root)
<1>1. Front(root) \in Seq(S) /\ "compare" \in S
  BY ComparedRoots DEF Knows, Words
<1>2. /\ Front(root) \o <<"compare">> = Append(Front(root), "compare")
      /\ Append(Front(root), "compare") \in Seq(S)
      /\ Last(Append(Front(root), "compare")) = "compare"
      /\ Front(Append(Front(root), "compare")) = Front(root)
  BY <1>1, Endings, Zenon
<1> QED BY <1>2

\* and no election, as long as not one is called "compare" and another "comparisons".
LEMMA RootsKept ==
    ASSUME NEW S, NEW dirs, NEW files, NEW worker, Knows(S, dirs, files, worker),
           NEW root \in worker.compared, NEW home \in worker.roots
    PROVE  home # Front(root) \o <<"compare">>
<1> SUFFICES ASSUME home = Front(root) \o <<"compare">> PROVE FALSE
  OBVIOUS
<1>1. PICK id : home = <<"e", id>>
  BY DEF Knows
<1>2. Last(home) = "compare" /\ Front(home) = Front(root)
  BY NotRenamed
<1>3. id = "compare"
  <2>1. Last(<<"e", id>>) = id
    BY LastOf, Zenon
  <2> HIDE DEF Last
  <2> QED BY <1>1, <1>2, <2>1, Zenon
<1>4. Front(root) = <<"e">>
  <2>1. Front(<<"e", id>>) = <<"e">>
    BY FrontOf, Zenon
  <2>2. Front(home) = <<"e">>
    BY <1>1, <2>1
  <2> QED BY <1>2, <2>2, Zenon
<1>5. root \in dirs /\ Last(root) = "comparisons" /\ Addressable(root)
  <2>1. root \in dirs /\ Last(root) = "comparisons"
    BY ComparedRoots, Zenon
  <2> QED BY <2>1 DEF Knows
<1>6. home \in dirs
  BY DEF Knows
<1>7. CASE root \in {<<"e">>, <<"about">>}
  <2>1. Last(root) \in {"e", "about"}
    BY <1>7, LastOf
  <2> QED BY <1>5, <2>1
<1>8. CASE \E x : root = <<"e", x>>
  <2>1. PICK x : root = <<"e", x>>
    BY <1>8
  <2>2. x = "comparisons"
    BY <1>5, <2>1, LastOf, Zenon
  <2>3. <<"e", "compare">> \in dirs /\ <<"e", "comparisons">> \in dirs
    BY <1>1, <1>3, <1>5, <1>6, <2>1, <2>2, Zenon
  <2> QED BY <2>3 DEF Knows
<1>9. CASE \E other, x : root = <<"e", other, x>>
  <2>1. PICK other, x : root = <<"e", other, x>>
    BY <1>9
  <2>2. Front(root) = <<"e", other>>
    BY <2>1, FrontOf, Zenon
  <2>3. <<"e", other>> # <<"e">>
    OBVIOUS
  <2> QED BY <1>4, <2>2, <2>3, Zenon
<1>10. CASE \E other, r : root = <<"e", other, "races", r>>
  <2>1. PICK other, r : root = <<"e", other, "races", r>>
    BY <1>10
  <2>2. Front(root) = <<"e", other, "races">>
    BY <2>1, FrontOf, Zenon
  <2>3. <<"e", other, "races">> # <<"e">>
    OBVIOUS
  <2> QED BY <1>4, <2>2, <2>3, Zenon
<1> QED BY <1>5, <1>7, <1>8, <1>9, <1>10 DEF Addressable

\* Where an address is sent on to: a public directory, and none that comparisons once were.
Arrives(worker, next) ==
    /\ next \in worker.public /\ Last(next) = ""
    /\ \A root \in worker.compared : Front(next) # Front(root) \o <<"compare">>

\* A directory of another name is such a one, and so is the home of an election.
LEMMA DirectoryArrives ==
    ASSUME NEW S, NEW dirs, NEW files, NEW worker, Knows(S, dirs, files, worker),
           NEW dir \in Seq(S), Slash(dir) \in worker.public, Last(dir) # "compare" \/ dir \in worker.roots
    PROVE  Arrives(worker, Slash(dir))
<1>1. Words \subseteq S
  BY DEF Knows
<1>2. Last(Slash(dir)) = "" /\ Front(Slash(dir)) = dir
  BY <1>1, BothOf, Zenon
<1>3. ASSUME NEW root \in worker.compared
      PROVE  dir # Front(root) \o <<"compare">>
  <2>1. CASE Last(dir) # "compare"
    BY <2>1, NotRenamed
  <2>2. CASE dir \in worker.roots
    BY <2>2, RootsKept
  <2> QED BY <2>1, <2>2
<1> QED BY <1>2, <1>3 DEF Arrives

\* Whatever is sent on arrives.
LEMMA SentOnTo ==
    ASSUME NEW S, NEW dirs, NEW files, NEW worker, Knows(S, dirs, files, worker),
           NEW address \in Addresses(worker), NEW next \in Redirected(worker, address)
    PROVE  Arrives(worker, next)
<1>1. \/ next = worker.current
      \/ address \in {<<"e">>, <<"about">>} /\ next = Slash(address)
      \/ \E root \in worker.roots : next = Slash(root)
      \/ \E root \in worker.roots : MovedLog(worker, root) /\ next = Slash(root \o <<"updates">>)
      \/ \E root \in worker.compared : next = Slash(root)
      \/ /\ Slash(address) \in worker.public /\ next = Slash(address)
         /\ \A root \in worker.compared : address # Front(root) \o <<"compare">>
  <2>1. \/ next = worker.current
        \/ address \in {<<"e">>, <<"about">>} /\ next = Slash(address)
        \/ \E root \in worker.roots : next = Slash(root)
        \/ \E root \in worker.roots : MovedLog(worker, root) /\ next = Slash(root \o <<"updates">>)
        \/ \E root \in worker.compared : next = Slash(root)
        \/ Slash(address) \in worker.public /\ next = Slash(address)
    BY DEF Redirected
  <2>2. ASSUME NEW renamed \in worker.compared, address = Front(renamed) \o <<"compare">>
        PROVE  \/ next = worker.current
               \/ address \in {<<"e">>, <<"about">>} /\ next = Slash(address)
               \/ \E root \in worker.roots : next = Slash(root)
               \/ \E root \in worker.roots : MovedLog(worker, root) /\ next = Slash(root \o <<"updates">>)
               \/ \E root \in worker.compared : next = Slash(root)
    <3>1. {root \in worker.compared :
              address \in {root, Front(root) \o <<"compare">>, Slash(Front(root) \o <<"compare">>)}} # {}
      BY <2>2
    <3> QED BY <3>1 DEF Redirected
  <2> QED BY <2>1, <2>2, Zenon
<1>2. \A dir \in dirs : dir \in Seq(S) /\ Slash(dir) \in worker.public
  <2>1. \A dir \in dirs : Slash(dir) \in worker.public
    BY DirectoryPublic, Zenon
  <2> QED BY <2>1 DEF Knows
<1>3. CASE address \in {<<"e">>, <<"about">>} /\ next = Slash(address)
  <2>1. address \in dirs
    BY <1>3 DEF Knows
  <2>2. Last(address) # "compare"
    <3>1. Last(address) \in {"e", "about"}
      BY <1>3, LastOf
    <3> QED BY <3>1
  <2> QED BY <1>2, <1>3, <2>1, <2>2, DirectoryArrives
<1>4. CASE next = worker.current \/ \E root \in worker.roots : next = Slash(root)
  <2>1. PICK root \in worker.roots : next = Slash(root)
    BY <1>4 DEF Knows
  <2>2. root \in dirs
    BY DEF Knows
  <2> QED BY <1>2, <2>1, <2>2, DirectoryArrives
<1>5. CASE \E root \in worker.roots : MovedLog(worker, root) /\ next = Slash(root \o <<"updates">>)
  <2>1. PICK root \in worker.roots : MovedLog(worker, root) /\ next = Slash(root \o <<"updates">>)
    BY <1>5
  <2>2. root \in Seq(S) /\ "updates" \in S
    BY DEF Knows, Words
  <2>3. root \o <<"updates">> \in Seq(S) /\ Last(root \o <<"updates">>) = "updates"
    <3>1. /\ root \o <<"updates">> = Append(root, "updates") /\ Append(root, "updates") \in Seq(S)
          /\ Last(Append(root, "updates")) = "updates"
      BY <2>2, Endings, Zenon
    <3> QED BY <3>1
  <2>4. Last(root \o <<"updates">>) # "compare"
    BY <2>3
  <2>5. Slash(root \o <<"updates">>) \in worker.public
    BY <2>1 DEF MovedLog
  <2> HIDE DEF Slash
  <2> QED BY <2>1, <2>3, <2>4, <2>5, DirectoryArrives
<1>6. CASE \E root \in worker.compared : next = Slash(root)
  <2>1. PICK root \in worker.compared : next = Slash(root)
    BY <1>6
  <2>2. root \in dirs /\ Last(root) = "comparisons"
    BY ComparedRoots, Zenon
  <2>3. Last(root) # "compare"
    BY <2>2
  <2> QED BY <1>2, <2>1, <2>2, <2>3, DirectoryArrives
<1>7. CASE /\ Slash(address) \in worker.public /\ next = Slash(address)
           /\ \A root \in worker.compared : address # Front(root) \o <<"compare">>
  <2>1. address \in Seq(S)
    BY AddressesArePaths, Zenon
  <2>2. Words \subseteq S
    BY DEF Knows
  <2>3. Last(Slash(address)) = "" /\ Front(Slash(address)) = address
    BY <2>1, <2>2, BothOf, Zenon
  <2> QED BY <1>7, <2>3 DEF Arrives
<1> QED BY <1>1, <1>3, <1>4, <1>5, <1>6, <1>7

\* What is public is served, when the pages of the directories and the files are there.
LEMMA PublicServed ==
    ASSUME NEW S, NEW dirs, NEW files, NEW worker, Knows(S, dirs, files, worker), NEW assets,
           \A dir \in dirs : Page(dir) \in DOMAIN assets,
           \A file \in files : file \in DOMAIN assets \cup {ManifestPath},
           NEW path \in worker.public
    PROVE  Served(assets, path)
<1>1. worker.public = (UNION {Both(x) : x \in dirs}) \cup files
  BY DEF Knows
<1>2. (\E dir \in dirs : path = Slash(dir) \/ path = Page(dir)) \/ path \in files
  BY <1>1, PublicPath, Zenon
<1>3. ASSUME NEW dir \in dirs, path = Slash(dir)
      PROVE  Served(assets, path)
  <2>1. dir \in Seq(S) /\ Words \subseteq S
    BY DEF Knows
  <2>2. Last(path) = "" /\ Front(path) = dir
    BY <1>3, <2>1, BothOf, Zenon
  <2> QED BY <2>2 DEF Served
<1> QED BY <1>2, <1>3 DEF Served

\* The directories of an election,
DirectoriesOf(d, bundle, authored) ==
    {Home(d.election), At(d.election, <<"sources">>)}
    \cup {At(d.election, <<"races", r>>) : r \in Facts(bundle).races}
    \cup {dir \in {At(d.election, <<"comparisons">>)} : Compares(d, bundle)}
    \cup {dir \in {At(d.election, <<"updates">>)} : Log(d, bundle, authored) # {}}
\* The files of an election,
FilesOf(d, bundle) ==
    {At(d.election, <<"release-status.json">>), At(d.election, <<"release-manifest.json">>)}
    \cup {At(d.election, <<"races", r, "og-image.png">>) : r \in Facts(bundle).races}
\* the directories and the files of a site,
SiteDirectories(site, bundles, authored) ==
    (UNION {DirectoriesOf(d, bundles[d.bundle], authored) : d \in Elections(site)}) \cup {<<"e">>, <<"about">>}
\* with those that belong to no election,
SiteFiles(site, bundles) ==
    (UNION {FilesOf(d, bundles[d.bundle]) : d \in Elections(site)})
    \cup Single \cup {CalendarPath, ManifestPath, SnapshotPath}
\* and the words of its addresses.
SiteWords(site, bundles) ==
    Words \cup {d.election : d \in Elections(site)}
    \cup (UNION {Facts(bundles[d.bundle]).races : d \in Elections(site)})

\* The public paths of an election are its directories, their pages and its files,
LEMMA PathsOfElection ==
    ASSUME NEW d, NEW bundle, NEW authored, NEW path
    PROVE  path \in ElectionPaths(d, bundle, authored)
             <=> \/ \E dir \in DirectoriesOf(d, bundle, authored) : path \in Both(dir)
                 \/ path \in FilesOf(d, bundle)
<1> DEFINE root == d.election
           races == Facts(bundle).races
<1>1. path \in ElectionPaths(d, bundle, authored)
        <=> \/ path \in Both(Home(root)) \/ path \in Both(At(root, <<"sources">>))
            \/ \E r \in races : path \in Both(At(root, <<"races", r>>))
            \/ \E r \in races : path = At(root, <<"races", r, "og-image.png">>)
            \/ Compares(d, bundle) /\ path \in Both(At(root, <<"comparisons">>))
            \/ Log(d, bundle, authored) # {} /\ path \in Both(At(root, <<"updates">>))
            \/ path = At(root, <<"release-status.json">>) \/ path = At(root, <<"release-manifest.json">>)
  <2>1. path \in (UNION {Both(At(root, <<"races", r>>)) \cup {At(root, <<"races", r, "og-image.png">>)} : r \in races})
          <=> \E r \in races : path \in Both(At(root, <<"races", r>>)) \/ path = At(root, <<"races", r, "og-image.png">>)
    OBVIOUS
  <2> QED BY <2>1 DEF ElectionPaths
<1>2. path \in FilesOf(d, bundle)
        <=> \/ \E r \in races : path = At(root, <<"races", r, "og-image.png">>)
            \/ path = At(root, <<"release-status.json">>) \/ path = At(root, <<"release-manifest.json">>)
  BY DEF FilesOf
<1>3. \A dir : dir \in DirectoriesOf(d, bundle, authored)
        <=> \/ dir = Home(root) \/ dir = At(root, <<"sources">>)
            \/ \E r \in races : dir = At(root, <<"races", r>>)
            \/ Compares(d, bundle) /\ dir = At(root, <<"comparisons">>)
            \/ Log(d, bundle, authored) # {} /\ dir = At(root, <<"updates">>)
  BY DEF DirectoriesOf
<1> QED BY <1>1, <1>2, <1>3, Zenon

\* and so are those of the site.
LEMMA PathsOfSite ==
    ASSUME NEW site, NEW bundles, NEW authored
    PROVE  PublicPaths(site, bundles, authored)
             = (UNION {Both(dir) : dir \in SiteDirectories(site, bundles, authored)}) \cup SiteFiles(site, bundles)
<1> SUFFICES ASSUME NEW path
             PROVE  path \in PublicPaths(site, bundles, authored)
                      <=> \/ \E dir \in SiteDirectories(site, bundles, authored) : path \in Both(dir)
                          \/ path \in SiteFiles(site, bundles)
  <2>1. \A path : path \in (UNION {Both(dir) : dir \in SiteDirectories(site, bundles, authored)})
                   <=> \E dir \in SiteDirectories(site, bundles, authored) : path \in Both(dir)
    OBVIOUS
  <2> QED BY <2>1
<1>1. path \in PublicPaths(site, bundles, authored)
        <=> \/ \E d \in Elections(site) : path \in ElectionPaths(d, bundles[d.bundle], authored)
            \/ path \in Both(<<"e">>) \/ path \in Both(<<"about">>)
            \/ path \in Single \cup {CalendarPath, ManifestPath, SnapshotPath}
  BY DEF PublicPaths
<1>2. path \in SiteFiles(site, bundles)
        <=> \/ \E d \in Elections(site) : path \in FilesOf(d, bundles[d.bundle])
            \/ path \in Single \cup {CalendarPath, ManifestPath, SnapshotPath}
  BY DEF SiteFiles
<1>3. \A dir : dir \in SiteDirectories(site, bundles, authored)
        <=> \/ \E d \in Elections(site) : dir \in DirectoriesOf(d, bundles[d.bundle], authored)
            \/ dir = <<"e">> \/ dir = <<"about">>
  BY DEF SiteDirectories
<1>4. \A d : path \in ElectionPaths(d, bundles[d.bundle], authored)
             <=> \/ \E dir \in DirectoriesOf(d, bundles[d.bundle], authored) : path \in Both(dir)
                 \/ path \in FilesOf(d, bundles[d.bundle])
  BY PathsOfElection
<1> QED BY <1>1, <1>2, <1>3, <1>4, Zenon

\* Of an election the page of each of its directories is staged, and each of its files.
LEMMA ElectionHolds ==
    ASSUME NEW d, NEW bundle, NEW current, NEW authored
    PROVE  /\ \A dir \in DirectoriesOf(d, bundle, authored) :
                 \E x : <<Page(dir), x>> \in ElectionAssets(d, bundle, current, authored)
           /\ \A file \in FilesOf(d, bundle) :
                 \E x : <<file, x>> \in ElectionAssets(d, bundle, current, authored)
<1> DEFINE root == d.election
           races == Facts(bundle).races
           staged == ElectionAssets(d, bundle, current, authored)
<1>1. /\ \E x : <<Page(Home(root)), x>> \in staged
      /\ \E x : <<Page(At(root, <<"sources">>)), x>> \in staged
      /\ \E x : <<At(root, <<"release-status.json">>), x>> \in staged
      /\ \E x : <<At(root, <<"release-manifest.json">>), x>> \in staged
      /\ \A r \in races : \E x : <<Page(At(root, <<"races", r>>)), x>> \in staged
      /\ \A r \in races : \E x : <<At(root, <<"races", r, "og-image.png">>), x>> \in staged
      /\ Compares(d, bundle) => \E x : <<Page(At(root, <<"comparisons">>)), x>> \in staged
      /\ Log(d, bundle, authored) # {} => \E x : <<Page(At(root, <<"updates">>)), x>> \in staged
  BY Zenon DEF ElectionAssets, Facts
<1> HIDE DEF staged
<1>2. \A dir \in DirectoriesOf(d, bundle, authored) :
            \/ dir = Home(root) \/ dir = At(root, <<"sources">>)
            \/ \E r \in races : dir = At(root, <<"races", r>>)
            \/ Compares(d, bundle) /\ dir = At(root, <<"comparisons">>)
            \/ Log(d, bundle, authored) # {} /\ dir = At(root, <<"updates">>)
  BY DEF DirectoriesOf
<1>3. \A file \in FilesOf(d, bundle) :
            \/ \E r \in races : file = At(root, <<"races", r, "og-image.png">>)
            \/ file = At(root, <<"release-status.json">>) \/ file = At(root, <<"release-manifest.json">>)
  BY DEF FilesOf
<1>4. \A dir \in DirectoriesOf(d, bundle, authored) : \E x : <<Page(dir), x>> \in staged
  BY <1>1, <1>2, Zenon
<1>5. \A file \in FilesOf(d, bundle) : \E x : <<file, x>> \in staged
  BY <1>1, <1>3, Zenon
<1> QED BY <1>4, <1>5 DEF staged

\* The addresses of any election, as they are.
LEMMA AddressedAll ==
    /\ \A e : Home(e) = <<"e", e>>
    /\ \A e : Page(Home(e)) = <<"e", e, "index.html">>
    /\ \A e, x : At(e, <<x>>) = <<"e", e, x>>
    /\ \A e, x : Page(At(e, <<x>>)) = <<"e", e, x, "index.html">>
    /\ \A e, x, y : At(e, <<x, y>>) = <<"e", e, x, y>>
    /\ \A e, x, y : Page(At(e, <<x, y>>)) = <<"e", e, x, y, "index.html">>
    /\ \A e, r : At(e, <<"races", r, "og-image.png">>) = <<"e", e, "races", r, "og-image.png">>
<1>1. \A e : Home(e) = <<"e", e>>
  BY DEF Home
<1>2. \A e, x : At(e, <<x>>) = <<"e", e, x>>
  BY <1>1, JoinsOne, Zenon DEF At
<1>3. \A e, x, y : At(e, <<x, y>>) = <<"e", e, x, y>>
  BY <1>1, JoinsTwo, Zenon DEF At
<1>4. \A e, r : At(e, <<"races", r, "og-image.png">>) = <<"e", e, "races", r, "og-image.png">>
  BY JoinsThree, Zenon DEF At, Home
<1>5. \A e : Page(Home(e)) = <<"e", e, "index.html">>
  BY <1>1, EndsTwo, Zenon DEF Page
<1>6. \A e, x : Page(At(e, <<x>>)) = <<"e", e, x, "index.html">>
  BY <1>2, EndsThree, Zenon DEF Page
<1>7. \A e, x, y : Page(At(e, <<x, y>>)) = <<"e", e, x, y, "index.html">>
  <2> TAKE e, x, y
  <2>1. Append(<<"e", e, x, y>>, "index.html") = <<"e", e, x, y, "index.html">>
    BY EndsFour
  <2> QED BY <1>3, <2>1, Zenon DEF Page
<1> QED BY <1>1, <1>2, <1>3, <1>4, <1>5, <1>6, <1>7

\* Nothing that is staged of an election lies at the root.
LEMMA NothingAtTheRoot ==
    ASSUME NEW d, NEW bundle, NEW current, NEW authored, NEW a,
           NEW pair \in ElectionAssets(d, bundle, current, authored)
    PROVE  pair[1] # <<a>>
<1> DEFINE id == d.election
<1>1. \/ pair[1] = Page(Home(id))
      \/ \E name : pair[1] = At(id, <<name>>) \/ pair[1] = Page(At(id, <<name>>))
      \/ \E r : pair[1] = Page(At(id, <<"races", r>>)) \/ pair[1] = At(id, <<"races", r, "og-image.png">>)
  <2>1. \A path, x : pair = <<path, x>> => pair[1] = path
    OBVIOUS
  <2>2. \/ \E x : pair = <<Page(Home(id)), x>>
        \/ \E name, x : pair = <<At(id, <<name>>), x>>
        \/ \E name, x : pair = <<Page(At(id, <<name>>)), x>>
        \/ \E r, x : pair = <<Page(At(id, <<"races", r>>)), x>>
        \/ \E r, x : pair = <<At(id, <<"races", r, "og-image.png">>), x>>
    BY Zenon DEF ElectionAssets
  <2> QED BY <2>1, <2>2, Zenon
<1>2. /\ Page(Home(id)) = <<"e", id, "index.html">>
      /\ \A name : At(id, <<name>>) = <<"e", id, name>> /\ Page(At(id, <<name>>)) = <<"e", id, name, "index.html">>
      /\ \A r : Page(At(id, <<"races", r>>)) = <<"e", id, "races", r, "index.html">>
      /\ \A r : At(id, <<"races", r, "og-image.png">>) = <<"e", id, "races", r, "og-image.png">>
  <2>1. \A r : Page(At(id, <<"races", r>>)) = <<"e", id, "races", r, "index.html">>
    BY AddressedAll, Zenon
  <2>2. \A r : At(id, <<"races", r, "og-image.png">>) = <<"e", id, "races", r, "og-image.png">>
    BY AddressedAll, Zenon
  <2>3. \A name : At(id, <<name>>) = <<"e", id, name>>
    BY AddressedAll, Zenon
  <2>4. \A name : Page(At(id, <<name>>)) = <<"e", id, name, "index.html">>
    BY AddressedAll, Zenon
  <2>5. Page(Home(id)) = <<"e", id, "index.html">>
    BY AddressedAll, Zenon
  <2> QED BY <2>1, <2>2, <2>3, <2>4, <2>5
<1>3. \A p, q, r, t, u : /\ <<p, q, r>> # <<a>> /\ <<p, q, r, t>> # <<a>> /\ <<p, q, r, t, u>> # <<a>>
  OBVIOUS
<1> QED BY <1>1, <1>2, <1>3, Zenon

\* The staged site has every page and file its public paths promise, and the worker that knows them.
LEMMA StagedHolds ==
    ASSUME NEW site, NEW bundles, NEW authored, NEW calendar
    PROVE  LET assets == Staged(site, bundles, authored, calendar).assets
           IN  /\ \A dir \in SiteDirectories(site, bundles, authored) : Page(dir) \in DOMAIN assets
               /\ \A file \in SiteFiles(site, bundles) : file \in DOMAIN assets \cup {ManifestPath}
               /\ assets[<<"_worker.js">>] = Worker(site, bundles[site.elections[1].bundle],
                                                   PublicPaths(site, bundles, authored))
<1> DEFINE current == bundles[site.elections[1].bundle]
           worker == Worker(site, current, PublicPaths(site, bundles, authored))
           ofElections == UNION {ElectionAssets(x, bundles[x.bundle], current, authored) : x \in Elections(site)}
           ofSite == {<<Page(<<"e">>), SitePage("archive", current, site.current)>>,
                      <<Page(<<"about">>), SitePage("about", current, site.current)>>,
                      <<CalendarPath, [calendar |-> calendar, at |-> current.status.time,
                                       elections |-> {x.election : x \in Elections(site)}]>>,
                      <<<<"_headers">>, [headers |-> "headers"]>>,
                      <<<<"_worker.js">>, worker>>}
           icons == {<<path, [icon |-> path]>> : path \in Single}
           pairs == ofElections \cup ofSite \cup icons
           pages == StagedAssets(site, bundles, authored, calendar)
           assets == Staged(site, bundles, authored, calendar).assets
<1>1. pages = Assets(pairs)
  BY DEF StagedAssets
<1>2. DOMAIN assets = DOMAIN pages \cup {SnapshotPath} /\ \A path \in DOMAIN pages : path # SnapshotPath => assets[path] = pages[path]
  BY DEF Staged, With
<1>3. \A path : (\E x : <<path, x>> \in pairs) => path \in DOMAIN assets
  <2> HIDE DEF pairs
  <2>1. DOMAIN pages = {pair[1] : pair \in pairs}
    BY <1>1 DEF Assets
  <2>2. \A path, x : <<path, x>>[1] = path
    OBVIOUS
  <2> QED BY <1>2, <2>1, <2>2
<1>4. \A d \in Elections(site) : \A path :
         (\E x : <<path, x>> \in ElectionAssets(d, bundles[d.bundle], current, authored)) => path \in DOMAIN assets
  <2>1. \A d \in Elections(site) : ElectionAssets(d, bundles[d.bundle], current, authored) \subseteq pairs
    OBVIOUS
  <2> QED BY <1>3, <2>1, Zenon
<1>5. /\ Page(<<"e">>) \in DOMAIN assets /\ Page(<<"about">>) \in DOMAIN assets /\ CalendarPath \in DOMAIN assets
      /\ \A path \in Single : path \in DOMAIN assets /\ SnapshotPath \in DOMAIN assets
  <2>1. /\ \E x : <<Page(<<"e">>), x>> \in pairs
        /\ \E x : <<Page(<<"about">>), x>> \in pairs
        /\ \E x : <<CalendarPath, x>> \in pairs
        /\ \A path \in Single : \E x : <<path, x>> \in pairs
    BY Zenon
  <2> QED BY <1>2, <1>3, <2>1
<1>6. \A dir \in SiteDirectories(site, bundles, authored) : Page(dir) \in DOMAIN assets
  <2> SUFFICES ASSUME NEW dir \in SiteDirectories(site, bundles, authored) PROVE Page(dir) \in DOMAIN assets
    OBVIOUS
  <2> HIDE DEF assets
  <2>1. CASE \E d \in Elections(site) : dir \in DirectoriesOf(d, bundles[d.bundle], authored)
    BY <1>4, <2>1, ElectionHolds
  <2>2. CASE dir \in {<<"e">>, <<"about">>}
    BY <1>5, <2>2
  <2> QED BY <2>1, <2>2 DEF SiteDirectories
<1>7. \A file \in SiteFiles(site, bundles) : file \in DOMAIN assets \cup {ManifestPath}
  <2> SUFFICES ASSUME NEW file \in SiteFiles(site, bundles) PROVE file \in DOMAIN assets \cup {ManifestPath}
    OBVIOUS
  <2> HIDE DEF assets
  <2>1. CASE \E d \in Elections(site) : file \in FilesOf(d, bundles[d.bundle])
    BY <1>4, <2>1, ElectionHolds
  <2>2. CASE file \in Single \cup {CalendarPath, ManifestPath, SnapshotPath}
    BY <1>5, <2>2 DEF Single
  <2> QED BY <2>1, <2>2 DEF SiteFiles
<1>8. assets[<<"_worker.js">>] = worker
  <2>1. <<<<"_worker.js">>, worker>> \in pairs
    OBVIOUS
  <2>2. ASSUME NEW pair \in pairs, pair[1] = <<"_worker.js">>
        PROVE  pair[2] = worker
    <3>1. CASE pair \in ofElections
      <4>1. PICK d \in Elections(site) : pair \in ElectionAssets(d, bundles[d.bundle], current, authored)
        BY <3>1
      <4> QED BY <2>2, <4>1, NothingAtTheRoot
    <3>2. CASE pair \in ofSite
      <4>1. Page(<<"e">>) = <<"e", "index.html">> /\ Page(<<"about">>) = <<"about", "index.html">>
        BY Addressed
      <4> QED BY <2>2, <3>2, <4>1 DEF CalendarPath
    <3>3. CASE pair \in icons
      BY <2>2, <3>3 DEF Single
    <3> QED BY <3>1, <3>2, <3>3
  <2>3. SnapshotPath # <<"_worker.js">>
    BY DEF SnapshotPath
  <2> HIDE DEF pairs, pages, assets, worker
  <2>4. <<"_worker.js">> \in DOMAIN pages /\ pages[<<"_worker.js">>] = worker
    BY <1>1, <2>1, <2>2, StagedPair
  <2> QED BY <1>2, <2>3, <2>4
<1> QED BY <1>6, <1>7, <1>8

\* The elections of a site have names, and not one is called as comparisons are now and another as
\* they were once.
NamesApart(site) ==
    /\ \A d \in Elections(site) : d.election # ""
    /\ ~({"compare", "comparisons"} \subseteq {d.election : d \in Elections(site)})

\* Words make addresses.
LEMMA Tuples ==
    ASSUME NEW S, NEW a \in S, NEW b \in S, NEW c \in S, NEW d \in S, NEW f \in S
    PROVE  /\ <<a>> \in Seq(S) /\ <<a, b>> \in Seq(S) /\ <<a, b, c>> \in Seq(S)
           /\ <<a, b, c, d>> \in Seq(S) /\ <<a, b, c, d, f>> \in Seq(S)
           /\ <<a>> # << >> /\ <<a, b>> # << >> /\ <<a, b, c>> # << >>
           /\ <<a, b, c, d>> # << >> /\ <<a, b, c, d, f>> # << >>
OBVIOUS

\* The directories of an election are addresses of a site that knows its words.
LEMMA DirectoryNames ==
    ASSUME NEW S, Words \subseteq S, NEW d, NEW bundle, NEW authored,
           d.election \in S, Facts(bundle).races \subseteq S,
           NEW dir \in DirectoriesOf(d, bundle, authored)
    PROVE  dir \in Seq(S) /\ dir # << >> /\ Addressable(dir)
<1> DEFINE id == d.election
<1>1. \A e, x, y : /\ Home(e) = <<"e", e>> /\ At(e, <<x>>) = <<"e", e, x>> /\ At(e, <<x, y>>) = <<"e", e, x, y>>
  BY AddressedAll, Zenon
<1>2. \/ dir = <<"e", id>>
      \/ \E x \in {"sources", "comparisons", "updates"} : dir = <<"e", id, x>>
      \/ \E r \in Facts(bundle).races : dir = <<"e", id, "races", r>>
  <2>1. \/ dir = Home(id) \/ dir = At(id, <<"sources">>)
        \/ \E r \in Facts(bundle).races : dir = At(id, <<"races", r>>)
        \/ dir = At(id, <<"comparisons">>) \/ dir = At(id, <<"updates">>)
    BY DEF DirectoriesOf
  <2> QED BY <1>1, <2>1, Zenon
<1>3. "e" \in S /\ "sources" \in S /\ "comparisons" \in S /\ "updates" \in S /\ "races" \in S
  BY DEF Words
<1>4. CASE dir = <<"e", id>>
  BY <1>3, <1>4, Tuples DEF Addressable
<1>5. CASE \E x \in {"sources", "comparisons", "updates"} : dir = <<"e", id, x>>
  <2>1. PICK x \in {"sources", "comparisons", "updates"} : dir = <<"e", id, x>>
    BY <1>5
  <2>2. x \in S
    BY <1>3
  <2> QED BY <1>3, <2>1, <2>2, Tuples DEF Addressable
<1>6. CASE \E r \in Facts(bundle).races : dir = <<"e", id, "races", r>>
  <2>1. PICK r \in Facts(bundle).races : dir = <<"e", id, "races", r>>
    BY <1>6
  <2>2. r \in S
    OBVIOUS
  <2> QED BY <1>3, <2>1, <2>2, Tuples DEF Addressable
<1> QED BY <1>2, <1>4, <1>5, <1>6

\* No file of a site ends in a slash.
LEMMA FileNames ==
    ASSUME NEW S, Words \subseteq S, NEW d, NEW bundle,
           d.election \in S, Facts(bundle).races \subseteq S, NEW file,
           file \in FilesOf(d, bundle) \/ file \in Single \cup {CalendarPath, ManifestPath, SnapshotPath}
    PROVE  file \in Seq(S) /\ file # << >> /\ Last(file) # ""
<1> DEFINE id == d.election
           alone == {"favicon.svg", "favicon-32.png", "apple-touch-icon.png", "og-image.png",
                     "deployment-manifest.json", "updates-snapshot.json", "calendar.ics"}
<1>1. /\ \A x : At(id, <<x>>) = <<"e", id, x>>
      /\ \A r : At(id, <<"races", r, "og-image.png">>) = <<"e", id, "races", r, "og-image.png">>
  <2>1. \A x : At(id, <<x>>) = <<"e", id, x>>
    BY AddressedAll, Zenon
  <2>2. \A r : At(id, <<"races", r, "og-image.png">>) = <<"e", id, "races", r, "og-image.png">>
    BY AddressedAll, Zenon
  <2> QED BY <2>1, <2>2
<1>2. \/ \E x \in alone : file = <<x>>
      \/ \E x \in {"release-status.json", "release-manifest.json"} : file = <<"e", id, x>>
      \/ \E r \in Facts(bundle).races : file = <<"e", id, "races", r, "og-image.png">>
  <2>1. CASE file \in FilesOf(d, bundle)
    <3>1. \/ file = At(id, <<"release-status.json">>) \/ file = At(id, <<"release-manifest.json">>)
          \/ \E r \in Facts(bundle).races : file = At(id, <<"races", r, "og-image.png">>)
      BY <2>1 DEF FilesOf
    <3> QED BY <1>1, <3>1, Zenon
  <2>2. CASE file \in Single \cup {CalendarPath, ManifestPath, SnapshotPath}
    BY <2>2 DEF Single, CalendarPath, ManifestPath, SnapshotPath
  <2> QED BY <2>1, <2>2
<1>3. /\ "e" \in S /\ "races" \in S /\ "og-image.png" \in S
      /\ \A x \in alone : x \in S /\ x # ""
      /\ \A x \in {"release-status.json", "release-manifest.json"} : x \in S /\ x # ""
  BY DEF Words
<1> HIDE DEF alone
<1>4. ASSUME NEW x \in alone, file = <<x>>
      PROVE  file \in Seq(S) /\ file # << >> /\ Last(file) # ""
  BY <1>3, <1>4, Tuples, LastOf
<1>5. ASSUME NEW x \in {"release-status.json", "release-manifest.json"}, file = <<"e", id, x>>
      PROVE  file \in Seq(S) /\ file # << >> /\ Last(file) # ""
  <2>1. x \in S /\ x # ""
    BY <1>3
  <2>2. <<"e", id, x>> \in Seq(S) /\ <<"e", id, x>> # << >>
    BY <1>3, <2>1, Tuples, Zenon
  <2>3. Last(<<"e", id, x>>) = x
    BY LastOf
  <2> QED BY <1>5, <2>1, <2>2, <2>3, Zenon
<1>6. ASSUME NEW r \in Facts(bundle).races, file = <<"e", id, "races", r, "og-image.png">>
      PROVE  file \in Seq(S) /\ file # << >> /\ Last(file) # ""
  <2>1. r \in S
    OBVIOUS
  <2>2. <<"e", id, "races", r, "og-image.png">> \in Seq(S) /\ <<"e", id, "races", r, "og-image.png">> # << >>
    BY <1>3, <2>1, Tuples, Zenon
  <2>3. Last(<<"e", id, "races", r, "og-image.png">>) = "og-image.png" /\ "og-image.png" # ""
    BY LastOf
  <2> QED BY <1>6, <2>2, <2>3, Zenon
<1> QED BY <1>2, <1>4, <1>5, <1>6

\* A directory of two parts is the home of an election.
LEMMA HomesOnly ==
    ASSUME NEW site, NEW bundles, NEW authored, NEW x,
           <<"e", x>> \in SiteDirectories(site, bundles, authored)
    PROVE  \E d \in Elections(site) : d.election = x
<1>1. <<"e", x>> # <<"e">> /\ <<"e", x>> # <<"about">>
  OBVIOUS
<1>2. PICK d \in Elections(site) : <<"e", x>> \in DirectoriesOf(d, bundles[d.bundle], authored)
  BY <1>1 DEF SiteDirectories
<1>3. \/ <<"e", x>> = Home(d.election)
      \/ \E name : <<"e", x>> = At(d.election, <<name>>)
      \/ \E r : <<"e", x>> = At(d.election, <<"races", r>>)
  BY <1>2, Zenon DEF DirectoriesOf
<1>4. \A name : At(d.election, <<name>>) = <<"e", d.election, name>>
  BY AddressedAll, Zenon
<1>5. \A r : At(d.election, <<"races", r>>) = <<"e", d.election, "races", r>>
  BY AddressedAll, Zenon
<1>6. \A p, q, r : <<"e", x>> # <<p, q, r>> /\ \A t : <<"e", x>> # <<p, q, r, t>>
  OBVIOUS
<1>7. <<"e", x>> = Home(d.election)
  BY <1>3, <1>4, <1>5, <1>6, Zenon
<1>8. <<"e", x>> = <<"e", d.election>>
  BY <1>7 DEF Home
<1>9. x = d.election
  BY <1>8
<1> QED BY <1>9

\* The worker of a site knows its directories and files.
LEMMA WorkerKnows ==
    ASSUME NEW site, ManifestDeclares(site), site.elections \in Seq(Elections(site)),
           NEW bundles, NEW authored, NamesApart(site)
    PROVE  Knows(SiteWords(site, bundles), SiteDirectories(site, bundles, authored), SiteFiles(site, bundles),
                 Worker(site, bundles[site.elections[1].bundle], PublicPaths(site, bundles, authored)))
<1> DEFINE S == SiteWords(site, bundles)
           dirs == SiteDirectories(site, bundles, authored)
           files == SiteFiles(site, bundles)
           public == PublicPaths(site, bundles, authored)
           worker == Worker(site, bundles[site.elections[1].bundle], public)
<1>1. /\ Words \subseteq S
      /\ \A d \in Elections(site) : d.election \in S /\ Facts(bundles[d.bundle]).races \subseteq S
  BY DEF SiteWords
<1>2. \A d \in Elections(site) : \A dir \in DirectoriesOf(d, bundles[d.bundle], authored) :
          dir \in Seq(S) /\ dir # << >> /\ Addressable(dir)
  <2> SUFFICES ASSUME NEW d \in Elections(site), NEW dir \in DirectoriesOf(d, bundles[d.bundle], authored)
               PROVE  dir \in Seq(S) /\ dir # << >> /\ Addressable(dir)
    OBVIOUS
  <2> HIDE DEF S
  <2> QED BY <1>1, DirectoryNames
<1>3. ASSUME NEW dir \in {<<"e">>, <<"about">>}
      PROVE  dir \in Seq(S) /\ dir # << >> /\ Addressable(dir)
  <2>1. "e" \in S /\ "about" \in S
    BY <1>1 DEF Words
  <2> HIDE DEF S
  <2>2. <<"e">> \in Seq(S) /\ <<"about">> \in Seq(S) /\ <<"e">> # << >> /\ <<"about">> # << >>
    BY <2>1
  <2> QED BY <1>3, <2>2 DEF Addressable
<1>4. \A dir \in dirs : dir \in Seq(S) /\ dir # << >> /\ Addressable(dir)
  <2> HIDE DEF S
  <2> QED BY <1>2, <1>3 DEF SiteDirectories
<1>5. site.elections # << >> /\ 1 \in 1..Len(site.elections) /\ site.current = site.elections[1].election
  BY DEF ManifestDeclares
<1>6. site.elections[1] \in Elections(site)
  BY <1>5 DEF Elections
<1>7. ASSUME NEW file \in files
      PROVE  file \in Seq(S) /\ file # << >> /\ Last(file) # ""
  <2> HIDE DEF S
  <2>1. PICK d \in Elections(site) :
            file \in FilesOf(d, bundles[d.bundle]) \/ file \in Single \cup {CalendarPath, ManifestPath, SnapshotPath}
    BY <1>6 DEF SiteFiles
  <2> QED BY <1>1, <2>1, FileNames
<1>8. public = (UNION {Both(dir) : dir \in dirs}) \cup files
  BY PathsOfSite
<1>9. /\ worker.public = public /\ worker.current = Slash(Home(site.current))
      /\ worker.roots = {Home(d.election) : d \in Elections(site)}
      /\ worker.compared = {Front(path) : path \in {p \in public :
                                Len(p) > 2 /\ SubSeq(p, Len(p) - 1, Len(p)) = <<"comparisons", "">>}}
  BY Zenon DEF Worker
<1>10. \A d \in Elections(site) : Home(d.election) \in dirs
  BY DEF SiteDirectories, DirectoriesOf
<1>11. ASSUME NEW root \in worker.roots
       PROVE  root \in dirs /\ \E id : id # "" /\ root = <<"e", id>>
  <2>1. PICK d \in Elections(site) : root = Home(d.election)
    BY <1>9
  <2> QED BY <1>10, <2>1 DEF Home, NamesApart
<1>12. \E root \in worker.roots : worker.current = Slash(root)
  BY <1>5, <1>6, <1>9, Zenon
<1>14. <<"e", "compare">> \notin dirs \/ <<"e", "comparisons">> \notin dirs
  <2>1. ASSUME NEW x, x # "", <<"e", x>> \in dirs
        PROVE  \E d \in Elections(site) : d.election = x
    BY <2>1, HomesOnly
  <2> QED BY <2>1 DEF NamesApart
<1>13. {<<"e">>, <<"about">>} \subseteq dirs
  BY DEF SiteDirectories
<1> HIDE DEF worker, public, dirs, files, S
<1>15. Knows(S, dirs, files, worker)
  BY <1>1, <1>4, <1>7, <1>8, <1>9, <1>11, <1>12, <1>13, <1>14, Zenon DEF Knows
<1> QED BY <1>15 DEF worker, public, dirs, files, S

\* The overlaid election that is current has its updates staged when the site verifies.
LEMMA OverlayHasUpdates ==
    ASSUME NEW site, ManifestDeclares(site), site.elections \in Seq(Elections(site)),
           NEW staged, NEW commit, StagedVerifies(staged, site, commit), site.elections[1].overlay
    PROVE  Page(At(site.current, <<"updates">>)) \in DOMAIN staged.assets
<1>1. 1 \in 1..Len(site.elections) /\ site.current = site.elections[1].election
  BY DEF ManifestDeclares
<1>2. \A i \in 1..Len(site.elections) : site.elections[i].overlay =>
          Page(At(site.elections[i].election, <<"updates">>)) \in DOMAIN staged.assets
  BY DEF StagedVerifies
<1> QED BY <1>1, <1>2

\* What the pages of the whole site lead to is served.
LEMMA LinksLead ==
    ASSUME NEW site, ManifestDeclares(site), site.elections \in Seq(Elections(site)),
           NEW bundles, NEW authored, NEW calendar, NEW commit, NamesApart(site),
           StagedVerifies(Staged(site, bundles, authored, calendar), site, commit),
           NEW path \in SiteLinks(bundles[site.elections[1].bundle], site.current)
    PROVE  Served(Staged(site, bundles, authored, calendar).assets, path)
<1> DEFINE staged == Staged(site, bundles, authored, calendar)
           assets == staged.assets
           d == site.elections[1]
           e == site.current
           current == bundles[d.bundle]
           S == SiteWords(site, bundles)
           dirs == SiteDirectories(site, bundles, authored)
<1> SUFFICES Served(assets, path)
  OBVIOUS
<1>1. d \in Elections(site) /\ d.election = e
  BY DEF ManifestDeclares, Elections
<1>2. /\ \A dir \in dirs : Page(dir) \in DOMAIN assets
      /\ \A file \in SiteFiles(site, bundles) : file \in DOMAIN assets \cup {ManifestPath}
  BY StagedHolds
<1>3. /\ Words \subseteq S /\ e \in S /\ "e" \in S /\ "comparisons" \in S /\ "updates" \in S
  BY <1>1 DEF SiteWords, Words
<1>4. /\ Home(e) \in Seq(S) /\ At(e, <<"comparisons">>) \in Seq(S) /\ At(e, <<"updates">>) \in Seq(S)
  <2> HIDE DEF S, e
  <2>1. Home(e) = <<"e", e>>
    BY AddressedAll, Zenon
  <2>2. At(e, <<"comparisons">>) = <<"e", e, "comparisons">> /\ At(e, <<"updates">>) = <<"e", e, "updates">>
    BY AddressedAll, Zenon
  <2>3. <<"e", e>> \in Seq(S) /\ <<"e", e, "comparisons">> \in Seq(S) /\ <<"e", e, "updates">> \in Seq(S)
    BY <1>3, Tuples
  <2> QED BY <2>1, <2>2, <2>3
<1>5. \A dir \in Seq(S) : Page(dir) \in DOMAIN assets => Served(assets, Slash(dir))
  <2> SUFFICES ASSUME NEW dir \in Seq(S), Page(dir) \in DOMAIN assets PROVE Served(assets, Slash(dir))
    OBVIOUS
  <2> HIDE DEF S, assets
  <2>1. Last(Slash(dir)) = "" /\ Front(Slash(dir)) = dir
    BY <1>3, BothOf, Zenon
  <2> QED BY <2>1, Zenon DEF Served
<1>6. DirectoriesOf(d, current, authored) \subseteq dirs /\ FilesOf(d, current) \subseteq SiteFiles(site, bundles)
  BY <1>1 DEF SiteDirectories, SiteFiles
<1>7. d.overlay => Page(At(e, <<"updates">>)) \in DOMAIN assets
  BY OverlayHasUpdates
<1>8. /\ Home(e) \in dirs
      /\ Facts(current).compares => At(e, <<"comparisons">>) \in dirs
      /\ ~d.overlay /\ Facts(current).updates # {} => At(e, <<"updates">>) \in dirs
      /\ At(e, <<"release-manifest.json">>) \in SiteFiles(site, bundles)
  BY <1>1, <1>6 DEF DirectoriesOf, FilesOf, Compares, Log
<1>9. \/ path = At(e, <<"release-manifest.json">>) \/ path = Slash(Home(e))
      \/ Facts(current).compares /\ path = Slash(At(e, <<"comparisons">>))
      \/ Facts(current).updates # {} /\ path = Slash(At(e, <<"updates">>))
  BY DEF SiteLinks
<1> HIDE DEF assets, staged, dirs, S, e, d, current
<1>10. CASE path = At(e, <<"release-manifest.json">>)
  BY <1>2, <1>8, <1>10 DEF Served
<1>11. CASE path = Slash(Home(e))
  BY <1>2, <1>4, <1>5, <1>8, <1>11
<1>12. CASE Facts(current).compares /\ path = Slash(At(e, <<"comparisons">>))
  BY <1>2, <1>4, <1>5, <1>8, <1>12
<1>13. CASE Facts(current).updates # {} /\ path = Slash(At(e, <<"updates">>))
  <2>1. Page(At(e, <<"updates">>)) \in DOMAIN assets
    BY <1>2, <1>7, <1>8, <1>13
  <2> QED BY <1>4, <1>5, <1>13, <2>1
<1> QED BY <1>9, <1>10, <1>11, <1>12, <1>13

\* A staged site leads wherever it says.
LEMMA StagedLeads ==
    ASSUME NEW site, ManifestDeclares(site), site.elections \in Seq(Elections(site)),
           NEW bundles, NEW authored, NEW calendar, NEW commit, NamesApart(site),
           StagedVerifies(Staged(site, bundles, authored, calendar), site, commit)
    PROVE  Leads(Staged(site, bundles, authored, calendar))
<1> DEFINE staged == Staged(site, bundles, authored, calendar)
           assets == staged.assets
           current == bundles[site.elections[1].bundle]
           worker == Worker(site, current, PublicPaths(site, bundles, authored))
           S == SiteWords(site, bundles)
           dirs == SiteDirectories(site, bundles, authored)
           files == SiteFiles(site, bundles)
<1>1. Knows(S, dirs, files, worker)
  BY WorkerKnows
<1>2. /\ \A dir \in dirs : Page(dir) \in DOMAIN assets
      /\ \A file \in files : file \in DOMAIN assets \cup {ManifestPath}
      /\ assets[<<"_worker.js">>] = worker
  BY StagedHolds
<1>3. worker.missing.links = SiteLinks(current, site.current)
  BY DEF Worker, SitePage
<1>4. \A path \in SiteLinks(current, site.current) : Served(assets, path)
  BY LinksLead
<1> HIDE DEF assets, staged, dirs, S, files, worker, current
<1>5. \A path \in worker.public : Served(assets, path)
  <2> SUFFICES ASSUME NEW path \in worker.public PROVE Served(assets, path)
    OBVIOUS
  <2> QED BY <1>1, <1>2, PublicServed
<1>6. ASSUME NEW address \in Addresses(worker), NEW next \in Redirected(worker, address)
      PROVE  next \in worker.public /\ Redirected(worker, next) = {} /\ Served(assets, next)
  <2>1. Arrives(worker, next)
    BY <1>1, SentOnTo
  <2>2. next \in worker.public /\ Last(next) = ""
    BY <2>1 DEF Arrives
  <2>3. Redirected(worker, next) = {}
    BY <1>1, <2>1, <2>2, StaysPut DEF Arrives
  <2> QED BY <1>5, <2>2, <2>3
<1>7. Leads(staged)
  BY <1>2, <1>3, <1>4, <1>5, <1>6 DEF Leads, assets
<1> QED BY <1>7 DEF staged

\* No commit declares an election called "compare" beside one called "comparisons": the home of the
\* one is what the address of the other was once, and would be sent on to it.
NothingIsMistaken ==
    \A commit \in Commits : ~({"compare", "comparisons"} \subseteq {d.election : d \in Elections(Declared(commit))})

\* The shape of the command and of the directory.
AddressTypeOK ==
    /\ head \in Commits
    /\ output = [place \in Places |-> output[place]]
    /\ job = [step |-> job.step, source |-> job.source, made |-> job.made, backup |-> job.backup,
              downloads |-> job.downloads]
    /\ job.step \in StepSet
    /\ job.step # <<"idle", "">> => job.source \in Commits
\* The site that stands, and the two in hand while one takes the place of the other.
SitesLead ==
    /\ EveryAddressLeads
    /\ job.step = <<"swap", "site">> => Leads(job.made) /\ (job.backup # None => Leads(job.backup))
\* The inductive invariant.
AddressInv == AddressTypeOK /\ SitesLead

\* A command that gives up has nothing in hand.
LEMMA AddressesAtRest ==
    ASSUME AddressInv, head' \in Commits, job' = NoCommand, output' = [place \in Places |-> output'[place]],
           output'.site # None => Leads(output'.site)
    PROVE  AddressInv'
<1>1. /\ job'.step = <<"idle", "">>
      /\ job' = [step |-> job'.step, source |-> job'.source, made |-> job'.made, backup |-> job'.backup,
                 downloads |-> job'.downloads]
  BY IdleLater DEF Resting
<1>2. AddressTypeOK'
  BY <1>1 DEF AddressTypeOK, StepSet
<1>3. job'.step # <<"swap", "site">>
  <2>1. <<"idle", "">> # <<"swap", "site">>
    OBVIOUS
  <2> QED BY <1>1, <2>1, Zenon
<1>4. SitesLead'
  BY <1>3 DEF SitesLead, EveryAddressLeads
<1> QED BY <1>2, <1>4 DEF AddressInv

\* The steps at which no site is in hand.
LEMMA NoSiteInHand ==
    /\ <<"resolve", "all">> \in StepSet \ {<<"swap", "site">>} /\ <<"stage", "site">> \in StepSet \ {<<"swap", "site">>}
    /\ <<"read", "a">> \in StepSet \ {<<"swap", "site">>} /\ <<"read", "b">> \in StepSet \ {<<"swap", "site">>}
<1>1. /\ <<"resolve", "all">> # <<"swap", "site">> /\ <<"stage", "site">> # <<"swap", "site">>
      /\ <<"read", "a">> # <<"swap", "site">> /\ <<"read", "b">> # <<"swap", "site">>
  OBVIOUS
<1>2. /\ <<"resolve", "all">> \in StepSet /\ <<"stage", "site">> \in StepSet
      /\ <<"read", "a">> \in StepSet /\ <<"read", "b">> \in StepSet
  BY DEF StepSet
<1> QED BY <1>1, <1>2

\* While the directory stays as it is, and no site is in hand, the invariant holds on.
LEMMA AddressesStay ==
    ASSUME AddressInv, head' \in Commits, output' = output,
           \/ job' = job
           \/ /\ job' = [step |-> job'.step, source |-> job'.source, made |-> job'.made, backup |-> job'.backup,
                         downloads |-> job'.downloads]
              /\ job'.step \in StepSet \ {<<"swap", "site">>} /\ job'.source \in Commits
    PROVE  AddressInv'
<1>1. AddressTypeOK'
  BY DEF AddressInv, AddressTypeOK
<1>2. SitesLead'
  BY DEF AddressInv, SitesLead, EveryAddressLeads
<1> QED BY <1>1, <1>2 DEF AddressInv

\* The command goes on.
LEMMA AddressesProceed ==
    ASSUME AddressInv, head' = head, output' = output, Proceed, job.step # <<"idle", "">>,
           FollowingStep(job.step) \in StepSet \ {<<"swap", "site">>}
    PROVE  AddressInv'
<1>1. head \in Commits /\ job.source \in Commits
      /\ job' = [step |-> FollowingStep(job.step), source |-> job.source, made |-> job.made,
                 backup |-> job.backup, downloads |-> job.downloads]
  BY DEF Proceed, AddressInv, AddressTypeOK
<1>2. /\ job' = [step |-> job'.step, source |-> job'.source, made |-> job'.made, backup |-> job'.backup,
                 downloads |-> job'.downloads]
      /\ job'.step = FollowingStep(job.step) /\ job'.source = job.source
  BY <1>1
<1> QED BY <1>1, <1>2, AddressesStay

\* A check before a reading, and the comparison of the two builds.
LEMMA AddressesChecked ==
    ASSUME AddressInv, Compare \/ \E b \in Builds : CheckCheckout(b)
    PROVE  AddressInv'
<1>1. /\ head' = head /\ output' = output /\ (Proceed \/ GiveUp)
      /\ job.step \in {<<"compare", "both">>, <<"check", "a">>, <<"check", "b">>}
  BY DEF Compare, CheckCheckout, Environment, Builds
<1>2. head \in Commits /\ output = [place \in Places |-> output[place]]
      /\ (output.site # None => Leads(output.site))
  BY DEF AddressInv, AddressTypeOK, SitesLead, EveryAddressLeads
<1>3. CASE GiveUp
  BY <1>1, <1>2, <1>3, AddressesAtRest DEF GiveUp
<1>4. CASE Proceed
  <2>1. FollowingStep(job.step) \in {<<"resolve", "all">>, <<"read", "a">>, <<"read", "b">>}
    BY <1>1, StepsFollow
  <2>3. job.step # <<"idle", "">>
    <3>1. /\ <<"compare", "both">> # <<"idle", "">> /\ <<"check", "a">> # <<"idle", "">>
          /\ <<"check", "b">> # <<"idle", "">>
      OBVIOUS
    <3> QED BY <1>1, <3>1
  <2>2. {<<"resolve", "all">>, <<"read", "a">>, <<"read", "b">>} \subseteq StepSet \ {<<"swap", "site">>}
    BY NoSiteInHand
  <2> QED BY <1>1, <1>4, <2>1, <2>2, <2>3, AddressesProceed
<1> QED BY <1>1, <1>3, <1>4

\* A reading of the checkout.
LEMMA AddressesRead ==
    ASSUME AddressInv, NEW b \in Builds, NEW shots \in Screens, ReadCheckout(b, shots)
    PROVE  AddressInv'
<1> DEFINE built == Bundle(SourceOf(job.source, InputsRead), CurrentOf(job.source).version, shots)
<1>1. head' = head /\ job.step = <<"read", b>>
      /\ head \in Commits /\ output = [place \in Places |-> output[place]]
      /\ (output.site # None => Leads(output.site))
  BY DEF ReadCheckout, Environment, AddressInv, AddressTypeOK, SitesLead, EveryAddressLeads
<1>2. CASE ~BundleVerifies(built)
  BY <1>1, <1>2, AddressesAtRest DEF ReadCheckout, GiveUp
<1>3. CASE BundleVerifies(built)
  <2>1. /\ job.step # <<"idle", "">> /\ FollowingStep(job.step) = <<"swap", b>> /\ <<"swap", b>> \in StepSet
    BY <1>1, StepsFollow DEF Builds, StepSet
  <2>2. /\ output' = [output EXCEPT ![b] = None]
        /\ job' = [step |-> <<"swap", b>>, source |-> job.source, made |-> built, backup |-> output[b],
                   downloads |-> job.downloads]
    BY <1>3, <2>1 DEF ReadCheckout, AddressInv, AddressTypeOK
  <2> HIDE DEF built
  <2>3. output' = [place \in Places |-> output'[place]] /\ output'.site = output.site
    BY <1>1, <2>2 DEF Places, Builds
  <2>4. AddressTypeOK'
    BY <1>1, <2>1, <2>2, <2>3 DEF AddressInv, AddressTypeOK
  <2>5. SitesLead'
    BY <1>1, <2>2, <2>3 DEF SitesLead, EveryAddressLeads, Builds
  <2> QED BY <2>4, <2>5 DEF AddressInv
<1> QED BY <1>2, <1>3

\* What was made takes its place, or what stood there comes back.
LEMMA AddressesMoved ==
    ASSUME AddressInv, NEW place \in Places, MoveIn(place)
    PROVE  AddressInv'
<1>1. /\ job.step = <<"swap", place>> /\ job.step # <<"idle", "">> /\ head' = head
      /\ head \in Commits /\ output = [p \in Places |-> output[p]]
      /\ (output.site # None => Leads(output.site))
  BY DEF MoveIn, Environment, AddressInv, AddressTypeOK, SitesLead, EveryAddressLeads
<1>2. FollowingStep(job.step) \in StepSet
      /\ (place = "a" => FollowingStep(job.step) = <<"check", "b">>)
      /\ (place = "b" => FollowingStep(job.step) = <<"compare", "both">>)
      /\ (place = "site" => FollowingStep(job.step) = <<"recheck", "site">>)
  BY <1>1, StepsFollow DEF StepSet, Places
<1>3. place = "site" => Leads(job.made) /\ (job.backup # None => Leads(job.backup))
  BY <1>1 DEF AddressInv, SitesLead
<1>4. ASSUME NEW put, output' = [output EXCEPT ![place] = put], place = "site" => put = None \/ Leads(put)
      PROVE  /\ output' = [p \in Places |-> output'[p]]
             /\ output'.site # None => Leads(output'.site)
  <2>1. /\ output' = [p \in Places |-> output'[p]] /\ output'[place] = put
        /\ \A p \in Places \ {place} : output'[p] = output[p]
    BY <1>1, <1>4
  <2> QED BY <1>1, <1>4, <2>1 DEF Places
<1>5. CASE output' = [output EXCEPT ![place] = job.backup] /\ GiveUp
  <2>1. output' = [p \in Places |-> output'[p]] /\ (output'.site # None => Leads(output'.site))
    BY <1>3, <1>4, <1>5
  <2> QED BY <1>1, <1>5, <2>1, AddressesAtRest DEF GiveUp
<1>6. CASE /\ output' = [output EXCEPT ![place] = job.made]
           /\ job' = [job EXCEPT !.step = FollowingStep(job.step), !.made = None, !.backup = None]
  <2>1. output' = [p \in Places |-> output'[p]] /\ (output'.site # None => Leads(output'.site))
    BY <1>3, <1>4, <1>6
  <2>2. job' = [step |-> FollowingStep(job.step), source |-> job.source, made |-> None, backup |-> None,
                downloads |-> job.downloads]
    BY <1>6 DEF AddressInv, AddressTypeOK
  <2>3. AddressTypeOK'
    BY <1>1, <1>2, <2>1, <2>2 DEF AddressInv, AddressTypeOK
  <2>4. SitesLead'
    <3>1. job'.step # <<"swap", "site">>
      BY <1>2, <2>2 DEF Places
    <3> QED BY <2>1, <3>1 DEF SitesLead, EveryAddressLeads
  <2> QED BY <2>3, <2>4 DEF AddressInv
<1> QED BY <1>5, <1>6 DEF MoveIn

\* One more release downloaded, or all of them there.
LEMMA AddressesResolved ==
    ASSUME AddressInv, Resolve
    PROVE  AddressInv'
<1>1. /\ job.step = <<"resolve", "all">> /\ job.step # <<"idle", "">> /\ head' = head /\ output' = output
      /\ head \in Commits /\ output = [p \in Places |-> output[p]] /\ job.source \in Commits
      /\ (output.site # None => Leads(output.site))
  BY DEF Resolve, Environment, AddressInv, AddressTypeOK, SitesLead, EveryAddressLeads
<1>2. CASE GiveUp
  BY <1>1, <1>2, AddressesAtRest DEF GiveUp
<1>3. CASE Proceed
  <2>1. FollowingStep(job.step) \in StepSet \ {<<"swap", "site">>}
    BY <1>1, StepsFollow, NoSiteInHand
  <2> QED BY <1>1, <1>3, <2>1, AddressesProceed
<1>4. CASE \E added : job' = [job EXCEPT !.downloads = added]
  <2>1. PICK added : job' = [job EXCEPT !.downloads = added]
    BY <1>4
  <2>2. job' = [step |-> job.step, source |-> job.source, made |-> job.made, backup |-> job.backup,
                downloads |-> added]
    BY <2>1 DEF AddressInv, AddressTypeOK
  <2>3. /\ job' = [step |-> job'.step, source |-> job'.source, made |-> job'.made, backup |-> job'.backup,
                   downloads |-> job'.downloads]
        /\ job'.source \in Commits /\ job'.step = <<"resolve", "all">>
    BY <1>1, <2>2
  <2>4. job'.step \in StepSet \ {<<"swap", "site">>}
    BY <2>3 DEF StepSet
  <2> QED BY <1>1, <2>3, <2>4, AddressesStay
<1> QED BY <1>2, <1>3, <1>4 DEF Resolve

\* The site is staged.
LEMMA AddressesStaged ==
    ASSUME NothingIsMistaken, AddressInv, Stage
    PROVE  AddressInv'
<1> DEFINE site == Declared(job.source)
           bundles == With(job.downloads, CurrentOf(job.source).bundle, output.a)
           staged == Staged(site, bundles, Repository[head].log, Repository[job.source].calendar)
           passes == /\ CanStage(site, bundles, Repository[head].log, job.source)
                     /\ StagedVerifies(staged, site, job.source)
<1>1. /\ job.step = <<"stage", "site">> /\ job.step # <<"idle", "">> /\ job.source \in Commits /\ head' = head
      /\ head \in Commits /\ output = [p \in Places |-> output[p]]
      /\ (output.site # None => Leads(output.site))
  BY DEF Stage, Environment, AddressInv, AddressTypeOK, SitesLead, EveryAddressLeads
<1>2. CASE ~passes
  BY <1>1, <1>2, AddressesAtRest DEF Stage, GiveUp
<1>3. CASE passes
  <2>1. FollowingStep(job.step) = <<"swap", "site">> /\ <<"swap", "site">> \in StepSet
    BY <1>1, StepsFollow DEF StepSet
  <2>2. /\ output' = [output EXCEPT !.site = None]
        /\ job' = [step |-> <<"swap", "site">>, source |-> job.source, made |-> staged,
                   backup |-> output.site, downloads |-> job.downloads]
    BY <1>3, <2>1 DEF Stage, AddressInv, AddressTypeOK
  <2>3. Leads(staged)
    <3>1. ManifestDeclares(site) /\ site.elections \in Seq(Elections(site))
      BY <1>1, <1>3, DeclarationsAssumption DEF CanStage
    <3>2. StagedVerifies(staged, site, job.source)
      BY <1>3
    <3>3. NamesApart(site)
      BY <1>1, DeclarationsAssumption DEF NothingIsMistaken, NamesApart
    <3> HIDE DEF site, bundles
    <3> QED BY <3>1, <3>2, <3>3, StagedLeads
  <2> HIDE DEF staged
  <2>4. output' = [place \in Places |-> output'[place]] /\ output'.site = None
    BY <1>1, <2>2 DEF Places
  <2>5. AddressTypeOK'
    BY <1>1, <2>1, <2>2, <2>4 DEF AddressInv, AddressTypeOK
  <2>6. SitesLead'
    BY <1>1, <2>2, <2>3, <2>4 DEF SitesLead, EveryAddressLeads
  <2> QED BY <2>5, <2>6 DEF AddressInv
<1> QED BY <1>2, <1>3

\* The invariant is inductive.
LEMMA AddressInvStep ==
    ASSUME NothingIsMistaken, AddressInv, [CandidateNext]_buildVars
    PROVE  AddressInv'
<1>1. /\ head \in Commits /\ output = [p \in Places |-> output[p]]
      /\ output.site # None => Leads(output.site)
  BY DEF AddressInv, AddressTypeOK, SitesLead, EveryAddressLeads
<1>2. CASE UNCHANGED buildVars
  BY <1>1, <1>2, AddressesStay DEF buildVars
<1>3. CASE Recheck \/ BuildDies
  <2>1. head' = head /\ output' = output /\ job' = NoCommand
    BY <1>3 DEF Recheck, BuildDies, GiveUp, Environment
  <2> QED BY <1>1, <2>1, AddressesAtRest
<1>4. ASSUME NEW commit \in Commits, BeginBuild(commit)
      PROVE  AddressInv'
  <2>1. /\ head' = head /\ output' = output
        /\ job' = [step |-> <<"check", "a">>, source |-> commit, made |-> None, backup |-> None,
                   downloads |-> << >>]
    BY <1>4 DEF BeginBuild, Environment, NoCommand, Steps
  <2>2. /\ job' = [step |-> job'.step, source |-> job'.source, made |-> job'.made, backup |-> job'.backup,
                   downloads |-> job'.downloads]
        /\ job'.source \in Commits /\ job'.step = <<"check", "a">>
    BY <2>1
  <2>3. job'.step \in StepSet \ {<<"swap", "site">>}
    BY <2>2 DEF StepSet
  <2> QED BY <1>1, <2>1, <2>2, <2>3, AddressesStay
<1>5. CASE RecordCandidate \/ \E record \in records : ArtifactsExpire(record) \/ RecoverCandidate(record)
  <2>1. head' = head /\ job' = job /\ output' = output
    BY <1>5 DEF RecordCandidate, ArtifactsExpire, RecoverCandidate
  <2> QED BY <1>1, <2>1, AddressesStay
<1>6. CASE \/ \E commit \in Commits : CheckOut(commit)
           \/ \E kind \in {"data", "code"} : EditCheckout(kind)
           \/ UndoEdit
           \/ \E version, archive : ReplaceArchive(version, archive)
  <2>1. head' \in Commits /\ job' = job /\ output' = output
    BY <1>1, <1>6 DEF CheckOut, EditCheckout, UndoEdit, ReplaceArchive
  <2> QED BY <2>1, AddressesStay
<1>7. CASE CandidateNext
  BY <1>3, <1>4, <1>5, <1>6, <1>7, AddressesChecked, AddressesRead, AddressesMoved, AddressesResolved,
     AddressesStaged DEF CandidateNext, Places
<1> QED BY <1>2, <1>7

(***************************************************************************)
(* Every address leads to a page, for any repository, bundles, archives    *)
(* and number of commands, whoever edits the checkout or replaces an       *)
(* archive meanwhile: of the site that stands in the directory, whatever   *)
(* the worker lets through, sends on or links to is answered there, and    *)
(* what is sent on is not sent on again.                                   *)
(* (stage_pages_site, _pages_worker)                                       *)
(***************************************************************************)
THEOREM AddressesLead ==
    ASSUME NothingIsMistaken
    PROVE  CandidateSpec => []EveryAddressLeads
<1>1. CandidateInit => AddressInv
  <2> SUFFICES ASSUME CandidateInit PROVE AddressInv
    OBVIOUS
  <2>1. /\ head \in Commits /\ job = NoCommand /\ output = [place \in Places |-> None]
    BY DEF CandidateInit, Places
  <2>2. job.step = <<"idle", "">>
        /\ job = [step |-> job.step, source |-> job.source, made |-> job.made, backup |-> job.backup,
                  downloads |-> job.downloads]
    BY <2>1, IdleFacts DEF Resting
  <2>3. AddressTypeOK
    BY <2>1, <2>2 DEF AddressTypeOK, StepSet
  <2>4. job.step # <<"swap", "site">>
    <3>1. <<"idle", "">> # <<"swap", "site">>
      OBVIOUS
    <3> QED BY <2>2, <3>1, Zenon
  <2>5. SitesLead
    BY <2>1, <2>4 DEF SitesLead, EveryAddressLeads, Places
  <2> QED BY <2>3, <2>5 DEF AddressInv
<1>2. AddressInv /\ [CandidateNext]_buildVars => AddressInv'
  BY AddressInvStep
<1>3. AddressInv => EveryAddressLeads
  BY DEF AddressInv, SitesLead
<1> QED BY <1>1, <1>2, <1>3, PTL DEF CandidateSpec
=============================================================================
