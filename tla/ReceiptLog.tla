----------------------------- MODULE ReceiptLog -----------------------------
(***************************************************************************)
(* What the evidence of a release promises its readers: a set of receipts  *)
(* that only grows, a whole receipt at a time, and in which no two         *)
(* receipts disagree about the canonical archive or the upload.            *)
(***************************************************************************)
EXTENDS Naturals

CONSTANTS Receipts,
          Archive,    \* the archive a receipt binds
          Upload      \* the upload it records, 0 for none

Contradicts(r, s) ==
  \/ Archive[r] # Archive[s]
  \/ Upload[r] # 0 /\ Upload[s] # 0 /\ Upload[r] # Upload[s]

VARIABLE log

LogInit == log = {}

Seal(r) ==
  /\ \A s \in log : ~Contradicts(r, s)
  /\ log' = log \cup {r}

LogNext == \E r \in Receipts : Seal(r)

LogSpec == LogInit /\ [][LogNext]_log
=============================================================================
