------------------------------ MODULE ReviewQueue -------------------------------
(***************************************************************************)
(* Normalization and its audit records (normalization/records.py, the       *)
(* normalize and review commands of cli.py): a claim becomes an endorsement *)
(* or a review item, a person approves or rejects the item, and fields are  *)
(* overridden.                                                              *)
(*                                                                          *)
(* Every command is a process of its own; two of them may run at once, and  *)
(* either may die.  A record, once written, is a file whose name is its     *)
(* slot.  The overrides are those of one record's fields, which no          *)
(* validation relates to each other.                                        *)
(***************************************************************************)
EXTENDS CanonicalDataset

CONSTANTS
    ReviewClaims,  \* the extracted claims, of distinct sources and races
    Rulings,       \* what a reviewer may resolve an item to
    Moments,       \* the timestamps a command may be given
    Clerks,
    Fields, Values, OldValue,
    MaxOverrides,  \* bound: overrides
    NoTask

VARIABLES
    queue,         \* per claim: the review item in its slot, or None
    endorsements,  \* written endorsements
    verdicts,      \* per decided item: its terminal decision
    overrides,     \* override records
    lock,          \* per field: the process that holds its lock, or None
    task           \* per process: what it does, with what it has read
reviewVars == <<queue, endorsements, verdicts, overrides, lock, task>>

(***************************************************************************)
(* The claims are what was extracted from their captures: each fits its     *)
(* own, a source speaks once of a race, before the election, and only of an *)
(* unavailable capture says that it is.  The dataset checks all of this;    *)
(* normalize match checks the first.                                        *)
(***************************************************************************)
ASSUME ClaimsAssumption ==
    /\ IsFiniteSet(ReviewClaims) /\ None \notin Clerks /\ Moments \subseteq Nat
    /\ \A c \in ReviewClaims :
          /\ c.source \in Sources /\ c.capture.source = c.source /\ ClaimFitsCapture(c)
          /\ c.capture.published <= ElectionDate
          /\ c.capture.available => Classified(c.said.status) # "source_unavailable"
    /\ \A c, b \in ReviewClaims :
          (c.source = b.source /\ ClaimRace(c).status = "matched"
              /\ ClaimRace(b).status = "matched" /\ ClaimRace(c).selected = ClaimRace(b).selected) => c = b

ReviewInit ==
    /\ queue = [c \in ReviewClaims |-> None]
    /\ endorsements = {}
    /\ verdicts = << >>
    /\ overrides = {}
    /\ lock = [f \in Fields |-> None]
    /\ task = [k \in Clerks |-> NoTask]
Queued == {queue[c] : c \in ReviewClaims} \ {None}
Starts(k, t) == task[k] = NoTask /\ task' = [task EXCEPT ![k] = t]
Doing(k, step) == task[k] # NoTask /\ task[k].step = step
Leaves(k) == task' = [task EXCEPT ![k] = NoTask]

(***************************************************************************)
(* normalize match: write_immutable_record installs a record or finds the   *)
(* same one in place, and otherwise the command fails.                      *)
(***************************************************************************)
\* *mutation*: a record replaces the one in its slot
AnySlot(held, record) == TRUE

SlotFree(held, record) == held \subseteq {record}
MatchToReview ==
    /\ \E c \in ReviewClaims : \E race \in {ClaimRace(c)} : \E choice \in {ClaimChoice(c, race)} :
       \E reason \in {Reason(c, race, choice, Classified(c.said.status))} \ {"none"} :
       \E item \in {Item(c, reason, race, choice, at) : at \in Moments} :
          /\ ClaimFitsCapture(c) /\ item.at >= c.capture.at
          /\ SlotFree({queue[c]} \ {None}, item) /\ queue' = [queue EXCEPT ![c] = item]
    /\ UNCHANGED <<endorsements, verdicts, overrides, lock, task>>
MatchToEndorsement ==
    /\ \E c \in ReviewClaims : \E race \in {ClaimRace(c)} : \E choice \in {ClaimChoice(c, race)} :
          /\ ClaimFitsCapture(c)
          /\ Reason(c, race, choice, Classified(c.said.status)) = "none"
          /\ endorsements' = endorsements \cup
                {MachineEndorsement(c, race, choice, Classified(c.said.status))}
    /\ UNCHANGED <<queue, verdicts, overrides, lock, task>>

(***************************************************************************)
(* review approve, review reject (_record_review_decision).                 *)
(***************************************************************************)
ReadItem(k) ==
    /\ \E item \in Queued \ DOMAIN verdicts : Starts(k, [step |-> "decide", item |-> item])
    /\ UNCHANGED <<queue, endorsements, verdicts, overrides, lock>>
\* An approval has to fit a dataset of its own item.
ApprovalHolds(x) ==
    \E c \in {x.item.claim} : \E d \in {Dataset(<<c.capture>>, <<c>>, << >>, <<x.item>>, <<x>>)} :
        DatasetHolds(d)
Held(item) == {verdicts[i] : i \in DOMAIN verdicts \cap {item}}
Rule(k, x) ==
    /\ x.at >= x.item.at
    /\ verdicts' = IF SlotFree(Held(x.item), x) THEN WithEntry(verdicts, x.item, x) ELSE verdicts
    /\ Leaves(k)
    /\ UNCHANGED <<queue, endorsements, overrides, lock>>
Approve(k) ==
    /\ Doing(k, "decide")
    /\ \E x \in {Decision(task[k].item, "approve", at, resolution) : at \in Moments, resolution \in Rulings} :
          ApprovalHolds(x) /\ Rule(k, x)
Reject(k) ==
    /\ Doing(k, "decide")
    /\ \E x \in {Decision(task[k].item, "reject", at, None) : at \in Moments} : Rule(k, x)

(***************************************************************************)
(* review override: under the lock of the field the chain is read, checked  *)
(* and extended.                                                            *)
(***************************************************************************)
Chain(records, field) == {o \in records : o.field = field}
Earlier(chain, at) == {o \in chain : o.at < at}
\* What the last of the overrides put.
CurrentValue(chain) ==
    IF chain = {} THEN OldValue ELSE (CHOOSE o \in chain : \A p \in chain : p.at <= o.at).new
\* No two are of one time, and each replaces what the earlier ones left.
Linear(chain) ==
    \A o \in chain :
        /\ o.old = CurrentValue(Earlier(chain, o.at))
        /\ \A p \in chain \ {o} : p.at # o.at

Unlocked(field) == lock[field] = None
LockField(k) ==
    /\ \E f \in Fields :
          /\ Unlocked(f) /\ lock' = [lock EXCEPT ![f] = k]
          /\ Starts(k, [step |-> "read", field |-> f])
    /\ UNCHANGED <<queue, endorsements, verdicts, overrides>>
ReadChain(k) ==
    /\ Doing(k, "read")
    /\ task' = [task EXCEPT ![k] = [step |-> "write", field |-> @.field, read |-> overrides]]
    /\ UNCHANGED <<queue, endorsements, verdicts, overrides, lock>>
Unlock(k) == lock' = [f \in Fields |-> IF lock[f] = k THEN None ELSE lock[f]]
WriteOverride(k) ==
    LET chain == Chain(task[k].read, task[k].field)
    IN  /\ Doing(k, "write") /\ Cardinality(overrides) < MaxOverrides
        /\ Linear(chain)
        /\ \E new \in Values \ {CurrentValue(chain)}, at \in Moments :
              /\ Earlier(chain, at) = chain
              /\ overrides' = overrides \cup
                    {[field |-> task[k].field, old |-> CurrentValue(chain), new |-> new, at |-> at]}
        /\ Unlock(k) /\ Leaves(k)
        /\ UNCHANGED <<queue, endorsements, verdicts>>
\* A command fails, or its process dies; the lock goes with it.
GivesUp(k) ==
    /\ task[k] # NoTask /\ Leaves(k) /\ Unlock(k)
    /\ UNCHANGED <<queue, endorsements, verdicts, overrides>>
ReviewNext ==
    \/ MatchToReview \/ MatchToEndorsement
    \/ \E k \in Clerks :
          ReadItem(k) \/ Approve(k) \/ Reject(k) \/ LockField(k) \/ ReadChain(k)
          \/ WriteOverride(k) \/ GivesUp(k)
ReviewSpec == ReviewInit /\ [][ReviewNext]_reviewVars

(***************************************************************************)
(* Properties.                                                              *)
(***************************************************************************)

(***************************************************************************)
(* The records the commands write, one at a time and two at once, always    *)
(* add up to a dataset that passes every cross-check, and the overrides of  *)
(* every field apply one after the other.  (normalize_claim,                *)
(* _record_review_decision and review_override against                      *)
(* CanonicalDataset.validate_references and _validate_override_chain.)      *)
(***************************************************************************)
Reviewed ==
    Dataset(SetToSeq({c.capture : c \in ReviewClaims}), SetToSeq(ReviewClaims),
            SetToSeq(endorsements), SetToSeq(Queued),
            SetToSeq({verdicts[i] : i \in DOMAIN verdicts}))
ReviewedIsAdmissible ==
    /\ \E d \in {Reviewed} : DatasetHolds(d)
    /\ \A f \in Fields : Linear(Chain(overrides, f))

(***************************************************************************)
(* What was queued, decided or overridden stands: no later command, and     *)
(* none that ran at the same time, puts another record in its place.        *)
(* (write_review_item, write_review_decision, write_record.)                *)
(***************************************************************************)
AuditOnlyGrows ==
    [][/\ \A c \in ReviewClaims : queue[c] # None => queue'[c] = queue[c]
       /\ \A i \in DOMAIN verdicts : i \in DOMAIN verdicts' /\ verdicts'[i] = verdicts[i]
       /\ endorsements \subseteq endorsements' /\ overrides \subseteq overrides']_reviewVars
=============================================================================
