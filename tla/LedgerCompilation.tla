-------------------------- MODULE LedgerCompilation ---------------------------
(***************************************************************************)
(* The release ledger, its compilation into the canonical dataset, and the  *)
(* replacement of the generated files (release/models.py, compiler.py).     *)
(*                                                                          *)
(* People edit the ledger and run the compiler, which may be killed between *)
(* two renames, or fail in any of them and in their undoing.  Reviewer,     *)
(* note and locator of a decision are one author; a generated file is named *)
(* by the ledger it was compiled from.                                      *)
(***************************************************************************)
EXTENDS CanonicalDataset

CONSTANTS
    Discovery,     \* per source: [status, checked, published] of the registry
    LedgerDecisions,\* what people may write: [status, choices, url, provenance]
    Extracts,      \* [at, reviewed] of a source's extract
    DataAsOf,
    MaxLedger,     \* bound: decisions in the ledger
    MaxCompiles,   \* bound: compilations begun
    MaxFaults      \* bound: renames and removals that fail, and deaths

VARIABLES
    ledger,        \* per source: None or [at, reviewed, decisions]
    outputs,       \* per target: the ledger it was compiled from, or None
    backups,       \* per target: what the backup holds, or None
    compile,       \* the compiler under way, and the generation it replaces
    incomplete,    \* a rollback met a failure, reported or not, and nothing was put right since
    compiles, faults
ledgerVars == <<ledger, outputs, backups, compile, incomplete, compiles, faults>>

Targets == <<"snapshots", "manifests", "dataset">>
Places == Range(Targets)
NoCompile ==
    [from |-> None, previous |-> [t \in Places |-> None], step |-> "none", at |-> 1,
     failed |-> None, troubled |-> FALSE]

(***************************************************************************)
(* The ledger: validate_decision, validate_unique_races, validate_sources   *)
(* and _validate_ledger_references.                                         *)
(***************************************************************************)
LedgerDecisionHolds(d) ==
    /\ d.provenance # None => d.url # None /\ d.provenance.reviewed >= d.provenance.at
    /\ d.choices # {} <=> d.status = "endorsed"
\* _effective_provenance.
Effective(extract, d) ==
    IF d.provenance # None THEN d.provenance
    ELSE [at |-> extract.at, reviewed |-> extract.reviewed, by |-> "ledger"]
Timely(t) == t.reviewed >= t.at /\ t.reviewed <= DataAsOf
ReferencesHold(source, extract) ==
    /\ Role[source] # "excluded"
    /\ Discovery[source].status = "published" /\ extract.at >= Discovery[source].checked
    /\ \A race \in DOMAIN extract.decisions :
          LET d == extract.decisions[race]
          IN  /\ Effective(extract, d).at >= Discovery[source].checked
              /\ race \in Eligible[source] /\ d.choices \subseteq ChoicesOf[race]
Recorded(l) == {s \in Sources : l[s] # None}
LedgerHolds(l) ==
    /\ Recorded(l) # {}
    /\ \A s \in Recorded(l) :
          /\ l[s].decisions # << >> /\ Timely(l[s])
          /\ \A r \in DOMAIN l[s].decisions :
                LedgerDecisionHolds(l[s].decisions[r]) /\ Timely(Effective(l[s], l[s].decisions[r]))
          /\ ReferencesHold(s, l[s])

(***************************************************************************)
(* compile_release_dataset.                                                 *)
(***************************************************************************)
\* One capture per publication: _publication_key, _capture_source_publications.
PublicationCapture(source, extract, d) ==
    LET from == Effective(extract, d)
    IN  [source |-> source, url |-> d.url, at |-> from.at, by |-> from.by, available |-> TRUE,
         published |-> IF d.url # None THEN Never ELSE Discovery[source].published]

\* *mutation*: only three candidates and more are reviewed
ManyChoices(d) == Cardinality(d.choices) > 2

RequiresReview(d) == Cardinality(d.choices) > 1
\* _normalized_status and _raw_status.
NormalizedStatus(d) ==
    IF d.status # "endorsed" THEN d.status
    ELSE CASE Cardinality(d.choices) = 1 -> "endorsed"
           [] Cardinality(d.choices) = 2 -> "dual_endorsement"
           [] OTHER -> "multiple_endorsement"
Spoken == [no_endorsement |-> "no endorsement", declined_to_endorse |-> "declined to endorse"]
RawStatus(d) ==
    IF d.status # "endorsed" THEN Spoken[d.status]
    ELSE CASE Cardinality(d.choices) = 1 -> "endorsed"
           [] Cardinality(d.choices) = 2 -> "dual endorsement"
           [] OTHER -> "multiple endorsement"
\* The names of the choices, joined; a joined text resembles nothing.
RawCandidates(d) ==
    IF d.choices = {} THEN None
    ELSE IF Cardinality(d.choices) = 1 THEN DisplayName[CHOOSE c \in d.choices : TRUE]
    ELSE {DisplayName[c] : c \in d.choices}

\* The records of one decision.
CompiledDecision(source, extract, race) ==
    LET d == extract.decisions[race]
        from == Effective(extract, d)
        capture == PublicationCapture(source, extract, d)
        said == Said(DisplayName[race], RawCandidates(d), RawStatus(d), from.by)
        claim == Claim(capture, source, said, RequiresReview(d))
        resolution == Resolution(race, NormalizedStatus(d), d.choices)
        item == Item(claim, "extraction_requires_review", Match("matched", race, {race}), NoMatch, from.at)
        linked == IF RequiresReview(d) THEN item ELSE None
    IN  [capture |-> capture, claim |-> claim, item |-> linked,
         decision |-> Decision(item, "approve", from.reviewed, resolution),
         endorsement |-> Endorsement(claim, resolution, from.reviewed, linked)]

(***************************************************************************)
(* What people may write and when, and that the registry dates no           *)
(* publication after the election, which the registry itself does not check *)
(* and the dataset does.  A record is not None.                             *)
(***************************************************************************)
ASSUME LedgerAssumption ==
    /\ \A d \in LedgerDecisions :
          /\ d.status \in {"endorsed", "no_endorsement", "declined_to_endorse"}
          /\ d.provenance # None =>
                {d.provenance.at, d.provenance.reviewed} \subseteq Nat \ {Never}
    /\ \A x \in Extracts : {x.at, x.reviewed} \subseteq Nat \ {Never}
    /\ \A s \in Sources : Discovery[s].published \in 0..ElectionDate

ASSUME RecordAssumption ==
    \A s \in Sources, r \in Races, x \in Extracts, d \in LedgerDecisions :
        LET made == CompiledDecision(s, [at |-> x.at, reviewed |-> x.reviewed, decisions |-> [q \in {r} |-> d]], r)
        IN  None \notin {made.decision.item, made.decision.resolution}

LedgerRaces(l) == UNION {{<<s, r>> : r \in DOMAIN l[s].decisions} : s \in Recorded(l)}
CompiledKey(l, key) == CompiledDecision(key[1], l[key[1]], key[2])
ReviewedRaces(l) == {key \in LedgerRaces(l) : RequiresReview(l[key[1]].decisions[key[2]])}
Compiled(l) ==
    LET all == SetToSeq(LedgerRaces(l))
        reviewed == SetToSeq(ReviewedRaces(l))
    IN  Dataset(SetToSeq({CompiledKey(l, key).capture : key \in LedgerRaces(l)}),
                [i \in DOMAIN all |-> CompiledKey(l, all[i]).claim],
                [i \in DOMAIN all |-> CompiledKey(l, all[i]).endorsement],
                [i \in DOMAIN reviewed |-> CompiledKey(l, reviewed[i]).item],
                [i \in DOMAIN reviewed |-> CompiledKey(l, reviewed[i]).decision])

(***************************************************************************)
(* People edit the ledger; the compiler read it when it began, so that only *)
(* an edit between two compilations makes a difference.                     *)
(***************************************************************************)
LedgerInit ==
    /\ ledger = [s \in Sources |-> None]
    /\ outputs = [t \in Places |-> None]
    /\ backups = [t \in Places |-> None]
    /\ compile = NoCompile
    /\ incomplete = FALSE
    /\ compiles = 0 /\ faults = 0

Edited(source, extract, race, d) ==
    LET before == IF ledger[source] = None THEN << >> ELSE ledger[source].decisions
    IN  [ledger EXCEPT ![source] =
           [at |-> extract.at, reviewed |-> extract.reviewed, decisions |-> WithEntry(before, race, d)]]
\* Bound: once something was compiled, decisions are only added.
OnlyAdds == ledger' = ledger \/ LedgerRaces(ledger) # LedgerRaces(ledger')
EditLedger ==
    /\ compile = NoCompile
    /\ \E s \in Sources, r \in Races, x \in Extracts, d \in LedgerDecisions :
          ledger' = Edited(s, x, r, d)
    /\ Cardinality(LedgerRaces(ledger')) <= MaxLedger
    /\ compiles = 0 \/ OnlyAdds
    /\ UNCHANGED <<outputs, backups, compile, incomplete, compiles, faults>>

(***************************************************************************)
(* The compiler, _replace_outputs_atomically: everything is staged, then    *)
(* every target is moved aside and its successor in.                        *)
(***************************************************************************)
Goes(step, at) == compile' = [compile EXCEPT !.step = step, !.at = at]
At(step) == compile # NoCompile /\ compile.step = step
Target == Targets[compile.at]
Fault == faults < MaxFaults /\ faults' = faults + 1
Ends == compile' = NoCompile
UnrecoveredBackups == {t \in Places : backups[t] # None}

BeginCompile ==
    /\ compile = NoCompile /\ compiles < MaxCompiles
    /\ LedgerHolds(ledger) /\ DatasetHolds(Compiled(ledger))
    /\ UnrecoveredBackups = {}
    /\ compile' = [from |-> ledger, previous |-> outputs, step |-> "aside", at |-> 1,
                   failed |-> None, troubled |-> FALSE]
    /\ compiles' = compiles + 1
    /\ UNCHANGED <<ledger, outputs, backups, incomplete, faults>>
MoveAside ==
    /\ At("aside")
    /\ backups' = [backups EXCEPT ![Target] = outputs[Target]]
    /\ outputs' = [outputs EXCEPT ![Target] = None]
    /\ Goes("in", compile.at)
    /\ UNCHANGED <<ledger, incomplete, compiles, faults>>
MoveIn ==
    /\ At("in")
    /\ outputs' = [outputs EXCEPT ![Target] = compile.from]
    /\ IF compile.at < Len(Targets) THEN Goes("aside", compile.at + 1) ELSE Goes("clean", 1)
    /\ UNCHANGED <<ledger, backups, incomplete, compiles, faults>>
RemoveBackup ==
    /\ At("clean")
    /\ backups' = [backups EXCEPT ![Target] = None]
    /\ IF compile.at < Len(Targets) THEN Goes("clean", compile.at + 1) /\ UNCHANGED incomplete
       ELSE Ends /\ incomplete' = FALSE
    /\ UNCHANGED <<ledger, outputs, compiles, faults>>
RemovalFails ==
    /\ At("clean") /\ backups[Target] # None /\ Fault /\ Ends
    /\ UNCHANGED <<ledger, outputs, backups, incomplete, compiles>>

(***************************************************************************)
(* A rename fails: the targets already replaced are rolled back, the last   *)
(* first (_rollback_outputs), then the one that failed is put back.         *)
(***************************************************************************)
ReplaceFails ==
    /\ compile # NoCompile /\ compile.step \in {"aside", "in"}
    /\ Fault
    /\ compile' = [compile EXCEPT !.step = "undo", !.at = @ - 1, !.failed = Target]
    /\ UNCHANGED <<ledger, outputs, backups, incomplete, compiles>>
Troubles == compile' = [compile EXCEPT !.step = "restore", !.troubled = TRUE]

\* *mutation*: only what can be put back is taken away
RemoveBacked(t) == backups[t] # None

Removes(t) == TRUE
UndoReplacement ==
    /\ At("undo") /\ compile.at > 0
    /\ \/ /\ outputs' = [outputs EXCEPT ![Target] = IF Removes(Target) THEN None ELSE @]
          /\ Goes("restore", compile.at) /\ UNCHANGED faults
       \/ Fault /\ Troubles /\ UNCHANGED outputs
    /\ UNCHANGED <<ledger, backups, incomplete, compiles>>
\* The rename fails over a directory that could not be removed.
PutBack(t) ==
    /\ outputs' = [outputs EXCEPT ![t] = backups[t]]
    /\ backups' = [backups EXCEPT ![t] = None]
RestoreBackup ==
    /\ At("restore")
    /\ \/ /\ backups[Target] # None => outputs[Target] = None
          /\ IF backups[Target] = None THEN UNCHANGED <<outputs, backups>> ELSE PutBack(Target)
          /\ Goes("undo", compile.at - 1) /\ UNCHANGED faults
       \/ /\ backups[Target] # None
          /\ IF outputs[Target] = None THEN Fault ELSE UNCHANGED faults
          /\ compile' = [compile EXCEPT !.step = "undo", !.at = @ - 1, !.troubled = TRUE]
          /\ UNCHANGED <<outputs, backups>>
    /\ UNCHANGED <<ledger, incomplete, compiles>>
RestoreFailed ==
    LET t == compile.failed
    IN  /\ At("undo") /\ compile.at = 0 /\ Ends
        /\ \/ /\ IF backups[t] # None /\ outputs[t] = None THEN PutBack(t) ELSE UNCHANGED <<outputs, backups>>
              /\ incomplete' = (incomplete \/ compile.troubled) /\ UNCHANGED faults
           \/ /\ backups[t] # None /\ outputs[t] = None /\ Fault
              /\ incomplete' = TRUE /\ UNCHANGED <<outputs, backups>>
        /\ UNCHANGED <<ledger, compiles>>

CompilerDies ==
    /\ compile # NoCompile /\ Fault /\ Ends
    /\ incomplete' = (incomplete \/ compile.troubled)
    /\ UNCHANGED <<ledger, outputs, backups, compiles>>
\* An operator puts the files of one compilation back and removes the backups.
Repair ==
    /\ compile = NoCompile /\ (incomplete \/ UnrecoveredBackups # {})
    /\ \E t \in Places : outputs[t] # None /\ outputs' = [p \in Places |-> outputs[t]]
    /\ backups' = [t \in Places |-> None]
    /\ incomplete' = FALSE
    /\ UNCHANGED <<ledger, compile, compiles, faults>>
LedgerNext ==
    \/ EditLedger \/ BeginCompile \/ MoveAside \/ MoveIn \/ RemoveBackup \/ RemovalFails
    \/ ReplaceFails \/ UndoReplacement \/ RestoreBackup \/ RestoreFailed
    \/ CompilerDies \/ Repair
LedgerSpec == LedgerInit /\ [][LedgerNext]_ledgerVars

(***************************************************************************)
(* Properties.                                                              *)
(***************************************************************************)

(***************************************************************************)
(* A ledger that passes its own checks compiles: what the compiler makes of *)
(* it passes every cross-check of the canonical dataset, and says of each   *)
(* race what the ledger said, neither more nor less.                        *)
(* (compile_release_dataset against CanonicalDataset.validate_references.)  *)
(***************************************************************************)
LedgerSays(l) ==
    UNION {{<<s, r, l[s].decisions[r].choices>> : r \in DOMAIN l[s].decisions} : s \in Recorded(l)}
CompiledIsAdmissible ==
    (compile = NoCompile /\ LedgerHolds(ledger)) =>
        LET d == Compiled(ledger)
        IN  /\ DatasetHolds(d)
            /\ {<<e.source, e.race, e.choices>> : e \in Range(d.endorsements)} = LedgerSays(ledger)

(***************************************************************************)
(* A swap that fails is undone: whichever rename failed and however many    *)
(* targets were replaced by then, the complete previous generation is back, *)
(* also where there was none, and no backup is left, as long as no rename   *)
(* or removal fails on the way back.  (_replace_outputs_atomically,         *)
(* _rollback_outputs.)                                                      *)
(***************************************************************************)
FailedSwapIsUndone ==
    [][RestoreFailed /\ ~compile.troubled /\ faults' = faults
         => outputs' = compile.previous /\ UnrecoveredBackups' = {}]_ledgerVars

OneCompilation == Cardinality({outputs[t] : t \in Places} \ {None}) <= 1

(***************************************************************************)
(* Until a rollback meets a failure, snapshots, manifests and dataset of    *)
(* two compilations stand side by side only where a backup stops the next   *)
(* compiler: whichever renames failed and wherever compilers were killed.   *)
(* Once a rollback met one, nothing is said.  (_replace_outputs_atomically.)*)
(***************************************************************************)
OneCompilationUntilTrouble ==
    (compile = NoCompile /\ UnrecoveredBackups = {} /\ ~incomplete) => OneCompilation

(***************************************************************************)
(* docs/RELEASE.md, "transactional: a failed swap restores the complete     *)
(* previous generation": where no backup tells of a swap that was cut       *)
(* short, the three files are of one compilation.  The code refutes it.     *)
(***************************************************************************)
SwapsAreTransactional ==
    (compile = NoCompile /\ UnrecoveredBackups = {}) => OneCompilation
=============================================================================
