-------------------------- MODULE PreliminaryRefresh --------------------------
(***************************************************************************)
(* The hourly refresh of the preliminary results                            *)
(* (.github/workflows/preliminary-results.yml, results/refresh.py,          *)
(* results/acquisition.py, results/publication.py): one job at a time, on a *)
(* runner that keeps nothing, asks every publisher once, and hands what it  *)
(* prepared to people as a pull request of one branch.                      *)
(*                                                                          *)
(* What a later job knows of an earlier one is its intent, uploaded before  *)
(* the first request, and the state it saved in the cache at its end.  A    *)
(* job may die before any step, and the cache may drop an entry.  Neither   *)
(* an intent nor a branch is deleted to get past a stop, and main is not    *)
(* reverted.  A tree holds the counts of the results file per source, the   *)
(* failures it records, the Updates, and the evidence manifests; a refresh's    *)
(* number is its clock.                                                     *)
(***************************************************************************)
EXTENDS Integers, Sequences, SequencesExt, FiniteSets

CONSTANTS
    Feeds,         \* the sources, in the order in which they are asked
    Bodies,        \* what an export may say: [time, votes]
    Seed,          \* the body first admitted
    MaxJobs,       \* bound: jobs
    MaxAuthored,   \* bound: Updates people write on main
    NoRefresh, NoBranch, NoState

\* A mapping that lists a source twice is refused; an export says when its publisher made it.
ASSUME FeedsAssumption ==
    /\ Feeds \in Seq(Range(Feeds)) /\ IsInjective(Feeds)
    /\ \A body \in Bodies \cup {Seed} : body.time \in Int

VARIABLES
    main,          \* the tree of main
    branch,        \* the refresh branch: [tree, base, ancestor], or NoBranch
    pr,            \* its pull request is open
    saved,         \* of the last job with an intent: its cached state, or NoState
    intended,      \* some job has uploaded an intent
    refresh,           \* the job that runs
    jobs,          \* how many have started
    observed,      \* every answer of a publisher, and every disposition of people
    authored
refreshVars == <<main, branch, pr, saved, intended, refresh, jobs, observed, authored>>

Observation(source, at, kind, body) == [source |-> source, at |-> at, kind |-> kind, body |-> body]
SourcesAsked == Range(Feeds)
Denied(o) == o.kind = "denied"
WithEvidence(tree, more) == [tree EXCEPT !.manifests = @ \cup more]
\* What an Update tells; one that people wrote tells nothing of the results.
Told(counts, failures) == [counts |-> counts, failures |-> failures]
Authored == Told({}, {})

RefreshInit ==
    /\ main = [counts |-> [s \in SourcesAsked |-> Seed], bound |-> [s \in SourcesAsked |-> 0],
               failures |-> {}, updates |-> << >>,
               manifests |-> {Observation(s, 0, "captured", Seed) : s \in SourcesAsked}]
    /\ branch = NoBranch /\ pr = FALSE
    /\ saved = NoState /\ intended = FALSE
    /\ refresh = NoRefresh /\ jobs = 0
    /\ observed = main.manifests
    /\ authored = 0

(***************************************************************************)
(* The refresh's beginning.                                                     *)
(***************************************************************************)
AtStep(step) == refresh # NoRefresh /\ refresh.step = step
Continue(step) == refresh' = [refresh EXCEPT !.step = step]
github == <<main, branch, pr>>
record == <<saved, intended>>

StartJob ==
    /\ refresh = NoRefresh /\ jobs < MaxJobs
    /\ jobs' = jobs + 1
    /\ refresh' = [step |-> "candidate", tree |-> main, base |-> main, recover |-> FALSE, kept |-> NoState,
               asked |-> 0, report |-> NoState, publish |-> FALSE]
    /\ UNCHANGED <<github, record, observed, authored>>
EndJob == refresh' = NoRefresh
JobDies == refresh # NoRefresh /\ EndJob /\ UNCHANGED <<github, record, jobs, observed, authored>>

\* git merge of main into the branch, file by file; a conflict stops the job.
MergedFile(base, ours, theirs) == IF ours = base THEN theirs ELSE ours
FileConflicts(base, ours, theirs) == ours # base /\ theirs # base /\ ours # theirs
ResultsFile(tree) == <<tree.counts, tree.bound, tree.failures>>
Conflicts(b, other) ==
    \/ FileConflicts(ResultsFile(b.base), ResultsFile(b.tree), ResultsFile(other))
    \/ FileConflicts(b.base.updates, b.tree.updates, other.updates)
MergeTrees(b, other) ==
    LET results == MergedFile(ResultsFile(b.base), ResultsFile(b.tree), ResultsFile(other))
    IN  [counts |-> results[1], bound |-> results[2], failures |-> results[3],
         updates |-> MergedFile(b.base.updates, b.tree.updates, other.updates),
         manifests |-> b.tree.manifests \cup other.manifests]

PendingCandidate ==
    /\ AtStep("candidate") /\ pr /\ EndJob
    /\ UNCHANGED <<github, record, jobs, observed, authored>>
\* A pushed branch that main does not contain is recovered if it still differs.
TakeCandidate ==
    /\ AtStep("candidate") /\ ~pr
    /\ branch # NoBranch /\ ~branch.ancestor => ~Conflicts(branch, main)
    /\ LET tree == IF branch # NoBranch /\ ~branch.ancestor THEN MergeTrees(branch, main) ELSE main
       IN  refresh' = [refresh EXCEPT !.step = "state", !.tree = tree, !.base = main, !.recover = tree # main]
    /\ UNCHANGED <<github, record, jobs, observed, authored>>

\* *mutation*: an operation of unknown outcome does not stop the next job
AnyOutcome(state) == IF state = NoState THEN TRUE ELSE ~state.blocked

OutcomeKnown(state) == state # NoState /\ state.phase = "complete" /\ ~state.blocked
ValidateState ==
    /\ AtStep("state")
    /\ refresh.recover \/ (intended => OutcomeKnown(saved))
    /\ LET holds == IF saved = NoState THEN {} ELSE saved.holds
       IN  refresh' = [refresh EXCEPT !.step = "intent", !.tree = WithEvidence(@, holds)]
    /\ UNCHANGED <<github, record, jobs, observed, authored>>
\* From here on this job is the prior one of the next, and has saved nothing.
PersistIntent ==
    /\ AtStep("intent")
    /\ intended' = TRUE /\ saved' = NoState
    /\ Continue(IF refresh.recover THEN "completion" ELSE "preflight")
    /\ UNCHANGED <<github, jobs, observed, authored>>

(***************************************************************************)
(* results prepare-refresh.                                                 *)
(***************************************************************************)
\* _check_access_hold: the latest observation, an unavailable one on a tie.
Later(o, p) == o.at > p.at \/ (o.at = p.at /\ o.kind # "captured")
Latest(source, manifests) ==
    LET of == {o \in manifests : o.source = source}
    IN  CHOOSE o \in of : \A p \in of \ {o} : Later(o, p)
OnHold(source, manifests) == Denied(Latest(source, manifests))

Blocked(tree) == refresh' = [refresh EXCEPT !.step = "completion", !.tree = tree, !.report = "blocked"]
Preflight ==
    /\ AtStep("preflight")
    /\ IF \E s \in SourcesAsked : OnHold(s, refresh.tree.manifests) THEN Blocked(refresh.tree)
       ELSE Continue("request")
    /\ UNCHANGED <<github, record, jobs, observed, authored>>

\* One request, and its manifest; a failure is recorded beside the old counts.
RequestFails ==
    LET o == [kind \in {"denied", "failed"} |->
                 Observation(Feeds[refresh.asked + 1], jobs, kind, NoState)]
    IN  /\ AtStep("request") /\ refresh.asked < Len(Feeds)
        /\ \E kind \in DOMAIN o :
              /\ observed' = observed \cup {o[kind]}
              /\ Blocked([WithEvidence(refresh.tree, {o[kind]}) EXCEPT !.failures = @ \cup {o[kind]}])
        /\ UNCHANGED <<github, record, jobs, authored>>
RequestSucceeds ==
    /\ AtStep("request") /\ refresh.asked < Len(Feeds)
    /\ \E body \in Bodies :
          LET o == Observation(Feeds[refresh.asked + 1], jobs, "captured", body)
          IN  /\ observed' = observed \cup {o}
              /\ refresh' = [refresh EXCEPT !.asked = @ + 1, !.tree = WithEvidence(@, {o})]
    /\ UNCHANGED <<github, record, jobs, authored>>

\* merge_preliminary_history.
Regressed(old, new) == \E s \in SourcesAsked : new[s].time < old[s].time
Prepare ==
    LET counts == [s \in SourcesAsked |-> Latest(s, refresh.tree.manifests).body]
    IN  /\ AtStep("request") /\ refresh.asked = Len(Feeds)
        /\ \/ ~Regressed(refresh.tree.counts, counts)
              /\ refresh' = [refresh EXCEPT !.step = "completion", !.report = "prepared",
                      !.tree = [@ EXCEPT !.counts = counts, !.bound = [s \in SourcesAsked |-> jobs]]]
           \/ Blocked(refresh.tree)      \* regressed, or the export fits its reviewed mapping no longer
        /\ UNCHANGED <<github, record, jobs, observed, authored>>

(***************************************************************************)
(* Completion, publication and handoff.                                     *)
(***************************************************************************)
HeldIn(tree) == {o \in tree.manifests : Denied(o)}
Complete ==
    LET blocked == refresh.report = "blocked"
    IN  /\ AtStep("completion")
        /\ refresh' = [refresh EXCEPT !.step = "artifact",
                      !.kept = [phase |-> "prepared", holds |-> HeldIn(refresh.tree), blocked |-> blocked],
                      !.publish = ~blocked \/ ResultsFile(refresh.tree) # ResultsFile(refresh.base)]
        /\ UNCHANGED <<github, record, jobs, observed, authored>>
RetainCandidate ==
    /\ AtStep("artifact")
    /\ Continue(IF refresh.publish THEN IF refresh.recover THEN "push" ELSE "plan" ELSE "handoff")
    /\ UNCHANGED <<github, record, jobs, observed, authored>>

\* build_preliminary_update: what the results file says anew.
Entry(old, new) ==
    Told({s \in SourcesAsked : new.counts[s] # old.counts[s]}, new.failures \ old.failures)

\* *mutation*: only new counts are told
CountsOnly(entry) == entry.counts # {}

Substantive(entry) == entry.counts # {} \/ entry.failures # {}
WithUpdate(tree, entry) == [tree EXCEPT !.updates = IF Substantive(entry) THEN Append(@, entry) ELSE @]
PlanUpdate ==
    LET entry == Entry(refresh.base, refresh.tree)
    IN  /\ AtStep("plan")
        /\ refresh' = [refresh EXCEPT !.step = "push", !.tree = WithUpdate(@, entry)]
        /\ UNCHANGED <<github, record, jobs, observed, authored>>
PushBranch ==
    /\ AtStep("push")
    /\ branch' = [tree |-> refresh.tree, base |-> refresh.base, ancestor |-> FALSE]
    /\ Continue("pr")
    /\ UNCHANGED <<main, pr, record, jobs, observed, authored>>
Completed(kept) == [kept EXCEPT !.phase = "complete"]
OpenPr ==
    /\ AtStep("pr") /\ pr' = TRUE
    /\ refresh' = [refresh EXCEPT !.step = "save", !.kept = Completed(@)]
    /\ UNCHANGED <<main, branch, record, jobs, observed, authored>>
\* A step of the publication fails; the handoff still runs.
PublicationFails ==
    /\ refresh # NoRefresh /\ refresh.step \in {"plan", "push", "pr"}
    /\ Continue("handoff")
    /\ UNCHANGED <<github, record, jobs, observed, authored>>
HandOff ==
    /\ AtStep("handoff")
    /\ refresh' = [refresh EXCEPT !.step = "save", !.kept = IF @.blocked THEN Completed(@) ELSE @]
    /\ UNCHANGED <<github, record, jobs, observed, authored>>
SaveRefresh ==
    /\ AtStep("save") /\ saved' = refresh.kept /\ EndJob
    /\ UNCHANGED <<github, intended, jobs, observed, authored>>

(***************************************************************************)
(* People and GitHub.                                                       *)
(***************************************************************************)
MergePr ==
    /\ pr /\ branch # NoBranch /\ ~Conflicts(branch, main)
    /\ main' = MergeTrees(branch, main) /\ pr' = FALSE
    /\ branch' \in {NoBranch, branch, [branch EXCEPT !.ancestor = TRUE]}  \* deleted, squashed, merged
    /\ UNCHANGED <<record, refresh, jobs, observed, authored>>
ClosePr ==
    /\ pr /\ pr' = FALSE /\ branch' \in {NoBranch, branch}
    /\ UNCHANGED <<main, record, refresh, jobs, observed, authored>>
AuthorUpdate ==
    /\ authored < MaxAuthored /\ authored' = authored + 1
    /\ main' = [main EXCEPT !.updates = Append(@, Authored)]
    /\ UNCHANGED <<branch, pr, record, refresh, jobs, observed>>
LoseState ==
    /\ saved # NoState /\ saved' = NoState
    /\ UNCHANGED <<github, intended, refresh, jobs, observed, authored>>
\* People lift a block; a denial they review first, and capture by hand.
Dispose ==
    LET reviewed == {Observation(s, jobs + 1, "captured", Seed) : s \in {f \in SourcesAsked : OnHold(f, observed)}}
    IN  /\ refresh = NoRefresh /\ saved # NoState /\ saved.blocked
        /\ main' = WithEvidence(main, reviewed)
        /\ observed' = observed \cup reviewed
        /\ saved' = [saved EXCEPT !.blocked = FALSE] /\ jobs' = jobs + 1
        /\ UNCHANGED <<branch, pr, intended, refresh, authored>>

RefreshNext ==
    \/ StartJob \/ JobDies \/ PendingCandidate \/ TakeCandidate \/ ValidateState \/ PersistIntent
    \/ Preflight \/ RequestFails \/ RequestSucceeds \/ Prepare \/ Complete \/ RetainCandidate
    \/ PlanUpdate \/ PushBranch \/ OpenPr \/ PublicationFails \/ HandOff \/ SaveRefresh
    \/ MergePr \/ ClosePr \/ AuthorUpdate \/ LoseState \/ Dispose
RefreshSpec == RefreshInit /\ [][RefreshNext]_refreshVars

(***************************************************************************)
(* Properties.                                                              *)
(***************************************************************************)

(***************************************************************************)
(* A publisher that denied access is not asked again before people have     *)
(* reviewed it: not by the next job, not after a job died with the answer,  *)
(* not after the cache dropped it or its pull request was closed.           *)
(* (_check_access_hold, the state and the intent of the workflow.)          *)
(***************************************************************************)
DenialHolds ==
    [][\A o \in observed' \ observed :
          refresh # NoRefresh => ~OnHold(o.source, observed)]_refreshVars

(***************************************************************************)
(* Main's counts never go back to an older publisher time, its failures,    *)
(* evidence and Updates only grow, and whatever merges a change of counts   *)
(* or a failure brings exactly one Update that tells it; nothing else does. *)
(* (merge_preliminary_history, build_preliminary_update and the recovery of *)
(* a pushed branch.)                                                        *)
(***************************************************************************)
MainIsTold ==
    [][/\ \A s \in SourcesAsked : main'.counts[s].time >= main.counts[s].time
       /\ main.failures \subseteq main'.failures /\ main.manifests \subseteq main'.manifests
       /\ IsPrefix(main.updates, main'.updates)
       /\ LET told == {i \in DOMAIN main'.updates \ DOMAIN main.updates : main'.updates[i] # Authored}
              entry == Entry(main, main')
          IN  IF entry = Authored THEN told = {} ELSE \E i \in told : told = {i} /\ main'.updates[i] = entry]_refreshVars
=============================================================================
