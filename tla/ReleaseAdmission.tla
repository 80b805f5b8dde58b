--------------------------- MODULE ReleaseAdmission ---------------------------
(***************************************************************************)
(* From a reviewed declaration to a published release: `prepare` writes the *)
(* declaration of a branch, `validate-request` admits the pull request, and *)
(* the serialized mainline run of a merged commit admits it again and       *)
(* publishes it (release/automation_cli.py, declaration.py, candidate.py,   *)
(* publication.py, hosting/promotion.py, ci.yml).                           *)
(*                                                                          *)
(* Branches are worked on concurrently.  Main is linear; a pull request is  *)
(* merged over whatever main has become since its check, unless the two     *)
(* conflict.  Any run may fail at any step and be repeated, long after main *)
(* has moved on.  Operators may remove a draft release.                     *)
(***************************************************************************)
EXTENDS Naturals, Sequences, FiniteSets

CONSTANTS
    Branches,
    Issues,
    Inputs,        \* the contents of ledger, dataset and registry
    Code,          \* the contents of the other release-affecting paths
    LastVersion,   \* bound: versions of the selected election
    MaxCommits,    \* bound: commits on main
    MaxChanges,    \* bound: changes of a branch's contents
    NoRequest, NoBranch, NoRun, NoRead

ASSUME AdmissionAssumption ==
    /\ LastVersion \in Nat \ {0}
    /\ MaxCommits \in Nat \ {0}
    /\ MaxChanges \in Nat

VARIABLES
    main,      \* the commits: declaration (version, request) and contents
    releases,  \* per version: absent, draft, broken (its asset is), published
    branches,  \* per branch: the fork, the tree and how far it has come
    run,       \* the mainline run in progress
    changes

admissionVars == <<main, releases, branches, run, changes>>

Versions == 1..LastVersion
Commits == DOMAIN main
Tip == Len(main)
Request(issue, boundary, inputs) == [issue |-> issue, boundary |-> boundary, inputs |-> inputs]
Tree(version, request, inputs, code) ==
    [version |-> version, request |-> request, inputs |-> inputs, code |-> code]
Site(tree) == <<tree.version, tree.request>>

Release(state, source) == [state |-> state, source |-> source]
Published(v) == releases[v].state = "published"
\* _remote_versions: every tag and every release, drafts too.
Occupied == {v \in Versions : releases[v].state # "absent"}

\* Version 1 was published by hand.
AdmissionInit ==
    \E inputs \in Inputs, code \in Code :
        /\ main = <<Tree(1, NoRequest, inputs, code)>>
        /\ releases = [v \in Versions |->
                          IF v = 1 THEN Release("published", 1) ELSE Release("absent", 0)]
        /\ branches = [b \in Branches |-> NoBranch]
        /\ run = NoRun
        /\ changes = 0

(***************************************************************************)
(* The published boundary of a base commit.                                 *)
(***************************************************************************)
\* validate_unpublished_predecessor, verify_published_release_source.
PredecessorVerified(base, boundary) ==
    LET predecessor == main[boundary].version
    IN  /\ boundary <= base
        /\ predecessor < main[base].version
        /\ releases[predecessor] = Release("published", boundary)

\* The base was declared and never published.
Unpublished(base, occupied) ==
    main[base].request # NoRequest /\ main[base].version \notin occupied

\* The boundaries a base stands for: one, or none when reading it fails.
Boundaries(base, occupied) ==
    IF Unpublished(base, occupied)
    THEN {b \in {main[base].request.boundary} : PredecessorVerified(base, b)}
    ELSE {releases[v].source : v \in {w \in {main[base].version} : Published(w)}}

(***************************************************************************)
(* Admission of a tree over a base.                                         *)
(***************************************************************************)
\* *mutation*: the bindings are not compared with the checkout
Unbound(tree) == TRUE

InputsBound(tree) == tree.request # NoRequest => tree.request.inputs = tree.inputs

\* *mutation*: the boundary of the request is not compared
AnyBoundary(base, tree) ==
    LET recovery == Unpublished(base, Occupied)
    IN  /\ Boundaries(base, Occupied) # {}
        /\ recovery => main[base].request.issue = tree.request.issue
        /\ ~recovery => main[base].request # tree.request

BoundaryHolds(base, tree) ==
    LET recovery == Unpublished(base, Occupied)
    IN  /\ tree.request.boundary \in Boundaries(base, Occupied)
        /\ recovery => main[base].request.issue = tree.request.issue
        /\ ~recovery => main[base].request # tree.request

\* validate_release_request and _admit_request.
Requests(base, tree) ==
    /\ InputsBound(tree)
    /\ Site(tree) # Site(main[base])
    /\ tree.request # NoRequest
    /\ tree.version > main[base].version
    /\ BoundaryHolds(base, tree)
RequestsNothing(base, tree) == tree = main[base] /\ InputsBound(tree)

(***************************************************************************)
(* Branches.                                                                *)
(***************************************************************************)
OpenBranch(b) ==
    /\ branches[b] = NoBranch
    /\ branches' = [branches EXCEPT ![b] =
           [fork |-> Tip, tree |-> main[Tip], occupied |-> NoRead, checked |-> FALSE]]
    /\ UNCHANGED <<main, releases, run, changes>>

\* An edit of the inputs or of the code.
EditBranch(b) ==
    /\ branches[b] # NoBranch /\ changes < MaxChanges
    /\ \E inputs \in Inputs, code \in Code :
          LET t == branches[b].tree
              edited == Tree(t.version, t.request, inputs, code)
          IN  /\ inputs = t.inputs \/ code = t.code
              /\ edited # t
              /\ branches' = [branches EXCEPT ![b].tree = edited, ![b].checked = FALSE]
    /\ changes' = changes + 1
    /\ UNCHANGED <<main, releases, run>>

\* prepare reads the occupied versions, and then main.
ReadVersions(b) ==
    /\ branches[b] # NoBranch /\ branches[b].occupied = NoRead
    /\ branches' = [branches EXCEPT ![b].occupied = Occupied]
    /\ UNCHANGED <<main, releases, run, changes>>

Highest(versions) == CHOOSE v \in versions : \A w \in versions : w <= v
PreparedVersion(t, issue, boundary, occupied) ==
    IF /\ t.request # NoRequest /\ t.request.issue = issue /\ t.request.boundary = boundary
       /\ t.version > main[Tip].version /\ t.version \notin occupied
    THEN t.version
    ELSE Highest(occupied \cup {main[Tip].version}) + 1

Prepare(b, issue) ==
    /\ branches[b] # NoBranch /\ branches[b].occupied # NoRead
    /\ LET t == branches[b].tree
           occupied == branches[b].occupied
       IN  /\ Unpublished(Tip, occupied) => main[Tip].request.issue = issue
           /\ \E boundary \in Boundaries(Tip, occupied) :
                 LET version == PreparedVersion(t, issue, boundary, occupied)
                 IN  /\ boundary <= branches[b].fork
                     /\ version \in Versions
                     /\ branches' = [branches EXCEPT ![b] =
                           [fork |-> branches[b].fork, occupied |-> NoRead, checked |-> FALSE,
                            tree |-> Tree(version, Request(issue, boundary, t.inputs),
                                          t.inputs, t.code)]]
    /\ UNCHANGED <<main, releases, run, changes>>

\* The merge with main: a part changed on both sides is a conflict.
MergedPart(forked, mine, theirs) ==
    IF mine = forked THEN {theirs}
    ELSE IF theirs \in {forked, mine} THEN {mine} ELSE {}
Merges(b) ==
    LET forked == main[branches[b].fork]
        mine == branches[b].tree
    IN  {Tree(site[1], site[2], inputs, code) :
            site \in MergedPart(Site(forked), Site(mine), Site(main[Tip])),
            inputs \in MergedPart(forked.inputs, mine.inputs, main[Tip].inputs),
            code \in MergedPart(forked.code, mine.code, main[Tip].code)}

\* validate-request, over the merge commit of the pull request.
CheckRequest(b) ==
    /\ branches[b] # NoBranch /\ ~branches[b].checked
    /\ \E tree \in Merges(b) : Requests(Tip, tree) \/ RequestsNothing(Tip, tree)
    /\ branches' = [branches EXCEPT ![b].checked = TRUE]
    /\ UNCHANGED <<main, releases, run, changes>>

MergeBranch(b) ==
    /\ branches[b] # NoBranch /\ branches[b].checked
    /\ Tip < MaxCommits
    /\ \E tree \in Merges(b) : main' = Append(main, tree)
    /\ branches' = [branches EXCEPT ![b] = NoBranch]
    /\ UNCHANGED <<releases, run, changes>>

\* Onto main, giving up the branch's declaration.
Rebase(b) ==
    /\ branches[b] # NoBranch /\ branches[b].fork < Tip
    /\ LET t == branches[b].tree
       IN  branches' = [branches EXCEPT ![b] =
              [fork |-> Tip, occupied |-> NoRead, checked |-> FALSE,
               tree |-> Tree(main[Tip].version, main[Tip].request, t.inputs, t.code)]]
    /\ UNCHANGED <<main, releases, run, changes>>

(***************************************************************************)
(* The mainline run of a commit: its push, or a repetition.                 *)
(***************************************************************************)
AtRun(step) == run # NoRun /\ run.step = step
Continue(step) == run' = [run EXCEPT !.step = step]

\* The preflight: a run that fails it, or requests nothing, ends with no effect.
Preflight ==
    /\ run = NoRun
    /\ \E c \in Commits \ {1} :
          /\ Requests(c - 1, main[c])
          /\ run' = [source |-> c, step |-> "admit"]
    /\ UNCHANGED <<main, releases, branches, changes>>

\* Under the lock, after the lanes have passed.
AdmitSource ==
    /\ AtRun("admit") /\ Requests(run.source - 1, main[run.source])
    /\ Continue("reserve")
    /\ UNCHANGED <<main, releases, branches, changes>>

ReleaseOf(source) == releases[main[source].version]

\* publish_candidate: a release of this source, or none yet.
MayReserve(source) ==
    \/ ReleaseOf(source).state = "absent"
    \/ ReleaseOf(source) = Release("draft", source)

SetRelease(state) ==
    releases' = [releases EXCEPT ![main[run.source].version] = Release(state, run.source)]
ReserveDraft ==
    /\ AtRun("reserve") /\ MayReserve(run.source)
    /\ SetRelease("draft")
    /\ Continue("upload")
    /\ UNCHANGED <<main, branches, changes>>
\* The published archive is the canonical one.
FindPublished ==
    /\ AtRun("reserve") /\ ReleaseOf(run.source) = Release("published", run.source)
    /\ run' = NoRun
    /\ UNCHANGED <<main, releases, branches, changes>>
PublishDraft ==
    /\ AtRun("upload") /\ ReleaseOf(run.source) = Release("draft", run.source)
    /\ SetRelease("published")
    /\ run' = NoRun
    /\ UNCHANGED <<main, branches, changes>>

RunFails ==
    /\ run # NoRun
    /\ run' = NoRun
    /\ UNCHANGED <<main, releases, branches, changes>>
\* The upload of the archive broke off.
UploadBreaks ==
    /\ AtRun("upload") /\ ReleaseOf(run.source) = Release("draft", run.source)
    /\ SetRelease("broken")
    /\ run' = NoRun
    /\ UNCHANGED <<main, branches, changes>>
RemoveDraft ==
    /\ \E v \in Versions :
          /\ releases[v].state \in {"draft", "broken"}
          /\ releases' = [releases EXCEPT ![v] = Release("absent", 0)]
    /\ UNCHANGED <<main, branches, run, changes>>

AdmissionNext ==
    \/ \E b \in Branches :
          \/ OpenBranch(b) \/ EditBranch(b) \/ ReadVersions(b)
          \/ CheckRequest(b) \/ MergeBranch(b) \/ Rebase(b)
          \/ \E issue \in Issues : Prepare(b, issue)
    \/ Preflight \/ AdmitSource \/ ReserveDraft \/ FindPublished
    \/ PublishDraft \/ RunFails \/ UploadBreaks \/ RemoveDraft

AdmissionSpec == AdmissionInit /\ [][AdmissionNext]_admissionVars

(***************************************************************************)
(* Properties.                                                              *)
(***************************************************************************)
RequestsUpTo(last) == [issue : Issues, boundary : 1..last, inputs : Inputs]
Trees(last) == [version : Versions, request : RequestsUpTo(last) \cup {NoRequest},
                inputs : Inputs, code : Code]
AdmissionTypeOK ==
    /\ main \in Seq(Trees(MaxCommits)) /\ Tip \in 1..MaxCommits
    /\ \A c \in Commits : main[c] \in Trees(c - 1)
    /\ releases \in [Versions -> [state : {"absent", "draft", "broken", "published"}, source : 0..Tip]]
    /\ branches \in [Branches -> {NoBranch} \cup
           [fork : Commits, tree : Trees(MaxCommits), occupied : {NoRead} \cup SUBSET Versions,
            checked : BOOLEAN]]
    /\ \A b \in Branches :
          branches[b] # NoBranch => branches[b].tree \in Trees(branches[b].fork)
    /\ run \in {NoRun} \cup [source : Commits, step : {"admit", "reserve", "upload"}]
    /\ changes \in 0..MaxChanges

(***************************************************************************)
(* However branches race and runs are repeated, a published release is the  *)
(* one reviewed: its source declares this version, over the very inputs it  *)
(* contains, and starts its history at the source of an earlier published   *)
(* release; and versions follow main.  (validate_release_request,           *)
(* _admit_request, prepare_release.)                                        *)
(***************************************************************************)
PublishedAsReviewed ==
    \A v \in Versions \ {1} : Published(v) =>
        LET source == releases[v].source
            request == main[source].request
        IN  /\ main[source].version = v
            /\ request # NoRequest /\ request.inputs = main[source].inputs
            /\ \E u \in 1..(v - 1) :
                  Published(u) /\ releases[u].source = request.boundary
            /\ \A u \in Versions :
                  Published(u) => (u < v <=> releases[u].source < source)

(***************************************************************************)
(* A release is not published over a boundary that has moved: when the      *)
(* release its base declares is published by then, its history starts       *)
(* there.  (_admit_request, under the lock of the mainline runs.)           *)
(***************************************************************************)
BoundaryIsCurrent ==
    [][ \A v \in Versions : releases'[v].state = "published" /\ ~Published(v) =>
            LET source == releases'[v].source
                base == main[source - 1].version
            IN  Published(base) => main[source].request.boundary = releases[base].source
      ]_admissionVars
=============================================================================
