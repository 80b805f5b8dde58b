----------------------- MODULE ReleaseAdmissionProofs -----------------------
(***************************************************************************)
(* Proofs about ReleaseAdmission, for any branches, issues and contents,   *)
(* any number of versions, commits and changes.                            *)
(***************************************************************************)
EXTENDS ReleaseAdmission, WellFoundedInduction, TLAPS

(***************************************************************************)
(* The invariant.  Pull requests are merged over whatever main has become, *)
(* and nothing on main is checked again: that versions never fall there    *)
(* rests on every branch being ahead of its fork, and on the merge taking  *)
(* a declaration only where main still has the fork's.                     *)
(***************************************************************************)
VersionsRise == \A c, d \in Commits : c <= d => main[c].version <= main[d].version

BranchesAreAhead ==
  \A b \in Branches : branches[b] # NoBranch =>
    main[branches[b].fork].version <= branches[b].tree.version

\* A source that admission let through: it declares over what it contains, and its
\* history starts at the source of an earlier release.
WasAdmitted(c) ==
  LET request == main[c].request
  IN  /\ c # 1
      /\ main[c - 1].version < main[c].version
      /\ request # NoRequest /\ request.inputs = main[c].inputs
      /\ \E u \in 1..(main[c].version - 1) : releases[u] = Release("published", request.boundary)

\* The boundary is that of the release the base declares, once that is published.
Current(c) ==
  LET base == main[c - 1].version
  IN  Published(base) => main[c].request.boundary = releases[base].source

FirstIsPublished == main[1].version = 1 /\ releases[1] = Release("published", 1)

ReleasesAreReviewed ==
  \A v \in Versions \ {1} : releases[v].state # "absent" =>
    LET c == releases[v].source
    IN  c \in Commits /\ main[c].version = v /\ WasAdmitted(c)

\* What the mainline run at work has admitted stays admitted.
RunIsReviewed ==
  run # NoRun /\ run.step # "admit" => WasAdmitted(run.source) /\ Current(run.source)

AInv ==
  /\ AdmissionTypeOK
  /\ VersionsRise
  /\ BranchesAreAhead
  /\ FirstIsPublished
  /\ ReleasesAreReviewed
  /\ RunIsReviewed

(***************************************************************************)
(* Main and the branches.                                                  *)
(***************************************************************************)
\* A tree of an earlier main is one of any later.
LEMMA TreesGrow ==
  ASSUME NEW m \in Nat, NEW n \in Nat, m <= n
  PROVE  Trees(m) \subseteq Trees(n)
<1>1. 1..m \subseteq 1..n
  OBVIOUS
<1>2. RequestsUpTo(m) \subseteq RequestsUpTo(n)
  BY <1>1 DEF RequestsUpTo
<1> QED
  BY <1>2 DEF Trees

\* The commits, and what is known of the parts of a tree.
LEMMA TreeOf ==
  ASSUME NEW n \in Nat, NEW t \in Trees(n)
  PROVE  /\ t.version \in Versions /\ t.version \in Nat
         /\ t.request \in RequestsUpTo(n) \cup {NoRequest}
         /\ t.inputs \in Inputs /\ t.code \in Code
BY AdmissionAssumption DEF Trees, Versions

LEMMA MainOf ==
  ASSUME AdmissionTypeOK
  PROVE  /\ Tip \in Nat /\ Tip >= 1 /\ Commits = 1..Tip
         /\ \A c \in Commits : c - 1 \in Nat /\ main[c] \in Trees(c - 1) /\ main[c].version \in Nat
<1>1. main \in Seq(Trees(MaxCommits)) /\ Tip \in 1..MaxCommits
  BY DEF AdmissionTypeOK
<1>2. Tip \in Nat /\ Tip >= 1 /\ Commits = 1..Tip
  BY <1>1 DEF Tip, Commits
<1>3. ASSUME NEW c \in Commits
      PROVE  c - 1 \in Nat /\ main[c] \in Trees(c - 1)
  BY <1>2, <1>3 DEF AdmissionTypeOK
<1> QED
  BY <1>2, <1>3, TreeOf

\* What is known of a branch that is open.
LEMMA BranchOf ==
  ASSUME AdmissionTypeOK, NEW b \in Branches, branches[b] # NoBranch
  PROVE  /\ branches[b] \in [fork : Commits, tree : Trees(MaxCommits),
                             occupied : {NoRead} \cup SUBSET Versions, checked : BOOLEAN]
         /\ branches[b].fork \in 1..Tip /\ branches[b].fork \in Commits /\ branches[b].fork \in Nat
         /\ branches[b].tree \in Trees(branches[b].fork)
BY MainOf DEF AdmissionTypeOK

\* The merge of a branch is a tree that may follow the tip, of a version no lower.
LEMMA MergeFollows ==
  ASSUME AdmissionTypeOK, VersionsRise, BranchesAreAhead,
         NEW b \in Branches, branches[b] # NoBranch, NEW tree \in Merges(b)
  PROVE  tree \in Trees(Tip) /\ main[Tip].version <= tree.version
<1> DEFINE mine == branches[b].tree
           fork == branches[b].fork
<1>1. /\ fork \in Commits /\ fork \in Nat /\ fork <= Tip
      /\ mine \in Trees(fork)
  BY BranchOf
<1>2. /\ Tip \in Nat /\ Tip \in Commits /\ Commits = 1..Tip /\ Tip - 1 \in Nat
      /\ main[Tip] \in Trees(Tip - 1) /\ main[fork] \in Trees(fork - 1) /\ fork - 1 \in Nat
  BY <1>1, MainOf
<1>3. mine \in Trees(Tip) /\ main[Tip] \in Trees(Tip)
  BY <1>1, <1>2, TreesGrow
<1>4. PICK site \in MergedPart(Site(main[fork]), Site(mine), Site(main[Tip])),
           inputs \in MergedPart(main[fork].inputs, mine.inputs, main[Tip].inputs),
           code \in MergedPart(main[fork].code, mine.code, main[Tip].code) :
             tree = Tree(site[1], site[2], inputs, code)
  BY DEF Merges
<1>5. inputs \in Inputs /\ code \in Code
  BY <1>3, <1>4, <1>2, TreeOf DEF MergedPart
<1>6. \/ site = Site(main[Tip])
      \/ site = Site(mine) /\ Site(main[Tip]) \in {Site(main[fork]), Site(mine)}
  BY <1>4 DEF MergedPart
<1>7. \/ site[1] = main[Tip].version /\ site[2] = main[Tip].request
      \/ /\ site[1] = mine.version /\ site[2] = mine.request
         /\ main[Tip].version \in {main[fork].version, mine.version}
  BY <1>6 DEF Site
<1>8. main[fork].version <= mine.version
  BY DEF BranchesAreAhead
<1>9. main[Tip].version \in Nat /\ mine.version \in Nat
  BY <1>2, <1>3, TreeOf
<1>10. site[1] \in Versions /\ site[2] \in RequestsUpTo(Tip) \cup {NoRequest}
  BY <1>2, <1>3, <1>7, TreeOf
<1>11. tree \in Trees(Tip)
  BY <1>4, <1>5, <1>10 DEF Tree, Trees
<1>12. main[Tip].version <= site[1]
  BY <1>7, <1>8, <1>9
<1> QED
  BY <1>4, <1>11, <1>12 DEF Tree

\* Main only grows, by the merge of a branch.
LEMMA MainGrows ==
  ASSUME AdmissionTypeOK, VersionsRise, BranchesAreAhead, [AdmissionNext]_admissionVars
  PROVE  \/ main' = main
         \/ \E tree \in Trees(Tip) :
              /\ main[Tip].version <= tree.version
              /\ Tip < MaxCommits
              /\ main' = Append(main, tree)
              /\ UNCHANGED <<releases, run, changes>>
              /\ \E b \in Branches : branches' = [branches EXCEPT ![b] = NoBranch]
<1>1. ASSUME NEW b \in Branches, MergeBranch(b)
      PROVE  \E tree \in Trees(Tip) :
               /\ main[Tip].version <= tree.version
               /\ Tip < MaxCommits
               /\ main' = Append(main, tree)
               /\ UNCHANGED <<releases, run, changes>>
               /\ \E d \in Branches : branches' = [branches EXCEPT ![d] = NoBranch]
  <2>1. PICK tree \in Merges(b) : main' = Append(main, tree)
    BY <1>1 DEF MergeBranch
  <2>2. tree \in Trees(Tip) /\ main[Tip].version <= tree.version
    BY <1>1, <2>1, MergeFollows DEF MergeBranch
  <2> QED
    BY <1>1, <2>1, <2>2 DEF MergeBranch
<1>2. ASSUME NEW b \in Branches, MergeBranch(b) \/ main' = main
      PROVE  main' = main \/ MergeBranch(b)
  BY <1>2
<1>3. main' = main \/ \E b \in Branches : MergeBranch(b)
  BY DEF AdmissionNext, admissionVars, OpenBranch, EditBranch, ReadVersions, CheckRequest,
         Rebase, Prepare, Preflight, AdmitSource, ReserveDraft, FindPublished, PublishDraft,
         RunFails, UploadBreaks, RemoveDraft
<1> QED
  BY <1>1, <1>3

LEMMA CommitsStay ==
  ASSUME AdmissionTypeOK, VersionsRise, BranchesAreAhead, [AdmissionNext]_admissionVars
  PROVE  /\ Tip' \in Nat /\ Tip <= Tip' /\ Commits' = 1..Tip' /\ Commits \subseteq Commits'
         /\ \A c \in Commits : main'[c] = main[c]
<1>1. Tip \in Nat /\ Commits = 1..Tip
  BY MainOf
<1>2. CASE main' = main
  BY <1>1, <1>2 DEF Tip, Commits
<1>3. ASSUME NEW tree, main' = Append(main, tree)
      PROVE  Tip' = Tip + 1 /\ DOMAIN main' = 1..(Tip + 1) /\ \A c \in 1..Tip : main'[c] = main[c]
  <2>1. main \in Seq(Trees(MaxCommits))
    BY DEF AdmissionTypeOK
  <2> QED
    BY <1>3, <2>1 DEF Tip
<1> QED
  BY <1>1, <1>2, <1>3, MainGrows DEF Tip, Commits

(***************************************************************************)
(* The version that prepare chooses.                                       *)
(***************************************************************************)
LessThan == {p \in Nat \X Nat : p[1] < p[2]}

\* A set of numbers has a least one.
LEMMA LeastElement ==
  ASSUME NEW T, T \subseteq Nat, T # {}
  PROVE  \E x \in T : \A y \in T : x <= y
<1>1. OpToRel(<, Nat) = LessThan
  BY DEF OpToRel, LessThan
<1>2. IsWellFoundedOn(LessThan, Nat)
  BY <1>1, NatLessThanWellFounded
<1>3. PICK x \in T : \A y \in T : ~(<<y, x>> \in LessThan)
  BY <1>2, WFMin
<1>4. ASSUME NEW y \in T PROVE x <= y
  <2>1. x \in Nat /\ y \in Nat
    OBVIOUS
  <2>2. <<y, x>> \in Nat \X Nat /\ <<y, x>>[1] = y /\ <<y, x>>[2] = x
    BY <2>1
  <2>3. ~(y < x)
    BY <1>3, <2>2 DEF LessThan
  <2> QED
    BY <2>1, <2>3
<1> QED
  BY <1>3, <1>4

\* So versions have a highest one.
LEMMA HighestVersion ==
  ASSUME NEW S, S \subseteq Versions, S # {}
  PROVE  Highest(S) \in S /\ \A w \in S : w <= Highest(S)
<1> DEFINE T == {d \in Nat : \E v \in S : d = LastVersion - v}
<1>1. \A v \in S : v \in Nat /\ LastVersion - v \in Nat
  BY AdmissionAssumption DEF Versions
<1>2. T \subseteq Nat /\ T # {}
  BY <1>1
<1>3. PICK d \in T : \A e \in T : d <= e
  <2> HIDE DEF T
  <2> QED
    BY <1>2, LeastElement
<1>4. PICK v \in S : d = LastVersion - v
  OBVIOUS
<1>5. \A w \in S : w <= v
  <2> SUFFICES ASSUME NEW w \in S PROVE w <= v
    OBVIOUS
  <2>1. LastVersion - w \in T
    BY <1>1
  <2> QED
    BY <1>1, <1>3, <1>4, <2>1, AdmissionAssumption
<1> QED
  BY <1>5 DEF Highest

\* A declaration is for a version above that of main.
LEMMA PreparedAbove ==
  ASSUME AdmissionTypeOK, NEW t, NEW issue, NEW boundary, NEW occupied \in SUBSET Versions,
         t.version \in Nat
  PROVE  PreparedVersion(t, issue, boundary, occupied) > main[Tip].version
<1>1. main[Tip].version \in Versions /\ main[Tip].version \in Nat
  BY MainOf, TreeOf
<1> DEFINE S == occupied \cup {main[Tip].version}
<1>2. S \subseteq Versions /\ S # {}
  BY <1>1
<1>3. Highest(S) \in S /\ main[Tip].version <= Highest(S)
  BY <1>2, HighestVersion
<1>4. Highest(S) \in Nat
  BY <1>2, <1>3, AdmissionAssumption DEF Versions
<1>5. Highest(S) + 1 > main[Tip].version
  BY <1>1, <1>3, <1>4
<1> QED
  BY <1>1, <1>5 DEF PreparedVersion

(***************************************************************************)
(* Types.                                                                  *)
(***************************************************************************)
\* The source of a release that is there is a commit, and a boundary is one, too.
LEMMA SourcesAreCommits ==
  ASSUME AInv, NEW v \in Versions, releases[v].state # "absent"
  PROVE  releases[v].source \in Commits /\ main[releases[v].source].version = v
<1>1. 1 \in Commits
  BY MainOf DEF AInv
<1>2. CASE v = 1
  BY <1>1, <1>2 DEF AInv, FirstIsPublished, Release
<1>3. CASE v # 1
  BY <1>3 DEF AInv, ReleasesAreReviewed
<1> QED
  BY <1>2, <1>3

LEMMA BoundaryIsCommit ==
  ASSUME AInv, NEW base \in Commits, NEW occupied, NEW boundary \in Boundaries(base, occupied)
  PROVE  boundary \in Commits
<1>1. Commits = 1..Tip /\ Tip \in Nat /\ base \in 1..Tip /\ main[base] \in Trees(base - 1)
      /\ base - 1 \in Nat
  BY MainOf DEF AInv
<1>2. CASE Unpublished(base, occupied)
  <2>1. boundary = main[base].request.boundary /\ main[base].request # NoRequest
    BY <1>2 DEF Boundaries, Unpublished
  <2>2. main[base].request \in RequestsUpTo(base - 1)
    BY <1>1, <2>1, TreeOf
  <2> QED
    BY <1>1, <2>1, <2>2 DEF RequestsUpTo
<1>3. CASE ~Unpublished(base, occupied)
  <2>1. PICK v \in {main[base].version} : Published(v) /\ boundary = releases[v].source
    BY <1>3 DEF Boundaries
  <2>2. v \in Versions
    BY <1>1, <2>1, TreeOf
  <2>3. releases[v].state # "absent"
    BY <2>1 DEF Published
  <2> QED
    BY <2>1, <2>2, <2>3, SourcesAreCommits
<1> QED
  BY <1>2, <1>3

\* What a step of a branch, other than its merge, makes of it.
LEMMA BranchStep ==
  ASSUME AInv, NEW b \in Branches,
         \/ OpenBranch(b) \/ EditBranch(b) \/ ReadVersions(b) \/ CheckRequest(b) \/ Rebase(b)
         \/ \E issue \in Issues : Prepare(b, issue)
  PROVE  /\ UNCHANGED <<main, releases, run>>
         /\ \E branch \in [fork : Commits, tree : Trees(MaxCommits),
                           occupied : {NoRead} \cup SUBSET Versions, checked : BOOLEAN] :
              /\ branches' = [branches EXCEPT ![b] = branch]
              /\ branch.tree \in Trees(branch.fork)
              /\ main[branch.fork].version <= branch.tree.version
<1> DEFINE Branch == [fork : Commits, tree : Trees(MaxCommits),
                      occupied : {NoRead} \cup SUBSET Versions, checked : BOOLEAN]
           Sound(branch) == /\ branch \in Branch
                            /\ branch.tree \in Trees(branch.fork)
                            /\ main[branch.fork].version <= branch.tree.version
<1>1. /\ Tip \in Nat /\ Tip \in Commits /\ Tip <= MaxCommits /\ Tip - 1 \in Nat
      /\ main[Tip] \in Trees(Tip - 1)
      /\ branches \in [Branches -> {NoBranch} \cup Branch]
  BY MainOf DEF AInv, AdmissionTypeOK
<1>2. /\ main[Tip] \in Trees(Tip) /\ main[Tip].version \in Nat
      /\ main[Tip].version \in Versions
      /\ Trees(Tip) \subseteq Trees(MaxCommits)
  BY <1>1, TreesGrow, TreeOf, AdmissionAssumption
<1>3. branches[b] # NoBranch => /\ Sound(branches[b]) /\ branches[b] \in Branch
                                /\ branches[b].fork \in Commits /\ branches[b].fork \in 1..Tip
                                /\ branches[b].tree \in Trees(Tip)
  <2> SUFFICES ASSUME branches[b] # NoBranch
               PROVE  /\ Sound(branches[b]) /\ branches[b] \in Branch
                      /\ branches[b].fork \in Commits /\ branches[b].fork \in 1..Tip
                      /\ branches[b].tree \in Trees(Tip)
    OBVIOUS
  <2>1. branches[b] \in Branch /\ branches[b].fork \in 1..Tip /\ branches[b].fork \in Commits
        /\ branches[b].tree \in Trees(branches[b].fork)
    BY BranchOf DEF AInv
  <2>2. branches[b].tree \in Trees(Tip)
    BY <1>1, <2>1, TreesGrow
  <2> QED
    BY <2>1, <2>2 DEF AInv, BranchesAreAhead
<1>4. CASE OpenBranch(b)
  <2> DEFINE branch == [fork |-> Tip, tree |-> main[Tip], occupied |-> NoRead, checked |-> FALSE]
  <2>1. Sound(branch)
    BY <1>1, <1>2
  <2> QED
    BY <1>4, <2>1 DEF OpenBranch
<1>5. CASE EditBranch(b)
  <2>1. PICK inputs \in Inputs, code \in Code :
          LET t == branches[b].tree
          IN  branches' = [branches EXCEPT ![b].tree = Tree(t.version, t.request, inputs, code),
                                           ![b].checked = FALSE]
    BY <1>5 DEF EditBranch
  <2> DEFINE old == branches[b]
             t == old.tree
             tree == Tree(t.version, t.request, inputs, code)
             branch == [old EXCEPT !.tree = tree, !.checked = FALSE]
  <2>2. branches[b] # NoBranch
    BY <1>5 DEF EditBranch
  <2>3. old \in Branch /\ Sound(old) /\ old.fork \in Nat
    BY <1>3, <2>2
  <2>4. t \in Trees(old.fork)
    BY <2>3
  <2>5. tree \in Trees(old.fork) /\ tree.version = t.version
    BY <2>4, <2>3 DEF Tree, Trees
  <2>6. Trees(old.fork) \subseteq Trees(MaxCommits)
    BY <1>1, <1>3, <2>2, <2>3, TreesGrow, AdmissionAssumption
  <2>7. branch \in Branch /\ branch.tree = tree /\ branch.fork = old.fork
    BY <2>3, <2>5, <2>6
  <2>8. Sound(branch)
    BY <2>3, <2>5, <2>7
  <2>9. branches' = [branches EXCEPT ![b] = branch]
    BY <2>1, <1>1
  <2> QED
    BY <1>5, <2>7, <2>8, <2>9 DEF EditBranch
<1>6. CASE ReadVersions(b)
  <2> DEFINE old == branches[b]
             branch == [old EXCEPT !.occupied = Occupied]
  <2>1. branches[b] # NoBranch
    BY <1>6 DEF ReadVersions
  <2>2. old \in Branch /\ Sound(old)
    BY <1>3, <2>1
  <2>3. Occupied \in SUBSET Versions
    BY DEF Occupied
  <2>4. branch \in Branch /\ branch.tree = old.tree /\ branch.fork = old.fork
    BY <2>2, <2>3
  <2>5. branches' = [branches EXCEPT ![b] = branch]
    BY <1>6, <1>1 DEF ReadVersions
  <2> QED
    BY <1>6, <2>2, <2>4, <2>5 DEF ReadVersions
<1>7. CASE CheckRequest(b)
  <2> DEFINE old == branches[b]
             branch == [old EXCEPT !.checked = TRUE]
  <2>1. branches[b] # NoBranch
    BY <1>7 DEF CheckRequest
  <2>2. old \in Branch /\ Sound(old)
    BY <1>3, <2>1
  <2>4. branch \in Branch /\ branch.tree = old.tree /\ branch.fork = old.fork
    BY <2>2
  <2>5. branches' = [branches EXCEPT ![b] = branch]
    BY <1>7, <1>1 DEF CheckRequest
  <2> QED
    BY <1>7, <2>2, <2>4, <2>5 DEF CheckRequest
<1>8. CASE Rebase(b)
  <2> DEFINE t == branches[b].tree
             tree == Tree(main[Tip].version, main[Tip].request, t.inputs, t.code)
             branch == [fork |-> Tip, occupied |-> NoRead, checked |-> FALSE, tree |-> tree]
  <2>1. branches[b] # NoBranch
    BY <1>8 DEF Rebase
  <2>2. t \in Trees(Tip)
    BY <1>3, <2>1
  <2>3. tree \in Trees(Tip) /\ tree.version = main[Tip].version
    BY <1>1, <1>2, <2>2 DEF Tree, Trees
  <2>4. Sound(branch)
    BY <1>1, <1>2, <2>3
  <2> QED
    BY <1>8, <2>4 DEF Rebase
<1>9. ASSUME NEW issue \in Issues, Prepare(b, issue)
      PROVE  /\ UNCHANGED <<main, releases, run>>
             /\ \E branch \in Branch : branches' = [branches EXCEPT ![b] = branch] /\ Sound(branch)
  <2> DEFINE t == branches[b].tree
             fork == branches[b].fork
             occupied == branches[b].occupied
  <2>1. PICK boundary \in Boundaries(Tip, occupied) :
          LET version == PreparedVersion(t, issue, boundary, occupied)
          IN  /\ boundary <= fork
              /\ version \in Versions
              /\ branches' = [branches EXCEPT ![b] =
                    [fork |-> fork, occupied |-> NoRead, checked |-> FALSE,
                     tree |-> Tree(version, Request(issue, boundary, t.inputs), t.inputs, t.code)]]
    BY <1>9 DEF Prepare
  <2>2. branches[b] # NoBranch /\ occupied # NoRead
    BY <1>9 DEF Prepare
  <2>3. branches[b] \in Branch /\ Sound(branches[b]) /\ fork \in Commits /\ t \in Trees(Tip)
    BY <1>3, <2>2
  <2>4. occupied \in SUBSET Versions
    BY <2>2, <2>3
  <2> DEFINE version == PreparedVersion(t, issue, boundary, occupied)
             request == Request(issue, boundary, t.inputs)
             tree == Tree(version, request, t.inputs, t.code)
             branch == [fork |-> fork, occupied |-> NoRead, checked |-> FALSE, tree |-> tree]
  <2>5. t.version \in Nat /\ t.inputs \in Inputs /\ t.code \in Code
    BY <1>1, <2>3, TreeOf
  <2>6. version > main[Tip].version
    BY <2>4, <2>5, PreparedAbove DEF AInv
  <2>7. fork \in Nat /\ fork <= Tip /\ fork <= MaxCommits /\ main[fork].version <= main[Tip].version
    BY <1>1, <1>3, <2>2, <2>3, AdmissionAssumption DEF AInv, VersionsRise
  <2>8. version \in Nat /\ main[fork].version \in Nat
    BY <2>1, <2>3, MainOf, AdmissionAssumption DEF AInv, Versions
  <2>9. main[fork].version <= version
    BY <1>2, <2>6, <2>7, <2>8
  <2>10. boundary \in 1..fork
    BY <1>1, <2>1, <2>7, BoundaryIsCommit, MainOf DEF AInv
  <2>11. request \in RequestsUpTo(fork)
    BY <2>5, <2>10 DEF Request, RequestsUpTo
  <2>12. tree \in Trees(fork) /\ tree.version = version
    BY <2>1, <2>5, <2>11 DEF Tree, Trees
  <2>13. Trees(fork) \subseteq Trees(MaxCommits)
    BY <2>7, TreesGrow, AdmissionAssumption
  <2>14. branch \in Branch
    BY <2>3, <2>12, <2>13
  <2>15. Sound(branch)
    BY <2>9, <2>12, <2>14
  <2>16. UNCHANGED <<main, releases, run>>
    BY <1>9 DEF Prepare
  <2> QED
    BY <2>1, <2>14, <2>15, <2>16
<1> QED
  BY <1>4, <1>5, <1>6, <1>7, <1>8, <1>9

(***************************************************************************)
(* Releases and the mainline run.                                          *)
(***************************************************************************)
\* The release that the run at work is publishing is of a version above the first.
LEMMA RunOf ==
  ASSUME AInv, run # NoRun
  PROVE  /\ run \in [source : Commits, step : {"admit", "reserve", "upload"}]
         /\ run.source \in Commits /\ main[run.source].version \in Versions
         /\ run.step # "admit" => main[run.source].version # 1
<1>1. run \in [source : Commits, step : {"admit", "reserve", "upload"}]
  BY DEF AInv, AdmissionTypeOK
<1>2. run.source \in Commits
  BY <1>1
<1>3. main[run.source].version \in Versions
  BY <1>2, MainOf, TreeOf DEF AInv
<1>4. ASSUME run.step # "admit" PROVE main[run.source].version # 1
  <2>1. run.source # 1 /\ main[run.source - 1].version < main[run.source].version
    BY <1>4 DEF AInv, RunIsReviewed, WasAdmitted
  <2>2. run.source - 1 \in Commits
    BY <1>2, <2>1, MainOf DEF AInv
  <2>3. main[run.source - 1].version \in Versions
    BY <2>2, MainOf, TreeOf DEF AInv
  <2>4. main[run.source - 1].version >= 1
    BY <2>3, AdmissionAssumption DEF Versions
  <2>5. main[run.source - 1].version \in Nat /\ main[run.source].version \in Nat
    BY <1>2, <2>2, MainOf DEF AInv
  <2> QED
    BY <2>1, <2>4, <2>5
<1> QED
  BY <1>1, <1>2, <1>3, <1>4

\* A step touches a release that is not published, and it is the run at work that
\* publishes one.
LEMMA ReleasesStep ==
  ASSUME AInv, [AdmissionNext]_admissionVars
  PROVE  \/ releases' = releases
         \/ /\ UNCHANGED <<main, branches>> /\ run # NoRun /\ run.step # "admit"
            /\ LET w == main[run.source].version
               IN  /\ w \in Versions \ {1} /\ ~Published(w)
                   /\ \E state \in {"draft", "broken", "published"} :
                        /\ releases' = [releases EXCEPT ![w] = Release(state, run.source)]
                        /\ run' = NoRun \/ run' = [run EXCEPT !.step = "upload"]
         \/ /\ UNCHANGED <<main, branches, run>>
            /\ \E v \in Versions \ {1} :
                 ~Published(v) /\ releases' = [releases EXCEPT ![v] = Release("absent", 0)]
<1> DEFINE w == main[run.source].version
<1>1. ASSUME ReserveDraft \/ PublishDraft \/ UploadBreaks
      PROVE  /\ UNCHANGED <<main, branches>> /\ run # NoRun /\ run.step # "admit"
             /\ w \in Versions \ {1} /\ ~Published(w)
             /\ \E state \in {"draft", "broken", "published"} :
                  /\ releases' = [releases EXCEPT ![w] = Release(state, run.source)]
                  /\ run' = NoRun \/ run' = [run EXCEPT !.step = "upload"]
  <2>1. /\ UNCHANGED <<main, branches>> /\ run # NoRun
        /\ run.step = "reserve" \/ run.step = "upload"
        /\ run' = NoRun \/ run' = [run EXCEPT !.step = "upload"]
        /\ \E state \in {"draft", "broken", "published"} :
             releases' = [releases EXCEPT ![w] = Release(state, run.source)]
    BY <1>1 DEF ReserveDraft, PublishDraft, UploadBreaks, AtRun, Continue, SetRelease
  <2>2. ~Published(w)
    BY <1>1 DEF ReserveDraft, PublishDraft, UploadBreaks, MayReserve, ReleaseOf, Release, Published
  <2>3. w \in Versions \ {1}
    BY <2>1, RunOf
  <2> QED
    BY <2>1, <2>2, <2>3
<1>2. ASSUME RemoveDraft
      PROVE  /\ UNCHANGED <<main, branches, run>>
             /\ \E v \in Versions \ {1} :
                  ~Published(v) /\ releases' = [releases EXCEPT ![v] = Release("absent", 0)]
  <2>1. PICK v \in Versions : /\ releases[v].state \in {"draft", "broken"}
                              /\ releases' = [releases EXCEPT ![v] = Release("absent", 0)]
    BY <1>2 DEF RemoveDraft
  <2>2. v # 1
    BY <2>1 DEF AInv, FirstIsPublished, Release
  <2> QED
    BY <1>2, <2>1, <2>2 DEF RemoveDraft, Published
<1>3. releases' = releases \/ ReserveDraft \/ PublishDraft \/ UploadBreaks \/ RemoveDraft
  BY DEF AdmissionNext, admissionVars, OpenBranch, EditBranch, ReadVersions, CheckRequest,
         MergeBranch, Rebase, Prepare, Preflight, AdmitSource, FindPublished, RunFails
<1> QED
  BY <1>1, <1>2, <1>3

\* What is published stays as it is.
LEMMA PublishedStays ==
  ASSUME AInv, [AdmissionNext]_admissionVars, NEW v \in Versions, Published(v)
  PROVE  releases'[v] = releases[v]
<1>1. CASE releases' = releases
  BY <1>1
<1>2. ASSUME NEW w, NEW release, releases' = [releases EXCEPT ![w] = release], ~Published(w)
      PROVE  releases'[v] = releases[v]
  BY <1>2 DEF AInv, AdmissionTypeOK
<1> QED
  BY <1>1, <1>2, ReleasesStep

\* A reviewed source stays reviewed.
LEMMA ReviewedStays ==
  ASSUME AInv, [AdmissionNext]_admissionVars, NEW c \in Commits, WasAdmitted(c)
  PROVE  WasAdmitted(c)'
<1>1. c # 1 /\ c - 1 \in Commits
  BY MainOf DEF AInv, WasAdmitted
<1>2. main'[c] = main[c] /\ main'[c - 1] = main[c - 1]
  BY <1>1, CommitsStay DEF AInv
<1>3. PICK u \in 1..(main[c].version - 1) :
        releases[u] = Release("published", main[c].request.boundary)
  BY DEF WasAdmitted
<1>4. releases'[u] = releases[u]
  <2>1. main[c].version \in Versions
    BY MainOf, TreeOf DEF AInv
  <2>2. u \in Versions
    BY <1>3, <2>1, AdmissionAssumption DEF Versions
  <2> QED
    BY <1>3, <2>2, PublishedStays DEF Published, Release
<1>5. u \in 1..(main'[c].version - 1)
      /\ releases'[u] = Release("published", main'[c].request.boundary)
  BY <1>2, <1>3, <1>4
<1> QED
  BY <1>2, <1>5 DEF WasAdmitted, Release

\* What admission found holds of the source from then on.
LEMMA AdmittedIsReviewed ==
  ASSUME AInv, NEW c \in Commits, c # 1, Requests(c - 1, main[c])
  PROVE  WasAdmitted(c) /\ Current(c)
<1> DEFINE base == c - 1
           request == main[c].request
<1>1. /\ base \in Commits /\ base \in Nat /\ c \in Nat
      /\ main[base] \in Trees(base - 1) /\ base - 1 \in Nat
      /\ main[base].version \in Nat /\ main[c].version \in Nat
      /\ main[base].version \in Versions
  BY MainOf, TreeOf DEF AInv
<1>2. /\ request # NoRequest /\ request.inputs = main[c].inputs
      /\ main[base].version < main[c].version
      /\ request.boundary \in Boundaries(base, Occupied)
  BY <1>1 DEF Requests, InputsBound, BoundaryHolds
<1>3. CASE Unpublished(base, Occupied)
  <2> DEFINE b == main[base].request.boundary
             u == main[b].version
  <2>1. request.boundary = b /\ PredecessorVerified(base, b)
    BY <1>2, <1>3 DEF Boundaries
  <2>2. b \in Commits
    BY <1>1, <1>2, <2>1, BoundaryIsCommit
  <2>3. u \in Nat /\ u \in Versions
    BY <2>2, MainOf, TreeOf DEF AInv
  <2>4. u < main[base].version /\ releases[u] = Release("published", b)
    BY <2>1 DEF PredecessorVerified
  <2>5. u \in 1..(main[c].version - 1)
    BY <1>1, <1>2, <2>3, <2>4, AdmissionAssumption DEF Versions
  <2>6. WasAdmitted(c)
    BY <1>2, <2>1, <2>4, <2>5, c # 1 DEF WasAdmitted
  <2>7. ~Published(main[base].version)
    <3>1. main[base].version \notin Occupied
      BY <1>3 DEF Unpublished
    <3> QED
      BY <1>1, <3>1 DEF Occupied, Published
  <2> QED
    BY <2>6, <2>7 DEF Current
<1>4. CASE ~Unpublished(base, Occupied)
  <2> DEFINE u == main[base].version
  <2>1. Published(u) /\ request.boundary = releases[u].source
    BY <1>2, <1>4 DEF Boundaries
  <2>2. releases[u] = Release("published", request.boundary)
    <3>1. releases[u] \in [state : {"absent", "draft", "broken", "published"}, source : 0..Tip]
      BY <1>1 DEF AInv, AdmissionTypeOK
    <3> QED
      BY <2>1, <3>1 DEF Published, Release
  <2>3. u \in 1..(main[c].version - 1)
    BY <1>1, <1>2, AdmissionAssumption DEF Versions
  <2>4. WasAdmitted(c)
    BY <1>2, <2>2, <2>3, c # 1 DEF WasAdmitted
  <2> QED
    BY <2>1, <2>4 DEF Current
<1> QED
  BY <1>3, <1>4

\* While the run is at work nobody publishes its base.
LEMMA CurrentStays ==
  ASSUME AInv, [AdmissionNext]_admissionVars, run # NoRun, run.step # "admit",
         NEW c, c = run.source
  PROVE  Current(c)'
<1>1. c \in Commits /\ c # 1 /\ Current(c) /\ main[c - 1].version < main[c].version
  BY RunOf DEF AInv, RunIsReviewed, WasAdmitted
<1>2. c - 1 \in Commits
  BY <1>1, MainOf DEF AInv
<1>3. main'[c] = main[c] /\ main'[c - 1] = main[c - 1]
  BY <1>1, <1>2, CommitsStay DEF AInv
<1> DEFINE base == main[c - 1].version
<1>4. base \in Nat /\ main[c].version \in Nat /\ base # main[c].version
  BY <1>1, <1>2, MainOf DEF AInv
<1>5. releases'[base].state = "published" => releases'[base] = releases[base]
  <2>1. CASE releases' = releases
    BY <2>1
  <2>2. ASSUME NEW w, NEW release, releases' = [releases EXCEPT ![w] = release],
               w # base \/ release.state # "published"
        PROVE  releases'[base].state = "published" => releases'[base] = releases[base]
    BY <2>2 DEF AInv, AdmissionTypeOK
  <2> QED
    BY <1>4, <2>1, <2>2, ReleasesStep DEF Release
<1> QED
  BY <1>1, <1>3, <1>5 DEF Current, Published

(***************************************************************************)
(* The invariant is inductive.                                             *)
(***************************************************************************)
\* A run that is not at admission was there before, or has just been admitted.
LEMMA RunStep ==
  ASSUME AInv, [AdmissionNext]_admissionVars
  PROVE  /\ run' \in {NoRun} \cup [source : Commits', step : {"admit", "reserve", "upload"}]
         /\ RunIsReviewed'
<1>1. run \in {NoRun} \cup [source : Commits, step : {"admit", "reserve", "upload"}]
  BY DEF AInv, AdmissionTypeOK
<1>2. Commits \subseteq Commits'
  BY CommitsStay DEF AInv
<1>3. CASE run' = NoRun
  BY <1>3 DEF RunIsReviewed
<1>4. CASE run' = run
  <2>1. ASSUME run # NoRun, run.step # "admit"
        PROVE  WasAdmitted(run.source)' /\ Current(run.source)'
    <3>1. PICK c : c = run.source
      OBVIOUS
    <3>2. c \in Commits /\ WasAdmitted(c)
      BY <2>1, <3>1, RunOf DEF AInv, RunIsReviewed
    <3>3. WasAdmitted(c)' /\ Current(c)'
      BY <2>1, <3>1, <3>2, ReviewedStays, CurrentStays
    <3> QED
      BY <1>4, <3>1, <3>3
  <2> QED
    BY <1>1, <1>2, <1>4, <2>1 DEF RunIsReviewed
<1>5. CASE Preflight
  <2>1. PICK c \in Commits : run' = [source |-> c, step |-> "admit"]
    BY <1>5 DEF Preflight
  <2> QED
    BY <1>2, <2>1 DEF RunIsReviewed
<1>6. CASE AdmitSource \/ ReserveDraft
  <2>1. PICK c : c = run.source
    OBVIOUS
  <2>2. /\ run # NoRun /\ c \in Commits
        /\ run \in [source : Commits, step : {"admit", "reserve", "upload"}]
    BY <1>6, <2>1, RunOf DEF AdmitSource, ReserveDraft, AtRun
  <2>3. run'.source = c /\ run' \in [source : Commits, step : {"admit", "reserve", "upload"}]
    BY <1>6, <2>1, <2>2 DEF AdmitSource, ReserveDraft, Continue
  <2>4. CASE AdmitSource
    <3>1. Requests(c - 1, main[c]) /\ UNCHANGED <<main, releases>>
      BY <2>1, <2>4 DEF AdmitSource
    <3>2. c # 1
      <4> SUFFICES ASSUME c = 1 PROVE FALSE
        OBVIOUS
      <4>1. main[1] \in Trees(0)
        BY <2>2, MainOf DEF AInv
      <4>2. main[1].request = NoRequest
        <5>1. main[1].request \in RequestsUpTo(0) \cup {NoRequest}
          BY <4>1, TreeOf
        <5> QED
          BY <5>1 DEF RequestsUpTo
      <4> QED
        BY <3>1, <4>2 DEF Requests
    <3>3. WasAdmitted(c) /\ Current(c)
      BY <2>2, <3>1, <3>2, AdmittedIsReviewed
    <3>4. WasAdmitted(c)' /\ Current(c)'
      BY <3>1, <3>3 DEF WasAdmitted, Current, Published
    <3> QED
      BY <1>2, <2>3, <3>4 DEF RunIsReviewed
  <2>5. CASE ReserveDraft
    <3>1. run.step = "reserve"
      BY <2>5 DEF ReserveDraft, AtRun
    <3>2. WasAdmitted(c)
      BY <2>1, <2>2, <3>1 DEF AInv, RunIsReviewed
    <3>3. WasAdmitted(c)' /\ Current(c)'
      BY <2>1, <2>2, <3>1, <3>2, ReviewedStays, CurrentStays
    <3> QED
      BY <1>2, <2>3, <3>3 DEF RunIsReviewed
  <2> QED
    BY <1>6, <2>4, <2>5
<1>7. \/ run' = NoRun \/ run' = run \/ Preflight \/ AdmitSource \/ ReserveDraft
  BY DEF AdmissionNext, admissionVars, OpenBranch, EditBranch, ReadVersions, CheckRequest,
         MergeBranch, Rebase, Prepare, FindPublished, PublishDraft, RunFails, UploadBreaks,
         RemoveDraft
<1> QED
  BY <1>3, <1>4, <1>5, <1>6, <1>7

LEMMA MainStep ==
  ASSUME AInv, [AdmissionNext]_admissionVars
  PROVE  /\ (main \in Seq(Trees(MaxCommits)) /\ Tip \in 1..MaxCommits)'
         /\ \A c \in Commits' : main'[c] \in Trees(c - 1)
         /\ VersionsRise'
<1>1. /\ Tip \in Nat /\ Tip >= 1 /\ Commits = 1..Tip /\ Tip \in Commits
      /\ main \in Seq(Trees(MaxCommits)) /\ Tip <= MaxCommits
      /\ \A c \in Commits : main[c] \in Trees(c - 1) /\ main[c].version \in Nat
  BY MainOf DEF AInv, AdmissionTypeOK
<1>2. CASE main' = main
  BY <1>1, <1>2 DEF Tip, Commits, AInv, VersionsRise, AdmissionTypeOK
<1>3. ASSUME NEW tree \in Trees(Tip), main[Tip].version <= tree.version, Tip < MaxCommits,
             main' = Append(main, tree)
      PROVE  /\ (main \in Seq(Trees(MaxCommits)) /\ Tip \in 1..MaxCommits)'
             /\ \A c \in Commits' : main'[c] \in Trees(c - 1)
             /\ VersionsRise'
  <2>1. tree \in Trees(MaxCommits) /\ tree.version \in Nat
    BY <1>1, <1>3, TreesGrow, TreeOf, AdmissionAssumption
  <2>2. /\ Tip' = Tip + 1 /\ Commits' = 1..(Tip + 1) /\ main'[Tip + 1] = tree
        /\ \A c \in Commits : main'[c] = main[c]
        /\ main' \in Seq(Trees(MaxCommits))
    BY <1>1, <1>3, <2>1 DEF Tip, Commits
  <2>3. \A c \in Commits' : main'[c] \in Trees(c - 1)
    <3> SUFFICES ASSUME NEW c \in Commits' PROVE main'[c] \in Trees(c - 1)
      OBVIOUS
    <3>1. CASE c \in Commits
      BY <1>1, <2>2, <3>1
    <3>2. CASE c = Tip + 1
      <4>1. (Tip + 1) - 1 = Tip
        BY <1>1
      <4> QED
        BY <2>2, <3>2, <4>1
    <3> QED
      BY <1>1, <2>2, <3>1, <3>2
  <2>4. VersionsRise'
    <3> SUFFICES ASSUME NEW c \in Commits', NEW d \in Commits', c <= d
                 PROVE  main'[c].version <= main'[d].version
      BY DEF VersionsRise
    <3>1. c \in 1..(Tip + 1) /\ d \in 1..(Tip + 1)
      BY <2>2
    <3>2. CASE d \in Commits
      <4>1. c \in Commits
        BY <1>1, <3>1, <3>2
      <4> QED
        BY <2>2, <3>2, <4>1 DEF AInv, VersionsRise
    <3>3. CASE d = Tip + 1 /\ c \in Commits
      <4>1. main[c].version <= main[Tip].version
        BY <1>1, <3>3 DEF AInv, VersionsRise
      <4>2. main'[c] = main[c] /\ main'[d] = tree
        BY <2>2, <3>3
      <4>3. main[c].version \in Nat /\ main[Tip].version \in Nat
        BY <1>1, <3>3
      <4> QED
        BY <1>3, <2>1, <4>1, <4>2, <4>3
    <3>4. CASE d = Tip + 1 /\ c = Tip + 1
      BY <2>1, <2>2, <3>4
    <3> QED
      BY <1>1, <3>1, <3>2, <3>3, <3>4
  <2>5. (Tip \in 1..MaxCommits)'
    BY <1>1, <1>3, <2>2, AdmissionAssumption
  <2> QED
    BY <2>2, <2>3, <2>4, <2>5
<1> QED
  BY <1>2, <1>3, MainGrows DEF AInv

LEMMA BranchesStep ==
  ASSUME AInv, [AdmissionNext]_admissionVars
  PROVE  /\ branches' \in [Branches -> {NoBranch} \cup
               [fork : Commits', tree : Trees(MaxCommits),
                occupied : {NoRead} \cup SUBSET Versions, checked : BOOLEAN]]
         /\ \A b \in Branches : branches'[b] # NoBranch =>
              /\ branches'[b].tree \in Trees(branches'[b].fork)
              /\ main'[branches'[b].fork].version <= branches'[b].tree.version
<1> DEFINE Branch == [fork : Commits, tree : Trees(MaxCommits),
                      occupied : {NoRead} \cup SUBSET Versions, checked : BOOLEAN]
           Sound(branch) == /\ branch.tree \in Trees(branch.fork)
                            /\ main[branch.fork].version <= branch.tree.version
<1>1. /\ branches \in [Branches -> {NoBranch} \cup Branch]
      /\ \A b \in Branches : branches[b] # NoBranch => Sound(branches[b])
  BY DEF AInv, AdmissionTypeOK, BranchesAreAhead
<1>2. Commits \subseteq Commits' /\ \A c \in Commits : main'[c] = main[c]
  BY CommitsStay DEF AInv
<1>3. /\ branches' \in [Branches -> {NoBranch} \cup Branch]
      /\ \A b \in Branches : branches'[b] # NoBranch => Sound(branches'[b])
  <2>1. CASE branches' = branches
    BY <1>1, <2>1
  <2>2. ASSUME NEW b \in Branches, NEW branch \in {NoBranch} \cup Branch,
               branch = NoBranch \/ Sound(branch),
               branches' = [branches EXCEPT ![b] = branch]
        PROVE  /\ branches' \in [Branches -> {NoBranch} \cup Branch]
               /\ \A d \in Branches : branches'[d] # NoBranch => Sound(branches'[d])
    <3> HIDE DEF Sound, Branch
    <3>1. branches' \in [Branches -> {NoBranch} \cup Branch]
      BY <1>1, <2>2
    <3>2. \A d \in Branches : branches'[d] = IF d = b THEN branch ELSE branches[d]
      BY <1>1, <2>2
    <3> QED
      BY <1>1, <2>2, <3>1, <3>2
  <2>3. ASSUME NEW b \in Branches,
               \/ OpenBranch(b) \/ EditBranch(b) \/ ReadVersions(b) \/ CheckRequest(b) \/ Rebase(b)
               \/ \E issue \in Issues : Prepare(b, issue)
        PROVE  \E branch \in Branch : branches' = [branches EXCEPT ![b] = branch] /\ Sound(branch)
    BY <2>3, BranchStep
  <2>4. \/ branches' = branches
        \/ \E b \in Branches :
             \/ OpenBranch(b) \/ EditBranch(b) \/ ReadVersions(b) \/ CheckRequest(b) \/ Rebase(b)
             \/ \E issue \in Issues : Prepare(b, issue)
             \/ branches' = [branches EXCEPT ![b] = NoBranch]
    BY DEF AdmissionNext, admissionVars, MergeBranch, Preflight, AdmitSource, ReserveDraft,
           FindPublished, PublishDraft, RunFails, UploadBreaks, RemoveDraft
  <2>5. ASSUME NEW b \in Branches,
               \/ OpenBranch(b) \/ EditBranch(b) \/ ReadVersions(b) \/ CheckRequest(b) \/ Rebase(b)
               \/ \E issue \in Issues : Prepare(b, issue)
        PROVE  /\ branches' \in [Branches -> {NoBranch} \cup Branch]
               /\ \A d \in Branches : branches'[d] # NoBranch => Sound(branches'[d])
    <3>1. PICK branch \in Branch : branches' = [branches EXCEPT ![b] = branch] /\ Sound(branch)
      BY <2>3, <2>5
    <3> QED
      BY <2>2, <3>1
  <2>6. ASSUME NEW b \in Branches, branches' = [branches EXCEPT ![b] = NoBranch]
        PROVE  /\ branches' \in [Branches -> {NoBranch} \cup Branch]
               /\ \A d \in Branches : branches'[d] # NoBranch => Sound(branches'[d])
    BY <2>2, <2>6
  <2> QED
    BY <2>1, <2>4, <2>5, <2>6
<1>4. \A b \in Branches : branches'[b] # NoBranch => branches'[b].fork \in Commits
  BY <1>3
<1> QED
  BY <1>2, <1>3, <1>4

LEMMA ReleasesInvStep ==
  ASSUME AInv, [AdmissionNext]_admissionVars
  PROVE  /\ releases' \in
              [Versions -> [state : {"absent", "draft", "broken", "published"}, source : 0..Tip']]
         /\ ReleasesAreReviewed'
         /\ FirstIsPublished'
<1> DEFINE States == {"absent", "draft", "broken", "published"}
<1>1. /\ Tip \in Nat /\ Tip' \in Nat /\ Tip <= Tip' /\ Commits \subseteq Commits'
      /\ Commits = 1..Tip /\ \A c \in Commits : main'[c] = main[c]
  BY MainOf, CommitsStay DEF AInv
<1>2. /\ releases \in [Versions -> [state : States, source : 0..Tip]]
      /\ 1 \in Versions /\ 1 \in Commits
  BY <1>1, MainOf, AdmissionAssumption DEF AInv, AdmissionTypeOK, Versions
<1>3. releases \in [Versions -> [state : States, source : 0..Tip']]
  <2>1. 0..Tip \subseteq 0..Tip'
    BY <1>1
  <2> QED
    BY <1>2, <2>1
<1>4. ASSUME NEW v \in Versions \ {1}, NEW c, c = releases[v].source, releases[v].state # "absent"
      PROVE  c \in Commits /\ main'[c].version = v /\ WasAdmitted(c)'
  <2>1. c \in Commits /\ main[c].version = v /\ WasAdmitted(c)
    BY <1>4 DEF AInv, ReleasesAreReviewed
  <2>2. WasAdmitted(c)' /\ main'[c].version = v
    BY <1>1, <2>1, ReviewedStays
  <2> QED
    BY <2>1, <2>2
<1>5. CASE releases' = releases
  <2>1. ReleasesAreReviewed'
    BY <1>1, <1>4, <1>5 DEF ReleasesAreReviewed
  <2> QED
    BY <1>1, <1>2, <1>3, <1>5, <2>1 DEF AInv, FirstIsPublished
<1>6. ASSUME NEW w \in Versions \ {1}, NEW release \in [state : States, source : 0..Tip'],
             releases' = [releases EXCEPT ![w] = release],
             NEW c, c = release.source,
             release.state # "absent" => c \in Commits /\ main'[c].version = w /\ WasAdmitted(c)'
      PROVE  /\ releases' \in [Versions -> [state : States, source : 0..Tip']]
             /\ ReleasesAreReviewed'
             /\ FirstIsPublished'
  <2>1. releases' \in [Versions -> [state : States, source : 0..Tip']]
    BY <1>3, <1>6
  <2>2. \A v \in Versions : releases'[v] = IF v = w THEN release ELSE releases[v]
    BY <1>2, <1>6
  <2>3. ReleasesAreReviewed'
    BY <1>1, <1>4, <1>6, <2>2 DEF ReleasesAreReviewed
  <2>4. FirstIsPublished'
    BY <1>1, <1>2, <1>6, <2>2 DEF AInv, FirstIsPublished, Release
  <2> QED
    BY <2>1, <2>3, <2>4
<1>7. CASE /\ run # NoRun /\ run.step # "admit"
           /\ LET w == main[run.source].version
              IN  /\ w \in Versions \ {1}
                  /\ \E state \in {"draft", "broken", "published"} :
                       releases' = [releases EXCEPT ![w] = Release(state, run.source)]
  <2>1. PICK c : c = run.source
    OBVIOUS
  <2>2. PICK state \in {"draft", "broken", "published"} :
          releases' = [releases EXCEPT ![main[c].version] = Release(state, c)]
    BY <1>7, <2>1
  <2>3. c \in Commits /\ WasAdmitted(c)
    BY <1>7, <2>1, RunOf DEF AInv, RunIsReviewed
  <2>4. WasAdmitted(c)' /\ main'[c] = main[c]
    BY <1>1, <2>3, ReviewedStays
  <2>5. Release(state, c) \in [state : States, source : 0..Tip']
    BY <1>1, <2>3 DEF Release
  <2>6. Release(state, c).source = c
    BY DEF Release
  <2> QED
    BY <1>6, <1>7, <2>1, <2>2, <2>3, <2>4, <2>5, <2>6
<1>8. ASSUME NEW v \in Versions \ {1}, releases' = [releases EXCEPT ![v] = Release("absent", 0)]
      PROVE  /\ releases' \in [Versions -> [state : States, source : 0..Tip']]
             /\ ReleasesAreReviewed'
             /\ FirstIsPublished'
  <2>1. Release("absent", 0) \in [state : States, source : 0..Tip']
    BY <1>1 DEF Release
  <2>2. Release("absent", 0).state = "absent"
    BY DEF Release
  <2> QED
    BY <1>6, <1>8, <2>1, <2>2
<1> QED
  BY <1>5, <1>7, <1>8, ReleasesStep

LEMMA AInvStep == AInv /\ [AdmissionNext]_admissionVars => AInv'
<1> SUFFICES ASSUME AInv, [AdmissionNext]_admissionVars PROVE AInv'
  OBVIOUS
<1>1. changes' \in 0..MaxChanges
  BY AdmissionAssumption DEF AInv, AdmissionTypeOK, AdmissionNext, admissionVars, OpenBranch,
     EditBranch, ReadVersions, CheckRequest, MergeBranch, Rebase, Prepare, Preflight, AdmitSource,
     ReserveDraft, FindPublished, PublishDraft, RunFails, UploadBreaks, RemoveDraft
<1>2. AdmissionTypeOK'
  BY <1>1, MainStep, BranchesStep, ReleasesInvStep, RunStep DEF AdmissionTypeOK
<1>3. BranchesAreAhead'
  BY BranchesStep DEF BranchesAreAhead
<1> QED
  BY <1>2, <1>3, MainStep, ReleasesInvStep, RunStep DEF AInv

LEMMA AInvInit == AdmissionInit => AInv
<1> SUFFICES ASSUME AdmissionInit PROVE AInv
  OBVIOUS
<1>1. PICK inputs \in Inputs, code \in Code : main = <<Tree(1, NoRequest, inputs, code)>>
  BY DEF AdmissionInit
<1> DEFINE tree == Tree(1, NoRequest, inputs, code)
<1>2. 1 \in Versions /\ 1 \in 1..MaxCommits
  BY AdmissionAssumption DEF Versions
<1>3. \A n \in Nat : tree \in Trees(n)
  BY <1>2 DEF Trees, Tree
<1>4. Len(main) = 1 /\ DOMAIN main = {1} /\ main[1] = tree /\ main \in Seq(Trees(MaxCommits))
  <2>1. tree \in Trees(MaxCommits)
    BY <1>3, AdmissionAssumption
  <2> HIDE DEF tree
  <2> QED
    BY <1>1, <2>1 DEF tree
<1>5. Tip = 1 /\ Commits = {1} /\ tree.version = 1
  BY <1>4 DEF Tip, Commits, Tree
<1>6. /\ releases = [v \in Versions |->
                       IF v = 1 THEN Release("published", 1) ELSE Release("absent", 0)]
      /\ branches = [b \in Branches |-> NoBranch] /\ run = NoRun /\ changes = 0
  BY DEF AdmissionInit
<1>7. releases \in [Versions -> [state : {"absent", "draft", "broken", "published"}, source : 0..Tip]]
  BY <1>5, <1>6 DEF Release
<1>8. \A c \in Commits : main[c] \in Trees(c - 1)
  BY <1>3, <1>4, <1>5
<1>9. AdmissionTypeOK
  BY <1>2, <1>4, <1>5, <1>6, <1>7, <1>8, AdmissionAssumption DEF AdmissionTypeOK
<1>10. VersionsRise
  BY <1>4, <1>5 DEF VersionsRise
<1>11. FirstIsPublished
  BY <1>2, <1>4, <1>5, <1>6 DEF FirstIsPublished
<1>12. ReleasesAreReviewed
  BY <1>6 DEF ReleasesAreReviewed, Release
<1>13. BranchesAreAhead /\ RunIsReviewed
  BY <1>6 DEF BranchesAreAhead, RunIsReviewed
<1> QED
  BY <1>9, <1>10, <1>11, <1>12, <1>13 DEF AInv

\* Versions rise along main, branches are ahead of their forks, and what is reserved or
\* published, or about to be, was reviewed.
THEOREM AdmissionInvariant == AdmissionSpec => []AInv
BY AInvInit, AInvStep, PTL DEF AdmissionSpec

\* Main, the releases, the branches and the mainline run stay well-formed; no commit
\* declares a boundary that is not before it.
THEOREM AdmissionTypeCorrect == AdmissionSpec => []AdmissionTypeOK
<1>1. AInv => AdmissionTypeOK
  BY DEF AInv
<1> QED
  BY AdmissionInvariant, <1>1, PTL

\* However branches race and runs are repeated, a published release is the one reviewed
\* (validate_release_request, _admit_request, prepare_release).
THEOREM ReleasesArePublishedAsReviewed == AdmissionSpec => []PublishedAsReviewed
<1>1. AInv => PublishedAsReviewed
  <2> SUFFICES ASSUME AInv, NEW v \in Versions \ {1}, Published(v)
               PROVE  LET source == releases[v].source
                          request == main[source].request
                      IN  /\ main[source].version = v
                          /\ request # NoRequest /\ request.inputs = main[source].inputs
                          /\ \E u \in 1..(v - 1) :
                                Published(u) /\ releases[u].source = request.boundary
                          /\ \A u \in Versions :
                                Published(u) => (u < v <=> releases[u].source < source)
    BY DEF PublishedAsReviewed
  <2> DEFINE source == releases[v].source
  <2>1. source \in Commits /\ main[source].version = v /\ WasAdmitted(source)
    BY DEF AInv, ReleasesAreReviewed, Published
  <2>2. \E u \in 1..(v - 1) : Published(u) /\ releases[u].source = main[source].request.boundary
    BY <2>1 DEF WasAdmitted, Published, Release
  <2>3. ASSUME NEW u \in Versions, Published(u)
        PROVE  u < v <=> releases[u].source < source
    <3>1. releases[u].source \in Commits /\ main[releases[u].source].version = u
      BY <2>3, SourcesAreCommits DEF Published
    <3>2. /\ source <= releases[u].source => v <= u
          /\ releases[u].source <= source => u <= v
      BY <2>1, <3>1 DEF AInv, VersionsRise
    <3>3. source \in Nat /\ releases[u].source \in Nat /\ u \in Nat /\ v \in Nat
      BY <2>1, <3>1, MainOf, AdmissionAssumption DEF AInv, Versions
    <3> QED
      BY <3>2, <3>3
  <2> QED
    BY <2>1, <2>2, <2>3 DEF WasAdmitted
<1> QED
  BY AdmissionInvariant, <1>1, PTL

\* A release is not published over a boundary that has moved (_admit_request, under the
\* lock of the mainline runs).
THEOREM BoundariesAreCurrent == AdmissionSpec => BoundaryIsCurrent
<1> DEFINE Step ==
      \A v \in Versions : releases'[v].state = "published" /\ ~Published(v) =>
         LET source == releases'[v].source
             base == main[source - 1].version
         IN  Published(base) => main[source].request.boundary = releases[base].source
<1>1. AInv /\ [AdmissionNext]_admissionVars => [Step]_admissionVars
  <2> SUFFICES ASSUME AInv, [AdmissionNext]_admissionVars,
                      NEW v \in Versions, releases'[v].state = "published", ~Published(v)
               PROVE  LET source == releases'[v].source
                          base == main[source - 1].version
                      IN  Published(base) =>
                            main[source].request.boundary = releases[base].source
    OBVIOUS
  <2>1. \A w, release : releases' = [releases EXCEPT ![w] = release] =>
                           releases'[v] = IF v = w THEN release ELSE releases[v]
    BY DEF AInv, AdmissionTypeOK
  <2>2. run # NoRun /\ run.step # "admit" /\ releases'[v].source = run.source
    <3>1. CASE releases' = releases
      BY <3>1 DEF Published
    <3>2. ASSUME NEW w, releases' = [releases EXCEPT ![w] = Release("absent", 0)]
          PROVE  FALSE
      <4>1. releases'[v].state = "absent" \/ releases'[v] = releases[v]
        BY <2>1, <3>2 DEF Release
      <4> QED
        BY <4>1 DEF Published
    <3>3. ASSUME NEW w, NEW state, releases' = [releases EXCEPT ![w] = Release(state, run.source)]
          PROVE  releases'[v].source = run.source
      <4>1. releases'[v] = Release(state, run.source) \/ releases'[v] = releases[v]
        BY <2>1, <3>3
      <4> QED
        BY <4>1 DEF Published, Release
    <3> QED
      BY <3>1, <3>2, <3>3, ReleasesStep
  <2>3. Current(run.source)
    BY <2>2 DEF AInv, RunIsReviewed
  <2> QED
    BY <2>2, <2>3 DEF Current
<1> QED
  BY AdmissionInvariant, <1>1, PTL DEF AdmissionSpec, BoundaryIsCurrent
=============================================================================
