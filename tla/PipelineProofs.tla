---------------------------- MODULE PipelineProofs ----------------------------
(***************************************************************************)
(* Proofs about the way from what the sources said to an admitted release   *)
(* (MCPipeline): the ledger and its compilation, the review of what was     *)
(* collected, the canonical dataset that either leads to, and their         *)
(* composition with admission; for any inventory, registry, ledger, claims  *)
(* and clerks, with any number of failures, under the assumptions that      *)
(* CanonicalDataset, LedgerCompilation and ReviewQueue name.                *)
(***************************************************************************)
EXTENDS MCPipeline, ReleaseAdmissionProofs, FiniteSetTheorems

(***************************************************************************)
(* The generated files of the ledger (release/compiler.py).                *)
(***************************************************************************)
OverPlaces(F) == F = [t \in Places |-> F[t]]
CompilerSteps == {"none", "aside", "in", "clean", "undo", "restore"}
CompilersFrom(F, G) ==
    [from : F, previous : G, step : CompilerSteps, at : 0..3,
     failed : Places \cup {None}, troubled : BOOLEAN]

\* The compiler is at rest or at a step, on a target that is there.
CompilerTypeOK ==
  /\ OverPlaces(outputs)
  /\ OverPlaces(backups)
  /\ incomplete \in BOOLEAN
  /\ compile \in CompilersFrom({compile.from}, {compile.previous})
  /\ OverPlaces(compile.previous)
  /\ compile.step = "none" => compile = NoCompile
  /\ compile.step \notin {"undo"} => compile.at >= 1
  /\ compile.step \in {"aside", "in", "clean"} => compile.troubled = FALSE
  /\ compile.step \in {"undo", "restore"} => compile.failed \in Places

\* A target still holds what it held before, p; or the backup holds it, with the target
\* empty, or with the new file f in its place.
StillOld(O, B, p, i) == O[Targets[i]] = p[Targets[i]] /\ B[Targets[i]] = None
Aside(O, B, p, i) == O[Targets[i]] = None /\ B[Targets[i]] = p[Targets[i]]
Replaced(O, B, p, f, i) == O[Targets[i]] = f /\ B[Targets[i]] = p[Targets[i]]

\* On the way forward: the targets before a are replaced, those after it are not.
Forward(O, B, p, f, a) ==
  \A i \in 1..3 : /\ i < a => Replaced(O, B, p, f, i)
                  /\ i > a => StillOld(O, B, p, i)
\* On the way back from the target n, with the targets up to a still to undo.
Backward(O, B, p, f, a, n) ==
  /\ a < n
  /\ \A i \in 1..3 : /\ i < a => Replaced(O, B, p, f, i)
                     /\ i > a /\ i # n => StillOld(O, B, p, i)
                     /\ i = n => StillOld(O, B, p, i) \/ Aside(O, B, p, i)
\* What stands, by the compiler's step.
Stands(O, B, c) ==
  /\ c.step = "aside" => /\ Forward(O, B, c.previous, c.from, c.at)
                         /\ StillOld(O, B, c.previous, c.at)
  /\ c.step = "in" => /\ Forward(O, B, c.previous, c.from, c.at)
                      /\ Aside(O, B, c.previous, c.at)
  /\ c.step = "undo" =>
       \E n \in 1..3 : /\ c.failed = Targets[n] /\ Backward(O, B, c.previous, c.from, c.at, n)
                       /\ c.at >= 1 => Replaced(O, B, c.previous, c.from, c.at)
  /\ c.step = "restore" =>
       \E n \in 1..3 : /\ c.failed = Targets[n] /\ Backward(O, B, c.previous, c.from, c.at, n)
                       /\ Aside(O, B, c.previous, c.at)

\* What the targets held was compiled from o, up to the target k, and the others were empty:
\* as far as no backup tells otherwise, where the compiler is at rest.
Before(o, k, i) == IF i <= k THEN o ELSE None
AtRest(O, B, o, k) ==
  (\A i \in 1..3 : B[Targets[i]] = None) => \A i \in 1..3 : O[Targets[i]] = Before(o, k, i)
Former(c, o, k) == \A i \in 1..3 : c.previous[Targets[i]] = Before(o, k, i)
Origin ==
  \E o, k : /\ k \in 0..3
            /\ compile.step = "none" => AtRest(outputs, backups, o, k)
            /\ compile.step # "none" => Former(compile, o, k)

\* What is new stands, and stays when the backups go.
NewStands ==
  /\ compile.step \in {"aside", "in"} =>
        \A i \in 1..3 : i < compile.at => outputs[Targets[i]] = compile.from
  /\ compile.step = "clean" =>
        \A i \in 1..3 : /\ outputs[Targets[i]] = compile.from
                        /\ i < compile.at => backups[Targets[i]] = None
Known == ~incomplete /\ ~compile.troubled
ReplacementInv ==
  /\ CompilerTypeOK
  /\ NewStands
  /\ ~compile.troubled => Stands(outputs, backups, compile)
  /\ Known => Origin

LEMMA TargetFacts ==
  /\ Len(Targets) = 3
  /\ \A i \in 1..3 : Targets[i] \in Places
  /\ \A p \in Places : \E i \in 1..3 : p = Targets[i]
  /\ \A i, j \in 1..3 : Targets[i] = Targets[j] => i = j
<1>1. Len(Targets) = 3
  BY DEF Targets
<1>3. DOMAIN Targets = 1..3
  BY DEF Targets
<1>2. Targets[1] = "snapshots" /\ Targets[2] = "manifests" /\ Targets[3] = "dataset"
  BY DEF Targets
<1> QED BY <1>1, <1>2, <1>3 DEF Places, Range

Puts(F, G, p, x) == G = [F EXCEPT ![p] = x]

\* A file written at one target leaves the others alone.
LEMMA OneTarget ==
  ASSUME NEW F, OverPlaces(F), NEW a \in 1..3, NEW x,
         NEW G, Puts(F, G, Targets[a], x)
  PROVE  /\ OverPlaces(G)
         /\ G[Targets[a]] = x
         /\ \A i \in 1..3 : i # a => G[Targets[i]] = F[Targets[i]]
BY TargetFacts DEF OverPlaces, Puts

\* The compiler goes on.
LEMMA CompilerProceeds ==
  ASSUME compile \in CompilersFrom({compile.from}, {compile.previous}),
         NEW s \in CompilerSteps, NEW a \in 0..3, Goes(s, a)
  PROVE  /\ compile' \in CompilersFrom({compile'.from}, {compile'.previous}) /\ compile'.from = compile.from
         /\ compile'.previous = compile.previous
         /\ compile'.previous = compile.previous /\ compile'.step = s /\ compile'.at = a
         /\ compile'.failed = compile.failed /\ compile'.troubled = compile.troubled
<1>1. PICK P : P = Places \cup {None}
  OBVIOUS
<1>2. PICK f, g : f = compile.from /\ g = compile.previous
  OBVIOUS
<1>3. compile \in [from : {f}, previous : {g}, step : CompilerSteps, at : 0..3, failed : P, troubled : BOOLEAN]
  BY <1>1, <1>2 DEF CompilersFrom
<1>4. /\ compile' \in [from : {f}, previous : {g}, step : CompilerSteps, at : 0..3, failed : P, troubled : BOOLEAN]
      /\ compile'.from = f /\ compile'.previous = g
      /\ compile'.step = s /\ compile'.at = a
      /\ compile'.failed = compile.failed /\ compile'.troubled = compile.troubled
  BY <1>2, <1>3 DEF Goes
<1> QED BY <1>1, <1>2, <1>4 DEF CompilersFrom

\* What a compiler replaces does not change under it.
LEMMA OriginStays ==
  ASSUME compile.step # "none", compile'.step # "none", compile'.previous = compile.previous, Origin
  PROVE  Origin'
BY DEF Origin, Former

LEMMA AtRestFacts ==
  /\ NoCompile \in CompilersFrom({NoCompile.from}, {NoCompile.previous}) /\ NoCompile.step = "none"
  /\ OverPlaces(NoCompile.previous)
  /\ NoCompile.at = 1 /\ NoCompile.troubled = FALSE
BY DEF NoCompile, CompilersFrom, CompilerSteps, OverPlaces

\* Wherever it dies with no backup left, the files are of one compilation: before the first
\* target with a backup there was nothing.
LEMMA DeathLeavesOne ==
  ASSUME NEW O, NEW B, NEW c, NEW o, NEW k \in 0..3, Stands(O, B, c), Former(c, o, k),
         c.step \in {"aside", "in", "undo", "restore"}, c.at \in 0..3,
         c.step # "undo" => c.at >= 1
  PROVE  \E q, m : m \in 0..3 /\ AtRest(O, B, q, m)
<1>1. CASE ~\A i \in 1..3 : B[Targets[i]] = None
  <2>1. AtRest(O, B, o, k)
    BY <1>1 DEF AtRest
  <2> QED BY <2>1
<1>2. CASE \A i \in 1..3 : B[Targets[i]] = None
  <2> DEFINE p == c.previous
             Empty == \A i \in 1..3 : p[Targets[i]] = None
  <2>0. p[Targets[1]] = None => Empty
    BY DEF Former, Before
  <2>1. \A i \in 1..3 : p[Targets[i]] = Before(o, k, i)
    BY DEF Former
  <2>2. CASE c.step = "aside" /\ c.at = 1
    <3>1. AtRest(O, B, o, k)
      BY <2>1, <2>2 DEF Stands, Forward, AtRest, StillOld
    <3> QED BY <3>1
  <2>3. CASE c.step \in {"aside", "in"} /\ ~(c.step = "aside" /\ c.at = 1)
    <3>1. Empty
      BY <1>2, <2>0, <2>3 DEF Stands, Forward, Aside, Replaced
    <3>3. AtRest(O, B, c.from, c.at - 1)
      BY <1>2, <2>3, <3>1 DEF Stands, Forward, AtRest, StillOld, Aside, Replaced, Before
    <3> QED BY <2>3, <3>3
  <2>4. CASE c.step = "undo" /\ c.at = 0
    <3>1. AtRest(O, B, o, k)
      BY <1>2, <2>1, <2>4 DEF Stands, Backward, AtRest, StillOld, Aside
    <3> QED BY <3>1
  <2>5. CASE c.step = "undo" /\ c.at >= 1
    <3>1. Empty
      BY <1>2, <2>0, <2>5 DEF Stands, Backward, Replaced
    <3>3. AtRest(O, B, c.from, c.at)
      BY <1>2, <2>5, <3>1 DEF Stands, Backward, AtRest, StillOld, Aside, Replaced, Before
    <3> QED BY <3>3
  <2>6. CASE c.step = "restore"
    <3>1. Empty
      BY <1>2, <2>0, <2>6 DEF Stands, Backward, Replaced, Aside
    <3>3. AtRest(O, B, c.from, c.at - 1)
      BY <1>2, <2>6, <3>1 DEF Stands, Backward, AtRest, StillOld, Aside, Replaced, Before
    <3> QED BY <2>6, <3>3
  <2> QED BY <2>2, <2>3, <2>4, <2>5, <2>6
<1> QED BY <1>1, <1>2

(***************************************************************************)
(* Whatever the compiler has done, the targets up to where it is hold the  *)
(* new files and the others the old, and the backups hold what is missing, *)
(* until its rollback meets a failure (_replace_outputs_atomically,        *)
(* _rollback_outputs).                                                     *)
(***************************************************************************)
THEOREM ReplacementInvariant == LedgerSpec => []ReplacementInv
<1>1. LedgerInit => ReplacementInv
  <2> SUFFICES ASSUME LedgerInit PROVE ReplacementInv
    OBVIOUS
  <2>1. OverPlaces(outputs) /\ OverPlaces(backups) /\ compile = NoCompile /\ incomplete = FALSE
    BY DEF LedgerInit, OverPlaces
  <2>4. incomplete \in BOOLEAN
    BY <2>1
  <2>3. CompilerTypeOK /\ NewStands
    BY <2>1, <2>4, AtRestFacts DEF CompilerTypeOK, NewStands
  <2>2. AtRest(outputs, backups, None, 0)
    BY TargetFacts DEF LedgerInit, AtRest, Before
  <2>5. Stands(outputs, backups, compile) /\ Origin
    BY <2>1, <2>2, AtRestFacts DEF Stands, Origin
  <2> QED BY <2>3, <2>5 DEF ReplacementInv
<1>2. ReplacementInv /\ [LedgerNext]_ledgerVars => ReplacementInv'
  <2> SUFFICES ASSUME ReplacementInv, [LedgerNext]_ledgerVars
               PROVE  ReplacementInv'
    OBVIOUS
  <2> USE DEF At, Target
  <2>0. CompilerTypeOK /\ NewStands /\ compile \in CompilersFrom({compile.from}, {compile.previous})
        /\ compile.at \in 0..3 /\ compile.step \in CompilerSteps /\ compile.troubled \in BOOLEAN
    BY DEF ReplacementInv, CompilerTypeOK, CompilersFrom
  <2>00. (~compile.troubled => Stands(outputs, backups, compile)) /\ (Known => Origin)
    BY DEF ReplacementInv
  <2>1. CASE UNCHANGED ledgerVars \/ EditLedger
    <3>1. UNCHANGED <<outputs, backups, compile, incomplete>>
      BY <2>1 DEF ledgerVars, EditLedger
    <3> QED BY <3>1 DEF ReplacementInv, CompilerTypeOK, NewStands, Known, Origin
  <2>2. CASE BeginCompile
    <3> DEFINE f == compile'.from
    <3>1. compile = NoCompile /\ UNCHANGED <<outputs, backups, incomplete>>
      BY <2>2 DEF BeginCompile
    <3>2. \A i \in 1..3 : backups[Targets[i]] = None
      BY <2>2, TargetFacts DEF BeginCompile, UnrecoveredBackups
    <3>3. /\ compile'.step = "aside" /\ compile'.at = 1 /\ compile'.troubled = FALSE
          /\ compile'.previous = outputs
          /\ compile' \in CompilersFrom({compile'.from}, {compile'.previous})
      BY <2>2 DEF BeginCompile, CompilersFrom, CompilerSteps
    <3>4. CompilerTypeOK' /\ NewStands'
      BY <2>0, <3>1, <3>3 DEF CompilerTypeOK, NewStands, OverPlaces
    <3>5. Stands(outputs', backups', compile')
      BY <3>1, <3>2, <3>3 DEF Stands, Forward, StillOld
    <3>6. Known' => Origin'
      <4> SUFFICES ASSUME Known PROVE Origin'
        BY <3>1, <3>3, AtRestFacts DEF Known
      <4>1. PICK o, k : k \in 0..3 /\ AtRest(outputs, backups, o, k)
        BY <2>00, <3>1, AtRestFacts DEF Origin
      <4>2. Former(compile', o, k)
        BY <3>2, <3>3, <4>1 DEF AtRest, Former
      <4> QED BY <3>3, <4>1, <4>2 DEF Origin
    <3> QED BY <3>4, <3>5, <3>6 DEF ReplacementInv
  <2>3. CASE MoveAside
    <3> DEFINE a == compile.at
    <3>1. a \in 1..3 /\ compile.step = "aside" /\ compile.troubled = FALSE
      BY <2>0, <2>3 DEF MoveAside, CompilerTypeOK
    <3>2. /\ compile' \in CompilersFrom({compile'.from}, {compile'.previous}) /\ compile'.from = compile.from
          /\ compile'.previous = compile.previous
          /\ compile'.step = "in" /\ compile'.at = a
          /\ compile'.failed = compile.failed /\ compile'.troubled = compile.troubled
      BY <2>0, <2>3, CompilerProceeds DEF MoveAside, CompilerSteps
    <3>3. /\ OverPlaces(outputs')
          /\ outputs'[Targets[a]] = None
          /\ \A i \in 1..3 : i # a => outputs'[Targets[i]] = outputs[Targets[i]]
      <4>1. Puts(outputs, outputs', Targets[a], None)
        BY <2>3 DEF MoveAside, Puts
      <4> QED BY <2>0, <3>1, <4>1, OneTarget DEF CompilerTypeOK
    <3>4. /\ OverPlaces(backups')
          /\ backups'[Targets[a]] = outputs[Targets[a]]
          /\ \A i \in 1..3 : i # a => backups'[Targets[i]] = backups[Targets[i]]
      <4>1. Puts(backups, backups', Targets[a], outputs[Targets[a]])
        BY <2>3 DEF MoveAside, Puts
      <4> QED BY <2>0, <3>1, <4>1, OneTarget DEF CompilerTypeOK
    <3>5. incomplete' = incomplete
      BY <2>3 DEF MoveAside
    <3>6. CompilerTypeOK' /\ NewStands'
      BY <2>0, <3>1, <3>2, <3>3, <3>4, <3>5 DEF CompilerTypeOK, NewStands
    <3>7. ASSUME Stands(outputs, backups, compile)
          PROVE  Stands(outputs', backups', compile')
      BY <3>1, <3>2, <3>3, <3>4, <3>7 DEF Stands, Forward, StillOld, Aside, Replaced
    <3>8. Origin => Origin'
      BY <3>1, <3>2, OriginStays
    <3> QED BY <2>00, <3>2, <3>5, <3>6, <3>7, <3>8 DEF ReplacementInv, Known
  <2>4. CASE MoveIn
    <3> DEFINE a == compile.at
    <3>1. a \in 1..3 /\ compile.step = "in" /\ compile.troubled = FALSE
      BY <2>0, <2>4 DEF MoveIn, CompilerTypeOK
    <3>2. /\ compile' \in CompilersFrom({compile'.from}, {compile'.previous}) /\ compile'.from = compile.from
          /\ compile'.previous = compile.previous
          /\ IF a < 3 THEN compile'.step = "aside" /\ compile'.at = a + 1
             ELSE compile'.step = "clean" /\ compile'.at = 1
          /\ compile'.failed = compile.failed /\ compile'.troubled = compile.troubled
      <4>1. CASE a < 3
        <5>1. Goes("aside", a + 1) /\ a + 1 \in 0..3
          BY <2>4, <3>1, <4>1, TargetFacts DEF MoveIn
        <5> QED BY <2>0, <4>1, <5>1, CompilerProceeds DEF CompilerSteps
      <4>2. CASE ~(a < 3)
        <5>1. Goes("clean", 1)
          BY <2>4, <3>1, <4>2, TargetFacts DEF MoveIn
        <5> QED BY <2>0, <4>2, <5>1, CompilerProceeds DEF CompilerSteps
      <4> QED BY <4>1, <4>2
    <3>3. /\ OverPlaces(outputs')
          /\ outputs'[Targets[a]] = compile.from
          /\ \A i \in 1..3 : i # a => outputs'[Targets[i]] = outputs[Targets[i]]
      <4>1. Puts(outputs, outputs', Targets[a], compile.from)
        BY <2>4 DEF MoveIn, Puts
      <4> QED BY <2>0, <3>1, <4>1, OneTarget DEF CompilerTypeOK
    <3>4. backups' = backups /\ incomplete' = incomplete
      BY <2>4 DEF MoveIn
    <3>5. CompilerTypeOK'
      BY <2>0, <3>1, <3>2, <3>3, <3>4 DEF CompilerTypeOK
    <3>6. NewStands'
      BY <2>0, <3>1, <3>2, <3>3, <3>4 DEF NewStands
    <3>7. ASSUME Stands(outputs, backups, compile)
          PROVE  Stands(outputs', backups', compile')
      BY <3>1, <3>2, <3>3, <3>4, <3>7 DEF Stands, Forward, StillOld, Aside, Replaced
    <3>8. Origin => Origin'
      BY <3>1, <3>2, OriginStays
    <3> QED BY <2>00, <3>2, <3>4, <3>5, <3>6, <3>7, <3>8 DEF ReplacementInv, Known
  <2>5. CASE RemoveBackup
    <3> DEFINE a == compile.at
    <3>1. a \in 1..3 /\ compile.step = "clean" /\ compile.troubled = FALSE
      BY <2>0, <2>5 DEF RemoveBackup, CompilerTypeOK
    <3>2. /\ OverPlaces(backups')
          /\ backups'[Targets[a]] = None
          /\ \A i \in 1..3 : i # a => backups'[Targets[i]] = backups[Targets[i]]
          /\ outputs' = outputs
      <4>1. Puts(backups, backups', Targets[a], None) /\ outputs' = outputs
        BY <2>5 DEF RemoveBackup, Puts
      <4> QED BY <2>0, <3>1, <4>1, OneTarget DEF CompilerTypeOK
    <3>3. CASE a < 3
      <4>1. Goes("clean", a + 1) /\ a + 1 \in 0..3 /\ incomplete' = incomplete
        BY <2>5, <3>1, <3>3, TargetFacts DEF RemoveBackup
      <4>2. /\ compile' \in CompilersFrom({compile'.from}, {compile'.previous}) /\ compile'.from = compile.from
            /\ compile'.previous = compile.previous
            /\ compile'.previous = compile.previous
            /\ compile'.step = "clean" /\ compile'.at = a + 1
            /\ compile'.troubled = compile.troubled
        BY <2>0, <4>1, CompilerProceeds DEF CompilerSteps
      <4>3. CompilerTypeOK' /\ NewStands'
        BY <2>0, <3>1, <3>2, <4>1, <4>2 DEF CompilerTypeOK, NewStands
      <4>4. Stands(outputs', backups', compile') /\ (Origin => Origin')
        BY <3>1, <4>2, OriginStays DEF Stands
      <4> QED BY <2>00, <4>1, <4>2, <4>3, <4>4 DEF ReplacementInv, Known
    <3>4. CASE ~(a < 3)
      <4>1. compile' = NoCompile /\ incomplete' = FALSE
        BY <2>5, <3>1, <3>4, TargetFacts DEF RemoveBackup, Ends
      <4>5. incomplete' \in BOOLEAN
        BY <4>1
      <4>2. CompilerTypeOK' /\ NewStands'
        BY <2>0, <3>2, <4>1, <4>5, AtRestFacts DEF CompilerTypeOK, NewStands
      <4>3. \A i \in 1..3 : outputs'[Targets[i]] = compile.from /\ backups'[Targets[i]] = None
        BY <2>0, <3>1, <3>2, <3>4 DEF NewStands
      <4>4. AtRest(outputs', backups', compile.from, 3)
        BY <4>3 DEF AtRest, Before
      <4>6. Stands(outputs', backups', compile') /\ Origin'
        BY <4>1, <4>4, AtRestFacts DEF Stands, Origin
      <4> QED BY <4>2, <4>6 DEF ReplacementInv
    <3> QED BY <3>3, <3>4
  <2>6. CASE RemovalFails
    <3>1. /\ compile' = NoCompile /\ UNCHANGED <<outputs, backups, incomplete>>
          /\ compile.at \in 1..3 /\ backups[Targets[compile.at]] # None
      BY <2>0, <2>6 DEF RemovalFails, Ends, CompilerTypeOK
    <3>2. CompilerTypeOK' /\ NewStands'
      BY <2>0, <3>1, AtRestFacts DEF CompilerTypeOK, NewStands
    <3>3. AtRest(outputs', backups', None, 0)
      BY <3>1 DEF AtRest
    <3>4. Stands(outputs', backups', compile') /\ Origin'
      BY <3>1, <3>3, AtRestFacts DEF Stands, Origin
    <3> QED BY <3>2, <3>4 DEF ReplacementInv
  <2>7. CASE ReplaceFails
    <3> DEFINE a == compile.at
    <3>1. a \in 1..3 /\ compile.step \in {"aside", "in"} /\ compile.troubled = FALSE
      BY <2>0, <2>7, AtRestFacts DEF ReplaceFails, CompilerTypeOK
    <3>2. /\ compile' \in CompilersFrom({compile'.from}, {compile'.previous}) /\ compile'.from = compile.from
          /\ compile'.previous = compile.previous
          /\ compile'.step = "undo" /\ compile'.at = a - 1
          /\ compile'.failed = Targets[a] /\ compile'.troubled = compile.troubled
      <4>1. PICK P : P = Places \cup {None}
        OBVIOUS
      <4>2. PICK f, g : f = compile.from /\ g = compile.previous
        OBVIOUS
      <4>3. compile \in [from : {f}, previous : {g}, step : CompilerSteps, at : 0..3, failed : P, troubled : BOOLEAN]
        BY <2>0, <4>1, <4>2 DEF CompilersFrom
      <4>4. PICK t : t = Targets[a] /\ t \in P
        BY <3>1, <4>1, TargetFacts
      <4>5. compile' = [compile EXCEPT !.step = "undo", !.at = a - 1, !.failed = t]
        BY <2>7, <4>4 DEF ReplaceFails
      <4>6. /\ compile' \in [from : {f}, previous : {g}, step : CompilerSteps, at : 0..3, failed : P, troubled : BOOLEAN]
            /\ compile'.from = f /\ compile'.previous = g /\ compile'.step = "undo" /\ compile'.at = a - 1
            /\ compile'.failed = t /\ compile'.troubled = compile.troubled
        <5>1. compile' = [from |-> f, previous |-> g, step |-> "undo", at |-> a - 1, failed |-> t,
                          troubled |-> compile.troubled]
          BY <4>2, <4>3, <4>5
        <5> QED BY <3>1, <4>3, <4>4, <5>1 DEF CompilerSteps
      <4> QED BY <4>1, <4>2, <4>4, <4>6 DEF CompilersFrom
    <3>3. UNCHANGED <<outputs, backups, incomplete>>
      BY <2>7 DEF ReplaceFails
    <3>4. CompilerTypeOK' /\ NewStands'
      BY <2>0, <3>1, <3>2, <3>3, TargetFacts DEF CompilerTypeOK, NewStands
    <3>5. ASSUME Stands(outputs, backups, compile)
          PROVE  Stands(outputs', backups', compile')
      BY <3>1, <3>2, <3>3, <3>5 DEF Stands, Forward, Backward
    <3>8. Origin => Origin'
      BY <3>1, <3>2, OriginStays
    <3> QED BY <2>00, <3>2, <3>3, <3>4, <3>5, <3>8 DEF ReplacementInv, Known
  <2>8. CASE UndoReplacement
    <3> DEFINE a == compile.at
    <3>1. a \in 1..3 /\ compile.step = "undo"
      BY <2>0, <2>8 DEF UndoReplacement
    <3>2. backups' = backups /\ incomplete' = incomplete
      BY <2>8 DEF UndoReplacement
    <3>3. CASE Goes("restore", a) /\ outputs' = [outputs EXCEPT ![Targets[a]] = None]
      <4>1. /\ compile' \in CompilersFrom({compile'.from}, {compile'.previous}) /\ compile'.from = compile.from
            /\ compile'.previous = compile.previous
            /\ compile'.step = "restore" /\ compile'.at = a
            /\ compile'.failed = compile.failed /\ compile'.troubled = compile.troubled
        BY <2>0, <3>3, CompilerProceeds DEF CompilerSteps
      <4>2. /\ OverPlaces(outputs')
            /\ outputs'[Targets[a]] = None
            /\ \A i \in 1..3 : i # a => outputs'[Targets[i]] = outputs[Targets[i]]
        <5>1. Puts(outputs, outputs', Targets[a], None)
          BY <3>3 DEF Puts
        <5> QED BY <2>0, <3>1, <5>1, OneTarget DEF CompilerTypeOK
      <4>3. CompilerTypeOK' /\ NewStands'
        BY <2>0, <3>1, <3>2, <4>1, <4>2 DEF CompilerTypeOK, NewStands
      <4>4. ASSUME Stands(outputs, backups, compile)
            PROVE  Stands(outputs', backups', compile')
        <5>1. PICK n \in 1..3 : /\ compile.failed = Targets[n]
                                /\ Backward(outputs, backups, compile.previous, compile.from, a, n)
                                /\ Replaced(outputs, backups, compile.previous, compile.from, a)
          BY <3>1, <4>4 DEF Stands
        <5>2. Backward(outputs', backups', compile.previous, compile.from, a, n) /\ Aside(outputs', backups', compile.previous, a)
          BY <3>1, <3>2, <4>2, <5>1 DEF Backward, StillOld, Aside, Replaced
        <5> QED BY <4>1, <5>1, <5>2 DEF Stands
      <4>5. Origin => Origin'
        BY <3>1, <4>1, OriginStays
      <4> QED BY <2>00, <3>2, <4>1, <4>3, <4>4, <4>5 DEF ReplacementInv, Known
    <3>4. CASE Troubles /\ outputs' = outputs
      <4>1. /\ compile' \in CompilersFrom({compile'.from}, {compile'.previous})
            /\ compile'.previous = compile.previous /\ compile'.step = "restore" /\ compile'.at = a
            /\ compile'.failed = compile.failed /\ compile'.troubled = TRUE
        <5>1. PICK P : P = Places \cup {None}
          OBVIOUS
        <5>2. PICK f, g : f = compile.from /\ g = compile.previous
          OBVIOUS
        <5>3. compile \in [from : {f}, previous : {g}, step : CompilerSteps, at : 0..3, failed : P, troubled : BOOLEAN]
          BY <2>0, <5>1, <5>2 DEF CompilersFrom
        <5>4. /\ compile' \in [from : {f}, previous : {g}, step : CompilerSteps, at : 0..3, failed : P, troubled : BOOLEAN]
              /\ compile'.from = f /\ compile'.previous = g /\ compile'.step = "restore" /\ compile'.at = a
              /\ compile'.failed = compile.failed /\ compile'.troubled = TRUE
          BY <3>4, <5>3 DEF Troubles, CompilerSteps
        <5> QED BY <5>1, <5>2, <5>4 DEF CompilersFrom
      <4>2. CompilerTypeOK' /\ NewStands'
        BY <2>0, <3>1, <3>2, <3>4, <4>1 DEF CompilerTypeOK, NewStands
      <4> QED BY <4>1, <4>2 DEF ReplacementInv, Known
    <3>5. \/ Goes("restore", a) /\ outputs' = [outputs EXCEPT ![Targets[a]] = None]
          \/ Troubles /\ outputs' = outputs
      <4>1. Removes(Targets[a])
        BY DEF Removes
      <4> QED BY <2>8, <4>1 DEF UndoReplacement
    <3> QED BY <3>3, <3>4, <3>5

  <2>9. CASE RestoreBackup
    <3> DEFINE a == compile.at
    <3>1. a \in 1..3 /\ compile.step = "restore" /\ incomplete' = incomplete
      BY <2>0, <2>9 DEF RestoreBackup, CompilerTypeOK
    <3>2. CASE /\ Goes("undo", a - 1)
               /\ backups[Targets[a]] # None => outputs[Targets[a]] = None
               /\ IF backups[Targets[a]] = None THEN UNCHANGED <<outputs, backups>> ELSE PutBack(Targets[a])
      <4>1. /\ compile' \in CompilersFrom({compile'.from}, {compile'.previous}) /\ compile'.from = compile.from
            /\ compile'.previous = compile.previous
            /\ compile'.step = "undo" /\ compile'.at = a - 1
            /\ compile'.failed = compile.failed /\ compile'.troubled = compile.troubled
        <5>1. a - 1 \in 0..3
          BY <3>1
        <5> QED BY <2>0, <3>2, <5>1, CompilerProceeds DEF CompilerSteps
      <4>2. /\ OverPlaces(outputs') /\ OverPlaces(backups')
            /\ \A i \in 1..3 : i # a => /\ outputs'[Targets[i]] = outputs[Targets[i]]
                                        /\ backups'[Targets[i]] = backups[Targets[i]]
            /\ backups'[Targets[a]] = None
            /\ outputs'[Targets[a]] = IF backups[Targets[a]] = None THEN outputs[Targets[a]]
                                      ELSE backups[Targets[a]]
        <5>1. CASE backups[Targets[a]] = None
          BY <2>0, <3>2, <5>1 DEF CompilerTypeOK
        <5>2. CASE backups[Targets[a]] # None
          <6>1. PutBack(Targets[a])
            BY <3>2, <5>2
          <6>2. /\ Puts(outputs, outputs', Targets[a], backups[Targets[a]])
                /\ Puts(backups, backups', Targets[a], None)
            BY <6>1 DEF PutBack, Puts
          <6>3. /\ OverPlaces(outputs') /\ outputs'[Targets[a]] = backups[Targets[a]]
                /\ \A i \in 1..3 : i # a => outputs'[Targets[i]] = outputs[Targets[i]]
            BY <2>0, <3>1, <6>2, OneTarget DEF CompilerTypeOK
          <6>4. /\ OverPlaces(backups') /\ backups'[Targets[a]] = None
                /\ \A i \in 1..3 : i # a => backups'[Targets[i]] = backups[Targets[i]]
            BY <2>0, <3>1, <6>2, OneTarget DEF CompilerTypeOK
          <6> QED BY <5>2, <6>3, <6>4
        <5> QED BY <5>1, <5>2
      <4>3. CompilerTypeOK' /\ NewStands'
        BY <2>0, <3>1, <4>1, <4>2 DEF CompilerTypeOK, NewStands
      <4>4. ASSUME Stands(outputs, backups, compile)
            PROVE  Stands(outputs', backups', compile')
        <5>1. PICK n \in 1..3 : /\ compile.failed = Targets[n]
                                /\ Backward(outputs, backups, compile.previous, compile.from, a, n)
                                /\ Aside(outputs, backups, compile.previous, a)
          BY <3>1, <4>4 DEF Stands
        <5>2. StillOld(outputs', backups', compile.previous, a)
          BY <4>2, <5>1 DEF Aside, StillOld
        <5>3. Backward(outputs', backups', compile.previous, compile.from, a - 1, n)
          BY <3>1, <4>2, <5>1, <5>2 DEF Backward, StillOld, Aside, Replaced
        <5>4. a - 1 >= 1 => Replaced(outputs', backups', compile.previous, compile.from, a - 1)
          BY <3>1, <4>2, <5>1 DEF Backward, Replaced
        <5> QED BY <4>1, <5>1, <5>3, <5>4 DEF Stands
      <4>5. Origin => Origin'
        BY <3>1, <4>1, OriginStays
      <4> QED BY <2>00, <3>1, <4>1, <4>3, <4>4, <4>5 DEF ReplacementInv, Known
    <3>3. CASE /\ compile' = [compile EXCEPT !.step = "undo", !.at = @ - 1, !.troubled = TRUE]
               /\ UNCHANGED <<outputs, backups>>
      <4>1. /\ compile' \in CompilersFrom({compile'.from}, {compile'.previous})
            /\ compile'.previous = compile.previous /\ compile'.step = "undo" /\ compile'.at = a - 1
            /\ compile'.failed = compile.failed /\ compile'.troubled = TRUE
        <5>1. PICK P : P = Places \cup {None}
          OBVIOUS
        <5>2. PICK f, g : f = compile.from /\ g = compile.previous
          OBVIOUS
        <5>3. compile \in [from : {f}, previous : {g}, step : CompilerSteps, at : 0..3, failed : P, troubled : BOOLEAN]
          BY <2>0, <5>1, <5>2 DEF CompilersFrom
        <5>4. /\ compile' \in [from : {f}, previous : {g}, step : CompilerSteps, at : 0..3, failed : P, troubled : BOOLEAN]
              /\ compile'.from = f /\ compile'.previous = g /\ compile'.step = "undo" /\ compile'.at = a - 1
              /\ compile'.failed = compile.failed /\ compile'.troubled = TRUE
          <6>1. compile' = [from |-> f, previous |-> g, step |-> "undo", at |-> a - 1, failed |-> compile.failed,
                            troubled |-> TRUE]
            BY <3>3, <5>2, <5>3
          <6> QED BY <3>1, <5>3, <6>1 DEF CompilerSteps
        <5> QED BY <5>1, <5>2, <5>4 DEF CompilersFrom
      <4>2. CompilerTypeOK' /\ NewStands'
        BY <2>0, <3>1, <3>3, <4>1 DEF CompilerTypeOK, NewStands
      <4> QED BY <4>1, <4>2 DEF ReplacementInv, Known
    <3>4. \/ /\ Goes("undo", a - 1)
             /\ backups[Targets[a]] # None => outputs[Targets[a]] = None
             /\ IF backups[Targets[a]] = None THEN UNCHANGED <<outputs, backups>> ELSE PutBack(Targets[a])
          \/ /\ compile' = [compile EXCEPT !.step = "undo", !.at = @ - 1, !.troubled = TRUE]
             /\ UNCHANGED <<outputs, backups>>
      BY <2>9 DEF RestoreBackup
    <3> QED BY <3>2, <3>3, <3>4
  <2>10. CASE RestoreFailed
    <3> DEFINE t == compile.failed
    <3>1. t \in Places /\ compile.step = "undo" /\ compile.at = 0 /\ compile' = NoCompile
      BY <2>0, <2>10 DEF RestoreFailed, CompilerTypeOK, Ends
    <3>2. PICK n \in 1..3 : t = Targets[n]
      BY <3>1, TargetFacts
    <3>3. CASE /\ IF backups[t] # None /\ outputs[t] = None THEN PutBack(t) ELSE UNCHANGED <<outputs, backups>>
               /\ incomplete' = (incomplete \/ compile.troubled)
      <4>1. /\ OverPlaces(outputs') /\ OverPlaces(backups')
            /\ \A i \in 1..3 : i # n => /\ outputs'[Targets[i]] = outputs[Targets[i]]
                                        /\ backups'[Targets[i]] = backups[Targets[i]]
            /\ IF backups[t] # None /\ outputs[t] = None
               THEN outputs'[t] = backups[t] /\ backups'[t] = None
               ELSE outputs'[t] = outputs[t] /\ backups'[t] = backups[t]
        <5>1. CASE ~(backups[t] # None /\ outputs[t] = None)
          BY <2>0, <3>3, <5>1 DEF CompilerTypeOK
        <5>2. CASE backups[t] # None /\ outputs[t] = None
          <6>1. PutBack(Targets[n])
            BY <3>2, <3>3, <5>2
          <6>2. /\ Puts(outputs, outputs', Targets[n], backups[Targets[n]])
                /\ Puts(backups, backups', Targets[n], None)
            BY <6>1 DEF PutBack, Puts
          <6>3. /\ OverPlaces(outputs') /\ outputs'[Targets[n]] = backups[Targets[n]]
                /\ \A i \in 1..3 : i # n => outputs'[Targets[i]] = outputs[Targets[i]]
            BY <2>0, <6>2, OneTarget DEF CompilerTypeOK
          <6>4. /\ OverPlaces(backups') /\ backups'[Targets[n]] = None
                /\ \A i \in 1..3 : i # n => backups'[Targets[i]] = backups[Targets[i]]
            BY <2>0, <6>2, OneTarget DEF CompilerTypeOK
          <6> QED BY <3>2, <5>2, <6>3, <6>4
        <5> QED BY <5>1, <5>2
      <4>2. CompilerTypeOK' /\ NewStands'
        BY <2>0, <3>1, <3>3, <4>1, AtRestFacts DEF CompilerTypeOK, NewStands
      <4>3. ASSUME ~compile.troubled
            PROVE  \A i \in 1..3 : StillOld(outputs', backups', compile.previous, i)
        <5>1. PICK m \in 1..3 : t = Targets[m] /\ Backward(outputs, backups, compile.previous, compile.from, 0, m)
          BY <2>00, <3>1, <4>3 DEF Stands
        <5>2. m = n
          BY <3>2, <5>1, TargetFacts
        <5>3. StillOld(outputs, backups, compile.previous, n) \/ Aside(outputs, backups, compile.previous, n)
          BY <5>1, <5>2 DEF Backward
        <5>4. StillOld(outputs', backups', compile.previous, n)
          BY <3>2, <4>1, <5>3 DEF StillOld, Aside
        <5> QED BY <4>1, <5>1, <5>2, <5>4 DEF StillOld, Backward
      <4>4. Stands(outputs', backups', compile')
        BY <3>1, AtRestFacts DEF Stands
      <4>5. Known' => Origin'
        <5> SUFFICES ASSUME Known' PROVE Origin'
          OBVIOUS
        <5>1. Known /\ ~compile.troubled
          BY <3>3 DEF Known
        <5>2. PICK o, k : k \in 0..3 /\ Former(compile, o, k)
          BY <2>00, <3>1, <5>1 DEF Origin
        <5>3. AtRest(outputs', backups', o, k)
          BY <4>3, <5>1, <5>2 DEF AtRest, Former, StillOld
        <5> QED BY <3>1, <5>2, <5>3, AtRestFacts DEF Origin
      <4> QED BY <4>2, <4>4, <4>5 DEF ReplacementInv
    <3>4. CASE incomplete' = TRUE /\ UNCHANGED <<outputs, backups>>
      <4>1. CompilerTypeOK' /\ NewStands'
        BY <2>0, <3>1, <3>4, AtRestFacts DEF CompilerTypeOK, NewStands
      <4>2. Stands(outputs', backups', compile')
        BY <3>1, AtRestFacts DEF Stands
      <4> QED BY <3>4, <4>1, <4>2 DEF ReplacementInv, Known
    <3> QED BY <2>10, <3>3, <3>4 DEF RestoreFailed
  <2>11. CASE CompilerDies
    <3>1. /\ compile' = NoCompile /\ UNCHANGED <<outputs, backups>>
          /\ incomplete' = (incomplete \/ compile.troubled)
      BY <2>11 DEF CompilerDies, Ends
    <3>2. CompilerTypeOK' /\ NewStands'
      BY <2>0, <3>1, AtRestFacts DEF CompilerTypeOK, NewStands
    <3>3. Known' => Origin'
      <4> SUFFICES ASSUME Known'
                   PROVE  \E o, k : k \in 0..3 /\ AtRest(outputs, backups, o, k)
        BY <3>1, AtRestFacts DEF Origin
      <4>1. Known /\ ~compile.troubled
        BY <3>1 DEF Known
      <4>2. CASE compile.step = "clean"
        <5>1. AtRest(outputs, backups, compile.from, 3)
          BY <2>0, <4>2 DEF NewStands, AtRest, Before
        <5> QED BY <5>1
      <4>3. CASE compile.step \in {"aside", "in", "undo", "restore"}
        <5>1. PICK o, k : k \in 0..3 /\ Former(compile, o, k)
          BY <2>00, <4>1, <4>3 DEF Origin
        <5>2. Stands(outputs, backups, compile)
          BY <2>00, <4>1
        <5>3. compile.step # "undo" => compile.at >= 1
          BY <2>0 DEF CompilerTypeOK
        <5> QED BY <2>0, <4>3, <5>1, <5>2, <5>3, DeathLeavesOne
      <4>4. compile.step # "none"
        BY <2>0, <2>11 DEF CompilerDies, CompilerTypeOK
      <4> QED BY <2>0, <4>2, <4>3, <4>4 DEF CompilerSteps
    <3>4. Stands(outputs', backups', compile')
      BY <3>1, AtRestFacts DEF Stands
    <3> QED BY <3>2, <3>3, <3>4 DEF ReplacementInv
  <2>12. CASE Repair
    <3>1. PICK t \in Places : outputs' = [p \in Places |-> outputs[t]]
      BY <2>12 DEF Repair
    <3>2. compile = NoCompile /\ compile' = compile /\ backups' = [p \in Places |-> None] /\ incomplete' = FALSE
      BY <2>12 DEF Repair
    <3>5. OverPlaces(outputs') /\ OverPlaces(backups')
      BY <3>1, <3>2 DEF OverPlaces
    <3>3. CompilerTypeOK' /\ NewStands'
      BY <2>0, <3>2, <3>5, AtRestFacts DEF CompilerTypeOK, NewStands
    <3>4. AtRest(outputs', backups', outputs[t], 3)
      BY <3>1, TargetFacts DEF AtRest, Before
    <3>6. Stands(outputs', backups', compile') /\ Origin'
      BY <3>2, <3>4, AtRestFacts DEF Stands, Origin
    <3> QED BY <3>3, <3>6 DEF ReplacementInv
  <2> QED BY <2>1, <2>2, <2>3, <2>4, <2>5, <2>6, <2>7, <2>8, <2>9, <2>10, <2>11, <2>12 DEF LedgerNext
<1> QED BY <1>1, <1>2, PTL DEF LedgerSpec

\* A failure counts one more.
LEMMA FaultsCount == LedgerSpec => [](faults \in Nat)
<1>1. LedgerInit => faults \in Nat
  BY DEF LedgerInit
<1>2. faults \in Nat /\ [LedgerNext]_ledgerVars => (faults \in Nat)'
  BY DEF LedgerNext, ledgerVars, EditLedger, BeginCompile, MoveAside, MoveIn, RemoveBackup,
         RemovalFails, ReplaceFails, UndoReplacement, RestoreBackup, RestoreFailed, CompilerDies,
         Repair, Fault
<1> QED BY <1>1, <1>2, PTL DEF LedgerSpec

(***************************************************************************)
(* A swap that fails is undone, for any ledger and whatever earlier swaps  *)
(* left: as long as no rename or removal fails on the way back, each       *)
(* target holds again what it held when the compiler began, and no backup  *)
(* is left (_replace_outputs_atomically, _rollback_outputs).               *)
(***************************************************************************)
THEOREM FailedSwapsAreUndone == LedgerSpec => FailedSwapIsUndone
<1>1. ReplacementInv /\ faults \in Nat /\ RestoreFailed /\ ~compile.troubled /\ faults' = faults
        => outputs' = compile.previous /\ UnrecoveredBackups' = {}
  <2> SUFFICES ASSUME ReplacementInv, faults \in Nat, RestoreFailed, ~compile.troubled, faults' = faults
               PROVE  outputs' = compile.previous /\ UnrecoveredBackups' = {}
    OBVIOUS
  <2> DEFINE t == compile.failed
             p == compile.previous
  <2>1. /\ OverPlaces(outputs) /\ OverPlaces(backups) /\ OverPlaces(p)
        /\ compile.step = "undo" /\ compile.at = 0 /\ t \in Places
    BY DEF ReplacementInv, CompilerTypeOK, RestoreFailed, At
  <2>2. PICK n \in 1..3 : t = Targets[n] /\ Backward(outputs, backups, p, compile.from, 0, n)
    BY <2>1 DEF ReplacementInv, Stands
  <2>3. \A i \in 1..3 : i # n => outputs[Targets[i]] = p[Targets[i]] /\ backups[Targets[i]] = None
    BY <2>2 DEF Backward, StillOld
  <2>4. \A q \in Places : q # t => outputs[q] = p[q] /\ backups[q] = None
    BY <2>2, <2>3, TargetFacts
  <2>5. \/ outputs[t] = p[t] /\ backups[t] = None
        \/ outputs[t] = None /\ backups[t] = p[t]
    BY <2>2 DEF Backward, StillOld, Aside
  <2>6. IF backups[t] # None /\ outputs[t] = None THEN PutBack(t) ELSE UNCHANGED <<outputs, backups>>
    <3>1. faults' = faults => ~Fault
      BY DEF Fault
    <3> QED BY <3>1 DEF RestoreFailed
  <2>7. /\ OverPlaces(outputs') /\ OverPlaces(backups')
        /\ \A q \in Places : outputs'[q] = p[q] /\ backups'[q] = None
    BY <2>1, <2>4, <2>5, <2>6 DEF OverPlaces, PutBack
  <2> QED BY <2>1, <2>7 DEF OverPlaces, UnrecoveredBackups
<1> QED BY <1>1, ReplacementInvariant, FaultsCount, PTL DEF FailedSwapIsUndone

(***************************************************************************)
(* Until a rollback meets a failure, snapshots, manifests and dataset that *)
(* stand without a backup next to them are of one compilation, after any   *)
(* number of compilations, failed renames and deaths at any step; nothing  *)
(* is said from then until all three are replaced or put right             *)
(* (_replace_outputs_atomically, _rollback_outputs).                       *)
(***************************************************************************)
THEOREM OneCompilationStands == LedgerSpec => []OneCompilationUntilTrouble
<1>1. ReplacementInv => OneCompilationUntilTrouble
  <2> SUFFICES ASSUME ReplacementInv, compile = NoCompile, UnrecoveredBackups = {}, ~incomplete
               PROVE  Cardinality({outputs[t] : t \in Places} \ {None}) <= 1
    BY DEF OneCompilationUntilTrouble, OneCompilation
  <2>1. PICK o, k : k \in 0..3 /\ AtRest(outputs, backups, o, k)
    BY AtRestFacts DEF ReplacementInv, Known, Origin
  <2>2. \A i \in 1..3 : outputs[Targets[i]] = Before(o, k, i)
    BY <2>1, TargetFacts DEF AtRest, UnrecoveredBackups
  <2>3. \A t \in Places : outputs[t] \in {o, None}
    BY <2>2, TargetFacts DEF Before
  <2>4. {outputs[t] : t \in Places} \ {None} \subseteq {o}
    BY <2>3
  <2>5. \/ {outputs[t] : t \in Places} \ {None} = {}
        \/ {outputs[t] : t \in Places} \ {None} = {o}
    BY <2>4
  <2>6. Cardinality({}) = 0 /\ Cardinality({o}) = 1
    BY FS_EmptySet, FS_Singleton
  <2> QED BY <2>5, <2>6
<1> QED BY <1>1, ReplacementInvariant, PTL

(***************************************************************************)
(* Sets listed as sequences, and what a text is matched to.                *)
(***************************************************************************)
LEMMA ListedSet ==
  ASSUME NEW S, IsFiniteSet(S)
  PROVE  /\ Cardinality(S) \in Nat
         /\ SetToSeq(S) \in [1..Cardinality(S) -> S]
         /\ DOMAIN SetToSeq(S) = 1..Cardinality(S)
         /\ IsInjective(SetToSeq(S))
         /\ Range(SetToSeq(S)) = S
<1> DEFINE n == Cardinality(S)
<1>1. n \in Nat /\ ExistsBijection(1..n, S)
  BY FS_CardinalityType
<1>2. PICK b \in [1..n -> S] : IsInjective(b)
  BY <1>1 DEF ExistsBijection, Bijection, Injection, IsInjective
<1>3. SetToSeq(S) \in [1..n -> S] /\ IsInjective(SetToSeq(S))
  BY <1>2 DEF SetToSeq
<1> DEFINE f == SetToSeq(S)
<1>4. f \in Injection(1..n, S)
  BY <1>3 DEF Injection, IsInjective
<1>5. IsFiniteSet(1..n) /\ Cardinality(1..n) = n
  BY <1>1, FS_Interval
<1>6. f \in Surjection(1..n, S)
  BY <1>4, <1>5, FS_Injection
<1>7. Range(f) = S
  BY <1>3, <1>6 DEF Surjection, Range
<1> QED BY <1>1, <1>3, <1>7

\* The set of what the members of a finite set are mapped to is finite.
LEMMA FiniteImage ==
  ASSUME NEW S, IsFiniteSet(S), NEW f, DOMAIN f = S
  PROVE  IsFiniteSet(Range(f))
<1> DEFINE g == [x \in S |-> f[x]]
<1>1. g \in Surjection(S, Range(f))
  BY DEF Surjection, Range
<1> QED BY <1>1, FS_Surjection

LEMMA ScoreTyped == \A text, r : Score100(text, r) \in 0..100
BY InventoryAssumption DEF Score100, Similarity

\* The best of those that resemble a text is among its rivals.
LEMMA RivalsExist ==
  ASSUME NEW text, NEW plausible, plausible # {}
  PROVE  Rivals(text, plausible) # {}
<1> DEFINE T == {n \in Nat : \E r \in plausible : n = 100 - Score100(text, r)}
<1>1. \A r \in plausible : Score100(text, r) \in 0..100
  BY ScoreTyped
<1>2. \A r \in plausible : 100 - Score100(text, r) \in T
  BY <1>1
<1>3. T \subseteq Nat /\ T # {}
  BY <1>2
<1>4. PICK n \in T : \A m \in T : n <= m
  <2> HIDE DEF T
  <2> QED BY <1>3, LeastElement
<1>5. PICK r \in plausible : n = 100 - Score100(text, r)
  OBVIOUS
<1>6. \A q \in plausible : Score100(text, q) <= Score100(text, r) + 3
  <2> SUFFICES ASSUME NEW q \in plausible PROVE Score100(text, q) <= Score100(text, r) + 3
    OBVIOUS
  <2>1. n <= 100 - Score100(text, q)
    BY <1>2, <1>4
  <2>2. Score100(text, q) \in 0..100 /\ Score100(text, r) \in 0..100
    BY <1>1
  <2> QED BY <1>5, <2>1, <2>2
<1> QED BY <1>6 DEF Rivals

LEMMA ExactFacts ==
  ASSUME NEW S, NEW records, records \subseteq S, records # {}
  PROVE  LET m == ExactResult(records)
         IN  /\ m.candidates = records
             /\ m.status \in {"matched", "ambiguous"}
             /\ m.status = "matched" => m.selected \in records
BY DEF ExactResult, Match

\* What a text is matched to is one of the records it was matched with.
LEMMA MatchFacts ==
  ASSUME NEW S, NEW text, NEW t \in Nat
  PROVE  LET m == MatchTerms(text, S, t)
         IN  /\ m.candidates \subseteq S
             /\ m.status \in {"matched", "ambiguous", "unmatched"}
             /\ m.status = "matched" => m.selected \in S
<1> DEFINE exact == Alike(text, S, {"exact"})
           normalized == Alike(text, S, {"exact", "normalized"})
           plausible == {r \in S : Score100(text, r) >= t}
           rivals == Rivals(text, plausible)
           nearest == {r \in S : Cardinality({q \in S : Score100(text, q) > Score100(text, r)}) < 3}
           m == MatchTerms(text, S, t)
<1>1. exact \subseteq S /\ normalized \subseteq S /\ plausible \subseteq S /\ nearest \subseteq S
  BY DEF Alike
<1>2. rivals \subseteq plausible /\ (plausible # {} => rivals # {})
  BY RivalsExist DEF Rivals
<1>3. m = IF exact # {} THEN ExactResult(exact)
        ELSE IF normalized # {} THEN ExactResult(normalized)
        ELSE IF plausible = {} THEN Match("unmatched", None, nearest)
        ELSE IF Cardinality(rivals) > 1 THEN Match("ambiguous", None, plausible)
        ELSE Match("matched", CHOOSE r \in rivals : TRUE, plausible)
  BY DEF MatchTerms
<1> HIDE DEF exact, normalized, plausible, rivals, nearest, m
<1>4. CASE exact # {}
  BY <1>1, <1>3, <1>4, ExactFacts DEF m
<1>5. CASE exact = {} /\ normalized # {}
  BY <1>1, <1>3, <1>5, ExactFacts DEF m
<1>6. CASE exact = {} /\ normalized = {}
  <2>1. plausible # {} => (CHOOSE r \in rivals : TRUE) \in S
    BY <1>1, <1>2
  <2> QED BY <1>1, <1>3, <1>6, <2>1 DEF m, Match
<1> QED BY <1>4, <1>5, <1>6

LEMMA RaceFacts ==
  ASSUME NEW c, c.source \in Sources
  PROVE  LET m == ClaimRace(c)
         IN  /\ m.candidates \subseteq Races
             /\ m.status \in {"matched", "ambiguous", "unmatched"}
             /\ m.status = "matched" => m.selected \in Races
<1>1. Eligible[c.source] \subseteq Races
  BY InventoryAssumption
<1>2. 82 \in Nat
  OBVIOUS
<1> QED BY <1>1, <1>2, MatchFacts DEF ClaimRace, MatchRace

LEMMA ChoiceFacts ==
  ASSUME NEW c, NEW race, race.status = "matched"
  PROVE  LET m == ClaimChoice(c, race)
         IN  /\ m = MatchCandidate(c.said.choice, race.selected)
             /\ m.candidates \subseteq ChoicesOf[race.selected]
             /\ m.status \in {"matched", "ambiguous", "unmatched"}
             /\ m.status = "matched" => m.selected \in ChoicesOf[race.selected]
<1>1. 86 \in Nat
  OBVIOUS
<1>2. ClaimChoice(c, race) = MatchCandidate(c.said.choice, race.selected)
  BY DEF ClaimChoice
<1>3. CASE c.said.choice = None
  BY <1>2, <1>3 DEF MatchCandidate, NoMatch, Match
<1>4. CASE c.said.choice # None
  BY <1>1, <1>2, <1>4, MatchFacts DEF MatchCandidate
<1> QED BY <1>3, <1>4

(***************************************************************************)
(* The review of what was collected (normalization/records.py, cli.py).    *)
(***************************************************************************)
ReasonOf(c) == Reason(c, ClaimRace(c), ClaimChoice(c, ClaimRace(c)), Classified(c.said.status))
ItemOf(c, at) == Item(c, ReasonOf(c), ClaimRace(c), ClaimChoice(c, ClaimRace(c)), at)
EndorsementOf(c) ==
  MachineEndorsement(c, ClaimRace(c), ClaimChoice(c, ClaimRace(c)), Classified(c.said.status))
DecisionStands(x) ==
  /\ x.at >= x.item.at
  /\ ((x.action = "reject" /\ x.resolution = None) \/ (x.action = "approve" /\ ApprovalHolds(x)))

QueueInv ==
  /\ DOMAIN queue = ReviewClaims
  /\ \A c \in ReviewClaims : queue[c] # None =>
        \E at \in Moments : at >= c.capture.at /\ queue[c] = ItemOf(c, at)
EndorsementsInv ==
  \A e \in endorsements : \E c \in ReviewClaims : ReasonOf(c) = "none" /\ e = EndorsementOf(c)
VerdictsInv ==
  \A i \in DOMAIN verdicts : i \in Queued /\ verdicts[i].item = i /\ DecisionStands(verdicts[i])
DecidersInv ==
  /\ DOMAIN task = Clerks
  /\ \A k \in Clerks : Doing(k, "decide") => task[k].item \in Queued
LocksInv ==
  /\ DOMAIN lock = Fields
  /\ \A k \in Clerks :
        /\ (Doing(k, "read") \/ Doing(k, "write"))
              => (task[k].field \in Fields /\ lock[task[k].field] = k)
        /\ Doing(k, "write") => Chain(task[k].read, task[k].field) = Chain(overrides, task[k].field)
ChainsInv ==
  /\ \A o \in overrides : o.at \in Moments
  /\ \A f \in Fields : Linear(Chain(overrides, f))
ReviewInv == QueueInv /\ EndorsementsInv /\ VerdictsInv /\ DecidersInv /\ LocksInv /\ ChainsInv

QueueGrows == \A c \in ReviewClaims : queue[c] # None => queue'[c] = queue[c]
VerdictsGrow == \A i \in DOMAIN verdicts : i \in DOMAIN verdicts' /\ verdicts'[i] = verdicts[i]

LEMMA ReviewInvInit == ReviewInit => ReviewInv
<1> SUFFICES ASSUME ReviewInit PROVE ReviewInv
  OBVIOUS
<1>1. \A k \in Clerks : \A s : ~Doing(k, s)
  BY DEF ReviewInit, Doing
<1>2. QueueInv /\ EndorsementsInv /\ VerdictsInv
  BY DEF ReviewInit, QueueInv, EndorsementsInv, VerdictsInv
<1>3. DecidersInv /\ LocksInv
  BY <1>1 DEF ReviewInit, DecidersInv, LocksInv
<1>4. ChainsInv
  BY DEF ReviewInit, ChainsInv, Linear, Chain
<1> QED BY <1>2, <1>3, <1>4 DEF ReviewInv

\* A record put into a free slot replaces none.
LEMMA QueueStep ==
  ASSUME ReviewInv, MatchToReview
  PROVE  QueueInv' /\ QueueGrows /\ UNCHANGED <<endorsements, verdicts, overrides, lock, task>>
<1>1. PICK c \in ReviewClaims, at \in Moments :
         /\ at >= c.capture.at
         /\ SlotFree({queue[c]} \ {None}, ItemOf(c, at))
         /\ queue' = [queue EXCEPT ![c] = ItemOf(c, at)]
         /\ UNCHANGED <<endorsements, verdicts, overrides, lock, task>>
  <2>1. PICK c \in ReviewClaims : \E item \in {ItemOf(c, at) : at \in Moments} :
           /\ item.at >= c.capture.at
           /\ SlotFree({queue[c]} \ {None}, item)
           /\ queue' = [queue EXCEPT ![c] = item]
    BY DEF MatchToReview, ItemOf, ReasonOf
  <2>2. PICK at \in Moments : 
           /\ ItemOf(c, at).at >= c.capture.at
           /\ SlotFree({queue[c]} \ {None}, ItemOf(c, at))
           /\ queue' = [queue EXCEPT ![c] = ItemOf(c, at)]
    BY <2>1
  <2>3. ItemOf(c, at).at = at
    BY DEF ItemOf, Item
  <2> QED BY <2>2, <2>3 DEF MatchToReview
<1>2. DOMAIN queue = ReviewClaims
  BY DEF ReviewInv, QueueInv
<1>3. queue'[c] = ItemOf(c, at) /\ \A b \in ReviewClaims : b # c => queue'[b] = queue[b]
  BY <1>1, <1>2
<1>4. QueueInv'
  <2>1. DOMAIN queue' = ReviewClaims
    BY <1>1, <1>2
  <2>2. \A b \in ReviewClaims : queue'[b] # None =>
          \E t \in Moments : t >= b.capture.at /\ queue'[b] = ItemOf(b, t)
    <3> SUFFICES ASSUME NEW b \in ReviewClaims, queue'[b] # None
                 PROVE  \E t \in Moments : t >= b.capture.at /\ queue'[b] = ItemOf(b, t)
      OBVIOUS
    <3>1. CASE b = c
      BY <1>1, <1>3, <3>1
    <3>2. CASE b # c
      BY <1>3, <3>2 DEF ReviewInv, QueueInv
    <3> QED BY <3>1, <3>2
  <2> QED BY <2>1, <2>2 DEF QueueInv
<1>5. QueueGrows
  BY <1>1, <1>3 DEF QueueGrows, SlotFree
<1> QED BY <1>1, <1>4, <1>5

LEMMA QueuedStays ==
  ASSUME QueueInv, QueueInv', QueueGrows
  PROVE  Queued \subseteq Queued'
BY DEF QueueGrows, Queued

LEMMA EndorsementsStep ==
  ASSUME ReviewInv, MatchToEndorsement
  PROVE  /\ EndorsementsInv' /\ endorsements \subseteq endorsements'
         /\ UNCHANGED <<queue, verdicts, overrides, lock, task>>
<1>1. PICK c \in ReviewClaims :
         ReasonOf(c) = "none" /\ endorsements' = endorsements \cup {EndorsementOf(c)}
  BY DEF MatchToEndorsement, ReasonOf, EndorsementOf
<1> QED BY <1>1 DEF MatchToEndorsement, ReviewInv, EndorsementsInv

LEMMA VerdictsStep ==
  ASSUME ReviewInv, NEW k \in Clerks, NEW x, Doing(k, "decide"),
         x.item = task[k].item, Rule(k, x),
         (x.action = "reject" /\ x.resolution = None) \/ (x.action = "approve" /\ ApprovalHolds(x))
  PROVE  /\ VerdictsInv' /\ VerdictsGrow
         /\ Leaves(k) /\ UNCHANGED <<queue, endorsements, overrides, lock>>
<1>1. /\ x.at >= x.item.at /\ Leaves(k) /\ UNCHANGED <<queue, endorsements, overrides, lock>>
      /\ \/ SlotFree(Held(x.item), x) /\ verdicts' = WithEntry(verdicts, x.item, x)
         \/ UNCHANGED verdicts
  BY DEF Rule
<1>2. x.item \in Queued
  BY DEF ReviewInv, DecidersInv
<1>3. DecisionStands(x)
  BY <1>1 DEF DecisionStands
<1>4. Queued' = Queued
  BY <1>1 DEF Queued
<1>5. CASE UNCHANGED verdicts
  BY <1>1, <1>4, <1>5 DEF ReviewInv, VerdictsInv, VerdictsGrow
<1>6. CASE SlotFree(Held(x.item), x) /\ verdicts' = WithEntry(verdicts, x.item, x)
  <2>1. /\ DOMAIN verdicts' = {x.item} \cup DOMAIN verdicts
        /\ verdicts'[x.item] = x
        /\ \A i \in DOMAIN verdicts : i # x.item => verdicts'[i] = verdicts[i]
    <3> DEFINE i == x.item
               G == WithEntry(verdicts, i, x)
    <3>1. DOMAIN G = {i} \cup DOMAIN verdicts /\ G[i] = x
          /\ \A j \in DOMAIN verdicts : j # i => G[j] = verdicts[j]
      BY DEF WithEntry
    <3> QED BY <1>6, <3>1
  <2>2. x.item \in DOMAIN verdicts => verdicts[x.item] = x
    BY <1>6 DEF SlotFree, Held
  <2>3. VerdictsGrow
    BY <2>1, <2>2 DEF VerdictsGrow
  <2>4. VerdictsInv'
    <3> SUFFICES ASSUME NEW i \in DOMAIN verdicts'
                 PROVE  i \in Queued' /\ verdicts'[i].item = i /\ DecisionStands(verdicts'[i])
      BY DEF VerdictsInv
    <3>1. CASE i = x.item
      BY <1>2, <1>3, <1>4, <2>1, <3>1
    <3>2. CASE i # x.item
      BY <1>4, <2>1, <3>2 DEF ReviewInv, VerdictsInv
    <3> QED BY <3>1, <3>2
  <2> QED BY <1>1, <2>3, <2>4
<1> QED BY <1>1, <1>5, <1>6

\* The processes that do something else keep what they know, and the one that works may forget.
LEMMA OthersKeep ==
  ASSUME ReviewInv, NEW k \in Clerks, Leaves(k)
  PROVE  /\ DOMAIN task' = Clerks
         /\ \A j \in Clerks : \A s : Doing(j, s)' => j # k /\ task'[j] = task[j] /\ Doing(j, s)
<1>1. DOMAIN task = Clerks
  BY DEF ReviewInv, DecidersInv
<1>2. task' = [task EXCEPT ![k] = NoTask]
  BY DEF Leaves
<1>3. DOMAIN task' = Clerks /\ task'[k] = NoTask /\ \A j \in Clerks : j # k => task'[j] = task[j]
  BY <1>1, <1>2
<1> QED BY <1>3 DEF Doing

LEMMA Begun ==
  ASSUME ReviewInv, NEW k \in Clerks, NEW t, task' = [task EXCEPT ![k] = t]
  PROVE  /\ DOMAIN task' = Clerks /\ task'[k] = t
         /\ \A j \in Clerks \ {k} : task'[j] = task[j] /\ \A s : Doing(j, s)' <=> Doing(j, s)
<1>1. DOMAIN task = Clerks
  BY DEF ReviewInv, DecidersInv
<1>3. DOMAIN task' = Clerks /\ task'[k] = t /\ \A j \in Clerks : j # k => task'[j] = task[j]
  BY <1>1
<1> QED BY <1>3 DEF Doing

ReviewStep == ReviewInv' /\ QueueGrows /\ VerdictsGrow /\ endorsements \subseteq endorsements'
                /\ overrides \subseteq overrides'

\* Where the records stand still, only the processes and their locks are at stake.
LEMMA RecordsStand ==
  ASSUME ReviewInv, UNCHANGED <<queue, endorsements, verdicts, overrides>>,
         DecidersInv', LocksInv'
  PROVE  ReviewStep
<1>1. Queued' = Queued
  BY DEF Queued
<1>2. QueueInv' /\ EndorsementsInv' /\ VerdictsInv'
  BY <1>1 DEF ReviewInv, QueueInv, EndorsementsInv, VerdictsInv
<1>3. ChainsInv'
  BY DEF ReviewInv, ChainsInv
<1>4. QueueGrows /\ VerdictsGrow
  BY DEF QueueGrows, VerdictsGrow
<1> QED BY <1>2, <1>3, <1>4 DEF ReviewInv, ReviewStep

LEMMA MatchSteps ==
  ASSUME ReviewInv, MatchToReview \/ MatchToEndorsement
  PROVE  ReviewStep
<1>1. CASE MatchToReview
  <2>1. QueueInv' /\ QueueGrows /\ UNCHANGED <<endorsements, verdicts, overrides, lock, task>>
    BY <1>1, QueueStep
  <2>2. Queued \subseteq Queued'
    BY <2>1, QueuedStays DEF ReviewInv
  <2>3. EndorsementsInv' /\ VerdictsInv' /\ VerdictsGrow
    BY <2>1, <2>2 DEF ReviewInv, EndorsementsInv, VerdictsInv, VerdictsGrow
  <2>4. \A k \in Clerks : \A s : Doing(k, s)' <=> Doing(k, s)
    BY <2>1 DEF Doing
  <2>5. DecidersInv' /\ LocksInv' /\ ChainsInv'
    BY <2>1, <2>2, <2>4 DEF ReviewInv, DecidersInv, LocksInv, ChainsInv
  <2> QED BY <2>1, <2>3, <2>5 DEF ReviewInv, ReviewStep
<1>2. CASE MatchToEndorsement
  <2>1. /\ EndorsementsInv' /\ endorsements \subseteq endorsements'
        /\ UNCHANGED <<queue, verdicts, overrides, lock, task>>
    BY <1>2, EndorsementsStep
  <2>2. Queued' = Queued
    BY <2>1 DEF Queued
  <2>3. QueueInv' /\ VerdictsInv' /\ VerdictsGrow /\ QueueGrows
    BY <2>1, <2>2 DEF ReviewInv, QueueInv, VerdictsInv, VerdictsGrow, QueueGrows
  <2>4. \A k \in Clerks : \A s : Doing(k, s)' <=> Doing(k, s)
    BY <2>1 DEF Doing
  <2>5. DecidersInv' /\ LocksInv' /\ ChainsInv'
    BY <2>1, <2>2, <2>4 DEF ReviewInv, DecidersInv, LocksInv, ChainsInv
  <2> QED BY <2>1, <2>3, <2>5 DEF ReviewInv, ReviewStep
<1> QED BY <1>1, <1>2

LEMMA RulingSteps ==
  ASSUME ReviewInv, NEW k \in Clerks, Approve(k) \/ Reject(k)
  PROVE  ReviewStep
<1>1. PICK x : /\ Doing(k, "decide") /\ x.item = task[k].item /\ Rule(k, x)
               /\ ((x.action = "reject" /\ x.resolution = None) \/ (x.action = "approve" /\ ApprovalHolds(x)))
  BY DEF Approve, Reject, Decision
<1>2. /\ VerdictsInv' /\ VerdictsGrow
      /\ Leaves(k) /\ UNCHANGED <<queue, endorsements, overrides, lock>>
  BY <1>1, VerdictsStep
<1>3. /\ DOMAIN task' = Clerks
      /\ \A j \in Clerks : \A s : Doing(j, s)' => j # k /\ task'[j] = task[j] /\ Doing(j, s)
  BY <1>2, OthersKeep
<1>4. Queued' = Queued
  BY <1>2 DEF Queued
<1>5. QueueInv' /\ EndorsementsInv' /\ ChainsInv' /\ QueueGrows
  BY <1>2, <1>4 DEF ReviewInv, QueueInv, EndorsementsInv, ChainsInv, QueueGrows
<1>6. DecidersInv'
  BY <1>3, <1>4 DEF ReviewInv, DecidersInv
<1>7. LocksInv'
  BY <1>2, <1>3 DEF ReviewInv, LocksInv
<1> QED BY <1>2, <1>5, <1>6, <1>7 DEF ReviewInv, ReviewStep

LEMMA ReadingSteps ==
  ASSUME ReviewInv, NEW k \in Clerks, ReadItem(k) \/ LockField(k) \/ ReadChain(k) \/ GivesUp(k)
  PROVE  ReviewStep
<1>1. UNCHANGED <<queue, endorsements, verdicts, overrides>>
  BY DEF ReadItem, LockField, ReadChain, GivesUp
<1>2. Queued' = Queued
  BY <1>1 DEF Queued
<1>3. DecidersInv' /\ LocksInv'
  <2>1. CASE ReadItem(k)
    <3>1. PICK item \in Queued : task' = [task EXCEPT ![k] = [step |-> "decide", item |-> item]]
      BY <2>1 DEF ReadItem, Starts
    <3>2. /\ DOMAIN task' = Clerks /\ task'[k].step = "decide" /\ task'[k].item \in Queued
          /\ \A j \in Clerks \ {k} : task'[j] = task[j] /\ \A s : Doing(j, s)' <=> Doing(j, s)
      BY <3>1, Begun
    <3>3. lock' = lock
      BY <2>1 DEF ReadItem
    <3>4. DecidersInv'
      BY <1>2, <3>2 DEF ReviewInv, DecidersInv
    <3>5. LocksInv'
      <4>1. ~Doing(k, "read")' /\ ~Doing(k, "write")'
        BY <3>2 DEF Doing
      <4> QED BY <1>1, <3>2, <3>3, <4>1 DEF ReviewInv, LocksInv
    <3> QED BY <3>4, <3>5
  <2>2. CASE LockField(k)
    <3>1. PICK f \in Fields : /\ Unlocked(f) /\ lock' = [lock EXCEPT ![f] = k]
                              /\ task' = [task EXCEPT ![k] = [step |-> "read", field |-> f]]
      BY <2>2 DEF LockField, Starts
    <3>2. /\ DOMAIN task' = Clerks /\ task'[k].step = "read" /\ task'[k].field = f
          /\ \A j \in Clerks \ {k} : task'[j] = task[j] /\ \A s : Doing(j, s)' <=> Doing(j, s)
      BY <3>1, Begun
    <3>3. DOMAIN lock = Fields
      BY DEF ReviewInv, LocksInv
    <3>4. lock[f] = None /\ lock'[f] = k /\ DOMAIN lock' = Fields /\ \A g \in Fields : g # f => lock'[g] = lock[g]
      BY <3>1, <3>3 DEF Unlocked
    <3>5. DecidersInv'
      <4>1. ~Doing(k, "decide")'
        BY <3>2 DEF Doing
      <4> QED BY <1>2, <3>2, <4>1 DEF ReviewInv, DecidersInv
    <3>6. LocksInv'
      <4>1. ~Doing(k, "write")'
        BY <3>2 DEF Doing
      <4>2. \A j \in Clerks \ {k} :
               /\ (Doing(j, "read") \/ Doing(j, "write"))' => task'[j].field \in Fields /\ lock'[task'[j].field] = j
               /\ Doing(j, "write")' => Chain(task'[j].read, task'[j].field) = Chain(overrides', task'[j].field)
        BY <1>1, <3>2, <3>4, ClaimsAssumption DEF ReviewInv, LocksInv
      <4> QED BY <3>2, <3>4, <4>1, <4>2 DEF LocksInv
    <3> QED BY <3>5, <3>6
  <2>3. CASE ReadChain(k)
    <3>1. /\ Doing(k, "read") /\ lock' = lock
          /\ task' = [task EXCEPT ![k] = [step |-> "write", field |-> task[k].field, read |-> overrides]]
      BY <2>3 DEF ReadChain
    <3>2. /\ DOMAIN task' = Clerks /\ task'[k].step = "write" /\ task'[k].field = task[k].field
          /\ task'[k].read = overrides
          /\ \A j \in Clerks \ {k} : task'[j] = task[j] /\ \A s : Doing(j, s)' <=> Doing(j, s)
      BY <3>1, Begun
    <3>3. DecidersInv'
      <4>1. ~Doing(k, "decide")'
        BY <3>2 DEF Doing
      <4> QED BY <1>2, <3>2, <4>1 DEF ReviewInv, DecidersInv
    <3>4. LocksInv'
      <4>1. task'[k].field \in Fields /\ lock'[task'[k].field] = k
            /\ Chain(task'[k].read, task'[k].field) = Chain(overrides', task'[k].field)
        BY <1>1, <3>1, <3>2 DEF ReviewInv, LocksInv
      <4>2. \A j \in Clerks \ {k} :
               /\ (Doing(j, "read") \/ Doing(j, "write"))' => task'[j].field \in Fields /\ lock'[task'[j].field] = j
               /\ Doing(j, "write")' => Chain(task'[j].read, task'[j].field) = Chain(overrides', task'[j].field)
        BY <1>1, <3>1, <3>2 DEF ReviewInv, LocksInv
      <4> QED BY <3>1, <4>1, <4>2 DEF ReviewInv, LocksInv
    <3> QED BY <3>3, <3>4
  <2>4. CASE GivesUp(k)
    <3>1. Leaves(k) /\ Unlock(k)
      BY <2>4 DEF GivesUp
    <3>2. /\ DOMAIN task' = Clerks
          /\ \A j \in Clerks : \A s : Doing(j, s)' => j # k /\ task'[j] = task[j] /\ Doing(j, s)
      BY <3>1, OthersKeep
    <3>3. /\ DOMAIN lock' = Fields
          /\ \A f \in Fields : lock[f] # k => lock'[f] = lock[f]
      BY <3>1 DEF Unlock
    <3>4. DecidersInv'
      BY <1>2, <3>2 DEF ReviewInv, DecidersInv
    <3>5. LocksInv'
      BY <1>1, <3>2, <3>3 DEF ReviewInv, LocksInv
    <3> QED BY <3>4, <3>5
  <2> QED BY <2>1, <2>2, <2>3, <2>4
<1> QED BY <1>1, <1>3, RecordsStand

\* An override later than those of its field comes last.
LEMMA ChainExtends ==
  ASSUME NEW chain, NEW n, \A o \in chain : o.at \in Nat, n.at \in Nat,
         Linear(chain), Earlier(chain, n.at) = chain, n.old = CurrentValue(chain)
  PROVE  Linear(chain \cup {n})
<1> DEFINE longer == chain \cup {n}
<1>1. \A o \in chain : o.at < n.at
  BY DEF Earlier
<1>2. \A o \in chain : Earlier(longer, o.at) = Earlier(chain, o.at)
  BY <1>1 DEF Earlier
<1>3. Earlier(longer, n.at) = chain
  BY <1>1 DEF Earlier
<1>4. \A o \in chain : o.old = CurrentValue(Earlier(longer, o.at))
  BY <1>2 DEF Linear
<1>5. \A o \in longer : \A p \in longer \ {o} : p.at # o.at
  BY <1>1 DEF Linear
<1>6. n.old = CurrentValue(Earlier(longer, n.at))
  BY <1>3
<1> QED BY <1>4, <1>5, <1>6 DEF Linear

LEMMA WriteStep ==
  ASSUME ReviewInv, NEW k \in Clerks, WriteOverride(k)
  PROVE  ReviewStep
<1> DEFINE f == task[k].field
           chain == Chain(overrides, f)
<1>1. /\ Doing(k, "write") /\ Unlock(k) /\ Leaves(k) /\ UNCHANGED <<queue, endorsements, verdicts>>
  BY DEF WriteOverride
<1>2. f \in Fields /\ lock[f] = k /\ Chain(task[k].read, f) = chain
  BY <1>1 DEF ReviewInv, LocksInv
<1>3. PICK n : /\ n.field = f /\ n.old = CurrentValue(chain) /\ n.at \in Moments
               /\ Earlier(chain, n.at) = chain /\ Linear(chain)
               /\ overrides' = overrides \cup {n}
  BY <1>2 DEF WriteOverride
<1>4. /\ DOMAIN task' = Clerks
      /\ \A j \in Clerks : \A s : Doing(j, s)' => j # k /\ task'[j] = task[j] /\ Doing(j, s)
  BY <1>1, OthersKeep
<1>5. /\ DOMAIN lock' = Fields
      /\ \A g \in Fields : lock[g] # k => lock'[g] = lock[g]
  BY <1>1 DEF Unlock
<1>6. Chain(overrides', f) = chain \cup {n} /\ \A g : g # f => Chain(overrides', g) = Chain(overrides, g)
  BY <1>3 DEF Chain
<1>7. ChainsInv'
  <2>1. \A o \in overrides' : o.at \in Moments
    BY <1>3 DEF ReviewInv, ChainsInv
  <2>2. Linear(Chain(overrides', f))
    <3>1. (\A o \in chain : o.at \in Nat) /\ n.at \in Nat
      BY <1>3, ClaimsAssumption DEF ReviewInv, ChainsInv, Chain
    <3>2. PICK C : C = chain
      OBVIOUS
    <3>3. /\ \A o \in C : o.at \in Nat
          /\ Linear(C) /\ Earlier(C, n.at) = C /\ n.old = CurrentValue(C)
      BY <1>3, <3>1, <3>2
    <3>4. Linear(C \cup {n})
      BY <3>1, <3>3, ChainExtends
    <3> QED BY <1>6, <3>2, <3>4
  <2>3. \A g \in Fields : Linear(Chain(overrides', g))
    BY <1>6, <2>2 DEF ReviewInv, ChainsInv
  <2> QED BY <2>1, <2>3 DEF ChainsInv
<1>8. Queued' = Queued
  BY <1>1 DEF Queued
<1>9. QueueInv' /\ EndorsementsInv' /\ VerdictsInv' /\ QueueGrows /\ VerdictsGrow
  BY <1>1, <1>8 DEF ReviewInv, QueueInv, EndorsementsInv, VerdictsInv, QueueGrows, VerdictsGrow
<1>10. DecidersInv'
  BY <1>4, <1>8 DEF ReviewInv, DecidersInv
<1>11. LocksInv'
  <2> SUFFICES ASSUME NEW j \in Clerks, (Doing(j, "read") \/ Doing(j, "write"))'
               PROVE  /\ task'[j].field \in Fields /\ lock'[task'[j].field] = j
                      /\ Doing(j, "write")' =>
                            Chain(task'[j].read, task'[j].field) = Chain(overrides', task'[j].field)
    BY <1>5 DEF LocksInv
  <2>1. j # k /\ task'[j] = task[j] /\ (Doing(j, "read") \/ Doing(j, "write"))
        /\ (Doing(j, "write")' => Doing(j, "write"))
    BY <1>4
  <2>2. task[j].field \in Fields /\ lock[task[j].field] = j
    BY <2>1 DEF ReviewInv, LocksInv
  <2>3. task[j].field # f
    BY <1>2, <2>1, <2>2
  <2>4. Doing(j, "write") => Chain(task[j].read, task[j].field) = Chain(overrides, task[j].field)
    BY DEF ReviewInv, LocksInv
  <2> QED BY <1>5, <1>6, <2>1, <2>2, <2>3, <2>4
<1> QED BY <1>1, <1>3, <1>7, <1>9, <1>10, <1>11 DEF ReviewInv, ReviewStep

LEMMA ReviewInvStep == ReviewInv /\ [ReviewNext]_reviewVars => ReviewStep
<1> SUFFICES ASSUME ReviewInv, [ReviewNext]_reviewVars PROVE ReviewStep
  OBVIOUS
<1>1. CASE UNCHANGED reviewVars
  <2>1. UNCHANGED <<queue, endorsements, verdicts, overrides, lock, task>>
    BY <1>1 DEF reviewVars
  <2>2. Queued' = Queued /\ \A k, s : Doing(k, s)' <=> Doing(k, s)
    BY <2>1 DEF Queued, Doing
  <2>3. DecidersInv' /\ LocksInv'
    BY <2>1, <2>2 DEF ReviewInv, DecidersInv, LocksInv
  <2> QED BY <2>1, <2>3, RecordsStand
<1>2. CASE ReviewNext
  BY <1>2, MatchSteps, RulingSteps, ReadingSteps, WriteStep DEF ReviewNext
<1> QED BY <1>1, <1>2

(***************************************************************************)
(* The inductive invariant of the review commands (normalization/records.py *)
(* and cli.py): an item, an endorsement and a decision are what the command  *)
(* that wrote them makes of their claim; a process that decides read an item *)
(* that is there; and one that is about to write an override holds the lock  *)
(* of its field, whose chain is still the one it read.                       *)
(***************************************************************************)
THEOREM ReviewInvariant == ReviewSpec => []ReviewInv
<1>1. ReviewInv /\ [ReviewNext]_reviewVars => ReviewInv'
  BY ReviewInvStep DEF ReviewStep
<1> QED BY <1>1, ReviewInvInit, PTL DEF ReviewSpec

\* No command replaces what another one queued, decided, endorsed or overrode
\* (write_immutable_record, _record_review_decision, review_override).
THEOREM AuditRecordsStand == ReviewSpec => AuditOnlyGrows
<1>1. ReviewInv /\ [ReviewNext]_reviewVars =>
        [/\ \A c \in ReviewClaims : queue[c] # None => queue'[c] = queue[c]
         /\ \A i \in DOMAIN verdicts : i \in DOMAIN verdicts' /\ verdicts'[i] = verdicts[i]
         /\ endorsements \subseteq endorsements' /\ overrides \subseteq overrides']_reviewVars
  BY ReviewInvStep DEF ReviewStep, QueueGrows, VerdictsGrow
<1> QED BY <1>1, ReviewInvariant, PTL DEF ReviewSpec, AuditOnlyGrows

LEMMA NothingSaid == 
  ASSUME NEW d, NEW race, d.choices = {}, 
         d.status \notin {"endorsed", "dual_endorsement", "multiple_endorsement"}
  PROVE  VerdictHolds(d, race)
BY FS_EmptySet DEF VerdictHolds

LEMMA OneEndorsed == 
  ASSUME NEW d, NEW race, NEW c \in ChoicesOf[race], d.choices = {c}, d.status = "endorsed"
  PROVE  VerdictHolds(d, race)
BY FS_Singleton DEF VerdictHolds

LEMMA ReasonFacts ==
  ASSUME NEW c, c.source \in Sources, ReasonOf(c) = "none"
  PROVE  LET race == ClaimRace(c)
             choice == ClaimChoice(c, race)
             status == Classified(c.said.status)
         IN  /\ race.status = "matched" /\ race.selected \in Eligible[c.source] /\ ~c.requires
             /\ status \notin {None, "ambiguous", "unverified", "dual_endorsement", "multiple_endorsement"}
             /\ status # "endorsed" => c.said.choice = None
             /\ status = "endorsed" => choice.status = "matched"
<1>1. ClaimRace(c).status \in {"matched", "ambiguous", "unmatched"}
  BY RaceFacts
<1> QED BY <1>1 DEF ReasonOf, Reason

\* The words that a status is said in.
LEMMA StatusWords ==
  /\ DOMAIN Statuses = {"endorsed", "dual_endorsement", "multiple_endorsement", "no_endorsement",
        "declined_to_endorse", "not_covered", "not_published", "source_unavailable", "unverified", "ambiguous"}
  /\ Statuses["endorsed"] = {"endorse", "endorsed", "endorsement"}
  /\ Statuses["dual_endorsement"] = {"dual endorsement", "co endorsement"}
  /\ Statuses["multiple_endorsement"] = {"multiple endorsement"}
  /\ Statuses["no_endorsement"] = {"no endorsement"}
  /\ Statuses["declined_to_endorse"] = {"declined to endorse"}
  /\ Statuses["not_covered"] = {"not covered"}
  /\ Statuses["not_published"] = {"not published"}
  /\ Statuses["source_unavailable"] = {"source unavailable"}
  /\ Statuses["unverified"] = {"unverified"}
  /\ Statuses["ambiguous"] = {"ambiguous"}
BY DEF Statuses

\* What a text means, if anything: no text is two statuses' word.
Meaning(t) ==
  CASE t \in {"endorse", "endorsed", "endorsement"} -> "endorsed"
    [] t \in {"dual endorsement", "co endorsement"} -> "dual_endorsement"
    [] t = "multiple endorsement" -> "multiple_endorsement"
    [] t = "no endorsement" -> "no_endorsement"
    [] t = "declined to endorse" -> "declined_to_endorse"
    [] t = "not covered" -> "not_covered"
    [] t = "not published" -> "not_published"
    [] t = "source unavailable" -> "source_unavailable"
    [] OTHER -> t
LEMMA OneMeaning ==
  ASSUME NEW s \in DOMAIN Statuses, NEW t \in Statuses[s]
  PROVE  Classified(t) = s
<1> DEFINE Means(q) == \A u \in Statuses[q] : Meaning(u) = q
<1>1. Means("endorsed")
  BY StatusWords DEF Meaning
<1>2. Means("dual_endorsement")
  BY StatusWords DEF Meaning
<1>3. Means("multiple_endorsement")
  BY StatusWords DEF Meaning
<1>4. Means("no_endorsement")
  BY StatusWords DEF Meaning
<1>5. Means("declined_to_endorse")
  BY StatusWords DEF Meaning
<1>6. Means("not_covered")
  BY StatusWords DEF Meaning
<1>7. Means("not_published")
  BY StatusWords DEF Meaning
<1>8. Means("source_unavailable")
  BY StatusWords DEF Meaning
<1>9. Means("unverified")
  BY StatusWords DEF Meaning
<1>10. Means("ambiguous")
  BY StatusWords DEF Meaning
<1> HIDE DEF Means
<1>11. \A q \in DOMAIN Statuses : Means(q)
  BY <1>1, <1>2, <1>3, <1>4, <1>5, <1>6, <1>7, <1>8, <1>9, <1>10, StatusWords
<1>12. \A q \in DOMAIN Statuses : t \in Statuses[q] => q = s
  BY <1>11 DEF Means
<1>13. Understood(t) = {s}
  BY <1>12 DEF Understood
<1> QED BY <1>13 DEF Classified

LEMMA UnavailableSaid == Classified("source unavailable") = "source_unavailable"
<1>1. "source_unavailable" \in DOMAIN Statuses /\ "source unavailable" \in Statuses["source_unavailable"]
  BY StatusWords
<1> QED BY <1>1, OneMeaning

\* What the machine makes of a claim passes, whatever else the dataset holds.
LEMMA MachineHolds ==
  ASSUME NEW c \in ReviewClaims, ReasonOf(c) = "none",
         NEW d, c \in Range(d.claims), c.capture \in Range(d.captures)
  PROVE  EndorsementHolds(EndorsementOf(c), d)
<1> DEFINE race == ClaimRace(c)
           choice == ClaimChoice(c, race)
           status == Classified(c.said.status)
           e == EndorsementOf(c)
<1>1. /\ c.source \in Sources /\ c.capture.source = c.source /\ ClaimFitsCapture(c)
      /\ c.capture.published <= ElectionDate
      /\ c.capture.available => status # "source_unavailable"
  BY ClaimsAssumption
<1>2. /\ race.status = "matched" /\ race.selected \in Eligible[c.source] /\ ~c.requires
      /\ status \notin {None, "ambiguous", "unverified", "dual_endorsement", "multiple_endorsement"}
      /\ status # "endorsed" => c.said.choice = None
      /\ status = "endorsed" => choice.status = "matched"
  BY <1>1, ReasonFacts
<1>3. /\ choice = MatchCandidate(c.said.choice, race.selected)
      /\ choice.status = "matched" => choice.selected \in ChoicesOf[race.selected]
  BY <1>2, ChoiceFacts
<1>4. /\ e.race = race.selected /\ e.status = status
      /\ e.choices = IF status = "endorsed" THEN {choice.selected} ELSE {}
      /\ e.source = c.source /\ e.published = c.capture.published /\ e.capture = c.capture
      /\ e.claim = c /\ e.reviewed = Never /\ e.item = None
  BY DEF EndorsementOf, MachineEndorsement, Endorsement, Resolution
<1>5. ~c.capture.available => status = "source_unavailable"
  <2> SUFFICES ASSUME ~c.capture.available PROVE status = "source_unavailable"
    OBVIOUS
  <2>1. c.said = Said(c.said.race, None, "source unavailable", None)
    BY <1>1 DEF ClaimFitsCapture
  <2>2. c.said.status = "source unavailable"
    <3> DEFINE said == Said(c.said.race, None, "source unavailable", None)
    <3>1. said.status = "source unavailable"
      BY DEF Said
    <3> HIDE DEF said
    <3> QED BY <2>1, <3>1 DEF said
  <2> QED BY <2>2, UnavailableSaid
<1> HIDE DEF race, choice, status, e
<1>6. VerdictHolds(e, e.race)
  <2>1. CASE status = "endorsed"
    BY <1>2, <1>3, <1>4, <2>1, OneEndorsed
  <2>2. CASE status # "endorsed"
    BY <1>2, <1>4, <2>2, NothingSaid
  <2> QED BY <2>1, <2>2
<1>7. FollowsFromClaim(e)
  BY <1>2, <1>3, <1>4 DEF FollowsFromClaim, status
<1>8. ~ReviewRequired(e.status)
  BY <1>2, <1>4 DEF ReviewRequired
<1>9. /\ e.source \in Sources /\ e.race \in Eligible[e.source]
      /\ e.claim \in Range(d.claims) /\ e.capture \in Range(d.captures)
      /\ e.claim.source = e.source /\ e.claim.capture = e.capture
      /\ e.status = "source_unavailable" <=> ~e.capture.available
      /\ e.published = e.capture.published /\ e.published <= ElectionDate
  BY <1>1, <1>2, <1>4, <1>5
<1> QED BY <1>4, <1>6, <1>7, <1>8, <1>9 DEF EndorsementHolds, e

LEMMA ItemFields ==
  ASSUME NEW c, NEW reason, NEW race, NEW choice, NEW at
  PROVE  LET i == Item(c, reason, race, choice, at)
         IN  /\ i.claim = c /\ i.race = race /\ i.capture = c.capture /\ i.said = c.said /\ i.at = at
             /\ i.choice = IF reason \in {"candidate_ambiguous", "candidate_unmatched"} THEN choice ELSE None
BY DEF Item

\* So does what it puts before a person.
LEMMA ReviewItemHolds ==
  ASSUME NEW c \in ReviewClaims, NEW at \in Moments, at >= c.capture.at,
         NEW d, c \in Range(d.claims)
  PROVE  ItemHolds(ItemOf(c, at), d)
<1> DEFINE race == ClaimRace(c)
           choice == ClaimChoice(c, race)
           i == ItemOf(c, at)
<1>1. /\ i.claim = c /\ i.race = race /\ i.capture = c.capture /\ i.said = c.said /\ i.at = at
      /\ i.choice = IF ReasonOf(c) \in {"candidate_ambiguous", "candidate_unmatched"} THEN choice ELSE None
  BY ItemFields DEF ItemOf
<1>2. /\ race.candidates \subseteq Races /\ race.status \in {"matched", "ambiguous", "unmatched"}
      /\ race.status = "matched" => race.selected \in Races
  BY RaceFacts, ClaimsAssumption
<1>3. ReasonOf(c) \in {"candidate_ambiguous", "candidate_unmatched"} => race.status = "matched"
  BY <1>2 DEF ReasonOf, Reason
<1>4. race.status = "matched" => choice.candidates \subseteq ChoicesOf[race.selected]
  BY ChoiceFacts
<1>5. i.choice # None =>
         i.race.selected # None /\ i.choice.candidates \subseteq ChoicesOf[i.race.selected]
  BY <1>1, <1>2, <1>3, <1>4, InventoryAssumption
<1> HIDE DEF race, choice, i
<1> QED BY <1>1, <1>2, <1>5 DEF ItemHolds, i

\* An approval was made over a dataset of its own item, and asks nothing more of another.
LEMMA RulingHolds ==
  ASSUME NEW x, DecisionStands(x), NEW d, x.item \in Range(d.items)
  PROVE  DecisionHolds(x, d)
<1>1. CASE x.action = "reject" /\ x.resolution = None
  BY <1>1 DEF DecisionStands, DecisionHolds
<1>2. CASE x.action = "approve" /\ ApprovalHolds(x)
  <2> DEFINE c == x.item.claim
             own == Dataset(<<c.capture>>, <<c>>, << >>, <<x.item>>, <<x>>)
  <2>1. DatasetHolds(own)
    BY <1>2 DEF ApprovalHolds
  <2>2. x \in Range(own.decisions)
    BY DEF Dataset, Range
  <2>3. DecisionHolds(x, own)
    BY <2>1, <2>2 DEF DatasetHolds
  <2> HIDE DEF own
  <2> QED BY <2>3 DEF DecisionHolds
<1> QED BY <1>1, <1>2 DEF DecisionStands

\* Listing a set whose members differ in f lists f without repeating it.
LEMMA ListedBy ==
  ASSUME NEW S, IsFiniteSet(S), NEW f, \A x, y \in S : f[x] = f[y] => x = y
  PROVE  IsInjective([i \in DOMAIN SetToSeq(S) |-> f[SetToSeq(S)[i]]])
<1> DEFINE q == SetToSeq(S)
<1>1. q \in [1..Cardinality(S) -> S] /\ DOMAIN q = 1..Cardinality(S) /\ IsInjective(q)
  BY ListedSet
<1> HIDE DEF q
<1>2. \A i \in DOMAIN q : q[i] \in S
  BY <1>1
<1>3. \A i, j \in DOMAIN q : f[q[i]] = f[q[j]] => i = j
  <2> SUFFICES ASSUME NEW i \in DOMAIN q, NEW j \in DOMAIN q, f[q[i]] = f[q[j]] PROVE i = j
    OBVIOUS
  <2>1. q[i] = q[j]
    BY <1>2
  <2> QED BY <1>1, <2>1 DEF IsInjective
<1> QED BY <1>3 DEF IsInjective, q

LEMMA RecordsFinite ==
  ASSUME ReviewInv
  PROVE  /\ IsFiniteSet({c.capture : c \in ReviewClaims}) /\ IsFiniteSet(endorsements)
         /\ IsFiniteSet(Queued) /\ IsFiniteSet({verdicts[i] : i \in DOMAIN verdicts})
<1>1. IsFiniteSet({c.capture : c \in ReviewClaims})
  <2> DEFINE f == [c \in ReviewClaims |-> c.capture]
  <2>1. DOMAIN f = ReviewClaims /\ Range(f) = {c.capture : c \in ReviewClaims}
    BY DEF Range
  <2> QED BY <2>1, FiniteImage, ClaimsAssumption
<1>2. IsFiniteSet(endorsements)
  <2> DEFINE f == [c \in ReviewClaims |-> EndorsementOf(c)]
  <2>1. DOMAIN f = ReviewClaims /\ endorsements \subseteq Range(f)
    BY DEF Range, ReviewInv, EndorsementsInv
  <2>2. IsFiniteSet(Range(f))
    BY <2>1, FiniteImage, ClaimsAssumption
  <2> HIDE DEF f
  <2> QED BY <2>1, <2>2, FS_Subset
<1>3. IsFiniteSet(Queued)
  <2>1. DOMAIN queue = ReviewClaims /\ Queued \subseteq Range(queue)
    BY DEF Range, ReviewInv, QueueInv, Queued
  <2>2. IsFiniteSet(Range(queue))
    BY <2>1, FiniteImage, ClaimsAssumption
  <2> QED BY <2>1, <2>2, FS_Subset
<1>4. IsFiniteSet({verdicts[i] : i \in DOMAIN verdicts})
  <2>1. DOMAIN verdicts \subseteq Queued
    BY DEF ReviewInv, VerdictsInv
  <2>2. IsFiniteSet(DOMAIN verdicts)
    BY <1>3, <2>1, FS_Subset
  <2>3. Range(verdicts) = {verdicts[i] : i \in DOMAIN verdicts}
    BY DEF Range
  <2> QED BY <2>2, <2>3, FiniteImage
<1> QED BY <1>1, <1>2, <1>3, <1>4

LEMMA ReviewedFits == ReviewInv => ReviewedIsAdmissible
<1> SUFFICES ASSUME ReviewInv PROVE ReviewedIsAdmissible
  OBVIOUS
<1>0. QueueInv /\ EndorsementsInv /\ VerdictsInv
  BY DEF ReviewInv
<1> DEFINE K == {c.capture : c \in ReviewClaims}
           D == {verdicts[i] : i \in DOMAIN verdicts}
           d == Reviewed
<1>1. IsFiniteSet(K) /\ IsFiniteSet(endorsements) /\ IsFiniteSet(Queued) /\ IsFiniteSet(D)
      /\ IsFiniteSet(ReviewClaims)
  BY RecordsFinite, ClaimsAssumption
<1>2. /\ d.captures = SetToSeq(K) /\ d.claims = SetToSeq(ReviewClaims)
      /\ d.endorsements = SetToSeq(endorsements)
      /\ d.items = SetToSeq(Queued) /\ d.decisions = SetToSeq(D)
  BY DEF Reviewed, Dataset
<1> HIDE DEF d, K, D
<1>3. /\ Range(d.captures) = K /\ Range(d.claims) = ReviewClaims /\ Range(d.endorsements) = endorsements
      /\ Range(d.items) = Queued /\ Range(d.decisions) = D
  BY <1>1, <1>2, ListedSet
<1>4. \A list \in {"captures", "claims", "endorsements", "items", "decisions"} : IsInjective(d[list])
  BY <1>1, <1>2, ListedSet
<1>5. \A i \in Queued : \E c \in ReviewClaims, at \in Moments :
         at >= c.capture.at /\ i = ItemOf(c, at) /\ i = queue[c] /\ i.claim = c
  BY <1>0 DEF QueueInv, Queued, ItemOf, Item
<1>6. \A x \in D : x.item \in Queued /\ verdicts[x.item] = x /\ DecisionStands(x)
  BY <1>0 DEF VerdictsInv, D
<1>7. IsInjective([i \in DOMAIN d.decisions |-> d.decisions[i].item])
  <2> DEFINE f == [x \in D |-> x.item]
  <2>1. \A x, y \in D : f[x] = f[y] => x = y
    BY <1>6
  <2>2. IsInjective([i \in DOMAIN SetToSeq(D) |-> f[SetToSeq(D)[i]]])
    <3> HIDE DEF f
    <3> QED BY <1>1, <2>1, ListedBy
  <2>3. \A i \in DOMAIN SetToSeq(D) : f[SetToSeq(D)[i]] = SetToSeq(D)[i].item
    BY <1>1, ListedSet
  <2> QED BY <1>2, <2>2, <2>3
<1>8. IsInjective([i \in DOMAIN d.items |-> d.items[i].claim])
  <2> DEFINE f == [x \in Queued |-> x.claim]
  <2>1. \A x, y \in Queued : f[x] = f[y] => x = y
    BY <1>5
  <2>2. IsInjective([i \in DOMAIN SetToSeq(Queued) |-> f[SetToSeq(Queued)[i]]])
    <3> HIDE DEF f
    <3> QED BY <1>1, <2>1, ListedBy
  <2>3. \A i \in DOMAIN SetToSeq(Queued) : f[SetToSeq(Queued)[i]] = SetToSeq(Queued)[i].claim
    BY <1>1, ListedSet
  <2> QED BY <1>2, <2>2, <2>3
<1>9. IsInjective([i \in DOMAIN d.endorsements |-> <<d.endorsements[i].source, d.endorsements[i].race>>])
  <2> DEFINE f == [x \in endorsements |-> <<x.source, x.race>>]
  <2>1. \A x, y \in endorsements : f[x] = f[y] => x = y
    <3> SUFFICES ASSUME NEW x \in endorsements, NEW y \in endorsements,
                        x.source = y.source, x.race = y.race
                 PROVE  x = y
      OBVIOUS
    <3>1. PICK c \in ReviewClaims : ReasonOf(c) = "none" /\ x = EndorsementOf(c)
      BY <1>0 DEF EndorsementsInv
    <3>2. PICK b \in ReviewClaims : ReasonOf(b) = "none" /\ y = EndorsementOf(b)
      BY <1>0 DEF EndorsementsInv
    <3>3. x.source = c.source /\ x.race = ClaimRace(c).selected
      BY <3>1 DEF EndorsementOf, MachineEndorsement, Endorsement, Resolution
    <3>4. y.source = b.source /\ y.race = ClaimRace(b).selected
      BY <3>2 DEF EndorsementOf, MachineEndorsement, Endorsement, Resolution
    <3>5. ClaimRace(c).status = "matched" /\ ClaimRace(b).status = "matched"
      BY <3>1, <3>2, ReasonFacts, ClaimsAssumption
    <3>6. c = b
      BY <3>3, <3>4, <3>5, ClaimsAssumption
    <3> QED BY <3>1, <3>2, <3>6
  <2>2. IsInjective([i \in DOMAIN SetToSeq(endorsements) |-> f[SetToSeq(endorsements)[i]]])
    <3> HIDE DEF f
    <3> QED BY <1>1, <2>1, ListedBy
  <2>3. \A i \in DOMAIN SetToSeq(endorsements) :
           f[SetToSeq(endorsements)[i]] =
             <<SetToSeq(endorsements)[i].source, SetToSeq(endorsements)[i].race>>
    BY <1>1, ListedSet
  <2> QED BY <1>2, <2>2, <2>3
<1>10. \A x \in Range(d.claims) : ClaimHolds(x, d)
  BY <1>3, ClaimsAssumption DEF ClaimHolds, K
<1>11. \A x \in Range(d.endorsements) : EndorsementHolds(x, d)
  <2> SUFFICES ASSUME NEW x \in endorsements PROVE EndorsementHolds(x, d)
    BY <1>3
  <2>1. PICK c \in ReviewClaims : ReasonOf(c) = "none" /\ x = EndorsementOf(c)
    BY <1>0 DEF EndorsementsInv
  <2>2. c \in Range(d.claims) /\ c.capture \in Range(d.captures)
    BY <1>3 DEF K
  <2> QED BY <2>1, <2>2, MachineHolds
<1>12. \A x \in Range(d.items) : ItemHolds(x, d)
  <2> SUFFICES ASSUME NEW x \in Queued PROVE ItemHolds(x, d)
    BY <1>3
  <2>1. PICK c \in ReviewClaims, at \in Moments : at >= c.capture.at /\ x = ItemOf(c, at)
    BY <1>5
  <2>2. c \in Range(d.claims)
    BY <1>3
  <2> QED BY <2>1, <2>2, ReviewItemHolds
<1>13. \A x \in Range(d.decisions) : DecisionHolds(x, d)
  BY <1>3, <1>6, RulingHolds
<1>14. DatasetHolds(d)
  BY <1>4, <1>7, <1>8, <1>9, <1>10, <1>11, <1>12, <1>13, InventoryAssumption DEF DatasetHolds
<1>15. \A f \in Fields : Linear(Chain(overrides, f))
  BY DEF ReviewInv, ChainsInv
<1> QED BY <1>14, <1>15 DEF ReviewedIsAdmissible, d

(***************************************************************************)
(* The compiled dataset (release/compiler.py).                             *)
(***************************************************************************)
\* What people may have written.
LedgerShape(l) ==
  \A s \in Sources : l[s] # None =>
    /\ \E x \in Extracts : l[s].at = x.at /\ l[s].reviewed = x.reviewed
    /\ DOMAIN l[s].decisions \subseteq Races
    /\ \A r \in DOMAIN l[s].decisions : l[s].decisions[r] \in LedgerDecisions
LedgerShapeInv == DOMAIN ledger = Sources /\ LedgerShape(ledger)

LEMMA LedgerShapeInit == LedgerInit => LedgerShapeInv
BY DEF LedgerInit, LedgerShapeInv, LedgerShape

LEMMA LedgerShapeStep == LedgerShapeInv /\ [LedgerNext]_ledgerVars => LedgerShapeInv'
<1> SUFFICES ASSUME LedgerShapeInv, [LedgerNext]_ledgerVars PROVE LedgerShapeInv'
  OBVIOUS
<1>1. CASE ledger' = ledger
  BY <1>1 DEF LedgerShapeInv
<1>2. CASE EditLedger
  <2>1. PICK s \in Sources, r \in Races, x \in Extracts, d \in LedgerDecisions : ledger' = Edited(s, x, r, d)
    BY <1>2 DEF EditLedger
  <2> DEFINE before == IF ledger[s] = None THEN << >> ELSE ledger[s].decisions
             after == WithEntry(before, r, d)
             new == [at |-> x.at, reviewed |-> x.reviewed, decisions |-> after]
  <2>2. DOMAIN before \subseteq Races /\ \A q \in DOMAIN before : before[q] \in LedgerDecisions
    BY DEF LedgerShapeInv, LedgerShape
  <2>3. DOMAIN after \subseteq Races /\ \A q \in DOMAIN after : after[q] \in LedgerDecisions
    <3> HIDE DEF before
    <3> QED BY <2>2 DEF WithEntry
  <2>4. ledger' = [ledger EXCEPT ![s] = new]
    BY <2>1 DEF Edited
  <2> HIDE DEF before, after
  <2>5. new.at = x.at /\ new.reviewed = x.reviewed /\ new.decisions = after
    OBVIOUS
  <2> HIDE DEF new
  <2>6. DOMAIN ledger' = Sources /\ ledger'[s] = new /\ \A t \in Sources : t # s => ledger'[t] = ledger[t]
    BY <2>4 DEF LedgerShapeInv
  <2> QED BY <2>3, <2>5, <2>6 DEF LedgerShapeInv, LedgerShape
<1> QED BY <1>1, <1>2 DEF LedgerNext, ledgerVars, BeginCompile, MoveAside, MoveIn, RemoveBackup, RemovalFails,
      ReplaceFails, UndoReplacement, RestoreBackup, RestoreFailed, CompilerDies, Repair

(***************************************************************************)
(* One decision of the ledger, compiled.                                   *)
(***************************************************************************)
\* A decision that passed the ledger's checks, with what it was taken over.
Admitted(s, l, r) ==
  /\ s \in Recorded(l) /\ r \in DOMAIN l[s].decisions
  /\ LedgerShape(l) /\ LedgerHolds(l)

LEMMA EffectiveFacts ==
  ASSUME NEW s, NEW l, NEW r, Admitted(s, l, r)
  PROVE  LET from == Effective(l[s], l[s].decisions[r])
         IN  /\ from.at \in Nat /\ from.reviewed \in Nat \ {Never}
             /\ from.reviewed >= from.at
<1> DEFINE d == l[s].decisions[r]
           from == Effective(l[s], d)
<1>1. s \in Sources /\ l[s] # None
  BY DEF Admitted, Recorded
<1>2. PICK x \in Extracts : l[s].at = x.at /\ l[s].reviewed = x.reviewed
  BY <1>1 DEF Admitted, LedgerShape
<1>3. d \in LedgerDecisions
  BY <1>1 DEF Admitted, LedgerShape
<1>4. from.reviewed >= from.at
  BY DEF Admitted, LedgerHolds, Timely
<1>5. CASE d.provenance # None
  <2>1. from = d.provenance
    BY <1>5 DEF Effective
  <2> QED BY <1>3, <1>4, <1>5, <2>1, LedgerAssumption
<1>6. CASE d.provenance = None
  <2>1. from.at = x.at /\ from.reviewed = x.reviewed
    BY <1>2, <1>6 DEF Effective
  <2> QED BY <1>4, <2>1, LedgerAssumption
<1> QED BY <1>5, <1>6

LEMMA DecisionFacts ==
  ASSUME NEW s, NEW l, NEW r, Admitted(s, l, r)
  PROVE  LET d == l[s].decisions[r]
         IN  /\ s \in Sources /\ r \in Races /\ r \in Eligible[s]
             /\ d \in LedgerDecisions
             /\ d.choices \subseteq ChoicesOf[r] /\ IsFiniteSet(d.choices)
             /\ Cardinality(d.choices) \in Nat
             /\ d.status \in {"endorsed", "no_endorsement", "declined_to_endorse"}
             /\ d.choices # {} <=> d.status = "endorsed"
<1> DEFINE d == l[s].decisions[r]
<1>1. s \in Sources /\ l[s] # None /\ r \in DOMAIN l[s].decisions
  BY DEF Admitted, Recorded
<1>2. d \in LedgerDecisions /\ r \in Races
  BY <1>1 DEF Admitted, LedgerShape
<1>3. r \in Eligible[s] /\ d.choices \subseteq ChoicesOf[r]
  BY <1>1 DEF Admitted, LedgerHolds, ReferencesHold, Recorded
<1>4. d.choices # {} <=> d.status = "endorsed"
  BY <1>1 DEF Admitted, LedgerHolds, LedgerDecisionHolds, Recorded
<1>5. IsFiniteSet(d.choices) /\ Cardinality(d.choices) \in Nat
  BY <1>2, <1>3, InventoryAssumption, FS_Subset, FS_CardinalityType
<1>6. d.status \in {"endorsed", "no_endorsement", "declined_to_endorse"}
  BY <1>2, LedgerAssumption
<1> QED BY <1>1, <1>2, <1>3, <1>4, <1>5, <1>6

\* What the records m of one decision say.
Tells(m, s, x, r) ==
  LET d == x.decisions[r]
      from == Effective(x, d)
      item == m.decision.item
  IN  /\ m.capture = PublicationCapture(s, x, d)
      /\ m.capture.source = s /\ m.capture.at = from.at /\ m.capture.available = TRUE
      /\ m.capture.published \in {Never, Discovery[s].published}
      /\ m.claim.capture = m.capture /\ m.claim.source = s
      /\ m.claim.said.race = DisplayName[r] /\ m.claim.said.choice = RawCandidates(d)
      /\ m.claim.said.status = RawStatus(d) /\ m.claim.requires = RequiresReview(d)
      /\ item.claim = m.claim /\ item.race = Match("matched", r, {r}) /\ item.capture = m.capture
      /\ item.said = m.claim.said /\ item.at = from.at /\ item.choice = None
      /\ m.item = IF RequiresReview(d) THEN item ELSE None
      /\ m.decision.action = "approve" /\ m.decision.at = from.reviewed
      /\ m.decision.resolution = Resolution(r, NormalizedStatus(d), d.choices)
      /\ m.endorsement.race = r /\ m.endorsement.status = NormalizedStatus(d)
      /\ m.endorsement.choices = d.choices /\ m.endorsement.source = s
      /\ m.endorsement.published = m.capture.published /\ m.endorsement.capture = m.capture
      /\ m.endorsement.claim = m.claim /\ m.endorsement.reviewed = from.reviewed
      /\ m.endorsement.item = m.item
LEMMA CompiledFields ==
  ASSUME NEW s, NEW x, NEW r
  PROVE  Tells(CompiledDecision(s, x, r), s, x, r)
<1> DEFINE d == x.decisions[r]
           from == Effective(x, d)
           m == CompiledDecision(s, x, r)
           capture == PublicationCapture(s, x, d)
           said == Said(DisplayName[r], RawCandidates(d), RawStatus(d), from.by)
           claim == Claim(capture, s, said, RequiresReview(d))
           resolution == Resolution(r, NormalizedStatus(d), d.choices)
           item == Item(claim, "extraction_requires_review", Match("matched", r, {r}), NoMatch, from.at)
           linked == IF RequiresReview(d) THEN item ELSE None
           decision == Decision(item, "approve", from.reviewed, resolution)
           endorsement == Endorsement(claim, resolution, from.reviewed, linked)
<1>1. /\ m.capture = capture /\ m.claim = claim /\ m.item = linked
      /\ m.decision = decision /\ m.endorsement = endorsement
  BY DEF CompiledDecision
<1> HIDE DEF d, m
<1>2. /\ capture.source = s /\ capture.at = from.at /\ capture.available = TRUE
      /\ capture.published \in {Never, Discovery[s].published}
  BY DEF PublicationCapture, d
<1> HIDE DEF from, capture
<1>3. /\ said.race = DisplayName[r] /\ said.choice = RawCandidates(d) /\ said.status = RawStatus(d)
  BY DEF Said
<1> HIDE DEF said
<1>4. /\ claim.capture = capture /\ claim.source = s /\ claim.said = said /\ claim.requires = RequiresReview(d)
  BY DEF Claim
<1> HIDE DEF claim
<1>5. /\ item.claim = claim /\ item.race = Match("matched", r, {r}) /\ item.capture = claim.capture
      /\ item.said = claim.said /\ item.at = from.at /\ item.choice = None
  BY DEF Item
<1>6. resolution.race = r /\ resolution.status = NormalizedStatus(d) /\ resolution.choices = d.choices
  BY DEF Resolution
<1> HIDE DEF item, resolution
<1>7. decision.item = item /\ decision.action = "approve" /\ decision.at = from.reviewed
      /\ decision.resolution = resolution
  BY DEF Decision
<1> HIDE DEF linked
<1>8. /\ endorsement.race = resolution.race /\ endorsement.status = resolution.status
      /\ endorsement.choices = resolution.choices /\ endorsement.source = claim.source
      /\ endorsement.published = claim.capture.published /\ endorsement.capture = claim.capture
      /\ endorsement.claim = claim /\ endorsement.reviewed = from.reviewed /\ endorsement.item = linked
  BY DEF Endorsement
<1> HIDE DEF decision, endorsement
<1> QED BY <1>1, <1>2, <1>3, <1>4, <1>5, <1>6, <1>7, <1>8 DEF Tells, d, m, from, capture, linked, resolution

LEMMA StatusFacts ==
  ASSUME NEW d, Cardinality(d.choices) \in Nat,
         d.status \in {"endorsed", "no_endorsement", "declined_to_endorse"},
         d.choices # {} <=> d.status = "endorsed", IsFiniteSet(d.choices)
  PROVE  /\ d.status # "endorsed" => NormalizedStatus(d) = d.status
         /\ d.status = "endorsed" =>
               /\ Cardinality(d.choices) >= 1
               /\ NormalizedStatus(d) \in {"endorsed", "dual_endorsement", "multiple_endorsement"}
               /\ NormalizedStatus(d) = "endorsed" <=> Cardinality(d.choices) = 1
               /\ NormalizedStatus(d) = "dual_endorsement" <=> Cardinality(d.choices) = 2
         /\ ~RequiresReview(d) =>
               /\ NormalizedStatus(d) \in {"endorsed", "no_endorsement", "declined_to_endorse"}
               /\ Classified(RawStatus(d)) = NormalizedStatus(d)
<1> DEFINE n == Cardinality(d.choices)
<1>1. d.choices = {} <=> n = 0
  BY FS_EmptySet
<1>2. CASE d.status # "endorsed"
  <2>1. NormalizedStatus(d) = d.status
    BY <1>2 DEF NormalizedStatus
  <2>2. CASE d.status = "no_endorsement"
    <3>1. RawStatus(d) = "no endorsement"
      BY <2>2 DEF RawStatus, Spoken
    <3>2. "no_endorsement" \in DOMAIN Statuses /\ "no endorsement" \in Statuses["no_endorsement"]
      BY StatusWords
    <3> QED BY <1>2, <2>1, <2>2, <3>1, <3>2, OneMeaning
  <2>3. CASE d.status = "declined_to_endorse"
    <3>1. RawStatus(d) = "declined to endorse"
      BY <2>3 DEF RawStatus, Spoken
    <3>2. "declined_to_endorse" \in DOMAIN Statuses /\ "declined to endorse" \in Statuses["declined_to_endorse"]
      BY StatusWords
    <3> QED BY <1>2, <2>1, <2>3, <3>1, <3>2, OneMeaning
  <2> QED BY <1>2, <2>2, <2>3
<1>3. CASE d.status = "endorsed"
  <2>1. n >= 1
    BY <1>1, <1>3
  <2>2. NormalizedStatus(d) = IF n = 1 THEN "endorsed" ELSE IF n = 2 THEN "dual_endorsement" ELSE "multiple_endorsement"
    BY <1>3 DEF NormalizedStatus
  <2>3. ~RequiresReview(d) => n = 1
    BY <2>1 DEF RequiresReview
  <2>4. n = 1 => RawStatus(d) = "endorsed"
    BY <1>3 DEF RawStatus
  <2>5. "endorsed" \in DOMAIN Statuses /\ "endorsed" \in Statuses["endorsed"]
    BY StatusWords
  <2>6. Classified("endorsed") = "endorsed"
    BY <2>5, OneMeaning
  <2> QED BY <1>3, <2>1, <2>2, <2>3, <2>4, <2>6
<1> QED BY <1>2, <1>3

\* A decision is a verdict on its race.
LEMMA DecisionIsVerdict ==
  ASSUME NEW s, NEW l, NEW r, Admitted(s, l, r), NEW v,
         v.choices = l[s].decisions[r].choices, v.status = NormalizedStatus(l[s].decisions[r])
  PROVE  /\ VerdictHolds(v, r) /\ ~ReviewRequired(v.status) /\ v.status # "source_unavailable"
<1> DEFINE d == l[s].decisions[r]
           n == Cardinality(d.choices)
<1>1. /\ r \in Races /\ d.choices \subseteq ChoicesOf[r] /\ IsFiniteSet(d.choices) /\ n \in Nat
      /\ d.status \in {"endorsed", "no_endorsement", "declined_to_endorse"}
      /\ d.choices # {} <=> d.status = "endorsed"
  BY DecisionFacts
<1>2. IsFiniteSet(ChoicesOf[r]) /\ Cardinality(ChoicesOf[r]) \in Nat
  BY <1>1, InventoryAssumption, FS_CardinalityType
<1>3. n <= Cardinality(ChoicesOf[r])
  BY <1>1, <1>2, FS_Subset
<1>4. d.choices = {} => n = 0
  BY FS_EmptySet
<1>5. /\ d.status # "endorsed" => NormalizedStatus(d) = d.status
      /\ d.status = "endorsed" =>
               /\ n >= 1
               /\ NormalizedStatus(d) \in {"endorsed", "dual_endorsement", "multiple_endorsement"}
               /\ NormalizedStatus(d) = "endorsed" <=> n = 1
               /\ NormalizedStatus(d) = "dual_endorsement" <=> n = 2
  BY <1>1, StatusFacts
<1> HIDE DEF d, n
<1>6. v.choices = d.choices /\ v.status = NormalizedStatus(d)
  BY DEF d
<1>7. v.choices \subseteq ChoicesOf[r] /\ Cardinality(v.choices) = n
  BY <1>1, <1>6 DEF n
<1>8. /\ v.status = "endorsed" => n = 1
      /\ v.status = "dual_endorsement" => n = 2
      /\ v.status = "multiple_endorsement" => n \in 3..Cardinality(ChoicesOf[r])
      /\ v.status \notin {"endorsed", "dual_endorsement", "multiple_endorsement"} => n = 0
      /\ v.status \in {"endorsed", "dual_endorsement", "multiple_endorsement", "no_endorsement", "declined_to_endorse"}
  BY <1>1, <1>2, <1>3, <1>4, <1>5, <1>6
<1>9. VerdictHolds(v, r)
  BY <1>7, <1>8 DEF VerdictHolds
<1>10. ~ReviewRequired(v.status) /\ v.status # "source_unavailable"
  BY <1>8 DEF ReviewRequired
<1> QED BY <1>9, <1>10

\* A name is matched to the choice it names and to no other.
LEMMA NamesMatch ==
  ASSUME NEW r \in Races, NEW c \in ChoicesOf[r]
  PROVE  LET m == MatchCandidate(DisplayName[c], r)
         IN  m.status = "matched" /\ m.selected = c
<1> DEFINE text == DisplayName[c]
           S == ChoicesOf[r]
           exact == Alike(text, S, {"exact"})
           close == Alike(text, S, {"exact", "normalized"})
<1>1. text # None /\ Similarity(text, c).kind = "exact"
  BY NamesAssumption
<1>2. text \in DOMAIN Likeness
  BY <1>1 DEF Similarity
<1>3. Cardinality(close) <= 1
  BY <1>2, InventoryAssumption DEF AliasesHold
<1>4. IsFiniteSet(S) /\ exact \subseteq close /\ close \subseteq S /\ c \in exact
  BY <1>1, InventoryAssumption DEF Alike
<1> HIDE DEF text, S, exact, close
<1>5. IsFiniteSet(close) /\ IsFiniteSet({c}) /\ {c} \subseteq close /\ Cardinality({c}) = 1
  BY <1>4, FS_Subset, FS_Singleton
<1>6. Cardinality(close) = 1
  BY <1>3, <1>5, FS_Subset, FS_CardinalityType
<1>7. {c} = close
  BY <1>5, <1>6, FS_Subset
<1>8. exact = {c}
  BY <1>4, <1>7
<1>9. ExactResult(exact) = Match("matched", c, {c})
  BY <1>5, <1>8 DEF ExactResult
<1>10. MatchTerms(text, S, 86) = ExactResult(exact)
  BY <1>8 DEF MatchTerms, exact
<1>11. MatchCandidate(text, r) = MatchTerms(text, S, 86)
  BY <1>1 DEF MatchCandidate, S
<1> QED BY <1>9, <1>10, <1>11 DEF Match, text

LEMMA ListedRange ==
  ASSUME NEW S, IsFiniteSet(S), NEW f
  PROVE  Range([i \in DOMAIN SetToSeq(S) |-> f[SetToSeq(S)[i]]]) = {f[x] : x \in S}
<1> DEFINE q == SetToSeq(S)
<1>1. Range(q) = S
  BY ListedSet
<1> HIDE DEF q
<1> QED BY <1>1 DEF Range, q

\* The names of the records are never None.
LEMMA RecordsAreRecords ==
  ASSUME NEW s, NEW l, NEW r, Admitted(s, l, r)
  PROVE  LET m == CompiledKey(l, <<s, r>>)
         IN  m.decision.item # None /\ m.decision.resolution # None
<1> DEFINE d == l[s].decisions[r]
<1>1. s \in Sources /\ r \in Races /\ d \in LedgerDecisions
  BY DecisionFacts
<1>2. PICK x \in Extracts : l[s].at = x.at /\ l[s].reviewed = x.reviewed
  BY DEF Admitted, LedgerShape, Recorded
<1> DEFINE y == [at |-> x.at, reviewed |-> x.reviewed, decisions |-> [q \in {r} |-> d]]
           n == CompiledDecision(s, y, r)
           m == CompiledDecision(s, l[s], r)
<1>3. n.decision.item # None /\ n.decision.resolution # None
  BY <1>1, RecordAssumption
<1>4. y.at = l[s].at /\ y.reviewed = l[s].reviewed /\ y.decisions[r] = d
  BY <1>2
<1> HIDE DEF y, d
<1>5. Effective(y, d) = Effective(l[s], d) 
  BY <1>4 DEF Effective
<1>6. PublicationCapture(s, y, d) = PublicationCapture(s, l[s], d)
  BY <1>5 DEF PublicationCapture
<1>7. n.decision = m.decision
  BY <1>4, <1>5, <1>6 DEF CompiledDecision, d
<1>8. CompiledKey(l, <<s, r>>) = m
  BY DEF CompiledKey
<1> HIDE DEF n, m
<1> QED BY <1>3, <1>7, <1>8

\* The sets that a compiled dataset lists.
Lists(d, l) ==
  /\ Range(d.captures) = {CompiledKey(l, k).capture : k \in LedgerRaces(l)}
  /\ Range(d.claims) = {CompiledKey(l, k).claim : k \in LedgerRaces(l)}
  /\ Range(d.endorsements) = {CompiledKey(l, k).endorsement : k \in LedgerRaces(l)}
  /\ Range(d.items) = {CompiledKey(l, k).item : k \in ReviewedRaces(l)}
  /\ Range(d.decisions) = {CompiledKey(l, k).decision : k \in ReviewedRaces(l)}

LEMMA KeyFacts ==
  ASSUME NEW l, LedgerShape(l), LedgerHolds(l)
  PROVE  /\ IsFiniteSet(LedgerRaces(l)) /\ IsFiniteSet(ReviewedRaces(l))
         /\ \A k \in LedgerRaces(l) : k = <<k[1], k[2]>> /\ Admitted(k[1], l, k[2])
         /\ ReviewedRaces(l) \subseteq LedgerRaces(l)
         /\ \A s, r : Admitted(s, l, r) => <<s, r>> \in LedgerRaces(l)
<1>1. ASSUME NEW k \in LedgerRaces(l)
      PROVE  k = <<k[1], k[2]>> /\ Admitted(k[1], l, k[2])
  <2> DEFINE Of(s) == {<<s, r>> : r \in DOMAIN l[s].decisions}
  <2>1. PICK s \in Recorded(l) : k \in Of(s)
    BY DEF LedgerRaces
  <2>2. PICK r \in DOMAIN l[s].decisions : k = <<s, r>>
    BY <2>1
  <2> QED BY <2>2 DEF Admitted
<1>2. \A k \in LedgerRaces(l) : k = <<k[1], k[2]>> /\ Admitted(k[1], l, k[2])
  BY <1>1
<1>3. \A s, r : Admitted(s, l, r) => <<s, r>> \in LedgerRaces(l)
  BY DEF Admitted, LedgerRaces
<1>4. LedgerRaces(l) \subseteq Sources \X Races
  BY <1>2, DecisionFacts
<1>5. IsFiniteSet(Sources \X Races)
  BY InventoryAssumption, FS_Product
<1>6. IsFiniteSet(LedgerRaces(l))
  BY <1>4, <1>5, FS_Subset
<1>7. ReviewedRaces(l) \subseteq LedgerRaces(l)
  BY DEF ReviewedRaces
<1>8. IsFiniteSet(ReviewedRaces(l))
  BY <1>6, <1>7, FS_Subset
<1> QED BY <1>2, <1>3, <1>6, <1>7, <1>8

LEMMA KeyFields ==
  ASSUME NEW k, NEW l
  PROVE  Tells(CompiledKey(l, k), k[1], l[k[1]], k[2])
BY CompiledFields DEF CompiledKey

LEMMA OneClaimEach ==
  ASSUME NEW l, LedgerShape(l), LedgerHolds(l), NEW k \in LedgerRaces(l), NEW j \in LedgerRaces(l)
  PROVE  /\ CompiledKey(l, k).claim = CompiledKey(l, j).claim => k = j
         /\ CompiledKey(l, k).decision.item = CompiledKey(l, j).decision.item => k = j
         /\ CompiledKey(l, k).endorsement = CompiledKey(l, j).endorsement => k = j
<1>1. /\ k = <<k[1], k[2]>> /\ j = <<j[1], j[2]>>
      /\ Admitted(k[1], l, k[2]) /\ Admitted(j[1], l, j[2])
  BY KeyFacts
<1>2. k[2] \in Races /\ j[2] \in Races
  BY <1>1, DecisionFacts
<1> DEFINE m == CompiledKey(l, k)
           n == CompiledKey(l, j)
<1>3. /\ m.claim.source = k[1] /\ m.claim.said.race = DisplayName[k[2]] /\ m.decision.item.claim = m.claim
      /\ m.endorsement.claim = m.claim
  BY KeyFields DEF Tells
<1>4. /\ n.claim.source = j[1] /\ n.claim.said.race = DisplayName[j[2]] /\ n.decision.item.claim = n.claim
      /\ n.endorsement.claim = n.claim
  BY KeyFields DEF Tells
<1> HIDE DEF m, n
<1>5. m.claim = n.claim => k = j
  BY <1>1, <1>2, <1>3, <1>4, NamesAssumption
<1> QED BY <1>3, <1>4, <1>5 DEF m, n

LEMMA CompiledLists ==
  ASSUME NEW l, LedgerShape(l), LedgerHolds(l)
  PROVE  /\ Lists(Compiled(l), l)
         /\ \A list \in {"captures", "claims", "endorsements", "items", "decisions"} :
               IsInjective(Compiled(l)[list])
<1> DEFINE d == Compiled(l)
           K == LedgerRaces(l)
           R == ReviewedRaces(l)
           all == SetToSeq(K)
           reviewed == SetToSeq(R)
           C == {CompiledKey(l, k).capture : k \in K}
           claims == [k \in K |-> CompiledKey(l, k).claim]
           ends == [k \in K |-> CompiledKey(l, k).endorsement]
           items == [k \in R |-> CompiledKey(l, k).item]
           decs == [k \in R |-> CompiledKey(l, k).decision]
<1>1. IsFiniteSet(K) /\ IsFiniteSet(R) /\ R \subseteq K
  BY KeyFacts
<1>2. IsFiniteSet(C)
  <2> DEFINE f == [k \in K |-> CompiledKey(l, k).capture]
  <2>1. DOMAIN f = K /\ Range(f) = C
    BY DEF Range
  <2> HIDE DEF f, C, K
  <2> QED BY <1>1, <2>1, FiniteImage
<1>3. /\ \A i \in DOMAIN all : all[i] \in K
      /\ \A i \in DOMAIN reviewed : reviewed[i] \in R
  <2> HIDE DEF K, R
  <2> QED BY <1>1, ListedSet
<1>4. /\ d.captures = SetToSeq(C)
      /\ d.claims = [i \in DOMAIN all |-> CompiledKey(l, all[i]).claim]
      /\ d.endorsements = [i \in DOMAIN all |-> CompiledKey(l, all[i]).endorsement]
      /\ d.items = [i \in DOMAIN reviewed |-> CompiledKey(l, reviewed[i]).item]
      /\ d.decisions = [i \in DOMAIN reviewed |-> CompiledKey(l, reviewed[i]).decision]
  BY DEF Compiled, Dataset
<1> HIDE DEF d, all, reviewed
<1>5. /\ d.claims = [i \in DOMAIN all |-> claims[all[i]]]
      /\ d.endorsements = [i \in DOMAIN all |-> ends[all[i]]]
      /\ d.items = [i \in DOMAIN reviewed |-> items[reviewed[i]]]
      /\ d.decisions = [i \in DOMAIN reviewed |-> decs[reviewed[i]]]
  BY <1>3, <1>4
<1>6. /\ \A k, j \in K : claims[k] = claims[j] => k = j
      /\ \A k, j \in K : ends[k] = ends[j] => k = j
  BY OneClaimEach
<1>7. \A k \in R : items[k] = decs[k].item
  <2> SUFFICES ASSUME NEW k \in R PROVE CompiledKey(l, k).item = CompiledKey(l, k).decision.item
    OBVIOUS
  <2>1. RequiresReview(l[k[1]].decisions[k[2]])
    BY DEF ReviewedRaces
  <2> QED BY <2>1, KeyFields DEF Tells
<1>8. \A k \in R : decs[k].item = CompiledKey(l, k).decision.item
  OBVIOUS
<1>9. /\ \A k, j \in R : items[k] = items[j] => k = j
      /\ \A k, j \in R : decs[k] = decs[j] => k = j
  <2> HIDE DEF items, decs
  <2> QED BY <1>1, <1>7, <1>8, OneClaimEach
<1>10. /\ {claims[k] : k \in K} = {CompiledKey(l, k).claim : k \in K}
       /\ {ends[k] : k \in K} = {CompiledKey(l, k).endorsement : k \in K}
       /\ {items[k] : k \in R} = {CompiledKey(l, k).item : k \in R}
       /\ {decs[k] : k \in R} = {CompiledKey(l, k).decision : k \in R}
  OBVIOUS
<1> HIDE DEF claims, ends, items, decs, K, R, C
<1>11. /\ IsInjective(d.captures) /\ IsInjective(d.claims) /\ IsInjective(d.endorsements)
       /\ IsInjective(d.items) /\ IsInjective(d.decisions)
  <2>1. IsInjective(d.captures)
    BY <1>2, <1>4, ListedSet
  <2>2. IsInjective(d.claims)
    BY <1>1, <1>5, <1>6, ListedBy DEF all
  <2>3. IsInjective(d.endorsements)
    BY <1>1, <1>5, <1>6, ListedBy DEF all
  <2>4. IsInjective(d.items)
    BY <1>1, <1>5, <1>9, ListedBy DEF reviewed
  <2>5. IsInjective(d.decisions)
    BY <1>1, <1>5, <1>9, ListedBy DEF reviewed
  <2> QED BY <2>1, <2>2, <2>3, <2>4, <2>5
<1>12. Lists(d, l)
  <2>1. Range(d.captures) = C
    BY <1>2, <1>4, ListedSet
  <2>2. Range(d.claims) = {claims[k] : k \in K}
    BY <1>1, <1>5, ListedRange DEF all
  <2>3. Range(d.endorsements) = {ends[k] : k \in K}
    BY <1>1, <1>5, ListedRange DEF all
  <2>4. Range(d.items) = {items[k] : k \in R}
    BY <1>1, <1>5, ListedRange DEF reviewed
  <2>5. Range(d.decisions) = {decs[k] : k \in R}
    BY <1>1, <1>5, ListedRange DEF reviewed
  <2> QED BY <1>10, <2>1, <2>2, <2>3, <2>4, <2>5 DEF Lists, C, K, R
<1> QED BY <1>11, <1>12 DEF d

\* What a single endorsed choice, or none, is said as.
LEMMA SaidChoice ==
  ASSUME NEW s, NEW l, NEW r, Admitted(s, l, r), ~RequiresReview(l[s].decisions[r])
  PROVE  LET d == l[s].decisions[r]
         IN  IF NormalizedStatus(d) # "endorsed" THEN RawCandidates(d) = None
             ELSE LET match == MatchCandidate(RawCandidates(d), r)
                  IN  match.status = "matched" /\ match.selected \in d.choices
<1> DEFINE d == l[s].decisions[r]
           n == Cardinality(d.choices)
<1>1. /\ r \in Races /\ d.choices \subseteq ChoicesOf[r] /\ IsFiniteSet(d.choices) /\ n \in Nat
      /\ d.status \in {"endorsed", "no_endorsement", "declined_to_endorse"}
      /\ d.choices # {} <=> d.status = "endorsed"
  BY DecisionFacts
<1>2. /\ d.status # "endorsed" => NormalizedStatus(d) = d.status
      /\ d.status = "endorsed" => n >= 1
  BY <1>1, StatusFacts
<1>3. ~(n > 1)
  BY DEF RequiresReview
<1> HIDE DEF d
<1>4. CASE d.status # "endorsed"
  BY <1>1, <1>2, <1>4 DEF RawCandidates, d
<1>5. CASE d.status = "endorsed"
  <2>1. n = 1
    BY <1>1, <1>2, <1>3, <1>5
  <2>2. PICK c : d.choices = {c}
    BY <1>1, <2>1, FS_Singleton
  <2>3. c \in ChoicesOf[r]
    BY <1>1, <2>2
  <2>4. RawCandidates(d) = DisplayName[c]
    BY <2>1, <2>2 DEF RawCandidates
  <2>5. NormalizedStatus(d) = "endorsed"
    BY <1>5, <2>1 DEF NormalizedStatus
  <2> QED BY <1>1, <2>2, <2>3, <2>4, <2>5, NamesMatch DEF d
<1> QED BY <1>4, <1>5 DEF d

\* The endorsement of one decision passes.
LEMMA DecisionEndorses ==
  ASSUME NEW l, LedgerShape(l), LedgerHolds(l), NEW d, Lists(d, l), NEW k \in LedgerRaces(l)
  PROVE  EndorsementHolds(CompiledKey(l, k).endorsement, d)
<1>1. k = <<k[1], k[2]>> /\ Admitted(k[1], l, k[2])
  BY KeyFacts
<1> DEFINE s == k[1]
           r == k[2]
           x == l[s].decisions[r]
           from == Effective(l[s], x)
           m == CompiledKey(l, k)
           e == m.endorsement
<1>2. Tells(m, s, l[s], r)
  BY KeyFields
<1>3. /\ s \in Sources /\ r \in Races /\ r \in Eligible[s]
  BY <1>1, DecisionFacts
<1>4. from.at \in Nat /\ from.reviewed \in Nat \ {Never} /\ from.reviewed >= from.at
  BY <1>1, EffectiveFacts
<1>5. VerdictHolds(e, r) /\ ~ReviewRequired(e.status) /\ e.status # "source_unavailable"
  <2>1. e.choices = x.choices /\ e.status = NormalizedStatus(x)
    BY <1>2 DEF Tells
  <2> HIDE DEF e
  <2> QED BY <1>1, <2>1, DecisionIsVerdict
<1>6. m.decision.item # None
  BY <1>1, RecordsAreRecords
<1>7. m.capture.published <= ElectionDate
  BY <1>2, <1>3, LedgerAssumption, InventoryAssumption DEF Tells, Never
<1>8. m.claim \in Range(d.claims) /\ m.capture \in Range(d.captures)
  BY DEF Lists
<1>9. CASE RequiresReview(x)
  <2>1. k \in ReviewedRaces(l)
    BY <1>9 DEF ReviewedRaces
  <2>2. m.item \in Range(d.items) /\ m.decision \in Range(d.decisions)
    BY <2>1 DEF Lists
  <2>3. m.item = m.decision.item /\ e.item = m.item /\ m.item.claim = e.claim
        /\ m.item.race = Match("matched", r, {r}) /\ e.race = r
        /\ m.decision.action = "approve"
        /\ m.decision.resolution = Resolution(e.race, e.status, e.choices)
    BY <1>2, <1>9 DEF Tells
  <2>4. r \in m.item.race.candidates
    <3> DEFINE found == Match("matched", r, {r})
    <3>1. found.candidates = {r}
      BY DEF Match
    <3> QED BY <2>3, <3>1
  <2>5. ASSUME NEW y \in Range(d.decisions), y.item = e.item PROVE y = m.decision
    <3>1. PICK j \in ReviewedRaces(l) : y = CompiledKey(l, j).decision
      BY DEF Lists
    <3>2. j \in LedgerRaces(l)
      BY DEF ReviewedRaces
    <3>3. CompiledKey(l, j).decision.item = CompiledKey(l, k).decision.item
      BY <2>3, <2>5, <3>1
    <3>4. j = k
      BY <3>2, <3>3, OneClaimEach
    <3> QED BY <3>1, <3>4
  <2>6. m.decision.resolution \in Resolutions(e.item, d)
    BY <2>2, <2>3 DEF Resolutions
  <2> HIDE DEF m, e, x, from, s, r
  <2>7. LinkHolds(e, d)
    BY <2>2, <2>3, <2>4, <2>5 DEF LinkHolds
  <2> QED BY <1>2, <1>3, <1>4, <1>5, <1>6, <1>7, <1>8, <2>3, <2>6, <2>7
       DEF EndorsementHolds, Tells, e, m, x, from, s, r
<1>10. CASE ~RequiresReview(x)
  <2>1. e.item = None /\ e.claim = m.claim /\ ~e.claim.requires /\ e.status = NormalizedStatus(x) /\ e.race = r
        /\ e.claim.said.choice = RawCandidates(x) /\ e.claim.said.status = RawStatus(x) /\ e.choices = x.choices
    BY <1>2, <1>10 DEF Tells
  <2>2. /\ e.status \in {"endorsed", "no_endorsement", "declined_to_endorse"}
        /\ Classified(RawStatus(x)) = e.status
    <3>1. /\ Cardinality(x.choices) \in Nat /\ IsFiniteSet(x.choices)
          /\ x.status \in {"endorsed", "no_endorsement", "declined_to_endorse"}
          /\ x.choices # {} <=> x.status = "endorsed"
      BY <1>1, DecisionFacts
    <3> HIDE DEF x
    <3> QED BY <1>10, <2>1, <3>1, StatusFacts
  <2>3. IF e.status # "endorsed" THEN e.claim.said.choice = None
        ELSE LET match == MatchCandidate(e.claim.said.choice, e.race)
             IN  match.status = "matched" /\ match.selected \in e.choices
    BY <1>1, <1>10, <2>1, SaidChoice
  <2> HIDE DEF m, e, x, from, s, r
  <2>4. FollowsFromClaim(e)
    BY <2>1, <2>2, <2>3 DEF FollowsFromClaim
  <2> QED BY <1>2, <1>3, <1>4, <1>5, <1>7, <1>8, <2>1, <2>4
       DEF EndorsementHolds, Tells, e, m, x, from, s, r
<1> QED BY <1>9, <1>10

\* So do its claim, and what was reviewed of it.
LEMMA DecisionIsRecorded ==
  ASSUME NEW l, LedgerShape(l), LedgerHolds(l), NEW d, Lists(d, l), NEW k \in LedgerRaces(l)
  PROVE  /\ ClaimHolds(CompiledKey(l, k).claim, d)
         /\ k \in ReviewedRaces(l) =>
               /\ ItemHolds(CompiledKey(l, k).item, d)
               /\ DecisionHolds(CompiledKey(l, k).decision, d)
<1>1. k = <<k[1], k[2]>> /\ Admitted(k[1], l, k[2])
  BY KeyFacts
<1> DEFINE s == k[1]
           r == k[2]
           x == l[s].decisions[r]
           from == Effective(l[s], x)
           m == CompiledKey(l, k)
           v == m.decision.resolution
<1>2. Tells(m, s, l[s], r)
  BY KeyFields
<1>3. s \in Sources /\ r \in Races /\ r \in Eligible[s]
  BY <1>1, DecisionFacts
<1>4. from.at \in Nat /\ from.reviewed >= from.at
  BY <1>1, EffectiveFacts
<1>5. m.claim \in Range(d.claims) /\ m.capture \in Range(d.captures)
  BY DEF Lists
<1>6. ClaimHolds(m.claim, d)
  BY <1>2, <1>3, <1>5 DEF Tells, ClaimHolds, ClaimFitsCapture
<1>7. ASSUME k \in ReviewedRaces(l)
      PROVE  ItemHolds(m.item, d) /\ DecisionHolds(m.decision, d)
  <2>1. m.item \in Range(d.items) /\ RequiresReview(x)
    BY <1>7 DEF Lists, ReviewedRaces
  <2>2. /\ m.item = m.decision.item /\ m.item.claim = m.claim /\ m.item.capture = m.capture
        /\ m.claim.capture = m.capture
        /\ m.item.said = m.claim.said /\ m.item.at = from.at /\ m.item.choice = None
        /\ m.item.race = Match("matched", r, {r}) /\ m.capture.at = from.at
        /\ m.capture.available = TRUE /\ m.claim.source = s
        /\ m.decision.action = "approve" /\ m.decision.at = from.reviewed
        /\ v = Resolution(r, NormalizedStatus(x), x.choices)
    BY <1>2, <2>1 DEF Tells
  <2>3. m.item.race.status = "matched" /\ m.item.race.candidates = {r}
    <3> DEFINE found == Match("matched", r, {r})
    <3>1. found.candidates = {r} /\ found.status = "matched"
      BY DEF Match
    <3> QED BY <2>2, <3>1
  <2>4. v.race = r /\ v.status = NormalizedStatus(x) /\ v.choices = x.choices
    <3> DEFINE w == Resolution(r, NormalizedStatus(x), x.choices)
    <3>1. w.race = r /\ w.status = NormalizedStatus(x) /\ w.choices = x.choices
      BY DEF Resolution
    <3> HIDE DEF w
    <3> QED BY <2>2, <3>1 DEF w
  <2>5. v # None
    BY <1>1, RecordsAreRecords
  <2>6. VerdictHolds(v, r) /\ ~ReviewRequired(v.status) /\ v.status # "source_unavailable"
    <3> HIDE DEF v
    <3> QED BY <1>1, <2>4, DecisionIsVerdict
  <2> HIDE DEF m, from, x, s, r
  <2>7. ItemHolds(m.item, d)
    <3>1. m.item.claim \in Range(d.claims) /\ m.item.capture = m.item.claim.capture
      BY <1>5, <2>2
    <3>2. m.item.at >= m.item.capture.at
      BY <1>4, <2>2
    <3>3. m.item.said = m.item.claim.said /\ m.item.race.candidates \subseteq Races /\ m.item.choice = None
      BY <1>3, <2>2, <2>3
    <3> QED BY <3>1, <3>2, <3>3 DEF ItemHolds
  <2>8. DecisionHolds(m.decision, d)
    BY <1>3, <1>4, <2>1, <2>2, <2>3, <2>4, <2>5, <2>6 DEF DecisionHolds
  <2> QED BY <2>7, <2>8
<1> QED BY <1>6, <1>7

\* Records listed once, whose keys differ, have their keys listed once.
LEMMA KeysListed ==
  ASSUME NEW q, IsInjective(q), NEW f, \A x, y \in Range(q) : f[x] = f[y] => x = y
  PROVE  IsInjective([i \in DOMAIN q |-> f[q[i]]])
<1>1. \A i \in DOMAIN q : q[i] \in Range(q)
  BY DEF Range
<1>2. \A i, j \in DOMAIN q : f[q[i]] = f[q[j]] => i = j
  <2> SUFFICES ASSUME NEW i \in DOMAIN q, NEW j \in DOMAIN q, f[q[i]] = f[q[j]] PROVE i = j
    OBVIOUS
  <2>1. q[i] = q[j]
    BY <1>1
  <2> QED BY <2>1 DEF IsInjective
<1> QED BY <1>2 DEF IsInjective

LEMMA ItemOfKey ==
  ASSUME NEW l, NEW k, RequiresReview(l[k[1]].decisions[k[2]])
  PROVE  LET m == CompiledKey(l, k)
         IN  m.item = m.decision.item /\ m.item.claim = m.claim
<1> DEFINE m == CompiledKey(l, k)
<1>1. Tells(m, k[1], l[k[1]], k[2])
  BY KeyFields
<1> HIDE DEF m
<1> QED BY <1>1 DEF Tells, m

LEMMA CompiledKeysDiffer ==
  ASSUME NEW l, LedgerShape(l), LedgerHolds(l)
  PROVE  LET d == Compiled(l)
         IN  /\ IsInjective([i \in DOMAIN d.decisions |-> d.decisions[i].item])
             /\ IsInjective([i \in DOMAIN d.items |-> d.items[i].claim])
             /\ IsInjective([i \in DOMAIN d.endorsements |-> <<d.endorsements[i].source, d.endorsements[i].race>>])
<1>1. PICK d : d = Compiled(l)
  OBVIOUS
<1>2. Lists(d, l) /\ \A list \in {"captures", "claims", "endorsements", "items", "decisions"} : IsInjective(d[list])
  BY <1>1, CompiledLists
<1>3. ReviewedRaces(l) \subseteq LedgerRaces(l)
  BY KeyFacts
<1>4. IsInjective([i \in DOMAIN d.decisions |-> d.decisions[i].item])
  <2> DEFINE q == d.decisions
             f == [x \in Range(q) |-> x.item]
  <2>1. ASSUME NEW x \in Range(q), NEW y \in Range(q), x.item = y.item PROVE x = y
    <3>1. PICK k \in ReviewedRaces(l) : x = CompiledKey(l, k).decision
      BY <1>2 DEF Lists
    <3>2. PICK j \in ReviewedRaces(l) : y = CompiledKey(l, j).decision
      BY <1>2 DEF Lists
    <3>3. k = j
      BY <1>3, <2>1, <3>1, <3>2, OneClaimEach
    <3> QED BY <3>1, <3>2, <3>3
  <2>2. IsInjective([i \in DOMAIN q |-> f[q[i]]])
    <3>1. \A x, y \in Range(q) : f[x] = f[y] => x = y
      BY <2>1
    <3> HIDE DEF f
    <3> QED BY <1>2, <3>1, KeysListed
  <2>3. \A i \in DOMAIN q : f[q[i]] = q[i].item
    BY DEF Range
  <2> QED BY <2>2, <2>3
<1>5. IsInjective([i \in DOMAIN d.items |-> d.items[i].claim])
  <2> DEFINE q == d.items
             f == [x \in Range(q) |-> x.claim]
  <2>1. ASSUME NEW x \in Range(q), NEW y \in Range(q), x.claim = y.claim PROVE x = y
    <3>1. PICK k \in ReviewedRaces(l) : x = CompiledKey(l, k).item
      BY <1>2 DEF Lists
    <3>2. PICK j \in ReviewedRaces(l) : y = CompiledKey(l, j).item
      BY <1>2 DEF Lists
    <3>3. RequiresReview(l[k[1]].decisions[k[2]]) /\ RequiresReview(l[j[1]].decisions[j[2]])
      BY DEF ReviewedRaces
    <3>4. x.claim = CompiledKey(l, k).claim
      BY <3>1, <3>3, ItemOfKey
    <3>5. y.claim = CompiledKey(l, j).claim
      BY <3>2, <3>3, ItemOfKey
    <3>6. k = j
      BY <1>3, <2>1, <3>4, <3>5, OneClaimEach
    <3> QED BY <3>1, <3>2, <3>6
  <2>2. IsInjective([i \in DOMAIN q |-> f[q[i]]])
    <3>1. \A x, y \in Range(q) : f[x] = f[y] => x = y
      BY <2>1
    <3> HIDE DEF f
    <3> QED BY <1>2, <3>1, KeysListed
  <2>3. \A i \in DOMAIN q : f[q[i]] = q[i].claim
    BY DEF Range
  <2> QED BY <2>2, <2>3
<1>6. IsInjective([i \in DOMAIN d.endorsements |-> <<d.endorsements[i].source, d.endorsements[i].race>>])
  <2> DEFINE q == d.endorsements
             f == [x \in Range(q) |-> <<x.source, x.race>>]
  <2>1. ASSUME NEW x \in Range(q), NEW y \in Range(q), x.source = y.source, x.race = y.race PROVE x = y
    <3>1. PICK k \in LedgerRaces(l) : x = CompiledKey(l, k).endorsement
      BY <1>2 DEF Lists
    <3>2. PICK j \in LedgerRaces(l) : y = CompiledKey(l, j).endorsement
      BY <1>2 DEF Lists
    <3>3. x.source = k[1] /\ x.race = k[2]
      BY <3>1, KeyFields DEF Tells
    <3>4. y.source = j[1] /\ y.race = j[2]
      BY <3>2, KeyFields DEF Tells
    <3>5. k = <<k[1], k[2]>> /\ j = <<j[1], j[2]>>
      BY KeyFacts
    <3> QED BY <2>1, <3>1, <3>2, <3>3, <3>4, <3>5
  <2>2. IsInjective([i \in DOMAIN q |-> f[q[i]]])
    <3>1. \A x, y \in Range(q) : f[x] = f[y] => x = y
      BY <2>1
    <3> HIDE DEF f
    <3> QED BY <1>2, <3>1, KeysListed
  <2>3. \A i \in DOMAIN q : f[q[i]] = <<q[i].source, q[i].race>>
    BY DEF Range
  <2> QED BY <2>2, <2>3
<1> QED BY <1>1, <1>4, <1>5, <1>6

\* What a dataset endorses is what its ledger says.
LEMMA CompiledSays ==
  ASSUME NEW l, LedgerShape(l), LedgerHolds(l), NEW d, Lists(d, l)
  PROVE  {<<e.source, e.race, e.choices>> : e \in Range(d.endorsements)} = LedgerSays(l)
<1> DEFINE Said3 == {<<e.source, e.race, e.choices>> : e \in Range(d.endorsements)}
           Of(s) == {<<s, r, l[s].decisions[r].choices>> : r \in DOMAIN l[s].decisions}
<1>1. ASSUME NEW k \in LedgerRaces(l)
      PROVE  LET e == CompiledKey(l, k).endorsement
             IN  e.source = k[1] /\ e.race = k[2] /\ e.choices = l[k[1]].decisions[k[2]].choices
  BY KeyFields DEF Tells
<1>2. ASSUME NEW t \in Said3 PROVE t \in LedgerSays(l)
  <2>1. PICK e \in Range(d.endorsements) : t = <<e.source, e.race, e.choices>>
    BY <1>2
  <2>2. PICK k \in LedgerRaces(l) : e = CompiledKey(l, k).endorsement
    BY DEF Lists
  <2>3. k[1] \in Recorded(l) /\ k[2] \in DOMAIN l[k[1]].decisions
    BY KeyFacts DEF Admitted
  <2>4. t \in Of(k[1])
    BY <1>1, <2>1, <2>2, <2>3
  <2> QED BY <2>3, <2>4 DEF LedgerSays
<1>3. ASSUME NEW t \in LedgerSays(l) PROVE t \in Said3
  <2>1. PICK s \in Recorded(l) : t \in Of(s)
    BY <1>3 DEF LedgerSays
  <2>2. PICK r \in DOMAIN l[s].decisions : t = <<s, r, l[s].decisions[r].choices>>
    BY <2>1
  <2>3. <<s, r>> \in LedgerRaces(l)
    BY KeyFacts DEF Admitted
  <2>4. PICK k \in LedgerRaces(l) : k[1] = s /\ k[2] = r
    BY <2>3
  <2>5. CompiledKey(l, k).endorsement \in Range(d.endorsements)
    BY DEF Lists
  <2> QED BY <1>1, <2>2, <2>4, <2>5
<1> QED BY <1>2, <1>3

LEMMA CompiledFits == LedgerShapeInv => CompiledIsAdmissible
<1> SUFFICES ASSUME LedgerShape(ledger), LedgerHolds(ledger)
             PROVE  LET d == Compiled(ledger)
                    IN  /\ DatasetHolds(d)
                        /\ {<<e.source, e.race, e.choices>> : e \in Range(d.endorsements)} = LedgerSays(ledger)
  BY DEF LedgerShapeInv, CompiledIsAdmissible
<1>1. PICK d : d = Compiled(ledger)
  OBVIOUS
<1>2. Lists(d, ledger) /\ \A list \in {"captures", "claims", "endorsements", "items", "decisions"} : IsInjective(d[list])
  BY <1>1, CompiledLists
<1>3. /\ IsInjective([i \in DOMAIN d.decisions |-> d.decisions[i].item])
      /\ IsInjective([i \in DOMAIN d.items |-> d.items[i].claim])
      /\ IsInjective([i \in DOMAIN d.endorsements |-> <<d.endorsements[i].source, d.endorsements[i].race>>])
  BY <1>1, CompiledKeysDiffer
<1>4. ReviewedRaces(ledger) \subseteq LedgerRaces(ledger)
  BY KeyFacts
<1>5. \A x \in Range(d.claims) : ClaimHolds(x, d)
  BY <1>2, DecisionIsRecorded DEF Lists
<1>6. \A x \in Range(d.endorsements) : EndorsementHolds(x, d)
  BY <1>2, DecisionEndorses DEF Lists
<1>7. \A x \in Range(d.items) : ItemHolds(x, d)
  BY <1>2, <1>4, DecisionIsRecorded DEF Lists
<1>8. \A x \in Range(d.decisions) : DecisionHolds(x, d)
  BY <1>2, <1>4, DecisionIsRecorded DEF Lists
<1>9. DatasetHolds(d)
  BY <1>2, <1>3, <1>5, <1>6, <1>7, <1>8, InventoryAssumption DEF DatasetHolds
<1> QED BY <1>1, <1>2, <1>9, CompiledSays

\* What the compiler makes of any ledger that passes its own checks passes every
\* cross-check of the canonical dataset, and says what the ledger said
\* (compile_release_dataset, CanonicalDataset.validate_references).
THEOREM LedgerCompiles == LedgerSpec => []CompiledIsAdmissible
<1>1. LedgerSpec => []LedgerShapeInv
  BY LedgerShapeInit, LedgerShapeStep, PTL DEF LedgerSpec
<1> QED BY <1>1, CompiledFits, PTL

\* The records that the review commands leave, one at a time and two at once, always add up
\* to a dataset that passes, and every field's overrides to a chain
\* (normalize_claim, _record_review_decision, review_override).
THEOREM ReviewedStaysAdmissible == ReviewSpec => []ReviewedIsAdmissible
BY ReviewInvariant, ReviewedFits, PTL

(***************************************************************************)
(* The composition.                                                        *)
(***************************************************************************)
\* Every behaviour of the pipeline is one of the ledger, one of the review and one of
\* admission: a step of one leaves the other two as they are.
THEOREM PipelineRefinesItsParts == PipelineSpec => AdmissionSpec /\ LedgerSpec /\ ReviewSpec
<1>1. PipelineInit => AdmissionInit /\ LedgerInit /\ ReviewInit
  BY DEF PipelineInit
<1>2. [PipelineNext]_pipelineVars => [AdmissionNext]_admissionVars
  BY DEF PipelineNext, pipelineVars
<1>3. [PipelineNext]_pipelineVars => [LedgerNext]_ledgerVars
  BY DEF PipelineNext, pipelineVars
<1>4. [PipelineNext]_pipelineVars => [ReviewNext]_reviewVars
  BY DEF PipelineNext, pipelineVars
<1> QED BY <1>1, <1>2, <1>3, <1>4, PTL DEF PipelineSpec, AdmissionSpec, LedgerSpec, ReviewSpec

\* Both ways to a dataset, the compiler's and the reviewers', end in one that passes the
\* cross-checks of CanonicalDataset (compile_release_dataset, normalize_claim,
\* review_override, validate_references).
THEOREM PipelineIsAdmissible == PipelineSpec => []DatasetIsAdmissible
<1>1. CompiledIsAdmissible /\ ReviewedIsAdmissible => DatasetIsAdmissible
  BY DEF DatasetIsAdmissible
<1> QED BY <1>1, PipelineRefinesItsParts, LedgerCompiles, ReviewedStaysAdmissible, PTL

\* What was reviewed and admitted stands in the composition as it does alone: no record
\* of the review is replaced, every release was published as it was reviewed, a declared
\* release starts where the one before it ended, and a failed swap is undone as far as the
\* way back itself meets no failure.
THEOREM PipelineKeepsItsRecords ==
  PipelineSpec =>
    AuditOnlyGrows /\ []PublishedAsReviewed /\ BoundaryIsCurrent /\ FailedSwapIsUndone
BY PipelineRefinesItsParts, AuditRecordsStand, ReleasesArePublishedAsReviewed,
   BoundariesAreCurrent, FailedSwapsAreUndone, PTL
===============================================================================
