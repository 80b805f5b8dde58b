------------------------------ MODULE MCPipeline ------------------------------
(***************************************************************************)
(* From what the sources said to an admitted release, composed: the ledger  *)
(* and its compilation, the review of what was collected, and admission.    *)
(* Each works on what the one before it committed, so that `stage` says     *)
(* which of them a behaviour follows.                                       *)
(***************************************************************************)
EXTENDS ReleaseAdmission, LedgerCompilation, ReviewQueue, MCElection

CONSTANTS Ada, Bob, Cyd, Dee, Ad, Mayor, Council, Mayer

MCNames == (mayor :> Mayor) @@ (council :> Council) @@ (ada :> Ada) @@ (bo :> Bob) @@ (cy :> Cyd) @@ (dee :> Dee)
Like(kind, score) == [kind |-> kind, score |-> score]
MCLikeness ==
    (Mayor :> (mayor :> Like("exact", 100))) @@ (Council :> (council :> Like("exact", 100)))
    @@ (Ada :> (ada :> Like("exact", 100))) @@ (Bob :> (bo :> Like("exact", 100)))
    @@ (Cyd :> (cy :> Like("exact", 100))) @@ (Dee :> (dee :> Like("exact", 100)))
    @@ (Ad :> ((ada :> Like("fuzzy", 90)) @@ (cy :> Like("fuzzy", 88))))
    @@ (Mayer :> (mayor :> Like("fuzzy", 90)))
MCDiscovery ==
    [s \in Sources |-> CASE s = district -> [status |-> "unpublished", checked |-> 1, published |-> 0]
                          [] s = union -> [status |-> "published", checked |-> 2, published |-> 1]
                          [] OTHER -> [status |-> "published", checked |-> 1, published |-> 1]]
By(at, reviewed) == [at |-> at, reviewed |-> reviewed, by |-> "desk"]
L(status, choices, url, provenance) ==
    [status |-> status, choices |-> choices, url |-> url, provenance |-> provenance]
MCLedgerDecisions ==
    {L("endorsed", {ada}, None, None), L("endorsed", {ada, bo}, "page", By(2, 3)),
     L("endorsed", {dee}, "page", None), L("endorsed", {}, None, None),
     L("endorsed", {ada, bo, cy}, None, None), L("no_endorsement", {}, "page", By(1, 4))}
MCExtracts == {[at |-> 1, reviewed |-> 2]}
Captured(source, available) ==
    [source |-> source, url |-> "page", at |-> 1, by |-> "desk", available |-> available, published |-> 1]
MCReviewClaims ==
    {Claim(Captured(paper, TRUE), paper, Said(Mayor, Ad, "endorsed", "p1"), FALSE),
     Claim(Captured(union, TRUE), union, Said(Mayer, Bob, "no endorsement", "p2"), FALSE),
     Claim(Captured(times, TRUE), times, Said(Council, Dee, "endorsed", "p3"), FALSE),
     Claim(Captured(district, FALSE), district, Said(Mayor, None, "source unavailable", None), FALSE)}
MCRulings ==
    {Resolution(mayor, "endorsed", {ada}), Resolution(mayor, "endorsed", {bo}),
     Resolution(council, "no_endorsement", {})}

MCSymmetry ==
    Permutations(Branches) \cup Permutations(Inputs) \cup Permutations(Code) \cup Permutations(Clerks)

VARIABLE stage
pipelineVars == <<stage, admissionVars, ledgerVars, reviewVars>>

PipelineInit ==
    /\ stage \in {"ledger", "review", "admission"}
    /\ AdmissionInit
    /\ stage # "admission" =>
          /\ main[1].inputs = CHOOSE i \in Inputs : TRUE
          /\ main[1].code = CHOOSE c \in Code : TRUE
    /\ LedgerInit
    /\ ReviewInit
PipelineNext ==
    \/ stage = "ledger" /\ LedgerNext /\ UNCHANGED <<stage, reviewVars, admissionVars>>
    \/ stage = "review" /\ ReviewNext /\ UNCHANGED <<stage, ledgerVars, admissionVars>>
    \/ stage = "admission" /\ AdmissionNext /\ UNCHANGED <<stage, ledgerVars, reviewVars>>
PipelineSpec == PipelineInit /\ [][PipelineNext]_pipelineVars

(***************************************************************************)
(* Both ways to a dataset, the compiler's and the reviewers', end in one    *)
(* that passes the cross-checks of CanonicalDataset.  In the other stages   *)
(* the records are as they were at first.                                   *)
(***************************************************************************)
DatasetIsAdmissible ==
    /\ stage = "ledger" => CompiledIsAdmissible
    /\ stage = "review" => ReviewedIsAdmissible
=============================================================================
