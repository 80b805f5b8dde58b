--------------------------- MODULE CanonicalDataset ---------------------------
(***************************************************************************)
(* The canonical dataset: how a claim's words are matched to a race and a   *)
(* choice (normalization/matching.py, semantics.py), and what a dataset has *)
(* to satisfy (CanonicalDataset of normalization/models.py).                *)
(*                                                                          *)
(* A record's id is the hash of its content, so a record is its own id and  *)
(* refers to another one by holding it.  A text is a model value; Likeness  *)
(* says how it resembles the terms of a race or choice.  Allocations are    *)
(* always equal shares and left to the choices; dates are small numbers.    *)
(***************************************************************************)
EXTENDS Election, SequencesExt

CONSTANTS
    Likeness,      \* per text: the records it resembles, how, in hundredths
    DisplayName,   \* per race and choice: the text that names it
    ElectionDate,
    None

Never == 0
WithEntry(f, x, v) == [y \in {x} \cup DOMAIN f |-> IF y = x THEN v ELSE f[y]]

\* STATUS_ALIASES: per status, the words that are understood as it.
Statuses ==
    [endorsed |-> {"endorse", "endorsed", "endorsement"},
     dual_endorsement |-> {"dual endorsement", "co endorsement"},
     multiple_endorsement |-> {"multiple endorsement"},
     no_endorsement |-> {"no endorsement"}, declined_to_endorse |-> {"declined to endorse"},
     not_covered |-> {"not covered"}, not_published |-> {"not published"},
     source_unavailable |-> {"source unavailable"},
     unverified |-> {"unverified"}, ambiguous |-> {"ambiguous"}]
Understood(text) == {status \in DOMAIN Statuses : text \in Statuses[status]}
Classified(text) == IF Understood(text) = {} THEN None ELSE CHOOSE s \in Understood(text) : TRUE
ReviewRequired(status) == status \in {"unverified", "ambiguous"}

(***************************************************************************)
(* Matching.                                                                *)
(***************************************************************************)
Similarity(text, record) ==
    IF text \in DOMAIN Likeness /\ record \in DOMAIN Likeness[text] THEN Likeness[text][record]
    ELSE [kind |-> "fuzzy", score |-> 0]
Score100(text, record) == Similarity(text, record).score
Alike(text, records, kinds) == {r \in records : Similarity(text, r).kind \in kinds}

Match(status, selected, candidates) ==
    [status |-> status, selected |-> selected, candidates |-> candidates]
NoMatch == Match("unmatched", None, {})
ExactResult(records) ==
    IF Cardinality(records) > 1 THEN Match("ambiguous", None, records)
    ELSE Match("matched", CHOOSE r \in records : TRUE, records)

\* Those within the ambiguity margin of the best.
Rivals(text, plausible) ==
    {r \in plausible : \A q \in plausible : Score100(text, q) <= Score100(text, r) + 3}

\* An exact term, else a normalized one, else the similar ones.
MatchTerms(text, records, threshold) ==
    LET exact == Alike(text, records, {"exact"})
        normalized == Alike(text, records, {"exact", "normalized"})
        plausible == {r \in records : Score100(text, r) >= threshold}
        rivals == Rivals(text, plausible)
        nearest == {r \in records : Cardinality({q \in records : Score100(text, q) > Score100(text, r)}) < 3}
    IN  IF exact # {} THEN ExactResult(exact)
        ELSE IF normalized # {} THEN ExactResult(normalized)
        ELSE IF plausible = {} THEN Match("unmatched", None, nearest)
        ELSE IF Cardinality(rivals) > 1 THEN Match("ambiguous", None, plausible)
        ELSE Match("matched", CHOOSE r \in rivals : TRUE, plausible)

MatchRace(text, eligible) == MatchTerms(text, eligible, 82)
MatchCandidate(text, race) ==
    IF text = None THEN NoMatch ELSE MatchTerms(text, ChoicesOf[race], 86)

(***************************************************************************)
(* A claim, and what the machine makes of it: the reason why a person has   *)
(* to look at it, or an endorsement.                                        *)
(***************************************************************************)
Said(race, choice, status, evidence) ==
    [race |-> race, choice |-> choice, status |-> status, evidence |-> evidence]
Claim(capture, source, said, requires) ==
    [capture |-> capture, source |-> source, said |-> said, requires |-> requires]
\* Nothing but its unavailability is claimed of an unavailable capture.
ClaimFitsCapture(claim) ==
    claim.capture.available \/ claim.said = Said(claim.said.race, None, "source unavailable", None)

ClaimRace(claim) ==
    LET anywhere == MatchRace(claim.said.race, Races)
        scoped == MatchRace(claim.said.race, Eligible[claim.source])
    IN  IF anywhere.status = "ambiguous" /\ scoped.status = "matched" THEN scoped ELSE anywhere
\* The choice is looked for in the race that was found.
ClaimChoice(claim, race) ==
    IF race.status # "matched" THEN NoMatch
    ELSE MatchCandidate(claim.said.choice, race.selected)
Reason(claim, race, choice, status) ==
    IF race.status = "ambiguous" THEN "race_ambiguous"
    ELSE IF race.status # "matched" THEN "race_unmatched"
    ELSE IF race.selected \notin Eligible[claim.source] THEN "race_ineligible"
    ELSE IF claim.requires THEN "extraction_requires_review"
    ELSE IF \/ status \in {None, "ambiguous", "unverified", "dual_endorsement", "multiple_endorsement"}
            \/ status # "endorsed" /\ claim.said.choice # None
         THEN "semantics_ambiguous"
    ELSE IF status # "endorsed" \/ choice.status = "matched" THEN "none"
    ELSE IF choice.status = "ambiguous" THEN "candidate_ambiguous"
    ELSE "candidate_unmatched"

Item(claim, reason, race, choice, at) ==
    [claim |-> claim, reason |-> reason, race |-> race,
     choice |-> IF reason \in {"candidate_ambiguous", "candidate_unmatched"} THEN choice ELSE None,
     capture |-> claim.capture, said |-> claim.said, at |-> at]
Resolution(race, status, choices) == [race |-> race, status |-> status, choices |-> choices]
Decision(item, action, at, resolution) ==
    [item |-> item, action |-> action, at |-> at, resolution |-> resolution]
Endorsement(claim, resolution, reviewed, item) ==
    [race |-> resolution.race, status |-> resolution.status, choices |-> resolution.choices,
     source |-> claim.source, published |-> claim.capture.published, capture |-> claim.capture,
     claim |-> claim, reviewed |-> reviewed, item |-> item]
MachineEndorsement(claim, race, choice, status) ==
    Endorsement(claim,
        Resolution(race.selected, status, IF status = "endorsed" THEN {choice.selected} ELSE {}), Never, None)

(***************************************************************************)
(* What an inventory and a registry are, and that no alias of a race's      *)
(* choices is another's, which every dataset built over them checks; and a  *)
(* choice's own name is a term of it (_choice_terms).  That no two races    *)
(* have one name nothing checks.                                            *)
(***************************************************************************)
AliasesHold ==
    \A r \in Races : \A text \in DOMAIN Likeness :
        Cardinality(Alike(text, ChoicesOf[r], {"exact", "normalized"})) <= 1

ASSUME InventoryAssumption ==
    /\ IsFiniteSet(Races) /\ IsFiniteSet(Sources) /\ None \notin Races
    /\ \A r \in Races : IsFiniteSet(ChoicesOf[r])
    /\ \A s \in Sources : Eligible[s] \subseteq Races
    /\ ElectionDate \in Nat
    /\ \A text \in DOMAIN Likeness : \A r \in DOMAIN Likeness[text] : Likeness[text][r].score \in 0..100
    /\ AliasesHold

ASSUME NamesAssumption ==
    \A r \in Races :
        /\ \A q \in Races : DisplayName[q] = DisplayName[r] => q = r
        /\ \A c \in ChoicesOf[r] :
              DisplayName[c] # None /\ Similarity(DisplayName[c], c).kind = "exact"

(***************************************************************************)
(* The dataset, validate_references.                                        *)
(***************************************************************************)
Dataset(captures, claims, endorsements, items, decisions) ==
    [captures |-> captures, claims |-> claims, endorsements |-> endorsements,
     items |-> items, decisions |-> decisions]
\* The approved resolution of an item, or nothing.
Resolutions(item, d) ==
    {x.resolution : x \in {y \in Range(d.decisions) : y.item = item /\ y.action = "approve"}}

ClaimHolds(claim, d) ==
    /\ claim.capture \in Range(d.captures) /\ ClaimFitsCapture(claim)
    /\ claim.capture.source = claim.source /\ claim.source \in Sources

\* What the claim itself says, so that no person has to have said it.
FollowsFromClaim(e) ==
    /\ ~e.claim.requires /\ Classified(e.claim.said.status) = e.status
    /\ e.status \notin {"dual_endorsement", "multiple_endorsement"}
    /\ IF e.status # "endorsed" THEN e.claim.said.choice = None
       ELSE LET match == MatchCandidate(e.claim.said.choice, e.race)
            IN  match.status = "matched" /\ match.selected \in e.choices
LinkHolds(e, d) ==
    /\ e.item \in Range(d.items) /\ e.item.claim = e.claim
    /\ e.race \in e.item.race.candidates \cup {r.race : r \in Resolutions(e.item, d)}
    /\ \A x \in Range(d.decisions) : x.item = e.item =>
          x.action = "approve" /\ x.resolution = Resolution(e.race, e.status, e.choices)
EndorsementHolds(e, d) ==
    /\ e.source \in Sources /\ e.race \in Eligible[e.source] /\ VerdictHolds(e, e.race)
    /\ e.claim \in Range(d.claims) /\ e.capture \in Range(d.captures)
    /\ e.claim.source = e.source /\ e.claim.capture = e.capture
    /\ e.status = "source_unavailable" <=> ~e.capture.available
    /\ e.published = e.capture.published /\ e.published <= ElectionDate
    /\ e.reviewed # Never => e.reviewed >= e.capture.at
    /\ e.item # None => LinkHolds(e, d)
    /\ IF ReviewRequired(e.status) THEN e.item # None
       ELSE IF e.item # None THEN e.reviewed # Never /\ Resolutions(e.item, d) # {}
       ELSE FollowsFromClaim(e)

ItemHolds(item, d) ==
    /\ item.claim \in Range(d.claims) /\ item.capture = item.claim.capture
    /\ item.at >= item.capture.at /\ item.said = item.claim.said
    /\ item.race.candidates \subseteq Races
    /\ item.choice # None =>
          item.race.selected # None /\ item.choice.candidates \subseteq ChoicesOf[item.race.selected]

DecisionHolds(x, d) ==
    /\ x.item \in Range(d.items) /\ x.at >= x.item.at
    /\ x.action = "approve" <=> x.resolution # None
    /\ x.resolution # None =>
          /\ x.resolution.race \in Eligible[x.item.claim.source]
          /\ VerdictHolds(x.resolution, x.resolution.race) /\ ~ReviewRequired(x.resolution.status)
          /\ x.resolution.status = "source_unavailable" <=> ~x.item.capture.available
          /\ x.item.race.status = "ambiguous" => x.resolution.race \in x.item.race.candidates
          /\ x.item.choice # None /\ x.item.choice.status = "ambiguous" =>
                x.resolution.choices \subseteq x.item.choice.candidates

DatasetHolds(d) ==
    /\ AliasesHold
    /\ \A list \in {"captures", "claims", "endorsements", "items", "decisions"} : IsInjective(d[list])
    /\ IsInjective([i \in DOMAIN d.decisions |-> d.decisions[i].item])
    /\ IsInjective([i \in DOMAIN d.items |-> d.items[i].claim])
    /\ IsInjective([i \in DOMAIN d.endorsements |-> <<d.endorsements[i].source, d.endorsements[i].race>>])
    /\ \A x \in Range(d.claims) : ClaimHolds(x, d)
    /\ \A x \in Range(d.endorsements) : EndorsementHolds(x, d)
    /\ \A x \in Range(d.items) : ItemHolds(x, d)
    /\ \A x \in Range(d.decisions) : DecisionHolds(x, d)
=============================================================================
