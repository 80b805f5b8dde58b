------------------------------- MODULE Election -------------------------------
(***************************************************************************)
(* What the guide knows of one election before any source has spoken: the   *)
(* races and choices of its inventory, the panel of sources, and what a     *)
(* source may say of a race (inventory/models.py, sources/models.py,        *)
(* normalization/models.py and semantics.py).                               *)
(***************************************************************************)
EXTENDS Integers, Sequences, FiniteSetsExt, TLC

CONSTANTS
    Races,        \* the publication-eligible races
    ChoicesOf,    \* per race: its choices
    Sources,
    Role,         \* per source: "consensus", "comparison" or "excluded"
    Eligible      \* per source: the races its jurisdiction permits

ExplicitStatus(d) == d.status \in {"endorsed", "dual_endorsement", "multiple_endorsement"}
Declined(d) == d.status \in {"no_endorsement", "declined_to_endorse"}

\* _validate_endorsement_values, and the choices are those of the race.
VerdictHolds(d, race) ==
    /\ d.choices \subseteq ChoicesOf[race]
    /\ Cardinality(d.choices) \in CASE d.status = "endorsed" -> {1}
                                    [] d.status = "dual_endorsement" -> {2}
                                    [] d.status = "multiple_endorsement" -> 3..Cardinality(ChoicesOf[race])
                                    [] OTHER -> {0}
=============================================================================
