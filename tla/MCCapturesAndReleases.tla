------------------------- MODULE MCCapturesAndReleases -------------------------
(***************************************************************************)
(* Where a guide starts and where it ends, composed: the store of captures, *)
(* written by processes of its own, and the delivery of releases.  They     *)
(* share nothing, so that `followed` says which of them a behaviour follows. *)
(***************************************************************************)
EXTENDS MCEvidenceStore, ReleaseDelivery, TLC

\* The processes that store captures are alike.
MCSymmetry == Permutations(Writers)

VARIABLE followed
followedVars == <<followed, storeVars, vars>>

FollowedInit ==
    /\ followed \in {"captures", "releases"}
    /\ StoreInit /\ (followed # "captures" => links = [d \in Directories |-> TRUE])
    /\ Init
FollowedNext ==
    \/ followed = "captures" /\ StoreNext /\ UNCHANGED <<followed, vars>>
    \/ followed = "releases" /\ Next /\ UNCHANGED <<followed, storeVars>>
FollowedSpec == FollowedInit /\ [][FollowedNext]_followedVars
=============================================================================
