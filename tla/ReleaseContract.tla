--------------------------- MODULE ReleaseContract ---------------------------
(***************************************************************************)
(* What release delivery promises a reader of the guide, with no workflow, *)
(* evidence or GitHub state: releases are published, some reach production *)
(* in version order, each at most once, and a release that reached         *)
(* production is confirmed before another one replaces it.                 *)
(***************************************************************************)
EXTENDS Naturals

CONSTANT Last

VARIABLES stage,       \* how far each release version has come
          production   \* the version production serves, 0 for none

Releases == 1..Last
Stages == {"unpublished", "published", "live", "verified"}

ContractTypeOK == stage \in [Releases -> Stages] /\ production \in 0..Last

ContractInit ==
  /\ stage = [v \in Releases |-> "unpublished"]
  /\ production = 0

Publish(v) ==
  /\ stage[v] = "unpublished"
  /\ stage' = [stage EXCEPT ![v] = "published"]
  /\ UNCHANGED production

GoLive(v) ==
  /\ stage[v] = "published"
  /\ production < v
  /\ \A w \in Releases : stage[w] # "live"
  /\ stage' = [stage EXCEPT ![v] = "live"]
  /\ production' = v

Confirm(v) ==
  /\ stage[v] = "live"
  /\ production = v
  /\ stage' = [stage EXCEPT ![v] = "verified"]
  /\ UNCHANGED production

ContractNext == \E v \in Releases : Publish(v) \/ GoLive(v) \/ Confirm(v)

ContractSpec == ContractInit /\ [][ContractNext]_<<stage, production>>
=============================================================================
