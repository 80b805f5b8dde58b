-------------------------- MODULE MCReleaseDelivery --------------------------
(* Model-checking instance of ReleaseDelivery: the bounds are in the cfgs. *)
EXTENDS ReleaseDelivery
=============================================================================
