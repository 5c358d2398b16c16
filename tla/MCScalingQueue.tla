--------------------------- MODULE MCScalingQueue ---------------------------
(* An execution that ends and one that does not, two workers and the leader. *)
EXTENDS ScalingQueue

CONSTANTS e, f
=============================================================================
