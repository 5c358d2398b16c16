-------------------------- MODULE MCLeaderServices --------------------------
(* Two mains and an execution that waits. *)
EXTENDS LeaderServices, TLC

CONSTANTS a, b, r

\* The checks of one of the mains overlap.
MCMaxChecks == a :> 2 @@ b :> 1
=============================================================================
