---------------------------- MODULE MCTaskBroker ----------------------------
(* Two requests, up to two runners and a launcher. *)
EXTENDS TaskBroker, TLC

CONSTANTS w1, w2, l

Symmetry == Permutations(Requests) \cup Permutations(Runners \ Launchers)
=============================================================================
