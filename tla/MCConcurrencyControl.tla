------------------------ MODULE MCConcurrencyControl ------------------------
(* Two executions share the production queue, one is an evaluation, one is a
   retry and so never limited; the runs compete for their places. *)
EXTENDS ConcurrencyControl, TLC

CONSTANTS e1, e2, e3, e4

MCMode == e1 :> "webhook" @@ e2 :> "trigger" @@ e3 :> "evaluation" @@ e4 :> "retry"
MCExecutions == {e1, e2, e3, e4}
MCLimit == "production" :> 1 @@ "evaluation" :> 2

RunSymmetry == Permutations(Runs)
=============================================================================
