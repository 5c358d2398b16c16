----------------------- MODULE MCExecutionLifecycle -----------------------
(* Up to three executions, a and b production executions in one queue, c one
   that is never limited. *)
EXTENDS ExecutionLifecycle, TLC

CONSTANTS a, b, c

MCMode == a :> "webhook" @@ b :> "trigger" @@ c :> "retry"
MCLimit == "production" :> 1 @@ "evaluation" :> -1
AB == {a, b}
OnlyA == {a}
OnlyB == {b}
ABC == {a, b, c}
None == {}

RunSymmetry == Permutations(Runs)
=============================================================================
