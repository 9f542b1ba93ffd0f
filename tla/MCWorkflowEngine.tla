--------------------------- MODULE MCWorkflowEngine ---------------------------
EXTENDS WorkflowEngine, TLC

CONSTANTS a, b, c, judge

(* a is gated by judge, which also reads c; b works on what judge let through.     *)
MCDeps == a :> {} @@ c :> {} @@ judge :> {a, c} @@ b :> {judge}
MCJudge == a :> judge @@ b :> None @@ c :> None @@ judge :> None
MCMaxAttempts == a :> 2 @@ b :> 1 @@ c :> 1 @@ judge :> 1
MCMayWrite == a :> {"pass", "reject"} @@ c :> {"pass"} @@ b :> {"pass"} @@ judge :> {"pass", "reject"}
MCRetryOn == [n \in Nodes |-> {"reject"}]
=============================================================================
