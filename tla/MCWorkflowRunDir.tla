--------------------------- MODULE MCWorkflowRunDir ---------------------------
EXTENDS WorkflowRunDir, TLC
CONSTANTS p, q, r, f, g, h, k
(* Four dispatches, two of them of one process; these two are alike, and so *)
(* are the two other processes, each with its dispatch (q and r both start). *)
MCHome == f :> p @@ g :> q @@ h :> r @@ k :> p
MCAlike ==
  {s \in Permutations(Procs \cup Flows) :
     /\ \A x \in Flows : s[x] \in Flows /\ MCHome[s[x]] = s[MCHome[x]]}
=============================================================================
