---------------------------- MODULE WorkflowGraph ----------------------------
(***************************************************************************)
(* The graphs a workflow file may hold, as the validator of                *)
(* src/extensions/workflows/workflow.ts accepts them: nodes ordered by      *)
(* their dependencies, some of them gated by another node, their judge.    *)
(***************************************************************************)
EXTENDS Naturals, FiniteSets

CONSTANTS
  Nodes,
  Deps,        \* nodeDeps: what a node waits for, dependsOn and data references
  Judge,       \* accept.judge of a node, or None
  MaxAttempts, \* accept.maxAttempts
  RetryOn,     \* accept.retryOn
  None

(* Everything upstream of a node.                                          *)
Ancestors(n) ==
  {m \in Nodes : \A S \in SUBSET Nodes :
     Deps[n] \subseteq S /\ (\A x \in S : Deps[x] \subseteq S) => m \in S}

Owners(j) == {n \in Nodes : Judge[n] = j}
IsJudge(n) == Owners(n) # {}
Owner(j) == CHOOSE n \in Nodes : Judge[n] = j

(* A judge waits for the node it gates, for nothing that waits for that    *)
(* node, and is not gated itself: it would never be driven.                *)
JudgesFit ==
  \A n \in {m \in Nodes : Judge[m] # None} :
    LET j == Judge[n] IN
    /\ Owners(j) = {n}
    /\ n \in Ancestors(j)
    /\ \A m \in Ancestors(j) \ {n} : n \notin Ancestors(m)
    /\ Judge[j] = None

ASSUME GraphAssumption ==
  /\ IsFiniteSet(Nodes) /\ None \notin Nodes
  /\ Deps \in [Nodes -> SUBSET Nodes]
  /\ Judge \in [Nodes -> Nodes \cup {None}]
  /\ MaxAttempts \in [Nodes -> Nat \ {0}]
  /\ RetryOn \in [Nodes -> SUBSET {"fail", "reject"}]
  /\ \A n \in Nodes : n \notin Ancestors(n)
  /\ JudgesFit
=============================================================================
