--------------------------- MODULE LaneSemaphore ---------------------------
(* What a task lane promises (src/core/session/lane-ledger.ts, "a           *)
(* filesystem counting semaphore"): at most Cap turns use it at a time.     *)
EXTENDS Naturals, FiniteSets

CONSTANTS Workers, Cap

VARIABLE inUse   \* the workers whose turn may run on the lane

Init == inUse = {}

Take(w) ==
  /\ w \notin inUse /\ Cardinality(inUse) < Cap
  /\ inUse' = inUse \cup {w}

Give(w) == w \in inUse /\ inUse' = inUse \ {w}

Next == \E w \in Workers : Take(w) \/ Give(w)

Spec == Init /\ [][Next]_inUse
=============================================================================
