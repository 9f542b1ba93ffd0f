--------------------------- MODULE MCTaskScheduler ---------------------------
(* Instances of TaskScheduler for TLC: lanes a, b and c, and the bare lane. *)
EXTENDS TaskScheduler

CONSTANTS a, b, c, bare

(* Lane c takes two turns, the others one.                                 *)
Caps == [l \in Lanes |-> IF l = c THEN 2 ELSE 1]

With(plan, parked) ==
  [plan |-> plan, parked |-> parked, askers |-> {}, ledger |-> TRUE,
   fsErrors |-> FALSE, watched |-> {}, seeks |-> 1]

OnA(n) == [t \in 1 .. n |-> <<a>>]
OnAB(n) == [t \in 1 .. n |-> <<a, b>>]
Mixed == <<<<a, b>>, <<b>>>>

(* Three tasks, two of them parked, on one lane, coordinated or not; a     *)
(* ledger that may fail; an agent that asks; one that asks on a lane of    *)
(* two slots and is parked; two tasks with two candidate lanes, whose      *)
(* placements may outlive each other; and the provider of one of them goes *)
(* down and comes back.                                                    *)
Coordinated == With(OnA(3), {2, 3})
Alone == [Coordinated EXCEPT !.ledger = FALSE]
FailingOpen == [With(OnA(3), {2}) EXCEPT !.fsErrors = TRUE]
Asking == [With(OnA(3), {}) EXCEPT !.askers = {1}]
Overtaking == [With(<<<<c>>>>, {1}) EXCEPT !.askers = {1}]
Placing == With(Mixed, {1})
Outlived == [With(Mixed, {1, 2}) EXCEPT !.seeks = 2]
Health == [With(OnAB(2), {2}) EXCEPT !.ledger = FALSE, !.watched = {a}]

All == {Coordinated, Alone, FailingOpen, Asking, Overtaking, Placing, Outlived, Health}

JustPlacing == {Placing}
=============================================================================
