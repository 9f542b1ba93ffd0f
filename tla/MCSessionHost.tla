---------------------------- MODULE MCSessionHost ----------------------------
EXTENDS SessionHost, TLC
CONSTANTS u, v, a, b
(* Two tabs that are alike; a cold session and the id of a fresh one.       *)
MCAlike == Permutations(Sockets)
=============================================================================
