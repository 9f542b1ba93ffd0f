---------------------------- MODULE MCLaneLedger ----------------------------
(* Instances of LaneLedger for TLC: p1 runs one worker, p2 one or two, and *)
(* the two processes share a host or not.                                  *)
EXTENDS LaneLedger, TLC

CONSTANTS p1, p2, h1, h2, w1, w2, w3

OneAndOne == w1 :> p1 @@ w2 :> p2
OneAndTwo == w1 :> p1 @@ w2 :> p2 @@ w3 :> p2
SameHost == p1 :> h1 @@ p2 :> h1
OtherHost == p1 :> h1 @@ p2 :> h2
=============================================================================
