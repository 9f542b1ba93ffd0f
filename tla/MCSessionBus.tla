---------------------------- MODULE MCSessionBus ----------------------------
(* Model values for the checks of SessionBus.                              *)
EXTENDS SessionBus
=============================================================================
