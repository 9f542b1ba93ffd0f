---------------------------- MODULE MCToolExecBroker ----------------------------
(* Model values for the checks of ToolExecBroker.                          *)
EXTENDS ToolExecBroker, TLC

CONSTANTS c1, c2, s1

MCSessionOf == [c \in Calls |-> s1]
=============================================================================
