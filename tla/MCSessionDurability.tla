------------------------- MODULE MCSessionDurability -------------------------
(* SessionDurability with the bounds of its .cfg files.                     *)
EXTENDS SessionDurability
=============================================================================
