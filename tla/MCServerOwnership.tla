------------------------- MODULE MCServerOwnership -------------------------
(* ServerOwnership with two process slots that are used again and again,  *)
(* and two crashes or two freezes.                                         *)
EXTENDS ServerOwnership
=============================================================================
