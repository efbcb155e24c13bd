--------------------------- MODULE MCMessageEdit ---------------------------
(***************************************************************************)
(* Instance of MessageEdit for TLC: two edits with two keys.               *)
(***************************************************************************)
EXTENDS MessageEdit, TLC

CONSTANTS e1, e2, k1, k2

MCKeyOf == e1 :> k1 @@ e2 :> k2
=============================================================================
