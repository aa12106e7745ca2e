--------------------------- MODULE MC_ModelLists ---------------------------
EXTENDS ModelLists, TLC

CONSTANTS p, q, x, y

(* The two connections begin at endpoints of their own.                      *)
Apart == (p :> x) @@ (q :> y)
=============================================================================
