----------------------------- MODULE MC_Product -----------------------------
(***************************************************************************)
(* Run files for TLC, and what makes no difference to Product.             *)
(***************************************************************************)
EXTENDS Product, TLC

\* A server with a stop command, and a stack that only starts.
TwoFiles == {f \in [ready : BOOLEAN, stop : Stops \cup {None}] : f.ready <=> f.stop # None}

Alike == Permutations(Ryters)
=============================================================================
