--------------------------- MODULE MC_SessionStore ---------------------------
(* Small instances of SessionStore: the Ryters are alike.                  *)
EXTENDS SessionStore

Alike == Permutations(Ryters)
=============================================================================
