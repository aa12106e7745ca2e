---------------------------- MODULE MC_TurnUndo -----------------------------
(* Small instances of TurnUndo: the contents of files are alike, and so    *)
(* are the paths a snapshot holds.                                         *)
EXTENDS TurnUndo

Alike == Permutations(Content) \cup Permutations(Tracked)
=============================================================================
