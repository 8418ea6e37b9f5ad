--------------------------- MODULE MCCursorHandover ---------------------------
(* Small instances of CursorHandover for TLC.                              *)
EXTENDS CursorHandover, TLC

Symmetry == Permutations(Writers)
=============================================================================
