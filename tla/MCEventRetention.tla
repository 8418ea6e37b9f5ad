--------------------------- MODULE MCEventRetention ---------------------------
(* Small instances of EventRetention for TLC.                              *)
EXTENDS EventRetention, TLC

Symmetry == Permutations(Writers)
=============================================================================
