------------------------- MODULE MCProjectionRebuild -------------------------
(* Small instances of ProjectionRebuild for TLC.                           *)
EXTENDS ProjectionRebuild, TLC

Symmetry == Permutations(Writers \ SagaWriters) \cup Permutations(Tenants)
=============================================================================
