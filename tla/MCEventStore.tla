----------------------------- MODULE MCEventStore -----------------------------
(* Model values for TLC: handlers are interchangeable.                     *)
EXTENDS EventStore, TLC

Symmetry == Permutations(Writers)
=============================================================================
