-------------------------- MODULE MCEventDispatcher --------------------------
(* Small instances of EventDispatcher for TLC.                             *)
EXTENDS EventDispatcher, TLC

Symmetry == Permutations(Writers)
=============================================================================
