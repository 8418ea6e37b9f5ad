-------------------------- MODULE MCIdempotentBatch --------------------------
(* Small instances of IdempotentBatch for TLC.                             *)
EXTENDS IdempotentBatch
=============================================================================
