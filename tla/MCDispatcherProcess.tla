------------------------- MODULE MCDispatcherProcess -------------------------
(* Small instances of DispatcherProcess for TLC.                           *)
EXTENDS DispatcherProcess
=============================================================================
