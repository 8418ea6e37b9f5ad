----------------------------- MODULE MCJobRunner -----------------------------
(* Small instances of JobRunner for TLC.                                   *)
EXTENDS JobRunner

(* Retries, deferrals and crashes behind the sequential lock; all of them  *)
(* at the tenant limit, and an entry fetched by a worker whose clock is    *)
(* behind.                                                                 *)
MCJobDefs ==
    { [sequential |-> TRUE, limit |-> 0, attempts |-> 2, maxDefers |-> 0,
       maxCrashes |-> 0, maxSkews |-> 0],
      [sequential |-> TRUE, limit |-> 0, attempts |-> 1, maxDefers |-> 1,
       maxCrashes |-> 0, maxSkews |-> 0],
      [sequential |-> TRUE, limit |-> 0, attempts |-> 1, maxDefers |-> 0,
       maxCrashes |-> 1, maxSkews |-> 0],
      [sequential |-> FALSE, limit |-> 1, attempts |-> 2, maxDefers |-> 1,
       maxCrashes |-> 1, maxSkews |-> 1] }
=============================================================================
