---------------------------- MODULE EventRetention ----------------------------
(***************************************************************************)
(* pruneEvents (pipeline/event-retention.ts) composed with a consumer, its *)
(* turns and its operators.  A prune is one transaction under a SHARE lock *)
(* on kumiko_event_consumers: it waits for every transaction that has      *)
(* written a consumer row and keeps others from writing one, so it is one  *)
(* step, but a turn that has only locked and read its row is not excluded. *)
(***************************************************************************)
EXTENDS ConsumerAdmin

(* A turn takes the conflicting ROW EXCLUSIVE lock with its first UPDATE:  *)
(* the re-arm while acquiring, or markProcessing before delivery.          *)
ConsumerTableUnwritten ==
    \/ turn.pc = "idle"
    \/ turn.pc \in {"acquired", "fetched"} /\ turn.row = row

(* Mutant of NoConsumerLags: the cursor may be one behind.                 *)
NoConsumerLagsByMoreThanOne(candidates) ==
    row.status # "disabled" => \A i \in candidates : i <= row.cursor + 1

(* Every consumer that is not disabled must have its cursor at or past the *)
(* highest candidate, else ConsumerLagError and nothing is deleted.        *)
NoConsumerLags(candidates) ==
    row.status # "disabled" => \A i \in candidates : i <= row.cursor

(* The candidates are the visible events of the named aggregate types that *)
(* are older than the cutoff; type and age of an event are arbitrary here. *)
PruneEvents(candidates) ==
    /\ ConsumerTableUnwritten
    /\ candidates # {}
    /\ NoConsumerLags(candidates)
    /\ rowState' = [i \in EventIds |-> IF i \in candidates THEN "pruned" ELSE rowState[i]]
    /\ UNCHANGED <<nextXid, doneXid, openXid, nextId, xidOf, tenantOf, consumerVars, transition>>

RetentionNext ==
    \/ AdminNext
    \/ \E candidates \in SUBSET Visible : PruneEvents(candidates)

RetentionSpec == AdminInit /\ [][RetentionNext]_adminVars

-----------------------------------------------------------------------------
(* Properties.                                                             *)

PrunedNow == {i \in Visible : rowState'[i] = "pruned"}

(* What the lag check does guarantee: an undelivered event it lets go was  *)
(* in a pending gap of the consumer, or lost before (overtaken).           *)
PruneDropsOnlyPendingGaps ==
    [][ row.status # "disabled" =>
           \A i \in PrunedNow \ (handled \cup skipped) :
              i \in Covered(row.gaps) \/ Overtaken(i) ]_adminVars
=============================================================================
