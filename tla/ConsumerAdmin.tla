---------------------------- MODULE ConsumerAdmin ----------------------------
(***************************************************************************)
(* The operator's recovery surface over a consumer row                     *)
(* (pipeline/event-dispatcher-admin.ts): restart, disable, enable and skip *)
(* of the poison event, composed with the turns of EventDispatcher.        *)
(*                                                                         *)
(* restart and enable read the row WITHOUT a lock, check its status and    *)
(* then update it; the update waits for the row lock of a turn, but the    *)
(* check is not repeated.  disable is one update.  skip reads the row FOR  *)
(* UPDATE, so it excludes turns and the other operations.                  *)
(***************************************************************************)
EXTENDS EventDispatcher

VARIABLES
    transition  \* "none", or the transition whose status check has passed

adminVars == <<vars, transition>>

AdminTypeOK == TypeOK /\ transition \in {"none", "restart", "enable"}

AdminInit == Init /\ transition = "none"

(* The row lock is free: no turn is in progress.                           *)
RowUnlocked == turn.pc = "idle"

(* updateConsumerStatusReturning: cursor, gaps and last_failed_event_id    *)
(* stay as they are.                                                       *)
WithStatus(r, status) == [r EXCEPT !.status = status, !.attempts = 0, !.rearmCount = 0]

(* returnConsumerToIdleFrom, up to its status check.                       *)
CheckRequiredStatus(name, requiredStatus) ==
    /\ transition = "none"
    /\ row.status = requiredStatus
    /\ transition' = name
    /\ UNCHANGED vars

RestartConsumer == CheckRequiredStatus("restart", "dead")
EnableConsumer  == CheckRequiredStatus("enable", "disabled")

(* returnConsumerToIdleFrom, its update.                                   *)
ApplyConsumerStatusTransition ==
    /\ transition # "none"
    /\ RowUnlocked
    /\ row' = WithStatus(row, "idle")
    /\ transition' = "none"
    /\ UNCHANGED <<logVars, turn, rollbacks, handled, resolved, skipped, held>>

DisableConsumer ==
    /\ RowUnlocked
    /\ row' = WithStatus(row, "disabled")
    /\ UNCHANGED <<logVars, turn, rollbacks, handled, resolved, skipped, held, transition>>

-----------------------------------------------------------------------------
(* skipPoisonEvent.                                                        *)

FailedIsPending == row.lastFailed # None /\ row.lastFailed \in Covered(row.gaps)

(* Mutant of FailedIsAboveCursor: a recorded id ahead is not looked at.    *)
FailedIsNeverAhead == FALSE

FailedIsAboveCursor == row.lastFailed # None /\ row.lastFailed > row.cursor

VisiblePending == Visible \cap Covered(row.gaps)
VisibleAhead   == {i \in Visible : i > row.cursor}

(* Mutant of Settled: last_failed_event_id is not cleared.                 *)
SettledKeepingFailed(r) == WithStatus(r, "idle")

Settled(r) == [WithStatus(r, "idle") EXCEPT !.lastFailed = None]

(* Mutant of SkipPending: the id stays in its range.                       *)
SkipPendingWithoutCarving(id) ==
    /\ IF FailedIsPending THEN id = row.lastFailed
       ELSE ~FailedIsAboveCursor /\ VisiblePending # {} /\ id = Min(VisiblePending)
    /\ row' = Settled(row)

(* The poison is below the cursor: carve it out of its range.  Without a   *)
(* recorded id, the smallest visible pending id is taken for it.           *)
SkipPending(id) ==
    /\ IF FailedIsPending THEN id = row.lastFailed
       ELSE ~FailedIsAboveCursor /\ VisiblePending # {} /\ id = Min(VisiblePending)
    /\ row' = [Settled(row) EXCEPT
                 !.gaps = MergeContiguousGapRanges(SubtractIds(row.gaps, {id}))]

(* Mutant of SkipAhead: the ids in between are not watched.                *)
SkipAheadWithoutGap(id) ==
    /\ ~FailedIsPending
    /\ IF FailedIsAboveCursor THEN id = row.lastFailed
       ELSE VisiblePending = {} /\ VisibleAhead # {} /\ id = Min(VisibleAhead)
    /\ row' = [Settled(row) EXCEPT !.cursor = id]

(* The poison is ahead: the cursor moves onto it, and the ids in between   *)
(* become a pending gap.  Without a recorded id, the next event is taken.  *)
SkipAhead(id) ==
    /\ ~FailedIsPending
    /\ IF FailedIsAboveCursor THEN id = row.lastFailed
       ELSE VisiblePending = {} /\ VisibleAhead # {} /\ id = Min(VisibleAhead)
    /\ row' = [Settled(row) EXCEPT
                 !.cursor = id,
                 !.gaps = MergeContiguousGapRanges(
                             row.gaps \cup GapsFor(row.cursor + 1 .. id - 1, SnapshotXmax))]

(* With nothing to skip the call changes nothing.  The consumer-skip       *)
(* handler passes requireStatus "dead"; the CLI passes none.               *)
SkipPoisonEvent(id) ==
    /\ RowUnlocked
    /\ SkipPending(id) \/ SkipAhead(id)
    /\ resolved' = resolved \cup {id}
    /\ skipped' = skipped \cup {id}
    /\ held' = held \ {id}
    /\ UNCHANGED <<logVars, turn, rollbacks, handled, transition>>

AdminStep ==
    \/ RestartConsumer
    \/ EnableConsumer
    \/ ApplyConsumerStatusTransition
    \/ DisableConsumer
    \/ \E id \in EventIds : SkipPoisonEvent(id)

AdminNext ==
    \/ Next /\ UNCHANGED transition
    \/ AdminStep

AdminSpec == AdminInit /\ [][AdminNext]_adminVars

-----------------------------------------------------------------------------
(* Properties.                                                             *)

(* When a failed event is on record, a skip drops that event and no other  *)
(* one, also when late commits, restarts and re-arms happened since it     *)
(* failed (skipPoisonEvent's failedIsPending and failedIsAboveCursor), as  *)
(* long as no prune has deleted it; and no skip drops an event that the    *)
(* handler has settled.                                                    *)
SkipsOnlyTheFailedEvent ==
    [][ /\ row.lastFailed # None /\ rowState[row.lastFailed] # "pruned"
              => skipped' \ skipped \subseteq {row.lastFailed}
        /\ (skipped' \ skipped) \cap resolved = {} ]_adminVars
=============================================================================
