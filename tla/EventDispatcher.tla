--------------------------- MODULE EventDispatcher ---------------------------
(***************************************************************************)
(* One event consumer of the async dispatcher: its row in                  *)
(* kumiko_event_consumers and the turn that a dispatcher process runs for  *)
(* it (processConsumer, pipeline/event-dispatcher.ts and                   *)
(* event-dispatcher-delivery.ts).  Consumers have independent rows and     *)
(* cursors, so one consumer stands for all.                                *)
(*                                                                         *)
(* A turn is one database transaction at READ COMMITTED that holds the row *)
(* lock from AcquireConsumerState to its end.  It is split where another   *)
(* actor's step can change what the next statement sees:                   *)
(*                                                                         *)
(*    idle --Acquire--> acquired --Fetch--> fetched --Deliver--> delivered *)
(*      ^                                      |                     |     *)
(*      +-------------- NothingToDo -----------+----- Persist -------+     *)
(*                                                                         *)
(* and RollBack (crash, lost connection) may end it anywhere.  Handlers    *)
(* run outside the turn's transaction: what they did stays done when the   *)
(* turn rolls back, so delivery is at least once.                          *)
(***************************************************************************)
EXTENDS EventLog, PendingGapRanges

CONSTANTS
    BatchSize,            \* options.batchSize
    MaxAttempts,          \* errorPolicy.maxAttempts ?? options.maxAttempts
    MaxRearmCount,        \* options.maxRearmCount
    MaxPendingGapRanges,  \* options.maxPendingGapRanges
    HasBatchHandler,      \* the consumer wires a batchHandler
    SkipApplyErrors,      \* errorPolicy.skipApplyErrors
    HasTransientErrors,   \* errorPolicy.isTransientError accepts some errors
    MaxRollbacks          \* bound: turns that crash or lose the connection

ASSUME EventDispatcherAssumption ==
    /\ BatchSize \in Nat \ {0}
    /\ MaxAttempts \in Nat \ {0}
    /\ MaxRearmCount \in Nat
    /\ MaxPendingGapRanges \in Nat \ {0}
    /\ HasBatchHandler \in BOOLEAN
    /\ SkipApplyErrors \in BOOLEAN
    /\ HasTransientErrors \in BOOLEAN
    /\ MaxRollbacks \in Nat

VARIABLES
    row,        \* the committed row of the consumer
    turn,       \* the turn in progress
    rollbacks,  \* turns rolled back so far
    handled,    \* history: ids whose handler returned, or were skip-applied
    resolved,   \* history: ids a committed turn or an operator settled
    skipped,    \* history: ids an operator skipped (see ConsumerAdmin)
    held        \* history: ids a committed turn left held by the batch handler

consumerVars == <<row, turn, rollbacks, handled, resolved, skipped, held>>
vars == <<logVars, consumerVars>>

-----------------------------------------------------------------------------
(* State.                                                                  *)

None == 0   \* SQL NULL of last_failed_event_id, and the cursor of a new row

Gap == [from : EventIds, to : EventIds, xmax : 1 .. MaxXid + 1]

(* status "processing" is written and overwritten inside one transaction,  *)
(* so no other actor ever sees it; last_error and updated_at are left out. *)
Row ==
    [cursor     : 0 .. MaxEventId,
     gaps       : SUBSET Gap,
     status     : {"idle", "dead", "disabled"},
     attempts   : 0 .. MaxAttempts,
     rearmCount : 0 .. MaxRearmCount,
     lastFailed : 0 .. MaxEventId]

(* The row as the transaction reads it and, from Deliver on, as it will be *)
(* written; pending and fresh are the fetched ids up to and past cursor.   *)
Turn ==
    [pc       : {"idle", "acquired", "fetched", "delivered"},
     row      : Row,
     xminNow  : 0 .. MaxXid + 1,
     pending  : SUBSET EventIds,
     fresh    : SUBSET EventIds,
     resolved : SUBSET EventIds,
     held     : SUBSET EventIds]

TypeOK ==
    /\ LogTypeOK
    /\ row \in Row
    /\ turn \in Turn
    /\ rollbacks \in 0 .. MaxRollbacks
    /\ handled \in SUBSET EventIds
    /\ resolved \in SUBSET EventIds
    /\ skipped \in SUBSET EventIds
    /\ held \in SUBSET EventIds

NewRow == [cursor |-> 0, gaps |-> {}, status |-> "idle", attempts |-> 0,
           rearmCount |-> 0, lastFailed |-> None]

NoTurn == [pc |-> "idle", row |-> NewRow, xminNow |-> 0, pending |-> {},
           fresh |-> {}, resolved |-> {}, held |-> {}]

(* preRegisterConsumers has inserted the row with startFrom "beginning".   *)
Init ==
    /\ LogInit
    /\ row = NewRow
    /\ turn = NoTurn
    /\ rollbacks = 0
    /\ handled = {}
    /\ resolved = {}
    /\ skipped = {}
    /\ held = {}

-----------------------------------------------------------------------------
(* Acquire: lock the row with SKIP LOCKED, look at its status.             *)

(* Mutant of ProvablyIdle: pending gaps do not keep the consumer awake.    *)
ProvablyIdleDespiteGaps ==
    /\ row.status # "dead"
    /\ \A i \in Visible : i <= row.cursor

(* doPass's lock-free pre-check: this consumer gets no turn.               *)
ProvablyIdle ==
    /\ row.status # "dead"
    /\ row.gaps = {}
    /\ \A i \in Visible : i <= row.cursor

Rearmed(r) == [r EXCEPT !.status = "idle", !.attempts = 0, !.rearmCount = @ + 1]

(* A disabled consumer is skipped; a dead one too, until its cooldown has  *)
(* elapsed (at any moment, in this model) and while it has re-arms left.   *)
AcquirableRow(r) ==
    \/ /\ row.status = "idle"
       /\ r = row
    \/ /\ row.status = "dead"
       /\ row.rearmCount < MaxRearmCount
       /\ r = Rearmed(row)

AcquireConsumerState ==
    /\ turn.pc = "idle"
    /\ ~ProvablyIdle
    /\ \E r \in {row, Rearmed(row)} :
          /\ AcquirableRow(r)
          /\ turn' = [NoTurn EXCEPT
                         !.pc = "acquired",
                         !.row = r,
                         !.xminNow = IF r.gaps # {} THEN SnapshotXmin ELSE 0]
    /\ UNCHANGED <<logVars, row, rollbacks, handled, resolved, skipped, held>>

-----------------------------------------------------------------------------
(* Fetch: ORDER BY id LIMIT.                                               *)

(* T is what ORDER BY id LIMIT n returns of the rows S.                    *)
IsFirst(T, S, n) ==
    /\ T \subseteq S
    /\ \A i \in T, j \in S : j < i => j \in T
    /\ \/ Cardinality(T) = n
       \/ T = S /\ Cardinality(S) <= n

PendingLimit ==
    IF ~HasBatchHandler THEN BatchSize
    ELSE IF BatchSize \div 2 > 1 THEN BatchSize \div 2 ELSE 1

(* Rows inside the pending ranges first, then rows past the cursor, at     *)
(* most BatchSize in all.  Pending ids are below every new id.             *)
FetchPendingEvents ==
    /\ turn.pc = "acquired"
    /\ \E pending \in SUBSET (Visible \cap Covered(turn.row.gaps)) :
       \E fresh \in SUBSET {i \in Visible : i > turn.row.cursor} :
          /\ IsFirst(pending, Visible \cap Covered(turn.row.gaps), PendingLimit)
          /\ IsFirst(fresh, {i \in Visible : i > turn.row.cursor},
                     BatchSize - Cardinality(pending))
          /\ turn' = [turn EXCEPT !.pc = "fetched",
                                  !.pending = pending,
                                  !.fresh = fresh]
    /\ UNCHANGED <<logVars, row, rollbacks, handled, resolved, skipped, held>>

(* The gaps this turn drops as rolled back for good, and the others.       *)
Burnt ==
    BurntGaps(turn.row.gaps, turn.pending,
              Cardinality(turn.pending) = PendingLimit, turn.xminNow)

Surviving == turn.row.gaps \ Burnt

(* Nothing fetched, nothing burnt: the transaction ends without a write of *)
(* its own, which still commits a re-arm made while acquiring.             *)
NothingToDo ==
    /\ turn.pc = "fetched"
    /\ turn.pending = {} /\ turn.fresh = {}
    /\ Burnt = {}
    /\ row' = turn.row
    /\ turn' = NoTurn
    /\ UNCHANGED <<logVars, rollbacks, handled, resolved, skipped, held>>

-----------------------------------------------------------------------------
(* Deliver.                                                                *)

(* Mutant of TenantsLeftOut: nothing is withheld.                          *)
NoTenantsLeftOut == {}

(* A batch consumer whose pending rows were cut off by the limit withholds *)
(* the new rows of every tenant that still has a pending row left out.     *)
TenantsLeftOut ==
    IF HasBatchHandler /\ turn.pending # {} /\ Cardinality(turn.pending) >= PendingLimit
    THEN {tenantOf[i] : i \in {j \in Visible \cap Covered(turn.row.gaps) :
                                  \A p \in turn.pending : j > p}}
    ELSE {}

(* Mutant of IntakePaused: one range too late.                             *)
IntakePausedPastLimit == HasBatchHandler /\ Cardinality(Surviving) > MaxPendingGapRanges

IntakePaused == HasBatchHandler /\ Cardinality(Surviving) >= MaxPendingGapRanges

Deliverable ==
    turn.pending \cup
    {i \in turn.fresh : ~IntakePaused /\ tenantOf[i] \notin TenantsLeftOut}

(* Mutant of CursorAfter: the last delivered id, pending or new.           *)
CursorAtLastDelivered(S) == IF S = {} THEN turn.row.cursor ELSE Max(S)

(* The larger of the cursor and the ids in S.                              *)
CursorAfter(S) == Max(S \cup {turn.row.cursor})

(* What one delivery pass leaves behind.                                   *)
Outcome(cursor, attempts, dead, processed, done, failedId, heldIds, backingOff) ==
    [cursor |-> cursor, attempts |-> attempts, dead |-> dead,
     processed |-> processed, resolved |-> done, failedId |-> failedId,
     held |-> heldIds, backingOff |-> backingOff]

NothingDelivered ==
    Outcome(turn.row.cursor, turn.row.attempts, FALSE, {}, {}, turn.row.lastFailed, {},
            FALSE)

(* Mutant of OutcomeOfAppliedBatch: the failed id of an earlier turn       *)
(* survives a batch without holds.                                         *)
OutcomeOfAppliedBatchKeepingFailed(heldIds, backingOff) ==
    LET done == Deliverable \ heldIds
    IN  Outcome(CursorAfter(Deliverable),
                IF done # {} THEN 0 ELSE turn.row.attempts,
                FALSE, done, done,
                IF heldIds = {} THEN turn.row.lastFailed ELSE Min(heldIds),
                heldIds, backingOff)

(* The outcome of a batch the handler applied except for heldIds.          *)
OutcomeOfAppliedBatch(heldIds, backingOff) ==
    LET done == Deliverable \ heldIds
    IN  Outcome(CursorAfter(Deliverable),
                IF done # {} THEN 0 ELSE turn.row.attempts,
                FALSE, done, done,
                IF heldIds = {} THEN None ELSE Min(heldIds),
                heldIds, backingOff)

(* Mutant of OutcomeOfLoop: the failed id of an earlier turn survives a    *)
(* loop without errors.                                                    *)
OutcomeOfLoopKeepingFailed(done, processed, counts) ==
    LET attempts == (IF done = {} THEN turn.row.attempts ELSE 0)
                        + (IF counts THEN 1 ELSE 0)
    IN  Outcome(CursorAfter(done), attempts,
                counts /\ attempts >= MaxAttempts,
                processed, done,
                IF done = Deliverable THEN turn.row.lastFailed ELSE Min(Deliverable \ done),
                {}, FALSE)

(* The outcome of the per-event loop that settled done and then stopped:   *)
(* at its end, at an error that is transient, or at one that counts.       *)
OutcomeOfLoop(done, processed, counts) ==
    LET attempts == (IF done = {} THEN turn.row.attempts ELSE 0)
                        + (IF counts THEN 1 ELSE 0)
    IN  Outcome(CursorAfter(done), attempts,
                counts /\ attempts >= MaxAttempts,
                processed, done,
                IF done = Deliverable THEN None ELSE Min(Deliverable \ done),
                {}, FALSE)

(* At the gap limit a pass that delivers nothing counts as failed.         *)
EscalateIntakePausedOutcome(o) ==
    IF o.processed # {} \/ o.backingOff
    THEN o
    ELSE [o EXCEPT !.attempts = turn.row.attempts + 1,
                   !.failedId = IF o.failedId # None THEN o.failedId
                                                     ELSE turn.row.lastFailed,
                   !.dead = turn.row.attempts + 1 >= MaxAttempts]

(* The new gaps: ids the cursor moved over without having them in hand,    *)
(* and ids the handler held, with the xmax read now, after the fetch.      *)
NewGaps(o) ==
    GapsFor((turn.row.cursor + 1 .. o.cursor) \ Deliverable, SnapshotXmax)
    \cup {[from |-> i, to |-> i, xmax |-> SnapshotXmax] :
             i \in {j \in o.held : j > turn.row.cursor}}

(* Ids settled this turn leave the surviving gaps; the rest stays.         *)
KeptGaps(o) == SubtractIds(Surviving, o.resolved)

(* The row persistConsumerOutcome writes.                                  *)
RowAfter(o) ==
    [cursor     |-> o.cursor,
     gaps       |-> MergeContiguousGapRanges(KeptGaps(o) \cup NewGaps(o)),
     status     |-> IF o.dead THEN "dead" ELSE "idle",
     attempts   |-> o.attempts,
     rearmCount |-> IF o.processed # {} THEN 0 ELSE turn.row.rearmCount,
     lastFailed |-> o.failedId]

(* markProcessing, the handler calls, and the row to be written.           *)
DeliverConsumerTurn(delivered) ==
    LET o == IF IntakePaused THEN EscalateIntakePausedOutcome(delivered) ELSE delivered
    IN  /\ turn.pc = "fetched"
        /\ turn.pending # {} \/ turn.fresh # {} \/ Burnt # {}
        /\ handled' = handled \cup o.resolved
        /\ turn' = [turn EXCEPT !.pc = "delivered",
                                !.row = RowAfter(o),
                                !.resolved = o.resolved,
                                !.held = o.held]
        /\ UNCHANGED <<logVars, row, rollbacks, resolved, skipped, held>>

DeliverNothing ==
    /\ Deliverable = {}
    /\ DeliverConsumerTurn(NothingDelivered)

(* The batch handler returned; it held some of the events.  It keeps the   *)
(* events of a tenant in order: holding one, it holds the later ones too.  *)
DeliverBatch ==
    /\ HasBatchHandler
    /\ Deliverable # {}
    /\ \E heldIds \in SUBSET Deliverable, backingOff \in BOOLEAN :
          /\ \A i \in heldIds, j \in Deliverable :
                i < j /\ tenantOf[i] = tenantOf[j] => j \in heldIds
          /\ backingOff => heldIds # {}
          /\ DeliverConsumerTurn(OutcomeOfAppliedBatch(heldIds, backingOff))

(* Mutant of DeliverOneByOne: the loop goes on after an event that threw.  *)
DeliverOneByOneWithoutHalt ==
    /\ Deliverable # {}
    /\ \E done \in SUBSET Deliverable, counts \in BOOLEAN :
          /\ counts => done # Deliverable
          /\ ~counts => done = Deliverable \/ HasTransientErrors
          /\ DeliverConsumerTurn(OutcomeOfLoop(done, done, counts))

(* Per event in id order, also after a batch that threw.  A policy that    *)
(* skips apply errors settles every event; otherwise an event is settled   *)
(* by its handler, and the first one that throws halts the pass.           *)
DeliverOneByOne ==
    /\ Deliverable # {}
    /\ \E done \in SUBSET Deliverable, processed \in SUBSET Deliverable, counts \in BOOLEAN :
          /\ \A i \in done, j \in Deliverable : j < i => j \in done
          /\ processed \subseteq done
          /\ IF SkipApplyErrors THEN done = Deliverable ELSE processed = done
          /\ counts => done # Deliverable
          /\ ~counts => done = Deliverable \/ HasTransientErrors
          /\ DeliverConsumerTurn(OutcomeOfLoop(done, processed, counts))

-----------------------------------------------------------------------------
(* The end of a turn.                                                      *)

PersistConsumerOutcome ==
    /\ turn.pc = "delivered"
    /\ row' = turn.row
    /\ resolved' = resolved \cup turn.resolved
    /\ held' = (held \ turn.resolved) \cup turn.held
    /\ turn' = NoTurn
    /\ UNCHANGED <<logVars, rollbacks, handled, skipped>>

(* The transaction is lost; processConsumer's catch records last_error     *)
(* only, and the row keeps its state.                                      *)
RollBackTurn ==
    /\ turn.pc # "idle"
    /\ rollbacks < MaxRollbacks
    /\ rollbacks' = rollbacks + 1
    /\ turn' = NoTurn
    /\ UNCHANGED <<logVars, row, handled, resolved, skipped, held>>

TurnNext ==
    \/ AcquireConsumerState
    \/ FetchPendingEvents
    \/ NothingToDo
    \/ DeliverNothing
    \/ DeliverBatch
    \/ DeliverOneByOne
    \/ PersistConsumerOutcome

Next ==
    \/ LogNext /\ UNCHANGED consumerVars
    \/ TurnNext
    \/ RollBackTurn

Spec == Init /\ [][Next]_vars

(* The poll timer and the commit NOTIFY keep starting turns, and a turn    *)
(* that was started runs to its end; an open transaction ends one way or   *)
(* the other.  Nothing else is promised: no event need ever be written.    *)
Fairness ==
    /\ WF_vars(TurnNext)
    /\ \A w \in Writers :
          WF_vars((CommitWrite(w) \/ RollbackWrite(w)) /\ UNCHANGED consumerVars)

FairSpec == Spec /\ Fairness

-----------------------------------------------------------------------------
(* Properties.                                                             *)

(* A later id was taken by an older transaction: claim and insert are two  *)
(* statements, and one transaction may append several events, so ids need  *)
(* not follow transaction ids.                                             *)
Overtaken(i) ==
    \E j \in EventIds : /\ j > i
                        /\ rowState[j] \in {"visible", "pruned"}
                        /\ xidOf[j] < xidOf[i]

(* Event i will still be offered to the handler by some later turn.        *)
Reachable(i) == i > row.cursor \/ i \in Covered(row.gaps)

Lost(i) == i \in Visible /\ i \notin handled \cup skipped /\ ~Reachable(i)

(* No committed event is lost unless it was overtaken: until it has been   *)
(* handled it lies past the cursor or in a pending gap, however writers    *)
(* commit, roll back or stay open around the turn's statements and         *)
(* whichever turns roll back (processConsumer, partitionBurntGaps).        *)
LostOnlyIfOvertaken == \A i \in EventIds : Lost(i) => Overtaken(i)

(* The same without the exception: what the comments on partitionBurntGaps *)
(* and selectSnapshotXmax promise, a gap is dropped only when every        *)
(* transaction that could still produce a row has finished.                *)
NoEventLost == \A i \in EventIds : ~Lost(i)

(* An event that a committed turn settled is never fetched again: only a   *)
(* rolled back turn makes the dispatcher repeat a delivery (the carving of *)
(* resolvedPendingIds out of pending_gaps, and the cursor).                *)
NoRedeliveryAfterCommit == (turn.pending \cup turn.fresh) \cap resolved = {}

(* The persisted ranges are disjoint, never touch and lie at or below the  *)
(* cursor, which the fetch's UNION ALL and mergeContiguousGapRanges rely   *)
(* on.                                                                     *)
GapsWellFormed ==
    /\ \A g \in row.gaps : g.from <= g.to /\ g.to <= row.cursor
    /\ \A g \in row.gaps, h \in row.gaps :
          g # h => g.to + 1 < h.from \/ h.to + 1 < g.from

(* The event skipPoisonEvent would skip is one the consumer is stuck on:   *)
(* not settled, and still to be offered (last_failed_event_id), unless a   *)
(* prune deleted it since it failed.                                       *)
LastFailedIsRetried ==
    row.lastFailed # None =>
        /\ row.lastFailed \notin resolved
        /\ Reachable(row.lastFailed) \/ rowState[row.lastFailed] = "pruned"

(* The cursor never moves back and an id once settled or given up never    *)
(* returns to pending_gaps, whatever turn commits.                         *)
ProgressNeverUndone ==
    [][ /\ row'.cursor >= row.cursor
        /\ Covered(row'.gaps) \cap 1 .. row.cursor \subseteq Covered(row.gaps) ]_vars

(* Halt on poison: while an event is recorded as failed, the per-event     *)
(* loop handles no later event before that one, also not after a restart,  *)
(* a re-arm or a late commit below it, unless a prune has deleted it       *)
(* (deliverEvents' break).                                                 *)
HaltsOnPoison ==
    [][ \A j \in handled' \ handled :
           row.lastFailed # None /\ j > row.lastFailed
              => \/ row.lastFailed \in handled'
                 \/ rowState[row.lastFailed] = "pruned" ]_vars

(* "No consumer sees a tenant's event before an older one it is still      *)
(* holding": what a batch handler held is handed to it, and settled, no    *)
(* later than any newer event of the same tenant.                          *)
HeldEventsComeFirst ==
    [][ \A j \in handled' \ handled, i \in held :
           i < j /\ tenantOf[i] = tenantOf[j] => i \in handled' ]_vars

(* "Past the limit the consumer takes no new events": a pass that starts   *)
(* with as many ranges as the limit allows leaves the cursor alone and     *)
(* watches no id it did not watch before, whatever is delivered, held or   *)
(* failing meanwhile (isIntakePausedByPendingGapLimit).                    *)
NothingNewAtGapLimit ==
    [][ turn.pc = "fetched" /\ turn'.pc = "delivered" /\ HasBatchHandler
        /\ Cardinality(Surviving) >= MaxPendingGapRanges
           => /\ turn'.row.cursor = turn.row.cursor
              /\ Covered(turn'.row.gaps) \subseteq Covered(turn.row.gaps) ]_vars

(* Every committed event that is not overtaken is eventually handled,      *)
(* unless the consumer ends up dead for good with its re-arms used up.     *)
EventuallyHandled ==
    \/ <>[](row.status = "dead")
    \/ \A i \in EventIds : i \in Visible ~> (i \in handled \/ Overtaken(i))
=============================================================================
