---------------------------- MODULE CursorHandover ----------------------------
(***************************************************************************)
(* How a consumer is given a cursor in the middle of the log: registration *)
(* with startFrom "now" (insertConsumerIfAbsent, db/queries/               *)
(* event-consumer.ts) and the rebuild of a multi-stream projection         *)
(* (pipeline/msp-rebuild.ts), while writers commit and turns run.          *)
(*                                                                         *)
(* Both seed pending_gaps from the consumer that is furthest ahead: its    *)
(* gaps are taken over and only the ids past its cursor are scanned.  That *)
(* consumer, the peer, is a second instance of EventDispatcher over the    *)
(* same log.                                                               *)
(*                                                                         *)
(* A rebuild is one transaction at READ COMMITTED that holds the consumer  *)
(* row from its first statement to the commit:                             *)
(*                                                                         *)
(*   none -Begin-> seeded -Replay-> replayed -UpdateCursor-> written -Swap *)
(*     ^             |                 |                        |      |   *)
(*     +--- MarkFailed --- failed <----+------------------------+      |   *)
(*     +---------------------------------------------------------------+   *)
(***************************************************************************)
EXTENDS EventDispatcher

CONSTANTS
    SubscribedIds,      \* ids whose event type the projection subscribes to
    MarkDeadOnFailure,  \* deps.markDeadOnFailure
    MaxRebuilds         \* bound: rebuilds started

ASSUME CursorHandoverAssumption ==
    /\ SubscribedIds \subseteq EventIds
    /\ MarkDeadOnFailure \in BOOLEAN
    /\ MaxRebuilds \in Nat

VARIABLES
    rebuild,       \* the registration or rebuild in progress
    rebuilds,      \* rebuilds started so far
    peerRow,       \* the row of the consumer that is furthest ahead
    peerTurn,      \* its turn in progress
    peerHandled,   \* its histories
    peerResolved

peerVars == <<peerRow, peerTurn, peerHandled, peerResolved>>
handoverVars == <<vars, rebuild, rebuilds, peerVars>>

(* The peer's handler settles every event and its turns do not roll back.  *)
Peer == INSTANCE EventDispatcher WITH
            row <- peerRow, turn <- peerTurn, rollbacks <- 0,
            handled <- peerHandled, resolved <- peerResolved,
            skipped <- {}, held <- {},
            HasBatchHandler <- FALSE, SkipApplyErrors <- TRUE,
            HasTransientErrors <- FALSE, MaxRollbacks <- 0

-----------------------------------------------------------------------------
(* State.                                                                  *)

(* row is the row that the transaction will write.                         *)
Rebuild ==
    [pc       : {"unregistered", "registering", "none", "seeded", "replayed",
                 "written", "failed"},
     horizon  : 0 .. MaxEventId,
     gaps     : SUBSET Gap,
     replayed : SUBSET EventIds,
     row      : Row]

NoRebuild == [pc |-> "none", horizon |-> 0, gaps |-> {}, replayed |-> {}, row |-> NewRow]

HandoverTypeOK ==
    /\ TypeOK
    /\ Peer!TypeOK
    /\ rebuild \in Rebuild
    /\ rebuilds \in 0 .. MaxRebuilds

(* A consumer from the beginning has its row; one that starts from now is  *)
(* registered by a step of its own.                                        *)
HandoverInit ==
    /\ Init
    /\ rebuild \in {NoRebuild, [NoRebuild EXCEPT !.pc = "unregistered"]}
    /\ rebuilds = 0
    /\ peerRow = NewRow
    /\ peerTurn = NoTurn
    /\ peerHandled = {}
    /\ peerResolved = {}

-----------------------------------------------------------------------------
(* selectEventIdHorizonWithMissingRanges: one statement, one snapshot.     *)

Horizon == Max(Visible \cup {0})

(* pg_snapshot_xip: running transactions with an id below xmax.  One that  *)
(* started after the latest completed transaction is not among them.       *)
SnapshotXip == {openXid[w] : w \in Writers} \cap 1 .. doneXid

(* Mutant of MissingRanges: the gaps the peer still watches are left out.  *)
MissingRangesAboveCursorOnly ==
    GapsFor((peerRow.cursor + 1 .. Horizon) \ Visible, SnapshotXmax)

(* The consumer with the highest cursor is the peer, or nobody (cursor 0,  *)
(* no gaps), as the row being rebuilt has been reset by then.              *)
MissingRanges ==
    peerRow.gaps \cup
    (IF SnapshotXip = {} THEN {}
     ELSE GapsFor((peerRow.cursor + 1 .. Horizon) \ Visible, SnapshotXmax))

-----------------------------------------------------------------------------
(* insertConsumerIfAbsent with startFrom "now": read, then insert.         *)

SeedFromNow ==
    /\ rebuild.pc = "unregistered"
    /\ rebuild' = [rebuild EXCEPT !.pc = "registering",
                                  !.replayed = Visible,
                                  !.row = [NewRow EXCEPT !.cursor = Horizon,
                                                         !.gaps = MissingRanges]]
    /\ UNCHANGED <<vars, rebuilds, peerVars>>

(* What was committed when the horizon was read is history: it is skipped. *)
InsertConsumer ==
    /\ rebuild.pc = "registering"
    /\ row' = rebuild.row
    /\ skipped' = rebuild.replayed
    /\ rebuild' = NoRebuild
    /\ UNCHANGED <<logVars, turn, rollbacks, handled, resolved, held, rebuilds, peerVars>>

-----------------------------------------------------------------------------
(* replayMultiStreamProjectionIntoShadow.                                  *)

(* resetConsumerForMspRebuild waits for the turn that holds the row; the   *)
(* reset row is seen by this transaction alone.                            *)
BeginRebuild ==
    /\ rebuild.pc = "none"
    /\ rebuilds < MaxRebuilds
    /\ turn.pc = "idle"
    /\ rebuilds' = rebuilds + 1
    /\ rebuild' = [rebuild EXCEPT !.pc = "seeded", !.horizon = Horizon, !.gaps = MissingRanges]
    /\ UNCHANGED <<vars, peerVars>>

ReplayableIds == {i \in Visible \cap SubscribedIds : i <= rebuild.horizon}

(* The SELECT of the replay is a later snapshot than the horizon's.        *)
ReplayIntoShadow ==
    /\ rebuild.pc = "seeded"
    /\ rebuild' = [rebuild EXCEPT !.pc = "replayed", !.replayed = ReplayableIds]
    /\ UNCHANGED <<vars, rebuilds, peerVars>>

(* Mutants of HandedOverGaps: replayed ids stay in the ranges; ranges      *)
(* reach past the cursor.                                                  *)
HandedOverGapsKeepingReplayed(cursor) ==
    MergeContiguousGapRanges(
        {[g EXCEPT !.xmax = SnapshotXmax] :
            g \in CapPendingGapsBelowCursor(rebuild.gaps, cursor)})

HandedOverGapsUncapped(cursor) ==
    MergeContiguousGapRanges(
        {[g EXCEPT !.xmax = SnapshotXmax] : g \in SubtractIds(rebuild.gaps, rebuild.replayed)})

(* Seeded gaps minus what was replayed, below the cursor, with the xmax    *)
(* read after the replay.                                                  *)
HandedOverGaps(cursor) ==
    MergeContiguousGapRanges(
        {[g EXCEPT !.xmax = SnapshotXmax] :
            g \in CapPendingGapsBelowCursor(SubtractIds(rebuild.gaps, rebuild.replayed), cursor)})

(* updateConsumerRebuildCursor; rearm_count is not touched.                *)
UpdateConsumerRebuildCursor ==
    /\ rebuild.pc = "replayed"
    /\ LET lastProcessed == Max(rebuild.replayed \cup {0})
       IN  rebuild' = [rebuild EXCEPT
                          !.pc = "written",
                          !.row = [NewRow EXCEPT !.cursor = lastProcessed,
                                                 !.gaps = HandedOverGaps(lastProcessed),
                                                 !.rearmCount = row.rearmCount]]
    /\ UNCHANGED <<vars, rebuilds, peerVars>>

(* swapShadowIntoLive and the commit: the table now holds what was         *)
(* replayed and nothing else.  An event of another type has nothing to     *)
(* apply, so it counts as handled.                                         *)
SwapAndCommit ==
    /\ rebuild.pc = "written"
    /\ row' = rebuild.row
    /\ handled' = rebuild.replayed \cup (EventIds \ SubscribedIds)
    /\ resolved' = rebuild.replayed
    /\ skipped' = {}
    /\ held' = {}
    /\ rebuild' = NoRebuild
    /\ UNCHANGED <<logVars, turn, rollbacks, rebuilds, peerVars>>

(* An apply that throws, an abort, a lost connection: all is rolled back.  *)
FailRebuild ==
    /\ rebuild.pc \in {"seeded", "replayed", "written"}
    /\ rebuild' = [NoRebuild EXCEPT !.pc = "failed"]
    /\ UNCHANGED <<vars, rebuilds, peerVars>>

(* markConsumerRebuildFailed is a statement of its own, after the rollback *)
(* and unconditional.                                                      *)
MarkConsumerRebuildFailed ==
    /\ rebuild.pc = "failed"
    /\ MarkDeadOnFailure => turn.pc = "idle"
    /\ row' = IF MarkDeadOnFailure THEN [row EXCEPT !.status = "dead"] ELSE row
    /\ rebuild' = NoRebuild
    /\ UNCHANGED <<logVars, turn, rollbacks, handled, resolved, skipped, held, rebuilds, peerVars>>

-----------------------------------------------------------------------------
(* Turns find the row locked, or not there yet.                            *)

RowLocked == rebuild.pc \notin {"none", "failed"}

HandoverNext ==
    \/ LogNext /\ UNCHANGED <<consumerVars, rebuild, rebuilds, peerVars>>
    \/ ~RowLocked /\ (TurnNext \/ RollBackTurn) /\ UNCHANGED <<rebuild, rebuilds, peerVars>>
    \/ Peer!TurnNext /\ UNCHANGED <<consumerVars, rebuild, rebuilds>>
    \/ SeedFromNow
    \/ InsertConsumer
    \/ BeginRebuild
    \/ ReplayIntoShadow
    \/ UpdateConsumerRebuildCursor
    \/ SwapAndCommit
    \/ FailRebuild
    \/ MarkConsumerRebuildFailed

HandoverSpec == HandoverInit /\ [][HandoverNext]_handoverVars
=============================================================================
