-------------------------- MODULE ProjectionRebuild --------------------------
(***************************************************************************)
(* An inline projection's table and its online rebuild                     *)
(* (pipeline/projection-rebuild.ts, db/queries/shadow-swap.ts), while      *)
(* writers append events and apply them to the same table.                 *)
(*                                                                         *)
(* A command handler appends and applies inside one transaction, one event *)
(* at a time.  The apply of a multi-stream projection has no transaction:  *)
(* its ctx.appendEvent commits the event on its own and applies it to the  *)
(* inline projections afterwards (append-event-core.ts on baseDb).         *)
(*                                                                         *)
(* A rebuild is one transaction at READ COMMITTED.  It replays the log     *)
(* into a shadow table in batches, fences the live table (ACCESS           *)
(* EXCLUSIVE), drains the rest, compares counts and swaps:                 *)
(*                                                                         *)
(*   none -> catchup -> fence -> fenced -> drained -> swap -> none         *)
(*                                            |         ^                  *)
(*                                            +-> rereplay                 *)
(*                                                                         *)
(* Every event is of a subscribed type; each tenant has one stream.        *)
(***************************************************************************)
EXTENDS EventLog

CONSTANTS
    SagaWriters,         \* writers that are applies of multi-stream projections
    RebuildBatchSize,    \* REBUILD_BATCH_SIZE
    MaxUnlockedBatches,  \* MAX_UNLOCKED_BATCHES
    SkipApplyErrors,     \* deps.errorPolicy.skipApplyErrors
    MaxRebuilds          \* bound: rebuilds started

ASSUME ProjectionRebuildAssumption ==
    /\ SagaWriters \subseteq Writers
    /\ RebuildBatchSize \in Nat \ {0}
    /\ MaxUnlockedBatches \in Nat \ {0}
    /\ SkipApplyErrors \in BOOLEAN
    /\ MaxRebuilds \in Nat

VARIABLES
    unapplied,     \* unapplied[w]: the event w has appended and not applied yet
    applied,       \* applied[w]: what w's open transaction did to the live table
    live,          \* live[i]: how often event i went into the live table
    deadLetters,   \* events recorded in kumiko_rebuild_dead_letters
    archived,      \* tenants whose stream has a row in kumiko_archived_streams
    rebuild,       \* the rebuild in progress
    rebuilds,      \* rebuilds started so far
    bySaga,        \* history: ids appended by an MSP apply
    everArchived,  \* history: streams archived at some time
    overlapped     \* history: "no"; or a stream was archived during this
                   \* rebuild ("now"), or during one that has been swapped in

liveVars == <<unapplied, applied, live, deadLetters>>
vars == <<logVars, liveVars, archived, rebuild, rebuilds, bySaga, everArchived, overlapped>>

-----------------------------------------------------------------------------
(* State.                                                                  *)

Times == [EventIds -> 0 .. 2]   \* 2 stands for twice or more

Rebuild ==
    [pc       : {"none", "catchup", "fence", "fenced", "drained", "rereplay", "swap", "failed"},
     cursor   : 0 .. MaxEventId,
     shadow   : Times,
     count    : 0 .. MaxEventId,
     expected : 0 .. MaxEventId,
     batches  : 0 .. MaxUnlockedBatches,
     skipped  : SUBSET EventIds]

Never == [i \in EventIds |-> 0]

Once(times, S) ==
    [i \in EventIds |-> IF i \in S /\ times[i] < 2 THEN times[i] + 1 ELSE times[i]]

NoRebuild == [pc |-> "none", cursor |-> 0, shadow |-> Never, count |-> 0, expected |-> 0,
              batches |-> 0, skipped |-> {}]

TypeOK ==
    /\ LogTypeOK
    /\ unapplied \in [Writers -> 0 .. MaxEventId]
    /\ applied \in [Writers -> SUBSET EventIds]
    /\ live \in Times
    /\ deadLetters \in SUBSET EventIds
    /\ archived \in SUBSET Tenants
    /\ rebuild \in Rebuild
    /\ rebuilds \in 0 .. MaxRebuilds
    /\ bySaga \in SUBSET EventIds
    /\ everArchived \in SUBSET Tenants
    /\ overlapped \in {"no", "now", "yes"}

Init ==
    /\ LogInit
    /\ unapplied = [w \in Writers |-> 0]
    /\ applied = [w \in Writers |-> {}]
    /\ live = Never
    /\ deadLetters = {}
    /\ archived = {}
    /\ rebuild = NoRebuild
    /\ rebuilds = 0
    /\ bySaga = {}
    /\ everArchived = {}
    /\ overlapped = "no"

-----------------------------------------------------------------------------
(* Writers.                                                                *)

rebuildVars == <<archived, rebuild, rebuilds, everArchived, overlapped>>

(* The rebuild's ACCESS EXCLUSIVE lock; it is kept until the transaction   *)
(* ends, and an apply that waited for it goes to the table that then has   *)
(* the name.                                                               *)
LiveTableFenced == rebuild.pc \in {"fenced", "drained", "rereplay", "swap"}

BeginWrite(w) ==
    /\ unapplied[w] = 0
    /\ ClaimXactId(w)
    /\ UNCHANGED <<liveVars, bySaga, rebuildVars>>

(* append(): the archive guard and the INSERT.                             *)
AppendEvent(w) ==
    /\ unapplied[w] = 0
    /\ InsertEvent(w)
    /\ tenantOf[nextId] \notin archived
    /\ unapplied' = [unapplied EXCEPT ![w] = nextId]
    /\ bySaga' = IF w \in SagaWriters THEN bySaga \cup {nextId} ELSE bySaga
    /\ UNCHANGED <<applied, live, deadLetters, rebuildVars>>

(* runProjectionsForEvent in the transaction of a command handler.         *)
RunProjectionsForEvent(w) ==
    /\ w \notin SagaWriters
    /\ unapplied[w] # 0
    /\ ~LiveTableFenced
    /\ applied' = [applied EXCEPT ![w] = @ \cup {unapplied[w]}]
    /\ unapplied' = [unapplied EXCEPT ![w] = 0]
    /\ UNCHANGED <<logVars, live, deadLetters, bySaga, rebuildVars>>

Commit(w) ==
    /\ unapplied[w] = 0 \/ w \in SagaWriters
    /\ CommitWrite(w)
    /\ live' = Once(live, applied[w])
    /\ applied' = [applied EXCEPT ![w] = {}]
    /\ UNCHANGED <<unapplied, deadLetters, bySaga, rebuildVars>>

Rollback(w) ==
    /\ RollbackWrite(w)
    /\ unapplied' = [unapplied EXCEPT ![w] = 0]
    /\ applied' = [applied EXCEPT ![w] = {}]
    /\ UNCHANGED <<live, deadLetters, bySaga, rebuildVars>>

(* runProjectionsForEvent on baseDb, after the event has been committed.   *)
RunProjectionsAfterCommit(w) ==
    /\ w \in SagaWriters
    /\ openXid[w] = 0
    /\ unapplied[w] # 0
    /\ ~LiveTableFenced
    /\ live' = Once(live, {unapplied[w]})
    /\ unapplied' = [unapplied EXCEPT ![w] = 0]
    /\ UNCHANGED <<logVars, applied, deadLetters, bySaga, rebuildVars>>

(* It throws, or the process ends before it ran.                           *)
LoseProjections(w) ==
    /\ w \in SagaWriters
    /\ openXid[w] = 0
    /\ unapplied[w] # 0
    /\ unapplied' = [unapplied EXCEPT ![w] = 0]
    /\ UNCHANGED <<logVars, applied, live, deadLetters, bySaga, rebuildVars>>

-----------------------------------------------------------------------------
(* archiveStream and restoreStream: one statement each, no other lock.     *)

ArchiveStream(t) ==
    /\ t \notin everArchived
    /\ archived' = archived \cup {t}
    /\ everArchived' = everArchived \cup {t}
    /\ overlapped' = IF rebuild.pc # "none" /\ overlapped = "no" THEN "now" ELSE overlapped
    /\ UNCHANGED <<logVars, liveVars, rebuild, rebuilds, bySaga>>

RestoreStream(t) ==
    /\ t \in archived
    /\ archived' = archived \ {t}
    /\ UNCHANGED <<logVars, liveVars, rebuild, rebuilds, bySaga, everArchived, overlapped>>

-----------------------------------------------------------------------------
(* replayProjectionIntoShadow.                                             *)

writerVars == <<logVars, unapplied, applied, archived, bySaga, everArchived>>

(* What both the batch query and the count see.                            *)
SubscribedEvents == {i \in Visible : tenantOf[i] \notin archived}

BeginRebuild ==
    /\ rebuild.pc = "none"
    /\ rebuilds < MaxRebuilds
    /\ rebuild' = [NoRebuild EXCEPT !.pc = "catchup"]
    /\ rebuilds' = rebuilds + 1
    /\ UNCHANGED <<writerVars, live, deadLetters, overlapped>>

(* T is the next batch: the first events past the cursor, by id.           *)
IsNextBatch(T) ==
    LET ahead == {i \in SubscribedEvents : i > rebuild.cursor}
    IN  /\ T \subseteq ahead
        /\ \A i \in T, j \in ahead : j < i => j \in T
        /\ Cardinality(T) = RebuildBatchSize \/ (T = ahead /\ Cardinality(T) < RebuildBatchSize)

(* drainBatch: every event of T is counted; those in Q threw and were      *)
(* quarantined.                                                            *)
Drained(T, Q) ==
    [rebuild EXCEPT !.cursor = IF T = {} THEN @ ELSE Max(T),
                    !.shadow = Once(@, T \ Q),
                    !.count = @ + Cardinality(T),
                    !.skipped = @ \cup Q]

Quarantine(T) == IF SkipApplyErrors THEN SUBSET T ELSE {{}}

(* The lock-free phase ends at a short batch or at the cap.                *)
DrainUnlocked ==
    /\ rebuild.pc = "catchup"
    /\ \E T \in SUBSET SubscribedEvents : \E Q \in Quarantine(T) :
          /\ IsNextBatch(T)
          /\ rebuild' = [Drained(T, Q) EXCEPT
                            !.batches = @ + 1,
                            !.pc = IF \/ Cardinality(T) < RebuildBatchSize
                                      \/ rebuild.batches + 1 = MaxUnlockedBatches
                                   THEN "fence" ELSE "catchup"]
    /\ UNCHANGED <<writerVars, live, deadLetters, rebuilds, overlapped>>

(* fenceLiveTable waits for every transaction that wrote the live table;   *)
(* lock_timeout ends the wait (FailRebuild).                               *)
FenceLiveTable ==
    /\ rebuild.pc = "fence"
    /\ \A w \in Writers : applied[w] = {}
    /\ rebuild' = [rebuild EXCEPT !.pc = "fenced"]
    /\ UNCHANGED <<writerVars, live, deadLetters, rebuilds, overlapped>>

DrainFenced ==
    /\ rebuild.pc = "fenced"
    /\ \E T \in SUBSET SubscribedEvents : \E Q \in Quarantine(T) :
          /\ IsNextBatch(T)
          /\ rebuild' = [Drained(T, Q) EXCEPT
                            !.pc = IF Cardinality(T) < RebuildBatchSize THEN "drained" ELSE "fenced"]
    /\ UNCHANGED <<writerVars, live, deadLetters, rebuilds, overlapped>>

(* Mutant of RestartedReplay: the quarantine is kept.                      *)
RestartedReplayKeepingSkipped(expected) ==
    [NoRebuild EXCEPT !.pc = "rereplay", !.expected = expected, !.skipped = rebuild.skipped]

(* A fresh shadow, and everything from the start.                          *)
RestartedReplay(expected) ==
    [NoRebuild EXCEPT !.pc = "rereplay", !.expected = expected]

(* Mutant of CompareCount: no comparison.                                  *)
CompareCountNever ==
    /\ rebuild.pc = "drained"
    /\ rebuild' = [rebuild EXCEPT !.pc = "swap"]
    /\ UNCHANGED <<writerVars, live, deadLetters, rebuilds, overlapped>>

(* countSubscribedEvents: fewer applied than there are means that a lower  *)
(* id was committed behind the cursor.                                     *)
CompareCount ==
    /\ rebuild.pc = "drained"
    /\ LET expected == Cardinality(SubscribedEvents)
       IN  rebuild' = IF expected > rebuild.count THEN RestartedReplay(expected)
                      ELSE [rebuild EXCEPT !.pc = "swap"]
    /\ UNCHANGED <<writerVars, live, deadLetters, rebuilds, overlapped>>

(* At the short batch, fewer than expected is an error.                    *)
DrainAgain ==
    /\ rebuild.pc = "rereplay"
    /\ \E T \in SUBSET SubscribedEvents : \E Q \in Quarantine(T) :
          LET after == Drained(T, Q)
          IN  /\ IsNextBatch(T)
              /\ rebuild' =
                    IF Cardinality(T) = RebuildBatchSize THEN after
                    ELSE IF after.count < rebuild.expected THEN [NoRebuild EXCEPT !.pc = "failed"]
                    ELSE [after EXCEPT !.pc = "swap"]
    /\ UNCHANGED <<writerVars, live, deadLetters, rebuilds, overlapped>>

(* recordRebuildDeadLetters, swapShadowIntoLive and the commit.            *)
SwapShadowIntoLive ==
    /\ rebuild.pc = "swap"
    /\ live' = rebuild.shadow
    /\ deadLetters' = deadLetters \cup rebuild.skipped
    /\ overlapped' = IF overlapped = "now" THEN "yes" ELSE overlapped
    /\ rebuild' = NoRebuild
    /\ UNCHANGED <<writerVars, rebuilds>>

(* The fence times out, an apply throws, a guard refuses, the connection   *)
(* is lost: the transaction is rolled back and the live table is as it     *)
(* was.                                                                    *)
FailRebuild ==
    /\ rebuild.pc \notin {"none", "failed"}
    /\ rebuild' = [NoRebuild EXCEPT !.pc = "failed"]
    /\ UNCHANGED <<writerVars, live, deadLetters, rebuilds, overlapped>>

(* markProjectionRebuildFailed: the status column of kumiko_projections    *)
(* is for the operator, nothing reads it back.                             *)
MarkProjectionRebuildFailed ==
    /\ rebuild.pc = "failed"
    /\ rebuild' = NoRebuild
    /\ overlapped' = IF overlapped = "now" THEN "no" ELSE overlapped
    /\ UNCHANGED <<writerVars, live, deadLetters, rebuilds>>

RebuildNext ==
    \/ BeginRebuild
    \/ DrainUnlocked
    \/ FenceLiveTable
    \/ DrainFenced
    \/ CompareCount
    \/ DrainAgain
    \/ SwapShadowIntoLive
    \/ FailRebuild
    \/ MarkProjectionRebuildFailed

WriterNext ==
    \E w \in Writers :
       \/ BeginWrite(w)
       \/ AppendEvent(w)
       \/ RunProjectionsForEvent(w)
       \/ Commit(w)
       \/ Rollback(w)
       \/ RunProjectionsAfterCommit(w)
       \/ LoseProjections(w)

Next ==
    \/ WriterNext
    \/ \E t \in Tenants : ArchiveStream(t) \/ RestoreStream(t)
    \/ RebuildNext

Spec == Init /\ [][Next]_vars

-----------------------------------------------------------------------------
(* Properties.                                                             *)

(* Events that the live table has to show: committed, and in a stream that *)
(* was never archived (a rebuild leaves archived streams out).             *)
Expected == {i \in Visible : tenantOf[i] \notin everArchived}

(* The table shows every event that a command handler committed exactly    *)
(* once, and no other event of one, through catch-up, fence, re-replay and *)
(* swap, late commits below the cursor and writers that wait for the fence *)
(* included.  Excepted are events that the rebuild quarantined, and tables *)
(* swapped in by a rebuild during which a stream was archived: then the    *)
(* count can match although an event is missing.                           *)
HandlerEventsShownOnce ==
    overlapped # "yes" =>
        \A i \in EventIds \ bySaga :
           /\ i \in Expected /\ i \notin deadLetters => live[i] = 1
           /\ i \notin Visible => live[i] = 0

(* A quarantined event is not in the table the same rebuild built, also    *)
(* when the replay was started over ("skipped = []").                      *)
DeadLettersAreNotApplied ==
    [][ live' = rebuild.shadow /\ rebuild.pc = "swap" /\ rebuild'.pc = "none"
           => \A i \in rebuild.skipped : live'[i] = 0 ]_vars
=============================================================================
