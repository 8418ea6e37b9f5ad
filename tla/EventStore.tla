------------------------------ MODULE EventStore ------------------------------
(***************************************************************************)
(* Appending to streams of one tenant (event-store/event-store.ts append,  *)
(* pipeline/append-event-core.ts, handler-context-events.ts and the        *)
(* executor's writes).  Several handlers run, each in a READ COMMITTED     *)
(* transaction of its own: a statement sees what is committed when it      *)
(* starts, and the transaction's own rows.                                 *)
(*                                                                         *)
(* An append is up to three statements, between which others may commit:   *)
(*                                                                         *)
(*    open --StartAppend--> guarded --ReadVersion--> versioned --+         *)
(*     ^      (archive guard)          (expectedVersion)         |         *)
(*     +--------- InsertEvent, InsertLoses, KeyTaken ------------+         *)
(*                                                                         *)
(* The insert waits while another open transaction holds the version or    *)
(* the idempotency key it needs.                                           *)
(***************************************************************************)
EXTENDS Integers, FiniteSets, FiniteSetsExt

CONSTANTS
    Writers,     \* handlers that run at the same time
    Streams,     \* aggregates of the tenant
    Keys,        \* values of metadata.idempotencyKey
    NoKey,       \* an event without one
    NoStream,    \* a transaction that has loaded no stream
    MaxVersion,  \* bound: events of a stream
    MaxAppends   \* bound: appends a transaction tries

ASSUME EventStoreAssumption ==
    /\ NoKey \notin Keys
    /\ NoStream \notin Streams
    /\ MaxVersion \in Nat
    /\ MaxAppends \in Nat

VARIABLES
    committed,  \* kumiko_events, the rows of committed transactions
    pending,    \* pending[w]: the rows of w's open transaction
    archived,   \* kumiko_archived_streams
    tx          \* tx[w]: where w's handler is

vars == <<committed, pending, archived, tx>>

-----------------------------------------------------------------------------
(* State.                                                                  *)

(* Where the expected version of an append comes from:                     *)
(*   create     0: the executor's create                                   *)
(*   latest     the stream's version, read now: ctx.events.append          *)
(*   pinned     the version that was loaded: a fetchForWriting handle      *)
(*   submitted  read now, and refused unless it is the version loaded:     *)
(*              the executor's update under its optimistic lock            *)
(*   given      any number the caller passes: appendProvenanceEvent,       *)
(*              appendEventInTenantDb                                      *)
Modes == {"create", "latest", "pinned", "submitted", "given"}

(* The paths that call isStreamArchived before they append.                *)
GuardedModes == {"latest", "pinned", "submitted"}

Event == [stream : Streams, version : 1 .. MaxVersion, key : Keys \cup {NoKey}]

(* handle is what fetchForWriting returned: the stream and the version     *)
(* pinned.                                                                 *)
Tx ==
    [pc       : {"idle", "open", "guarded", "versioned"},
     appends  : 0 .. MaxAppends,
     stream   : Streams \cup {NoStream},
     mode     : Modes,
     key      : Keys \cup {NoKey},
     expected : 0 .. MaxVersion,
     handle   : [stream : Streams \cup {NoStream}, version : 0 .. MaxVersion]]

TypeOK ==
    /\ committed \in SUBSET Event
    /\ pending \in [Writers -> SUBSET Event]
    /\ archived \in SUBSET Streams
    /\ tx \in [Writers -> Tx]

NoHandle == [stream |-> NoStream, version |-> 0]

NoTx == [pc |-> "idle", appends |-> 0, stream |-> NoStream,
         mode |-> "latest", key |-> NoKey, expected |-> 0, handle |-> NoHandle]

Init ==
    /\ committed = {}
    /\ pending = [w \in Writers |-> {}]
    /\ archived = {}
    /\ tx = [w \in Writers |-> NoTx]

(* What a statement of w sees.                                             *)
VisibleTo(w) == committed \cup pending[w]

(* Rows of other open transactions, which only an index check meets.       *)
OthersPending(w) == UNION {pending[v] : v \in Writers \ {w}}

Versions(E, s) == {e.version : e \in {d \in E : d.stream = s}}

GetStreamVersion(w, s) == Max(Versions(VisibleTo(w), s) \cup {0})

Moves(w, t) == tx' = [tx EXCEPT ![w] = t]

(* w's handler has finished what it was doing and goes on with h as its    *)
(* handle.                                                                 *)
Continue(w, h) ==
    Moves(w, [NoTx EXCEPT !.pc = "open", !.appends = tx[w].appends, !.handle = h])

-----------------------------------------------------------------------------
(* Transactions.                                                           *)

Begin(w) ==
    /\ tx[w].pc = "idle"
    /\ Continue(w, NoHandle)
    /\ UNCHANGED <<committed, pending, archived>>

Commit(w) ==
    /\ tx[w].pc = "open"
    /\ committed' = committed \cup pending[w]
    /\ pending' = [pending EXCEPT ![w] = {}]
    /\ Moves(w, NoTx)
    /\ UNCHANGED archived

(* An error the handler does not catch, a lost connection, or the victim   *)
(* of a deadlock: savepoints and all, nothing remains.                     *)
Rollback(w) ==
    /\ tx[w].pc # "idle"
    /\ pending' = [pending EXCEPT ![w] = {}]
    /\ Moves(w, NoTx)
    /\ UNCHANGED <<committed, archived>>

-----------------------------------------------------------------------------
(* loadAggregateForWriting: one read for events and version.  An archived  *)
(* stream loads empty and keeps its version.                               *)

LoadForWriting(w, s) ==
    /\ tx[w].pc = "open"
    /\ Continue(w, [stream |-> s, version |-> GetStreamVersion(w, s)])
    /\ UNCHANGED <<committed, pending, archived>>

-----------------------------------------------------------------------------
(* append.                                                                 *)

(* The archive guard; on an archived stream it throws, see Rollback.       *)
ArchiveGuard(s, mode) == mode \in GuardedModes => s \notin archived

(* Only callers that pass their own metadata set an idempotency key.       *)
StartAppend(w, s, mode, key) ==
    /\ tx[w].pc = "open"
    /\ tx[w].appends < MaxAppends
    /\ mode \in {"pinned", "submitted"} => tx[w].handle.stream = s
    /\ key # NoKey => mode = "given"
    /\ ArchiveGuard(s, mode)
    /\ Moves(w, [tx[w] EXCEPT !.pc = "guarded", !.appends = @ + 1,
                              !.stream = s, !.mode = mode, !.key = key])
    /\ UNCHANGED <<committed, pending, archived>>

(* The versions an append may expect, by its mode; none when the executor  *)
(* finds that the submitted version is stale (optimisticLockFailure).      *)
ExpectedVersions(w) ==
    LET current == GetStreamVersion(w, tx[w].stream)
        loaded  == tx[w].handle.version
    IN  CASE tx[w].mode = "create"    -> {0}
          [] tx[w].mode = "latest"    -> {current}
          [] tx[w].mode = "pinned"    -> {loaded}
          [] tx[w].mode = "submitted" -> {current} \cap {loaded}
          [] tx[w].mode = "given"     -> 0 .. MaxVersion

ReadVersion(w) ==
    /\ tx[w].pc = "guarded"
    /\ \E version \in ExpectedVersions(w) :
          Moves(w, [tx[w] EXCEPT !.pc = "versioned", !.expected = version])
    /\ UNCHANGED <<committed, pending, archived>>

StaleVersion(w) ==
    /\ tx[w].pc = "guarded"
    /\ ExpectedVersions(w) = {}
    /\ Continue(w, tx[w].handle)
    /\ UNCHANGED <<committed, pending, archived>>

(* Mutant of HasPredecessor: the WHERE EXISTS is missing.                  *)
NeedsNoPredecessor(w) == TRUE

(* WHERE EXISTS (the predecessor), which a first event does not need.      *)
HasPredecessor(w) ==
    tx[w].expected > 0 => tx[w].expected \in Versions(VisibleTo(w), tx[w].stream)

(* events_aggregate_version_uq: a row of E has the version w wants.        *)
VersionTaken(w, E) == tx[w].expected + 1 \in Versions(E, tx[w].stream)

(* events_idempotency_uq: a row of E has w's key.                          *)
KeyUsed(w, E) == tx[w].key # NoKey /\ \E e \in E : e.key = tx[w].key

NewEvent(w) ==
    [stream |-> tx[w].stream, version |-> tx[w].expected + 1, key |-> tx[w].key]

(* A handle counts the event appended through it.                          *)
HandleAfter(w) ==
    IF tx[w].mode = "pinned"
    THEN [tx[w].handle EXCEPT !.version = @ + 1]
    ELSE tx[w].handle

(* Mutant of InsertEvent: the index does not see open transactions.        *)
InsertEventWithoutWaiting(w) ==
    /\ tx[w].pc = "versioned"
    /\ tx[w].expected < MaxVersion
    /\ HasPredecessor(w)
    /\ ~VersionTaken(w, VisibleTo(w))
    /\ ~KeyUsed(w, VisibleTo(w))
    /\ pending' = [pending EXCEPT ![w] = @ \cup {NewEvent(w)}]
    /\ Continue(w, HandleAfter(w))
    /\ UNCHANGED <<committed, archived>>

(* The INSERT: it has the predecessor, and both indexes let it in.         *)
InsertEvent(w) ==
    /\ tx[w].pc = "versioned"
    /\ tx[w].expected < MaxVersion
    /\ HasPredecessor(w)
    /\ ~VersionTaken(w, VisibleTo(w) \cup OthersPending(w))
    /\ ~KeyUsed(w, VisibleTo(w) \cup OthersPending(w))
    /\ pending' = [pending EXCEPT ![w] = @ \cup {NewEvent(w)}]
    /\ Continue(w, HandleAfter(w))
    /\ UNCHANGED <<committed, archived>>

(* No row: VersionConflictError, which tryAppend and the executor turn     *)
(* into a result; the transaction goes on.                                 *)
InsertLoses(w) ==
    /\ tx[w].pc = "versioned"
    /\ ~HasPredecessor(w) \/ VersionTaken(w, VisibleTo(w))
    /\ Continue(w, tx[w].handle)
    /\ UNCHANGED <<committed, pending, archived>>

(* 23505 on the idempotency index: IdempotentAppendConflictError, caught   *)
(* outside the savepoint of the append.                                    *)
KeyTaken(w) ==
    /\ tx[w].pc = "versioned"
    /\ HasPredecessor(w)
    /\ ~VersionTaken(w, VisibleTo(w) \cup OthersPending(w))
    /\ KeyUsed(w, VisibleTo(w))
    /\ Continue(w, tx[w].handle)
    /\ UNCHANGED <<committed, pending, archived>>

-----------------------------------------------------------------------------
(* Archival, each in a transaction of its own.                             *)

ArchiveStream(s) ==
    /\ archived' = archived \cup {s}
    /\ UNCHANGED <<committed, pending, tx>>

RestoreStream(s) ==
    /\ s \in archived
    /\ archived' = archived \ {s}
    /\ UNCHANGED <<committed, pending, tx>>

Next ==
    \/ \E w \in Writers :
          \/ Begin(w)
          \/ Commit(w)
          \/ Rollback(w)
          \/ \E s \in Streams : LoadForWriting(w, s)
          \/ \E s \in Streams, mode \in Modes, key \in Keys \cup {NoKey} :
                StartAppend(w, s, mode, key)
          \/ ReadVersion(w)
          \/ StaleVersion(w)
          \/ InsertEvent(w)
          \/ InsertLoses(w)
          \/ KeyTaken(w)
    \/ \E s \in Streams : ArchiveStream(s) \/ RestoreStream(s)

Spec == Init /\ [][Next]_vars

-----------------------------------------------------------------------------
(* Properties.                                                             *)

Log == INSTANCE StreamLog WITH events <- committed

(* append implements the abstract store: whatever handlers read too early, *)
(* lose, retry or roll back, each commit extends its streams at their      *)
(* current versions, in one batch, with unused idempotency keys.           *)
ImplementsStreamLog == Log!Spec

(* Every handler sees streams without holes, with one event per version    *)
(* and per idempotency key, at every moment: its own uncommitted events    *)
(* stay on top of whatever the others commit meanwhile (insertFirstEvent,  *)
(* insertSubsequentEvent).                                                 *)
EveryViewConsistent == \A w \in Writers : Log!Consistent(VisibleTo(w))
=============================================================================
