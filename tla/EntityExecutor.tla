--------------------------- MODULE EntityExecutor ---------------------------
(***************************************************************************)
(* One entity of the event-store executor: the write verbs of db/          *)
(* event-store-executor-write.ts, the reads of event-store-executor-       *)
(* read.ts and the entity cache of pipeline/entity-cache.ts between them.  *)
(* A write appends an event, projects it into the entity's row in the same *)
(* transaction and evicts the cached row before that transaction commits;  *)
(* ctx.events.append moves the stream only.                                *)
(*                                                                         *)
(* A step is one SQL statement or Redis command, each statement with a     *)
(* snapshot of its own; append and projection, which nobody else can see   *)
(* between, are one.  A row's content is one column, status, and the other *)
(* columns, named after the version of the write that made them.  Access   *)
(* rules other than the read predicate, encryption, hooks and nested       *)
(* entities are left out.                                                  *)
(***************************************************************************)
EXTENDS Integers, Sequences, SequencesExt

CONSTANTS
    Handlers,    \* requests that run at the same time, and their clients
    Statuses,    \* the values of a column that `expect:` can name
    NoStatus,
    Entities,    \* the declarations that the entity can have
    MaxVersion   \* bound: events of the stream

(* ownership: "sql": reads carry an ownership predicate, "pass": they do   *)
(* not.  softDelete: a deleted row stays, marked.                          *)
Entity == [ownership : {"pass", "sql"}, softDelete : BOOLEAN]

ASSUME EntityExecutorAssumption ==
    /\ NoStatus \notin Statuses
    /\ Entities \subseteq Entity
    /\ MaxVersion \in Nat

VARIABLES
    stream,      \* the committed events of the aggregate
    row,         \* the committed row of the entity table
    pending,     \* pending[h]: events of h's open transaction
    pendingRow,  \* pendingRow[h]: the row as h's transaction has it
    cache,       \* the Redis entry of the row
    tx,          \* tx[h]: where h is
    base,        \* base[h]: the row h's client has, with its version
    entity,      \* the entity's declaration
    tainted,     \* history: a transaction cached rows of its own and rolled back
    swallowed,   \* history: a handler went on after a projection write had failed
    trashCached  \* history: a trash list was cached

storeVars == <<stream, row, pending, pendingRow>>
histVars  == <<tainted, swallowed, trashCached>>
vars == <<storeVars, cache, tx, base, entity, histVars>>

-----------------------------------------------------------------------------
(* State.                                                                  *)

Verbs == {"created", "updated", "deleted", "restored", "forgotten", "domain"}

Content   == [at : 0 .. MaxVersion, status : Statuses \cup {NoStatus}]
NoContent == [at |-> 0, status |-> NoStatus]

Row   == [state : {"none", "live", "trashed"}, version : 0 .. MaxVersion, content : Content]
NoRow == [state |-> "none", version |-> 0, content |-> NoContent]

Event == [verb : Verbs, content : Content]

(* lock: payload.version is compared with the stream's, FALSE for          *)
(* skipOptimisticLock and the verbs without a version.  expect: what the   *)
(* caller expects in the column, NoStatus for no `expect:`.                *)
NoTx == [pc |-> "open", verb |-> "domain", lock |-> FALSE, expect |-> NoStatus,
         previous |-> NoContent, expected |-> 0, got |-> NoRow, since |-> 0, cachedOwn |-> FALSE]

Tx == [pc : {"open", "loaded", "versioned", "failed", "evict", "probe", "snapshot", "set", "mset"},
       verb : Verbs, lock : BOOLEAN, expect : Statuses \cup {NoStatus},
       previous : Content, expected : 0 .. MaxVersion,
       got : Row, since : 0 .. MaxVersion, cachedOwn : BOOLEAN]

TypeOK ==
    /\ stream \in Seq(Event) /\ Len(stream) <= MaxVersion
    /\ row \in Row /\ row.version <= Len(stream)
    /\ pending \in [Handlers -> Seq(Event)]
    /\ pendingRow \in [Handlers -> Row]
    /\ cache \in Row
    /\ tx \in [Handlers -> Tx]
    /\ base \in [Handlers -> Row]
    /\ entity \in Entity
    /\ tainted \in BOOLEAN /\ swallowed \in BOOLEAN /\ trashCached \in BOOLEAN
    /\ \A g, h \in Handlers : pending[g] # <<>> /\ pending[h] # <<>> => g = h

Init ==
    /\ stream = <<>> /\ row = NoRow
    /\ pending = [h \in Handlers |-> <<>>]
    /\ pendingRow = [h \in Handlers |-> NoRow]
    /\ cache = NoRow
    /\ tx = [h \in Handlers |-> NoTx]
    /\ base = [h \in Handlers |-> NoRow]
    /\ entity \in Entities
    /\ tainted = FALSE /\ swallowed = FALSE /\ trashCached = FALSE

(* What a statement of h sees: its own writes on top of what is committed. *)
StreamOf(h) == stream \o pending[h]
RowOf(h)    == IF pending[h] = <<>> THEN row ELSE pendingRow[h]

(* getStreamVersion: MAX(version).                                         *)
VersionOf(h) == Len(StreamOf(h))

Moves(h, t) == tx' = [tx EXCEPT ![h] = t]

(* The event is appended: what led to it is not asked for any more.        *)
Appended(h, pc) ==
    Moves(h, [NoTx EXCEPT !.pc = pc, !.verb = tx[h].verb, !.cachedOwn = tx[h].cachedOwn])

(* The executor has returned to its handler.                               *)
Return(h) == Moves(h, [NoTx EXCEPT !.cachedOwn = tx[h].cachedOwn])

-----------------------------------------------------------------------------
(* applyEntityEvent.                                                       *)

(* An UPDATE of a row that is not there changes nothing.  Without          *)
(* softDelete a deleted row is gone, and a restore is skipped.             *)
ApplyEntityEvent(ent, r, e, version) ==
    CASE e.verb = "created"  -> [state |-> "live", version |-> version, content |-> e.content]
      [] e.verb = "updated" /\ r.state # "none" ->
             [r EXCEPT !.version = version, !.content = e.content]
      [] e.verb = "deleted" /\ ent.softDelete /\ r.state # "none" ->
             [r EXCEPT !.state = "trashed", !.version = version]
      [] e.verb = "restored" /\ ent.softDelete /\ r.state # "none" ->
             [r EXCEPT !.state = "live", !.version = version]
      [] e.verb = "forgotten" \/ (e.verb = "deleted" /\ ~ent.softDelete) -> NoRow
      [] OTHER -> r

(* The row that a rebuild makes of a stream.                               *)
Replayed(ent, s) ==
    LET after[n \in 0 .. Len(s)] ==
            IF n = 0 THEN NoRow ELSE ApplyEntityEvent(ent, after[n - 1], s[n], n)
    IN  after[Len(s)]

-----------------------------------------------------------------------------
(* Transactions.  One opens with the handler's first statement.            *)

Commit(h) ==
    /\ tx[h].pc = "open"
    /\ pending[h] # <<>>
    /\ stream' = StreamOf(h)
    /\ row' = RowOf(h)
    /\ pending' = [pending EXCEPT ![h] = <<>>]
    /\ pendingRow' = [pendingRow EXCEPT ![h] = NoRow]
    /\ Moves(h, NoTx)
    /\ UNCHANGED <<cache, base, entity, histVars>>

(* The client gets no row from a request that failed.                      *)
Rollback(h) ==
    /\ tx[h].pc # "open" \/ pending[h] # <<>>
    /\ pending' = [pending EXCEPT ![h] = <<>>]
    /\ pendingRow' = [pendingRow EXCEPT ![h] = NoRow]
    /\ tainted' = (tainted \/ tx[h].cachedOwn)
    /\ Moves(h, NoTx)
    /\ base' = [base EXCEPT ![h] = NoRow]
    /\ UNCHANGED <<stream, row, cache, entity, swallowed, trashCached>>

-----------------------------------------------------------------------------
(* The write verbs.                                                        *)

(* The statement that loads the row before anything is decided on it; a    *)
(* create and ctx.events.append load none.                                 *)
LoadRow(h, verb, lock, expect) ==
    /\ tx[h].pc = "open"
    /\ lock => base[h] # NoRow
    /\ Moves(h, [tx[h] EXCEPT !.pc = "loaded", !.verb = verb, !.lock = lock, !.expect = expect,
                              !.previous = IF verb \in {"created", "domain"}
                                           THEN NoContent ELSE RowOf(h).content])
    /\ UNCHANGED <<storeVars, cache, base, entity, histVars>>

Create(h) == LoadRow(h, "created", FALSE, NoStatus)

(* loadById, with the soft-delete predicate unless includeDeleted.         *)
Update(h, lock, expect, includeDeleted) ==
    /\ RowOf(h).state = "live" \/ (includeDeleted /\ RowOf(h).state = "trashed")
    /\ LoadRow(h, "updated", lock, expect)

Delete(h, expect) == RowOf(h).state = "live" /\ LoadRow(h, "deleted", FALSE, expect)

Forget(h) == RowOf(h).state # "none" /\ LoadRow(h, "forgotten", FALSE, NoStatus)

(* loadSoftDeletedRow.                                                     *)
Restore(h) ==
    /\ entity.softDelete
    /\ RowOf(h).state = "trashed"
    /\ LoadRow(h, "restored", FALSE, NoStatus)

(* ctx.events.append looks at no row.                                      *)
AppendDomainEvent(h) == LoadRow(h, "domain", FALSE, NoStatus)

(* Mutant of VersionAccepted: optimisticLockFailure is not asked.          *)
VersionAlwaysAccepted(h) == TRUE

(* expectedStreamVersion: the row is there and the column it names has the *)
(* value, in the statement that reads the version.  optimisticLockFailure: *)
(* that version is the client's.                                           *)
VersionAccepted(h) ==
    /\ tx[h].expect # NoStatus =>
          RowOf(h).state # "none" /\ RowOf(h).content.status = tx[h].expect
    /\ tx[h].lock => base[h].version = VersionOf(h)

(* currentStreamVersion; a create expects no stream.                       *)
CurrentStreamVersion(h) ==
    /\ tx[h].pc = "loaded"
    /\ IF VersionAccepted(h)
       THEN Moves(h, [tx[h] EXCEPT !.pc = "versioned",
                        !.expected = IF tx[h].verb = "created" THEN 0 ELSE VersionOf(h)])
       ELSE Return(h)
    /\ UNCHANGED <<storeVars, cache, base, entity, histVars>>

NewEvent(h, status) ==
    [verb |-> tx[h].verb,
     content |-> IF tx[h].verb \in {"created", "updated"}
                 THEN [at |-> tx[h].expected + 1, status |-> status] ELSE NoContent]

(* Mutant of IsNext: the index does not see open transactions.             *)
IsNextCommitted(h) == tx[h].expected = VersionOf(h)

(* The predecessor is there, and events_aggregate_version_uq makes h wait  *)
(* while another transaction has appended.                                 *)
IsNext(h) ==
    /\ tx[h].expected = VersionOf(h)
    /\ \A g \in Handlers \ {h} : pending[g] = <<>>

(* append, then applyProjection in a savepoint of its own.  It fails on a  *)
(* unique index of the entity, and an update or restore of a row that is   *)
(* gone returns no row; the event stays.                                   *)
AppendEvent(h, status) ==
    LET e       == NewEvent(h, status)
        version == tx[h].expected + 1
        isGone  == e.verb \in {"updated", "restored"} /\ RowOf(h).state = "none"
    IN  /\ tx[h].pc = "versioned"
        /\ version <= MaxVersion
        /\ IsNext(h)
        /\ pending' = [pending EXCEPT ![h] = Append(@, e)]
        /\ \/ /\ ~isGone
              /\ pendingRow' =
                     [pendingRow EXCEPT ![h] = ApplyEntityEvent(entity, RowOf(h), e, version)]
              /\ IF e.verb = "domain" THEN Return(h) ELSE Appended(h, "evict")
           \/ /\ isGone \/ e.verb \in {"created", "updated", "restored"}
              /\ pendingRow' = [pendingRow EXCEPT ![h] = RowOf(h)]
              /\ Appended(h, "failed")
        /\ UNCHANGED <<stream, row, cache, base, entity, histVars>>

(* appendConflictFailure: a result, and the transaction goes on.           *)
AppendConflict(h) ==
    /\ tx[h].pc = "versioned"
    /\ tx[h].expected < VersionOf(h)
    /\ Return(h)
    /\ UNCHANGED <<storeVars, cache, base, entity, histVars>>

(* The handler goes on although its write returned a failure (a handler    *)
(* that passes the failure on ends in Rollback).                           *)
IgnoreFailure(h) ==
    /\ tx[h].pc = "failed"
    /\ swallowed' = TRUE
    /\ Return(h)
    /\ UNCHANGED <<storeVars, cache, base, entity, tainted, trashCached>>

(* evictCachedEntity, and the verb returns the row it wrote, if any.       *)
EvictCachedEntity(h) ==
    /\ tx[h].pc = "evict"
    /\ cache' = NoRow
    /\ base' = [base EXCEPT ![h] = IF tx[h].verb \in {"deleted", "forgotten"}
                                   THEN NoRow ELSE RowOf(h)]
    /\ Return(h)
    /\ UNCHANGED <<storeVars, entity, histVars>>

-----------------------------------------------------------------------------
(* detail().                                                               *)

(* An entity without a stream keeps the row's own version.                 *)
WithStreamVersion(r, version) == IF version > 0 THEN [r EXCEPT !.version = version] ELSE r

Answer(h, r) ==
    /\ base' = [base EXCEPT ![h] = r]
    /\ Return(h)

GetCached(h) ==
    /\ tx[h].pc = "open"
    /\ Moves(h, [tx[h] EXCEPT !.pc = IF cache = NoRow THEN "snapshot" ELSE "probe",
                              !.got = cache, !.since = VersionOf(h)])
    /\ UNCHANGED <<storeVars, cache, base, entity, histVars>>

(* Mutant of CacheHitCounts: a hit counts whatever the stream's version.   *)
CacheHitAlwaysCounts(h) == TRUE

(* A hit only counts when its version is the live stream version, but any  *)
(* hit counts when there is no stream.                                     *)
CacheHitCounts(h) == VersionOf(h) > 0 => tx[h].got.version = VersionOf(h)

(* Mutant of IsOwned: the cached row is not checked against the table.     *)
IsOwnedUnchecked(h) == TRUE

(* probeOwnershipWithStreamVersion: the row's predicates, isDeleted with   *)
(* them, in the statement that reads the version.                          *)
IsOwned(h) == entity.ownership = "sql" => RowOf(h).state = "live"

Probe(h) ==
    /\ tx[h].pc = "probe"
    /\ \/ /\ ~IsOwned(h)
          /\ Answer(h, NoRow)
       \/ /\ IsOwned(h) /\ CacheHitCounts(h)
          /\ Answer(h, WithStreamVersion(tx[h].got, VersionOf(h)))
       \/ /\ IsOwned(h) /\ ~CacheHitCounts(h)
          /\ Moves(h, [tx[h] EXCEPT !.pc = "snapshot", !.got = NoRow])
          /\ UNCHANGED base
    /\ UNCHANGED <<storeVars, cache, entity, histVars>>

(* Row and version in one statement.                                       *)
LoadDetailSnapshot(h) ==
    /\ tx[h].pc = "snapshot"
    /\ IF RowOf(h).state = "live"
       THEN /\ Moves(h, [tx[h] EXCEPT !.pc = "set",
                           !.got = WithStreamVersion(RowOf(h), VersionOf(h))])
            /\ UNCHANGED base
       ELSE Answer(h, NoRow)
    /\ UNCHANGED <<storeVars, cache, entity, histVars>>

(* The row goes into the cache, also when the transaction that reads it    *)
(* has itself written it.                                                  *)
Caching(h) ==
    /\ cache' = tx[h].got
    /\ Moves(h, [NoTx EXCEPT !.cachedOwn = tx[h].cachedOwn \/ pending[h] # <<>>])

SetCached(h) ==
    /\ tx[h].pc = "set"
    /\ Caching(h)
    /\ base' = [base EXCEPT ![h] = tx[h].got]
    /\ UNCHANGED <<storeVars, entity, histVars>>

-----------------------------------------------------------------------------
(* list(), of the live rows or of the trash: the stored row, with the      *)
(* row's own version, is cached; the client gets the stream's version.     *)

List(h, state) ==
    /\ tx[h].pc = "open"
    /\ RowOf(h).state = state
    /\ Moves(h, [tx[h] EXCEPT !.pc = "mset", !.got = RowOf(h)])
    /\ base' = [base EXCEPT ![h] = WithStreamVersion(RowOf(h), VersionOf(h))]
    /\ UNCHANGED <<storeVars, cache, entity, histVars>>

MSetCached(h) ==
    /\ tx[h].pc = "mset"
    /\ Caching(h)
    /\ trashCached' = (trashCached \/ tx[h].got.state = "trashed")
    /\ UNCHANGED <<storeVars, base, entity, tainted, swallowed>>

(* The entry's TTL ends.                                                   *)
ExpireCached ==
    /\ cache # NoRow
    /\ cache' = NoRow
    /\ UNCHANGED <<storeVars, tx, base, entity, histVars>>

-----------------------------------------------------------------------------

WriteStep(h) ==
    \/ Create(h) \/ Forget(h) \/ Restore(h) \/ AppendDomainEvent(h)
    \/ \E expect \in Statuses \cup {NoStatus} :
          \/ \E lock, includeDeleted \in BOOLEAN : Update(h, lock, expect, includeDeleted)
          \/ Delete(h, expect)
    \/ CurrentStreamVersion(h)
    \/ \E status \in Statuses : AppendEvent(h, status)
    \/ AppendConflict(h) \/ IgnoreFailure(h) \/ EvictCachedEntity(h)

ReadStep(h) ==
    \/ GetCached(h) \/ Probe(h) \/ LoadDetailSnapshot(h) \/ SetCached(h)
    \/ \E state \in {"live", "trashed"} : List(h, state)
    \/ MSetCached(h)

Next ==
    \/ \E h \in Handlers : Commit(h) \/ Rollback(h) \/ WriteStep(h) \/ ReadStep(h)
    \/ ExpireCached

Spec == Init /\ [][Next]_vars

-----------------------------------------------------------------------------
(* Properties.                                                             *)

(* "Live==Rebuild": the committed row is the one that a replay of the      *)
(* committed stream makes, however transactions interleave, unless a       *)
(* handler went on after the projection write of its event had failed.     *)
LiveIsRebuild == swallowed \/ row = Replayed(entity, stream)

Appends(h) == tx[h].pc = "versioned" /\ pending'[h] # pending[h]

(* No lost update: a write that passes the optimistic lock builds on the   *)
(* very row its client was shown, whether that came from the table, a list *)
(* or the cache, unless a transaction that rolled back had cached rows it  *)
(* had written; and a write with `expect:` finds the expected value in the *)
(* row when its event is appended, a statement after it was compared,      *)
(* whatever others have done to the rest of the row.                       *)
BuildsOnWhatWasSeen ==
    [][ \A h \in Handlers : Appends(h) =>
           /\ tx[h].lock /\ ~tainted => RowOf(h).content = base[h].content
           /\ tx[h].expect # NoStatus => RowOf(h).content.status = tx[h].expect ]_vars

(* The row that an update under the optimistic lock puts into its event as *)
(* "previous" is the one it replaces, although it was loaded before the    *)
(* version was read.                                                       *)
PreviousIsReplaced ==
    [][ \A h \in Handlers : Appends(h) /\ tx[h].lock /\ ~tainted
           => tx[h].previous = RowOf(h).content ]_vars

DetailAnswers(h) == tx[h].pc \in {"probe", "set"} /\ tx'[h].pc = "open" /\ base'[h] # NoRow

(* detail() is never older than what was committed when it was called, and *)
(* row and version belong together, also when a late set or mset has put   *)
(* an old row back after the writer's del.  Only while there is no stream  *)
(* yet can it show a row that is not committed: one of the transaction     *)
(* that is still creating the entity, its current row if the versions are  *)
(* the same.                                                               *)
DetailIsCurrent ==
    [][ \A h \in Handlers : DetailAnswers(h) /\ ~tainted /\ ~swallowed =>
           IF VersionOf(h) > 0
           THEN /\ base'[h].version \in tx[h].since .. VersionOf(h)
                /\ base'[h].content
                      = Replayed(entity, SubSeq(StreamOf(h), 1, base'[h].version)).content
           ELSE \E g \in Handlers :
                   /\ pending[g] # <<>> /\ base'[h].version \in 1 .. VersionOf(g)
                   /\ base'[h].version = VersionOf(g) => base'[h].content = RowOf(g).content ]_vars

(* detail() shows no soft-deleted row, unless its reads carry no ownership *)
(* predicate and a trash list was cached.                                  *)
DetailHidesTrash ==
    [][ \A h \in Handlers : DetailAnswers(h) /\ base'[h].state = "trashed" /\ ~tainted
           => entity.ownership = "pass" /\ trashCached ]_vars
=============================================================================
