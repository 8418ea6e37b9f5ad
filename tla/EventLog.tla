------------------------------- MODULE EventLog -------------------------------
(***************************************************************************)
(* kumiko_events as its readers see it: ids handed out by a bigserial      *)
(* sequence, rows that become visible when their transaction commits, and  *)
(* the snapshot bounds (xmin, xmax) Postgres computes from transaction     *)
(* ids.  What append() does to versions and idempotency keys is the        *)
(* subject of EventStore; here only ids, visibility and order matter.      *)
(*                                                                         *)
(* A writer's transaction claims a transaction id (claimXactId), inserts   *)
(* any number of events, and commits or rolls back.  Every one of these    *)
(* is a statement of its own, so writers interleave between them.          *)
(***************************************************************************)
EXTENDS Integers, FiniteSets, FiniteSetsExt

CONSTANTS
    Writers,     \* concurrent connections that append events
    Tenants,     \* tenants the events belong to
    MaxEventId,  \* bound: ids the sequence hands out
    MaxXid       \* bound: transaction ids assigned

ASSUME EventLogAssumption ==
    /\ MaxEventId \in Nat \ {0}
    /\ MaxXid \in Nat
    /\ Tenants # {}

EventIds == 1 .. MaxEventId
Xids     == 1 .. MaxXid

VARIABLES
    nextXid,   \* next transaction id to be assigned
    doneXid,   \* the latest transaction id that has completed
    openXid,   \* openXid[w]: the id of w's transaction, 0 when it has none
    nextId,    \* next value of the id sequence
    rowState,  \* rowState[i]: what has become of event id i
    xidOf,     \* xidOf[i]: the transaction that took id i
    tenantOf   \* tenantOf[i]: the tenant of event i

logVars == <<nextXid, doneXid, openXid, nextId, rowState, xidOf, tenantOf>>

RowStates == {"unassigned", "inflight", "visible", "burnt", "pruned"}

Visible  == {i \in EventIds : rowState[i] = "visible"}
InFlight == {i \in EventIds : rowState[i] = "inflight"}

LogTypeOK ==
    /\ nextXid \in 1 .. MaxXid + 1
    /\ doneXid \in 0 .. MaxXid
    /\ openXid \in [Writers -> 0 .. MaxXid]
    /\ nextId \in 1 .. MaxEventId + 1
    /\ rowState \in [EventIds -> RowStates]
    /\ xidOf \in [EventIds -> 0 .. MaxXid]
    /\ tenantOf \in [EventIds -> Tenants]

(* pg_snapshot_xmax: one past the latest COMPLETED transaction id, not the *)
(* next unassigned one: an assigned, still running id may be above it.     *)
SnapshotXmax == doneXid + 1

(* pg_snapshot_xmin: the oldest running id below xmax, or xmax.            *)
SnapshotXmin ==
    Min({openXid[w] : w \in {v \in Writers : openXid[v] \in 1 .. doneXid}}
            \cup {SnapshotXmax})

LogInit ==
    /\ nextXid = 1
    /\ doneXid = 0
    /\ openXid = [w \in Writers |-> 0]
    /\ nextId = 1
    /\ rowState = [i \in EventIds |-> "unassigned"]
    /\ xidOf = [i \in EventIds |-> 0]
    /\ tenantOf \in [EventIds -> Tenants]

(* SELECT pg_current_xact_id(): the transaction gets its id before its     *)
(* first insert.  Later appends of the same transaction keep the id.       *)
ClaimXactId(w) ==
    /\ openXid[w] = 0
    /\ nextXid <= MaxXid
    /\ openXid' = [openXid EXCEPT ![w] = nextXid]
    /\ nextXid' = nextXid + 1
    /\ UNCHANGED <<doneXid, nextId, rowState, xidOf, tenantOf>>

(* The INSERT of append(): the row takes the next id, invisible to others. *)
InsertEvent(w) ==
    /\ openXid[w] # 0
    /\ nextId <= MaxEventId
    /\ rowState' = [rowState EXCEPT ![nextId] = "inflight"]
    /\ xidOf' = [xidOf EXCEPT ![nextId] = openXid[w]]
    /\ nextId' = nextId + 1
    /\ UNCHANGED <<nextXid, doneXid, openXid, tenantOf>>

(* The INSERT lost a version race (ON CONFLICT DO NOTHING): the sequence   *)
(* value is spent, no row exists, the transaction goes on.                 *)
InsertConflict(w) ==
    /\ openXid[w] # 0
    /\ nextId <= MaxEventId
    /\ rowState' = [rowState EXCEPT ![nextId] = "burnt"]
    /\ xidOf' = [xidOf EXCEPT ![nextId] = openXid[w]]
    /\ nextId' = nextId + 1
    /\ UNCHANGED <<nextXid, doneXid, openXid, tenantOf>>

(* w's transaction completes; its in-flight rows all get state s.          *)
Complete(w, s) ==
    /\ openXid[w] # 0
    /\ rowState' = [i \in EventIds |->
                       IF rowState[i] = "inflight" /\ xidOf[i] = openXid[w]
                       THEN s ELSE rowState[i]]
    /\ doneXid' = IF openXid[w] > doneXid THEN openXid[w] ELSE doneXid
    /\ openXid' = [openXid EXCEPT ![w] = 0]
    /\ UNCHANGED <<nextXid, nextId, xidOf, tenantOf>>

CommitWrite(w)   == Complete(w, "visible")
RollbackWrite(w) == Complete(w, "burnt")

(* A transaction that writes no event (a consumer turn, a job, an admin    *)
(* write) takes an id and completes.                                       *)
OtherTransaction ==
    /\ nextXid <= MaxXid
    /\ nextXid' = nextXid + 1
    /\ doneXid' = nextXid
    /\ UNCHANGED <<openXid, nextId, rowState, xidOf, tenantOf>>

LogNext ==
    \/ \E w \in Writers :
          \/ ClaimXactId(w)
          \/ InsertEvent(w)
          \/ InsertConflict(w)
          \/ CommitWrite(w)
          \/ RollbackWrite(w)
    \/ OtherTransaction
=============================================================================
