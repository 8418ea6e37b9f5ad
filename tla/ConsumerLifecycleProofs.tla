----------------------- MODULE ConsumerLifecycleProofs -----------------------
(***************************************************************************)
(* What the inductive invariants of EventDispatcherProofs give once more   *)
(* than turns and writers act on a consumer's row.                         *)
(*                                                                         *)
(* The first part shows that the operators of ConsumerAdmin and the prunes *)
(* of EventRetention keep IInv and RecordInv, in any interleaving with     *)
(* writers, turns and crashes.                                             *)
(*                                                                         *)
(* The second part is CursorHandover: a row that starts in the middle of   *)
(* the log with the gaps of a peer, or that a rebuild writes while writers *)
(* and the peer go on.  It needs the invariants twice: for the consumer,   *)
(* and for the peer its gaps come from, as an instance of the same proofs. *)
(*                                                                         *)
(*    HandoverTypeCorrect       HandoverSpec => []HandoverTypeOK           *)
(*    NoSilentLossAtHandover    HandoverSpec => []LostOnlyIfOvertaken      *)
(*    SettledOnceAtHandover     HandoverSpec => []NoRedeliveryAfterCommit  *)
(*    RangesWellFormedAtHandover  HandoverSpec => []GapsWellFormed         *)
(***************************************************************************)
EXTENDS EventRetention, CursorHandover, EventDispatcherProofs

-----------------------------------------------------------------------------
(* Operators.                                                              *)

(* A status update leaves cursor, gaps and the failed event alone.         *)
LEMMA WithStatusRow ==
    ASSUME NEW r \in Row, NEW s \in {"idle", "disabled"}
    PROVE  /\ WithStatus(r, s) \in Row
           /\ WithStatus(r, s).cursor = r.cursor /\ WithStatus(r, s).gaps = r.gaps
           /\ WithStatus(r, s).lastFailed = r.lastFailed
           /\ WithStatus(r, s).attempts = 0
<1>1. ASSUME NEW a \in 0 .. MaxAttempts, NEW b \in 0 .. MaxRearmCount
      PROVE  [r EXCEPT !.status = s, !.attempts = a, !.rearmCount = b] \in Row
  BY DEF Row
<1>2. 0 \in 0 .. MaxAttempts /\ 0 \in 0 .. MaxRearmCount
  BY EventDispatcherAssumption
<1>3. WithStatus(r, s) \in Row
  BY <1>1, <1>2 DEF WithStatus
<1>4. /\ WithStatus(r, s).cursor = r.cursor /\ WithStatus(r, s).gaps = r.gaps
      /\ WithStatus(r, s).lastFailed = r.lastFailed /\ WithStatus(r, s).attempts = 0
  BY DEF WithStatus, Row
<1> QED
  BY <1>3, <1>4

(* A skip returns the row to idle and clears the failed event.             *)
LEMMA SettledRow ==
    ASSUME NEW r \in Row
    PROVE  /\ Settled(r) \in Row /\ Settled(r).cursor = r.cursor
           /\ Settled(r).lastFailed = None /\ Settled(r).attempts = 0
<1> DEFINE w == WithStatus(r, "idle")
           n == None
<1>1. w \in Row /\ w.cursor = r.cursor /\ w.attempts = 0
  BY WithStatusRow
<1>2. n \in 0 .. MaxEventId
  BY EventLogAssumption DEF None
<1>3. Settled(r) = [w EXCEPT !.lastFailed = n]
  BY DEF Settled
<1> HIDE DEF w, n
<1>4. LET e == [w EXCEPT !.lastFailed = n]
      IN  e \in Row /\ e.cursor = r.cursor /\ e.attempts = 0 /\ e.lastFailed = n
  BY <1>1, <1>2 DEF Row
<1> QED
  BY <1>3, <1>4 DEF n

(* restart, enable and disable: the update waits for the row lock.         *)
LEMMA StatusKeepsIInv ==
    ASSUME IInv, RowUnlocked, NEW s \in {"idle", "disabled"}, row' = WithStatus(row, s),
           UNCHANGED <<logVars, turn, rollbacks, handled, resolved, skipped, held>>
    PROVE  IInv'
<1> USE DEF IInv, TypeOK
<1>1. /\ row' \in Row /\ row'.cursor = row.cursor /\ row'.gaps = row.gaps
      /\ row'.lastFailed = row.lastFailed /\ row'.attempts = 0
  BY WithStatusRow
<1>2. turn' = NoTurn
  BY DEF RowUnlocked, LockInv
<1>3. row'.status = "idle" => row'.attempts < MaxAttempts
  BY <1>1, EventDispatcherAssumption
<1>4. row'.cursor < nextId /\ SettledIn(row', resolved')
  BY <1>1 DEF LockInv, SettledInv, SettledIn
<1>5. \A i \in EventIds :
         i <= row'.cursor /\ i \in InFlight \cup Visible /\ i \notin handled \cup skipped'
            => \/ Overtaken(i)
               \/ \E g \in row'.gaps : i \in IdsOf(g) /\ xidOf[i] < g.xmax
  BY <1>1 DEF WatchInv, Watched
<1>6. WellFormed(row') /\ (row'.lastFailed # None => row'.lastFailed \in Committed)
  BY <1>1 DEF RowInv, WellFormed
<1> QED
  BY <1>1, <1>2, <1>3, <1>4, <1>5, <1>6, TurnEnds

(* What skipPoisonEvent takes for the poison: a pending id, or one that    *)
(* was committed past the cursor.                                          *)
LEMMA SkipTarget ==
    ASSUME IInv, NEW id \in EventIds
    PROVE  /\ SkipPending(id) => id \in Covered(row.gaps)
           /\ SkipAhead(id) => id \in Committed /\ id > row.cursor
<1> USE DEF IInv, TypeOK
<1>1. ASSUME SkipPending(id) PROVE id \in Covered(row.gaps)
  <2>1. CASE FailedIsPending
    BY <1>1, <2>1 DEF SkipPending, FailedIsPending
  <2>2. CASE ~FailedIsPending
    <3>1. VisiblePending # {} /\ id = Min(VisiblePending)
      BY <1>1, <2>2 DEF SkipPending
    <3>2. VisiblePending \subseteq 1 .. MaxEventId
      BY DEF VisiblePending, Visible, EventIds
    <3>3. id \in VisiblePending
      BY <3>1, <3>2, MinOfIds
    <3> QED
      BY <3>3 DEF VisiblePending
  <2> QED
    BY <2>1, <2>2
<1>2. ASSUME SkipAhead(id) PROVE id \in Committed /\ id > row.cursor
  <2>1. CASE FailedIsAboveCursor
    BY <1>2, <2>1 DEF SkipAhead, FailedIsAboveCursor, RowInv
  <2>2. CASE ~FailedIsAboveCursor
    <3>1. VisibleAhead # {} /\ id = Min(VisibleAhead)
      BY <1>2, <2>2 DEF SkipAhead
    <3>2. VisibleAhead \subseteq 1 .. MaxEventId
      BY DEF VisibleAhead, Visible, EventIds
    <3>3. id \in VisibleAhead
      BY <3>1, <3>2, MinOfIds
    <3> QED
      BY <3>3 DEF VisibleAhead, Visible, Committed
  <2> QED
    BY <2>1, <2>2
<1> QED
  BY <1>1, <1>2

(* A row whose gaps are the merged entries G is well formed and watches    *)
(* what G watches.                                                         *)
LEMMA MergedRow ==
    ASSUME NEW G, G \subseteq Gap, NEW r, r.gaps = MergeContiguousGapRanges(G),
           \A i \in Covered(G) : i <= r.cursor
    PROVE  /\ WellFormed(r)
           /\ Covered(r.gaps) \subseteq Covered(G)
           /\ \A g \in G : \A i \in IdsOf(g) : \E m \in r.gaps : i \in IdsOf(m) /\ g.xmax <= m.xmax
<1> DEFINE M == MergeContiguousGapRanges(G)
<1>1. G \subseteq Entries(MaxEventId, MaxXid + 1)
  BY GapIsEntry
<1>2. /\ Covered(M) \subseteq Covered(G)
      /\ \A g \in G : \A i \in IdsOf(g) : \E m \in M : i \in IdsOf(m) /\ g.xmax <= m.xmax
  BY <1>1, GapIsEntry, MergeSafe
<1>3. /\ \A m \in M : m.from <= m.to /\ m.to \in Covered(G)
      /\ \A m, n \in M : m # n => m.to + 1 < n.from \/ n.to + 1 < m.from
  BY <1>1, GapIsEntry, MergeSeparates
<1>4. r.gaps = M
  OBVIOUS
<1> HIDE DEF M
<1> QED
  BY <1>2, <1>3, <1>4 DEF WellFormed

(* Merged entries are gaps.                                                *)
LEMMA MergedGaps ==
    ASSUME NEW G, G \subseteq Gap
    PROVE  MergeContiguousGapRanges(G) \subseteq Gap
<1>1. G \subseteq Entries(MaxEventId, MaxXid + 1)
  BY GapIsEntry
<1> QED
  BY <1>1, GapIsEntry, MergeSafe

(* skipPoisonEvent of a pending id.                                        *)
LEMMA SkipPendingRow ==
    ASSUME IInv, NEW id \in EventIds, SkipPending(id)
    PROVE  /\ row' \in Row /\ row'.cursor = row.cursor
           /\ row'.lastFailed = None /\ row'.attempts = 0 /\ WellFormed(row')
           /\ Covered(row'.gaps) \subseteq Covered(row.gaps) \ {id}
           /\ \A g \in row.gaps : \A i \in IdsOf(g) \ {id} :
                 \E m \in row'.gaps : i \in IdsOf(m) /\ g.xmax <= m.xmax
           /\ row'.gaps \subseteq Gap
<1> DEFINE ids == {id}
           G == SubtractIds(row.gaps, ids)
<1>1. row \in Row /\ row.gaps \subseteq Gap /\ row.cursor \in 0 .. MaxEventId /\ WellFormed(row)
  BY DEF IInv, TypeOK, Row, RowInv
<1>2. row.gaps \subseteq Entries(MaxEventId, MaxXid + 1)
  BY <1>1, GapIsEntry
<1>3. /\ G \subseteq Gap
      /\ Covered(G) \subseteq Covered(row.gaps) \ ids
      /\ \A g \in row.gaps : \A i \in IdsOf(g) \ ids :
            \E h \in G : i \in IdsOf(h) /\ h.xmax = g.xmax
  <2> HIDE DEF ids
  <2> QED
    BY <1>2, GapIsEntry, SubtractExact
<1> HIDE DEF G
<1>4. \A i \in Covered(G) : i <= row.cursor
  BY <1>1, <1>3, CoveredBelowCursor
<1> DEFINE M == MergeContiguousGapRanges(G)
<1>5. M \subseteq Gap /\ row' = [Settled(row) EXCEPT !.gaps = M]
  BY <1>3, MergedGaps DEF SkipPending, G
<1> HIDE DEF M
<1>6. /\ row' \in Row /\ row'.cursor = row.cursor /\ row'.gaps = M
      /\ row'.lastFailed = None /\ row'.attempts = 0
  <2> DEFINE e == Settled(row)
  <2>1. e \in Row /\ e.cursor = row.cursor /\ e.lastFailed = None /\ e.attempts = 0
    BY <1>1, SettledRow
  <2>2. row' = [e EXCEPT !.gaps = M] /\ M \in SUBSET Gap
    BY <1>5
  <2> HIDE DEF e
  <2> QED
    BY <2>1, <2>2 DEF Row
<1>7. row'.gaps = MergeContiguousGapRanges(G) /\ \A i \in Covered(G) : i <= row'.cursor
  BY <1>4, <1>6 DEF M
<1>8. /\ WellFormed(row')
      /\ Covered(row'.gaps) \subseteq Covered(G)
      /\ \A g \in G : \A i \in IdsOf(g) : \E m \in row'.gaps : i \in IdsOf(m) /\ g.xmax <= m.xmax
  BY <1>3, <1>7, MergedRow
<1> QED
  BY <1>3, <1>5, <1>6, <1>8

(* skipPoisonEvent of an id past the cursor: the ids in between become a   *)
(* gap with the xmax of this moment.                                       *)
LEMMA SkipAheadRow ==
    ASSUME IInv, NEW id \in EventIds, SkipAhead(id)
    PROVE  /\ row' \in Row /\ row'.cursor = id
           /\ row'.lastFailed = None /\ row'.attempts = 0 /\ WellFormed(row')
           /\ Covered(row'.gaps) \subseteq Covered(row.gaps) \cup (row.cursor + 1 .. id - 1)
           /\ \A g \in row.gaps : \A i \in IdsOf(g) :
                 \E m \in row'.gaps : i \in IdsOf(m) /\ g.xmax <= m.xmax
           /\ \A i \in row.cursor + 1 .. id - 1 :
                 \E m \in row'.gaps : i \in IdsOf(m) /\ SnapshotXmax <= m.xmax
           /\ row'.gaps \subseteq Gap
<1> DEFINE S == row.cursor + 1 .. id - 1
           x == SnapshotXmax
           N == GapsFor(S, x)
           G == row.gaps \cup N
<1>1. /\ row \in Row /\ row.gaps \subseteq Gap /\ row.cursor \in 0 .. MaxEventId /\ WellFormed(row)
      /\ id \in 1 .. MaxEventId /\ id > row.cursor /\ MaxEventId \in Nat
  BY SkipTarget, EventLogAssumption DEF IInv, TypeOK, Row, RowInv, EventIds
<1>2. S \subseteq 1 .. MaxEventId /\ \A i \in S : i <= id
  BY <1>1
<1>3. x \in 1 .. MaxXid + 1
  BY EventLogAssumption DEF IInv, TypeOK, LogTypeOK, SnapshotXmax
<1> DEFINE M == MergeContiguousGapRanges(G)
<1>4. row' = [Settled(row) EXCEPT !.cursor = id, !.gaps = M]
  BY DEF SkipAhead
<1> HIDE DEF x, S
<1>5. /\ \A i \in S : \E g \in N : i \in IdsOf(g) /\ g.xmax = x
      /\ \A g \in N :
            /\ g = [from |-> g.from, to |-> g.to, xmax |-> x]
            /\ g.from \in S /\ g.to \in S /\ IdsOf(g) \subseteq S
  BY <1>1, <1>2, GapsForCovers
<1> HIDE DEF N
<1>6. N \subseteq Gap
  BY <1>2, <1>3, <1>5 DEF Gap, EventIds
<1>7. Covered(G) \subseteq Covered(row.gaps) \cup S
  BY <1>5 DEF Covered
<1>8. \A i \in Covered(G) : i <= id
  <2>1. ASSUME NEW i \in Covered(row.gaps) PROVE i <= id
    <3>1. i \in Int /\ i <= row.cursor
      BY <1>1, CoveredBelowCursor
    <3> QED
      BY <1>1, <3>1
  <2> QED
    BY <1>2, <1>7, <2>1
<1>9. G \subseteq Gap
  BY <1>1, <1>6
<1> HIDE DEF G
<1>10. id \in 0 .. MaxEventId
  BY <1>1
<1>11. M \subseteq Gap
  BY <1>9, MergedGaps
<1>12. /\ row' \in Row /\ row'.cursor = id /\ row'.gaps = M
       /\ row'.lastFailed = None /\ row'.attempts = 0
  <2> DEFINE e == Settled(row)
  <2>1. e \in Row /\ e.cursor = row.cursor /\ e.lastFailed = None /\ e.attempts = 0
    BY <1>1, SettledRow
  <2>2. row' = [e EXCEPT !.cursor = id, !.gaps = M] /\ M \in SUBSET Gap
    BY <1>4, <1>11
  <2> HIDE DEF e, M
  <2> QED
    BY <1>10, <2>1, <2>2 DEF Row
<1>13. /\ WellFormed(row')
       /\ Covered(row'.gaps) \subseteq Covered(G)
       /\ \A g \in G : \A i \in IdsOf(g) : \E m \in row'.gaps : i \in IdsOf(m) /\ g.xmax <= m.xmax
  BY <1>8, <1>9, <1>12, MergedRow
<1>14. ASSUME NEW i \in S PROVE \E m \in row'.gaps : i \in IdsOf(m) /\ x <= m.xmax
  <2>1. PICK g \in N : i \in IdsOf(g) /\ g.xmax = x
    BY <1>5
  <2>2. g \in G
    BY DEF G
  <2> QED
    BY <1>13, <2>1, <2>2
<1>15. row.gaps \subseteq G
  BY DEF G
<1> HIDE DEF M
<1> QED
  BY <1>7, <1>13, <1>14, <1>15, <1>11, <1>12 DEF S, x

(* skipPoisonEvent keeps the invariant.  Carving takes one id out of the   *)
(* gaps; moving the cursor onto the poison, which is committed, leaves     *)
(* behind only ids of transactions that xmax is past, or overtaken ones.   *)
LEMMA SkipKeepsIInv ==
    ASSUME IInv, NEW id \in EventIds, SkipPoisonEvent(id)
    PROVE  IInv'
<1> USE DEF IInv, TypeOK
<1>1. /\ SkipPending(id) \/ SkipAhead(id)
      /\ resolved' = resolved \cup {id} /\ skipped' = skipped \cup {id} /\ held' = held \ {id}
      /\ UNCHANGED <<logVars, turn, rollbacks, handled>>
  BY DEF SkipPoisonEvent
<1>2. turn' = NoTurn
  BY <1>1 DEF SkipPoisonEvent, RowUnlocked, LockInv
<1>3. /\ row.cursor \in 0 .. MaxEventId /\ row.cursor \in Int /\ id \in Int
      /\ nextId \in Int /\ WellFormed(row) /\ MaxEventId \in Int
  BY EventLogAssumption DEF Row, RowInv, EventIds, LogTypeOK
<1>4. /\ row' \in Row /\ row'.lastFailed = None /\ row'.attempts = 0 /\ WellFormed(row')
      /\ row'.gaps \subseteq Gap
  BY <1>1, SkipPendingRow, SkipAheadRow
<1>5. SkipPending(id) => id <= row.cursor
  BY SkipTarget, CoveredBelowCursor, <1>3
<1>6. SkipAhead(id) => id \in Committed /\ id > row.cursor /\ id < nextId
  BY SkipTarget DEF LogInv, Committed
<1>7. row'.cursor < nextId
  <2>1. CASE SkipPending(id)
    BY <2>1, SkipPendingRow DEF LockInv
  <2>2. CASE SkipAhead(id)
    BY <1>6, <2>2, SkipAheadRow
  <2> QED
    BY <1>1, <2>1, <2>2
<1>8. SettledIn(row', resolved')
  <2>1. ASSUME NEW i \in resolved PROVE i \in Int /\ i <= row.cursor /\ i \notin Covered(row.gaps)
    BY EventLogAssumption DEF SettledInv, SettledIn, EventIds
  <2>2. CASE SkipPending(id)
    BY <1>1, <1>5, <2>1, <2>2, SkipPendingRow DEF SettledIn
  <2>3. CASE SkipAhead(id)
    <3>1. row'.cursor = id /\ id > row.cursor
      BY <1>6, <2>3, SkipAheadRow
    <3>2. Covered(row'.gaps) \subseteq Covered(row.gaps) \cup (row.cursor + 1 .. id - 1)
      BY <2>3, SkipAheadRow
    <3>3. id \notin Covered(row.gaps)
      BY <1>3, <3>1, CoveredBelowCursor
    <3>4. ASSUME NEW i \in resolved' PROVE i <= row'.cursor /\ i \notin Covered(row'.gaps)
      BY <1>1, <1>3, <2>1, <3>1, <3>2, <3>3
    <3> QED
      BY <3>4 DEF SettledIn
  <2> QED
    BY <1>1, <2>2, <2>3
<1>9. ASSUME NEW i \in EventIds, i <= row'.cursor, i \in InFlight \cup Visible,
             i \notin handled \cup skipped', ~Overtaken(i)
      PROVE  \E g \in row'.gaps : i \in IdsOf(g) /\ xidOf[i] < g.xmax
  <2>0. xidOf[i] \in Int /\ i \in Int /\ doneXid \in Int /\ i # id /\ i \notin handled \cup skipped
    BY <1>1, <1>9, EventLogAssumption DEF LogTypeOK, EventIds
  <2>1. \A g \in row.gaps \cup row'.gaps : g.xmax \in Int
    BY <1>4, EventLogAssumption DEF Row, Gap
  <2>2. CASE SkipPending(id)
    <3>1. PICK g \in row.gaps : i \in IdsOf(g) /\ xidOf[i] < g.xmax
      BY <1>9, <2>0, <2>2, SkipPendingRow DEF WatchInv, Watched
    <3>2. PICK m \in row'.gaps : i \in IdsOf(m) /\ g.xmax <= m.xmax
      BY <2>0, <2>2, <3>1, SkipPendingRow
    <3> QED
      BY <2>0, <2>1, <3>1, <3>2
  <2>3. CASE SkipAhead(id) /\ i <= row.cursor
    <3>1. PICK g \in row.gaps : i \in IdsOf(g) /\ xidOf[i] < g.xmax
      BY <1>9, <2>0, <2>3 DEF WatchInv, Watched
    <3>2. PICK m \in row'.gaps : i \in IdsOf(m) /\ g.xmax <= m.xmax
      BY <2>3, <3>1, SkipAheadRow
    <3> QED
      BY <2>0, <2>1, <3>1, <3>2
  <2>4. CASE SkipAhead(id) /\ i > row.cursor
    <3>1. i < id /\ i \in row.cursor + 1 .. id - 1
      BY <1>3, <1>9, <2>0, <2>4, SkipAheadRow
    <3>2. PICK m \in row'.gaps : i \in IdsOf(m) /\ SnapshotXmax <= m.xmax
      BY <2>4, <3>1, SkipAheadRow
    <3>3. xidOf[id] <= doneXid /\ xidOf[id] \in Int
      BY <1>6, <2>4, EventLogAssumption DEF LogInv, LogTypeOK
    <3>4. ~(xidOf[id] < xidOf[i])
      BY <1>6, <1>9, <2>4, <3>1 DEF Overtaken, Committed
    <3> QED
      BY <2>0, <2>1, <3>2, <3>3, <3>4 DEF SnapshotXmax
  <2> QED
    BY <1>1, <1>3, <2>0, <2>2, <2>3, <2>4
<1>10. row'.status = "idle" => row'.attempts < MaxAttempts
  BY <1>4, EventDispatcherAssumption
<1>11. /\ skipped' \subseteq EventIds /\ held' \subseteq EventIds /\ resolved' \subseteq EventIds
       /\ rollbacks' \in 0 .. MaxRollbacks
  BY <1>1
<1>12. \A i \in EventIds :
          i <= row'.cursor /\ i \in InFlight \cup Visible /\ i \notin handled \cup skipped'
             => \/ Overtaken(i)
                \/ \E g \in row'.gaps : i \in IdsOf(g) /\ xidOf[i] < g.xmax
  BY <1>9
<1>13. row'.lastFailed # None => row'.lastFailed \in Committed
  BY <1>4
<1> QED
  BY <1>1, <1>2, <1>4, <1>7, <1>8, <1>10, <1>11, <1>12, <1>13, TurnEnds

-----------------------------------------------------------------------------
(* Prunes.                                                                 *)

(* What a prune does to the log: visible rows become pruned ones.          *)
LEMMA PruneLog ==
    ASSUME TypeOK, NEW candidates \in SUBSET Visible, PruneEvents(candidates)
    PROVE  /\ Visible' = Visible \ candidates /\ InFlight' = InFlight /\ Committed' = Committed
           /\ \A i \in EventIds : rowState'[i] = IF i \in candidates THEN "pruned" ELSE rowState[i]
           /\ rowState' \in [EventIds -> RowStates]
           /\ UNCHANGED <<nextXid, doneXid, openXid, nextId, xidOf, tenantOf, consumerVars,
                          transition>>
<1>1. /\ rowState' = [i \in EventIds |-> IF i \in candidates THEN "pruned" ELSE rowState[i]]
      /\ UNCHANGED <<nextXid, doneXid, openXid, nextId, xidOf, tenantOf, consumerVars, transition>>
  BY DEF PruneEvents
<1>2. \A i \in EventIds : rowState'[i] = IF i \in candidates THEN "pruned" ELSE rowState[i]
  BY <1>1
<1>3. rowState' \in [EventIds -> RowStates]
  BY <1>1 DEF TypeOK, LogTypeOK, RowStates
<1>4. Visible' = Visible \ candidates /\ InFlight' = InFlight
  BY <1>2 DEF Visible, InFlight
<1>5. Committed' = Committed
  BY <1>2 DEF Committed, Visible
<1> QED
  BY <1>1, <1>2, <1>3, <1>4, <1>5

(* A prune keeps the invariant: it deletes rows, and nothing is owed to a  *)
(* deleted row; what overtook another event stays on record.               *)
LEMMA PruneKeepsIInv ==
    ASSUME IInv, NEW candidates \in SUBSET Visible, PruneEvents(candidates)
    PROVE  IInv'
<1> USE DEF IInv, TypeOK
<1>1. /\ Visible' \subseteq Visible /\ InFlight' = InFlight /\ Committed' = Committed
      /\ rowState' \in [EventIds -> RowStates]
      /\ UNCHANGED <<nextXid, doneXid, openXid, nextId, xidOf, tenantOf>>
      /\ UNCHANGED <<row, turn, rollbacks, handled, resolved, skipped, held>>
  BY PruneLog DEF consumerVars
<1>2. \A i \in EventIds :
         /\ rowState'[i] \in {"visible", "pruned"} <=> rowState[i] \in {"visible", "pruned"}
         /\ rowState'[i] # "unassigned" => rowState[i] # "unassigned"
  BY PruneLog DEF Visible
<1>3. TypeOK'
  BY <1>1 DEF LogTypeOK
<1>4. LogInv'
  BY <1>1, <1>2 DEF LogInv
<1>5. BudgetInv' /\ LockInv' /\ XminInv'
  BY <1>1 DEF BudgetInv, LockInv, XminInv
<1>6. FetchInv'
  BY <1>1 DEF FetchInv
<1>7. WatchInv'
  <2>1. \A i \in EventIds : Overtaken(i)' <=> Overtaken(i)
    BY <1>1, <1>2 DEF Overtaken
  <2> QED
    BY <1>1, <2>1 DEF WatchInv, Watched
<1>8. SettledInv' /\ RowInv'
  BY <1>1 DEF SettledInv, SettledIn, RowInv, WellFormed
<1> QED
  BY <1>3, <1>4, <1>5, <1>6, <1>7, <1>8

-----------------------------------------------------------------------------
(* The theorems.                                                           *)

RIInv == IInv /\ AdminTypeOK

(* Every step of writers, turns, crashes, operators and prunes keeps it.   *)
LEMMA RetentionNextRIInv == RIInv /\ [RetentionNext]_adminVars => RIInv'
<1> SUFFICES ASSUME RIInv, [RetentionNext]_adminVars PROVE RIInv'
  OBVIOUS
<1> USE DEF RIInv, AdminTypeOK
<1>1. IInv => TypeOK
  BY DEF IInv
<1>2. CASE Next /\ UNCHANGED transition
  BY <1>1, <1>2, NextIInv DEF IInv
<1>3. CASE RestartConsumer \/ EnableConsumer
  <2>1. UNCHANGED vars /\ transition' \in {"restart", "enable"}
    BY <1>3 DEF RestartConsumer, EnableConsumer, CheckRequiredStatus
  <2> QED
    BY <2>1, NextIInv DEF IInv
<1>4. CASE ApplyConsumerStatusTransition
  BY <1>4, StatusKeepsIInv DEF ApplyConsumerStatusTransition, IInv
<1>5. CASE DisableConsumer
  BY <1>5, StatusKeepsIInv DEF DisableConsumer, IInv
<1>6. CASE \E id \in EventIds : SkipPoisonEvent(id)
  <2>1. PICK id \in EventIds : SkipPoisonEvent(id)
    BY <1>6
  <2> QED
    BY <2>1, SkipKeepsIInv DEF IInv, SkipPoisonEvent
<1>7. CASE \E candidates \in SUBSET Visible : PruneEvents(candidates)
  <2>1. PICK candidates \in SUBSET Visible : PruneEvents(candidates)
    BY <1>7
  <2> QED
    BY <2>1, PruneKeepsIInv DEF IInv, PruneEvents
<1>8. CASE UNCHANGED adminVars
  BY <1>8, NextIInv DEF adminVars, IInv
<1> QED
  BY <1>2, <1>3, <1>4, <1>5, <1>6, <1>7, <1>8 DEF RetentionNext, AdminNext, AdminStep

(* The invariant holds throughout, whatever operators and prunes do.       *)
THEOREM RetentionInvariant == RetentionSpec => []RIInv
<1>1. AdminInit => RIInv
  BY InitIInv DEF AdminInit, RIInv, AdminTypeOK, IInv
<1> QED
  BY <1>1, RetentionNextRIInv, PTL DEF RetentionSpec

(* Type correctness with operators and prunes.                             *)
THEOREM RetentionTypeCorrect == RetentionSpec => []AdminTypeOK
<1>1. RIInv => AdminTypeOK
  BY DEF RIInv
<1> QED
  BY <1>1, RetentionInvariant, PTL

(* No committed event is lost unless it was overtaken, also when operators *)
(* restart, disable, enable and skip and prunes delete rows in between.    *)
THEOREM NoSilentLossUnderOps == RetentionSpec => []LostOnlyIfOvertaken
<1>1. RIInv => LostOnlyIfOvertaken
  BY InvImpliesNoLoss DEF RIInv
<1> QED
  BY <1>1, RetentionInvariant, PTL

(* What a turn or an operator settled is never fetched again.              *)
THEOREM SettledOnceUnderOps == RetentionSpec => []NoRedeliveryAfterCommit
<1>1. RIInv => NoRedeliveryAfterCommit
  BY DEF RIInv, IInv, SettledInv, NoRedeliveryAfterCommit
<1> QED
  BY <1>1, RetentionInvariant, PTL

(* A skip carves and extends pending_gaps like a turn: the ranges stay     *)
(* disjoint, apart and at or below the cursor.                             *)
THEOREM RangesWellFormedUnderOps == RetentionSpec => []GapsWellFormed
<1>1. RIInv => GapsWellFormed
  BY DEF RIInv, IInv, RowInv, WellFormed, GapsWellFormed
<1> QED
  BY <1>1, RetentionInvariant, PTL

(* No operator and no prune moves the cursor back or returns an id to      *)
(* pending_gaps.                                                           *)
THEOREM ProgressKeptUnderOps == RetentionSpec => ProgressNeverUndone
<1> DEFINE Kept == /\ row'.cursor >= row.cursor
                   /\ Covered(row'.gaps) \cap 1 .. row.cursor \subseteq Covered(row.gaps)
<1>1. RIInv /\ [RetentionNext]_adminVars => [Kept]_vars
  <2> SUFFICES ASSUME RIInv, RetentionNext PROVE Kept
    BY DEF adminVars
  <2>0. row.cursor \in Int /\ row \in Row /\ IInv
    BY EventLogAssumption DEF RIInv, IInv, TypeOK, Row
  <2>1. CASE row' = row
    BY <2>0, <2>1
  <2>2. CASE Next
    BY <2>0, <2>2, StepKeepsProgress
  <2>3. CASE ApplyConsumerStatusTransition \/ DisableConsumer
    <3>1. row'.cursor = row.cursor /\ row'.gaps = row.gaps
      BY <2>0, <2>3, WithStatusRow DEF ApplyConsumerStatusTransition, DisableConsumer
    <3> QED
      BY <2>0, <3>1
  <2>4. ASSUME NEW id \in EventIds, SkipPoisonEvent(id) PROVE Kept
    <3>1. CASE SkipPending(id)
      BY <2>0, <3>1, SkipPendingRow
    <3>2. CASE SkipAhead(id)
      <4>1. id \in Int /\ id > row.cursor
        BY <2>0, <3>2, SkipTarget, EventLogAssumption DEF EventIds
      <4>2. /\ row'.cursor = id
            /\ Covered(row'.gaps) \subseteq Covered(row.gaps) \cup (row.cursor + 1 .. id - 1)
        BY <2>0, <3>2, SkipAheadRow
      <4> QED
        BY <2>0, <4>1, <4>2
    <3> QED
      BY <2>4, <3>1, <3>2 DEF SkipPoisonEvent
  <2>5. CASE \E candidates \in SUBSET Visible : PruneEvents(candidates)
    BY <2>1, <2>5 DEF PruneEvents, consumerVars
  <2>6. CASE RestartConsumer \/ EnableConsumer
    BY <2>1, <2>6 DEF RestartConsumer, EnableConsumer, CheckRequiredStatus, vars, consumerVars
  <2> QED
    BY <2>2, <2>3, <2>4, <2>5, <2>6 DEF RetentionNext, AdminNext, AdminStep
<1>2. RetentionSpec => [][Kept]_vars
  BY <1>1, RetentionInvariant, PTL DEF RetentionSpec
<1> QED
  BY <1>2 DEF ProgressNeverUndone

(* What the lag check of pruneEvents guarantees an enabled consumer: an    *)
(* event deleted before it was handled was pending, or lost before.        *)
THEOREM PruneSparesTheFuture == RetentionSpec => PruneDropsOnlyPendingGaps
<1> DEFINE Spared == row.status # "disabled" =>
                        \A i \in PrunedNow \ (handled \cup skipped) :
                           i \in Covered(row.gaps) \/ Overtaken(i)
<1>1. RIInv /\ [RetentionNext]_adminVars => [Spared]_adminVars
  <2> SUFFICES ASSUME RIInv, RetentionNext, row.status # "disabled",
                      NEW i \in PrunedNow, i \notin handled \cup skipped
               PROVE  i \in Covered(row.gaps) \/ Overtaken(i)
    OBVIOUS
  <2>1. i \in EventIds /\ i \in Visible /\ rowState[i] = "visible" /\ rowState'[i] = "pruned"
    BY DEF PrunedNow, Visible
  <2>2. rowState' # rowState
    BY <2>1
  <2>3. ~(LogNext /\ UNCHANGED consumerVars)
    <3> SUFFICES ASSUME LogNext PROVE FALSE
      OBVIOUS
    <3>1. LogGrows
      BY LogStep DEF RIInv, IInv, TypeOK
    <3> QED
      BY <2>1, <3>1 DEF LogGrows
  <2>4. ~Next
    BY <2>2, <2>3
       DEF Next, TurnNext, logVars, AcquireConsumerState, FetchPendingEvents, NothingToDo,
           DeliverNothing, DeliverBatch, DeliverOneByOne, DeliverConsumerTurn,
           PersistConsumerOutcome, RollBackTurn
  <2>5. ~AdminStep
    BY <2>2 DEF AdminStep, RestartConsumer, EnableConsumer, CheckRequiredStatus, vars, logVars,
                ApplyConsumerStatusTransition, DisableConsumer, SkipPoisonEvent
  <2>6. PICK candidates \in SUBSET Visible : PruneEvents(candidates)
    BY <2>4, <2>5 DEF RetentionNext, AdminNext
  <2>7. i \in candidates
    BY <2>1, <2>6, PruneLog DEF RIInv, AdminTypeOK
  <2>8. i <= row.cursor
    BY <2>6, <2>7 DEF PruneEvents, NoConsumerLags
  <2>9. \/ Overtaken(i)
        \/ \E g \in row.gaps : i \in IdsOf(g)
    BY <2>1, <2>8 DEF RIInv, IInv, WatchInv, Watched
  <2> QED
    BY <2>9 DEF Covered
<1>2. RetentionSpec => [][Spared]_adminVars
  BY <1>1, RetentionInvariant, PTL DEF RetentionSpec
<1> QED
  BY <1>2 DEF PruneDropsOnlyPendingGaps

-----------------------------------------------------------------------------
(* The failed event and the held ones, with operators and prunes.          *)

(* A status update changes nothing about the events on record.             *)
LEMMA StatusKeepsRecord ==
    ASSUME IInv, RecordInv, RowUnlocked, NEW s \in {"idle", "disabled"},
           row' = WithStatus(row, s), UNCHANGED <<logVars, turn, resolved, held>>
    PROVE  RecordInv'
<1>1. /\ turn' = NoTurn
      /\ row'.cursor = row.cursor /\ row'.gaps = row.gaps /\ row'.lastFailed = row.lastFailed
  BY WithStatusRow DEF IInv, TypeOK, RowUnlocked, LockInv
<1>2. HeldOpen(row', held') /\ (~SkipsBatchErrors => FailedOpen(row', resolved'))
  BY <1>1 DEF RecordInv, HeldInv, HeldOpen, FailInv, FailedOpen
<1> QED
  BY <1>1, <1>2, EndKeepsRecord

(* A skip takes the skipped event off the record and leaves the other held *)
(* events in their gaps.                                                   *)
LEMMA SkipKeepsRecord ==
    ASSUME IInv, RecordInv, NEW id \in EventIds, SkipPoisonEvent(id)
    PROVE  RecordInv'
<1>1. /\ turn' = NoTurn /\ held' = held \ {id} /\ UNCHANGED logVars
      /\ SkipPending(id) \/ SkipAhead(id)
  BY DEF SkipPoisonEvent, RowUnlocked, IInv, LockInv
<1>2. row'.lastFailed = None
  BY <1>1, SkipPendingRow, SkipAheadRow
<1>3. \A i \in Covered(row.gaps) \ {id} : i \in Covered(row'.gaps)
  <2> SUFFICES ASSUME NEW g \in row.gaps, NEW i \in IdsOf(g), i # id
               PROVE  \E m \in row'.gaps : i \in IdsOf(m)
    BY DEF Covered
  <2> QED
    BY <1>1, SkipPendingRow, SkipAheadRow
<1>4. HeldOpen(row', held')
  BY <1>1, <1>3 DEF RecordInv, HeldInv, HeldOpen
<1> QED
  BY <1>1, <1>2, <1>4, EndKeepsRecord DEF FailedOpen

(* A prune may delete an event on record: it stays there as pruned.        *)
LEMMA PruneKeepsRecord ==
    ASSUME IInv, RecordInv, NEW candidates \in SUBSET Visible, PruneEvents(candidates)
    PROVE  RecordInv'
<1>1. /\ Visible' \subseteq Visible /\ Committed' = Committed
      /\ UNCHANGED <<row, turn, resolved, held>>
  BY PruneLog DEF IInv, TypeOK, consumerVars
<1>2. \A i \in Committed : rowState[i] = "pruned" => rowState'[i] = "pruned"
  BY PruneLog DEF IInv, TypeOK, Committed
<1>3. /\ row.lastFailed # None => row.lastFailed \in Committed
      /\ turn.row.lastFailed # None => turn.row.lastFailed \in Committed
  BY DEF IInv, RowInv
<1>4. KnownInv'
  BY <1>1 DEF RecordInv, KnownInv, InHandOrCutOff
<1>5. HeldInv'
  BY <1>1, <1>2 DEF RecordInv, HeldInv, HeldOpen
<1>6. FailInv'
  BY <1>1, <1>2, <1>3 DEF RecordInv, FailInv, FailedOpen
<1> QED
  BY <1>4, <1>5, <1>6 DEF RecordInv

(* Every step keeps the record.                                            *)
LEMMA RetentionNextRecord == RIInv /\ RecordInv /\ [RetentionNext]_adminVars => RecordInv'
<1> SUFFICES ASSUME IInv, RecordInv, [RetentionNext]_adminVars PROVE RecordInv'
  BY DEF RIInv
<1>1. CASE Next \/ UNCHANGED vars
  BY <1>1, NextRecord
<1>2. CASE RestartConsumer \/ EnableConsumer
  BY <1>1, <1>2 DEF RestartConsumer, EnableConsumer, CheckRequiredStatus
<1>3. CASE ApplyConsumerStatusTransition
  BY <1>3, StatusKeepsRecord DEF ApplyConsumerStatusTransition
<1>4. CASE DisableConsumer
  BY <1>4, StatusKeepsRecord DEF DisableConsumer
<1>5. CASE \E id \in EventIds : SkipPoisonEvent(id)
  BY <1>5, SkipKeepsRecord
<1>6. CASE \E candidates \in SUBSET Visible : PruneEvents(candidates)
  BY <1>6, PruneKeepsRecord
<1> QED
  BY <1>1, <1>2, <1>3, <1>4, <1>5, <1>6 DEF RetentionNext, AdminNext, AdminStep, adminVars

(* The events on record, whatever operators and prunes do.                 *)
THEOREM RetentionRecord == RetentionSpec => []RecordInv
<1>1. AdminInit => RecordInv
  BY InitRecord DEF AdminInit
<1> QED
  BY <1>1, RetentionNextRecord, RetentionInvariant, PTL DEF RetentionSpec

(* The event on record as failed stays one the consumer is stuck on, also  *)
(* after restarts and skips, unless a prune deletes it.                    *)
THEOREM FailedIsRetriedUnderOps ==
    ASSUME ~(HasBatchHandler /\ SkipApplyErrors)
    PROVE  RetentionSpec => []LastFailedIsRetried
<1>1. RecordInv => LastFailedIsRetried
  BY RecordIsRetried DEF SkipsBatchErrors
<1> QED
  BY <1>1, RetentionRecord, PTL

(* Operators and prunes handle no event.                                   *)
LEMMA OnlyTurnsHandle ==
    ASSUME RetentionNext, handled' # handled
    PROVE  Next
  BY DEF RetentionNext, AdminNext, AdminStep, RestartConsumer, EnableConsumer,
         CheckRequiredStatus, vars, ApplyConsumerStatusTransition, DisableConsumer,
         SkipPoisonEvent, PruneEvents, consumerVars

(* Halt on poison survives restarts, re-enabling and skips: no operator    *)
(* lets a per-event consumer past an event that still fails.               *)
THEOREM PoisonHaltsUnderOps ==
    ASSUME ~HasBatchHandler
    PROVE  RetentionSpec => HaltsOnPoison
<1> DEFINE Halts == \A j \in handled' \ handled :
                       row.lastFailed # None /\ j > row.lastFailed
                          => \/ row.lastFailed \in handled'
                             \/ rowState[row.lastFailed] = "pruned"
<1>1. RIInv /\ RecordInv /\ [RetentionNext]_adminVars => [Halts]_vars
  <2> SUFFICES ASSUME IInv, RecordInv, RetentionNext, handled' # handled PROVE Halts
    BY DEF RIInv, adminVars
  <2> QED
    BY OnlyTurnsHandle, StepHaltsOnPoison
<1>2. RetentionSpec => [][Halts]_vars
  BY <1>1, RetentionRecord, RetentionInvariant, PTL DEF RetentionSpec
<1> QED
  BY <1>2 DEF HaltsOnPoison

(* skipPoisonEvent drops the event that failed, never another one and      *)
(* never a settled one.                                                    *)
THEOREM SkipHitsThePoison ==
    ASSUME ~(HasBatchHandler /\ SkipApplyErrors)
    PROVE  RetentionSpec => SkipsOnlyTheFailedEvent
<1> DEFINE Hits == /\ row.lastFailed # None /\ rowState[row.lastFailed] # "pruned"
                         => skipped' \ skipped \subseteq {row.lastFailed}
                   /\ (skipped' \ skipped) \cap resolved = {}
<1>1. RIInv /\ RecordInv /\ [RetentionNext]_adminVars => [Hits]_adminVars
  <2> SUFFICES ASSUME IInv, RecordInv, RetentionNext, skipped' # skipped PROVE Hits
    BY DEF RIInv
  <2>1. PICK id \in EventIds : SkipPoisonEvent(id)
    BY DEF RetentionNext, AdminNext, AdminStep, RestartConsumer, EnableConsumer,
           CheckRequiredStatus, vars, ApplyConsumerStatusTransition, DisableConsumer,
           PruneEvents, consumerVars, Next, TurnNext, AcquireConsumerState, FetchPendingEvents,
           NothingToDo, DeliverNothing, DeliverBatch, DeliverOneByOne, DeliverConsumerTurn,
           PersistConsumerOutcome, RollBackTurn
  <2>2. skipped' \ skipped \subseteq {id} /\ (SkipPending(id) \/ SkipAhead(id))
    BY <2>1 DEF SkipPoisonEvent
  <2>3. id \notin resolved
    <3>1. \A i \in resolved : i \in Int /\ i <= row.cursor /\ i \notin Covered(row.gaps)
      <4>1. resolved \subseteq 1 .. MaxEventId
        BY DEF IInv, TypeOK, EventIds
      <4>2. SettledIn(row, resolved)
        BY DEF IInv, SettledInv
      <4> QED
        BY <4>1, <4>2 DEF SettledIn
    <3>2. row.cursor \in Int
      BY EventLogAssumption DEF IInv, TypeOK, Row
    <3> QED
      BY <2>2, <3>1, <3>2, SkipTarget
  <2>4. ASSUME row.lastFailed # None, rowState[row.lastFailed] # "pruned"
        PROVE  id = row.lastFailed
    <3>1. row.lastFailed > row.cursor \/ row.lastFailed \in Covered(row.gaps)
      BY <2>4 DEF RecordInv, FailInv, FailedOpen, SkipsBatchErrors
    <3>2. FailedIsAboveCursor \/ FailedIsPending
      BY <2>4, <3>1 DEF FailedIsAboveCursor, FailedIsPending
    <3> QED
      BY <2>2, <3>2 DEF SkipPending, SkipAhead
  <2> QED
    BY <2>2, <2>3, <2>4
<1>2. RetentionSpec => [][Hits]_adminVars
  BY <1>1, RetentionRecord, RetentionInvariant, PTL DEF RetentionSpec
<1> QED
  BY <1>2 DEF SkipsOnlyTheFailedEvent

(* Held events come first also with operators at work: a restart or a skip *)
(* never lets a newer event of a tenant overtake a held one.  (A prune     *)
(* can: it deletes the held event.)                                        *)
THEOREM HeldComeFirstUnderOps == AdminSpec => HeldEventsComeFirst
<1> DEFINE First == \A j \in handled' \ handled, i \in held :
                       i < j /\ tenantOf[i] = tenantOf[j] => i \in handled'
<1>1. AdminSpec => RetentionSpec
  <2>1. [AdminNext]_adminVars => [RetentionNext]_adminVars
    BY DEF RetentionNext
  <2> QED
    BY <2>1, PTL DEF AdminSpec, RetentionSpec
<1>2. AdminSpec => [](RIInv /\ RecordInv)
  BY <1>1, RetentionInvariant, RetentionRecord, PTL
<1>3. AdminSpec => []Unpruned
  <2>1. AdminInit => Unpruned
    BY DEF AdminInit, Init, LogInit, Unpruned
  <2>2. RIInv /\ Unpruned /\ [AdminNext]_adminVars => Unpruned'
    <3> SUFFICES ASSUME RIInv, Unpruned, [AdminNext]_adminVars PROVE Unpruned'
      OBVIOUS
    <3>1. CASE Next
      BY <3>1, StepPrunesNothing DEF RIInv, IInv, TypeOK
    <3>2. CASE rowState' = rowState
      BY <3>2 DEF Unpruned
    <3> QED
      BY <3>1, <3>2 DEF AdminNext, AdminStep, RestartConsumer, EnableConsumer,
         CheckRequiredStatus, vars, logVars, ApplyConsumerStatusTransition, DisableConsumer,
         SkipPoisonEvent, adminVars
  <2> QED
    BY <1>2, <2>1, <2>2, PTL DEF AdminSpec
<1>4. RIInv /\ RecordInv /\ Unpruned /\ [AdminNext]_adminVars => [First]_vars
  <2> SUFFICES ASSUME IInv, RecordInv, Unpruned, AdminNext, handled' # handled PROVE First
    BY DEF RIInv, adminVars
  <2>1. Next
    BY OnlyTurnsHandle DEF RetentionNext
  <2> QED
    BY <2>1, StepHeldFirst
<1>5. AdminSpec => [][First]_vars
  BY <1>2, <1>3, <1>4, PTL DEF AdminSpec
<1> QED
  BY <1>5 DEF HeldEventsComeFirst

-----------------------------------------------------------------------------
(* The peer.                                                               *)

(* The consumer furthest ahead is a dispatcher without a batch handler:    *)
(* what EventDispatcherProofs shows of IInv and TakenInv holds of it.      *)
PeerProofs == INSTANCE EventDispatcherProofs WITH
                  row <- peerRow, turn <- peerTurn, rollbacks <- 0,
                  handled <- peerHandled, resolved <- peerResolved,
                  skipped <- {}, held <- {},
                  HasBatchHandler <- FALSE, SkipApplyErrors <- TRUE,
                  HasTransientErrors <- FALSE, MaxRollbacks <- 0

(* Both invariants of the peer.                                            *)
PeerInv == PeerProofs!IInv /\ PeerProofs!TakenInv

(* A new peer on an empty log satisfies them.                              *)
LEMMA PeerInit == HandoverInit => PeerInv
<1> SUFFICES ASSUME HandoverInit PROVE PeerInv
  OBVIOUS
<1>1. PeerProofs!Init
  BY DEF HandoverInit, Init, LogInit, NewRow, NoTurn, None, EventIds, PeerProofs!Init,
         PeerProofs!LogInit, PeerProofs!NewRow, PeerProofs!NoTurn, PeerProofs!None,
         PeerProofs!EventIds
<1>2. PeerProofs!Init => PeerProofs!IInv
  BY PeerProofs!InitIInv, EventLogAssumption, EventDispatcherAssumption
<1>3. PeerProofs!Init => PeerProofs!TakenInv
  BY PeerProofs!InitTaken, EventLogAssumption, EventDispatcherAssumption
<1> QED
  BY <1>1, <1>2, <1>3 DEF PeerInv

(* So do all states that writers and its turns lead to.                    *)
LEMMA PeerStep == PeerInv /\ [PeerProofs!Next]_(PeerProofs!vars) => PeerInv'
<1>1. PeerProofs!IInv /\ [PeerProofs!Next]_(PeerProofs!vars) => PeerProofs!IInv'
  BY PeerProofs!NextIInv, EventLogAssumption, EventDispatcherAssumption
<1>2. PeerProofs!IInv /\ PeerProofs!TakenInv /\ [PeerProofs!Next]_(PeerProofs!vars)
         => PeerProofs!TakenInv'
  BY PeerProofs!NextTaken, EventLogAssumption, EventDispatcherAssumption
<1> QED
  BY <1>1, <1>2 DEF PeerInv

(* Peer and PeerProofs are instances of one module with one substitution,  *)
(* so their operators are the same: first those on ranges,                 *)
LEMMA SameRanges ==
    /\ \A gaps : Peer!Covered(gaps) = PeerProofs!Covered(gaps)
    /\ \A S, x : Peer!GapsFor(S, x) = PeerProofs!GapsFor(S, x)
    /\ \A gaps, ids : Peer!SubtractIds(gaps, ids) = PeerProofs!SubtractIds(gaps, ids)
    /\ \A gaps : Peer!MergeContiguousGapRanges(gaps) = PeerProofs!MergeContiguousGapRanges(gaps)
    /\ \A gaps, ids, cut, x :
          Peer!BurntGaps(gaps, ids, cut, x) = PeerProofs!BurntGaps(gaps, ids, cut, x)
<1>1. \A gaps : Peer!Covered(gaps) = PeerProofs!Covered(gaps)
  BY DEF Peer!Covered, PeerProofs!Covered, Peer!IdsOf, PeerProofs!IdsOf
<1>2. \A S : Peer!Runs(S) = PeerProofs!Runs(S)
  BY DEF Peer!Runs, PeerProofs!Runs
<1>3. \A S, x : Peer!GapsFor(S, x) = PeerProofs!GapsFor(S, x)
  BY <1>2 DEF Peer!GapsFor, PeerProofs!GapsFor
<1>4. \A gaps, ids : Peer!SubtractIds(gaps, ids) = PeerProofs!SubtractIds(gaps, ids)
  BY <1>3 DEF Peer!SubtractIds, PeerProofs!SubtractIds, Peer!SplitRangeExcludingIds,
              PeerProofs!SplitRangeExcludingIds, Peer!IdsOf, PeerProofs!IdsOf
<1>5. \A gaps : Peer!MergeContiguousGapRanges(gaps) = PeerProofs!MergeContiguousGapRanges(gaps)
  BY <1>1, <1>2 DEF Peer!MergeContiguousGapRanges, PeerProofs!MergeContiguousGapRanges
<1>6. \A gaps, ids, cut, x :
         Peer!BurntGaps(gaps, ids, cut, x) = PeerProofs!BurntGaps(gaps, ids, cut, x)
  BY DEF Peer!BurntGaps, PeerProofs!BurntGaps, Peer!IsBurnt, PeerProofs!IsBurnt, Peer!IdsOf,
         PeerProofs!IdsOf, Peer!IsRangeFullyCoveredByFetch, PeerProofs!IsRangeFullyCoveredByFetch
<1> QED
  BY <1>1, <1>3, <1>4, <1>5, <1>6

(* then those of a delivery,                                               *)
LEMMA SameDelivery ==
    /\ Peer!Burnt = PeerProofs!Burnt
    /\ Peer!Surviving = PeerProofs!Surviving
    /\ Peer!IntakePaused = FALSE /\ PeerProofs!IntakePaused = FALSE
    /\ Peer!Deliverable = PeerProofs!Deliverable
    /\ \A S : Peer!CursorAfter(S) = PeerProofs!CursorAfter(S)
    /\ \A o : Peer!RowAfter(o) = PeerProofs!RowAfter(o)
<1>1. Peer!Burnt = PeerProofs!Burnt
  BY SameRanges DEF Peer!Burnt, PeerProofs!Burnt, Peer!PendingLimit, PeerProofs!PendingLimit,
         Peer!Cardinality, PeerProofs!Cardinality
<1>2. Peer!Surviving = PeerProofs!Surviving
  BY <1>1 DEF Peer!Surviving, PeerProofs!Surviving
<1>3. Peer!IntakePaused = FALSE /\ PeerProofs!IntakePaused = FALSE
  BY DEF Peer!IntakePaused, PeerProofs!IntakePaused
<1>4. Peer!Deliverable = PeerProofs!Deliverable
  <2>1. Peer!TenantsLeftOut = {} /\ PeerProofs!TenantsLeftOut = {}
    BY DEF Peer!TenantsLeftOut, PeerProofs!TenantsLeftOut
  <2> QED
    BY <1>3, <2>1 DEF Peer!Deliverable, PeerProofs!Deliverable
<1>5. \A S : Peer!CursorAfter(S) = PeerProofs!CursorAfter(S)
  BY DEF Peer!CursorAfter, PeerProofs!CursorAfter, Peer!Max, PeerProofs!Max
<1>6. \A o : Peer!RowAfter(o) = PeerProofs!RowAfter(o)
  <2> SUFFICES ASSUME NEW o PROVE Peer!RowAfter(o) = PeerProofs!RowAfter(o)
    OBVIOUS
  <2>1. Peer!KeptGaps(o) = PeerProofs!KeptGaps(o)
    BY <1>2, SameRanges DEF Peer!KeptGaps, PeerProofs!KeptGaps
  <2>2. Peer!NewGaps(o) = PeerProofs!NewGaps(o)
    BY <1>4, SameRanges
       DEF Peer!NewGaps, PeerProofs!NewGaps, Peer!SnapshotXmax, PeerProofs!SnapshotXmax
  <2> QED
    BY <2>1, <2>2, SameRanges DEF Peer!RowAfter, PeerProofs!RowAfter
<1> QED
  BY <1>1, <1>2, <1>3, <1>4, <1>5, <1>6

(* then the steps of a turn.                                               *)
LEMMA PeerTurns == Peer!TurnNext => PeerProofs!TurnNext
<1>1. Peer!AcquireConsumerState => PeerProofs!AcquireConsumerState
  BY DEF Peer!AcquireConsumerState, PeerProofs!AcquireConsumerState, Peer!ProvablyIdle,
         PeerProofs!ProvablyIdle, Peer!AcquirableRow, PeerProofs!AcquirableRow, Peer!Rearmed,
         PeerProofs!Rearmed, Peer!NoTurn, PeerProofs!NoTurn, Peer!NewRow, PeerProofs!NewRow,
         Peer!None, PeerProofs!None, Peer!SnapshotXmin, PeerProofs!SnapshotXmin,
         Peer!SnapshotXmax, PeerProofs!SnapshotXmax, Peer!Min, PeerProofs!Min, Peer!Visible,
         PeerProofs!Visible, Peer!EventIds, PeerProofs!EventIds, Peer!logVars,
         PeerProofs!logVars
<1>2. Peer!FetchPendingEvents => PeerProofs!FetchPendingEvents
  BY DEF Peer!FetchPendingEvents, PeerProofs!FetchPendingEvents, Peer!IsFirst,
         PeerProofs!IsFirst, Peer!Visible, PeerProofs!Visible, Peer!EventIds,
         PeerProofs!EventIds, Peer!Covered, PeerProofs!Covered, Peer!IdsOf, PeerProofs!IdsOf,
         Peer!logVars, PeerProofs!logVars, Peer!PendingLimit, PeerProofs!PendingLimit,
         Peer!Cardinality, PeerProofs!Cardinality
<1>3. Peer!NothingToDo => PeerProofs!NothingToDo
  BY SameDelivery
     DEF Peer!NothingToDo, PeerProofs!NothingToDo, Peer!NoTurn, PeerProofs!NoTurn, Peer!NewRow,
         PeerProofs!NewRow, Peer!None, PeerProofs!None, Peer!logVars, PeerProofs!logVars
<1>4. \A o : Peer!DeliverConsumerTurn(o) => PeerProofs!DeliverConsumerTurn(o)
  BY SameDelivery
     DEF Peer!DeliverConsumerTurn, PeerProofs!DeliverConsumerTurn, Peer!logVars,
         PeerProofs!logVars
<1>5. Peer!DeliverNothing => PeerProofs!DeliverNothing
  BY <1>4, SameDelivery
     DEF Peer!DeliverNothing, PeerProofs!DeliverNothing, Peer!NothingDelivered,
         PeerProofs!NothingDelivered, Peer!Outcome, PeerProofs!Outcome
<1>6. ~Peer!DeliverBatch
  BY DEF Peer!DeliverBatch
<1>7. Peer!DeliverOneByOne => PeerProofs!DeliverOneByOne
  <2>1. ASSUME NEW done, NEW processed, NEW counts \in BOOLEAN
        PROVE  Peer!OutcomeOfLoop(done, processed, counts)
                  = PeerProofs!OutcomeOfLoop(done, processed, counts)
    <3>1. \A S : Peer!Min(S) = PeerProofs!Min(S)
      BY DEF Peer!Min, PeerProofs!Min
    <3> QED
      BY <3>1, SameDelivery
         DEF Peer!OutcomeOfLoop, PeerProofs!OutcomeOfLoop, Peer!Outcome, PeerProofs!Outcome,
             Peer!None, PeerProofs!None
  <2> QED
    BY <1>4, <2>1, SameDelivery DEF Peer!DeliverOneByOne, PeerProofs!DeliverOneByOne
<1>8. Peer!PersistConsumerOutcome => PeerProofs!PersistConsumerOutcome
  BY DEF Peer!PersistConsumerOutcome, PeerProofs!PersistConsumerOutcome, Peer!NoTurn,
         PeerProofs!NoTurn, Peer!NewRow, PeerProofs!NewRow, Peer!None, PeerProofs!None,
         Peer!logVars, PeerProofs!logVars
<1> QED
  BY <1>1, <1>2, <1>3, <1>5, <1>6, <1>7, <1>8 DEF Peer!TurnNext, PeerProofs!TurnNext

(* A writer's step is one of the peer's log, too.                          *)
LEMMA PeerLog == LogNext => PeerProofs!LogNext
  BY DEF LogNext, ClaimXactId, InsertEvent, InsertConflict, CommitWrite, RollbackWrite,
         Complete, OtherTransaction, EventIds, PeerProofs!LogNext, PeerProofs!ClaimXactId,
         PeerProofs!InsertEvent, PeerProofs!InsertConflict, PeerProofs!CommitWrite,
         PeerProofs!RollbackWrite, PeerProofs!Complete, PeerProofs!OtherTransaction,
         PeerProofs!EventIds

(* Whatever happens to the consumer, the peer keeps its invariants.        *)
LEMMA PeerKeepsInv ==
    ASSUME PeerInv,
           \/ LogNext /\ UNCHANGED peerVars
           \/ Peer!TurnNext
           \/ UNCHANGED <<logVars, peerVars>>
    PROVE  PeerInv'
<1>1. [PeerProofs!Next]_(PeerProofs!vars)
  <2>1. CASE LogNext /\ UNCHANGED peerVars
    BY <2>1, PeerLog DEF peerVars, PeerProofs!Next, PeerProofs!consumerVars
  <2>2. CASE Peer!TurnNext
    BY <2>2, PeerTurns DEF PeerProofs!Next
  <2>3. CASE UNCHANGED <<logVars, peerVars>>
    BY <2>3 DEF logVars, peerVars, PeerProofs!vars, PeerProofs!logVars, PeerProofs!consumerVars
  <2> QED
    BY <2>1, <2>2, <2>3
<1> QED
  BY <1>1, PeerStep

-----------------------------------------------------------------------------
(* The invariant of a handover.                                            *)

(* Events of other types, which the projection has nothing to apply for.   *)
Foreign == EventIds \ SubscribedIds

(* The row to be written lets nothing slip but what is already done.       *)
ReadyRow(r, done) ==
    /\ r.status = "idle" /\ r.attempts = 0 /\ r.lastFailed = None
    /\ r.cursor < nextId
    /\ WellFormed(r)
    /\ \A i \in EventIds :
          i <= r.cursor /\ i \in InFlight \cup Visible /\ i \notin done
             => \/ Overtaken(i)
                \/ \E g \in r.gaps : i \in IdsOf(g) /\ xidOf[i] < g.xmax

(* The rebuild has the row locked, and a row that is not there yet has     *)
(* settled nothing.                                                        *)
OwnedInv ==
    /\ RowLocked => turn.pc = "idle"
    /\ rebuild.pc \in {"unregistered", "registering"} => resolved = {}

(* The horizon and the gaps were read in one statement: what was in flight *)
(* below the horizon then is in the gaps, whatever has become of it since. *)
SeedInv ==
    /\ rebuild.pc = "registering" => ReadyRow(rebuild.row, rebuild.replayed)
    /\ rebuild.pc \in {"seeded", "replayed"} => rebuild.horizon < nextId
    /\ rebuild.pc = "seeded" =>
          \A i \in InFlight :
             i <= rebuild.horizon => Overtaken(i) \/ i \in Covered(rebuild.gaps)

(* What committed between that statement and the replay's is replayed, and *)
(* what was still in flight is left to the gaps.                           *)
ReplayInv ==
    /\ rebuild.pc = "replayed" =>
          /\ rebuild.replayed \subseteq {i \in Visible : i <= rebuild.horizon}
          /\ \A i \in EventIds :
                i <= rebuild.horizon /\ i \in InFlight \cup Visible
                   /\ i \notin rebuild.replayed \cup Foreign
                   => Overtaken(i) \/ i \in Covered(rebuild.gaps)
    /\ rebuild.pc = "written" =>
          /\ ReadyRow(rebuild.row, rebuild.replayed \cup Foreign)
          /\ SettledIn(rebuild.row, rebuild.replayed)

HandoverInv ==
    /\ IInv
    /\ PeerInv
    /\ Unpruned
    /\ rebuild \in Rebuild
    /\ rebuilds \in 0 .. MaxRebuilds
    /\ OwnedInv
    /\ SeedInv
    /\ ReplayInv

(* What the peer's invariants say in terms of the shared log.              *)
LEMMA PeerFacts ==
    ASSUME PeerInv
    PROVE  /\ Peer!TypeOK
           /\ peerRow \in Row
           /\ WellFormed(peerRow)
           /\ peerRow.cursor \in Committed \cup {0}
           /\ \A g \in peerRow.gaps : g.to < peerRow.cursor
           /\ \A i \in InFlight :
                 i <= peerRow.cursor
                    => \/ Overtaken(i)
                       \/ \E g \in peerRow.gaps : i \in IdsOf(g) /\ xidOf[i] < g.xmax
<1> USE EventLogAssumption DEF PeerInv, PeerProofs!IInv
<1>1. peerRow \in Row
  BY DEF PeerProofs!TypeOK, PeerProofs!Row, Row, PeerProofs!Gap, Gap, PeerProofs!EventIds,
         EventIds
<1>2. WellFormed(peerRow)
  BY DEF PeerProofs!RowInv, PeerProofs!WellFormed, WellFormed
<1>3. peerRow.cursor \in Committed \cup {0}
  BY DEF PeerProofs!TakenInv, PeerProofs!Committed, Committed, PeerProofs!EventIds, EventIds
<1>4. ASSUME NEW g \in peerRow.gaps PROVE g.to < peerRow.cursor
  <2>1. /\ g.from \in 1 .. MaxEventId /\ g.to \in 1 .. MaxEventId
        /\ peerRow.cursor \in 0 .. MaxEventId
    BY <1>1 DEF Row, Gap, EventIds
  <2>2. g.from <= g.to /\ g.to <= peerRow.cursor
    BY <1>2 DEF WellFormed
  <2>3. g.to \in PeerProofs!Covered(peerRow.gaps)
    BY <2>1, <2>2 DEF PeerProofs!Covered, PeerProofs!IdsOf
  <2>4. g.to \notin peerResolved
    BY <2>3 DEF PeerProofs!SettledInv, PeerProofs!SettledIn
  <2>5. peerRow.cursor \in peerResolved \cup {0}
    BY DEF PeerProofs!TakenInv
  <2> QED
    BY <2>1, <2>2, <2>4, <2>5
<1>5. ASSUME NEW i \in InFlight, i <= peerRow.cursor
      PROVE  \/ Overtaken(i)
             \/ \E g \in peerRow.gaps : i \in IdsOf(g) /\ xidOf[i] < g.xmax
  <2>1. i \in PeerProofs!EventIds /\ i \in PeerProofs!InFlight
    BY <1>5 DEF InFlight, EventIds, PeerProofs!InFlight, PeerProofs!EventIds
  <2>2. i \notin peerHandled
    BY <2>1 DEF PeerProofs!TakenInv, PeerProofs!Committed, PeerProofs!InFlight
  <2>3. \/ PeerProofs!Overtaken(i)
        \/ \E g \in peerRow.gaps : i \in PeerProofs!IdsOf(g) /\ xidOf[i] < g.xmax
    BY <1>5, <2>1, <2>2 DEF PeerProofs!WatchInv, PeerProofs!Watched
  <2> QED
    BY <2>3 DEF PeerProofs!Overtaken, Overtaken, PeerProofs!IdsOf, IdsOf, PeerProofs!EventIds,
                EventIds
<1>6. Peer!TypeOK
  <2>1. PeerProofs!TypeOK
    OBVIOUS
  <2> QED
    BY <2>1
       DEF Peer!TypeOK, PeerProofs!TypeOK, Peer!LogTypeOK, PeerProofs!LogTypeOK, Peer!RowStates,
           PeerProofs!RowStates, Peer!EventIds, PeerProofs!EventIds, Peer!Row, PeerProofs!Row,
           Peer!Gap, PeerProofs!Gap, Peer!Turn, PeerProofs!Turn
<1> QED
  BY <1>1, <1>2, <1>3, <1>4, <1>5, <1>6

(* The horizon is the last visible id.                                     *)
LEMMA HorizonIsLast ==
    /\ Horizon \in 0 .. MaxEventId
    /\ Horizon # 0 => Horizon \in Visible
    /\ \A i \in Visible : i <= Horizon
<1> DEFINE T == Visible \cup {0}
<1>1. T \subseteq 0 .. MaxEventId /\ T # {} /\ MaxEventId \in Nat
  BY EventLogAssumption DEF Visible, EventIds
<1>2. Max(T) \in T /\ \A x \in T : x <= Max(T)
  <2> HIDE DEF T
  <2> QED
    BY <1>1, MinMax
<1>3. Horizon = Max(T)
  BY DEF Horizon
<1> QED
  BY <1>1, <1>2, <1>3

(* Entries made from different runs do not touch.                          *)
LEMMA GapsForApart ==
    ASSUME NEW N \in Nat, NEW S, S \subseteq 1 .. N, NEW x,
           NEW g \in GapsFor(S, x), NEW h \in GapsFor(S, x), g # h
    PROVE  g.to + 1 < h.from \/ h.to + 1 < g.from
<1>1. PICK p \in Runs(S) : g = [from |-> p[1], to |-> p[2], xmax |-> x]
  BY DEF GapsFor
<1>2. PICK q \in Runs(S) : h = [from |-> q[1], to |-> q[2], xmax |-> x]
  BY DEF GapsFor
<1>3. p[2] + 1 < q[1] \/ q[2] + 1 < p[1]
  BY <1>1, <1>2, RunsApart
<1> QED
  BY <1>1, <1>2, <1>3

(* selectEventIdHorizonWithMissingRanges: the peer's gaps and the ids past *)
(* its cursor together watch everything that is in flight below the        *)
(* horizon.  With no running transaction in the snapshot the scan is left  *)
(* out; an id in flight then has a newer transaction than the horizon's.   *)
LEMMA SeedWatches ==
    ASSUME LogTypeOK, LogInv, PeerInv, Unpruned
    PROVE  /\ MissingRanges \subseteq Gap
           /\ Horizon < nextId
           /\ \A g \in MissingRanges : g.from <= g.to /\ g.to <= Horizon
           /\ \A g \in MissingRanges, h \in MissingRanges :
                 g # h => g.to + 1 < h.from \/ h.to + 1 < g.from
           /\ \A i \in InFlight :
                 i <= Horizon
                    => \/ Overtaken(i)
                       \/ \E g \in MissingRanges : i \in IdsOf(g) /\ xidOf[i] < g.xmax
<1> DEFINE S == (peerRow.cursor + 1 .. Horizon) \ Visible
           x == SnapshotXmax
           fresh == GapsFor(S, x)
<1>1. /\ Horizon \in 0 .. MaxEventId /\ (Horizon # 0 => Horizon \in Visible)
      /\ \A i \in Visible : i <= Horizon
  BY HorizonIsLast
<1>2. Committed = Visible
  BY DEF Unpruned, Committed, Visible
<1>3. peerRow.cursor \in 0 .. MaxEventId /\ peerRow.gaps \subseteq Gap
  BY PeerFacts DEF Row
<1>4. peerRow.cursor <= Horizon
  BY <1>1, <1>2, <1>3, PeerFacts
<1>5. S \subseteq 1 .. MaxEventId /\ MaxEventId \in Nat
  BY <1>1, <1>3, EventLogAssumption
<1>6. x = doneXid + 1 /\ x \in 1 .. MaxXid + 1
  BY EventLogAssumption DEF LogTypeOK, SnapshotXmax
<1>7. /\ MissingRanges \subseteq peerRow.gaps \cup fresh
      /\ peerRow.gaps \subseteq MissingRanges
      /\ SnapshotXip # {} => fresh \subseteq MissingRanges
  BY DEF MissingRanges
<1>8. \A i \in S : i \in Int /\ peerRow.cursor < i /\ i <= Horizon
  BY <1>1, <1>3
<1>9. ASSUME NEW i \in InFlight, peerRow.cursor < i, i <= Horizon
      PROVE  i \in S
  BY <1>1, <1>3, <1>9 DEF InFlight, Visible, EventIds
<1> HIDE DEF S, x, fresh
<1>10. /\ \A i \in S : \E g \in fresh : i \in IdsOf(g) /\ g.xmax = x
       /\ \A g \in fresh :
             /\ g = [from |-> g.from, to |-> g.to, xmax |-> x]
             /\ g.from \in S /\ g.to \in S /\ g.from <= g.to
  BY <1>5, GapsForCovers DEF fresh
<1>11. fresh \subseteq Gap
  BY <1>5, <1>6, <1>10 DEF Gap, EventIds
<1>12. Horizon < nextId
  <2>1. nextId \in Int /\ 0 < nextId
    BY EventLogAssumption DEF LogTypeOK
  <2>2. Horizon # 0 => Horizon \in EventIds /\ rowState[Horizon] # "unassigned"
    BY <1>1 DEF Visible
  <2> QED
    BY <1>1, <2>1, <2>2 DEF LogInv
<1>13. ASSUME NEW g \in peerRow.gaps
       PROVE  /\ g.from \in Int /\ g.to \in Int /\ g.from <= g.to
              /\ g.to < peerRow.cursor /\ g.to <= Horizon
  <2>1. g.from \in Int /\ g.to \in Int
    BY <1>3 DEF Gap, EventIds
  <2> QED
    BY <1>1, <1>3, <1>4, <2>1, PeerFacts DEF WellFormed
<1>14. ASSUME NEW g \in fresh
       PROVE  /\ g.from \in Int /\ g.to \in Int /\ g.from <= g.to
              /\ peerRow.cursor < g.from /\ g.to <= Horizon
  BY <1>8, <1>10
<1>15. ASSUME NEW g \in MissingRanges, NEW h \in MissingRanges, g # h
       PROVE  g.to + 1 < h.from \/ h.to + 1 < g.from
  <2>1. CASE g \in peerRow.gaps /\ h \in peerRow.gaps
    BY <1>15, <2>1, PeerFacts DEF WellFormed
  <2>2. CASE g \in fresh /\ h \in fresh
    BY <1>5, <1>15, <2>2, GapsForApart DEF fresh
  <2>3. CASE g \in peerRow.gaps /\ h \in fresh
    BY <1>3, <1>13, <1>14, <2>3
  <2>4. CASE h \in peerRow.gaps /\ g \in fresh
    BY <1>3, <1>13, <1>14, <2>4
  <2> QED
    BY <1>7, <2>1, <2>2, <2>3, <2>4
<1>16. ASSUME NEW i \in InFlight, i <= Horizon
       PROVE  \/ Overtaken(i)
              \/ \E g \in MissingRanges : i \in IdsOf(g) /\ xidOf[i] < g.xmax
  <2>1. i \in EventIds /\ i \in Int /\ rowState[i] = "inflight" /\ xidOf[i] \in Int
    BY EventLogAssumption DEF InFlight, EventIds, LogTypeOK
  <2>2. CASE i <= peerRow.cursor
    BY <1>7, <2>2, PeerFacts
  <2>3. CASE i > peerRow.cursor /\ xidOf[i] > doneXid
    <3>1. Horizon \in Visible
      BY <1>1, <1>16, <2>1 DEF EventIds
    <3>2. Horizon # i
      BY <2>1, <3>1 DEF Visible
    <3>3. Horizon \in EventIds /\ rowState[Horizon] = "visible" /\ Horizon > i
      BY <1>1, <1>16, <2>1, <3>1, <3>2 DEF Visible
    <3>4. xidOf[Horizon] <= doneXid /\ xidOf[Horizon] \in Int /\ doneXid \in Int
      BY <1>2, <3>1, <3>3, EventLogAssumption DEF LogInv, LogTypeOK
    <3>5. xidOf[Horizon] < xidOf[i]
      BY <2>1, <2>3, <3>4
    <3> QED
      BY <3>3, <3>5 DEF Overtaken
  <2>4. CASE i > peerRow.cursor /\ xidOf[i] <= doneXid
    <3>1. i \in S
      BY <1>3, <1>9, <1>16, <2>1, <2>4
    <3>2. PICK w \in Writers : openXid[w] # 0 /\ openXid[w] = xidOf[i]
      BY DEF LogInv
    <3>3. openXid[w] \in 1 .. doneXid
      BY <2>4, <3>2, EventLogAssumption DEF LogTypeOK
    <3>4. SnapshotXip # {}
      BY <3>3 DEF SnapshotXip
    <3>5. PICK g \in fresh : i \in IdsOf(g) /\ g.xmax = x
      BY <1>10, <3>1
    <3>6. xidOf[i] < g.xmax
      BY <1>6, <2>1, <2>4, <3>5, EventLogAssumption DEF LogTypeOK
    <3> QED
      BY <1>7, <3>4, <3>5, <3>6
  <2>5. doneXid \in Int
    BY EventLogAssumption DEF LogTypeOK
  <2> QED
    BY <1>3, <2>1, <2>2, <2>3, <2>4, <2>5
<1> QED
  BY <1>3, <1>7, <1>11, <1>12, <1>13, <1>14, <1>15, <1>16

-----------------------------------------------------------------------------
(* The row a rebuild writes.                                               *)

(* Capping below the cursor keeps exactly the ids below it                 *)
(* (capPendingGapsBelowCursor).                                            *)
LEMMA CapExact ==
    ASSUME NEW G, G \subseteq Gap, NEW c \in 0 .. MaxEventId
    PROVE  /\ CapPendingGapsBelowCursor(G, c) \subseteq Gap
           /\ \A i \in Covered(CapPendingGapsBelowCursor(G, c)) : i \in Covered(G) /\ i < c
           /\ \A i \in Covered(G) : i < c => i \in Covered(CapPendingGapsBelowCursor(G, c))
<1> DEFINE cap(g) == [from |-> g.from,
                      to   |-> IF g.to >= c THEN c - 1 ELSE g.to,
                      xmax |-> g.xmax]
           D == CapPendingGapsBelowCursor(G, c)
<1>1. D = {cap(g) : g \in {h \in G : h.from < c}}
  BY DEF CapPendingGapsBelowCursor
<1>2. ASSUME NEW g \in G
      PROVE  /\ g.from \in 1 .. MaxEventId /\ g.to \in 1 .. MaxEventId
             /\ g.xmax \in 1 .. MaxXid + 1
  BY DEF Gap, EventIds
<1>3. ASSUME NEW g \in G, g.from < c
      PROVE  /\ cap(g) \in Gap
             /\ \A i : i \in IdsOf(cap(g)) <=> i \in IdsOf(g) /\ i < c
  <2>1. c - 1 \in 1 .. MaxEventId
    BY <1>2, <1>3, EventLogAssumption
  <2>2. cap(g) \in Gap
    BY <1>2, <2>1 DEF Gap, EventIds
  <2>3. \A i : i \in IdsOf(cap(g)) <=> i \in IdsOf(g) /\ i < c
    BY <1>2, <1>3 DEF IdsOf
  <2> QED
    BY <2>2, <2>3
<1>4. \A g \in G : \A i \in IdsOf(g) : i < c => g.from < c
  BY <1>2 DEF IdsOf
<1> HIDE DEF cap, D
<1>5. D \subseteq Gap
  BY <1>1, <1>3
<1>6. \A i \in Covered(D) : i \in Covered(G) /\ i < c
  BY <1>1, <1>3 DEF Covered
<1>7. ASSUME NEW i \in Covered(G), i < c PROVE i \in Covered(D)
  <2>1. PICK g \in G : i \in IdsOf(g)
    BY DEF Covered
  <2>2. cap(g) \in D /\ i \in IdsOf(cap(g))
    BY <1>1, <1>3, <1>4, <1>7, <2>1
  <2> QED
    BY <2>2 DEF Covered
<1> QED
  BY <1>5, <1>6, <1>7 DEF D

(* Giving all entries the same bound changes no id.                        *)
LEMMA ReboundExact ==
    ASSUME NEW G, G \subseteq Gap, NEW x \in 1 .. MaxXid + 1
    PROVE  LET D == {[g EXCEPT !.xmax = x] : g \in G}
           IN  /\ D \subseteq Gap
               /\ Covered(D) = Covered(G)
               /\ \A d \in D : d.xmax = x
<1> DEFINE re(g) == [g EXCEPT !.xmax = x]
           D == {re(g) : g \in G}
<1>1. ASSUME NEW g \in G
      PROVE  re(g) \in Gap /\ IdsOf(re(g)) = IdsOf(g) /\ re(g).xmax = x
  BY DEF Gap, IdsOf
<1>2. D \subseteq Gap /\ \A d \in D : d.xmax = x
  BY <1>1
<1>3. Covered(D) = Covered(G)
  <2> HIDE DEF re
  <2>1. \A i : (\E d \in D : i \in IdsOf(d)) <=> (\E g \in G : i \in IdsOf(g))
    BY <1>1
  <2> QED
    BY <2>1 DEF Covered
<1> QED
  BY <1>2, <1>3

(* The gaps a rebuild hands over: what was seeded, below the cursor, less  *)
(* what was replayed, with the xmax read after the replay.                 *)
LEMMA HandedOverExact ==
    ASSUME LogTypeOK, rebuild \in Rebuild, NEW c \in 0 .. MaxEventId
    PROVE  \E G : /\ G \subseteq Gap
                  /\ HandedOverGaps(c) = MergeContiguousGapRanges(G)
                  /\ \A i \in Covered(G) : i < c /\ i \notin rebuild.replayed
                  /\ \A i \in Covered(rebuild.gaps) \ rebuild.replayed :
                        i < c => \E g \in G : i \in IdsOf(g) /\ g.xmax = SnapshotXmax
<1> DEFINE x == SnapshotXmax
           A == SubtractIds(rebuild.gaps, rebuild.replayed)
           B == CapPendingGapsBelowCursor(A, c)
           G == {[g EXCEPT !.xmax = x] : g \in B}
<1>1. x \in 1 .. MaxXid + 1
  BY EventLogAssumption DEF LogTypeOK, SnapshotXmax
<1>2. rebuild.gaps \subseteq Entries(MaxEventId, MaxXid + 1)
  BY GapIsEntry DEF Rebuild
<1>3. /\ A \subseteq Gap
      /\ Covered(A) \subseteq Covered(rebuild.gaps) \ rebuild.replayed
      /\ \A g \in rebuild.gaps : \A i \in IdsOf(g) \ rebuild.replayed :
            \E h \in A : i \in IdsOf(h) /\ h.xmax = g.xmax
  BY <1>2, GapIsEntry, SubtractExact
<1>4. HandedOverGaps(c) = MergeContiguousGapRanges(G)
  BY DEF HandedOverGaps
<1>5. \A i \in Covered(rebuild.gaps) \ rebuild.replayed : i \in Covered(A)
  BY <1>3 DEF Covered
<1> HIDE DEF A, x
<1>6. /\ B \subseteq Gap
      /\ \A i \in Covered(B) : i \in Covered(A) /\ i < c
      /\ \A i \in Covered(A) : i < c => i \in Covered(B)
  BY <1>3, CapExact
<1> HIDE DEF B
<1>7. G \subseteq Gap /\ Covered(G) = Covered(B) /\ \A d \in G : d.xmax = x
  BY <1>1, <1>6, ReboundExact
<1> HIDE DEF G
<1>8. \A i \in Covered(G) : i < c /\ i \notin rebuild.replayed
  BY <1>3, <1>6, <1>7
<1>9. ASSUME NEW i \in Covered(rebuild.gaps) \ rebuild.replayed, i < c
      PROVE  \E g \in G : i \in IdsOf(g) /\ g.xmax = x
  <2>1. i \in Covered(G)
    BY <1>5, <1>6, <1>7, <1>9
  <2> QED
    BY <1>7, <2>1 DEF Covered
<1> QED
  BY <1>4, <1>7, <1>8, <1>9 DEF x

(* updateConsumerRebuildCursor: the row watches every subscribed event     *)
(* below its cursor that the replay did not see, and none that it did.     *)
LEMMA WrittenRow ==
    ASSUME IInv, rebuild \in Rebuild, rebuild.pc = "replayed", ReplayInv,
           NEW c, c = Max(rebuild.replayed \cup {0}),
           NEW r \in Row, r.cursor = c, r.gaps = HandedOverGaps(c),
           r.status = "idle", r.attempts = 0, r.lastFailed = None
    PROVE  /\ ReadyRow(r, rebuild.replayed \cup Foreign)
           /\ SettledIn(r, rebuild.replayed)
<1> USE DEF IInv, TypeOK
<1> DEFINE T == rebuild.replayed \cup {0}
<1>1. /\ T \subseteq 0 .. MaxEventId /\ T # {} /\ MaxEventId \in Nat
      /\ rebuild.replayed \subseteq EventIds
  BY EventLogAssumption DEF Rebuild, EventIds
<1>2. Max(T) \in T /\ \A t \in T : t <= Max(T)
  <2> HIDE DEF T
  <2> QED
    BY <1>1, MinMax
<1>3. /\ c \in 0 .. MaxEventId /\ (c # 0 => c \in rebuild.replayed)
      /\ \A i \in rebuild.replayed : i <= c
  BY <1>1, <1>2
<1>4. PICK G : /\ G \subseteq Gap
               /\ HandedOverGaps(c) = MergeContiguousGapRanges(G)
               /\ \A i \in Covered(G) : i < c /\ i \notin rebuild.replayed
               /\ \A i \in Covered(rebuild.gaps) \ rebuild.replayed :
                     i < c => \E g \in G : i \in IdsOf(g) /\ g.xmax = SnapshotXmax
  BY <1>3, HandedOverExact
<1>5. r.gaps = MergeContiguousGapRanges(G)
  BY <1>4
<1>6. \A i \in Covered(G) : i <= r.cursor
  <2> SUFFICES ASSUME NEW i \in Covered(G) PROVE i <= c
    OBVIOUS
  <2>1. Covered(G) \subseteq 1 .. MaxEventId
    BY <1>4, GapIsEntry, CoveredIsIds
  <2>2. i \in Int /\ c \in Int
    BY <1>3, <2>1
  <2>3. i < c
    BY <1>4
  <2> QED
    BY <2>2, <2>3
<1>7. /\ WellFormed(r)
      /\ Covered(r.gaps) \subseteq Covered(G)
      /\ \A g \in G : \A i \in IdsOf(g) : \E m \in r.gaps : i \in IdsOf(m) /\ g.xmax <= m.xmax
  BY <1>4, <1>5, <1>6, MergedRow
<1>8. c # 0 => /\ c \in EventIds /\ rowState[c] = "visible" /\ c <= rebuild.horizon
               /\ xidOf[c] <= doneXid /\ c < nextId
  BY <1>3 DEF ReplayInv, Visible, LogInv, Committed
<1>9. r.cursor < nextId
  BY <1>8, EventLogAssumption DEF LogTypeOK
<1>10. ASSUME NEW i \in EventIds, i <= c, i \in InFlight \cup Visible,
              i \notin rebuild.replayed \cup Foreign
       PROVE  \/ Overtaken(i)
              \/ \E g \in r.gaps : i \in IdsOf(g) /\ xidOf[i] < g.xmax
  <2>1. /\ i \in Int /\ i > 0 /\ xidOf[i] \in Int /\ doneXid \in Int
        /\ rebuild.horizon \in Int /\ SnapshotXmax = doneXid + 1
    BY <1>10, EventLogAssumption DEF EventIds, LogTypeOK, Rebuild, SnapshotXmax
  <2>2. c # 0 /\ i < c
    BY <1>3, <1>10, <2>1
  <2>3. xidOf[c] \in Int
    BY <1>8, <2>2, EventLogAssumption DEF LogTypeOK
  <2>4. Overtaken(i) \/ i \in Covered(rebuild.gaps)
    BY <1>3, <1>8, <1>10, <2>1, <2>2 DEF ReplayInv
  <2>5. CASE xidOf[i] > doneXid
    <3>1. xidOf[c] < xidOf[i] /\ c > i
      BY <1>3, <1>8, <2>1, <2>2, <2>3, <2>5
    <3> QED
      BY <1>8, <2>2, <3>1 DEF Overtaken
  <2>6. CASE xidOf[i] <= doneXid /\ i \in Covered(rebuild.gaps)
    <3>1. PICK g \in G : i \in IdsOf(g) /\ g.xmax = doneXid + 1
      BY <1>4, <1>10, <2>1, <2>2, <2>6
    <3>2. PICK m \in r.gaps : i \in IdsOf(m) /\ g.xmax <= m.xmax
      BY <1>7, <3>1
    <3>3. m.xmax \in Int
      BY DEF Row, Gap
    <3>4. xidOf[i] < m.xmax
      BY <2>1, <2>6, <3>1, <3>2, <3>3
    <3> QED
      BY <3>2, <3>4
  <2> QED
    BY <2>1, <2>4, <2>5, <2>6
<1>11. ReadyRow(r, rebuild.replayed \cup Foreign)
  BY <1>7, <1>9, <1>10 DEF ReadyRow
<1>12. SettledIn(r, rebuild.replayed)
  BY <1>3, <1>4, <1>7 DEF SettledIn
<1> QED
  BY <1>11, <1>12

-----------------------------------------------------------------------------
(* The steps of a handover.                                                *)

(* A row that is ready stays so while the log grows.                       *)
LEMMA ReadyRowStays ==
    ASSUME LogTypeOK, LogTypeOK', LogInv, LogGrows, NEW r \in Row, NEW done, ReadyRow(r, done)
    PROVE  /\ r.cursor < nextId'
           /\ \A i \in EventIds :
                 i <= r.cursor /\ i \in InFlight' \cup Visible' /\ i \notin done
                    => \/ Overtaken(i)'
                       \/ \E g \in r.gaps : i \in IdsOf(g) /\ xidOf'[i] < g.xmax
<1>1. r.cursor \in Int /\ r.cursor < nextId
  BY DEF Row, ReadyRow
<1>2. nextId \in Int /\ nextId' \in Int /\ nextId <= nextId'
  BY DEF LogTypeOK, LogGrows
<1>3. \A i \in EventIds :
         i <= r.cursor /\ i \in InFlight \cup Visible /\ i \notin done
            => \/ Overtaken(i)
               \/ \E g \in r.gaps : i \in IdsOf(g) /\ xidOf[i] < g.xmax
  BY DEF ReadyRow
<1> DEFINE c == r.cursor
           gaps == r.gaps
<1> HIDE DEF c, gaps
<1>4. \A i \in EventIds :
         i <= c /\ i \in InFlight' \cup Visible' /\ i \notin done
            => \/ Overtaken(i)'
               \/ \E g \in gaps : i \in IdsOf(g) /\ xidOf'[i] < g.xmax
  BY <1>1, <1>3, WatchStays DEF c, gaps
<1> QED
  BY <1>1, <1>2, <1>4 DEF c, gaps

(* Writers go on while a handover is under way.                            *)
LEMMA WritersKeepHandover ==
    ASSUME HandoverInv, LogNext, UNCHANGED <<consumerVars, rebuild, rebuilds, peerVars>>
    PROVE  HandoverInv'
<1> USE DEF HandoverInv
<1>1. UNCHANGED consumerVars /\ rebuild' = rebuild /\ rebuilds' = rebuilds
  BY DEF consumerVars
<1>2. LogTypeOK /\ LogInv
  BY DEF IInv, TypeOK
<1>3. LogTypeOK' /\ LogGrows
  BY <1>2, LogStep
<1>4. IInv'
  BY <1>1, WritersKeepIInv
<1>5. PeerInv'
  BY PeerKeepsInv DEF peerVars
<1>6. Unpruned'
  BY <1>1, <1>2, StepPrunesNothing DEF Next
<1>7. OwnedInv'
  BY <1>1 DEF OwnedInv, RowLocked, consumerVars
<1>8. rebuild.row \in Row /\ rebuild.horizon \in Int
  BY DEF Rebuild
<1>9. nextId \in Int /\ nextId' \in Int /\ nextId <= nextId'
  BY <1>2, <1>3 DEF LogTypeOK, LogGrows
<1>10. ASSUME NEW i \in EventIds, rebuild.horizon < nextId, i <= rebuild.horizon
       PROVE  /\ i < nextId
              /\ Overtaken(i) => Overtaken(i)'
              /\ i \in InFlight' => i \in InFlight
              /\ i \in InFlight' \cup Visible' => i \in InFlight \cup Visible
  <2>1. i < nextId
    BY <1>8, <1>9, <1>10 DEF EventIds
  <2>2. i \in InFlight' \cup Visible' => i \in InFlight \cup Visible
    BY <1>3, <2>1 DEF LogGrows
  <2>3. i \in InFlight' => i \notin Visible
    BY <1>3 DEF LogGrows, InFlight, Visible
  <2> QED
    BY <1>2, <1>3, <2>1, <2>2, <2>3, OvertakenStays
<1>11. SeedInv'
  <2>1. rebuild.pc = "registering" => ReadyRow(rebuild.row, rebuild.replayed)'
    BY <1>1, <1>2, <1>3, <1>8, ReadyRowStays DEF SeedInv, ReadyRow, WellFormed
  <2>2. rebuild.pc \in {"seeded", "replayed"} => rebuild.horizon < nextId'
    BY <1>8, <1>9 DEF SeedInv
  <2>3. ASSUME rebuild.pc = "seeded", NEW i \in InFlight', i <= rebuild.horizon
        PROVE  Overtaken(i)' \/ i \in Covered(rebuild.gaps)
    <3>1. i \in EventIds
      BY DEF InFlight
    <3> QED
      BY <1>10, <2>3, <3>1 DEF SeedInv
  <2> QED
    BY <1>1, <2>1, <2>2, <2>3 DEF SeedInv
<1>12. ReplayInv'
  <2>1. ASSUME rebuild.pc = "replayed"
        PROVE  rebuild.replayed \subseteq {i \in Visible' : i <= rebuild.horizon}
    <3>1. Visible \subseteq Visible'
      BY <1>3 DEF LogGrows, Visible
    <3> QED
      BY <2>1, <3>1 DEF ReplayInv
  <2>2. ASSUME rebuild.pc = "replayed", NEW i \in EventIds, i <= rebuild.horizon,
               i \in InFlight' \cup Visible', i \notin rebuild.replayed \cup Foreign
        PROVE  Overtaken(i)' \/ i \in Covered(rebuild.gaps)
    BY <1>10, <2>2 DEF SeedInv, ReplayInv
  <2>3. ASSUME rebuild.pc = "written"
        PROVE  ReadyRow(rebuild.row, rebuild.replayed \cup Foreign)'
    <3> DEFINE done == rebuild.replayed \cup Foreign
               r == rebuild.row
    <3>1. ReadyRow(r, done) /\ done' = done
      BY <1>1, <2>3 DEF ReplayInv, Foreign
    <3>2. rebuild'.row = r
      BY <1>1
    <3> HIDE DEF done, r
    <3>3. /\ r.cursor < nextId'
          /\ \A i \in EventIds :
                i <= r.cursor /\ i \in InFlight' \cup Visible' /\ i \notin done
                   => \/ Overtaken(i)'
                      \/ \E g \in r.gaps : i \in IdsOf(g) /\ xidOf'[i] < g.xmax
      BY <1>2, <1>3, <1>8, <3>1, ReadyRowStays DEF r
    <3>4. ReadyRow(rebuild.row, done)'
      BY <3>1, <3>2, <3>3 DEF ReadyRow, WellFormed
    <3> QED
      BY <3>4 DEF done
  <2>4. rebuild.pc = "written" => SettledIn(rebuild.row, rebuild.replayed)'
    BY <1>1 DEF ReplayInv, SettledIn
  <2> QED
    BY <1>1, <2>1, <2>2, <2>3, <2>4 DEF ReplayInv, Foreign
<1> QED
  BY <1>1, <1>4, <1>5, <1>6, <1>7, <1>11, <1>12

(* What the invariants say of the log is the same when the log is.         *)
LEMMA SameLog ==
    ASSUME UNCHANGED logVars
    PROVE  /\ Visible' = Visible /\ InFlight' = InFlight /\ Committed' = Committed
           /\ xidOf' = xidOf /\ rowState' = rowState /\ nextId' = nextId
           /\ \A i : Overtaken(i)' <=> Overtaken(i)
           /\ \A r, done : ReadyRow(r, done)' <=> ReadyRow(r', done')
           /\ Unpruned' <=> Unpruned
  BY DEF logVars, Visible, InFlight, Committed, Overtaken, Unpruned, ReadyRow, WellFormed

(* Turns run while no rebuild has the row.                                 *)
LEMMA TurnsKeepHandover ==
    ASSUME HandoverInv, ~RowLocked, TurnNext \/ RollBackTurn,
           UNCHANGED <<rebuild, rebuilds, peerVars>>
    PROVE  HandoverInv'
<1> USE DEF HandoverInv
<1>1. UNCHANGED logVars /\ UNCHANGED peerVars /\ rebuild' = rebuild /\ rebuilds' = rebuilds
  BY DEF TurnNext, AcquireConsumerState, FetchPendingEvents, NothingToDo, DeliverNothing,
         DeliverBatch, DeliverOneByOne, DeliverConsumerTurn, PersistConsumerOutcome,
         RollBackTurn
<1>2. IInv'
  BY NextIInv DEF Next
<1>3. PeerInv'
  BY <1>1, PeerKeepsInv
<1>4. Unpruned'
  BY <1>1, SameLog
<1>5. rebuild.pc \in {"none", "failed"}
  BY DEF RowLocked
<1>6. OwnedInv' /\ SeedInv' /\ ReplayInv'
  BY <1>1, <1>5 DEF OwnedInv, RowLocked, SeedInv, ReplayInv
<1> QED
  BY <1>1, <1>2, <1>3, <1>4, <1>6

(* The peer's turns do not touch the log or the consumer.                  *)
LEMMA PeerTurnsKeepHandover ==
    ASSUME HandoverInv, Peer!TurnNext, UNCHANGED <<consumerVars, rebuild, rebuilds>>
    PROVE  HandoverInv'
<1> USE DEF HandoverInv
<1>1. UNCHANGED logVars
  BY DEF Peer!TurnNext, Peer!AcquireConsumerState, Peer!FetchPendingEvents, Peer!NothingToDo,
         Peer!DeliverNothing, Peer!DeliverBatch, Peer!DeliverOneByOne,
         Peer!DeliverConsumerTurn, Peer!PersistConsumerOutcome, Peer!logVars, logVars
<1>2. UNCHANGED consumerVars /\ rebuild' = rebuild /\ rebuilds' = rebuilds
  BY DEF consumerVars
<1>3. IInv'
  BY <1>1, <1>2, NextIInv DEF vars
<1>4. PeerInv'
  BY PeerKeepsInv
<1>5. Unpruned'
  BY <1>1, SameLog
<1>6. OwnedInv'
  BY <1>2 DEF OwnedInv, RowLocked, consumerVars
<1>7. SeedInv'
  BY <1>1, <1>2, SameLog DEF SeedInv, ReadyRow, WellFormed
<1>8. ReplayInv'
  BY <1>1, <1>2, SameLog DEF ReplayInv, ReadyRow, WellFormed, SettledIn, Foreign
<1> QED
  BY <1>2, <1>3, <1>4, <1>5, <1>6, <1>7, <1>8

(* A step inside the rebuild's transaction is not seen by anyone else.     *)
LEMMA InsideTransaction ==
    ASSUME HandoverInv, UNCHANGED <<vars, peerVars>>
    PROVE  /\ UNCHANGED <<logVars, turn, resolved>>
           /\ IInv' /\ PeerInv' /\ Unpruned'
<1> USE DEF HandoverInv
<1>1. UNCHANGED vars /\ UNCHANGED <<logVars, turn, resolved>> /\ UNCHANGED peerVars
  BY DEF vars, consumerVars
<1>2. IInv'
  BY <1>1, NextIInv
<1>3. PeerInv'
  BY <1>1, PeerKeepsInv
<1>4. Unpruned'
  BY <1>1, SameLog
<1> QED
  BY <1>1, <1>2, <1>3, <1>4

(* insertConsumerIfAbsent reads horizon and gaps: the row it will insert   *)
(* watches all that is in flight, and what is visible is history.          *)
LEMMA SeedKeepsHandover ==
    ASSUME HandoverInv, SeedFromNow
    PROVE  HandoverInv'
<1> USE DEF HandoverInv
<1> DEFINE h == Horizon
           G == MissingRanges
           V == Visible
           r == [NewRow EXCEPT !.cursor = h, !.gaps = G]
<1>1. /\ rebuild.pc = "unregistered"
      /\ rebuild' = [rebuild EXCEPT !.pc = "registering", !.replayed = V, !.row = r]
      /\ rebuilds' = rebuilds
      /\ UNCHANGED <<vars, peerVars>>
  BY DEF SeedFromNow
<1>2. UNCHANGED <<logVars, turn, resolved>> /\ IInv' /\ PeerInv' /\ Unpruned'
  BY <1>1, InsideTransaction
<1>3. h \in 0 .. MaxEventId /\ V \subseteq EventIds
  BY HorizonIsLast DEF Visible
<1>4. /\ G \subseteq Gap
      /\ h < nextId
      /\ \A g \in G : g.from <= g.to /\ g.to <= h
      /\ \A g \in G, k \in G : g # k => g.to + 1 < k.from \/ k.to + 1 < g.from
      /\ \A i \in InFlight :
            i <= h => \/ Overtaken(i)
                      \/ \E g \in G : i \in IdsOf(g) /\ xidOf[i] < g.xmax
  BY SeedWatches DEF IInv, TypeOK
<1> HIDE DEF h, G, V
<1>5. /\ r \in Row /\ r.cursor = h /\ r.gaps = G
      /\ r.status = "idle" /\ r.attempts = 0 /\ r.lastFailed = None
  BY <1>3, <1>4, NoTurnTyped DEF NewRow, Row
<1> HIDE DEF r
<1>6. ReadyRow(r, V)
  BY <1>4, <1>5 DEF ReadyRow, WellFormed, V
<1>7. /\ rebuild' \in Rebuild /\ rebuild'.pc = "registering"
      /\ rebuild'.replayed = V /\ rebuild'.row = r
  BY <1>1, <1>3, <1>5 DEF Rebuild
<1>8. OwnedInv'
  BY <1>1, <1>2, <1>7 DEF OwnedInv, RowLocked
<1>9. SeedInv'
  BY <1>2, <1>6, <1>7, SameLog DEF SeedInv, ReadyRow, WellFormed
<1>10. ReplayInv'
  BY <1>7 DEF ReplayInv
<1> QED
  BY <1>1, <1>2, <1>7, <1>8, <1>9, <1>10

(* Between the transactions of a handover nothing is pending.              *)
LEMMA Restored ==
    ASSUME HandoverInv, rebuild' = NoRebuild, rebuilds' = rebuilds,
           IInv', PeerInv', UNCHANGED logVars
    PROVE  HandoverInv'
<1> USE DEF HandoverInv
<1>1. NoRebuild \in Rebuild /\ NoRebuild.pc = "none"
  BY NoTurnTyped, EventLogAssumption DEF NoRebuild, Rebuild
<1>2. Unpruned'
  BY SameLog
<1>3. OwnedInv' /\ SeedInv' /\ ReplayInv'
  BY <1>1 DEF OwnedInv, RowLocked, SeedInv, ReplayInv
<1> QED
  BY <1>1, <1>2, <1>3

(* The insert: events committed since the read are watched by the row.     *)
LEMMA InsertKeepsHandover ==
    ASSUME HandoverInv, InsertConsumer
    PROVE  HandoverInv'
<1> USE DEF HandoverInv
<1>1. /\ rebuild.pc = "registering" /\ row' = rebuild.row /\ skipped' = rebuild.replayed
      /\ rebuild' = NoRebuild /\ rebuilds' = rebuilds /\ UNCHANGED logVars
      /\ UNCHANGED peerVars
      /\ turn' = turn /\ rollbacks' = rollbacks /\ handled' = handled
      /\ resolved' = resolved /\ held' = held
  BY DEF InsertConsumer
<1>2. turn = NoTurn /\ resolved = {}
  BY <1>1 DEF OwnedInv, RowLocked, IInv, LockInv
<1>3. ReadyRow(rebuild.row, rebuild.replayed)
  BY <1>1 DEF SeedInv
<1>4. rebuild.row \in Row /\ rebuild.replayed \subseteq EventIds
  BY DEF Rebuild
<1>5. /\ row' \in Row /\ row'.status = "idle" /\ row'.attempts = 0 /\ row'.lastFailed = None
      /\ row'.cursor < nextId /\ WellFormed(row') /\ SettledIn(row', resolved')
  BY <1>1, <1>2, <1>3, <1>4 DEF ReadyRow, SettledIn
<1>6. \A i \in EventIds :
         i <= row'.cursor /\ i \in InFlight \cup Visible /\ i \notin handled' \cup skipped'
            => \/ Overtaken(i)
               \/ \E g \in row'.gaps : i \in IdsOf(g) /\ xidOf[i] < g.xmax
  BY <1>1, <1>3 DEF ReadyRow
<1>7. row'.status = "idle" => row'.attempts < MaxAttempts
  BY <1>5, EventDispatcherAssumption
<1>8. IInv'
  BY <1>1, <1>2, <1>4, <1>5, <1>6, <1>7, TurnEnds DEF IInv, TypeOK
<1>9. PeerInv'
  BY <1>1, PeerKeepsInv
<1> QED
  BY <1>1, <1>8, <1>9, Restored

(* The rebuild takes the row and reads horizon and gaps.                   *)
LEMMA BeginKeepsHandover ==
    ASSUME HandoverInv, BeginRebuild
    PROVE  HandoverInv'
<1> USE DEF HandoverInv
<1> DEFINE h == Horizon
           G == MissingRanges
<1>1. /\ rebuild.pc = "none" /\ rebuilds < MaxRebuilds /\ turn.pc = "idle"
      /\ rebuild' = [rebuild EXCEPT !.pc = "seeded", !.horizon = h, !.gaps = G]
      /\ rebuilds' = rebuilds + 1
      /\ UNCHANGED <<vars, peerVars>>
  BY DEF BeginRebuild
<1>2. UNCHANGED <<logVars, turn, resolved>> /\ IInv' /\ PeerInv' /\ Unpruned'
  BY <1>1, InsideTransaction
<1>3. h \in 0 .. MaxEventId
  BY HorizonIsLast
<1>4. /\ G \subseteq Gap
      /\ h < nextId
      /\ \A i \in InFlight :
            i <= h => \/ Overtaken(i)
                      \/ \E g \in G : i \in IdsOf(g) /\ xidOf[i] < g.xmax
  BY SeedWatches DEF IInv, TypeOK
<1> HIDE DEF h, G
<1>5. /\ rebuild' \in Rebuild /\ rebuild'.pc = "seeded"
      /\ rebuild'.horizon = h /\ rebuild'.gaps = G
  BY <1>1, <1>3, <1>4 DEF Rebuild
<1>6. rebuilds' \in 0 .. MaxRebuilds
  BY <1>1, CursorHandoverAssumption
<1>7. OwnedInv'
  BY <1>1, <1>2, <1>5 DEF OwnedInv, RowLocked
<1>8. \A i \in InFlight : i <= h => Overtaken(i) \/ i \in Covered(G)
  BY <1>4 DEF Covered
<1>9. SeedInv'
  BY <1>2, <1>4, <1>5, <1>8, SameLog DEF SeedInv
<1>10. ReplayInv'
  BY <1>5 DEF ReplayInv
<1> QED
  BY <1>2, <1>5, <1>6, <1>7, <1>9, <1>10

(* replayMultiStreamProjectionIntoShadow: what it does not see below the   *)
(* horizon is still in flight, and so in the gaps that were seeded.        *)
LEMMA ReplayKeepsHandover ==
    ASSUME HandoverInv, ReplayIntoShadow
    PROVE  HandoverInv'
<1> USE DEF HandoverInv
<1> DEFINE R == ReplayableIds
<1>1. /\ rebuild.pc = "seeded"
      /\ rebuild' = [rebuild EXCEPT !.pc = "replayed", !.replayed = R]
      /\ rebuilds' = rebuilds
      /\ UNCHANGED <<vars, peerVars>>
  BY DEF ReplayIntoShadow
<1>2. UNCHANGED <<logVars, turn, resolved>> /\ IInv' /\ PeerInv' /\ Unpruned'
  BY <1>1, InsideTransaction
<1>3. R \subseteq EventIds /\ R \subseteq {i \in Visible : i <= rebuild.horizon}
  BY DEF ReplayableIds, Visible
<1>4. ASSUME NEW i \in EventIds, i <= rebuild.horizon, i \in InFlight \cup Visible,
             i \notin R \cup Foreign
      PROVE  Overtaken(i) \/ i \in Covered(rebuild.gaps)
  <2>1. i \in SubscribedIds
    BY <1>4 DEF Foreign
  <2>2. i \notin Visible
    BY <1>4, <2>1 DEF ReplayableIds
  <2> QED
    BY <1>1, <1>4, <2>2 DEF SeedInv
<1> HIDE DEF R
<1>5. /\ rebuild' \in Rebuild /\ rebuild'.pc = "replayed" /\ rebuild'.replayed = R
      /\ rebuild'.horizon = rebuild.horizon /\ rebuild'.gaps = rebuild.gaps
  BY <1>1, <1>3 DEF Rebuild
<1>6. OwnedInv'
  BY <1>1, <1>2, <1>5 DEF OwnedInv, RowLocked
<1>7. SeedInv'
  BY <1>1, <1>2, <1>5, SameLog DEF SeedInv
<1>8. ReplayInv'
  BY <1>2, <1>3, <1>4, <1>5, SameLog DEF ReplayInv, Foreign
<1> QED
  BY <1>1, <1>2, <1>5, <1>6, <1>7, <1>8

(* updateConsumerRebuildCursor.                                            *)
LEMMA UpdateKeepsHandover ==
    ASSUME HandoverInv, UpdateConsumerRebuildCursor
    PROVE  HandoverInv'
<1> USE DEF HandoverInv
<1> DEFINE c == Max(rebuild.replayed \cup {0})
           G == HandedOverGaps(c)
           n == row.rearmCount
           r == [NewRow EXCEPT !.cursor = c, !.gaps = G, !.rearmCount = n]
<1>1. /\ rebuild.pc = "replayed"
      /\ rebuild' = [rebuild EXCEPT !.pc = "written", !.row = r]
      /\ rebuilds' = rebuilds
      /\ UNCHANGED <<vars, peerVars>>
  BY DEF UpdateConsumerRebuildCursor
<1>2. UNCHANGED <<logVars, turn, resolved>> /\ IInv' /\ PeerInv' /\ Unpruned'
  BY <1>1, InsideTransaction
<1>3. c \in 0 .. MaxEventId
  <2> DEFINE T == rebuild.replayed \cup {0}
  <2>1. T \subseteq 0 .. MaxEventId /\ T # {} /\ MaxEventId \in Nat
    BY EventLogAssumption DEF Rebuild, EventIds
  <2>2. Max(T) \in T
    <3> HIDE DEF T
    <3> QED
      BY <2>1, MinMax
  <2> QED
    BY <2>1, <2>2
<1>4. G \subseteq Gap
  <2> HIDE DEF c
  <2>1. PICK H : H \subseteq Gap /\ G = MergeContiguousGapRanges(H)
    BY <1>3, HandedOverExact DEF IInv, TypeOK
  <2> QED
    BY <2>1, MergedGaps
<1>5. n \in 0 .. MaxRearmCount
  BY DEF IInv, TypeOK, Row
<1>6. /\ r \in Row /\ r.cursor = c /\ r.gaps = G
      /\ r.status = "idle" /\ r.attempts = 0 /\ r.lastFailed = None
  <2>1. G \in SUBSET Gap
    BY <1>4
  <2> HIDE DEF c, G, n
  <2> QED
    BY <1>3, <1>5, <2>1, NoTurnTyped DEF NewRow, Row
<1> HIDE DEF r
<1>7. ReadyRow(r, rebuild.replayed \cup Foreign) /\ SettledIn(r, rebuild.replayed)
  BY <1>1, <1>6, WrittenRow
<1> HIDE DEF c, G, n
<1>8. /\ rebuild' \in Rebuild /\ rebuild'.pc = "written" /\ rebuild'.row = r
      /\ rebuild'.replayed = rebuild.replayed
  BY <1>1, <1>6 DEF Rebuild
<1>9. OwnedInv'
  BY <1>1, <1>2, <1>8 DEF OwnedInv, RowLocked
<1>10. SeedInv'
  BY <1>8 DEF SeedInv
<1>11. ReplayInv'
  BY <1>2, <1>7, <1>8, SameLog DEF ReplayInv, ReadyRow, WellFormed, SettledIn, Foreign
<1> QED
  BY <1>1, <1>2, <1>8, <1>9, <1>10, <1>11

(* The commit: the row watches what the replay did not see, the histories  *)
(* start again with what it did see.                                       *)
LEMMA SwapKeepsHandover ==
    ASSUME HandoverInv, SwapAndCommit
    PROVE  HandoverInv'
<1> USE DEF HandoverInv
<1>1. /\ rebuild.pc = "written" /\ row' = rebuild.row
      /\ handled' = rebuild.replayed \cup Foreign /\ resolved' = rebuild.replayed
      /\ skipped' = {} /\ held' = {}
      /\ rebuild' = NoRebuild /\ rebuilds' = rebuilds /\ UNCHANGED logVars
      /\ UNCHANGED peerVars /\ turn' = turn /\ rollbacks' = rollbacks
  BY DEF SwapAndCommit, Foreign
<1>2. turn = NoTurn
  BY <1>1 DEF OwnedInv, RowLocked, IInv, LockInv
<1>3. /\ ReadyRow(rebuild.row, rebuild.replayed \cup Foreign)
      /\ SettledIn(rebuild.row, rebuild.replayed)
  BY <1>1 DEF ReplayInv
<1>4. /\ rebuild.row \in Row /\ rebuild.replayed \subseteq EventIds
      /\ Foreign \subseteq EventIds
  BY DEF Rebuild, Foreign
<1>5. /\ row' \in Row /\ row'.status = "idle" /\ row'.attempts = 0 /\ row'.lastFailed = None
      /\ row'.cursor < nextId /\ WellFormed(row') /\ SettledIn(row', resolved')
  BY <1>1, <1>3, <1>4 DEF ReadyRow
<1>6. \A i \in EventIds :
         i <= row'.cursor /\ i \in InFlight \cup Visible /\ i \notin handled' \cup skipped'
            => \/ Overtaken(i)
               \/ \E g \in row'.gaps : i \in IdsOf(g) /\ xidOf[i] < g.xmax
  BY <1>1, <1>3 DEF ReadyRow
<1>7. row'.status = "idle" => row'.attempts < MaxAttempts
  BY <1>5, EventDispatcherAssumption
<1>8. /\ rollbacks' \in 0 .. MaxRollbacks /\ handled' \subseteq EventIds
      /\ skipped' \subseteq EventIds /\ held' \subseteq EventIds /\ resolved' \subseteq EventIds
  BY <1>1, <1>4 DEF IInv, TypeOK
<1>9. IInv'
  BY <1>1, <1>2, <1>5, <1>6, <1>7, <1>8, TurnEnds
<1>10. PeerInv'
  BY <1>1, PeerKeepsInv
<1> QED
  BY <1>1, <1>9, <1>10, Restored

(* A rebuild that fails leaves no trace but the mark to be made.           *)
LEMMA FailKeepsHandover ==
    ASSUME HandoverInv, FailRebuild
    PROVE  HandoverInv'
<1> USE DEF HandoverInv
<1>1. /\ rebuild' = [NoRebuild EXCEPT !.pc = "failed"] /\ rebuilds' = rebuilds
      /\ UNCHANGED <<vars, peerVars>>
  BY DEF FailRebuild
<1>2. UNCHANGED <<logVars, turn, resolved>> /\ IInv' /\ PeerInv' /\ Unpruned'
  BY <1>1, InsideTransaction
<1>3. rebuild' \in Rebuild /\ rebuild'.pc = "failed"
  BY <1>1, NoTurnTyped, EventLogAssumption DEF NoRebuild, Rebuild
<1>4. OwnedInv' /\ SeedInv' /\ ReplayInv'
  BY <1>3 DEF OwnedInv, RowLocked, SeedInv, ReplayInv
<1> QED
  BY <1>1, <1>2, <1>3, <1>4

(* markConsumerRebuildFailed: a dead row keeps its cursor and its gaps.    *)
LEMMA MarkKeepsHandover ==
    ASSUME HandoverInv, MarkConsumerRebuildFailed
    PROVE  HandoverInv'
<1> USE DEF HandoverInv
<1>1. /\ MarkDeadOnFailure => turn.pc = "idle"
      /\ row' = IF MarkDeadOnFailure THEN [row EXCEPT !.status = "dead"] ELSE row
      /\ rebuild' = NoRebuild /\ rebuilds' = rebuilds /\ UNCHANGED logVars
      /\ UNCHANGED peerVars /\ turn' = turn /\ rollbacks' = rollbacks /\ handled' = handled
      /\ resolved' = resolved /\ skipped' = skipped /\ held' = held
  BY DEF MarkConsumerRebuildFailed
<1>2. IInv'
  <2>1. CASE MarkDeadOnFailure
    <3>1. turn' = NoTurn
      BY <1>1, <2>1 DEF IInv, LockInv
    <3>2. /\ row' \in Row /\ row'.status = "dead" /\ row'.cursor = row.cursor
          /\ row'.gaps = row.gaps /\ row'.lastFailed = row.lastFailed
      BY <1>1, <2>1 DEF IInv, TypeOK, Row
    <3>3. /\ row'.cursor < nextId /\ SettledIn(row', resolved') /\ WellFormed(row')
          /\ row'.lastFailed # None => row'.lastFailed \in Committed
      BY <1>1, <3>2 DEF IInv, LockInv, SettledInv, SettledIn, RowInv, WellFormed
    <3>4. \A i \in EventIds :
             i <= row'.cursor /\ i \in InFlight \cup Visible /\ i \notin handled' \cup skipped'
                => \/ Overtaken(i)
                   \/ \E g \in row'.gaps : i \in IdsOf(g) /\ xidOf[i] < g.xmax
      BY <1>1, <3>2 DEF IInv, WatchInv, Watched
    <3>5. /\ rollbacks' \in 0 .. MaxRollbacks /\ handled' \subseteq EventIds
          /\ skipped' \subseteq EventIds /\ held' \subseteq EventIds
          /\ resolved' \subseteq EventIds
      BY <1>1 DEF IInv, TypeOK
    <3>6. row'.status = "idle" => row'.attempts < MaxAttempts
      BY <3>2
    <3> QED
      BY <1>1, <3>1, <3>2, <3>3, <3>4, <3>5, <3>6, TurnEnds
  <2>2. CASE ~MarkDeadOnFailure
    <3>1. UNCHANGED vars
      BY <1>1, <2>2 DEF vars, consumerVars, logVars
    <3> QED
      BY <3>1, NextIInv
  <2> QED
    BY <2>1, <2>2
<1>3. PeerInv'
  BY <1>1, PeerKeepsInv
<1> QED
  BY <1>1, <1>2, <1>3, Restored

-----------------------------------------------------------------------------
(* The theorems on handovers.                                              *)

(* It holds of a consumer that is registered or still to be.               *)
LEMMA InitHandover == HandoverInit => HandoverInv
<1> SUFFICES ASSUME HandoverInit PROVE HandoverInv
  OBVIOUS
<1>1. /\ Init /\ rebuilds = 0
      /\ rebuild = NoRebuild \/ rebuild = [NoRebuild EXCEPT !.pc = "unregistered"]
  BY DEF HandoverInit
<1>2. IInv /\ PeerInv
  BY <1>1, InitIInv, PeerInit
<1>3. Unpruned
  BY <1>1 DEF Init, LogInit, Unpruned
<1>4. rebuild \in Rebuild /\ rebuild.pc \in {"none", "unregistered"}
  BY <1>1, NoTurnTyped, EventLogAssumption DEF NoRebuild, Rebuild
<1>5. turn.pc = "idle" /\ resolved = {}
  BY <1>1, NoTurnTyped DEF Init
<1>6. OwnedInv /\ SeedInv /\ ReplayInv
  BY <1>4, <1>5 DEF OwnedInv, SeedInv, ReplayInv
<1>7. rebuilds \in 0 .. MaxRebuilds
  BY <1>1, CursorHandoverAssumption
<1> QED
  BY <1>2, <1>3, <1>4, <1>6, <1>7 DEF HandoverInv

(* Every step of a handover, of a turn, of the peer and of a writer.       *)
LEMMA NextHandover == HandoverInv /\ [HandoverNext]_handoverVars => HandoverInv'
<1> SUFFICES ASSUME HandoverInv, [HandoverNext]_handoverVars PROVE HandoverInv'
  OBVIOUS
<1>1. CASE LogNext /\ UNCHANGED <<consumerVars, rebuild, rebuilds, peerVars>>
  BY <1>1, WritersKeepHandover
<1>2. CASE ~RowLocked /\ (TurnNext \/ RollBackTurn) /\ UNCHANGED <<rebuild, rebuilds, peerVars>>
  BY <1>2, TurnsKeepHandover
<1>3. CASE Peer!TurnNext /\ UNCHANGED <<consumerVars, rebuild, rebuilds>>
  BY <1>3, PeerTurnsKeepHandover
<1>4. CASE SeedFromNow
  BY <1>4, SeedKeepsHandover
<1>5. CASE InsertConsumer
  BY <1>5, InsertKeepsHandover
<1>6. CASE BeginRebuild
  BY <1>6, BeginKeepsHandover
<1>7. CASE ReplayIntoShadow
  BY <1>7, ReplayKeepsHandover
<1>8. CASE UpdateConsumerRebuildCursor
  BY <1>8, UpdateKeepsHandover
<1>9. CASE SwapAndCommit
  BY <1>9, SwapKeepsHandover
<1>10. CASE FailRebuild
  BY <1>10, FailKeepsHandover
<1>11. CASE MarkConsumerRebuildFailed
  BY <1>11, MarkKeepsHandover
<1>12. CASE UNCHANGED handoverVars
  <2>1. UNCHANGED <<vars, peerVars>> /\ rebuild' = rebuild /\ rebuilds' = rebuilds
    BY <1>12 DEF handoverVars
  <2>2. UNCHANGED <<logVars, turn, resolved>> /\ IInv' /\ PeerInv' /\ Unpruned'
    BY <2>1, InsideTransaction
  <2>3. OwnedInv'
    BY <2>1, <2>2 DEF HandoverInv, OwnedInv, RowLocked
  <2>4. SeedInv'
    BY <2>1, <2>2, SameLog DEF HandoverInv, SeedInv, ReadyRow, WellFormed
  <2>5. ReplayInv'
    BY <2>1, <2>2, SameLog
       DEF HandoverInv, ReplayInv, ReadyRow, WellFormed, SettledIn, Foreign
  <2> QED
    BY <2>1, <2>2, <2>3, <2>4, <2>5 DEF HandoverInv
<1> QED
  BY <1>1, <1>2, <1>3, <1>4, <1>5, <1>6, <1>7, <1>8, <1>9, <1>10, <1>11, <1>12
     DEF HandoverNext

(* While consumers are registered in the middle of the log                 *)
(* (insertConsumerIfAbsent with startFrom "now") and multi-stream          *)
(* projections are rebuilt beside running writers and turns                *)
(* (msp-rebuild.ts), the invariant of the consumer, that of the peer the   *)
(* gaps come from, and the promises of the rebuild in progress all hold.   *)
THEOREM HandoverInvariant == HandoverSpec => []HandoverInv
  BY InitHandover, NextHandover, PTL DEF HandoverSpec

(* Type correctness, of the consumer, the peer and the rebuild.            *)
THEOREM HandoverTypeCorrect == HandoverSpec => []HandoverTypeOK
<1>1. HandoverInv => HandoverTypeOK
  <2> SUFFICES ASSUME HandoverInv PROVE HandoverTypeOK
    OBVIOUS
  <2>1. Peer!TypeOK
    BY PeerFacts DEF HandoverInv
  <2> QED
    BY <2>1 DEF HandoverInv, HandoverTypeOK, IInv
<1> QED
  BY <1>1, HandoverInvariant, PTL

(* No committed event is lost to a handover unless it was overtaken: what  *)
(* was in flight when selectEventIdHorizonWithMissingRanges read horizon   *)
(* and gaps is replayed, or lies in a gap of the row that                  *)
(* updateConsumerRebuildCursor or insertConsumerIfAbsent writes.           *)
THEOREM NoSilentLossAtHandover == HandoverSpec => []LostOnlyIfOvertaken
<1>1. HandoverInv => LostOnlyIfOvertaken
  BY InvImpliesNoLoss DEF HandoverInv
<1> QED
  BY <1>1, HandoverInvariant, PTL

(* No event that a replay has applied, or that a turn has settled, will be *)
(* delivered again: the row a rebuild writes has its cursor at the last    *)
(* replayed id and no replayed id in its gaps.                             *)
THEOREM SettledOnceAtHandover == HandoverSpec => []NoRedeliveryAfterCommit
<1>1. HandoverInv => NoRedeliveryAfterCommit
  BY DEF HandoverInv, IInv, SettledInv, SettledIn, NoRedeliveryAfterCommit
<1> QED
  BY <1>1, HandoverInvariant, PTL

(* The ranges of the row stay disjoint, apart and at or below the cursor,  *)
(* also when they are the peer's, cut at another cursor and merged anew    *)
(* (capPendingGapsBelowCursor, mergeContiguousGapRanges).                  *)
THEOREM RangesWellFormedAtHandover == HandoverSpec => []GapsWellFormed
<1>1. HandoverInv => GapsWellFormed
  BY DEF HandoverInv, IInv, RowInv, WellFormed, GapsWellFormed
<1> QED
  BY <1>1, HandoverInvariant, PTL
=============================================================================
