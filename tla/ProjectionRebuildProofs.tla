----------------------- MODULE ProjectionRebuildProofs -----------------------
(***************************************************************************)
(* Proofs about ProjectionRebuild, for any number of writers, streams,     *)
(* events, rebuilds and batches, with and without quarantine:              *)
(*                                                                         *)
(*    RebuildTypeCorrect     Spec => []TypeOK                              *)
(*    TableShowsEventsOnce   Spec => []HandlerEventsShownOnce              *)
(*    QuarantineStaysOut     Spec => DeadLettersAreNotApplied              *)
(*                                                                         *)
(* The argument: what was replayed is subscribed, and counted once, so     *)
(* equal counts mean equal sets; and under the fence no event of a handler *)
(* becomes visible, so what was complete at the count is complete at the   *)
(* swap.                                                                   *)
(***************************************************************************)
EXTENDS ProjectionRebuild, WellFoundedInduction, FiniteSetTheorems, TLAPS

-----------------------------------------------------------------------------
(* Smallest and largest elements.                                          *)

(* A nonempty set of natural numbers has a smallest element.               *)
LEMMA NatMin ==
    ASSUME NEW T, T \subseteq Nat, T # {}
    PROVE  \E m \in T : \A x \in T : m <= x
<1> DEFINE R == OpToRel(<, Nat)
<1>1. PICK m \in T : \A y \in T : ~ (<<y, m>> \in R)
  <2> HIDE DEF R
  <2>1. IsWellFoundedOn(R, Nat)
    BY NatLessThanWellFounded DEF R
  <2> QED
    BY <2>1, WFMin, Zenon
<1>2. \A y \in T : ~ (y < m)
  BY <1>1 DEF OpToRel
<1> QED
  BY <1>2

(* A nonempty set of numbers up to N has a largest element: the mirror     *)
(* image of the set has a smallest one.                                    *)
LEMMA BoundedMax ==
    ASSUME NEW N \in Nat, NEW T, T \subseteq 0 .. N, T # {}
    PROVE  \E m \in T : \A x \in T : x <= m
<1> DEFINE U == {u \in 0 .. N : N - u \in T}
<1>1. PICK k \in U : \A u \in U : k <= u
  <2>1. U \subseteq Nat
    OBVIOUS
  <2>2. \A x \in T : x \in 0 .. N /\ N - x \in 0 .. N /\ N - (N - x) = x
    OBVIOUS
  <2>3. U # {}
    BY <2>2
  <2> HIDE DEF U
  <2> QED
    BY <2>1, <2>3, NatMin
<1>2. \A x \in T : x \in 0 .. N /\ N - x \in U
  OBVIOUS
<1> QED
  BY <1>1, <1>2

-----------------------------------------------------------------------------
(* The inductive invariant.                                                *)

(* Ids are handed out in order, and no two open transactions share one.    *)
IdInv ==
    /\ \A w \in Writers : openXid[w] < nextXid
    /\ \A v, w \in Writers : openXid[v] = openXid[w] => v = w \/ openXid[v] = 0
    /\ \A i \in EventIds : xidOf[i] < nextXid
    /\ \A i \in EventIds : rowState[i] # "unassigned" => i < nextId

(* The rows of w's open transaction.                                       *)
Own(w) == {i \in InFlight : openXid[w] # 0 /\ xidOf[i] = openXid[w]}

(* A handler has applied what it inserted, except for its latest event; a  *)
(* saga applies nothing before it has committed.                           *)
WriterInv ==
    \A w \in Writers :
       /\ w \notin SagaWriters =>
             \A i \in EventIds : i \in Own(w) <=> i \in applied[w] \/ i = unapplied[w]
       /\ w \in SagaWriters =>
             applied[w] = {} /\ Own(w) \subseteq bySaga /\ unapplied[w] \in bySaga \cup {0}

(* What the replay has been through: applied to the shadow, or quarantined. *)
Replayed(r) == {i \in EventIds : r.shadow[i] # 0} \cup r.skipped

(* Every event was replayed once, below the cursor, and counted.           *)
ShadowInv(r) ==
    /\ Replayed(r) \subseteq Visible
    /\ \A i \in Replayed(r) : i <= r.cursor
    /\ \A i \in EventIds : r.shadow[i] < 2
    /\ \A i \in r.skipped : r.shadow[i] = 0
    /\ r.count = Cardinality(Replayed(r))

(* The lock-free phase is within its cap.                                  *)
BatchInv == rebuild.pc = "catchup" => rebuild.batches < MaxUnlockedBatches

(* Under the fence nobody has written the live table and not committed.    *)
FenceInv == LiveTableFenced => \A w \in Writers : applied[w] = {}

(* The events of handlers that the swapped-in table has to show.           *)
Due == Expected \ bySaga

(* Unless a stream was archived meanwhile, what was replayed is still      *)
(* subscribed; the second replay, and what is about to be swapped in,      *)
(* leave out nothing that is due.                                          *)
CompleteInv(r) ==
    /\ r.pc # "none" /\ overlapped = "no" => \A i \in Replayed(r) : tenantOf[i] \notin archived
    /\ r.pc = "rereplay" => \A i \in Due : i <= r.cursor => i \in Replayed(r)
    /\ r.pc = "swap" /\ overlapped = "no" => Due \subseteq Replayed(r)

IInv ==
    /\ TypeOK
    /\ IdInv
    /\ WriterInv
    /\ archived \subseteq everArchived
    /\ ShadowInv(rebuild)
    /\ BatchInv
    /\ FenceInv
    /\ CompleteInv(rebuild)
    /\ HandlerEventsShownOnce
-----------------------------------------------------------------------------
(* The replay.                                                             *)

(* The largest id of a batch.                                              *)
LEMMA MaxOfIds ==
    ASSUME NEW T, T \subseteq EventIds, T # {}
    PROVE  Max(T) \in T /\ Max(T) \in EventIds /\ \A i \in T : i <= Max(T)
<1>1. MaxEventId \in Nat /\ T \subseteq 0 .. MaxEventId
  BY EventLogAssumption DEF EventIds
<1>2. \E m \in T : \A x \in T : x <= m
  BY <1>1, BoundedMax
<1>3. \E m \in T : \A x \in T : m >= x
  BY <1>1, <1>2
<1>4. Max(T) \in T /\ \A x \in T : Max(T) >= x
  BY <1>3 DEF Max
<1> QED
  BY <1>1, <1>4

(* Sets of ids are finite.                                                 *)
LEMMA IdsFinite ==
    ASSUME NEW S, S \subseteq EventIds
    PROVE  IsFiniteSet(S) /\ Cardinality(S) \in 0 .. MaxEventId
<1>1. MaxEventId \in Nat /\ MaxEventId >= 1
  BY EventLogAssumption
<1>2. IsFiniteSet(EventIds) /\ Cardinality(EventIds) = MaxEventId
  BY <1>1, FS_Interval DEF EventIds
<1>3. IsFiniteSet(S) /\ Cardinality(S) <= Cardinality(EventIds)
  BY <1>2, FS_Subset
<1>4. Cardinality(S) \in Nat
  BY <1>3, FS_CardinalityType
<1> QED
  BY <1>1, <1>2, <1>3, <1>4

(* Disjoint sets of ids add up.                                            *)
LEMMA CountBoth ==
    ASSUME NEW S, NEW T, S \subseteq EventIds, T \subseteq EventIds, S \cap T = {}
    PROVE  Cardinality(S \cup T) = Cardinality(S) + Cardinality(T)
<1>1. IsFiniteSet(S) /\ IsFiniteSet(T) /\ Cardinality(S) \in Int /\ Cardinality(T) \in Int
  BY IdsFinite
<1>2. Cardinality(S \cup T) = Cardinality(S) + Cardinality(T) - Cardinality(S \cap T)
  BY <1>1, FS_Union
<1>3. Cardinality(S \cap T) = 0
  BY FS_EmptySet
<1> QED
  BY <1>1, <1>2, <1>3

LEMMA OnceType ==
    ASSUME NEW f \in Times, NEW S
    PROVE  /\ Once(f, S) \in Times
           /\ \A i \in EventIds : i \notin S => Once(f, S)[i] = f[i]
           /\ \A i \in EventIds : i \in S /\ f[i] = 0 => Once(f, S)[i] = 1
  BY DEF Once, Times

LEMMA NoRebuildType ==
    /\ NoRebuild \in Rebuild /\ Never \in Times
    /\ ShadowInv(NoRebuild) /\ Replayed(NoRebuild) = {}
<1>1. Never \in Times
  BY DEF Never, Times
<1>2. 0 \in 0 .. MaxEventId /\ 0 \in 0 .. MaxUnlockedBatches
  BY EventLogAssumption, ProjectionRebuildAssumption
<1>3. NoRebuild \in Rebuild
  BY <1>1, <1>2 DEF NoRebuild, Rebuild
<1>4. Replayed(NoRebuild) = {}
  BY DEF Replayed, NoRebuild, Never
<1>5. \A i \in EventIds : NoRebuild.shadow[i] < 2
  BY DEF NoRebuild, Never
<1>6. NoRebuild.count = 0 /\ NoRebuild.skipped = {}
  BY DEF NoRebuild
<1> QED
  BY <1>1, <1>3, <1>4, <1>5, <1>6, FS_EmptySet DEF ShadowInv

(* What a record of a rebuild has replayed does not depend on its pc.      *)
SameReplay(r, s) ==
    s.cursor = r.cursor /\ s.shadow = r.shadow /\ s.count = r.count /\ s.skipped = r.skipped

LEMMA Relabelled ==
    ASSUME NEW r, NEW s, SameReplay(r, s)
    PROVE  Replayed(s) = Replayed(r) /\ (ShadowInv(r) => ShadowInv(s))
  BY DEF SameReplay, Replayed, ShadowInv

(* One batch: the events of T are new, and up to the new cursor nothing    *)
(* that is subscribed is left out; a short batch leaves out nothing.       *)
LEMMA DrainBatch ==
    ASSUME IInv, NEW T, T \subseteq SubscribedEvents, NEW Q \in Quarantine(T),
           IsNextBatch(T), NEW r, r = Drained(T, Q)
    PROVE  /\ r \in Rebuild
           /\ r.pc = rebuild.pc /\ r.batches = rebuild.batches /\ r.expected = rebuild.expected
           /\ ShadowInv(r) /\ Replayed(r) = Replayed(rebuild) \cup T
           /\ \A i \in SubscribedEvents : i <= r.cursor => i <= rebuild.cursor \/ i \in T
           /\ Cardinality(T) < RebuildBatchSize =>
                 \A i \in SubscribedEvents : i <= rebuild.cursor \/ i \in T
<1> USE DEF IInv, TypeOK
<1>1. T \subseteq Visible /\ T \subseteq EventIds /\ Q \subseteq T
  BY DEF SubscribedEvents, Visible, Quarantine
<1>2. rebuild.cursor \in 0 .. MaxEventId /\ rebuild.shadow \in Times /\ rebuild.count \in 0 .. MaxEventId
      /\ rebuild.skipped \subseteq EventIds
  BY DEF Rebuild
<1>3. MaxEventId \in Nat
  BY EventLogAssumption
<1>4. \A i \in T : i > rebuild.cursor
  BY DEF IsNextBatch
<1> DEFINE c == IF T = {} THEN rebuild.cursor ELSE Max(T)
           f == Once(rebuild.shadow, T \ Q)
           n == rebuild.count + Cardinality(T)
           q == rebuild.skipped \cup Q
<1>5. c \in 0 .. MaxEventId /\ c >= rebuild.cursor /\ \A i \in T : i <= c
  <2>1. CASE T = {}
    BY <2>1, <1>2, <1>3
  <2>2. CASE T # {}
    <3>1. c = Max(T)
      BY <2>2
    <3>2. Max(T) \in T /\ Max(T) \in EventIds /\ \A i \in T : i <= Max(T)
      BY <1>1, <2>2, MaxOfIds
    <3> HIDE DEF c
    <3> QED
      BY <1>2, <1>3, <1>4, <3>1, <3>2 DEF EventIds
  <2> QED
    BY <2>1, <2>2
<1>6. Replayed(rebuild) \subseteq EventIds /\ Replayed(rebuild) \cap T = {}
  <2>1. Replayed(rebuild) \subseteq EventIds
    BY <1>2 DEF Replayed
  <2>2. \A i \in Replayed(rebuild) : i <= rebuild.cursor
    BY DEF ShadowInv
  <2> QED
    BY <2>1, <2>2, <1>2, <1>4 DEF EventIds
<1>7. /\ f \in Times
      /\ \A i \in EventIds : i \notin T \ Q => f[i] = rebuild.shadow[i]
      /\ \A i \in T \ Q : f[i] = 1
  <2>1. \A i \in T : rebuild.shadow[i] = 0
    BY <1>1, <1>6 DEF Replayed
  <2> QED
    BY <2>1, <1>1, <1>2, OnceType
<1>8. r = [rebuild EXCEPT !.cursor = c, !.shadow = f, !.count = n, !.skipped = q]
  BY DEF Drained
<1>9. {i \in EventIds : f[i] # 0} \cup q = Replayed(rebuild) \cup T
  <2>1. \A i \in EventIds : f[i] # 0 <=> i \in T \ Q \/ rebuild.shadow[i] # 0
    <3> HIDE DEF f
    <3> SUFFICES ASSUME NEW i \in EventIds
                 PROVE  f[i] # 0 <=> i \in T \ Q \/ rebuild.shadow[i] # 0
      OBVIOUS
    <3>1. CASE i \in T \ Q
      BY <3>1, <1>7
    <3>2. CASE i \notin T \ Q
      BY <3>2, <1>7
    <3> QED
      BY <3>1, <3>2
  <2> QED
    BY <2>1, <1>1, <1>2 DEF Replayed
<1>10. n = Cardinality(Replayed(rebuild) \cup T) /\ n \in 0 .. MaxEventId
  <2>1. rebuild.count = Cardinality(Replayed(rebuild))
    BY DEF ShadowInv
  <2>2. n = Cardinality(Replayed(rebuild) \cup T)
    BY <2>1, <1>1, <1>6, CountBoth
  <2>3. Replayed(rebuild) \cup T \subseteq EventIds
    BY <1>1, <1>6
  <2> QED
    BY <2>2, <2>3, IdsFinite
<1>11. q \subseteq EventIds
  BY <1>1, <1>2
<1>12. \A i \in EventIds : f[i] < 2
  <2> HIDE DEF f
  <2>1. \A i \in EventIds : rebuild.shadow[i] < 2
    BY DEF ShadowInv
  <2>2. \A i \in EventIds : f[i] = 1 \/ f[i] = rebuild.shadow[i]
    BY <1>7
  <2> QED
    BY <2>1, <2>2
<1>13. \A i \in q : f[i] = 0
  <2>1. ASSUME NEW i \in Q PROVE f[i] = 0
    <3>1. i \in EventIds /\ i \notin T \ Q /\ i \in T
      BY <1>1, <2>1
    <3>2. rebuild.shadow[i] = 0
      BY <3>1, <1>6 DEF Replayed
    <3> QED
      BY <3>1, <3>2, <1>7
  <2>2. ASSUME NEW i \in rebuild.skipped PROVE f[i] = 0
    <3>1. i \in EventIds /\ i \notin T
      BY <1>2, <1>6 DEF Replayed
    <3>2. rebuild.shadow[i] = 0
      BY DEF ShadowInv
    <3> QED
      BY <3>1, <3>2, <1>7
  <2> QED
    BY <2>1, <2>2
<1>14. \A i \in SubscribedEvents : i <= c => i <= rebuild.cursor \/ i \in T
  <2> SUFFICES ASSUME NEW i \in SubscribedEvents, i <= c, ~(i <= rebuild.cursor)
               PROVE  i \in T
    OBVIOUS
  <2>1. i \in EventIds
    BY DEF SubscribedEvents, Visible
  <2>2. T # {}
    BY <1>2, <2>1 DEF EventIds
  <2>3. c = Max(T) /\ Max(T) \in T /\ Max(T) \in EventIds
    BY <2>2, <1>1, MaxOfIds
  <2>4. i > rebuild.cursor /\ (i < Max(T) \/ i = Max(T))
    BY <2>1, <2>3, <1>2 DEF EventIds
  <2> HIDE DEF c
  <2> QED
    BY <2>3, <2>4 DEF IsNextBatch
<1>15. Cardinality(T) < RebuildBatchSize => \A i \in SubscribedEvents : i <= rebuild.cursor \/ i \in T
  <2>1. \A i \in SubscribedEvents : i \in EventIds
    BY DEF SubscribedEvents, Visible
  <2>2. ASSUME Cardinality(T) < RebuildBatchSize
        PROVE  T = {i \in SubscribedEvents : i > rebuild.cursor}
    <3>1. Cardinality(T) # RebuildBatchSize
      BY <2>2, ProjectionRebuildAssumption, <1>1, IdsFinite
    <3> QED
      BY <3>1 DEF IsNextBatch
  <2> QED
    BY <2>1, <2>2, <1>2 DEF EventIds
<1>16. \A i \in Replayed(rebuild) \cup T : i \in Visible /\ i <= c
  <2>1. \A i \in Replayed(rebuild) : i \in Visible /\ i <= rebuild.cursor
    BY DEF ShadowInv
  <2> HIDE DEF c
  <2> QED
    BY <2>1, <1>1, <1>2, <1>5, <1>6 DEF EventIds
<1> HIDE DEF c, f, n, q
<1>17. /\ r \in Rebuild
       /\ r.pc = rebuild.pc /\ r.batches = rebuild.batches /\ r.expected = rebuild.expected
       /\ r.cursor = c /\ r.shadow = f /\ r.count = n /\ r.skipped = q
  BY <1>5, <1>7, <1>8, <1>10, <1>11 DEF Rebuild
<1>18. Replayed(r) = Replayed(rebuild) \cup T
  BY <1>9, <1>17 DEF Replayed
<1>19. ShadowInv(r)
  BY <1>10, <1>12, <1>13, <1>16, <1>17, <1>18 DEF ShadowInv
<1> QED
  BY <1>14, <1>15, <1>17, <1>18, <1>19

-----------------------------------------------------------------------------
(* The steps of a rebuild.                                                 *)

(* What a step of the rebuild that leaves the table alone has to keep.     *)
LEMMA RebuildStep ==
    ASSUME IInv, UNCHANGED <<writerVars, live, deadLetters>>,
           rebuilds' \in 0 .. MaxRebuilds, overlapped' \in {"no", "now", "yes"},
           overlapped # "yes" \/ overlapped' = "yes",
           rebuild' \in Rebuild, ShadowInv(rebuild'),
           rebuild'.pc = "catchup" => rebuild'.batches < MaxUnlockedBatches,
           FenceInv',
           overlapped' = "no" => \A i \in Replayed(rebuild') : tenantOf[i] \notin archived,
           rebuild'.pc = "rereplay" => \A i \in Due : i <= rebuild'.cursor => i \in Replayed(rebuild'),
           rebuild'.pc = "swap" /\ overlapped' = "no" => Due \subseteq Replayed(rebuild')
    PROVE  IInv'
<1> USE DEF IInv
<1>1. /\ UNCHANGED <<logVars, unapplied, applied, archived, bySaga, everArchived>>
      /\ UNCHANGED <<live, deadLetters>>
      /\ UNCHANGED <<nextXid, doneXid, openXid, nextId, rowState, xidOf, tenantOf>>
  BY DEF writerVars, logVars
<1>2. TypeOK'
  BY <1>1 DEF TypeOK, LogTypeOK
<1>3. Visible' = Visible /\ InFlight' = InFlight
  BY <1>1 DEF Visible, InFlight
<1>4. IdInv' /\ WriterInv' /\ archived' \subseteq everArchived'
  BY <1>1, <1>3 DEF IdInv, WriterInv, Own
<1>5. Expected' = Expected /\ Due' = Due
  BY <1>1, <1>3 DEF Expected, Due
<1>6. ShadowInv(rebuild)' /\ BatchInv'
  BY <1>3 DEF ShadowInv, Replayed, BatchInv
<1>7. CompleteInv(rebuild)'
  BY <1>1, <1>5 DEF CompleteInv, Replayed
<1>8. HandlerEventsShownOnce'
  BY <1>1, <1>3, <1>5 DEF HandlerEventsShownOnce
<1> QED
  BY <1>2, <1>4, <1>6, <1>7, <1>8

(* What is due is subscribed.                                              *)
LEMMA DueSubscribed ==
    ASSUME IInv
    PROVE  Due \subseteq SubscribedEvents
  BY DEF IInv, Due, Expected, SubscribedEvents

(* The steps that set the replay back to nothing.                          *)
FreshAt(p, n) ==
    [pc |-> p, cursor |-> 0, shadow |-> Never, count |-> 0, expected |-> n,
     batches |-> 0, skipped |-> {}]

LEMMA FreshRebuild ==
    ASSUME NEW p \in {"none", "catchup", "rereplay", "failed"}, NEW n \in 0 .. MaxEventId
    PROVE  LET r == FreshAt(p, n)
           IN  /\ r \in Rebuild /\ ShadowInv(r) /\ Replayed(r) = {}
               /\ r.pc = p /\ r.batches = 0 /\ r.cursor = 0
<1> DEFINE r == FreshAt(p, n)
<1>1. NoRebuild \in Rebuild /\ ShadowInv(NoRebuild) /\ Replayed(NoRebuild) = {} /\ Never \in Times
  BY NoRebuildType
<1>2. 0 \in 0 .. MaxEventId /\ 0 \in 0 .. MaxUnlockedBatches
  BY EventLogAssumption, ProjectionRebuildAssumption
<1>3. r \in Rebuild
  BY <1>1, <1>2 DEF FreshAt, Rebuild
<1>4. SameReplay(NoRebuild, r) /\ r.pc = p /\ r.batches = 0 /\ r.cursor = 0
  BY DEF FreshAt, NoRebuild, SameReplay
<1>5. ShadowInv(r) /\ Replayed(r) = {}
  BY <1>1, <1>4, Relabelled
<1> QED
  BY <1>3, <1>4, <1>5

LEMMA Resets ==
    /\ NoRebuild = FreshAt("none", 0)
    /\ [NoRebuild EXCEPT !.pc = "catchup"] = FreshAt("catchup", 0)
    /\ [NoRebuild EXCEPT !.pc = "failed"] = FreshAt("failed", 0)
    /\ \A n : [NoRebuild EXCEPT !.pc = "rereplay", !.expected = n] = FreshAt("rereplay", n)
<1>1. NoRebuild = FreshAt("none", 0)
  BY DEF NoRebuild, FreshAt
<1>2. [NoRebuild EXCEPT !.pc = "catchup"] = FreshAt("catchup", 0)
  BY DEF NoRebuild, FreshAt
<1>3. [NoRebuild EXCEPT !.pc = "failed"] = FreshAt("failed", 0)
  BY DEF NoRebuild, FreshAt
<1>4. ASSUME NEW n PROVE [NoRebuild EXCEPT !.pc = "rereplay", !.expected = n] = FreshAt("rereplay", n)
  <2> DEFINE e == [NoRebuild EXCEPT !.pc = "rereplay"]
  <2>1. e = FreshAt("rereplay", 0)
    BY DEF NoRebuild, FreshAt
  <2>2. [NoRebuild EXCEPT !.pc = "rereplay", !.expected = n] = [e EXCEPT !.expected = n]
    OBVIOUS
  <2> HIDE DEF e
  <2> QED
    BY <2>1, <2>2 DEF FreshAt
<1> QED
  BY <1>1, <1>2, <1>3, <1>4

LEMMA BeginRebuildIInv ==
    ASSUME IInv, BeginRebuild
    PROVE  IInv'
<1>1. 0 \in 0 .. MaxEventId /\ MaxRebuilds \in Nat /\ 0 < MaxUnlockedBatches
  BY EventLogAssumption, ProjectionRebuildAssumption
<1>2. rebuild' = FreshAt("catchup", 0)
  BY Resets DEF BeginRebuild
<1>3. /\ rebuild' \in Rebuild /\ ShadowInv(rebuild') /\ Replayed(rebuild') = {}
      /\ rebuild'.pc = "catchup" /\ rebuild'.batches = 0 /\ rebuild'.cursor = 0
  BY <1>1, <1>2, FreshRebuild
<1>4. rebuilds' \in 0 .. MaxRebuilds /\ overlapped' \in {"no", "now", "yes"}
  BY <1>1 DEF IInv, TypeOK, BeginRebuild
<1>5. FenceInv'
  BY <1>3 DEF FenceInv, LiveTableFenced
<1> QED
  BY <1>1, <1>3, <1>4, <1>5, RebuildStep DEF BeginRebuild

LEMMA FailRebuildIInv ==
    ASSUME IInv, FailRebuild \/ MarkProjectionRebuildFailed
    PROVE  IInv'
<1>1. 0 \in 0 .. MaxEventId
  BY EventLogAssumption
<1>2. \E p \in {"none", "failed"} : rebuild' = FreshAt(p, 0)
  BY Resets DEF FailRebuild, MarkProjectionRebuildFailed
<1>3. /\ rebuild' \in Rebuild /\ ShadowInv(rebuild') /\ Replayed(rebuild') = {}
      /\ rebuild'.pc \in {"none", "failed"}
  BY <1>1, <1>2, FreshRebuild
<1>4. /\ rebuilds' \in 0 .. MaxRebuilds /\ overlapped' \in {"no", "now", "yes"}
      /\ overlapped # "yes" \/ overlapped' = "yes"
  BY DEF IInv, TypeOK, FailRebuild, MarkProjectionRebuildFailed
<1>5. FenceInv'
  BY <1>3 DEF FenceInv, LiveTableFenced
<1>6. UNCHANGED <<writerVars, live, deadLetters>>
  BY DEF FailRebuild, MarkProjectionRebuildFailed
<1> QED
  BY <1>3, <1>4, <1>5, <1>6, RebuildStep

(* A batch keeps the replay among the subscribed events.                   *)
LEMMA DrainedSubscribed ==
    ASSUME IInv, rebuild.pc # "none",
           NEW T, T \subseteq SubscribedEvents, NEW r, Replayed(r) = Replayed(rebuild) \cup T
    PROVE  overlapped = "no" => \A i \in Replayed(r) : tenantOf[i] \notin archived
  BY DEF IInv, CompleteInv, SubscribedEvents

LEMMA DrainUnlockedIInv ==
    ASSUME IInv, DrainUnlocked
    PROVE  IInv'
<1> USE DEF IInv, TypeOK
<1>1. PICK T \in SUBSET SubscribedEvents : \E Q \in Quarantine(T) :
          /\ IsNextBatch(T)
          /\ rebuild' = [Drained(T, Q) EXCEPT
                            !.batches = @ + 1,
                            !.pc = IF \/ Cardinality(T) < RebuildBatchSize
                                      \/ rebuild.batches + 1 = MaxUnlockedBatches
                                   THEN "fence" ELSE "catchup"]
  BY DEF DrainUnlocked
<1>2. PICK Q \in Quarantine(T) :
          /\ IsNextBatch(T)
          /\ rebuild' = [Drained(T, Q) EXCEPT
                            !.batches = @ + 1,
                            !.pc = IF \/ Cardinality(T) < RebuildBatchSize
                                      \/ rebuild.batches + 1 = MaxUnlockedBatches
                                   THEN "fence" ELSE "catchup"]
  BY <1>1
<1> DEFINE r == Drained(T, Q)
           p == IF \/ Cardinality(T) < RebuildBatchSize
                   \/ rebuild.batches + 1 = MaxUnlockedBatches
                THEN "fence" ELSE "catchup"
           b == r.batches + 1
<1>3. /\ r \in Rebuild /\ r.batches = rebuild.batches
      /\ ShadowInv(r) /\ Replayed(r) = Replayed(rebuild) \cup T
  BY <1>2, DrainBatch
<1>4. rebuild' = [r EXCEPT !.batches = b, !.pc = p]
  BY <1>2
<1>5. /\ rebuild.batches \in Nat /\ rebuild.batches < MaxUnlockedBatches /\ MaxUnlockedBatches \in Nat
  BY ProjectionRebuildAssumption DEF DrainUnlocked, BatchInv, Rebuild
<1>6. p \in {"fence", "catchup"} /\ (p = "catchup" => rebuild.batches + 1 # MaxUnlockedBatches)
  OBVIOUS
<1> HIDE DEF r, p
<1>7. b \in 0 .. MaxUnlockedBatches /\ (p = "catchup" => b < MaxUnlockedBatches)
  BY <1>3, <1>5, <1>6
<1> HIDE DEF b
<1>8. rebuild' \in Rebuild /\ SameReplay(r, rebuild') /\ rebuild'.pc = p /\ rebuild'.batches = b
  BY <1>3, <1>4, <1>6, <1>7 DEF Rebuild, SameReplay
<1>9. ShadowInv(rebuild') /\ Replayed(rebuild') = Replayed(rebuild) \cup T
  BY <1>3, <1>8, Relabelled
<1>10. overlapped = "no" => \A i \in Replayed(rebuild') : tenantOf[i] \notin archived
  BY <1>9, DrainedSubscribed DEF DrainUnlocked
<1>11. FenceInv'
  BY <1>6, <1>8 DEF FenceInv, LiveTableFenced
<1>12. /\ UNCHANGED <<writerVars, live, deadLetters, rebuilds, overlapped>>
       /\ rebuilds' \in 0 .. MaxRebuilds /\ overlapped' \in {"no", "now", "yes"}
  BY DEF DrainUnlocked
<1>13. rebuild'.pc # "rereplay" /\ rebuild'.pc # "swap"
  BY <1>6, <1>8
<1>14. rebuild'.pc = "catchup" => rebuild'.batches < MaxUnlockedBatches
  BY <1>7, <1>8
<1> HIDE DEF IInv, TypeOK
<1> QED
  BY <1>8, <1>9, <1>10, <1>11, <1>12, <1>13, <1>14, RebuildStep

LEMMA FenceLiveTableIInv ==
    ASSUME IInv, FenceLiveTable
    PROVE  IInv'
<1> USE DEF IInv, TypeOK
<1>1. rebuild' \in Rebuild /\ SameReplay(rebuild, rebuild') /\ rebuild'.pc = "fenced"
  BY DEF FenceLiveTable, Rebuild, SameReplay
<1>2. ShadowInv(rebuild') /\ Replayed(rebuild') = Replayed(rebuild)
  BY <1>1, Relabelled
<1>3. /\ UNCHANGED <<writerVars, live, deadLetters, rebuilds, overlapped>>
      /\ rebuilds' \in 0 .. MaxRebuilds /\ overlapped' \in {"no", "now", "yes"}
  BY DEF FenceLiveTable
<1>4. FenceInv'
  BY DEF FenceLiveTable, FenceInv, writerVars
<1>5. overlapped = "no" => \A i \in Replayed(rebuild') : tenantOf[i] \notin archived
  BY <1>2 DEF CompleteInv, FenceLiveTable
<1> HIDE DEF IInv, TypeOK
<1> QED
  BY <1>1, <1>2, <1>3, <1>4, <1>5, RebuildStep

LEMMA DrainFencedIInv ==
    ASSUME IInv, DrainFenced
    PROVE  IInv'
<1> USE DEF IInv, TypeOK
<1>1. PICK T \in SUBSET SubscribedEvents : \E Q \in Quarantine(T) :
          /\ IsNextBatch(T)
          /\ rebuild' = [Drained(T, Q) EXCEPT
                            !.pc = IF Cardinality(T) < RebuildBatchSize THEN "drained" ELSE "fenced"]
  BY DEF DrainFenced
<1>2. PICK Q \in Quarantine(T) :
          /\ IsNextBatch(T)
          /\ rebuild' = [Drained(T, Q) EXCEPT
                            !.pc = IF Cardinality(T) < RebuildBatchSize THEN "drained" ELSE "fenced"]
  BY <1>1
<1> DEFINE r == Drained(T, Q)
           p == IF Cardinality(T) < RebuildBatchSize THEN "drained" ELSE "fenced"
<1>3. /\ r \in Rebuild
      /\ ShadowInv(r) /\ Replayed(r) = Replayed(rebuild) \cup T
  BY <1>2, DrainBatch
<1>4. rebuild' = [r EXCEPT !.pc = p]
  BY <1>2
<1>5. p \in {"drained", "fenced"}
  OBVIOUS
<1> HIDE DEF r, p
<1>6. rebuild' \in Rebuild /\ SameReplay(r, rebuild') /\ rebuild'.pc = p
  BY <1>3, <1>4, <1>5 DEF Rebuild, SameReplay
<1>7. ShadowInv(rebuild') /\ Replayed(rebuild') = Replayed(rebuild) \cup T
  BY <1>3, <1>6, Relabelled
<1>8. overlapped = "no" => \A i \in Replayed(rebuild') : tenantOf[i] \notin archived
  BY <1>7, DrainedSubscribed DEF DrainFenced
<1>9. FenceInv'
  BY DEF DrainFenced, FenceInv, LiveTableFenced, writerVars
<1>10. /\ UNCHANGED <<writerVars, live, deadLetters, rebuilds, overlapped>>
       /\ rebuilds' \in 0 .. MaxRebuilds /\ overlapped' \in {"no", "now", "yes"}
  BY DEF DrainFenced
<1>11. rebuild'.pc \notin {"catchup", "rereplay", "swap"}
  BY <1>5, <1>6
<1> HIDE DEF IInv, TypeOK
<1> QED
  BY <1>6, <1>7, <1>8, <1>9, <1>10, <1>11, RebuildStep

(* As many replayed as subscribed: since everything replayed is still      *)
(* subscribed, nothing subscribed is missing.                              *)
LEMMA CountsAgree ==
    ASSUME IInv, rebuild.pc # "none", overlapped = "no", Cardinality(SubscribedEvents) <= rebuild.count
    PROVE  SubscribedEvents = Replayed(rebuild)
<1> USE DEF IInv
<1>1. Replayed(rebuild) \subseteq SubscribedEvents
  BY DEF ShadowInv, CompleteInv, SubscribedEvents
<1>2. SubscribedEvents \subseteq EventIds
  BY DEF SubscribedEvents, Visible
<1>3. /\ IsFiniteSet(SubscribedEvents) /\ Cardinality(SubscribedEvents) \in Int
      /\ Cardinality(Replayed(rebuild)) \in Int
  BY <1>1, <1>2, IdsFinite
<1>4. Cardinality(Replayed(rebuild)) <= Cardinality(SubscribedEvents)
  BY <1>1, <1>3, FS_Subset
<1>5. rebuild.count = Cardinality(Replayed(rebuild))
  BY DEF ShadowInv
<1>6. Cardinality(SubscribedEvents) = Cardinality(Replayed(rebuild))
  BY <1>3, <1>4, <1>5
<1> QED
  BY <1>1, <1>3, <1>6, FS_Subset

LEMMA CompareCountIInv ==
    ASSUME IInv, CompareCount
    PROVE  IInv'
<1> USE DEF IInv, TypeOK
<1> DEFINE expected == Cardinality(SubscribedEvents)
<1>1. SubscribedEvents \subseteq EventIds
  BY DEF SubscribedEvents, Visible
<1>2. expected \in 0 .. MaxEventId
  BY <1>1, IdsFinite
<1>3. /\ rebuild.pc = "drained"
      /\ rebuild' = IF expected > rebuild.count THEN [NoRebuild EXCEPT !.pc = "rereplay", !.expected = expected]
                    ELSE [rebuild EXCEPT !.pc = "swap"]
  BY DEF CompareCount, RestartedReplay
<1>4. /\ UNCHANGED <<writerVars, live, deadLetters, rebuilds, overlapped>>
      /\ rebuilds' \in 0 .. MaxRebuilds /\ overlapped' \in {"no", "now", "yes"}
  BY DEF CompareCount
<1>5. FenceInv'
  BY <1>3 DEF CompareCount, FenceInv, LiveTableFenced, writerVars
<1> HIDE DEF expected
<1>6. CASE expected > rebuild.count
  <2>1. rebuild' = FreshAt("rereplay", expected)
    BY <1>3, <1>6, Resets
  <2>2. /\ rebuild' \in Rebuild /\ ShadowInv(rebuild') /\ Replayed(rebuild') = {}
        /\ rebuild'.pc = "rereplay" /\ rebuild'.cursor = 0
    BY <1>2, <2>1, FreshRebuild
  <2>3. ASSUME NEW i \in Due PROVE ~(i <= rebuild'.cursor)
    <3>1. i \in EventIds
      BY <1>1, DueSubscribed
    <3> QED
      BY <2>2, <3>1 DEF EventIds
  <2> HIDE DEF IInv, TypeOK
  <2> QED
    BY <1>4, <1>5, <2>2, <2>3, RebuildStep
<1>7. CASE ~(expected > rebuild.count)
  <2>1. rebuild' = [rebuild EXCEPT !.pc = "swap"]
    BY <1>3, <1>7
  <2>2. rebuild' \in Rebuild /\ SameReplay(rebuild, rebuild') /\ rebuild'.pc = "swap"
    BY <2>1 DEF Rebuild, SameReplay
  <2>3. ShadowInv(rebuild') /\ Replayed(rebuild') = Replayed(rebuild)
    BY <2>2, Relabelled
  <2>4. overlapped = "no" => \A i \in Replayed(rebuild') : tenantOf[i] \notin archived
    BY <1>3, <2>3 DEF CompleteInv
  <2>5. rebuild.count \in 0 .. MaxEventId
    BY DEF Rebuild
  <2>6. Cardinality(SubscribedEvents) <= rebuild.count
    BY <1>2, <1>7, <2>5 DEF expected
  <2>7. overlapped = "no" => Due \subseteq Replayed(rebuild')
    BY <1>3, <2>3, <2>6, CountsAgree, DueSubscribed
  <2> HIDE DEF IInv, TypeOK
  <2> QED
    BY <1>4, <1>5, <2>2, <2>3, <2>4, <2>7, RebuildStep
<1> QED
  BY <1>6, <1>7

LEMMA DrainAgainIInv ==
    ASSUME IInv, DrainAgain
    PROVE  IInv'
<1> USE DEF IInv, TypeOK
<1>0. 0 \in 0 .. MaxEventId
  BY EventLogAssumption
<1>1. PICK T \in SUBSET SubscribedEvents : \E Q \in Quarantine(T) :
          LET after == Drained(T, Q)
          IN  /\ IsNextBatch(T)
              /\ rebuild' =
                    IF Cardinality(T) = RebuildBatchSize THEN after
                    ELSE IF after.count < rebuild.expected THEN [NoRebuild EXCEPT !.pc = "failed"]
                    ELSE [after EXCEPT !.pc = "swap"]
  BY DEF DrainAgain
<1>2. PICK Q \in Quarantine(T) :
          LET after == Drained(T, Q)
          IN  /\ IsNextBatch(T)
              /\ rebuild' =
                    IF Cardinality(T) = RebuildBatchSize THEN after
                    ELSE IF after.count < rebuild.expected THEN [NoRebuild EXCEPT !.pc = "failed"]
                    ELSE [after EXCEPT !.pc = "swap"]
  BY <1>1
<1> DEFINE r == Drained(T, Q)
<1>3. /\ r \in Rebuild /\ r.pc = rebuild.pc
      /\ ShadowInv(r) /\ Replayed(r) = Replayed(rebuild) \cup T
      /\ \A i \in SubscribedEvents : i <= r.cursor => i <= rebuild.cursor \/ i \in T
      /\ Cardinality(T) < RebuildBatchSize =>
            \A i \in SubscribedEvents : i <= rebuild.cursor \/ i \in T
  BY <1>2, DrainBatch
<1>4. /\ IsNextBatch(T)
      /\ rebuild' =
            IF Cardinality(T) = RebuildBatchSize THEN r
            ELSE IF r.count < rebuild.expected THEN [NoRebuild EXCEPT !.pc = "failed"]
            ELSE [r EXCEPT !.pc = "swap"]
  BY <1>2
<1> HIDE DEF r
<1>5. rebuild.pc = "rereplay" /\ \A i \in Due : i <= rebuild.cursor => i \in Replayed(rebuild)
  BY DEF DrainAgain, CompleteInv
<1>6. overlapped = "no" => \A i \in Replayed(r) : tenantOf[i] \notin archived
  BY <1>3, <1>5, DrainedSubscribed
<1>7. /\ UNCHANGED <<writerVars, live, deadLetters, rebuilds, overlapped>>
      /\ rebuilds' \in 0 .. MaxRebuilds /\ overlapped' \in {"no", "now", "yes"}
  BY DEF DrainAgain
<1>8. FenceInv'
  BY <1>5, <1>7 DEF FenceInv, LiveTableFenced, writerVars
<1>9. CASE Cardinality(T) = RebuildBatchSize
  <2>1. rebuild' = r
    BY <1>4, <1>9
  <2>2. \A i \in Due : i <= r.cursor => i \in Replayed(r)
    BY <1>3, <1>5, DueSubscribed
  <2>3. r.pc = "rereplay"
    BY <1>3, <1>5
  <2> HIDE DEF IInv, TypeOK
  <2> QED
    BY <1>3, <1>6, <1>7, <1>8, <2>1, <2>2, <2>3, RebuildStep
<1>10. CASE Cardinality(T) # RebuildBatchSize /\ r.count < rebuild.expected
  <2>1. rebuild' = FreshAt("failed", 0)
    BY <1>4, <1>10, Resets
  <2>2. rebuild' \in Rebuild /\ ShadowInv(rebuild') /\ Replayed(rebuild') = {} /\ rebuild'.pc = "failed"
    BY <1>0, <2>1, FreshRebuild
  <2> HIDE DEF IInv, TypeOK
  <2> QED
    BY <1>7, <1>8, <2>2, RebuildStep
<1>11. CASE Cardinality(T) # RebuildBatchSize /\ ~(r.count < rebuild.expected)
  <2>1. rebuild' = [r EXCEPT !.pc = "swap"]
    BY <1>4, <1>11
  <2>2. rebuild' \in Rebuild /\ SameReplay(r, rebuild') /\ rebuild'.pc = "swap"
    BY <1>3, <2>1 DEF Rebuild, SameReplay
  <2>3. ShadowInv(rebuild') /\ Replayed(rebuild') = Replayed(r)
    BY <1>3, <2>2, Relabelled
  <2>4. Cardinality(T) < RebuildBatchSize
    BY <1>4, <1>11 DEF IsNextBatch
  <2>5. Due \subseteq Replayed(r)
    BY <1>3, <1>5, <2>4, DueSubscribed
  <2> HIDE DEF IInv, TypeOK
  <2> QED
    BY <1>6, <1>7, <1>8, <2>2, <2>3, <2>5, RebuildStep
<1> QED
  BY <1>9, <1>10, <1>11

(* What is swapped in shows everything that is due, once.                  *)
LEMMA SwapIInv ==
    ASSUME IInv, SwapShadowIntoLive
    PROVE  IInv'
<1> USE DEF IInv, TypeOK
<1>1. /\ rebuild.pc = "swap" /\ live' = rebuild.shadow
      /\ deadLetters' = deadLetters \cup rebuild.skipped
      /\ overlapped' = IF overlapped = "now" THEN "yes" ELSE overlapped
      /\ rebuild' = NoRebuild /\ rebuilds' = rebuilds
      /\ UNCHANGED <<logVars, unapplied, applied, archived, bySaga, everArchived>>
      /\ UNCHANGED <<nextXid, doneXid, openXid, nextId, rowState, xidOf, tenantOf>>
  BY DEF SwapShadowIntoLive, writerVars, logVars
<1>2. rebuild.shadow \in Times /\ rebuild.skipped \subseteq EventIds
  BY DEF Rebuild
<1>3. NoRebuild \in Rebuild /\ ShadowInv(NoRebuild) /\ Replayed(NoRebuild) = {} /\ NoRebuild.pc = "none"
  BY NoRebuildType DEF NoRebuild
<1>4. TypeOK'
  BY <1>1, <1>2, <1>3 DEF LogTypeOK
<1>5. Visible' = Visible /\ InFlight' = InFlight
  BY <1>1 DEF Visible, InFlight
<1>6. IdInv' /\ WriterInv' /\ archived' \subseteq everArchived'
  BY <1>1, <1>5 DEF IdInv, WriterInv, Own
<1>7. Expected' = Expected
  BY <1>1, <1>5 DEF Expected
<1>8. ShadowInv(rebuild)' /\ BatchInv' /\ FenceInv'
  BY <1>1, <1>3, <1>5 DEF ShadowInv, Replayed, BatchInv, FenceInv, LiveTableFenced
<1>9. CompleteInv(rebuild)'
  BY <1>1, <1>3 DEF CompleteInv, Replayed
<1>10. HandlerEventsShownOnce'
  <2> SUFFICES ASSUME overlapped' # "yes", NEW i \in EventIds \ bySaga
               PROVE  /\ i \in Expected /\ i \notin deadLetters' => live'[i] = 1
                      /\ i \notin Visible => live'[i] = 0
    BY <1>1, <1>5, <1>7 DEF HandlerEventsShownOnce
  <2>1. overlapped = "no"
    BY <1>1
  <2>2. ASSUME i \in Expected, i \notin deadLetters' PROVE live'[i] = 1
    <3>1. i \in Replayed(rebuild) /\ i \notin rebuild.skipped
      BY <1>1, <2>1, <2>2 DEF CompleteInv, Due
    <3>2. rebuild.shadow[i] # 0 /\ rebuild.shadow[i] \in 0 .. 2 /\ rebuild.shadow[i] < 2
      BY <1>2, <3>1 DEF Replayed, ShadowInv, Times
    <3> QED
      BY <1>1, <3>2
  <2>3. ASSUME i \notin Visible PROVE live'[i] = 0
    <3>1. i \notin Replayed(rebuild)
      BY <2>3 DEF ShadowInv
    <3> QED
      BY <1>1, <3>1 DEF Replayed
  <2> QED
    BY <2>2, <2>3
<1> QED
  BY <1>4, <1>6, <1>8, <1>9, <1>10

-----------------------------------------------------------------------------
(* The steps of writers.                                                   *)

(* Whatever becomes visible, it is not a handler's event while the table   *)
(* is fenced: so the rebuild misses nothing that is due.                   *)
LEMMA WriterStep ==
    ASSUME IInv, UNCHANGED <<rebuildVars, tenantOf>>, Visible \subseteq Visible', bySaga \subseteq bySaga',
           LiveTableFenced => Visible' \ bySaga' \subseteq Visible,
           TypeOK', IdInv', WriterInv', FenceInv', HandlerEventsShownOnce'
    PROVE  IInv'
<1> USE DEF IInv
<1>1. UNCHANGED <<archived, rebuild, rebuilds, everArchived, overlapped, tenantOf>>
  BY DEF rebuildVars
<1>2. ShadowInv(rebuild)' /\ BatchInv'
  BY <1>1 DEF ShadowInv, Replayed, BatchInv
<1>3. LiveTableFenced => Due' \subseteq Due
  BY <1>1 DEF Due, Expected
<1>4. CompleteInv(rebuild)'
  BY <1>1, <1>3 DEF CompleteInv, Replayed, LiveTableFenced
<1> QED
  BY <1>1, <1>2, <1>4

LEMMA BeginWriteIInv ==
    ASSUME IInv, NEW w \in Writers, BeginWrite(w)
    PROVE  IInv'
<1> USE DEF IInv
<1>1. /\ openXid[w] = 0 /\ nextXid <= MaxXid
      /\ openXid' = [openXid EXCEPT ![w] = nextXid] /\ nextXid' = nextXid + 1
      /\ UNCHANGED <<doneXid, nextId, rowState, xidOf, tenantOf>>
      /\ UNCHANGED <<unapplied, applied, live, deadLetters, bySaga>>
      /\ UNCHANGED <<archived, rebuild, rebuilds, everArchived, overlapped>>
  BY DEF BeginWrite, ClaimXactId, liveVars, rebuildVars
<1>2. /\ nextXid \in 1 .. MaxXid + 1 /\ openXid \in [Writers -> 0 .. MaxXid] /\ MaxXid \in Nat
      /\ xidOf \in [EventIds -> 0 .. MaxXid] /\ nextId \in 1 .. MaxEventId + 1
  BY EventLogAssumption DEF TypeOK, LogTypeOK
<1>3. TypeOK'
  BY <1>1, <1>2 DEF TypeOK, LogTypeOK
<1>4. Visible' = Visible /\ InFlight' = InFlight
  BY <1>1 DEF Visible, InFlight
<1>5. IdInv'
  BY <1>1, <1>2 DEF IdInv
<1>6. Own(w) = {} /\ Own(w)' = {}
  <2>1. \A i \in InFlight : i \in EventIds
    BY DEF InFlight
  <2>2. \A i \in EventIds : xidOf[i] # nextXid
    BY <1>2 DEF IdInv
  <2> QED
    BY <1>1, <1>2, <1>4, <2>1, <2>2 DEF Own
<1>7. \A v \in Writers : Own(v)' = Own(v)
  <2> SUFFICES ASSUME NEW v \in Writers, v # w PROVE Own(v)' = Own(v)
    BY <1>6
  <2>1. openXid'[v] = openXid[v]
    BY <1>1, <1>2
  <2> QED
    BY <1>1, <1>4, <2>1 DEF Own
<1>8. WriterInv'
  BY <1>1, <1>7 DEF WriterInv
<1>9. FenceInv'
  BY <1>1 DEF FenceInv, LiveTableFenced
<1>10. HandlerEventsShownOnce'
  BY <1>1, <1>4 DEF HandlerEventsShownOnce, Expected
<1> HIDE DEF IInv
<1> QED
  BY <1>1, <1>3, <1>4, <1>5, <1>8, <1>9, <1>10, WriterStep DEF rebuildVars

LEMMA AppendEventIInv ==
    ASSUME IInv, NEW w \in Writers, AppendEvent(w)
    PROVE  IInv'
<1> USE DEF IInv
<1>1. /\ openXid[w] # 0 /\ nextId <= MaxEventId /\ unapplied[w] = 0
      /\ rowState' = [rowState EXCEPT ![nextId] = "inflight"]
      /\ xidOf' = [xidOf EXCEPT ![nextId] = openXid[w]]
      /\ nextId' = nextId + 1
      /\ unapplied' = [unapplied EXCEPT ![w] = nextId]
      /\ bySaga' = IF w \in SagaWriters THEN bySaga \cup {nextId} ELSE bySaga
      /\ UNCHANGED <<nextXid, doneXid, openXid, tenantOf>>
      /\ UNCHANGED <<applied, live, deadLetters>>
      /\ UNCHANGED <<archived, rebuild, rebuilds, everArchived, overlapped>>
  BY DEF AppendEvent, InsertEvent, rebuildVars
<1>2. /\ nextXid \in 1 .. MaxXid + 1 /\ openXid \in [Writers -> 0 .. MaxXid] /\ MaxXid \in Nat
      /\ xidOf \in [EventIds -> 0 .. MaxXid] /\ nextId \in EventIds /\ nextId \in Int
      /\ rowState \in [EventIds -> RowStates] /\ bySaga \subseteq EventIds /\ MaxEventId \in Nat
      /\ unapplied \in [Writers -> 0 .. MaxEventId]
  BY <1>1, EventLogAssumption DEF TypeOK, LogTypeOK, EventIds
<1>3. TypeOK'
  <2>1. "inflight" \in RowStates
    BY DEF RowStates
  <2>2. nextId' \in 1 .. MaxEventId + 1 /\ nextId \in 0 .. MaxEventId
    BY <1>1, <1>2 DEF EventIds
  <2>3. LogTypeOK'
    BY <1>1, <1>2, <2>1, <2>2 DEF TypeOK, LogTypeOK
  <2>4. unapplied' \in [Writers -> 0 .. MaxEventId] /\ bySaga' \subseteq EventIds
    BY <1>1, <1>2, <2>2
  <2> QED
    BY <1>1, <2>3, <2>4 DEF TypeOK
<1>4. rowState[nextId] = "unassigned"
  BY <1>2 DEF IdInv
<1>5. Visible' = Visible /\ InFlight' = InFlight \cup {nextId} /\ nextId \notin InFlight
  BY <1>1, <1>2, <1>4 DEF Visible, InFlight
<1>6. IdInv'
  <2>1. \A i \in EventIds : xidOf'[i] < nextXid'
    BY <1>1, <1>2 DEF IdInv
  <2>2. \A i \in EventIds : rowState'[i] # "unassigned" => i < nextId'
    BY <1>1, <1>2 DEF IdInv, EventIds
  <2> QED
    BY <1>1, <2>1, <2>2 DEF IdInv
<1>7. \A i \in EventIds : i # nextId => xidOf'[i] = xidOf[i]
  BY <1>1, <1>2
<1>8. xidOf'[nextId] = openXid[w]
  BY <1>1, <1>2
<1>9. \A i \in InFlight : i \in EventIds
  BY DEF InFlight
<1>10. Own(w)' = Own(w) \cup {nextId}
  BY <1>1, <1>5, <1>7, <1>8, <1>9 DEF Own
<1>11. ASSUME NEW v \in Writers, v # w PROVE Own(v)' = Own(v)
  <2>1. openXid[v] = 0 \/ openXid[v] # openXid[w]
    BY <1>1, <1>11 DEF IdInv
  <2> QED
    BY <1>1, <1>5, <1>7, <1>8, <1>9, <2>1 DEF Own
<1>12. WriterInv'
  <2> SUFFICES ASSUME NEW v \in Writers
               PROVE  /\ v \notin SagaWriters =>
                            \A i \in EventIds : i \in Own(v)' <=> i \in applied'[v] \/ i = unapplied'[v]
                      /\ v \in SagaWriters =>
                            /\ applied'[v] = {} /\ Own(v)' \subseteq bySaga'
                            /\ unapplied'[v] \in bySaga' \cup {0}
    BY DEF WriterInv
  <2>1. /\ v \notin SagaWriters =>
              \A i \in EventIds : i \in Own(v) <=> i \in applied[v] \/ i = unapplied[v]
        /\ v \in SagaWriters =>
              applied[v] = {} /\ Own(v) \subseteq bySaga /\ unapplied[v] \in bySaga \cup {0}
    BY DEF WriterInv
  <2>2. CASE v = w
    <3>1. unapplied'[v] = nextId /\ applied'[v] = applied[v] /\ Own(v)' = Own(v) \cup {nextId}
      BY <1>1, <1>2, <1>10, <2>2
    <3>2. \A i \in EventIds : i # unapplied[v]
      BY <1>1, <2>2 DEF EventIds
    <3> QED
      BY <1>1, <1>2, <2>1, <2>2, <3>1, <3>2
  <2>3. CASE v # w
    <3>1. unapplied'[v] = unapplied[v] /\ applied'[v] = applied[v] /\ Own(v)' = Own(v)
      BY <1>1, <1>2, <1>11, <2>3
    <3>2. bySaga \subseteq bySaga'
      BY <1>1
    <3> QED
      BY <2>1, <3>1, <3>2
  <2> QED
    BY <2>2, <2>3
<1>13. FenceInv'
  BY <1>1 DEF FenceInv, LiveTableFenced
<1>14. HandlerEventsShownOnce'
  BY <1>1, <1>5 DEF HandlerEventsShownOnce, Expected
<1>15. bySaga \subseteq bySaga'
  BY <1>1
<1> HIDE DEF IInv
<1> QED
  BY <1>1, <1>3, <1>5, <1>6, <1>12, <1>13, <1>14, <1>15, WriterStep DEF rebuildVars

LEMMA RunProjectionsIInv ==
    ASSUME IInv, NEW w \in Writers, RunProjectionsForEvent(w)
    PROVE  IInv'
<1> USE DEF IInv
<1>1. /\ w \notin SagaWriters /\ unapplied[w] # 0 /\ ~LiveTableFenced
      /\ applied' = [applied EXCEPT ![w] = @ \cup {unapplied[w]}]
      /\ unapplied' = [unapplied EXCEPT ![w] = 0]
      /\ UNCHANGED <<nextXid, doneXid, openXid, nextId, rowState, xidOf, tenantOf>>
      /\ UNCHANGED <<live, deadLetters, bySaga>>
      /\ UNCHANGED <<archived, rebuild, rebuilds, everArchived, overlapped>>
  BY DEF RunProjectionsForEvent, logVars, rebuildVars
<1>2. /\ unapplied \in [Writers -> 0 .. MaxEventId] /\ applied \in [Writers -> SUBSET EventIds]
      /\ MaxEventId \in Nat
  BY EventLogAssumption DEF TypeOK
<1>3. unapplied[w] \in EventIds
  BY <1>1, <1>2 DEF EventIds
<1>4. TypeOK'
  <2>1. applied' \in [Writers -> SUBSET EventIds]
    BY <1>1, <1>2, <1>3
  <2>2. unapplied' \in [Writers -> 0 .. MaxEventId]
    BY <1>1, <1>2
  <2> QED
    BY <1>1, <2>1, <2>2 DEF TypeOK, LogTypeOK
<1>5. Visible' = Visible /\ InFlight' = InFlight
  BY <1>1 DEF Visible, InFlight
<1>6. IdInv' /\ \A v \in Writers : Own(v)' = Own(v)
  BY <1>1, <1>5 DEF IdInv, Own
<1>7. WriterInv'
  <2>1. applied'[w] = applied[w] \cup {unapplied[w]} /\ unapplied'[w] = 0
    BY <1>1, <1>2
  <2>2. \A v \in Writers : v # w => applied'[v] = applied[v] /\ unapplied'[v] = unapplied[v]
    BY <1>1, <1>2
  <2>3. \A i \in EventIds : i # 0
    BY DEF EventIds
  <2> QED
    BY <1>1, <1>6, <2>1, <2>2, <2>3 DEF WriterInv
<1>8. FenceInv'
  BY <1>1 DEF FenceInv, LiveTableFenced
<1>9. HandlerEventsShownOnce'
  BY <1>1, <1>5 DEF HandlerEventsShownOnce, Expected
<1> HIDE DEF IInv
<1> QED
  BY <1>1, <1>4, <1>5, <1>6, <1>7, <1>8, <1>9, WriterStep DEF rebuildVars

(* The end of a transaction, as the log and the other writers see it.      *)
LEMMA CompleteLog ==
    ASSUME IInv, NEW w \in Writers, NEW s \in {"visible", "burnt"}, Complete(w, s)
    PROVE  /\ LogTypeOK' /\ IdInv' /\ UNCHANGED tenantOf
           /\ Own(w)' = {} /\ \A v \in Writers : v # w => Own(v)' = Own(v)
           /\ s = "visible" => Visible' = Visible \cup Own(w)
           /\ s = "burnt" => Visible' = Visible
<1> USE DEF IInv
<1>1. /\ openXid[w] # 0
      /\ rowState' = [i \in EventIds |->
                         IF rowState[i] = "inflight" /\ xidOf[i] = openXid[w]
                         THEN s ELSE rowState[i]]
      /\ doneXid' = IF openXid[w] > doneXid THEN openXid[w] ELSE doneXid
      /\ openXid' = [openXid EXCEPT ![w] = 0]
      /\ UNCHANGED <<nextXid, nextId, xidOf, tenantOf>>
  BY DEF Complete
<1>2. /\ nextXid \in 1 .. MaxXid + 1 /\ openXid \in [Writers -> 0 .. MaxXid] /\ MaxXid \in Nat
      /\ xidOf \in [EventIds -> 0 .. MaxXid] /\ doneXid \in 0 .. MaxXid
      /\ rowState \in [EventIds -> RowStates]
  BY EventLogAssumption DEF TypeOK, LogTypeOK
<1>3. LogTypeOK'
  <2>1. s \in RowStates
    BY DEF RowStates
  <2>2. rowState' \in [EventIds -> RowStates]
    BY <1>1, <1>2, <2>1
  <2>3. openXid' \in [Writers -> 0 .. MaxXid] /\ doneXid' \in 0 .. MaxXid
    BY <1>1, <1>2
  <2> QED
    BY <1>1, <2>2, <2>3 DEF TypeOK, LogTypeOK
<1>4. \A i \in EventIds :
         rowState'[i] = IF i \in Own(w) THEN s ELSE rowState[i]
  BY <1>1 DEF Own, InFlight
<1>5. Own(w) \subseteq InFlight /\ InFlight \subseteq EventIds
  BY DEF Own, InFlight
<1>6. InFlight' = InFlight \ Own(w)
  BY <1>4, <1>5 DEF InFlight
<1>7. /\ s = "visible" => Visible' = Visible \cup Own(w)
      /\ s = "burnt" => Visible' = Visible
  BY <1>4, <1>5 DEF Visible, InFlight
<1>8. openXid'[w] = 0 /\ \A v \in Writers : v # w => openXid'[v] = openXid[v]
  BY <1>1, <1>2
<1>9. IdInv'
  <2>1. \A v \in Writers : openXid'[v] < nextXid'
    BY <1>1, <1>2, <1>8 DEF IdInv
  <2>2. \A u, v \in Writers : openXid'[u] = openXid'[v] => u = v \/ openXid'[u] = 0
    BY <1>8 DEF IdInv
  <2>3. \A i \in EventIds : rowState'[i] # "unassigned" => i < nextId'
    BY <1>1, <1>4, <1>5 DEF IdInv, InFlight
  <2> QED
    BY <1>1, <2>1, <2>2, <2>3 DEF IdInv
<1>10. Own(w)' = {}
  BY <1>8 DEF Own
<1>11. ASSUME NEW v \in Writers, v # w PROVE Own(v)' = Own(v)
  <2>1. Own(v) \cap Own(w) = {}
    BY <1>1, <1>11 DEF IdInv, Own
  <2>2. xidOf' = xidOf /\ openXid'[v] = openXid[v]
    BY <1>1, <1>8, <1>11
  <2> QED
    BY <1>6, <2>1, <2>2 DEF Own
<1> QED
  BY <1>1, <1>3, <1>7, <1>9, <1>10, <1>11

(* A commit makes an event visible and puts it into the table, once: no    *)
(* transaction of a handler commits an event it has not applied.           *)
LEMMA CommitIInv ==
    ASSUME IInv, NEW w \in Writers, Commit(w)
    PROVE  IInv'
<1> USE DEF IInv
<1>1. /\ unapplied[w] = 0 \/ w \in SagaWriters
      /\ Complete(w, "visible")
      /\ live' = Once(live, applied[w])
      /\ applied' = [applied EXCEPT ![w] = {}]
      /\ UNCHANGED <<unapplied, deadLetters, bySaga>>
      /\ UNCHANGED <<archived, rebuild, rebuilds, everArchived, overlapped>>
  BY DEF Commit, CommitWrite, rebuildVars
<1>2. /\ LogTypeOK' /\ IdInv' /\ UNCHANGED tenantOf
      /\ Own(w)' = {} /\ \A v \in Writers : v # w => Own(v)' = Own(v)
      /\ Visible' = Visible \cup Own(w)
  BY <1>1, CompleteLog
<1>3. applied \in [Writers -> SUBSET EventIds] /\ live \in Times
  BY DEF TypeOK
<1>4. /\ live' \in Times
      /\ \A i \in EventIds : i \notin applied[w] => live'[i] = live[i]
      /\ \A i \in EventIds : i \in applied[w] /\ live[i] = 0 => live'[i] = 1
  BY <1>1, <1>3, OnceType
<1>5. applied' \in [Writers -> SUBSET EventIds] /\ applied'[w] = {}
      /\ \A v \in Writers : v # w => applied'[v] = applied[v]
  BY <1>1, <1>3
<1>6. TypeOK'
  BY <1>1, <1>2, <1>4, <1>5 DEF TypeOK
<1>7. Own(w) \subseteq EventIds /\ Own(w) \cap Visible = {} /\ Visible \subseteq EventIds
  BY DEF Own, InFlight, Visible
<1>8. /\ w \in SagaWriters => applied[w] = {} /\ Own(w) \subseteq bySaga
      /\ w \notin SagaWriters => Own(w) = applied[w] /\ unapplied[w] = 0
  <2>1. \A i \in EventIds : i # 0
    BY DEF EventIds
  <2>2. w \notin SagaWriters => \A i \in EventIds : i \in Own(w) <=> i \in applied[w]
    BY <1>1, <2>1 DEF WriterInv
  <2> QED
    BY <1>1, <1>3, <1>7, <2>2 DEF WriterInv
<1>9. WriterInv'
  <2> SUFFICES ASSUME NEW v \in Writers
               PROVE  /\ v \notin SagaWriters =>
                            \A i \in EventIds : i \in Own(v)' <=> i \in applied'[v] \/ i = unapplied'[v]
                      /\ v \in SagaWriters =>
                            /\ applied'[v] = {} /\ Own(v)' \subseteq bySaga'
                            /\ unapplied'[v] \in bySaga' \cup {0}
    BY DEF WriterInv
  <2>1. CASE v = w
    <3>1. \A i \in EventIds : i # 0
      BY DEF EventIds
    <3>2. w \in SagaWriters => unapplied[w] \in bySaga \cup {0}
      BY DEF WriterInv
    <3> QED
      BY <1>1, <1>2, <1>5, <1>8, <2>1, <3>1, <3>2
  <2>2. CASE v # w
    BY <1>1, <1>2, <1>5, <2>2 DEF WriterInv
  <2> QED
    BY <2>1, <2>2
<1>10. FenceInv'
  BY <1>1, <1>5 DEF FenceInv, LiveTableFenced
<1>11. LiveTableFenced => Visible' \ bySaga' \subseteq Visible
  BY <1>1, <1>2, <1>8 DEF FenceInv
<1>12. HandlerEventsShownOnce'
  <2> SUFFICES ASSUME overlapped # "yes", NEW i \in EventIds \ bySaga
               PROVE  /\ i \in Expected' /\ i \notin deadLetters => live'[i] = 1
                      /\ i \notin Visible' => live'[i] = 0
    BY <1>1 DEF HandlerEventsShownOnce
  <2>1. /\ i \in Expected /\ i \notin deadLetters => live[i] = 1
        /\ i \notin Visible => live[i] = 0
    BY DEF HandlerEventsShownOnce
  <2>2. CASE i \in Own(w)
    <3>1. i \in applied[w] /\ live[i] = 0 /\ i \in Visible'
      BY <1>2, <1>7, <1>8, <2>1, <2>2
    <3> QED
      BY <1>4, <3>1
  <2>3. CASE i \notin Own(w)
    <3>1. i \notin applied[w]
      BY <1>8, <2>3
    <3>2. live'[i] = live[i]
      BY <1>4, <3>1
    <3>3. (i \in Visible' <=> i \in Visible) /\ (i \in Expected' <=> i \in Expected)
      BY <1>1, <1>2, <2>3 DEF Expected
    <3> QED
      BY <2>1, <3>2, <3>3
  <2> QED
    BY <2>2, <2>3
<1>13. Visible \subseteq Visible' /\ bySaga \subseteq bySaga'
  BY <1>1, <1>2
<1> HIDE DEF IInv
<1> QED
  BY <1>1, <1>2, <1>6, <1>9, <1>10, <1>11, <1>12, <1>13, WriterStep DEF rebuildVars

LEMMA RollbackIInv ==
    ASSUME IInv, NEW w \in Writers, Rollback(w)
    PROVE  IInv'
<1> USE DEF IInv
<1>1. /\ Complete(w, "burnt")
      /\ unapplied' = [unapplied EXCEPT ![w] = 0]
      /\ applied' = [applied EXCEPT ![w] = {}]
      /\ UNCHANGED <<live, deadLetters, bySaga>>
      /\ UNCHANGED <<archived, rebuild, rebuilds, everArchived, overlapped>>
  BY DEF Rollback, RollbackWrite, rebuildVars
<1>2. /\ LogTypeOK' /\ IdInv' /\ UNCHANGED tenantOf
      /\ Own(w)' = {} /\ \A v \in Writers : v # w => Own(v)' = Own(v)
      /\ Visible' = Visible
  BY <1>1, CompleteLog
<1>3. /\ applied \in [Writers -> SUBSET EventIds]
      /\ unapplied \in [Writers -> 0 .. MaxEventId] /\ 0 \in 0 .. MaxEventId
  BY EventLogAssumption DEF TypeOK
<1>4. /\ applied' \in [Writers -> SUBSET EventIds] /\ applied'[w] = {}
      /\ \A v \in Writers : v # w => applied'[v] = applied[v]
  BY <1>1, <1>3
<1>5. /\ unapplied' \in [Writers -> 0 .. MaxEventId] /\ unapplied'[w] = 0
      /\ \A v \in Writers : v # w => unapplied'[v] = unapplied[v]
  BY <1>1, <1>3
<1>6. TypeOK'
  BY <1>1, <1>2, <1>4, <1>5 DEF TypeOK
<1>7. \A i \in EventIds : i # 0
  BY DEF EventIds
<1>8. WriterInv'
  BY <1>1, <1>2, <1>4, <1>5, <1>7 DEF WriterInv
<1>9. FenceInv'
  BY <1>1, <1>4 DEF FenceInv, LiveTableFenced
<1>10. HandlerEventsShownOnce'
  BY <1>1, <1>2 DEF HandlerEventsShownOnce, Expected
<1> HIDE DEF IInv
<1> QED
  BY <1>1, <1>2, <1>6, <1>8, <1>9, <1>10, WriterStep DEF rebuildVars

(* The late projections of a saga touch only sagas' events.                *)
LEMMA SagaProjectionsIInv ==
    ASSUME IInv, NEW w \in Writers, RunProjectionsAfterCommit(w) \/ LoseProjections(w)
    PROVE  IInv'
<1> USE DEF IInv
<1>1. /\ w \in SagaWriters /\ unapplied[w] # 0
      /\ live' = Once(live, {unapplied[w]}) \/ live' = live
      /\ unapplied' = [unapplied EXCEPT ![w] = 0]
      /\ UNCHANGED <<nextXid, doneXid, openXid, nextId, rowState, xidOf, tenantOf>>
      /\ UNCHANGED <<applied, deadLetters, bySaga>>
      /\ UNCHANGED <<archived, rebuild, rebuilds, everArchived, overlapped>>
  BY DEF RunProjectionsAfterCommit, LoseProjections, logVars, rebuildVars
<1>2. /\ unapplied \in [Writers -> 0 .. MaxEventId] /\ live \in Times /\ 0 \in 0 .. MaxEventId
      /\ unapplied[w] \in bySaga
  BY <1>1, EventLogAssumption DEF TypeOK, WriterInv
<1>3. /\ unapplied' \in [Writers -> 0 .. MaxEventId] /\ unapplied'[w] = 0
      /\ \A v \in Writers : v # w => unapplied'[v] = unapplied[v]
  BY <1>1, <1>2
<1>4. live' \in Times /\ \A i \in EventIds : i \notin bySaga => live'[i] = live[i]
  BY <1>1, <1>2, OnceType
<1>5. TypeOK'
  BY <1>1, <1>3, <1>4 DEF TypeOK, LogTypeOK
<1>6. Visible' = Visible /\ InFlight' = InFlight
  BY <1>1 DEF Visible, InFlight
<1>7. IdInv' /\ \A v \in Writers : Own(v)' = Own(v)
  BY <1>1, <1>6 DEF IdInv, Own
<1>8. WriterInv'
  BY <1>1, <1>3, <1>7 DEF WriterInv
<1>9. FenceInv'
  BY <1>1 DEF FenceInv, LiveTableFenced
<1>10. HandlerEventsShownOnce'
  BY <1>1, <1>4, <1>6 DEF HandlerEventsShownOnce, Expected
<1> HIDE DEF IInv
<1> QED
  BY <1>1, <1>5, <1>6, <1>7, <1>8, <1>9, <1>10, WriterStep DEF rebuildVars

(* Archiving takes events out of what is due, restoring changes nothing    *)
(* that is due.                                                            *)
LEMMA ArchiveIInv ==
    ASSUME IInv, NEW t \in Tenants, ArchiveStream(t) \/ RestoreStream(t)
    PROVE  IInv'
<1> USE DEF IInv
<1>1. /\ UNCHANGED <<nextXid, doneXid, openXid, nextId, rowState, xidOf, tenantOf>>
      /\ UNCHANGED <<unapplied, applied, live, deadLetters, rebuild, rebuilds, bySaga>>
  BY DEF ArchiveStream, RestoreStream, logVars, liveVars
<1>2. /\ everArchived \subseteq everArchived' /\ archived' \subseteq everArchived'
      /\ overlapped' \in {"no", "now", "yes"} /\ (overlapped = "yes" <=> overlapped' = "yes")
      /\ overlapped' = "no" => overlapped = "no" /\ (archived' \subseteq archived \/ rebuild.pc = "none")
      /\ archived' \subseteq Tenants /\ everArchived' \subseteq Tenants
  BY DEF ArchiveStream, RestoreStream, TypeOK
<1>3. TypeOK'
  BY <1>1, <1>2 DEF TypeOK, LogTypeOK
<1>4. Visible' = Visible /\ InFlight' = InFlight
  BY <1>1 DEF Visible, InFlight
<1>5. IdInv' /\ WriterInv'
  BY <1>1, <1>4 DEF IdInv, WriterInv, Own
<1>6. Expected' \subseteq Expected /\ Due' \subseteq Due
  BY <1>1, <1>2, <1>4 DEF Expected, Due
<1>7. ShadowInv(rebuild)' /\ BatchInv' /\ FenceInv'
  BY <1>1, <1>4 DEF ShadowInv, Replayed, BatchInv, FenceInv, LiveTableFenced
<1>8. Replayed(rebuild)' = Replayed(rebuild)
  BY <1>1 DEF Replayed
<1>9. CompleteInv(rebuild)'
  BY <1>1, <1>2, <1>6, <1>8 DEF CompleteInv
<1>10. HandlerEventsShownOnce'
  BY <1>1, <1>2, <1>4, <1>6 DEF HandlerEventsShownOnce
<1> QED
  BY <1>2, <1>3, <1>5, <1>7, <1>9, <1>10

-----------------------------------------------------------------------------
(* The theorems.                                                           *)

LEMMA InitIInv == Init => IInv
<1> SUFFICES ASSUME Init PROVE IInv
  OBVIOUS
<1> USE DEF Init, LogInit
<1>1. /\ MaxEventId \in Nat /\ MaxEventId >= 1 /\ MaxXid \in Nat /\ MaxRebuilds \in Nat
  BY EventLogAssumption, ProjectionRebuildAssumption
<1>2. NoRebuild \in Rebuild /\ ShadowInv(NoRebuild) /\ Never \in Times /\ NoRebuild.pc = "none"
  BY NoRebuildType DEF NoRebuild
<1>3. LogTypeOK
  BY <1>1 DEF LogTypeOK, RowStates
<1>4. TypeOK
  BY <1>1, <1>2, <1>3 DEF TypeOK
<1>5. Visible = {} /\ InFlight = {}
  BY DEF Visible, InFlight
<1>6. IdInv
  BY <1>1 DEF IdInv
<1>7. WriterInv
  <2>1. \A i \in EventIds : i # 0
    BY DEF EventIds
  <2> QED
    BY <1>5, <2>1 DEF WriterInv, Own
<1>8. ShadowInv(rebuild) /\ BatchInv /\ FenceInv /\ CompleteInv(rebuild)
  BY <1>2 DEF BatchInv, FenceInv, LiveTableFenced, CompleteInv
<1>9. HandlerEventsShownOnce
  BY <1>5 DEF HandlerEventsShownOnce, Expected, Never
<1> QED
  BY <1>4, <1>6, <1>7, <1>8, <1>9 DEF IInv

LEMMA NextIInv == IInv /\ [Next]_vars => IInv'
<1> SUFFICES ASSUME IInv, [Next]_vars PROVE IInv'
  OBVIOUS
<1>1. ASSUME NEW w \in Writers, BeginWrite(w) PROVE IInv'
  BY <1>1, BeginWriteIInv
<1>2. ASSUME NEW w \in Writers, AppendEvent(w) PROVE IInv'
  BY <1>2, AppendEventIInv
<1>3. ASSUME NEW w \in Writers, RunProjectionsForEvent(w) PROVE IInv'
  BY <1>3, RunProjectionsIInv
<1>4. ASSUME NEW w \in Writers, Commit(w) PROVE IInv'
  BY <1>4, CommitIInv
<1>5. ASSUME NEW w \in Writers, Rollback(w) PROVE IInv'
  BY <1>5, RollbackIInv
<1>6. ASSUME NEW w \in Writers, RunProjectionsAfterCommit(w) \/ LoseProjections(w) PROVE IInv'
  BY <1>6, SagaProjectionsIInv
<1>7. ASSUME NEW t \in Tenants, ArchiveStream(t) \/ RestoreStream(t) PROVE IInv'
  BY <1>7, ArchiveIInv
<1>8. CASE RebuildNext
  BY <1>8, BeginRebuildIInv, DrainUnlockedIInv, FenceLiveTableIInv, DrainFencedIInv,
     CompareCountIInv, DrainAgainIInv, SwapIInv, FailRebuildIInv DEF RebuildNext
<1>9. CASE UNCHANGED vars
  <2>1. /\ UNCHANGED <<nextXid, doneXid, openXid, nextId, rowState, xidOf, tenantOf>>
        /\ UNCHANGED <<unapplied, applied, live, deadLetters, archived, rebuild, rebuilds>>
        /\ UNCHANGED <<bySaga, everArchived, overlapped>>
    BY <1>9 DEF vars, logVars, liveVars
  <2>2. Visible' = Visible /\ InFlight' = InFlight /\ Expected' = Expected
    BY <2>1 DEF Visible, InFlight, Expected
  <2>3. TypeOK' /\ IdInv' /\ WriterInv' /\ FenceInv' /\ HandlerEventsShownOnce'
    <3>1. TypeOK'
      BY <2>1 DEF IInv, TypeOK, LogTypeOK
    <3>2. IdInv' /\ WriterInv'
      BY <2>1, <2>2 DEF IInv, IdInv, WriterInv, Own
    <3>3. FenceInv' /\ HandlerEventsShownOnce'
      BY <2>1, <2>2 DEF IInv, FenceInv, LiveTableFenced, HandlerEventsShownOnce
    <3> QED
      BY <3>1, <3>2, <3>3
  <2> QED
    BY <2>1, <2>2, <2>3, WriterStep DEF rebuildVars
<1> QED
  BY <1>1, <1>2, <1>3, <1>4, <1>5, <1>6, <1>7, <1>8, <1>9 DEF Next, WriterNext

(* The invariant holds in every reachable state.                           *)
THEOREM RebuildInvariant == Spec => []IInv
  BY InitIInv, NextIInv, PTL DEF Spec

(* Type correctness: the replay's counters keep their ranges; in           *)
(* particular no rebuild replays more events than there are ids.           *)
THEOREM RebuildTypeCorrect == Spec => []TypeOK
<1>1. IInv => TypeOK
  BY DEF IInv
<1> QED
  BY <1>1, RebuildInvariant, PTL

(* Through catch-up, fence, second replay and swap the table shows every   *)
(* event that a command handler committed, once, and nothing else of       *)
(* handlers.                                                               *)
THEOREM TableShowsEventsOnce == Spec => []HandlerEventsShownOnce
<1>1. IInv => HandlerEventsShownOnce
  BY DEF IInv
<1> QED
  BY <1>1, RebuildInvariant, PTL

(* An event that the rebuild quarantined is not in the table it swaps in:  *)
(* an event is replayed once, also when the replay was started over.       *)
THEOREM QuarantineStaysOut == Spec => DeadLettersAreNotApplied
<1> DEFINE Out == live' = rebuild.shadow /\ rebuild.pc = "swap" /\ rebuild'.pc = "none"
                     => \A i \in rebuild.skipped : live'[i] = 0
<1>1. IInv /\ [Next]_vars => [Out]_vars
  BY DEF IInv, ShadowInv
<1>2. Spec => [][Out]_vars
  BY <1>1, RebuildInvariant, PTL DEF Spec
<1> QED
  BY <1>2 DEF DeadLettersAreNotApplied
========================================================================
