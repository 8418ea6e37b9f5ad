------------------------ MODULE EventDispatcherProofs ------------------------
(***************************************************************************)
(* Proofs about EventDispatcher, for every number of writers, ids,         *)
(* transaction ids, batch size, attempts and gap limit, with and without a *)
(* batch handler.  They begin with what the range algebra of               *)
(* PendingGapRanges guarantees for every set of entries: no watched id is  *)
(* dropped, none is added, and no id ends up with a smaller bound than it  *)
(* had.                                                                    *)
(*                                                                         *)
(*    TypeCorrect         Spec => []TypeOK                                 *)
(*    NoSilentLoss        Spec => []LostOnlyIfOvertaken                    *)
(*    SettledOnce         Spec => []NoRedeliveryAfterCommit                *)
(*    ProgressKept        Spec => ProgressNeverUndone                      *)
(*    RangesWellFormed    Spec => []GapsWellFormed                         *)
(*    IntakeStopsAtLimit  Spec => NothingNewAtGapLimit                     *)
(*                                                                         *)
(* These follow from one inductive invariant, IInv.  The next three rest   *)
(* on a second one on top of it, RecordInv, about the events on record:    *)
(*                                                                         *)
(*    FailedIsRetried     Spec => []LastFailedIsRetried                    *)
(*    PoisonHalts         Spec => HaltsOnPoison                            *)
(*    HeldComeFirst       Spec => HeldEventsComeFirst                      *)
(*                                                                         *)
(* ConsumerLifecycleProofs goes on from here with the operators, the       *)
(* prunes and the ways a consumer gets a cursor in the middle of the log.  *)
(***************************************************************************)
EXTENDS EventDispatcher, FiniteSetTheorems, WellFoundedInduction, TLAPS

-----------------------------------------------------------------------------
(* Smallest and largest elements.                                          *)

(* A nonempty set of natural numbers has a smallest element.               *)
LEMMA NatMin ==
    ASSUME NEW T, T \subseteq Nat, T # {}
    PROVE  \E m \in T : \A x \in T : m <= x
<1> DEFINE R == OpToRel(<, Nat)
<1>1. PICK m \in T : \A y \in T : ~ (<<y, m>> \in R)
  <2> HIDE DEF R
  <2>1. IsWellFoundedOn(R, Nat)
    BY NatLessThanWellFounded DEF R
  <2> QED
    BY <2>1, WFMin, Zenon
<1>2. \A y \in T : ~ (y < m)
  BY <1>1 DEF OpToRel
<1> QED
  BY <1>2

(* A nonempty set of numbers up to N has a largest element: the mirror     *)
(* image of the set has a smallest one.                                    *)
LEMMA BoundedMax ==
    ASSUME NEW N \in Nat, NEW T, T \subseteq 0 .. N, T # {}
    PROVE  \E m \in T : \A x \in T : x <= m
<1> DEFINE U == {u \in 0 .. N : N - u \in T}
<1>1. PICK k \in U : \A u \in U : k <= u
  <2>1. U \subseteq Nat
    OBVIOUS
  <2>2. \A x \in T : x \in 0 .. N /\ N - x \in 0 .. N /\ N - (N - x) = x
    OBVIOUS
  <2>3. U # {}
    BY <2>2
  <2> HIDE DEF U
  <2> QED
    BY <2>1, <2>3, NatMin
<1>2. \A x \in T : x \in 0 .. N /\ N - x \in U
  OBVIOUS
<1> QED
  BY <1>1, <1>2

-----------------------------------------------------------------------------
(* Runs and the entries made from them.                                    *)

(* Every id of a set lies in one of its maximal runs.                      *)
LEMMA RunsCover ==
    ASSUME NEW N \in Nat, NEW S, S \subseteq 1 .. N, NEW i \in S
    PROVE  \E p \in Runs(S) : p[1] <= i /\ i <= p[2]
<1> DEFINE A == {k \in 0 .. i : k \notin S}
           B == {k \in Nat : k > i /\ k \notin S}
<1>0. i \in 1 .. N
  OBVIOUS
<1>1. PICK a \in A : \A k \in A : k <= a
  <2>1. 0 \in A
    BY <1>0
  <2>2. A \subseteq 0 .. i /\ i \in Nat
    BY <1>0
  <2> HIDE DEF A
  <2> QED
    BY <2>1, <2>2, BoundedMax
<1>2. PICK b \in B : \A k \in B : b <= k
  <2>1. N + 1 \in B
    BY <1>0
  <2>2. B \subseteq Nat
    OBVIOUS
  <2> HIDE DEF B
  <2> QED
    BY <2>1, <2>2, NatMin
<1>3. a \in Nat /\ a < i /\ b \in Nat /\ b > i /\ a \notin S /\ b \notin S
  BY <1>0, <1>1, <1>2
<1>4. ASSUME NEW k \in Int, a < k, k < b PROVE k \in S
  <2>1. CASE k <= i
    <3>1. k \in 0 .. i
      BY <1>0, <1>3, <1>4, <2>1
    <3> QED
      BY <1>1, <1>3, <1>4, <3>1
  <2>2. CASE k > i
    <3>1. k \in Nat
      BY <1>0, <2>2
    <3> QED
      BY <1>2, <1>3, <1>4, <2>2, <3>1
  <2> QED
    BY <1>0, <2>1, <2>2
<1>5. a + 1 \in S /\ b - 1 \in S
  BY <1>3, <1>4
<1>6. a + 1 .. b - 1 \subseteq S
  BY <1>3, <1>4
<1>7. <<a + 1, b - 1>> \in Runs(S)
  BY <1>3, <1>5, <1>6 DEF Runs
<1> QED
  BY <1>3, <1>7

(* GapsFor watches exactly the ids it is given, all with the given bound.  *)
LEMMA GapsForCovers ==
    ASSUME NEW N \in Nat, NEW S, S \subseteq 1 .. N, NEW x
    PROVE  /\ \A i \in S : \E g \in GapsFor(S, x) : i \in IdsOf(g) /\ g.xmax = x
           /\ \A g \in GapsFor(S, x) :
                 /\ g = [from |-> g.from, to |-> g.to, xmax |-> x]
                 /\ g.from \in S /\ g.to \in S /\ g.from <= g.to /\ IdsOf(g) \subseteq S
<1>1. ASSUME NEW i \in S
      PROVE  \E g \in GapsFor(S, x) : i \in IdsOf(g) /\ g.xmax = x
  <2>1. PICK p \in Runs(S) : p[1] <= i /\ i <= p[2]
    BY RunsCover
  <2> DEFINE g == [from |-> p[1], to |-> p[2], xmax |-> x]
  <2>2. g \in GapsFor(S, x)
    BY DEF GapsFor
  <2>3. i \in IdsOf(g) /\ g.xmax = x
    BY <2>1 DEF IdsOf, Runs
  <2> QED
    BY <2>2, <2>3
<1>2. ASSUME NEW g \in GapsFor(S, x)
      PROVE  /\ g = [from |-> g.from, to |-> g.to, xmax |-> x]
             /\ g.from \in S /\ g.to \in S /\ g.from <= g.to /\ IdsOf(g) \subseteq S
  <2>1. PICK p \in Runs(S) : g = [from |-> p[1], to |-> p[2], xmax |-> x]
    BY DEF GapsFor
  <2> QED
    BY <2>1 DEF Runs, IdsOf
<1> QED
  BY <1>1, <1>2
-----------------------------------------------------------------------------
(* Carving and merging.                                                    *)

(* The entries the lemmas are about: ids up to N, bounds up to M.          *)
Entries(N, M) == [from : 1 .. N, to : 1 .. N, xmax : 1 .. M]

(* The ids of an entry are ids.                                            *)
LEMMA CoveredIsIds ==
    ASSUME NEW N \in Nat, NEW M \in Nat, NEW gaps, gaps \subseteq Entries(N, M)
    PROVE  /\ Covered(gaps) \subseteq 1 .. N
           /\ \A g \in gaps : IdsOf(g) \subseteq 1 .. N
  BY DEF Covered, IdsOf, Entries

(* Carving ids out of a set of entries removes those ids and no others,    *)
(* and every id that stays keeps its bound (splitRangeExcludingIds,        *)
(* subtractSortedIdsFromRanges).                                           *)
LEMMA SubtractExact ==
    ASSUME NEW N \in Nat, NEW M \in Nat, NEW gaps, gaps \subseteq Entries(N, M), NEW ids
    PROVE  /\ SubtractIds(gaps, ids) \subseteq Entries(N, M)
           /\ Covered(SubtractIds(gaps, ids)) \subseteq Covered(gaps) \ ids
           /\ \A g \in gaps : \A i \in IdsOf(g) \ ids :
                 \E h \in SubtractIds(gaps, ids) : i \in IdsOf(h) /\ h.xmax = g.xmax
<1>1. ASSUME NEW g \in gaps, NEW h \in GapsFor(IdsOf(g) \ ids, g.xmax)
      PROVE  h \in Entries(N, M) /\ IdsOf(h) \subseteq IdsOf(g) \ ids
  <2>1. IdsOf(g) \ ids \subseteq 1 .. N
    BY CoveredIsIds
  <2>2. /\ h = [from |-> h.from, to |-> h.to, xmax |-> g.xmax]
        /\ h.from \in IdsOf(g) \ ids /\ h.to \in IdsOf(g) \ ids
        /\ IdsOf(h) \subseteq IdsOf(g) \ ids
    BY <2>1, GapsForCovers
  <2> QED
    BY <2>1, <2>2 DEF Entries
<1>2. SubtractIds(gaps, ids) \subseteq Entries(N, M)
  BY <1>1 DEF SubtractIds, SplitRangeExcludingIds
<1>3. Covered(SubtractIds(gaps, ids)) \subseteq Covered(gaps) \ ids
  <2> SUFFICES ASSUME NEW k \in Covered(SubtractIds(gaps, ids))
               PROVE  k \in Covered(gaps) \ ids
    OBVIOUS
  <2>1. PICK h \in SubtractIds(gaps, ids) : k \in IdsOf(h)
    BY DEF Covered
  <2>2. PICK g \in gaps : h \in GapsFor(IdsOf(g) \ ids, g.xmax)
    BY DEF SubtractIds, SplitRangeExcludingIds
  <2>3. k \in IdsOf(g) \ ids
    BY <1>1, <2>1, <2>2
  <2> QED
    BY <2>3 DEF Covered
<1>4. ASSUME NEW g \in gaps, NEW i \in IdsOf(g) \ ids
      PROVE  \E h \in SubtractIds(gaps, ids) : i \in IdsOf(h) /\ h.xmax = g.xmax
  <2>1. IdsOf(g) \ ids \subseteq 1 .. N
    BY CoveredIsIds
  <2>2. PICK h \in GapsFor(IdsOf(g) \ ids, g.xmax) : i \in IdsOf(h) /\ h.xmax = g.xmax
    <3> DEFINE S == IdsOf(g) \ ids
    <3>1. S \subseteq 1 .. N /\ i \in S
      BY <2>1
    <3> HIDE DEF S
    <3>2. \E h \in GapsFor(S, g.xmax) : i \in IdsOf(h) /\ h.xmax = g.xmax
      BY <3>1, GapsForCovers
    <3> QED
      BY <3>2 DEF S
  <2> QED
    BY <2>2 DEF SubtractIds, SplitRangeExcludingIds
<1> QED
  BY <1>2, <1>3, <1>4

(* Merging watches the same ids as before, and no id ends up with a        *)
(* smaller bound: an entry may be dropped later than without merging,      *)
(* never earlier (mergeContiguousGapRanges).                               *)
LEMMA MergeSafe ==
    ASSUME NEW N \in Nat, NEW M \in Nat, NEW gaps, gaps \subseteq Entries(N, M)
    PROVE  /\ MergeContiguousGapRanges(gaps) \subseteq Entries(N, M)
           /\ Covered(MergeContiguousGapRanges(gaps)) \subseteq Covered(gaps)
           /\ \A g \in gaps : \A i \in IdsOf(g) :
                 \E m \in MergeContiguousGapRanges(gaps) :
                    i \in IdsOf(m) /\ g.xmax <= m.xmax
<1> DEFINE within(p) == {g \in gaps : p[1] <= g.from /\ g.to <= p[2]}
           C == Covered(gaps)
<1>0. C \subseteq 1 .. N
  BY CoveredIsIds
<1>1. ASSUME NEW m \in MergeContiguousGapRanges(gaps)
      PROVE  m \in Entries(N, M) /\ IdsOf(m) \subseteq C
  <2>1. PICK p \in Runs(C), g \in gaps : m = [from |-> p[1], to |-> p[2], xmax |-> g.xmax]
    BY DEF MergeContiguousGapRanges
  <2>2. p[1] \in C /\ p[2] \in C /\ p[1] .. p[2] \subseteq C
    BY DEF Runs
  <2>3. g.xmax \in 1 .. M
    BY DEF Entries
  <2> QED
    BY <1>0, <2>1, <2>2, <2>3 DEF Entries, IdsOf
<1>2. ASSUME NEW g \in gaps, NEW i \in IdsOf(g)
      PROVE  \E m \in MergeContiguousGapRanges(gaps) : i \in IdsOf(m) /\ g.xmax <= m.xmax
  <2>1. IdsOf(g) \subseteq C
    BY DEF Covered
  <2>2. PICK p \in Runs(C) : p[1] <= i /\ i <= p[2]
    BY <1>0, <2>1, RunsCover
  <2>3. /\ p[1] \in 1 .. N /\ p[2] \in 1 .. N /\ i \in 1 .. N
        /\ g.from \in 1 .. N /\ g.to \in 1 .. N
        /\ g.from <= i /\ i <= g.to
    BY <1>0, <2>1 DEF Runs, Entries, IdsOf
  <2>4. p[1] - 1 \notin C /\ p[2] + 1 \notin C
    BY DEF Runs
  <2>5. p[1] <= g.from
    <3>1. SUFFICES ASSUME g.from < p[1] PROVE FALSE
      BY <2>3
    <3>2. p[1] - 1 \in IdsOf(g)
      BY <2>2, <2>3, <3>1 DEF IdsOf
    <3> QED
      BY <2>1, <2>4, <3>2
  <2>6. g.to <= p[2]
    <3>1. SUFFICES ASSUME p[2] < g.to PROVE FALSE
      BY <2>3
    <3>2. p[2] + 1 \in IdsOf(g)
      BY <2>2, <2>3, <3>1 DEF IdsOf
    <3> QED
      BY <2>1, <2>4, <3>2
  <2>7. g \in within(p)
    BY <2>5, <2>6
  <2>8. PICK h \in within(p) : \A o \in within(p) : o.xmax <= h.xmax
    <3> DEFINE X == {o.xmax : o \in within(p)}
    <3>1. X \subseteq 0 .. M /\ X # {}
      BY <2>7 DEF Entries
    <3>2. PICK x \in X : \A y \in X : y <= x
      <4> HIDE DEF X
      <4> QED
        BY <3>1, BoundedMax
    <3> QED
      BY <3>2
  <2> DEFINE m == [from |-> p[1], to |-> p[2], xmax |-> h.xmax]
  <2>9. m \in MergeContiguousGapRanges(gaps)
    BY <2>8 DEF MergeContiguousGapRanges
  <2>10. i \in IdsOf(m) /\ g.xmax <= m.xmax
    BY <2>2, <2>3, <2>7, <2>8 DEF IdsOf
  <2> QED
    BY <2>9, <2>10
<1>3. Covered(MergeContiguousGapRanges(gaps)) \subseteq Covered(gaps)
  BY <1>1 DEF Covered
<1> QED
  BY <1>1, <1>2, <1>3

(* Two maximal runs of a set are the same run, or an id lies between them. *)
LEMMA RunsApart ==
    ASSUME NEW N \in Nat, NEW S, S \subseteq 1 .. N, NEW p \in Runs(S), NEW q \in Runs(S)
    PROVE  p = q \/ p[2] + 1 < q[1] \/ q[2] + 1 < p[1]
<1> DEFINE a == p[1]  b == p[2]  c == q[1]  d == q[2]
<1>1. /\ p = <<a, b>> /\ a \in S /\ b \in S /\ a <= b /\ a .. b \subseteq S
      /\ a - 1 \notin S /\ b + 1 \notin S
  BY DEF Runs
<1>2. /\ q = <<c, d>> /\ c \in S /\ d \in S /\ c <= d /\ c .. d \subseteq S
      /\ c - 1 \notin S /\ d + 1 \notin S
  BY DEF Runs
<1> HIDE DEF a, b, c, d
<1>3. a \in 1 .. N /\ b \in 1 .. N /\ c \in 1 .. N /\ d \in 1 .. N
  BY <1>1, <1>2
<1>4. SUFFICES ASSUME c <= b + 1, a <= d + 1 PROVE a = c /\ b = d
  BY <1>1, <1>2, <1>3 DEF a, b, c, d
<1>5. ~(c < a)
  <2>1. c < a => a - 1 \in c .. d
    BY <1>3, <1>4
  <2> QED
    BY <1>1, <1>2, <2>1
<1>6. ~(a < c)
  <2>1. a < c => c - 1 \in a .. b
    BY <1>3, <1>4
  <2> QED
    BY <1>1, <1>2, <2>1
<1>7. a = c
  BY <1>3, <1>5, <1>6
<1>8. ~(b < d)
  <2>1. b < d => b + 1 \in c .. d
    BY <1>1, <1>3, <1>7
  <2> QED
    BY <1>1, <1>2, <2>1
<1>9. ~(d < b)
  <2>1. d < b => d + 1 \in a .. b
    BY <1>2, <1>3, <1>7
  <2> QED
    BY <1>1, <1>2, <2>1
<1> QED
  BY <1>3, <1>7, <1>8, <1>9

(* Merged entries are not empty, and between two of them lies an id that   *)
(* neither watches: the next merge, and the UNION ALL of the fetch, meet   *)
(* every id once (mergeContiguousGapRanges).                               *)
LEMMA MergeSeparates ==
    ASSUME NEW N \in Nat, NEW M \in Nat, NEW gaps, gaps \subseteq Entries(N, M)
    PROVE  /\ \A m \in MergeContiguousGapRanges(gaps) :
                 m.from <= m.to /\ m.to \in Covered(gaps)
           /\ \A m, n \in MergeContiguousGapRanges(gaps) :
                 m # n => m.to + 1 < n.from \/ n.to + 1 < m.from
<1> DEFINE within(p) == {g \in gaps : p[1] <= g.from /\ g.to <= p[2]}
           C == Covered(gaps)
<1>0. C \subseteq 1 .. N
  BY CoveredIsIds
<1>1. ASSUME NEW m \in MergeContiguousGapRanges(gaps)
      PROVE  \E p \in Runs(C) : \E h \in within(p) :
                /\ m = [from |-> p[1], to |-> p[2], xmax |-> h.xmax]
                /\ \A o \in within(p) : o.xmax <= h.xmax
  BY DEF MergeContiguousGapRanges
<1>2. ASSUME NEW m \in MergeContiguousGapRanges(gaps)
      PROVE  m.from <= m.to /\ m.to \in C
  <2>1. PICK p \in Runs(C) : \E h \in within(p) : m = [from |-> p[1], to |-> p[2], xmax |-> h.xmax]
    BY <1>1
  <2> QED
    BY <2>1 DEF Runs
<1>3. ASSUME NEW m \in MergeContiguousGapRanges(gaps), NEW n \in MergeContiguousGapRanges(gaps),
             m # n
      PROVE  m.to + 1 < n.from \/ n.to + 1 < m.from
  <2>1. PICK p \in Runs(C) : \E h \in within(p) :
           /\ m = [from |-> p[1], to |-> p[2], xmax |-> h.xmax]
           /\ \A o \in within(p) : o.xmax <= h.xmax
    BY <1>1
  <2>2. PICK q \in Runs(C) : \E k \in within(q) :
           /\ n = [from |-> q[1], to |-> q[2], xmax |-> k.xmax]
           /\ \A o \in within(q) : o.xmax <= k.xmax
    BY <1>1
  <2>3. p # q
    <3>1. SUFFICES ASSUME p = q PROVE m = n
      BY <1>3
    <3>2. PICK h \in within(p) : /\ m = [from |-> p[1], to |-> p[2], xmax |-> h.xmax]
                                 /\ \A o \in within(p) : o.xmax <= h.xmax
      BY <2>1
    <3>3. PICK k \in within(q) : /\ n = [from |-> q[1], to |-> q[2], xmax |-> k.xmax]
                                 /\ \A o \in within(q) : o.xmax <= k.xmax
      BY <2>2
    <3>4. h.xmax <= k.xmax /\ k.xmax <= h.xmax
      BY <3>1, <3>2, <3>3
    <3>5. h.xmax \in Int /\ k.xmax \in Int
      BY DEF Entries
    <3>6. h.xmax = k.xmax
      BY <3>4, <3>5
    <3> QED
      BY <3>1, <3>2, <3>3, <3>6
  <2>4. p[2] + 1 < q[1] \/ q[2] + 1 < p[1]
    <3> HIDE DEF C
    <3> QED
      BY <1>0, <2>3, RunsApart
  <2> QED
    BY <2>1, <2>2, <2>4
<1> QED
  BY <1>2, <1>3

-----------------------------------------------------------------------------
(* The inductive invariant.                                                *)

(* The events that were committed; a prune may have deleted some of them   *)
(* since (EventRetention).                                                 *)
Committed == {i \in EventIds : rowState[i] \in {"visible", "pruned"}}

(* Transaction ids: an in-flight row belongs to an open transaction, a     *)
(* committed row to a completed one, and every id below nextId is taken.   *)
LogInv ==
    /\ doneXid < nextXid
    /\ \A w \in Writers : openXid[w] < nextXid
    /\ \A i \in InFlight : \E w \in Writers : openXid[w] # 0 /\ openXid[w] = xidOf[i]
    /\ \A i \in Committed : xidOf[i] <= doneXid
    /\ \A i \in EventIds : rowState[i] # "unassigned" => i < nextId

(* The retry budget: a consumer that is not dead has attempts left.        *)
BudgetInv ==
    /\ row.status = "idle" => row.attempts < MaxAttempts
    /\ turn.pc # "idle" /\ turn.row.status = "idle" => turn.row.attempts < MaxAttempts
    /\ turn.pc \in {"acquired", "fetched"} => turn.row.status = "idle"

(* Before it delivers, a turn works on the cursor, the gaps and the failed *)
(* event of the committed row.                                             *)
LockInv ==
    /\ row.cursor < nextId
    /\ turn.row.cursor < nextId
    /\ turn.pc = "idle" => turn = NoTurn
    /\ turn.pc \in {"acquired", "fetched"} =>
          /\ turn.row.cursor = row.cursor /\ turn.row.gaps = row.gaps
          /\ turn.row.lastFailed = row.lastFailed

(* No open transaction is older than the xmin the turn read.               *)
XminInv ==
    turn.pc \in {"acquired", "fetched"} /\ turn.row.gaps # {} =>
        /\ turn.xminNow <= nextXid
        /\ \A w \in Writers : openXid[w] # 0 => turn.xminNow <= openXid[w]

(* What the fetch returned, and why a visible row of a gap is not in it:   *)
(* cut off by the limit, or committed after the fetch and so at or past    *)
(* the xmin that was read before it.                                       *)
FetchInv ==
    /\ turn.pc \in {"idle", "acquired"} => turn.pending = {} /\ turn.fresh = {}
    /\ turn.pc = "fetched" =>
          /\ turn.pending \subseteq Committed \cap Covered(turn.row.gaps)
          /\ turn.fresh \subseteq Committed
          /\ \A i \in turn.fresh : i > turn.row.cursor
          /\ \A i \in Visible \cap Covered(turn.row.gaps) :
                \/ i \in turn.pending
                \/ /\ Cardinality(turn.pending) = PendingLimit
                   /\ \A p \in turn.pending : p < i
                \/ turn.xminNow <= xidOf[i]

(* The point of the gaps: an id at or below the cursor whose transaction   *)
(* may still commit, or has committed, and that nobody has handled, lies   *)
(* in a gap with a bound past its transaction, unless it was overtaken.    *)
Watched(r) ==
    \A i \in EventIds :
       i <= r.cursor /\ i \in InFlight \cup Visible /\ i \notin handled \cup skipped
          => \/ Overtaken(i)
             \/ \E g \in r.gaps : i \in IdsOf(g) /\ xidOf[i] < g.xmax

WatchInv ==
    /\ Watched(row)
    /\ turn.pc = "delivered" => Watched(turn.row)

(* Settled ids lie at or below the cursor and outside the gaps.            *)
SettledIn(r, ids) == (\A i \in ids : i <= r.cursor) /\ ids \cap Covered(r.gaps) = {}

SettledInv ==
    /\ SettledIn(row, resolved)
    /\ (turn.pending \cup turn.fresh) \cap resolved = {}
    /\ turn.pc = "delivered" =>
          /\ SettledIn(turn.row, resolved \cup turn.resolved)
          /\ turn.row.cursor >= row.cursor
          /\ Covered(turn.row.gaps) \cap 1 .. row.cursor \subseteq Covered(row.gaps)

(* The persisted ranges, and the event that is on record as failed.        *)
WellFormed(r) ==
    /\ \A g \in r.gaps : g.from <= g.to /\ g.to <= r.cursor
    /\ \A g \in r.gaps, h \in r.gaps :
          g # h => g.to + 1 < h.from \/ h.to + 1 < g.from

RowInv ==
    /\ WellFormed(row)
    /\ turn.pc = "delivered" => WellFormed(turn.row)
    /\ row.lastFailed # None => row.lastFailed \in Committed
    /\ turn.row.lastFailed # None => turn.row.lastFailed \in Committed

IInv ==
    /\ TypeOK
    /\ LogInv
    /\ BudgetInv
    /\ LockInv
    /\ XminInv
    /\ FetchInv
    /\ WatchInv
    /\ SettledInv
    /\ RowInv

-----------------------------------------------------------------------------
(* The log.                                                                *)

(* What a step of a writer may do to the log, as far as consumers care.    *)
LogGrows ==
    /\ nextId <= nextId' /\ nextXid <= nextXid' /\ doneXid <= doneXid'
    /\ \A i \in EventIds :
          /\ i < nextId => xidOf'[i] = xidOf[i]
          /\ i < nextId /\ i \in InFlight' \cup Visible' => i \in InFlight \cup Visible
          /\ rowState[i] \in {"visible", "pruned"} => rowState'[i] = rowState[i]
          /\ i \in Visible' \ Visible => i \in InFlight
    /\ \A w \in Writers :
          openXid'[w] # 0 => openXid'[w] = openXid[w] \/ openXid'[w] = nextXid

(* The claim, the insert, the lost insert, the end of a transaction and    *)
(* foreign transactions keep the log's invariant and let it grow.          *)
LEMMA LogStep ==
    ASSUME LogTypeOK, LogInv, LogNext
    PROVE  LogTypeOK' /\ LogInv' /\ LogGrows
<1> USE EventLogAssumption DEF LogTypeOK, LogInv, EventIds
<1>1. ASSUME NEW w \in Writers, ClaimXactId(w)
      PROVE  LogTypeOK' /\ LogInv' /\ LogGrows
  <2>1. /\ openXid[w] = 0 /\ nextXid <= MaxXid
        /\ openXid' = [openXid EXCEPT ![w] = nextXid] /\ nextXid' = nextXid + 1
        /\ doneXid' = doneXid /\ nextId' = nextId /\ rowState' = rowState
        /\ xidOf' = xidOf /\ tenantOf' = tenantOf
    BY <1>1 DEF ClaimXactId
  <2>2. InFlight' = InFlight /\ Visible' = Visible /\ Committed' = Committed
    BY <2>1 DEF InFlight, Visible, Committed
  <2>3. LogTypeOK'
    BY <2>1
  <2>4. LogInv'
    BY <2>1, <2>2
  <2>5. LogGrows
    BY <2>1, <2>2 DEF LogGrows
  <2> QED
    BY <2>3, <2>4, <2>5
<1>2. ASSUME NEW w \in Writers, NEW s \in {"inflight", "burnt"},
             openXid[w] # 0, nextId <= MaxEventId,
             rowState' = [rowState EXCEPT ![nextId] = s],
             xidOf' = [xidOf EXCEPT ![nextId] = openXid[w]],
             nextId' = nextId + 1,
             UNCHANGED <<nextXid, doneXid, openXid, tenantOf>>
      PROVE  LogTypeOK' /\ LogInv' /\ LogGrows
  <2>1. nextId \in EventIds /\ rowState[nextId] = "unassigned"
    BY <1>2
  <2>2. /\ InFlight' \subseteq InFlight \cup {nextId}
        /\ Visible' = Visible /\ Committed' = Committed
    BY <1>2, <2>1 DEF InFlight, Visible, Committed
  <2>3. LogTypeOK'
    BY <1>2, <2>1 DEF RowStates
  <2>4. LogInv'
    <3>1. \A i \in InFlight' : \E v \in Writers : openXid'[v] # 0 /\ openXid'[v] = xidOf'[i]
      BY <1>2, <2>1, <2>2 DEF InFlight
    <3>2. \A i \in Committed' : xidOf'[i] <= doneXid'
      BY <1>2, <2>1, <2>2 DEF Committed
    <3>3. \A i \in EventIds : rowState'[i] # "unassigned" => i < nextId'
      BY <1>2, <2>1
    <3> QED
      BY <1>2, <3>1, <3>2, <3>3
  <2>5. LogGrows
    BY <1>2, <2>1, <2>2 DEF LogGrows
  <2> QED
    BY <2>3, <2>4, <2>5
<1>3. ASSUME NEW w \in Writers, NEW s \in {"visible", "burnt"}, Complete(w, s)
      PROVE  LogTypeOK' /\ LogInv' /\ LogGrows
  <2>1. /\ openXid[w] # 0
        /\ \A i \in EventIds : rowState'[i] =
              IF rowState[i] = "inflight" /\ xidOf[i] = openXid[w] THEN s ELSE rowState[i]
        /\ doneXid' = IF openXid[w] > doneXid THEN openXid[w] ELSE doneXid
        /\ openXid' = [openXid EXCEPT ![w] = 0]
        /\ nextXid' = nextXid /\ nextId' = nextId /\ xidOf' = xidOf /\ tenantOf' = tenantOf
    BY <1>3 DEF Complete
  <2>2. LogTypeOK'
    <3>1. rowState' \in [EventIds -> RowStates]
      BY <1>3 DEF Complete, RowStates
    <3> QED
      BY <2>1, <3>1
  <2>3. doneXid <= doneXid' /\ openXid[w] <= doneXid' /\ doneXid' < nextXid
    BY <2>1
  <2>4. \A i \in InFlight' : i \in InFlight /\ xidOf[i] # openXid[w]
    BY <2>1 DEF InFlight
  <2>5. \A i \in Visible' : i \in Visible \/ (i \in InFlight /\ xidOf[i] = openXid[w])
    <3> SUFFICES ASSUME NEW i \in EventIds, rowState'[i] = "visible"
                 PROVE  \/ rowState[i] = "visible"
                        \/ rowState[i] = "inflight" /\ xidOf[i] = openXid[w]
      BY DEF InFlight, Visible
    <3> QED
      BY <2>1
  <2>6. LogInv'
    <3>1. \A i \in InFlight' : \E v \in Writers : openXid'[v] # 0 /\ openXid'[v] = xidOf'[i]
      <4> SUFFICES ASSUME NEW i \in InFlight'
                   PROVE  \E v \in Writers : openXid'[v] # 0 /\ openXid'[v] = xidOf'[i]
        OBVIOUS
      <4>1. PICK v \in Writers : openXid[v] # 0 /\ openXid[v] = xidOf[i]
        BY <2>4
      <4>2. v # w
        BY <2>4, <4>1
      <4> QED
        BY <2>1, <4>1, <4>2
    <3>2. \A i \in Committed' : xidOf'[i] <= doneXid'
      <4> SUFFICES ASSUME NEW i \in EventIds, rowState'[i] \in {"visible", "pruned"}
                   PROVE  xidOf[i] <= doneXid'
        BY <2>1 DEF Committed
      <4>0. xidOf[i] \in Int /\ doneXid \in Int /\ doneXid' \in Int
        BY <2>2
      <4>1. CASE rowState[i] \in {"visible", "pruned"}
        <5>1. xidOf[i] <= doneXid
          BY <4>1 DEF Committed
        <5> QED
          BY <2>3, <4>0, <5>1
      <4>2. CASE rowState[i] = "inflight" /\ xidOf[i] = openXid[w]
        BY <2>3, <4>2
      <4> QED
        BY <2>1, <4>1, <4>2
    <3>3. \A i \in EventIds : rowState'[i] # "unassigned" => i < nextId'
      BY <2>1
    <3>4. \A v \in Writers : openXid'[v] < nextXid'
      BY <2>1
    <3> QED
      BY <2>1, <2>3, <3>1, <3>2, <3>3, <3>4
  <2>7. LogGrows
    BY <2>1, <2>3, <2>4, <2>5 DEF LogGrows, Visible, InFlight
  <2> QED
    BY <2>2, <2>6, <2>7
<1>4. ASSUME OtherTransaction
      PROVE  LogTypeOK' /\ LogInv' /\ LogGrows
  <2>1. /\ nextXid <= MaxXid /\ nextXid' = nextXid + 1 /\ doneXid' = nextXid
        /\ openXid' = openXid /\ nextId' = nextId /\ rowState' = rowState
        /\ xidOf' = xidOf /\ tenantOf' = tenantOf
    BY <1>4 DEF OtherTransaction
  <2>2. InFlight' = InFlight /\ Visible' = Visible /\ Committed' = Committed
    BY <2>1 DEF InFlight, Visible, Committed
  <2>3. LogInv'
    BY <2>1, <2>2 DEF Committed
  <2> QED
    BY <2>1, <2>2, <2>3 DEF LogGrows
<1>5. CASE OtherTransaction
  BY <1>4, <1>5
<1>6. CASE \E w \in Writers : \/ ClaimXactId(w) \/ InsertEvent(w) \/ InsertConflict(w)
                              \/ CommitWrite(w) \/ RollbackWrite(w)
  <2>1. PICK w \in Writers : \/ ClaimXactId(w) \/ InsertEvent(w) \/ InsertConflict(w)
                             \/ CommitWrite(w) \/ RollbackWrite(w)
    BY <1>6
  <2>2. CASE ClaimXactId(w)
    BY <1>1, <2>2
  <2>3. CASE InsertEvent(w)
    BY <1>2, <2>3 DEF InsertEvent
  <2>4. CASE InsertConflict(w)
    BY <1>2, <2>4 DEF InsertConflict
  <2>5. CASE CommitWrite(w)
    BY <1>3, <2>5 DEF CommitWrite
  <2>6. CASE RollbackWrite(w)
    BY <1>3, <2>6 DEF RollbackWrite
  <2> QED
    BY <2>1, <2>2, <2>3, <2>4, <2>5, <2>6
<1> QED
  BY <1>5, <1>6 DEF LogNext

(* An id that was overtaken stays overtaken.                               *)
LEMMA OvertakenStays ==
    ASSUME LogInv, LogGrows, NEW i \in EventIds, i < nextId, Overtaken(i)
    PROVE  Overtaken(i)'
<1>1. PICK j \in EventIds : /\ j > i
                            /\ rowState[j] \in {"visible", "pruned"}
                            /\ xidOf[j] < xidOf[i]
  BY DEF Overtaken
<1>2. j < nextId
  BY <1>1 DEF LogInv
<1> QED
  BY <1>1, <1>2 DEF Overtaken, LogGrows

(* Gaps that watch what is still to come up to the cursor, but for some    *)
(* ids, go on doing so while the log grows.                                *)
LEMMA WatchStays ==
    ASSUME LogTypeOK, LogInv, LogGrows, NEW c \in Int, NEW gaps, NEW done, c < nextId,
           \A i \in EventIds :
              i <= c /\ i \in InFlight \cup Visible /\ i \notin done
                 => \/ Overtaken(i)
                    \/ \E g \in gaps : i \in IdsOf(g) /\ xidOf[i] < g.xmax
    PROVE  \A i \in EventIds :
              i <= c /\ i \in InFlight' \cup Visible' /\ i \notin done
                 => \/ Overtaken(i)'
                    \/ \E g \in gaps : i \in IdsOf(g) /\ xidOf'[i] < g.xmax
<1> SUFFICES ASSUME NEW i \in EventIds, i <= c, i \in InFlight' \cup Visible', i \notin done
             PROVE  \/ Overtaken(i)'
                    \/ \E g \in gaps : i \in IdsOf(g) /\ xidOf'[i] < g.xmax
  OBVIOUS
<1>1. i < nextId
  BY EventLogAssumption DEF LogTypeOK, EventIds
<1>2. i \in InFlight \cup Visible /\ xidOf'[i] = xidOf[i]
  BY <1>1 DEF LogGrows
<1> QED
  BY <1>1, <1>2, OvertakenStays

(* A writer's step while a turn is anywhere keeps the invariant: ids at or *)
(* below a cursor are all taken, a commit only moves in-flight ids of open *)
(* transactions, and a new transaction is younger than any xmin read.      *)
LEMMA WritersKeepIInv ==
    ASSUME IInv, LogNext, UNCHANGED consumerVars
    PROVE  IInv'
<1> USE DEF IInv, TypeOK, consumerVars
<1>1. LogTypeOK' /\ LogInv' /\ LogGrows
  BY LogStep
<1>2. TypeOK'
  BY <1>1
<1>3. BudgetInv'
  BY DEF BudgetInv
<1>4. LockInv'
  <2>1. nextId \in Int /\ nextId' \in Int /\ row.cursor \in Int /\ turn.row.cursor \in Int
    BY <1>1, EventLogAssumption DEF LogTypeOK, Row, Turn
  <2> QED
    BY <1>1, <2>1 DEF LockInv, LogGrows
<1>5. XminInv'
  <2>1. /\ nextXid \in Int /\ nextXid' \in Int /\ turn.xminNow \in Int
        /\ \A w \in Writers : openXid[w] \in Int /\ openXid'[w] \in Int
    BY <1>1, EventLogAssumption DEF LogTypeOK, Turn
  <2> QED
    BY <1>1, <2>1 DEF XminInv, LogGrows
<1>6. FetchInv'
  <2>1. CASE turn.pc # "fetched"
    BY <2>1 DEF FetchInv
  <2>2. CASE turn.pc = "fetched"
    <3>1. Committed \subseteq Committed'
      BY <1>1 DEF LogGrows, Committed
    <3>2. ASSUME NEW i \in Visible' \cap Covered(turn.row.gaps), i \notin Visible
          PROVE  turn.xminNow <= xidOf'[i]
      <4>1. i \in EventIds /\ i \in InFlight
        BY <1>1, <3>2 DEF LogGrows, Visible
      <4>2. i < nextId /\ xidOf'[i] = xidOf[i]
        BY <1>1, <4>1 DEF LogGrows, LogInv, InFlight
      <4>3. PICK w \in Writers : openXid[w] # 0 /\ openXid[w] = xidOf[i]
        BY <4>1 DEF LogInv
      <4>4. turn.row.gaps # {}
        BY <3>2 DEF Covered
      <4> QED
        BY <2>2, <4>2, <4>3, <4>4 DEF XminInv
    <3>3. ASSUME NEW i \in Visible PROVE xidOf'[i] = xidOf[i]
      BY <1>1 DEF LogGrows, LogInv, Visible
    <3>4. \A i \in Visible' \cap Covered(turn.row.gaps) :
             \/ i \in turn.pending
             \/ /\ Cardinality(turn.pending) = PendingLimit
                /\ \A q \in turn.pending : q < i
             \/ turn.xminNow <= xidOf'[i]
      BY <2>2, <3>2, <3>3 DEF FetchInv
    <3> QED
      BY <2>2, <3>1, <3>4 DEF FetchInv
  <2> QED
    BY <2>1, <2>2
<1>7. WatchInv'
  <2>1. row.cursor \in Int /\ turn.row.cursor \in Int
    BY EventLogAssumption DEF Row, Turn
  <2>2. Watched(row)'
    BY <1>1, <2>1, WatchStays DEF Watched, WatchInv, LockInv
  <2>3. turn.pc = "delivered" => Watched(turn.row)'
    BY <1>1, <2>1, WatchStays DEF Watched, WatchInv, LockInv
  <2> QED
    BY <2>2, <2>3 DEF WatchInv
<1>8. SettledInv'
  BY DEF SettledInv, SettledIn
<1>9. RowInv'
  <2>1. Committed \subseteq Committed'
    BY <1>1 DEF LogGrows, Committed
  <2> QED
    BY <2>1 DEF RowInv, WellFormed
<1> QED
  BY <1>1, <1>2, <1>3, <1>4, <1>5, <1>6, <1>7, <1>8, <1>9

-----------------------------------------------------------------------------
(* The turn, up to the fetch.                                              *)

(* A nonempty set of numbers up to N contains its Min and its Max.         *)
LEMMA MinMax ==
    ASSUME NEW N \in Nat, NEW T, T \subseteq 0 .. N, T # {}
    PROVE  /\ Min(T) \in T /\ \A x \in T : Min(T) <= x
           /\ Max(T) \in T /\ \A x \in T : x <= Max(T)
<1>1. \E m \in T : \A x \in T : m <= x
  <2>1. T \subseteq Nat
    OBVIOUS
  <2> QED
    BY <2>1, NatMin
<1>2. \E m \in T : \A x \in T : m >= x
  BY BoundedMax
<1> QED
  BY <1>1, <1>2 DEF Min, Max

(* The snapshot's xmin is a lower bound of every open transaction id, the  *)
(* ones above xmax included, and at most the next id to be assigned.       *)
LEMMA XminIsLowerBound ==
    ASSUME LogTypeOK, LogInv
    PROVE  /\ SnapshotXmin \in 0 .. MaxXid + 1
           /\ SnapshotXmin <= nextXid
           /\ \A w \in Writers : openXid[w] # 0 => SnapshotXmin <= openXid[w]
<1> USE EventLogAssumption DEF LogTypeOK, LogInv, SnapshotXmax
<1> DEFINE T == {openXid[w] : w \in {v \in Writers : openXid[v] \in 1 .. doneXid}}
                    \cup {SnapshotXmax}
<1>1. T \subseteq 0 .. MaxXid + 1 /\ T # {} /\ MaxXid + 1 \in Nat
  OBVIOUS
<1>2. Min(T) \in T /\ \A x \in T : Min(T) <= x
  <2> HIDE DEF T
  <2> QED
    BY <1>1, MinMax
<1>3. SnapshotXmin = Min(T)
  BY DEF SnapshotXmin
<1>4. SnapshotXmin <= doneXid + 1
  BY <1>2, <1>3
<1>5. SnapshotXmin \in 0 .. MaxXid + 1
  BY <1>1, <1>2, <1>3
<1>6. ASSUME NEW w \in Writers, openXid[w] # 0 PROVE SnapshotXmin <= openXid[w]
  <2>1. CASE openXid[w] <= doneXid
    <3>1. openXid[w] \in T
      BY <1>6, <2>1
    <3> QED
      BY <1>2, <1>3, <3>1
  <2>2. CASE openXid[w] > doneXid
    BY <1>4, <1>5, <2>2
  <2> QED
    BY <2>1, <2>2
<1> QED
  BY <1>4, <1>5, <1>6

(* A turn that has ended, one way or the other, leaves no trace in turn.   *)
LEMMA NoTurnTyped ==
    /\ NoTurn \in Turn /\ NoTurn.pc = "idle" /\ NoTurn.row.cursor = 0
    /\ NoTurn.pending = {} /\ NoTurn.fresh = {} /\ NewRow \in Row
    /\ NoTurn.row.lastFailed = None
  BY EventLogAssumption, EventDispatcherAssumption DEF NoTurn, Turn, NewRow, Row, None

(* acquireConsumerState: the turn starts from the committed row, or from   *)
(* the row re-armed, with a fresh xmin.                                    *)
LEMMA AcquireKeepsIInv ==
    ASSUME IInv, AcquireConsumerState
    PROVE  IInv'
<1> USE DEF IInv, TypeOK
<1>1. PICK r \in {row, Rearmed(row)} :
         /\ AcquirableRow(r)
         /\ turn' = [NoTurn EXCEPT !.pc = "acquired", !.row = r,
                                   !.xminNow = IF r.gaps # {} THEN SnapshotXmin ELSE 0]
  BY DEF AcquireConsumerState
<1>2. UNCHANGED <<logVars, row, rollbacks, handled, resolved, skipped, held>> /\ turn.pc = "idle"
  BY DEF AcquireConsumerState
<1>3. /\ r \in Row /\ r.cursor = row.cursor /\ r.gaps = row.gaps
      /\ r.lastFailed = row.lastFailed
      /\ r.status = "idle" /\ r.attempts < MaxAttempts
  <2>1. CASE row.status = "idle" /\ r = row
    BY <2>1 DEF BudgetInv
  <2>2. CASE row.rearmCount < MaxRearmCount /\ r = Rearmed(row)
    <3>1. row.rearmCount + 1 \in 0 .. MaxRearmCount /\ 0 \in 0 .. MaxAttempts
      BY <2>2, EventDispatcherAssumption DEF Row
    <3>2. row.cursor \in 0 .. MaxEventId /\ row.gaps \in SUBSET Gap
          /\ row.lastFailed \in 0 .. MaxEventId
      BY DEF Row
    <3>3. r = [cursor |-> row.cursor, gaps |-> row.gaps, status |-> "idle", attempts |-> 0,
               rearmCount |-> row.rearmCount + 1, lastFailed |-> row.lastFailed]
      BY <2>2 DEF Rearmed, Row
    <3>4. r \in Row
      BY <3>1, <3>2, <3>3 DEF Row
    <3> QED
      BY <3>3, <3>4, EventDispatcherAssumption
  <2> QED
    BY <1>1, <2>1, <2>2 DEF AcquirableRow
<1>4. /\ turn'.pc = "acquired" /\ turn'.row = r /\ turn'.pending = {} /\ turn'.fresh = {}
      /\ turn'.xminNow = IF r.gaps # {} THEN SnapshotXmin ELSE 0
  BY <1>1 DEF NoTurn
<1>5. TypeOK'
  <2>1. turn'.xminNow \in 0 .. MaxXid + 1
    BY <1>4, XminIsLowerBound, EventLogAssumption
  <2>2. turn' = [NoTurn EXCEPT !.pc = "acquired", !.row = r, !.xminNow = turn'.xminNow]
    BY <1>1, <1>4
  <2>3. turn' \in Turn
    BY <1>3, <2>1, <2>2, NoTurnTyped DEF Turn
  <2> QED
    BY <1>2, <2>3 DEF logVars, LogTypeOK
<1>6. LogInv'
  BY <1>2 DEF logVars, LogInv, Committed, InFlight
<1>7. BudgetInv' /\ LockInv'
  BY <1>2, <1>3, <1>4 DEF BudgetInv, LockInv, logVars
<1>8. XminInv'
  BY <1>2, <1>3, <1>4, XminIsLowerBound DEF XminInv, logVars
<1>9. FetchInv'
  BY <1>4 DEF FetchInv
<1>10. WatchInv'
  BY <1>2, <1>4 DEF WatchInv, Watched, Overtaken, logVars, Visible, InFlight
<1>11. SettledInv'
  BY <1>2, <1>4 DEF SettledInv, SettledIn
<1>12. RowInv'
  BY <1>2, <1>3, <1>4 DEF RowInv, WellFormed, logVars, Committed
<1> QED
  BY <1>5, <1>6, <1>7, <1>8, <1>9, <1>10, <1>11, <1>12

(* fetchPendingEvents: a visible id of a gap that is not returned lies     *)
(* above everything returned, and the limit is used up.                    *)
LEMMA FetchKeepsIInv ==
    ASSUME IInv, FetchPendingEvents
    PROVE  IInv'
<1> USE DEF IInv, TypeOK
<1> DEFINE S == Visible \cap Covered(turn.row.gaps)
           A == {i \in Visible : i > turn.row.cursor}
<1>1. PICK pending \in SUBSET S, fresh \in SUBSET A :
         /\ IsFirst(pending, S, PendingLimit)
         /\ turn' = [turn EXCEPT !.pc = "fetched", !.pending = pending, !.fresh = fresh]
  BY DEF FetchPendingEvents
<1>2. UNCHANGED <<logVars, row, rollbacks, handled, resolved, skipped, held>>
      /\ turn.pc = "acquired"
  BY DEF FetchPendingEvents
<1>3. /\ turn'.pc = "fetched" /\ turn'.row = turn.row /\ turn'.pending = pending
      /\ turn'.fresh = fresh /\ turn'.xminNow = turn.xminNow
  BY <1>1 DEF Turn
<1>4. S \subseteq EventIds /\ A \subseteq EventIds
  BY DEF Visible
<1>5. TypeOK'
  <2>1. turn' \in Turn
    BY <1>1, <1>4 DEF Turn
  <2> QED
    BY <1>2, <2>1 DEF logVars, LogTypeOK
<1>6. LogInv'
  BY <1>2 DEF logVars, LogInv, Committed, InFlight
<1>7. BudgetInv' /\ LockInv' /\ XminInv'
  BY <1>2, <1>3 DEF BudgetInv, LockInv, XminInv, logVars
<1>8. FetchInv'
  <2>1. ASSUME NEW i \in S, i \notin pending
        PROVE  Cardinality(pending) = PendingLimit /\ \A q \in pending : q < i
    <3>1. Cardinality(pending) = PendingLimit
      BY <1>1, <2>1 DEF IsFirst
    <3>2. ASSUME NEW q \in pending PROVE q < i
      <4>1. q # i /\ ~(i < q)
        BY <1>1, <2>1 DEF IsFirst
      <4> QED
        BY <1>4, <4>1, EventLogAssumption DEF EventIds
    <3> QED
      BY <3>1, <3>2
  <2>2. Visible' = Visible /\ xidOf' = xidOf
    BY <1>2 DEF logVars, Visible
  <2>3. /\ pending \subseteq Committed' \cap Covered(turn.row.gaps)
        /\ fresh \subseteq Committed' /\ \A i \in fresh : i > turn.row.cursor
    BY <1>2 DEF Visible, Committed, logVars
  <2> QED
    BY <1>3, <2>1, <2>2, <2>3 DEF FetchInv
<1>9. WatchInv'
  BY <1>2, <1>3 DEF WatchInv, Watched, Overtaken, logVars, Visible, InFlight
<1>10. SettledInv'
  <2>1. ASSUME NEW i \in pending \cup fresh PROVE i \notin resolved
    <3>1. CASE i \in pending
      BY <1>2, <3>1 DEF SettledInv, SettledIn, LockInv
    <3>2. CASE i \in fresh
      <4>1. i > row.cursor /\ i \in Int /\ row.cursor \in Int
        BY <1>2, <1>4, <3>2, EventLogAssumption DEF LockInv, EventIds, Row
      <4> QED
        BY <4>1 DEF SettledInv, SettledIn
    <3> QED
      BY <3>1, <3>2
  <2> QED
    BY <1>2, <1>3, <2>1 DEF SettledInv, SettledIn
<1>11. RowInv'
  BY <1>2, <1>3 DEF RowInv, WellFormed, logVars, Committed
<1> QED
  BY <1>5, <1>6, <1>7, <1>8, <1>9, <1>10, <1>11

-----------------------------------------------------------------------------
(* The delivery.                                                           *)

OutcomeType ==
    [cursor : 0 .. MaxEventId, attempts : 0 .. MaxAttempts, dead : BOOLEAN,
     processed : SUBSET EventIds, resolved : SUBSET EventIds, failedId : 0 .. MaxEventId,
     held : SUBSET EventIds, backingOff : BOOLEAN]

(* A batch handler whose errors the policy skips: at the gap limit a pass  *)
(* that settled everything by skipping still counts as failed, on the      *)
(* event of an earlier pass, which it may just have settled.               *)
SkipsBatchErrors == HasBatchHandler /\ SkipApplyErrors

(* The event on record after a pass: one it delivered and did not settle,  *)
(* or the one on record before a pass that settled nothing.                *)
StuckOn(o) ==
    \/ /\ o.failedId \in Deliverable \ o.resolved
       /\ o.failedId <= turn.row.cursor \/ o.failedId > o.cursor \/ o.failedId \in o.held
    \/ /\ o.failedId = turn.row.lastFailed
       /\ o.resolved = {} /\ o.cursor = turn.row.cursor

(* Events are settled in order, per tenant if there is a batch handler.    *)
OrderlyOutcome(o) ==
    /\ \A i \in Deliverable, j \in o.resolved :
          i < j /\ (~HasBatchHandler \/ tenantOf[i] = tenantOf[j]) => i \in o.resolved
    /\ ~SkipApplyErrors /\ o.processed = {} => o.resolved = {}
    /\ o.failedId = None => o.held = {}
    /\ o.failedId = None \/ SkipsBatchErrors \/ StuckOn(o)

(* What every kind of delivery pass has in common: the cursor moves onto a *)
(* delivered event or stays, every delivered event it moves over is        *)
(* settled or held, never both, and a failed event was delivered now or    *)
(* before.                                                                 *)
GoodOutcome(o) ==
    /\ o \in OutcomeType
    /\ ~o.dead => o.attempts < MaxAttempts
    /\ o.cursor >= turn.row.cursor
    /\ o.cursor # turn.row.cursor => o.cursor \in Deliverable
    /\ o.resolved \subseteq Deliverable
    /\ o.held \subseteq Deliverable
    /\ o.held \cap o.resolved = {}
    /\ ~HasBatchHandler => o.held = {}
    /\ \A i \in o.resolved \cup o.held : i <= o.cursor
    /\ o.failedId \in Deliverable \cup {None, turn.row.lastFailed}
    /\ \A i \in Deliverable : turn.row.cursor < i /\ i <= o.cursor => i \in o.resolved \cup o.held
    /\ OrderlyOutcome(o)

(* The delivered events are committed, the fresh ones past the cursor.     *)
LEMMA DeliverableCommitted ==
    ASSUME IInv, turn.pc = "fetched"
    PROVE  /\ Deliverable \subseteq Committed
           /\ Deliverable \subseteq 1 .. MaxEventId
           /\ Deliverable \subseteq turn.pending \cup turn.fresh
           /\ \A i \in Deliverable : i \in Covered(turn.row.gaps) \/ i > turn.row.cursor
           /\ turn.row.cursor \in 0 .. MaxEventId
<1> USE DEF IInv, TypeOK
<1>1. Deliverable \subseteq turn.pending \cup turn.fresh
  BY DEF Deliverable
<1>2. /\ turn.pending \subseteq Committed /\ turn.fresh \subseteq Committed
      /\ turn.pending \subseteq Covered(turn.row.gaps)
      /\ \A i \in turn.fresh : i > turn.row.cursor
  BY DEF FetchInv
<1>3. turn.row.cursor \in 0 .. MaxEventId
  BY DEF Turn, Row
<1> QED
  BY <1>1, <1>2, <1>3 DEF Committed, EventIds

(* The cursor never moves back: it is the old one or a delivered event.    *)
LEMMA CursorAfterIsMax ==
    ASSUME IInv, turn.pc = "fetched", NEW S, S \subseteq Deliverable
    PROVE  /\ CursorAfter(S) \in S \cup {turn.row.cursor}
           /\ CursorAfter(S) \in 0 .. MaxEventId
           /\ CursorAfter(S) >= turn.row.cursor
           /\ \A i \in S : i <= CursorAfter(S)
<1> DEFINE T == S \cup {turn.row.cursor}
<1>1. T \subseteq 0 .. MaxEventId /\ T # {} /\ MaxEventId \in Nat
  BY DeliverableCommitted, EventLogAssumption
<1>2. Max(T) \in T /\ \A x \in T : x <= Max(T)
  <2> HIDE DEF T
  <2> QED
    BY <1>1, MinMax
<1>3. CursorAfter(S) = Max(T)
  BY DEF CursorAfter
<1> QED
  BY <1>1, <1>2, <1>3

(* The lowest of a nonempty set of event ids is one of them.               *)
LEMMA MinOfIds ==
    ASSUME NEW T, T \subseteq 1 .. MaxEventId, T # {}
    PROVE  Min(T) \in T /\ Min(T) \in 0 .. MaxEventId
<1>1. T \subseteq 0 .. MaxEventId /\ MaxEventId \in Nat
  BY EventLogAssumption
<1>2. Min(T) \in T
  BY <1>1, MinMax
<1> QED
  BY <1>1, <1>2

(* The row a turn works on, before delivery.                               *)
LEMMA FetchedRow ==
    ASSUME IInv, turn.pc = "fetched"
    PROVE  /\ turn.row.attempts \in 0 .. MaxAttempts
           /\ turn.row.attempts < MaxAttempts
           /\ turn.row.lastFailed \in 0 .. MaxEventId
           /\ turn.row.rearmCount \in 0 .. MaxRearmCount
           /\ turn.row.gaps \subseteq Gap
  BY DEF IInv, TypeOK, BudgetInv, Turn, Row

(* A pass that delivers nothing has a good outcome.                        *)
LEMMA NothingIsGood ==
    ASSUME IInv, turn.pc = "fetched", Deliverable = {}
    PROVE  GoodOutcome(NothingDelivered)
<1>1. NothingDelivered \in OutcomeType
  BY DeliverableCommitted, FetchedRow DEF NothingDelivered, Outcome, OutcomeType
<1> QED
  BY <1>1, DeliverableCommitted, FetchedRow, EventLogAssumption
     DEF GoodOutcome, OrderlyOutcome, StuckOn, NothingDelivered, Outcome

(* A batch the handler applied has a good outcome (outcomeOfAppliedBatch). *)
LEMMA BatchIsGood ==
    ASSUME IInv, turn.pc = "fetched",
           NEW heldIds \in SUBSET Deliverable, NEW backingOff \in BOOLEAN,
           HasBatchHandler,
           \A i \in heldIds, j \in Deliverable :
              i < j /\ tenantOf[i] = tenantOf[j] => j \in heldIds
    PROVE  GoodOutcome(OutcomeOfAppliedBatch(heldIds, backingOff))
<1> DEFINE done == Deliverable \ heldIds
           o == OutcomeOfAppliedBatch(heldIds, backingOff)
           failed == IF heldIds = {} THEN None ELSE Min(heldIds)
           attempts == IF done # {} THEN 0 ELSE turn.row.attempts
<1>1. o = [cursor |-> CursorAfter(Deliverable), attempts |-> attempts, dead |-> FALSE,
           processed |-> done, resolved |-> done, failedId |-> failed,
           held |-> heldIds, backingOff |-> backingOff]
  BY DEF OutcomeOfAppliedBatch, Outcome
<1>2. /\ failed \in 0 .. MaxEventId /\ failed \in Deliverable \cup {None}
      /\ heldIds # {} => failed \in heldIds /\ failed # None
  <2>1. heldIds \subseteq 1 .. MaxEventId
    BY DeliverableCommitted
  <2>2. heldIds # {} => Min(heldIds) \in heldIds /\ Min(heldIds) \in 0 .. MaxEventId
    BY <2>1, MinOfIds
  <2>3. None \notin heldIds
    BY <2>1 DEF None
  <2> QED
    BY <2>2, <2>3, EventLogAssumption DEF None
<1>3. attempts \in 0 .. MaxAttempts /\ attempts < MaxAttempts
  BY FetchedRow, EventDispatcherAssumption
<1>4. /\ CursorAfter(Deliverable) \in Deliverable \cup {turn.row.cursor}
      /\ CursorAfter(Deliverable) \in 0 .. MaxEventId
      /\ CursorAfter(Deliverable) >= turn.row.cursor
      /\ \A i \in Deliverable : i <= CursorAfter(Deliverable)
  BY CursorAfterIsMax
<1>5. done \subseteq EventIds /\ heldIds \subseteq EventIds
  BY DeliverableCommitted DEF EventIds
<1> HIDE DEF o, failed, attempts
<1>6. o \in OutcomeType
  BY <1>1, <1>2, <1>3, <1>4, <1>5 DEF OutcomeType
<1>7. /\ o.cursor = CursorAfter(Deliverable) /\ o.attempts = attempts /\ o.dead = FALSE
      /\ o.resolved = Deliverable \ heldIds /\ o.held = heldIds /\ o.failedId = failed
      /\ o.processed = o.resolved
  BY <1>1
<1>8. heldIds = {} => failed = None
  BY DEF failed
<1>9. OrderlyOutcome(o)
  <2>1. StuckOn(o) \/ failed = None
    BY <1>2, <1>7, <1>8 DEF StuckOn
  <2>2. \A i \in Deliverable, j \in o.resolved :
           i < j /\ (~HasBatchHandler \/ tenantOf[i] = tenantOf[j]) => i \in o.resolved
    BY <1>7
  <2> QED
    BY <1>2, <1>7, <2>1, <2>2 DEF OrderlyOutcome
<1>10. GoodOutcome(o)
  BY <1>2, <1>3, <1>4, <1>6, <1>7, <1>9 DEF GoodOutcome
<1> QED
  BY <1>10 DEF o

(* The per-event loop has a good outcome wherever it stops.                *)
LEMMA LoopIsGood ==
    ASSUME IInv, turn.pc = "fetched",
           NEW done \in SUBSET Deliverable, NEW processed \in SUBSET done, NEW counts \in BOOLEAN,
           \A i \in done, j \in Deliverable : j < i => j \in done,
           ~SkipApplyErrors => processed = done
    PROVE  GoodOutcome(OutcomeOfLoop(done, processed, counts))
<1> DEFINE o == OutcomeOfLoop(done, processed, counts)
           failed == IF done = Deliverable THEN None ELSE Min(Deliverable \ done)
           attempts == (IF done = {} THEN turn.row.attempts ELSE 0) + (IF counts THEN 1 ELSE 0)
           dead == counts /\ attempts >= MaxAttempts
<1>1. o = [cursor |-> CursorAfter(done), attempts |-> attempts, dead |-> dead,
           processed |-> processed, resolved |-> done, failedId |-> failed,
           held |-> {}, backingOff |-> FALSE]
  BY DEF OutcomeOfLoop, Outcome
<1>2. failed \in 0 .. MaxEventId /\ failed \in (Deliverable \ done) \cup {None}
  <2>1. Deliverable \ done \subseteq 1 .. MaxEventId
    BY DeliverableCommitted
  <2> QED
    BY <2>1, MinOfIds, EventLogAssumption DEF None
<1>3. attempts \in 0 .. MaxAttempts /\ (~dead => attempts < MaxAttempts) /\ dead \in BOOLEAN
  BY FetchedRow, EventDispatcherAssumption
<1>4. /\ CursorAfter(done) \in done \cup {turn.row.cursor}
      /\ CursorAfter(done) \in 0 .. MaxEventId
      /\ CursorAfter(done) >= turn.row.cursor
      /\ \A i \in done : i <= CursorAfter(done)
  BY CursorAfterIsMax
<1>5. done \subseteq EventIds /\ processed \subseteq EventIds
  BY DeliverableCommitted DEF EventIds
<1>6. ASSUME NEW i \in Deliverable, turn.row.cursor < i, i <= CursorAfter(done)
      PROVE  i \in done
  <2>1. i \in Int /\ turn.row.cursor \in Int
    BY DeliverableCommitted
  <2>2. CursorAfter(done) \in done
    BY <1>4, <1>6, <2>1
  <2> QED
    BY <1>4, <1>6, <2>1, <2>2
<1> HIDE DEF o, failed, attempts, dead
<1>7. o \in OutcomeType
  BY <1>1, <1>2, <1>3, <1>4, <1>5 DEF OutcomeType
<1>8. /\ o.cursor = CursorAfter(done) /\ o.attempts = attempts /\ o.dead = dead
      /\ o.resolved = done /\ o.held = {} /\ o.failedId = failed /\ o.processed = processed
  BY <1>1
<1>9. OrderlyOutcome(o)
  <2>1. ASSUME failed \in Deliverable \ done, failed > turn.row.cursor
        PROVE  failed > CursorAfter(done)
    <3>1. failed \in Int /\ turn.row.cursor \in Int /\ done \subseteq Int
      BY <2>1, DeliverableCommitted
    <3>2. CursorAfter(done) # turn.row.cursor => CursorAfter(done) \in done
      BY <1>4
    <3>3. ASSUME NEW k \in done PROVE k < failed
      <4>1. ~(failed < k) /\ k # failed
        BY <2>1
      <4> QED
        BY <3>1, <4>1
    <3> QED
      BY <1>4, <2>1, <3>1, <3>2, <3>3
  <2>2. failed \in Deliverable \ done => failed \in Int /\ turn.row.cursor \in Int
    BY DeliverableCommitted
  <2>3. StuckOn(o) \/ failed = None
    BY <1>2, <1>8, <2>1, <2>2 DEF StuckOn
  <2>4. \A i \in Deliverable, j \in o.resolved : i < j => i \in o.resolved
    BY <1>8
  <2> QED
    BY <1>8, <2>3, <2>4 DEF OrderlyOutcome
<1>10. GoodOutcome(o)
  BY <1>2, <1>3, <1>4, <1>6, <1>7, <1>8, <1>9 DEF GoodOutcome
<1> QED
  BY <1>10 DEF o

(* Counting a pass at the gap limit as failed changes only the retry       *)
(* bookkeeping (escalateIntakePausedOutcome).                              *)
LEMMA EscalatedIsGood ==
    ASSUME IInv, turn.pc = "fetched", NEW o, GoodOutcome(o), HasBatchHandler
    PROVE  GoodOutcome(EscalateIntakePausedOutcome(o))
<1> DEFINE e == EscalateIntakePausedOutcome(o)
           failed == IF o.failedId # None THEN o.failedId ELSE turn.row.lastFailed
           dead == turn.row.attempts + 1 >= MaxAttempts
<1>1. CASE o.processed # {} \/ o.backingOff
  BY <1>1 DEF EscalateIntakePausedOutcome
<1>2. CASE ~(o.processed # {} \/ o.backingOff)
  <2>1. e = [o EXCEPT !.attempts = turn.row.attempts + 1, !.failedId = failed, !.dead = dead]
    BY <1>2 DEF EscalateIntakePausedOutcome
  <2>2. /\ turn.row.attempts + 1 \in 0 .. MaxAttempts
        /\ ~dead => turn.row.attempts + 1 < MaxAttempts
        /\ dead \in BOOLEAN
    BY FetchedRow, EventDispatcherAssumption
  <2>3. failed \in 0 .. MaxEventId /\ failed \in Deliverable \cup {None, turn.row.lastFailed}
    BY FetchedRow DEF GoodOutcome, OutcomeType
  <2> HIDE DEF e, failed, dead
  <2>4. /\ e \in OutcomeType /\ e.cursor = o.cursor /\ e.resolved = o.resolved
        /\ e.held = o.held /\ e.dead = dead /\ e.attempts = turn.row.attempts + 1
        /\ e.failedId = failed /\ e.processed = o.processed
    BY <2>1, <2>2, <2>3 DEF GoodOutcome, OutcomeType
  <2>5. ASSUME ~SkipsBatchErrors, o.failedId = None
        PROVE  o.resolved = {} /\ o.cursor = turn.row.cursor
    <3>1. o.resolved = {} /\ o.held = {}
      BY <1>2, <2>5 DEF GoodOutcome, OrderlyOutcome, SkipsBatchErrors
    <3>2. o.cursor \in Int /\ turn.row.cursor \in Int
      BY DeliverableCommitted DEF GoodOutcome, OutcomeType
    <3> QED
      BY <3>1, <3>2 DEF GoodOutcome
  <2>6. failed = None \/ SkipsBatchErrors \/ StuckOn(e)
    <3>1. CASE o.failedId = None
      BY <2>4, <2>5, <3>1 DEF StuckOn, failed
    <3>2. CASE o.failedId # None
      <4>1. failed = o.failedId
        BY <3>2 DEF failed
      <4>2. SkipsBatchErrors \/ StuckOn(o)
        BY <3>2 DEF GoodOutcome, OrderlyOutcome
      <4> QED
        BY <2>4, <4>1, <4>2 DEF StuckOn
    <3> QED
      BY <3>1, <3>2
  <2>7. failed = None => o.failedId = None
    BY DEF failed
  <2>8. OrderlyOutcome(e)
    BY <2>4, <2>6, <2>7 DEF GoodOutcome, OrderlyOutcome
  <2>9. GoodOutcome(e)
    BY <2>2, <2>3, <2>4, <2>8 DEF GoodOutcome
  <2> QED
    BY <2>9 DEF e
<1> QED
  BY <1>1, <1>2

(* The gaps of the row type are the entries of the range lemmas.           *)
LEMMA GapIsEntry ==
    /\ Gap = Entries(MaxEventId, MaxXid + 1)
    /\ MaxEventId \in Nat /\ MaxXid + 1 \in Nat
    /\ EventIds = 1 .. MaxEventId
  BY EventLogAssumption DEF Gap, Entries, EventIds

(* What is kept of the old gaps: no id that was settled, and every other   *)
(* id of a gap that was not burnt, with its bound.                         *)
LEMMA KeptGapsExact ==
    ASSUME IInv, turn.pc = "fetched", NEW o, GoodOutcome(o)
    PROVE  /\ KeptGaps(o) \subseteq Gap
           /\ Covered(KeptGaps(o)) \subseteq Covered(turn.row.gaps) \ o.resolved
           /\ \A g \in Surviving : \A i \in IdsOf(g) \ o.resolved :
                 \E h \in KeptGaps(o) : i \in IdsOf(h) /\ h.xmax = g.xmax
<1>1. Surviving \subseteq turn.row.gaps /\ turn.row.gaps \subseteq Gap
  BY FetchedRow DEF Surviving
<1>2. Surviving \subseteq Entries(MaxEventId, MaxXid + 1)
  BY <1>1, GapIsEntry
<1> DEFINE ids == o.resolved
<1> HIDE DEF ids
<1>3. /\ SubtractIds(Surviving, ids) \subseteq Entries(MaxEventId, MaxXid + 1)
      /\ Covered(SubtractIds(Surviving, ids)) \subseteq Covered(Surviving) \ ids
      /\ \A g \in Surviving : \A i \in IdsOf(g) \ ids :
            \E h \in SubtractIds(Surviving, ids) : i \in IdsOf(h) /\ h.xmax = g.xmax
  BY <1>2, GapIsEntry, SubtractExact
<1>4. Covered(Surviving) \subseteq Covered(turn.row.gaps)
  BY <1>1 DEF Covered
<1> QED
  BY <1>3, <1>4, GapIsEntry DEF KeptGaps, ids

(* The new gaps: exactly the ids the cursor moved over that were not       *)
(* settled, all with the xmax of this moment.                              *)
LEMMA NewGapsExact ==
    ASSUME IInv, turn.pc = "fetched", NEW o, GoodOutcome(o)
    PROVE  /\ NewGaps(o) \subseteq Gap
           /\ Covered(NewGaps(o)) \cap o.resolved = {}
           /\ \A i \in Covered(NewGaps(o)) : i > turn.row.cursor /\ i <= o.cursor
           /\ \A i \in EventIds :
                 turn.row.cursor < i /\ i <= o.cursor /\ i \notin o.resolved =>
                    \E g \in NewGaps(o) : i \in IdsOf(g) /\ g.xmax = SnapshotXmax
<1> DEFINE x == SnapshotXmax
           W == (turn.row.cursor + 1 .. o.cursor) \ Deliverable
           H == {j \in o.held : j > turn.row.cursor}
           hold(i) == [from |-> i, to |-> i, xmax |-> x]
<1>1. x \in 1 .. MaxXid + 1
  BY EventLogAssumption DEF IInv, TypeOK, LogTypeOK, SnapshotXmax
<1>2. turn.row.cursor \in 0 .. MaxEventId /\ o.cursor \in 0 .. MaxEventId
  BY DeliverableCommitted DEF GoodOutcome, OutcomeType
<1>3. W \subseteq 1 .. MaxEventId
  BY <1>2, EventLogAssumption
<1>4. H \subseteq 1 .. MaxEventId /\ H \subseteq Deliverable /\ H \cap o.resolved = {}
  BY DeliverableCommitted DEF GoodOutcome
<1>5. W \cap o.resolved = {} /\ \A i \in W : i > turn.row.cursor /\ i <= o.cursor
  BY <1>2 DEF GoodOutcome
<1>6. NewGaps(o) = GapsFor(W, x) \cup {hold(i) : i \in H}
  BY DEF NewGaps
<1> HIDE DEF W, H, x
<1>7. /\ \A i \in W : \E g \in GapsFor(W, x) : i \in IdsOf(g) /\ g.xmax = x
      /\ \A g \in GapsFor(W, x) :
            /\ g = [from |-> g.from, to |-> g.to, xmax |-> x]
            /\ g.from \in W /\ g.to \in W /\ IdsOf(g) \subseteq W
  BY <1>3, GapIsEntry, GapsForCovers
<1>8. ASSUME NEW i \in H
      PROVE  hold(i) \in Gap /\ IdsOf(hold(i)) = {i}
  <2>1. i \in 1 .. MaxEventId
    BY <1>4
  <2> QED
    BY <1>1, <2>1 DEF Gap, IdsOf, EventIds
<1>9. ASSUME NEW g \in GapsFor(W, x) PROVE g \in Gap
  BY <1>1, <1>3, <1>7 DEF Gap, EventIds
<1>10. NewGaps(o) \subseteq Gap
  BY <1>6, <1>8, <1>9
<1>11. Covered(NewGaps(o)) \subseteq W \cup H
  <2> SUFFICES ASSUME NEW g \in NewGaps(o) PROVE IdsOf(g) \subseteq W \cup H
    BY DEF Covered
  <2> QED
    BY <1>6, <1>7, <1>8
<1>12. ASSUME NEW i \in EventIds, turn.row.cursor < i, i <= o.cursor, i \notin o.resolved
       PROVE  \E g \in NewGaps(o) : i \in IdsOf(g) /\ g.xmax = x
  <2>1. CASE i \in Deliverable
    <3>1. i \in H
      BY <1>12, <2>1 DEF GoodOutcome, H
    <3>2. hold(i) \in NewGaps(o)
      BY <1>6, <3>1
    <3>3. i \in IdsOf(hold(i)) /\ hold(i).xmax = x
      BY <1>8, <3>1
    <3> QED
      BY <3>2, <3>3
  <2>2. CASE i \notin Deliverable
    <3>1. i \in W
      BY <1>2, <1>12, <2>2 DEF W, EventIds
    <3> QED
      BY <1>6, <1>7, <3>1
  <2> QED
    BY <2>1, <2>2
<1>13. \A i \in H : i > turn.row.cursor /\ i <= o.cursor
  BY DEF H, GoodOutcome
<1> QED
  BY <1>4, <1>5, <1>10, <1>11, <1>12, <1>13 DEF x

(* The heart of it: a gap is burnt only when no id in it is still to come. *)
(* An in-flight id has an open transaction, at or past xminNow; a visible  *)
(* one was fetched, or cut off above everything fetched, or committed      *)
(* after the fetch.  Each contradicts one conjunct of IsBurnt.             *)
LEMMA BurntHidesNothing ==
    ASSUME IInv, turn.pc = "fetched",
           NEW g \in turn.row.gaps, NEW i \in IdsOf(g),
           i \in InFlight \cup Visible, xidOf[i] < g.xmax
    PROVE  g \in Surviving
<1> USE DEF IInv, TypeOK
<1>1. SUFFICES ASSUME g \in Burnt PROVE FALSE
  BY DEF Surviving
<1>2. IsBurnt(g, turn.pending, Cardinality(turn.pending) = PendingLimit, turn.xminNow)
  BY <1>1 DEF Burnt, BurntGaps
<1>3. /\ IdsOf(g) \cap turn.pending = {}
      /\ Cardinality(turn.pending) = PendingLimit => \E id \in turn.pending : g.to < id
      /\ g.xmax <= turn.xminNow
  BY <1>2 DEF IsBurnt, IsRangeFullyCoveredByFetch
<1>4. /\ g.xmax \in Int /\ turn.xminNow \in Int /\ g.to \in Int /\ g.from \in Int
      /\ i \in EventIds /\ xidOf[i] \in Int /\ i \in Int /\ i <= g.to
  <2>1. g \in Gap /\ turn.xminNow \in 0 .. MaxXid + 1
    BY FetchedRow DEF Turn
  <2>2. g.xmax \in Int /\ turn.xminNow \in Int /\ g.to \in Int /\ g.from \in Int
    BY <2>1, EventLogAssumption DEF Gap, EventIds
  <2>3. i \in EventIds
    BY DEF InFlight, Visible
  <2>4. xidOf[i] \in Int /\ i \in Int
    BY <2>3, EventLogAssumption DEF LogTypeOK, EventIds
  <2>5. i <= g.to
    BY <2>2 DEF IdsOf
  <2> QED
    BY <2>2, <2>3, <2>4, <2>5
<1>5. CASE i \in InFlight
  <2>1. PICK w \in Writers : openXid[w] # 0 /\ openXid[w] = xidOf[i]
    BY <1>5 DEF LogInv
  <2>2. turn.xminNow <= xidOf[i]
    BY <2>1 DEF XminInv
  <2> QED
    BY <1>3, <1>4, <2>2
<1>6. CASE i \in Visible
  <2>1. i \in Covered(turn.row.gaps)
    BY DEF Covered
  <2>2. \/ i \in turn.pending
        \/ /\ Cardinality(turn.pending) = PendingLimit
           /\ \A q \in turn.pending : q < i
        \/ turn.xminNow <= xidOf[i]
    BY <1>6, <2>1 DEF FetchInv
  <2>3. CASE i \in turn.pending
    BY <1>3, <2>3
  <2>4. CASE Cardinality(turn.pending) = PendingLimit /\ \A q \in turn.pending : q < i
    <3>1. PICK id \in turn.pending : g.to < id
      BY <1>3, <2>4
    <3>2. id \in Int
      BY EventLogAssumption DEF Turn, EventIds
    <3> QED
      BY <1>4, <2>4, <3>1, <3>2
  <2>5. CASE turn.xminNow <= xidOf[i]
    BY <1>3, <1>4, <2>5
  <2> QED
    BY <2>2, <2>3, <2>4, <2>5
<1> QED
  BY <1>5, <1>6

(* The row a delivery pass is about to write is well typed, still watches  *)
(* every id nobody has handled, and watches nothing that is settled.       *)
LEMMA RowAfterIsGood ==
    ASSUME IInv, turn.pc = "fetched", NEW o, GoodOutcome(o)
    PROVE  /\ RowAfter(o) \in Row
           /\ RowAfter(o).status = "idle" => RowAfter(o).attempts < MaxAttempts
           /\ RowAfter(o).cursor < nextId
           /\ \A i \in EventIds :
                 /\ i <= RowAfter(o).cursor
                 /\ i \in InFlight \cup Visible
                 /\ i \notin (handled \cup o.resolved) \cup skipped
                 => \/ Overtaken(i)
                    \/ \E g \in RowAfter(o).gaps : i \in IdsOf(g) /\ xidOf[i] < g.xmax
           /\ SettledIn(RowAfter(o), resolved \cup o.resolved)
           /\ WellFormed(RowAfter(o))
           /\ RowAfter(o).lastFailed # None => RowAfter(o).lastFailed \in Committed
           /\ RowAfter(o).cursor >= row.cursor
           /\ Covered(RowAfter(o).gaps) \cap 1 .. row.cursor \subseteq Covered(row.gaps)
<1> DEFINE r == RowAfter(o)
           G == KeptGaps(o) \cup NewGaps(o)
           M == MergeContiguousGapRanges(G)
           c == turn.row.cursor
<1> USE DEF IInv, TypeOK
<1>1. /\ r.cursor = o.cursor /\ r.gaps = M /\ r.attempts = o.attempts
      /\ r.lastFailed = o.failedId
      /\ r.status = IF o.dead THEN "dead" ELSE "idle"
  BY DEF RowAfter
<1>2. G \subseteq Entries(MaxEventId, MaxXid + 1)
  BY KeptGapsExact, NewGapsExact, GapIsEntry
<1>3. /\ M \subseteq Gap
      /\ Covered(M) \subseteq Covered(G)
      /\ \A g \in G : \A i \in IdsOf(g) : \E m \in M : i \in IdsOf(m) /\ g.xmax <= m.xmax
  <2> HIDE DEF G
  <2> QED
    BY <1>2, GapIsEntry, MergeSafe
<1>4. Covered(G) = Covered(KeptGaps(o)) \cup Covered(NewGaps(o))
  BY DEF Covered
<1>5. /\ c = row.cursor /\ turn.row.gaps = row.gaps /\ c \in 0 .. MaxEventId
      /\ o.cursor \in 0 .. MaxEventId /\ o.cursor >= c /\ c \in Int /\ o.cursor \in Int
  BY DeliverableCommitted, EventLogAssumption DEF LockInv, GoodOutcome, OutcomeType
<1>6. r \in Row
  <2>1. /\ o.attempts \in 0 .. MaxAttempts /\ o.failedId \in 0 .. MaxEventId
        /\ turn.row.rearmCount \in 0 .. MaxRearmCount /\ 0 \in 0 .. MaxRearmCount
    BY FetchedRow, EventDispatcherAssumption DEF GoodOutcome, OutcomeType
  <2> HIDE DEF M
  <2>2. M \in SUBSET Gap
    BY <1>3
  <2>3. r = [cursor |-> o.cursor, gaps |-> M, status |-> IF o.dead THEN "dead" ELSE "idle",
             attempts |-> o.attempts,
             rearmCount |-> IF o.processed # {} THEN 0 ELSE turn.row.rearmCount,
             lastFailed |-> o.failedId]
    BY DEF RowAfter, M
  <2> QED
    BY <1>5, <2>1, <2>2, <2>3 DEF Row
<1>7. r.status = "idle" => r.attempts < MaxAttempts
  BY <1>1 DEF GoodOutcome
<1>8. r.cursor < nextId
  <2>1. CASE o.cursor = c
    BY <1>1, <2>1 DEF LockInv
  <2>2. CASE o.cursor # c
    <3>1. o.cursor \in Committed
      BY <2>2, DeliverableCommitted DEF GoodOutcome
    <3> QED
      BY <1>1, <3>1 DEF LogInv, Committed
  <2> QED
    BY <2>1, <2>2
<1>9. ASSUME NEW i \in EventIds, i <= o.cursor, i \in InFlight \cup Visible,
             i \notin handled \cup skipped, i \notin o.resolved, ~Overtaken(i)
      PROVE  \E g \in M : i \in IdsOf(g) /\ xidOf[i] < g.xmax
  <2>0. xidOf[i] \in Int /\ i \in Int
    BY EventLogAssumption DEF LogTypeOK, EventIds
  <2>1. PICK g \in G : i \in IdsOf(g) /\ xidOf[i] < g.xmax
    <3>1. CASE i <= c
      <4>1. PICK g \in row.gaps : i \in IdsOf(g) /\ xidOf[i] < g.xmax
        BY <1>5, <1>9, <3>1 DEF WatchInv, Watched
      <4>2. g \in Surviving
        BY <1>5, <1>9, <4>1, BurntHidesNothing
      <4>3. PICK h \in KeptGaps(o) : i \in IdsOf(h) /\ h.xmax = g.xmax
        BY <1>9, <4>1, <4>2, KeptGapsExact
      <4> QED
        BY <4>1, <4>3
    <3>2. CASE i > c
      <4>1. PICK g \in NewGaps(o) : i \in IdsOf(g) /\ g.xmax = SnapshotXmax
        BY <1>9, <3>2, NewGapsExact
      <4>2. xidOf[i] <= doneXid
        <5>1. o.cursor \in Committed /\ o.cursor \in EventIds
          BY <1>5, <1>9, <2>0, <3>2, DeliverableCommitted DEF GoodOutcome, Committed
        <5>2. xidOf[o.cursor] <= doneXid /\ xidOf[o.cursor] \in Int /\ doneXid \in Int
          BY <5>1, EventLogAssumption DEF LogInv, LogTypeOK
        <5>3. CASE i = o.cursor
          BY <5>2, <5>3
        <5>4. CASE i < o.cursor
          <6>1. ~(xidOf[o.cursor] < xidOf[i])
            BY <1>9, <5>1, <5>4 DEF Overtaken, Committed
          <6> QED
            BY <2>0, <5>2, <6>1
        <5> QED
          BY <1>5, <1>9, <2>0, <5>3, <5>4
      <4> QED
        BY <2>0, <4>1, <4>2, EventLogAssumption DEF SnapshotXmax, LogTypeOK
    <3> QED
      BY <1>5, <2>0, <3>1, <3>2
  <2>2. PICK m \in M : i \in IdsOf(m) /\ g.xmax <= m.xmax
    BY <1>3, <2>1
  <2>3. g.xmax \in Int /\ m.xmax \in Int
    <3> HIDE DEF M, G
    <3>1. g \in Gap /\ m \in Gap
      BY <1>2, <1>3, GapIsEntry
    <3> QED
      BY <3>1, EventLogAssumption DEF Gap
  <2> QED
    BY <2>0, <2>1, <2>2, <2>3
<1>10. SettledIn(r, resolved \cup o.resolved)
  <2>1. ASSUME NEW i \in resolved \cup o.resolved PROVE i <= o.cursor /\ i \notin Covered(M)
    <3>1. CASE i \in o.resolved
      BY <1>3, <1>4, <3>1, KeptGapsExact, NewGapsExact DEF GoodOutcome
    <3>2. CASE i \in resolved
      <4>1. i <= c /\ i \notin Covered(turn.row.gaps) /\ i \in Int
        BY <1>5, <3>2, EventLogAssumption DEF SettledInv, SettledIn, EventIds
      <4>2. i \notin Covered(KeptGaps(o)) /\ i \notin Covered(NewGaps(o))
        BY <1>5, <4>1, KeptGapsExact, NewGapsExact
      <4>3. i <= o.cursor
        BY <1>5, <4>1
      <4> HIDE DEF M, G
      <4>4. i \notin Covered(M)
        BY <1>3, <1>4, <4>2
      <4> QED
        BY <4>3, <4>4
    <3> QED
      BY <3>1, <3>2
  <2> QED
    BY <1>1, <2>1 DEF SettledIn
<1>11. Covered(r.gaps) \cap 1 .. row.cursor \subseteq Covered(row.gaps)
  <2> SUFFICES ASSUME NEW i \in Covered(M), i \in 1 .. row.cursor
               PROVE  i \in Covered(row.gaps)
    BY <1>1
  <2>1. i \in Covered(KeptGaps(o)) \/ i \in Covered(NewGaps(o))
    BY <1>3, <1>4
  <2>2. i \notin Covered(NewGaps(o))
    BY <1>5, NewGapsExact
  <2> QED
    BY <1>5, <2>1, <2>2, KeptGapsExact
<1>12. r.lastFailed # None => r.lastFailed \in Committed
  BY <1>1, DeliverableCommitted DEF GoodOutcome, RowInv
<1>13. WellFormed(r)
  <2>1. ASSUME NEW i \in Covered(G) PROVE i <= o.cursor
    <3>1. CASE i \in Covered(NewGaps(o))
      BY <3>1, NewGapsExact
    <3>2. CASE i \in Covered(KeptGaps(o))
      <4>1. i \in Covered(row.gaps)
        BY <1>5, <3>2, KeptGapsExact
      <4>2. PICK g \in row.gaps : i \in IdsOf(g)
        BY <4>1 DEF Covered
      <4>3. g.to <= row.cursor /\ g \in Gap
        BY DEF RowInv, WellFormed, Row
      <4>4. g.from \in Int /\ g.to \in Int
        BY <4>3, EventLogAssumption DEF Gap, EventIds
      <4>5. i <= g.to /\ i \in Int
        BY <4>2, <4>4 DEF IdsOf
      <4> QED
        BY <1>5, <4>3, <4>4, <4>5
    <3> QED
      BY <1>4, <2>1, <3>1, <3>2
  <2>2. /\ \A m \in M : m.from <= m.to /\ m.to \in Covered(G)
        /\ \A m, n \in M : m # n => m.to + 1 < n.from \/ n.to + 1 < m.from
    <3> HIDE DEF G
    <3> QED
      BY <1>2, GapIsEntry, MergeSeparates
  <2> HIDE DEF M, G
  <2> QED
    BY <1>1, <2>1, <2>2 DEF WellFormed
<1> HIDE DEF r, M
<1> QED
  BY <1>1, <1>5, <1>6, <1>7, <1>8, <1>9, <1>10, <1>11, <1>12, <1>13 DEF r

(* The ids of well-formed ranges are at or below the cursor.               *)
LEMMA CoveredBelowCursor ==
    ASSUME NEW r \in Row, WellFormed(r), NEW i \in Covered(r.gaps)
    PROVE  i \in EventIds /\ i \in Int /\ i <= r.cursor
<1>1. PICK g \in r.gaps : i \in IdsOf(g)
  BY DEF Covered
<1>2. r.gaps \subseteq Gap /\ r.cursor \in 0 .. MaxEventId /\ g.to <= r.cursor
  BY DEF Row, WellFormed
<1>3. g.from \in EventIds /\ g.to \in EventIds
  BY <1>2 DEF Gap
<1>4. /\ MaxEventId \in Int /\ r.cursor \in Int /\ g.from \in Int /\ g.to \in Int
      /\ 1 <= g.from /\ g.to <= MaxEventId
  BY <1>2, <1>3, EventLogAssumption DEF EventIds
<1>5. i \in Int /\ g.from <= i /\ i <= g.to
  BY <1>1, <1>4 DEF IdsOf
<1>6. i \in EventIds
  BY <1>4, <1>5 DEF EventIds
<1> QED
  BY <1>2, <1>4, <1>5, <1>6

(* At the gap limit only pending events are delivered: the cursor stays,   *)
(* and so no id becomes pending.                                           *)
LEMMA PausedTakesNothing ==
    ASSUME IInv, turn.pc = "fetched", IntakePaused, NEW o, GoodOutcome(o)
    PROVE  /\ RowAfter(o).cursor = turn.row.cursor
           /\ Covered(RowAfter(o).gaps) \subseteq Covered(turn.row.gaps)
<1> DEFINE G == KeptGaps(o) \cup NewGaps(o)
           M == MergeContiguousGapRanges(G)
           c == turn.row.cursor
<1>1. ASSUME NEW i \in Deliverable PROVE i <= c
  <2>1. i \in Covered(row.gaps) /\ c = row.cursor
    BY DEF Deliverable, IInv, FetchInv, LockInv
  <2> QED
    BY <2>1, CoveredBelowCursor DEF IInv, TypeOK, RowInv
<1>2. o.cursor \in Int /\ c \in Int
  BY DeliverableCommitted DEF GoodOutcome, OutcomeType
<1>3. o.cursor = c
  BY <1>1, <1>2 DEF GoodOutcome
<1>4. Covered(NewGaps(o)) = {}
  <2>1. NewGaps(o) \subseteq Gap /\ \A i \in Covered(NewGaps(o)) : i > c /\ i <= o.cursor
    BY NewGapsExact
  <2>2. Covered(NewGaps(o)) \subseteq 1 .. MaxEventId
    <3> DEFINE N == NewGaps(o)
    <3>1. N \subseteq Entries(MaxEventId, MaxXid + 1)
      BY <2>1, GapIsEntry
    <3> HIDE DEF N
    <3>2. Covered(N) \subseteq 1 .. MaxEventId
      BY <3>1, GapIsEntry, CoveredIsIds
    <3> QED
      BY <3>2 DEF N
  <2>3. ASSUME NEW i \in Covered(NewGaps(o)) PROVE FALSE
    <3>1. i \in Int /\ i > c /\ i <= o.cursor
      BY <2>1, <2>2
    <3> QED
      BY <1>2, <1>3, <3>1
  <2> QED
    BY <2>3
<1>5. Covered(G) = Covered(KeptGaps(o)) \cup Covered(NewGaps(o))
  BY DEF Covered
<1>6. G \subseteq Entries(MaxEventId, MaxXid + 1)
  BY KeptGapsExact, NewGapsExact, GapIsEntry
<1>7. Covered(M) \subseteq Covered(G)
  <2> HIDE DEF G
  <2> QED
    BY <1>6, GapIsEntry, MergeSafe
<1>8. RowAfter(o).cursor = o.cursor /\ RowAfter(o).gaps = M
  BY DEF RowAfter
<1> HIDE DEF M, G
<1> QED
  BY <1>3, <1>4, <1>5, <1>7, <1>8, KeptGapsExact

(* What a delivery with outcome o does.                                    *)
DeliversTo(o) ==
    /\ turn.pc = "fetched"
    /\ handled' = handled \cup o.resolved
    /\ turn' = [turn EXCEPT !.pc = "delivered", !.row = RowAfter(o),
                            !.resolved = o.resolved, !.held = o.held]
    /\ UNCHANGED <<logVars, row, rollbacks, resolved, skipped, held>>

(* deliverConsumerTurn: handlers run, in whatever way, with a good outcome *)
LEMMA DeliveryHasOutcome ==
    ASSUME IInv, DeliverNothing \/ DeliverBatch \/ DeliverOneByOne
    PROVE  \E o : GoodOutcome(o) /\ DeliversTo(o)
<1>1. PICK d : turn.pc = "fetched" /\ GoodOutcome(d) /\ DeliverConsumerTurn(d)
  <2>1. turn.pc = "fetched"
    BY DEF DeliverNothing, DeliverBatch, DeliverOneByOne, DeliverConsumerTurn
  <2>2. CASE DeliverNothing
    BY <2>1, <2>2, NothingIsGood DEF DeliverNothing
  <2>3. CASE DeliverBatch
    <3>1. PICK heldIds \in SUBSET Deliverable, backingOff \in BOOLEAN :
             /\ \A i \in heldIds, j \in Deliverable :
                   i < j /\ tenantOf[i] = tenantOf[j] => j \in heldIds
             /\ DeliverConsumerTurn(OutcomeOfAppliedBatch(heldIds, backingOff))
      BY <2>3 DEF DeliverBatch
    <3>2. GoodOutcome(OutcomeOfAppliedBatch(heldIds, backingOff))
      BY <2>1, <2>3, <3>1, BatchIsGood DEF DeliverBatch
    <3> QED
      BY <2>1, <3>1, <3>2
  <2>4. CASE DeliverOneByOne
    <3>1. PICK done \in SUBSET Deliverable, processed \in SUBSET Deliverable, counts \in BOOLEAN :
             /\ \A i \in done, j \in Deliverable : j < i => j \in done
             /\ processed \subseteq done
             /\ ~SkipApplyErrors => processed = done
             /\ DeliverConsumerTurn(OutcomeOfLoop(done, processed, counts))
      BY <2>4 DEF DeliverOneByOne
    <3>2. processed \in SUBSET done
      BY <3>1
    <3>3. GoodOutcome(OutcomeOfLoop(done, processed, counts))
      BY <2>1, <3>1, <3>2, LoopIsGood
    <3> QED
      BY <2>1, <3>1, <3>3
  <2> QED
    BY <2>2, <2>3, <2>4
<1>2. CASE IntakePaused
  <2>1. GoodOutcome(EscalateIntakePausedOutcome(d))
    BY <1>1, <1>2, EscalatedIsGood DEF IntakePaused
  <2> QED
    BY <1>1, <1>2, <2>1 DEF DeliverConsumerTurn, DeliversTo
<1>3. CASE ~IntakePaused
  BY <1>1, <1>3 DEF DeliverConsumerTurn, DeliversTo
<1> QED
  BY <1>2, <1>3

(* A delivery keeps the invariant: the row to be written is good.          *)
LEMMA DeliverKeepsIInv ==
    ASSUME IInv, DeliverNothing \/ DeliverBatch \/ DeliverOneByOne
    PROVE  IInv'
<1> USE DEF IInv, TypeOK
<1>1. PICK o : GoodOutcome(o) /\ DeliversTo(o)
  BY DeliveryHasOutcome
<1>2. /\ turn.pc = "fetched" /\ handled' = handled \cup o.resolved
      /\ turn' = [turn EXCEPT !.pc = "delivered", !.row = RowAfter(o),
                              !.resolved = o.resolved, !.held = o.held]
      /\ UNCHANGED <<logVars, row, rollbacks, resolved, skipped, held>>
  BY <1>1 DEF DeliversTo
<1> DEFINE r == RowAfter(o)
<1>3. /\ r \in Row
      /\ r.status = "idle" => r.attempts < MaxAttempts
      /\ r.cursor < nextId
      /\ \A i \in EventIds :
            i <= r.cursor /\ i \in InFlight \cup Visible
               /\ i \notin (handled \cup o.resolved) \cup skipped
               => \/ Overtaken(i)
                  \/ \E g \in r.gaps : i \in IdsOf(g) /\ xidOf[i] < g.xmax
      /\ SettledIn(r, resolved \cup o.resolved)
      /\ WellFormed(r)
      /\ r.lastFailed # None => r.lastFailed \in Committed
      /\ r.cursor >= row.cursor
      /\ Covered(r.gaps) \cap 1 .. row.cursor \subseteq Covered(row.gaps)
  BY <1>1, <1>2, RowAfterIsGood
<1> HIDE DEF r
<1>4. /\ turn'.pc = "delivered" /\ turn'.row = r /\ turn'.resolved = o.resolved
      /\ turn'.pending = turn.pending /\ turn'.fresh = turn.fresh
  BY <1>2 DEF Turn, r
<1>5. o.resolved \subseteq EventIds /\ o.held \subseteq EventIds
  BY <1>1 DEF GoodOutcome, OutcomeType
<1>6. /\ Visible' = Visible /\ InFlight' = InFlight /\ Committed' = Committed
      /\ xidOf' = xidOf /\ rowState' = rowState /\ nextId' = nextId
  BY <1>2 DEF logVars, Visible, InFlight, Committed
<1>7. TypeOK'
  <2>1. turn' \in Turn
    BY <1>2, <1>3, <1>5 DEF Turn, r
  <2> QED
    BY <1>2, <1>5, <2>1 DEF logVars, LogTypeOK
<1>8. LogInv'
  BY <1>2, <1>6 DEF logVars, LogInv
<1>9. BudgetInv' /\ LockInv' /\ XminInv' /\ FetchInv'
  BY <1>2, <1>3, <1>4, <1>6 DEF BudgetInv, LockInv, XminInv, FetchInv
<1>10. WatchInv'
  <2>1. Watched(row)'
    BY <1>2, <1>6 DEF WatchInv, Watched, Overtaken
  <2>2. Watched(turn.row)'
    BY <1>2, <1>3, <1>4, <1>6 DEF Watched, Overtaken
  <2> QED
    BY <2>1, <2>2 DEF WatchInv
<1>11. SettledInv'
  BY <1>2, <1>3, <1>4 DEF SettledInv, SettledIn
<1>12. RowInv'
  BY <1>2, <1>3, <1>4, <1>6 DEF RowInv, WellFormed
<1> QED
  BY <1>7, <1>8, <1>9, <1>10, <1>11, <1>12

-----------------------------------------------------------------------------
(* The end of a turn.                                                      *)

(* A turn that ends leaves the committed row with what the invariant says  *)
(* of a row; the three ways to end differ in the row they commit.          *)
LEMMA TurnEnds ==
    ASSUME IInv, turn' = NoTurn, UNCHANGED logVars,
           handled' \subseteq EventIds, skipped' \subseteq EventIds,
           row' \in Row, rollbacks' \in 0 .. MaxRollbacks,
           held' \subseteq EventIds, resolved' \subseteq EventIds,
           row'.status = "idle" => row'.attempts < MaxAttempts,
           row'.cursor < nextId,
           SettledIn(row', resolved'),
           WellFormed(row'),
           row'.lastFailed # None => row'.lastFailed \in Committed,
           \A i \in EventIds :
              i <= row'.cursor /\ i \in InFlight \cup Visible /\ i \notin handled' \cup skipped'
                 => \/ Overtaken(i)
                    \/ \E g \in row'.gaps : i \in IdsOf(g) /\ xidOf[i] < g.xmax
    PROVE  IInv'
<1> USE DEF IInv, TypeOK
<1>1. /\ turn' \in Turn /\ turn'.pc = "idle" /\ turn'.row.cursor = 0
      /\ turn'.row.lastFailed = None /\ turn'.pending = {} /\ turn'.fresh = {}
  BY NoTurnTyped
<1>2. /\ Visible' = Visible /\ InFlight' = InFlight /\ Committed' = Committed
      /\ xidOf' = xidOf /\ rowState' = rowState /\ nextId' = nextId
  BY DEF logVars, Visible, InFlight, Committed
<1>3. TypeOK'
  BY <1>1 DEF logVars, LogTypeOK
<1>4. LogInv'
  BY <1>2 DEF logVars, LogInv
<1>5. BudgetInv' /\ XminInv' /\ FetchInv'
  BY <1>1 DEF BudgetInv, XminInv, FetchInv
<1>6. LockInv'
  BY <1>1, <1>2, EventLogAssumption DEF LockInv, LogTypeOK
<1>7. WatchInv'
  BY <1>1, <1>2 DEF WatchInv, Watched, Overtaken
<1>8. SettledInv'
  BY <1>1 DEF SettledInv, SettledIn
<1>9. RowInv'
  BY <1>1, <1>2 DEF RowInv, WellFormed
<1> QED
  BY <1>3, <1>4, <1>5, <1>6, <1>7, <1>8, <1>9

(* A turn that found nothing commits the row it acquired.                  *)
LEMMA NothingToDoKeepsIInv ==
    ASSUME IInv, NothingToDo
    PROVE  IInv'
<1> USE DEF IInv, TypeOK
<1>1. /\ turn.pc = "fetched" /\ row' = turn.row /\ turn' = NoTurn
      /\ UNCHANGED <<logVars, rollbacks, handled, resolved, skipped, held>>
  BY DEF NothingToDo
<1>2. /\ row' \in Row /\ row'.cursor = row.cursor /\ row'.gaps = row.gaps
      /\ row'.lastFailed = row.lastFailed
  BY <1>1 DEF Turn, LockInv
<1>3. row'.status = "idle" => row'.attempts < MaxAttempts
  BY <1>1 DEF BudgetInv
<1>4. row'.cursor < nextId /\ SettledIn(row', resolved')
  BY <1>1, <1>2 DEF LockInv, SettledInv, SettledIn
<1>5. \A i \in EventIds :
         i <= row'.cursor /\ i \in InFlight \cup Visible /\ i \notin handled \cup skipped
            => \/ Overtaken(i)
               \/ \E g \in row'.gaps : i \in IdsOf(g) /\ xidOf[i] < g.xmax
  BY <1>2 DEF WatchInv, Watched
<1>6. WellFormed(row') /\ (row'.lastFailed # None => row'.lastFailed \in Committed)
  BY <1>2 DEF RowInv, WellFormed
<1> QED
  BY <1>1, <1>2, <1>3, <1>4, <1>5, <1>6, TurnEnds

(* persistConsumerOutcome and the commit: the prepared row becomes the     *)
(* consumer's row.                                                         *)
LEMMA PersistKeepsIInv ==
    ASSUME IInv, PersistConsumerOutcome
    PROVE  IInv'
<1> USE DEF IInv, TypeOK
<1>1. /\ turn.pc = "delivered" /\ row' = turn.row /\ turn' = NoTurn
      /\ resolved' = resolved \cup turn.resolved
      /\ held' = (held \ turn.resolved) \cup turn.held
      /\ UNCHANGED <<logVars, rollbacks, handled, skipped>>
  BY DEF PersistConsumerOutcome
<1>2. row' \in Row /\ held' \subseteq EventIds /\ resolved' \subseteq EventIds
  BY <1>1 DEF Turn
<1>3. row'.status = "idle" => row'.attempts < MaxAttempts
  BY <1>1 DEF BudgetInv
<1>4. row'.cursor < nextId /\ SettledIn(row', resolved')
  BY <1>1 DEF LockInv, SettledInv
<1>5. \A i \in EventIds :
         i <= row'.cursor /\ i \in InFlight \cup Visible /\ i \notin handled \cup skipped
            => \/ Overtaken(i)
               \/ \E g \in row'.gaps : i \in IdsOf(g) /\ xidOf[i] < g.xmax
  BY <1>1 DEF WatchInv, Watched
<1>6. WellFormed(row') /\ (row'.lastFailed # None => row'.lastFailed \in Committed)
  BY <1>1 DEF RowInv, WellFormed
<1> QED
  BY <1>1, <1>2, <1>3, <1>4, <1>5, <1>6, TurnEnds

(* A crash or lost connection leaves the row as it was committed last.     *)
LEMMA RollBackKeepsIInv ==
    ASSUME IInv, RollBackTurn
    PROVE  IInv'
<1> USE DEF IInv, TypeOK
<1>1. /\ rollbacks < MaxRollbacks /\ rollbacks' = rollbacks + 1 /\ turn' = NoTurn
      /\ UNCHANGED <<logVars, row, handled, resolved, skipped, held>>
  BY DEF RollBackTurn
<1>2. rollbacks' \in 0 .. MaxRollbacks
  BY <1>1, EventDispatcherAssumption
<1>3. row'.status = "idle" => row'.attempts < MaxAttempts
  BY <1>1 DEF BudgetInv
<1>4. row'.cursor < nextId /\ SettledIn(row', resolved')
  BY <1>1 DEF LockInv, SettledInv
<1>5. \A i \in EventIds :
         i <= row'.cursor /\ i \in InFlight \cup Visible /\ i \notin handled \cup skipped
            => \/ Overtaken(i)
               \/ \E g \in row'.gaps : i \in IdsOf(g) /\ xidOf[i] < g.xmax
  BY <1>1 DEF WatchInv, Watched
<1>6. WellFormed(row') /\ (row'.lastFailed # None => row'.lastFailed \in Committed)
  BY <1>1 DEF RowInv, WellFormed
<1> QED
  BY <1>1, <1>2, <1>3, <1>4, <1>5, <1>6, TurnEnds

-----------------------------------------------------------------------------
(* The events on record: the failed one, and those a batch handler holds.  *)
(* They were committed before the turn that works on them began, so unlike *)
(* the other ids of a gap they cannot become visible after the fetch.      *)

(* The turn has i in hand, or the limit of the pending fetch cut it off.   *)
InHandOrCutOff(i) ==
    \/ i \in turn.pending
    \/ Cardinality(turn.pending) = PendingLimit /\ \A p \in turn.pending : p < i

(* How the fetch treats an event on record; and a per-event consumer with  *)
(* a full page of pending rows takes no new ones.                          *)
KnownInv ==
    turn.pc = "fetched" =>
       /\ \A i \in held \cup {turn.row.lastFailed} : i \in Visible =>
             /\ i \in Covered(turn.row.gaps) => InHandOrCutOff(i)
             /\ \A j \in turn.fresh : turn.row.cursor < i /\ i < j => i \in turn.fresh
       /\ Cardinality(turn.pending) = PendingLimit /\ ~HasBatchHandler => turn.fresh = {}

(* A held event stays in a gap, whatever becomes of the ids around it.     *)
HeldOpen(r, ids) ==
    \A i \in ids : i \in Committed /\ (i \in Covered(r.gaps) \/ rowState[i] = "pruned")

HeldInv ==
    /\ HeldOpen(row, held)
    /\ turn.pc = "delivered" => HeldOpen(turn.row, (held \ turn.resolved) \cup turn.held)

(* The failed event is unsettled and still to be offered.                  *)
FailedOpen(r, settled) ==
    r.lastFailed # None =>
       /\ r.lastFailed \notin settled
       /\ \/ r.lastFailed > r.cursor \/ r.lastFailed \in Covered(r.gaps)
          \/ rowState[r.lastFailed] = "pruned"

FailInv ==
    ~SkipsBatchErrors =>
       /\ FailedOpen(row, resolved)
       /\ turn.pc = "delivered" => FailedOpen(turn.row, resolved \cup turn.resolved)

RecordInv == KnownInv /\ HeldInv /\ FailInv

(* A gap with an event that is in hand, or was cut off, is not burnt.      *)
LEMMA KnownGapSurvives ==
    ASSUME IInv, turn.pc = "fetched", NEW i \in Covered(turn.row.gaps), InHandOrCutOff(i)
    PROVE  \E g \in Surviving : i \in IdsOf(g)
<1>1. PICK g \in turn.row.gaps : i \in IdsOf(g)
  BY DEF Covered
<1>2. g \in Gap /\ turn.pending \subseteq EventIds
  BY FetchedRow DEF IInv, TypeOK, Turn
<1>3. /\ g.from \in Int /\ g.to \in Int /\ i \in Int /\ i <= g.to
      /\ \A p \in turn.pending : p \in Int
  BY <1>1, <1>2, EventLogAssumption DEF Gap, EventIds, IdsOf
<1>4. g \notin Burnt
  <2> SUFFICES ASSUME g \in Burnt PROVE FALSE
    OBVIOUS
  <2>1. IsBurnt(g, turn.pending, Cardinality(turn.pending) = PendingLimit, turn.xminNow)
    BY DEF Burnt, BurntGaps
  <2>2. /\ IdsOf(g) \cap turn.pending = {}
        /\ Cardinality(turn.pending) = PendingLimit => \E id \in turn.pending : g.to < id
    BY <2>1 DEF IsBurnt, IsRangeFullyCoveredByFetch
  <2>3. CASE i \in turn.pending
    BY <1>1, <2>2, <2>3
  <2>4. CASE Cardinality(turn.pending) = PendingLimit /\ \A p \in turn.pending : p < i
    <3>1. PICK id \in turn.pending : g.to < id
      BY <2>2, <2>4
    <3> QED
      BY <1>3, <2>4, <3>1
  <2> QED
    BY <2>3, <2>4 DEF InHandOrCutOff
<1> QED
  BY <1>1, <1>4 DEF Surviving

(* What a pass does not settle stays pending: ids of the surviving gaps,   *)
(* and ids the cursor moved over.                                          *)
LEMMA UnsettledStaysPending ==
    ASSUME IInv, turn.pc = "fetched", NEW o, GoodOutcome(o), NEW i \in EventIds,
           i \notin o.resolved,
           \/ \E g \in Surviving : i \in IdsOf(g)
           \/ turn.row.cursor < i /\ i <= o.cursor
    PROVE  i \in Covered(RowAfter(o).gaps)
<1> DEFINE G == KeptGaps(o) \cup NewGaps(o)
           M == MergeContiguousGapRanges(G)
<1>1. G \subseteq Entries(MaxEventId, MaxXid + 1)
  BY KeptGapsExact, NewGapsExact, GapIsEntry
<1>2. \E g \in G : i \in IdsOf(g)
  BY KeptGapsExact, NewGapsExact
<1>3. \A g \in G : \A k \in IdsOf(g) : \E m \in M : k \in IdsOf(m)
  <2> HIDE DEF G
  <2> QED
    BY <1>1, GapIsEntry, MergeSafe
<1>4. RowAfter(o).gaps = M
  BY DEF RowAfter
<1> HIDE DEF G, M
<1> QED
  BY <1>2, <1>3, <1>4 DEF Covered

(* A writer's step does not touch committed events.                        *)
LEMMA WritersKeepRecord ==
    ASSUME IInv, RecordInv, LogNext, UNCHANGED consumerVars
    PROVE  RecordInv'
<1> USE DEF consumerVars
<1>1. LogGrows
  BY LogStep DEF IInv, TypeOK
<1>2. \A i \in Committed : i \in Committed' /\ rowState'[i] = rowState[i]
  BY <1>1 DEF LogGrows, Committed
<1>3. \A i \in Committed : i \in Visible' => i \in Visible
  BY <1>2 DEF Committed, Visible
<1>4. /\ held \subseteq Committed
      /\ turn.row.lastFailed # None => turn.row.lastFailed \in Committed
      /\ row.lastFailed # None => row.lastFailed \in Committed
      /\ None \notin EventIds
  BY DEF IInv, RowInv, RecordInv, HeldInv, HeldOpen, None, EventIds
<1>5. KnownInv'
  <2>1. \A i \in held \cup {turn.row.lastFailed} : i \in Visible' => i \in Visible
    BY <1>3, <1>4 DEF Visible
  <2> QED
    BY <2>1 DEF RecordInv, KnownInv, InHandOrCutOff
<1>6. HeldInv'
  BY <1>2 DEF RecordInv, HeldInv, HeldOpen
<1>7. FailInv'
  BY <1>2, <1>4 DEF RecordInv, FailInv, FailedOpen
<1> QED
  BY <1>5, <1>6, <1>7 DEF RecordInv

(* A turn that begins.                                                     *)
LEMMA AcquireKeepsRecord ==
    ASSUME IInv, RecordInv, AcquireConsumerState
    PROVE  RecordInv'
<1>1. UNCHANGED <<logVars, row, resolved, held>> /\ turn'.pc = "acquired"
  BY DEF AcquireConsumerState, NoTurn
<1>2. rowState' = rowState /\ Committed' = Committed
  BY <1>1 DEF logVars, Committed
<1> QED
  BY <1>1, <1>2 DEF RecordInv, KnownInv, HeldInv, HeldOpen, FailInv, FailedOpen

(* The fetch sees every event on record, up to its limits.                 *)
LEMMA FetchKeepsRecord ==
    ASSUME IInv, RecordInv, FetchPendingEvents
    PROVE  RecordInv'
<1> USE DEF IInv, TypeOK
<1> DEFINE S == Visible \cap Covered(turn.row.gaps)
           A == {i \in Visible : i > turn.row.cursor}
<1>1. PICK pending \in SUBSET S, fresh \in SUBSET A :
         /\ IsFirst(pending, S, PendingLimit)
         /\ IsFirst(fresh, A, BatchSize - Cardinality(pending))
         /\ turn' = [turn EXCEPT !.pc = "fetched", !.pending = pending, !.fresh = fresh]
  BY DEF FetchPendingEvents
<1>2. UNCHANGED <<logVars, row, resolved, held>> /\ turn.pc = "acquired"
  BY DEF FetchPendingEvents
<1>3. /\ turn'.pc = "fetched" /\ turn'.row = turn.row /\ turn'.pending = pending
      /\ turn'.fresh = fresh
  BY <1>1 DEF Turn
<1>4. /\ rowState' = rowState /\ Committed' = Committed /\ Visible' = Visible
  BY <1>2 DEF logVars, Committed, Visible
<1>5. S \subseteq EventIds /\ A \subseteq EventIds
  BY DEF Visible
<1>6. ASSUME NEW i \in S, i \notin pending
      PROVE  Cardinality(pending) = PendingLimit /\ \A q \in pending : q < i
  <2>1. Cardinality(pending) = PendingLimit
    BY <1>1, <1>6 DEF IsFirst
  <2>2. ASSUME NEW q \in pending PROVE q < i
    <3>1. q # i /\ ~(i < q)
      BY <1>1, <1>6 DEF IsFirst
    <3> QED
      BY <1>5, <3>1, EventLogAssumption DEF EventIds
  <2> QED
    BY <2>1, <2>2
<1>7. ASSUME NEW i \in Visible, NEW j \in fresh, turn.row.cursor < i, i < j
      PROVE  i \in fresh
  <2>1. i \in A
    BY <1>7, EventLogAssumption DEF Visible, EventIds, Turn, Row
  <2> QED
    BY <1>1, <1>7, <2>1 DEF IsFirst
<1>8. ASSUME Cardinality(pending) = PendingLimit, ~HasBatchHandler PROVE fresh = {}
  <2>1. BatchSize - Cardinality(pending) = 0
    BY <1>8, EventDispatcherAssumption DEF PendingLimit
  <2>2. IsFiniteSet(EventIds)
    BY FS_Interval, EventLogAssumption DEF EventIds
  <2>3. IsFiniteSet(fresh) /\ IsFiniteSet(A)
    BY <1>5, <2>2, FS_Subset
  <2>4. Cardinality(fresh) = 0 \/ (fresh = A /\ Cardinality(A) <= 0)
    BY <1>1, <2>1 DEF IsFirst
  <2>5. Cardinality(fresh) = 0
    <3>1. Cardinality(fresh) \in Nat
      BY <2>3, FS_CardinalityType
    <3> QED
      BY <2>4, <3>1
  <2> QED
    BY <2>3, <2>5, FS_EmptySet
<1>9. KnownInv'
  BY <1>2, <1>3, <1>4, <1>6, <1>7, <1>8 DEF KnownInv, InHandOrCutOff
<1> QED
  BY <1>2, <1>3, <1>4, <1>9 DEF RecordInv, HeldInv, HeldOpen, FailInv, FailedOpen

(* A delivery: what is held and what failed stays in reach, because no gap *)
(* with an event on record is burnt.                                       *)
LEMMA DeliverKeepsRecord ==
    ASSUME IInv, RecordInv, DeliverNothing \/ DeliverBatch \/ DeliverOneByOne
    PROVE  RecordInv'
<1>1. PICK o : GoodOutcome(o) /\ DeliversTo(o)
  BY DeliveryHasOutcome
<1>2. /\ turn.pc = "fetched"
      /\ turn' = [turn EXCEPT !.pc = "delivered", !.row = RowAfter(o),
                              !.resolved = o.resolved, !.held = o.held]
      /\ UNCHANGED <<logVars, row, resolved, held>>
  BY <1>1 DEF DeliversTo
<1> DEFINE r == RowAfter(o)
           c == turn.row.cursor
<1>3. /\ turn'.pc = "delivered" /\ turn'.row = r /\ turn'.resolved = o.resolved
      /\ turn'.held = o.held
  BY <1>2 DEF IInv, TypeOK, Turn
<1>4. rowState' = rowState /\ Committed' = Committed
  BY <1>2 DEF logVars, Committed
<1>5. /\ r.cursor = o.cursor /\ r.lastFailed = o.failedId
      /\ turn.row.gaps = row.gaps /\ c = row.cursor /\ turn.row.lastFailed = row.lastFailed
      /\ c \in Int /\ o.cursor \in Int /\ o.cursor >= c
  BY <1>1, <1>2, DeliverableCommitted DEF RowAfter, IInv, LockInv, GoodOutcome, OutcomeType
<1>6. \A i \in Committed : i \in EventIds /\ i \in Int /\ (rowState[i] = "pruned" \/ i \in Visible)
  BY EventLogAssumption DEF Committed, Visible, EventIds
<1> HIDE DEF r
<1>7. ASSUME NEW i \in held \cup {turn.row.lastFailed}, i \in Committed,
             i \in Covered(row.gaps), i \notin o.resolved
      PROVE  i \in Covered(r.gaps) \/ rowState[i] = "pruned"
  <2>1. CASE i \in Visible
    <3>1. InHandOrCutOff(i)
      BY <1>2, <1>5, <1>7, <2>1 DEF RecordInv, KnownInv
    <3>2. \E g \in Surviving : i \in IdsOf(g)
      BY <1>2, <1>5, <1>7, <3>1, KnownGapSurvives
    <3> QED
      BY <1>1, <1>2, <1>6, <1>7, <3>2, UnsettledStaysPending DEF r
  <2> QED
    BY <1>6, <1>7, <2>1
<1>8. ASSUME NEW i \in Deliverable, i \notin o.resolved
      PROVE  /\ i \in Committed
             /\ i \notin resolved
             /\ i <= o.cursor => i \in Covered(r.gaps)
  <2>1. i \in Committed /\ i \in EventIds /\ i \in Int
    BY <1>2, <1>6, DeliverableCommitted
  <2>2. i \notin resolved
    BY <1>2, DeliverableCommitted DEF IInv, SettledInv
  <2>3. CASE i \in turn.pending
    <3>1. InHandOrCutOff(i) /\ i \in Covered(turn.row.gaps)
      BY <1>2, <2>3 DEF InHandOrCutOff, IInv, FetchInv
    <3>2. \E g \in Surviving : i \in IdsOf(g)
      BY <1>2, <3>1, KnownGapSurvives
    <3> QED
      BY <1>1, <1>2, <1>8, <2>1, <2>2, <3>2, UnsettledStaysPending DEF r
  <2>4. CASE i \in turn.fresh
    <3>1. i > c
      BY <1>2, <2>4 DEF IInv, FetchInv
    <3> QED
      BY <1>1, <1>2, <1>5, <1>8, <2>1, <2>2, <3>1, UnsettledStaysPending DEF r
  <2> QED
    BY <2>3, <2>4 DEF Deliverable
<1>9. HeldInv'
  <2>1. ASSUME NEW i \in held \ o.resolved
        PROVE  i \in Committed /\ (i \in Covered(r.gaps) \/ rowState[i] = "pruned")
    BY <1>7, <2>1 DEF RecordInv, HeldInv, HeldOpen
  <2>2. ASSUME NEW i \in o.held PROVE i \in Committed /\ i \in Covered(r.gaps)
    BY <1>1, <1>8, <2>2 DEF GoodOutcome
  <2> QED
    BY <1>2, <1>3, <1>4, <2>1, <2>2 DEF RecordInv, HeldInv, HeldOpen
<1>10. FailInv'
  <2>1. ASSUME ~SkipsBatchErrors, o.failedId # None
        PROVE  /\ o.failedId \notin resolved \cup o.resolved
               /\ \/ o.failedId > o.cursor \/ o.failedId \in Covered(r.gaps)
                  \/ rowState[o.failedId] = "pruned"
    <3>1. StuckOn(o)
      BY <1>1, <2>1 DEF GoodOutcome, OrderlyOutcome
    <3>2. CASE o.failedId \in Deliverable \ o.resolved
      BY <1>5, <1>6, <1>8, <3>2
    <3>3. CASE /\ o.failedId = turn.row.lastFailed
               /\ o.resolved = {} /\ o.cursor = turn.row.cursor
      <4>1. o.failedId = row.lastFailed /\ o.failedId \in Committed
        BY <1>5, <2>1, <3>3 DEF IInv, RowInv
      <4>2. /\ o.failedId \notin resolved
            /\ \/ o.failedId > row.cursor \/ o.failedId \in Covered(row.gaps)
               \/ rowState[o.failedId] = "pruned"
        BY <2>1, <4>1 DEF RecordInv, FailInv, FailedOpen
      <4> QED
        BY <1>5, <1>7, <3>3, <4>1, <4>2
    <3> QED
      BY <3>1, <3>2, <3>3 DEF StuckOn
  <2> QED
    BY <1>2, <1>3, <1>4, <1>5, <2>1 DEF RecordInv, FailInv, FailedOpen
<1> QED
  BY <1>3, <1>9, <1>10 DEF RecordInv, KnownInv

(* The end of a turn, and the steps of operators, which wait for it.       *)
LEMMA EndKeepsRecord ==
    ASSUME turn' = NoTurn, UNCHANGED logVars, HeldOpen(row', held'),
           ~SkipsBatchErrors => FailedOpen(row', resolved')
    PROVE  RecordInv'
<1>1. turn'.pc = "idle" /\ rowState' = rowState /\ Committed' = Committed
  BY NoTurnTyped DEF logVars, Committed
<1> QED
  BY <1>1 DEF RecordInv, KnownInv, HeldInv, HeldOpen, FailInv, FailedOpen

(* Nothing is on record for a new consumer.                                *)
LEMMA InitRecord == Init => RecordInv
<1> SUFFICES ASSUME Init PROVE RecordInv
  OBVIOUS
<1>1. turn.pc = "idle" /\ held = {} /\ row.lastFailed = None
  BY NoTurnTyped DEF Init, NewRow
<1> QED
  BY <1>1 DEF RecordInv, KnownInv, HeldInv, HeldOpen, FailInv, FailedOpen

(* Every step of writers, turns and crashes keeps the record.              *)
LEMMA NextRecord == IInv /\ RecordInv /\ [Next]_vars => RecordInv'
<1> SUFFICES ASSUME IInv, RecordInv, [Next]_vars PROVE RecordInv'
  OBVIOUS
<1>1. CASE LogNext /\ UNCHANGED consumerVars
  BY <1>1, WritersKeepRecord
<1>2. CASE AcquireConsumerState
  BY <1>2, AcquireKeepsRecord
<1>3. CASE FetchPendingEvents
  BY <1>3, FetchKeepsRecord
<1>4. CASE DeliverNothing \/ DeliverBatch \/ DeliverOneByOne
  BY <1>4, DeliverKeepsRecord
<1>5. CASE NothingToDo
  <2>1. /\ turn' = NoTurn /\ UNCHANGED <<logVars, resolved, held>>
        /\ row'.cursor = row.cursor /\ row'.gaps = row.gaps /\ row'.lastFailed = row.lastFailed
    BY <1>5 DEF NothingToDo, IInv, LockInv
  <2>2. HeldOpen(row', held') /\ (~SkipsBatchErrors => FailedOpen(row', resolved'))
    BY <2>1 DEF RecordInv, HeldInv, HeldOpen, FailInv, FailedOpen
  <2> QED
    BY <2>1, <2>2, EndKeepsRecord
<1>6. CASE PersistConsumerOutcome
  <2>1. /\ turn.pc = "delivered" /\ row' = turn.row /\ turn' = NoTurn
        /\ resolved' = resolved \cup turn.resolved
        /\ held' = (held \ turn.resolved) \cup turn.held /\ UNCHANGED logVars
    BY <1>6 DEF PersistConsumerOutcome
  <2>2. HeldOpen(row', held') /\ (~SkipsBatchErrors => FailedOpen(row', resolved'))
    BY <2>1 DEF RecordInv, HeldInv, FailInv
  <2> QED
    BY <2>1, <2>2, EndKeepsRecord
<1>7. CASE RollBackTurn
  <2>1. turn' = NoTurn /\ UNCHANGED <<logVars, row, resolved, held>>
    BY <1>7 DEF RollBackTurn
  <2>2. HeldOpen(row', held') /\ (~SkipsBatchErrors => FailedOpen(row', resolved'))
    BY <2>1 DEF RecordInv, HeldInv, FailInv
  <2> QED
    BY <2>1, <2>2, EndKeepsRecord
<1>8. CASE UNCHANGED vars
  <2>1. /\ UNCHANGED <<rowState, row, turn, resolved, held>>
        /\ Visible' = Visible /\ Committed' = Committed
    BY <1>8 DEF vars, logVars, consumerVars, Visible, Committed
  <2> QED
    BY <2>1 DEF RecordInv, KnownInv, InHandOrCutOff, HeldInv, HeldOpen, FailInv, FailedOpen
<1> QED
  BY <1>1, <1>2, <1>3, <1>4, <1>5, <1>6, <1>7, <1>8 DEF Next, TurnNext

-----------------------------------------------------------------------------
(* The theorems.                                                           *)

(* A new consumer on an empty log satisfies the invariant.                 *)
LEMMA InitIInv == Init => IInv
<1> SUFFICES ASSUME Init PROVE IInv
  OBVIOUS
<1> USE EventLogAssumption, EventDispatcherAssumption, NoTurnTyped DEF Init, LogInit
<1>1. TypeOK
  BY DEF TypeOK, LogTypeOK, RowStates, EventIds
<1>2. Visible = {} /\ InFlight = {} /\ Committed = {}
  BY DEF Visible, InFlight, Committed
<1>3. LogInv
  BY <1>2 DEF LogInv
<1>4. BudgetInv
  BY DEF BudgetInv, NewRow
<1>5. LockInv
  BY DEF LockInv, NewRow
<1>6. XminInv /\ FetchInv
  BY DEF XminInv, FetchInv
<1>7. WatchInv
  BY <1>2 DEF WatchInv, Watched
<1>8. SettledInv
  BY DEF SettledInv, SettledIn
<1>9. RowInv
  BY DEF RowInv, WellFormed, NewRow
<1> QED
  BY <1>1, <1>3, <1>4, <1>5, <1>6, <1>7, <1>8, <1>9 DEF IInv

(* Every step of writers, turns and crashes keeps the invariant.           *)
LEMMA NextIInv == IInv /\ [Next]_vars => IInv'
<1> SUFFICES ASSUME IInv, [Next]_vars PROVE IInv'
  OBVIOUS
<1>1. CASE LogNext /\ UNCHANGED consumerVars
  BY <1>1, WritersKeepIInv
<1>2. CASE AcquireConsumerState
  BY <1>2, AcquireKeepsIInv
<1>3. CASE FetchPendingEvents
  BY <1>3, FetchKeepsIInv
<1>4. CASE NothingToDo
  BY <1>4, NothingToDoKeepsIInv
<1>5. CASE DeliverNothing \/ DeliverBatch \/ DeliverOneByOne
  BY <1>5, DeliverKeepsIInv
<1>6. CASE PersistConsumerOutcome
  BY <1>6, PersistKeepsIInv
<1>7. CASE RollBackTurn
  BY <1>7, RollBackKeepsIInv
<1>8. CASE UNCHANGED vars
  <2>1. /\ LogTypeOK' = LogTypeOK /\ Visible' = Visible /\ InFlight' = InFlight
        /\ Committed' = Committed
    BY <1>8 DEF vars, logVars, LogTypeOK, Visible, InFlight, Committed
  <2>2. TypeOK'
    BY <1>8, <2>1 DEF vars, consumerVars, IInv, TypeOK
  <2>3. LogInv'
    BY <1>8, <2>1 DEF vars, logVars, IInv, LogInv
  <2>4. BudgetInv' /\ LockInv' /\ XminInv' /\ FetchInv' /\ SettledInv' /\ RowInv'
    BY <1>8, <2>1 DEF vars, logVars, consumerVars, IInv, BudgetInv, LockInv, XminInv,
                      FetchInv, SettledInv, SettledIn, RowInv, WellFormed
  <2>5. WatchInv'
    BY <1>8, <2>1 DEF vars, logVars, consumerVars, IInv, WatchInv, Watched, Overtaken
  <2> QED
    BY <2>2, <2>3, <2>4, <2>5 DEF IInv
<1> QED
  BY <1>1, <1>2, <1>3, <1>4, <1>5, <1>6, <1>7, <1>8 DEF Next, TurnNext

(* IInv holds throughout every behaviour of the dispatcher.                *)
THEOREM InductiveInvariant == Spec => []IInv
  BY InitIInv, NextIInv, PTL DEF Spec

(* Type correctness: in particular attempts never exceed maxAttempts,      *)
(* rearm_count never exceeds maxRearmCount, and pending_gaps holds only    *)
(* ranges of ids that exist.                                               *)
THEOREM TypeCorrect == Spec => []TypeOK
<1>1. IInv => TypeOK
  BY DEF IInv
<1> QED
  BY <1>1, InductiveInvariant, PTL

(* What is neither handled nor reachable was overtaken.                    *)
LEMMA InvImpliesNoLoss == IInv => LostOnlyIfOvertaken
<1> SUFFICES ASSUME IInv, NEW i \in EventIds, Lost(i) PROVE Overtaken(i)
  BY DEF LostOnlyIfOvertaken
<1>1. /\ i \in Visible /\ i \notin handled \cup skipped
      /\ ~(i > row.cursor) /\ i \notin Covered(row.gaps)
  BY DEF Lost, Reachable
<1>2. i <= row.cursor
  BY <1>1, EventLogAssumption DEF IInv, TypeOK, Row, EventIds
<1>3. \A g \in row.gaps : i \notin IdsOf(g)
  BY <1>1 DEF Covered
<1> QED
  BY <1>1, <1>2, <1>3 DEF IInv, WatchInv, Watched

(* No committed event is lost unless a later id was taken by an older      *)
(* transaction (processConsumer, partitionBurntGaps).                      *)
THEOREM NoSilentLoss == Spec => []LostOnlyIfOvertaken
  BY InvImpliesNoLoss, InductiveInvariant, PTL

(* An event that a committed turn settled is never fetched again.          *)
THEOREM SettledOnce == Spec => []NoRedeliveryAfterCommit
<1>1. IInv => NoRedeliveryAfterCommit
  BY DEF IInv, SettledInv, NoRedeliveryAfterCommit
<1> QED
  BY <1>1, InductiveInvariant, PTL

(* Of all steps only the two that commit a turn change the row, and both   *)
(* keep what the row has achieved.                                         *)
LEMMA StepKeepsProgress ==
    ASSUME IInv, Next
    PROVE  /\ row'.cursor >= row.cursor
           /\ Covered(row'.gaps) \cap 1 .. row.cursor \subseteq Covered(row.gaps)
<1>0. row.cursor \in Int
  BY EventLogAssumption DEF IInv, TypeOK, Row
<1>1. CASE row' = row
  BY <1>0, <1>1
<1>2. CASE NothingToDo
  <2>1. row'.cursor = row.cursor /\ row'.gaps = row.gaps
    BY <1>2 DEF NothingToDo, IInv, LockInv
  <2> QED
    BY <1>0, <2>1
<1>3. CASE PersistConsumerOutcome
  BY <1>3 DEF PersistConsumerOutcome, IInv, SettledInv
<1> QED
  BY <1>1, <1>2, <1>3
     DEF Next, TurnNext, consumerVars, AcquireConsumerState, FetchPendingEvents,
         DeliverNothing, DeliverBatch, DeliverOneByOne, DeliverConsumerTurn, RollBackTurn

(* The cursor never moves back, and an id that left pending_gaps never     *)
(* returns, whatever turn commits.                                         *)
THEOREM ProgressKept == Spec => ProgressNeverUndone
<1> DEFINE Kept == /\ row'.cursor >= row.cursor
                   /\ Covered(row'.gaps) \cap 1 .. row.cursor \subseteq Covered(row.gaps)
<1>1. IInv /\ [Next]_vars => [Kept]_vars
  BY StepKeepsProgress
<1>2. Spec => [][Kept]_vars
  BY <1>1, InductiveInvariant, PTL DEF Spec
<1> QED
  BY <1>2 DEF ProgressNeverUndone

(* The persisted ranges are disjoint, never touch and stay at or below the *)
(* cursor (mergeContiguousGapRanges, updatePendingGapsAfterDelivery).      *)
THEOREM RangesWellFormed == Spec => []GapsWellFormed
<1>1. IInv => GapsWellFormed
  BY DEF IInv, RowInv, WellFormed, GapsWellFormed
<1> QED
  BY <1>1, InductiveInvariant, PTL

(* Past the limit of pending ranges a batch consumer takes no new events:  *)
(* its cursor stays and it watches nothing it did not watch before         *)
(* (isIntakePausedByPendingGapLimit).                                      *)
THEOREM IntakeStopsAtLimit == Spec => NothingNewAtGapLimit
<1> DEFINE Stops == turn.pc = "fetched" /\ turn'.pc = "delivered" /\ HasBatchHandler
                    /\ Cardinality(Surviving) >= MaxPendingGapRanges
                    => /\ turn'.row.cursor = turn.row.cursor
                       /\ Covered(turn'.row.gaps) \subseteq Covered(turn.row.gaps)
<1>1. IInv /\ [Next]_vars => [Stops]_vars
  <2> SUFFICES ASSUME IInv, Next, turn.pc = "fetched", turn'.pc = "delivered", IntakePaused
               PROVE  /\ turn'.row.cursor = turn.row.cursor
                      /\ Covered(turn'.row.gaps) \subseteq Covered(turn.row.gaps)
    BY DEF IntakePaused
  <2>1. turn' # turn /\ turn' # NoTurn
    BY NoTurnTyped
  <2>2. DeliverNothing \/ DeliverBatch \/ DeliverOneByOne
    BY <2>1 DEF Next, TurnNext, consumerVars, AcquireConsumerState, FetchPendingEvents,
                NothingToDo, PersistConsumerOutcome, RollBackTurn
  <2>3. PICK o : GoodOutcome(o) /\ DeliversTo(o)
    BY <2>2, DeliveryHasOutcome
  <2>4. turn'.row = RowAfter(o)
    BY <2>3 DEF DeliversTo, IInv, TypeOK, Turn
  <2> QED
    BY <2>3, <2>4, PausedTakesNothing
<1>2. Spec => [][Stops]_vars
  BY <1>1, InductiveInvariant, PTL DEF Spec
<1> QED
  BY <1>2 DEF NothingNewAtGapLimit

(* The events on record, throughout every behaviour of the dispatcher.     *)
THEOREM RecordInvariant == Spec => []RecordInv
  BY InitRecord, NextRecord, InductiveInvariant, PTL DEF Spec

(* Only a delivery makes events handled.                                   *)
LEMMA HandledByDelivery ==
    ASSUME IInv, Next, handled' # handled
    PROVE  \E o : GoodOutcome(o) /\ DeliversTo(o)
<1>1. DeliverNothing \/ DeliverBatch \/ DeliverOneByOne
  BY DEF Next, TurnNext, consumerVars, AcquireConsumerState, FetchPendingEvents, NothingToDo,
         PersistConsumerOutcome, RollBackTurn
<1> QED
  BY <1>1, DeliveryHasOutcome

(* A pass that settles an event settles the pending events on record below *)
(* it, too, per tenant if there is a batch handler: they are in hand, or   *)
(* were cut off and then nothing newer is delivered in their place.        *)
LEMMA RecordComesFirst ==
    ASSUME IInv, RecordInv, turn.pc = "fetched", NEW o, GoodOutcome(o),
           NEW i \in held \cup {turn.row.lastFailed}, i \in Visible,
           i \in Covered(turn.row.gaps),
           NEW j \in o.resolved, i < j, ~HasBatchHandler \/ tenantOf[i] = tenantOf[j]
    PROVE  i \in o.resolved
<1>1. InHandOrCutOff(i)
  BY DEF RecordInv, KnownInv
<1>2. j \in Deliverable /\ j \in Int /\ i \in Int /\ Deliverable \subseteq Int
  BY DeliverableCommitted, EventLogAssumption DEF GoodOutcome, Visible, EventIds
<1>3. CASE i \in turn.pending
  <2>1. i \in Deliverable
    BY <1>3 DEF Deliverable
  <2> QED
    BY <2>1 DEF GoodOutcome, OrderlyOutcome
<1>4. CASE i \notin turn.pending
  <2>1. Cardinality(turn.pending) = PendingLimit /\ \A p \in turn.pending : p < i
    BY <1>1, <1>4 DEF InHandOrCutOff
  <2>2. j \notin turn.pending
    BY <1>2, <2>1
  <2>3. j \in turn.fresh /\ tenantOf[j] \notin TenantsLeftOut
    BY <1>2, <2>2 DEF Deliverable
  <2>4. HasBatchHandler
    BY <2>1, <2>3 DEF RecordInv, KnownInv
  <2>5. PendingLimit \in Nat /\ PendingLimit >= 1
    BY EventDispatcherAssumption DEF PendingLimit
  <2>6. turn.pending # {} /\ Cardinality(turn.pending) >= PendingLimit
    <3>1. Cardinality({}) = 0
      BY FS_EmptySet
    <3> QED
      BY <2>1, <2>5, <3>1
  <2>7. tenantOf[i] \in TenantsLeftOut
    <3>1. \A p \in turn.pending : i > p
      <4>1. turn.pending \subseteq EventIds
        BY DEF IInv, TypeOK, Turn
      <4> QED
        BY <1>2, <2>1, <4>1, EventLogAssumption DEF EventIds
    <3> QED
      BY <2>4, <2>6, <3>1 DEF TenantsLeftOut
  <2> QED
    BY <2>3, <2>4, <2>7
<1> QED
  BY <1>3, <1>4

(* One step of a per-event consumer with a failed event on record.         *)
LEMMA StepHaltsOnPoison ==
    ASSUME IInv, RecordInv, Next, ~HasBatchHandler,
           NEW j \in handled' \ handled, row.lastFailed # None, j > row.lastFailed
    PROVE  row.lastFailed \in handled' \/ rowState[row.lastFailed] = "pruned"
<1> DEFINE f == row.lastFailed
<1>1. PICK o : GoodOutcome(o) /\ DeliversTo(o)
  BY HandledByDelivery
<1>2. turn.pc = "fetched" /\ j \in o.resolved /\ o.resolved \subseteq handled'
  BY <1>1 DEF DeliversTo
<1>3. /\ f = turn.row.lastFailed /\ turn.row.gaps = row.gaps /\ turn.row.cursor = row.cursor
      /\ f \in Committed
  BY <1>2 DEF IInv, LockInv, RowInv
<1>4. f \in Int /\ j \in Int /\ row.cursor \in Int /\ j \in Deliverable
  BY <1>1, <1>2, <1>3, DeliverableCommitted, EventLogAssumption
     DEF GoodOutcome, Committed, EventIds
<1> HIDE DEF f
<1>5. SUFFICES ASSUME f \in Visible PROVE f \in o.resolved
  BY <1>2, <1>3 DEF Committed, Visible, f
<1>6. f > row.cursor \/ f \in Covered(row.gaps)
  BY <1>5 DEF RecordInv, FailInv, FailedOpen, SkipsBatchErrors, Visible, f
<1>7. CASE f \in Covered(row.gaps)
  BY <1>1, <1>2, <1>3, <1>4, <1>5, <1>7, RecordComesFirst DEF f
<1>8. CASE f > row.cursor
  <2>1. j \notin turn.pending
    <3> SUFFICES ASSUME j \in turn.pending PROVE FALSE
      OBVIOUS
    <3>1. j \in Covered(row.gaps)
      BY <1>2, <1>3 DEF IInv, FetchInv
    <3>2. j <= row.cursor
      BY <3>1, CoveredBelowCursor DEF IInv, TypeOK, RowInv
    <3> QED
      BY <1>4, <1>8, <3>2 DEF f
  <2>2. j \in turn.fresh
    BY <1>4, <2>1 DEF Deliverable
  <2>3. f \in turn.fresh
    BY <1>2, <1>3, <1>4, <1>5, <1>8, <2>2 DEF RecordInv, KnownInv, f
  <2>4. f \in Deliverable
    BY <2>3 DEF Deliverable, IntakePaused, TenantsLeftOut
  <2> QED
    BY <1>1, <1>2, <1>4, <2>4 DEF GoodOutcome, OrderlyOutcome, f
<1> QED
  BY <1>6, <1>7, <1>8

(* Without retention no event is deleted.                                  *)
Unpruned == \A i \in EventIds : rowState[i] # "pruned"

(* One step of a consumer whose handler holds an event.                    *)
LEMMA StepHeldFirst ==
    ASSUME IInv, RecordInv, Next, Unpruned,
           NEW j \in handled' \ handled, NEW i \in held, i < j, tenantOf[i] = tenantOf[j]
    PROVE  i \in handled'
<1>1. PICK o : GoodOutcome(o) /\ DeliversTo(o)
  BY HandledByDelivery
<1>2. turn.pc = "fetched" /\ j \in o.resolved /\ o.resolved \subseteq handled'
  BY <1>1 DEF DeliversTo
<1>3. i \in Committed /\ (i \in Covered(row.gaps) \/ rowState[i] = "pruned")
  BY DEF RecordInv, HeldInv, HeldOpen
<1>4. i \in Visible /\ i \in Covered(turn.row.gaps)
  BY <1>2, <1>3 DEF Committed, Visible, Unpruned, IInv, LockInv
<1> QED
  BY <1>1, <1>2, <1>4, RecordComesFirst

(* The event on record as failed is unsettled and will be offered again.   *)
LEMMA RecordIsRetried ==
    ASSUME ~SkipsBatchErrors, RecordInv
    PROVE  LastFailedIsRetried
  BY DEF RecordInv, FailInv, FailedOpen, LastFailedIsRetried, Reachable

(* The event that skipPoisonEvent would skip is one the consumer is stuck  *)
(* on, for every consumer but one with a batch handler whose policy skips  *)
(* errors (persistConsumerOutcome's last_failed_event_id).                 *)
THEOREM FailedIsRetried ==
    ASSUME ~(HasBatchHandler /\ SkipApplyErrors)
    PROVE  Spec => []LastFailedIsRetried
<1>1. RecordInv => LastFailedIsRetried
  BY RecordIsRetried DEF SkipsBatchErrors
<1> QED
  BY <1>1, RecordInvariant, PTL

(* A per-event consumer halts on poison: it handles nothing past a failed  *)
(* event before that event (deliverEvents' break).                         *)
THEOREM PoisonHalts ==
    ASSUME ~HasBatchHandler
    PROVE  Spec => HaltsOnPoison
<1> DEFINE Halts == \A j \in handled' \ handled :
                       row.lastFailed # None /\ j > row.lastFailed
                          => \/ row.lastFailed \in handled'
                             \/ rowState[row.lastFailed] = "pruned"
<1>1. IInv /\ RecordInv /\ [Next]_vars => [Halts]_vars
  BY StepHaltsOnPoison
<1>2. Spec => [][Halts]_vars
  BY <1>1, RecordInvariant, InductiveInvariant, PTL DEF Spec
<1> QED
  BY <1>2 DEF HaltsOnPoison

(* Writers delete nothing, and the dispatcher leaves the log alone.        *)
LEMMA StepPrunesNothing ==
    ASSUME LogTypeOK, Unpruned, Next
    PROVE  Unpruned'
<1>1. CASE rowState' = rowState
  BY <1>1 DEF Unpruned
<1>2. CASE LogNext
  <2>1. \A i \in EventIds : rowState'[i] \in {rowState[i], "inflight", "burnt", "visible"}
    <3>1. rowState \in [EventIds -> RowStates]
      BY DEF LogTypeOK
    <3>2. CASE \E w \in Writers : CommitWrite(w) \/ RollbackWrite(w)
      BY <3>2 DEF CommitWrite, RollbackWrite, Complete
    <3>3. CASE \E w \in Writers : InsertEvent(w) \/ InsertConflict(w)
      BY <3>1, <3>3 DEF InsertEvent, InsertConflict
    <3>4. CASE rowState' = rowState
      BY <3>4
    <3> QED
      BY <1>2, <3>2, <3>3, <3>4 DEF LogNext, ClaimXactId, OtherTransaction
  <2> QED
    BY <2>1 DEF Unpruned
<1> QED
  BY <1>1, <1>2
     DEF Next, TurnNext, logVars, AcquireConsumerState, FetchPendingEvents, NothingToDo,
         DeliverNothing, DeliverBatch, DeliverOneByOne, DeliverConsumerTurn,
         PersistConsumerOutcome, RollBackTurn

(* "No consumer sees a tenant's event before an older one it is still      *)
(* holding" (deliverConsumerTurn's withholding of tenants left out).       *)
THEOREM HeldComeFirst == Spec => HeldEventsComeFirst
<1> DEFINE First == \A j \in handled' \ handled, i \in held :
                       i < j /\ tenantOf[i] = tenantOf[j] => i \in handled'
<1>1. IInv /\ RecordInv /\ Unpruned /\ [Next]_vars => [First]_vars
  BY StepHeldFirst
<1>2. Spec => []Unpruned
  <2>1. Init => Unpruned
    BY DEF Init, LogInit, Unpruned
  <2>2. IInv /\ Unpruned /\ [Next]_vars => Unpruned'
    BY StepPrunesNothing DEF IInv, TypeOK, Unpruned, vars, logVars
  <2> QED
    BY <2>1, <2>2, InductiveInvariant, PTL DEF Spec
<1>3. Spec => [][First]_vars
  BY <1>1, <1>2, RecordInvariant, InductiveInvariant, PTL DEF Spec
<1> QED
  BY <1>3 DEF HeldEventsComeFirst

-----------------------------------------------------------------------------
(* A consumer without a batch handler.                                     *)

(* Only committed events are handled, and the cursor is on an event that   *)
(* the consumer has settled, or at the beginning.                          *)
TakenInv ==
    /\ handled \subseteq Committed
    /\ resolved \subseteq handled
    /\ row.cursor \in resolved \cup {0}
    /\ turn.pc = "delivered" =>
          /\ turn.resolved \subseteq handled
          /\ turn.row.cursor \in resolved \cup turn.resolved \cup {0}

LEMMA InitTaken == Init => TakenInv
  BY NoTurnTyped DEF Init, TakenInv, NewRow

(* Every step of writers, turns and crashes keeps it.                      *)
LEMMA NextTaken == ~HasBatchHandler /\ IInv /\ TakenInv /\ [Next]_vars => TakenInv'
<1> SUFFICES ASSUME ~HasBatchHandler, IInv, TakenInv, [Next]_vars PROVE TakenInv'
  OBVIOUS
<1>1. CASE LogNext /\ UNCHANGED consumerVars
  <2>1. LogGrows
    BY <1>1, LogStep DEF IInv, TypeOK
  <2>2. Committed \subseteq Committed'
    BY <2>1 DEF LogGrows, Committed
  <2> QED
    BY <1>1, <2>2 DEF consumerVars, TakenInv
<1>2. CASE DeliverNothing \/ DeliverBatch \/ DeliverOneByOne
  <2>1. PICK o : GoodOutcome(o) /\ DeliversTo(o)
    BY <1>2, DeliveryHasOutcome
  <2>2. /\ turn.pc = "fetched" /\ handled' = handled \cup o.resolved
        /\ turn' = [turn EXCEPT !.pc = "delivered", !.row = RowAfter(o),
                                !.resolved = o.resolved, !.held = o.held]
        /\ UNCHANGED <<logVars, row, resolved>>
    BY <2>1 DEF DeliversTo
  <2>3. turn'.resolved = o.resolved /\ turn'.row = RowAfter(o)
    BY <2>2 DEF IInv, TypeOK, Turn
  <2>4. turn'.row.cursor = o.cursor
    BY <2>3 DEF RowAfter
  <2>5. o.resolved \subseteq Committed /\ Committed' = Committed
    BY <2>1, <2>2, DeliverableCommitted DEF GoodOutcome, Committed, logVars
  <2>6. o.cursor \in resolved \cup o.resolved \cup {0}
    <3>1. turn.row.cursor \in resolved \cup {0}
      BY <2>2 DEF IInv, LockInv, TakenInv
    <3>2. o.cursor \in Int /\ turn.row.cursor \in Int
      BY <2>1, <2>2, DeliverableCommitted DEF GoodOutcome, OutcomeType
    <3> QED
      BY <2>1, <3>1, <3>2 DEF GoodOutcome
  <2> QED
    BY <2>2, <2>3, <2>4, <2>5, <2>6 DEF TakenInv
<1>3. CASE PersistConsumerOutcome
  BY <1>3, NoTurnTyped DEF PersistConsumerOutcome, TakenInv, logVars, Committed
<1>4. CASE NothingToDo
  <2>1. turn.row.cursor = row.cursor
    BY <1>4 DEF NothingToDo, IInv, LockInv
  <2> QED
    BY <1>4, <2>1, NoTurnTyped DEF NothingToDo, TakenInv, logVars, Committed
<1>5. CASE AcquireConsumerState \/ FetchPendingEvents \/ RollBackTurn
  <2>1. turn'.pc # "delivered"
    BY <1>5, NoTurnTyped
       DEF AcquireConsumerState, FetchPendingEvents, RollBackTurn, IInv, TypeOK, Turn
  <2> QED
    BY <1>5, <2>1 DEF AcquireConsumerState, FetchPendingEvents, RollBackTurn,
                      TakenInv, logVars, Committed
<1>6. CASE UNCHANGED vars
  BY <1>6 DEF vars, consumerVars, logVars, TakenInv, Committed
<1> QED
  BY <1>1, <1>2, <1>3, <1>4, <1>5, <1>6 DEF Next, TurnNext
=============================================================================
