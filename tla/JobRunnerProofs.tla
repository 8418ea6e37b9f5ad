--------------------------- MODULE JobRunnerProofs ---------------------------
(***************************************************************************)
(* Proofs about JobRunner, for any number of jobs, queue entries and lock  *)
(* tokens, and any declaration of the job.  The argument has four parts.   *)
(* Lock: a token belongs to one run or to one pending release, and the run *)
(* that holds the lock's value is the only one whose lock has not expired. *)
(* Budget: what a job has spent travels with the one entry that is still   *)
(* to run it.  Limit: processedOn orders the active entries, and whoever   *)
(* has passed the gate has fewer than limit entries before it that were    *)
(* not stamped ahead of ones fetched earlier; the last one that runs       *)
(* bounds them all.                                                        *)
(***************************************************************************)
EXTENDS JobRunner, WellFoundedInduction, FiniteSetTheorems, SequenceTheorems, TLAPS

-----------------------------------------------------------------------------
(* Smallest and largest elements.                                          *)

(* A nonempty set of natural numbers has a smallest element.               *)
LEMMA NatMin ==
    ASSUME NEW T, T \subseteq Nat, T # {}
    PROVE  \E m \in T : \A x \in T : m <= x
<1> DEFINE R == OpToRel(<, Nat)
<1>1. PICK m \in T : \A y \in T : ~ (<<y, m>> \in R)
  <2> HIDE DEF R
  <2>1. IsWellFoundedOn(R, Nat)
    BY NatLessThanWellFounded DEF R
  <2> QED
    BY <2>1, WFMin, Zenon
<1>2. \A y \in T : ~ (y < m)
  BY <1>1 DEF OpToRel
<1> QED
  BY <1>2

(* A nonempty set of numbers up to N has a largest element: the mirror     *)
(* image of the set has a smallest one.                                    *)
LEMMA BoundedMax ==
    ASSUME NEW N \in Nat, NEW T, T \subseteq 0 .. N, T # {}
    PROVE  \E m \in T : \A x \in T : x <= m
<1> DEFINE U == {u \in 0 .. N : N - u \in T}
<1>1. PICK k \in U : \A u \in U : k <= u
  <2>1. U \subseteq Nat
    OBVIOUS
  <2>2. \A x \in T : x \in 0 .. N /\ N - x \in 0 .. N /\ N - (N - x) = x
    OBVIOUS
  <2>3. U # {}
    BY <2>2
  <2> HIDE DEF U
  <2> QED
    BY <2>1, <2>3, NatMin
<1>2. \A x \in T : x \in 0 .. N /\ N - x \in U
  OBVIOUS
<1> QED
  BY <1>1, <1>2

-----------------------------------------------------------------------------
(* The inductive invariant.                                                *)

(* Tokens are not shared, and a run whose token is not the lock's value    *)
(* has had its lock expire.                                                *)
LockInv ==
    /\ \A i \in Slots : token[i] # NoToken => token[i] = lock \/ i \in lapsed
    /\ \A i, k \in Slots : token[i] = token[k] => i = k \/ token[i] = NoToken
    /\ \A i \in Slots : token[i] \notin releasing
    /\ \A i \in Slots : def.sequential /\ run[i] = "running" => token[i] # NoToken

(* What an entry has left is what its job has not spent.                   *)
EntryInv ==
    /\ \A i \in Slots : run[i] # "none" => entry[i].state = "active"
    /\ \A i \in Slots : entry[i].state # "free" =>
          /\ entry[i].job \in dispatched
          /\ entry[i].prior + entry[i].attempts = def.attempts
          /\ entry[i].made < entry[i].attempts

(* The entry in slot i is still to run job j.                              *)
Carries(i, j) == entry[i].state # "free" /\ entry[i].job = j /\ run[i] # "requeued"

(* Unless a worker died with its job enqueued twice, one entry at most is  *)
(* to run a job, and it knows how often the job has failed.                *)
BudgetInv ==
    \A j \in Jobs :
       /\ j \notin dispatched => failures[j] = 0
       /\ j \notin doubled =>
             /\ failures[j] <= def.attempts
             /\ \A i \in Slots : Carries(i, j) => failures[j] = entry[i].prior + entry[i].made
             /\ \A i, k \in Slots : Carries(i, j) /\ Carries(k, j) => i = k

(* Who has passed the gate of the tenant limit.                            *)
PastGate(i) == run[i] \notin {"none", "picked", "dead"}

(* The entries before i that were not stamped ahead of others: of these    *)
(* none joins once i is active.                                            *)
InOrderBefore(i) == ActiveBefore(i) \ ahead

(* The active entries, each once, and few before those past the gate.      *)
OrderInv ==
    /\ \A m, n \in 1 .. Len(order) : order[m] = order[n] => m = n
    /\ def.limit > 0 =>
          /\ \A i \in Slots : run[i] # "none" <=> \E m \in 1 .. Len(order) : order[m] = i
          /\ \A i \in Slots : PastGate(i) => Cardinality(InOrderBefore(i)) < def.limit

IInv == TypeOK /\ LockInv /\ EntryInv /\ BudgetInv /\ OrderInv

-----------------------------------------------------------------------------
(* Sequences and slots.                                                    *)

(* RemoveFirst on a sequence without duplicates: what remains is in the    *)
(* order in which it was, and only x is gone.                              *)
Without(s, x, t) ==
    /\ \E f \in [1 .. Len(t) -> 1 .. Len(s)] :
          /\ \A m \in 1 .. Len(t) : t[m] = s[f[m]] /\ t[m] # x
          /\ \A m, n \in 1 .. Len(t) : m < n => f[m] < f[n]
    /\ \A m \in 1 .. Len(s) : s[m] # x => \E n \in 1 .. Len(t) : t[n] = s[m]

LEMMA RemoveFirstProperties ==
    ASSUME NEW S, NEW s \in Seq(S), NEW x, NEW t, t = RemoveFirst(s, x),
           \A m, n \in 1 .. Len(s) : s[m] = s[n] => m = n
    PROVE  t \in Seq(S) /\ Without(s, x, t)
<1>1. Len(s) \in Nat
  BY LenProperties
<1>2. CASE \E k \in 1 .. Len(s) : s[k] = x
  <2>1. PICK k \in 1 .. Len(s) : s[k] = x
    BY <1>2
  <2>2. SelectInSeq(s, LAMBDA v : v = x) = k
    <3> DEFINE I == {i \in 1 .. Len(s) : s[i] = x}
    <3>1. I = {k}
      BY <2>1
    <3>2. Min({k}) = k
      BY <1>1, <2>1 DEF Min
    <3> QED
      BY <3>1, <3>2 DEF SelectInSeq
  <2> DEFINE a == SubSeq(s, 1, k - 1)
             b == SubSeq(s, k + 1, Len(s))
  <2>3. t = a \o b
    BY <1>2, <2>2 DEF RemoveFirst, RemoveAt
  <2>4. a \in Seq(S) /\ Len(a) = k - 1 /\ \A m \in 1 .. k - 1 : a[m] = s[m]
    <3>1. \A m \in 1 .. k - 1 : m \in 1 .. Len(s)
      BY <1>1
    <3>2. \A m \in 1 .. k - 1 : s[m] \in S
      BY <3>1, ElementOfSeq
    <3>3. k - 1 \in Int
      BY <1>1
    <3>4. /\ a \in Seq(S) /\ Len(a) = IF 1 <= k - 1 THEN (k - 1) - 1 + 1 ELSE 0
          /\ \A m \in 1 .. (k - 1) - 1 + 1 : a[m] = s[1 + m - 1]
      BY <3>2, <3>3, SubSeqProperties
    <3> HIDE DEF a
    <3> QED
      BY <1>1, <3>4
  <2>5. b \in Seq(S) /\ Len(b) = Len(s) - k /\ \A m \in 1 .. Len(s) - k : b[m] = s[m + k]
    <3>1. \A m \in k + 1 .. Len(s) : m \in 1 .. Len(s)
      BY <1>1
    <3>2. \A m \in k + 1 .. Len(s) : s[m] \in S
      BY <3>1, ElementOfSeq
    <3>3. k + 1 \in Int /\ Len(s) \in Int
      BY <1>1
    <3>4. /\ b \in Seq(S)
          /\ Len(b) = IF k + 1 <= Len(s) THEN Len(s) - (k + 1) + 1 ELSE 0
          /\ \A m \in 1 .. Len(s) - (k + 1) + 1 : b[m] = s[(k + 1) + m - 1]
      BY <3>2, <3>3, SubSeqProperties
    <3> HIDE DEF b
    <3> QED
      BY <1>1, <3>4
  <2> HIDE DEF a, b
  <2>6. /\ t \in Seq(S) /\ Len(t) = Len(s) - 1
        /\ \A m \in 1 .. Len(t) : t[m] = IF m < k THEN s[m] ELSE s[m + 1]
    <3>1. a \in Seq(S) /\ b \in Seq(S)
      BY <2>4, <2>5
    <3>2. /\ a \o b \in Seq(S) /\ Len(a \o b) = Len(a) + Len(b)
          /\ \A m \in 1 .. Len(a) + Len(b) :
                (a \o b)[m] = IF m <= Len(a) THEN a[m] ELSE b[m - Len(a)]
      <4>1. \A u, v \in Seq(S) :
               /\ u \o v \in Seq(S) /\ Len(u \o v) = Len(u) + Len(v)
               /\ \A m \in 1 .. Len(u) + Len(v) :
                     (u \o v)[m] = IF m <= Len(u) THEN u[m] ELSE v[m - Len(u)]
        BY ConcatProperties
      <4> QED
        BY <3>1, <4>1
    <3>3. Len(t) = Len(s) - 1
      BY <1>1, <2>3, <2>4, <2>5, <3>2
    <3>4. ASSUME NEW m \in 1 .. Len(s) - 1
          PROVE  t[m] = IF m < k THEN s[m] ELSE s[m + 1]
      <4>1. t[m] = IF m <= k - 1 THEN a[m] ELSE b[m - (k - 1)]
        BY <1>1, <2>3, <2>4, <2>5, <3>2
      <4>2. CASE m < k
        BY <1>1, <2>4, <4>1, <4>2
      <4>3. CASE ~(m < k)
        <5>1. m - (k - 1) \in 1 .. Len(s) - k /\ (m - (k - 1)) + k = m + 1
          BY <1>1, <4>3
        <5> QED
          BY <1>1, <2>5, <4>1, <4>3, <5>1
      <4> QED
        BY <4>2, <4>3
    <3> QED
      BY <2>3, <3>2, <3>3, <3>4
  <2> DEFINE f == [m \in 1 .. Len(t) |-> IF m < k THEN m ELSE m + 1]
  <2>7. f \in [1 .. Len(t) -> 1 .. Len(s)]
    BY <1>1, <2>6
  <2>8. \A m \in 1 .. Len(t) : t[m] = s[f[m]] /\ t[m] # x
    <3>1. \A m \in 1 .. Len(t) : f[m] # k /\ t[m] = s[f[m]]
      BY <1>1, <2>6
    <3> QED
      BY <2>1, <2>7, <3>1
  <2>9. \A m, n \in 1 .. Len(t) : m < n => f[m] < f[n]
    BY <1>1, <2>6
  <2>10. \A m \in 1 .. Len(s) : s[m] # x => \E n \in 1 .. Len(t) : t[n] = s[m]
    <3> SUFFICES ASSUME NEW m \in 1 .. Len(s), s[m] # x
                 PROVE  \E n \in 1 .. Len(t) : t[n] = s[m]
      OBVIOUS
    <3>1. CASE m < k
      <4>1. m \in 1 .. Len(t) /\ t[m] = s[m]
        BY <1>1, <2>6, <3>1
      <4> QED
        BY <4>1
    <3>2. CASE m > k
      <4>1. m - 1 \in 1 .. Len(t) /\ t[m - 1] = s[m]
        BY <1>1, <2>6, <3>2
      <4> QED
        BY <4>1
    <3> QED
      BY <1>1, <2>1, <3>1, <3>2
  <2> HIDE DEF f
  <2>11. \E g \in [1 .. Len(t) -> 1 .. Len(s)] :
            /\ \A m \in 1 .. Len(t) : t[m] = s[g[m]] /\ t[m] # x
            /\ \A m, n \in 1 .. Len(t) : m < n => g[m] < g[n]
    BY <2>7, <2>8, <2>9
  <2> QED
    BY <2>6, <2>10, <2>11 DEF Without
<1>3. CASE ~ \E k \in 1 .. Len(s) : s[k] = x
  <2>1. t = s
    BY <1>3 DEF RemoveFirst
  <2> DEFINE f == [m \in 1 .. Len(t) |-> m]
  <2>2. /\ f \in [1 .. Len(t) -> 1 .. Len(s)]
        /\ \A m \in 1 .. Len(t) : t[m] = s[f[m]] /\ t[m] # x
        /\ \A m, n \in 1 .. Len(t) : m < n => f[m] < f[n]
    BY <1>3, <2>1
  <2> HIDE DEF f
  <2> QED
    BY <2>1, <2>2 DEF Without
<1> QED
  BY <1>2, <1>3

(* InsertAt puts x in position n and leaves the others in their order.     *)
LEMMA InsertAtProperties ==
    ASSUME NEW S, NEW s \in Seq(S), NEW x \in S, NEW n \in 1 .. Len(s) + 1,
           NEW t, t = InsertAt(s, n, x)
    PROVE  /\ t \in Seq(S) /\ Len(t) = Len(s) + 1
           /\ \A m \in 1 .. Len(t) : /\ m < n => t[m] = s[m]
                                     /\ m = n => t[m] = x
                                     /\ m > n => t[m] = s[m - 1]
<1>1. Len(s) \in Nat
  BY LenProperties
<1> DEFINE a == SubSeq(s, 1, n - 1)
           b == SubSeq(s, n, Len(s))
<1>2. t = (a \o <<x>>) \o b
  BY DEF InsertAt
<1>3. a \in Seq(S) /\ Len(a) = n - 1 /\ \A m \in 1 .. n - 1 : a[m] = s[m]
  <2>1. \A m \in 1 .. n - 1 : m \in 1 .. Len(s)
    BY <1>1
  <2>2. \A m \in 1 .. n - 1 : s[m] \in S
    BY <2>1, ElementOfSeq
  <2>3. n - 1 \in Int
    BY <1>1
  <2>4. /\ a \in Seq(S) /\ Len(a) = IF 1 <= n - 1 THEN (n - 1) - 1 + 1 ELSE 0
        /\ \A m \in 1 .. (n - 1) - 1 + 1 : a[m] = s[1 + m - 1]
    BY <2>2, <2>3, SubSeqProperties
  <2> HIDE DEF a
  <2> QED
    BY <1>1, <2>4
<1>4. /\ b \in Seq(S) /\ Len(b) = Len(s) - n + 1
      /\ \A m \in 1 .. Len(s) - n + 1 : b[m] = s[m + n - 1]
  <2>1. \A m \in n .. Len(s) : m \in 1 .. Len(s)
    BY <1>1
  <2>2. \A m \in n .. Len(s) : s[m] \in S
    BY <2>1, ElementOfSeq
  <2>3. n \in Int /\ Len(s) \in Int
    BY <1>1
  <2>4. /\ b \in Seq(S)
        /\ Len(b) = IF n <= Len(s) THEN Len(s) - n + 1 ELSE 0
        /\ \A m \in 1 .. Len(s) - n + 1 : b[m] = s[n + m - 1]
    BY <2>2, <2>3, SubSeqProperties
  <2> HIDE DEF b
  <2> QED
    BY <1>1, <2>4
<1> HIDE DEF a, b
<1>5. \A u, v \in Seq(S) :
         /\ u \o v \in Seq(S) /\ Len(u \o v) = Len(u) + Len(v)
         /\ \A m \in 1 .. Len(u) + Len(v) :
               (u \o v)[m] = IF m <= Len(u) THEN u[m] ELSE v[m - Len(u)]
  BY ConcatProperties
<1>6. <<x>> \in Seq(S) /\ Len(<<x>>) = 1 /\ <<x>>[1] = x
  OBVIOUS
<1> DEFINE c == a \o <<x>>
<1>7. /\ c \in Seq(S) /\ Len(c) = n
      /\ \A m \in 1 .. n : c[m] = IF m < n THEN s[m] ELSE x
  <2>1. /\ c \in Seq(S) /\ Len(c) = Len(a) + Len(<<x>>)
        /\ \A m \in 1 .. Len(a) + Len(<<x>>) :
              c[m] = IF m <= Len(a) THEN a[m] ELSE <<x>>[m - Len(a)]
    BY <1>3, <1>5, <1>6
  <2> HIDE DEF c
  <2>2. Len(a) + Len(<<x>>) = n
    BY <1>1, <1>3, <1>6
  <2>3. ASSUME NEW m \in 1 .. n PROVE c[m] = IF m < n THEN s[m] ELSE x
    <3>1. CASE m < n
      <4>1. m <= Len(a) /\ m \in 1 .. n - 1
        BY <1>1, <1>3, <3>1
      <4> QED
        BY <1>3, <2>1, <2>2, <3>1, <4>1
    <3>2. CASE ~(m < n)
      <4>1. m = n /\ ~(m <= Len(a)) /\ m - Len(a) = 1
        BY <1>1, <1>3, <3>2
      <4> QED
        BY <1>6, <2>1, <2>2, <3>2, <4>1
    <3> QED
      BY <3>1, <3>2
  <2> QED
    BY <2>1, <2>2, <2>3
<1> HIDE DEF c
<1>8. /\ t \in Seq(S) /\ Len(t) = Len(c) + Len(b)
      /\ \A m \in 1 .. Len(c) + Len(b) : t[m] = IF m <= Len(c) THEN c[m] ELSE b[m - Len(c)]
  <2>1. t = c \o b
    BY <1>2 DEF c
  <2>2. c \in Seq(S) /\ b \in Seq(S)
    BY <1>4, <1>7
  <2> QED
    BY <1>5, <2>1, <2>2
<1>9. Len(t) = Len(s) + 1
  BY <1>1, <1>4, <1>7, <1>8
<1>10. ASSUME NEW m \in 1 .. Len(t)
       PROVE  /\ m < n => t[m] = s[m]
              /\ m = n => t[m] = x
              /\ m > n => t[m] = s[m - 1]
  <2>1. t[m] = IF m <= n THEN c[m] ELSE b[m - n]
    BY <1>7, <1>8
  <2>2. CASE m <= n
    <3>1. m \in 1 .. n
      BY <1>1, <2>2
    <3> QED
      BY <1>1, <1>7, <2>1, <2>2, <3>1
  <2>3. CASE ~(m <= n)
    <3>1. m - n \in 1 .. Len(s) - n + 1 /\ (m - n) + n - 1 = m - 1 /\ m > n
      BY <1>1, <1>9, <2>3
    <3> QED
      BY <1>1, <1>4, <2>1, <2>3, <3>1
  <2> QED
    BY <2>2, <2>3
<1> QED
  BY <1>1, <1>8, <1>9, <1>10

(* queue.add finds a slot that is free.                                    *)
LEMMA FreeSlot ==
    ASSUME FreeSlots # {}
    PROVE  Min(FreeSlots) \in Slots /\ entry[Min(FreeSlots)].state = "free"
<1>1. FreeSlots \subseteq Nat
  BY JobRunnerAssumption DEF FreeSlots
<1>2. Min(FreeSlots) \in FreeSlots
  BY <1>1, NatMin DEF Min
<1> QED
  BY <1>2 DEF FreeSlots

-----------------------------------------------------------------------------
(* Entries.                                                                *)

LEMMA DefTyped ==
    ASSUME TypeOK
    PROVE  /\ def.sequential \in BOOLEAN /\ def.limit \in Nat
           /\ def.attempts \in Nat /\ def.attempts >= 1
           /\ def.maxDefers \in Nat /\ def.maxCrashes \in Nat /\ def.maxSkews \in Nat
BY JobRunnerAssumption DEF TypeOK, JobDefType

(* What Entry makes of its arguments, and that it is an entry.             *)
LEMMA EntryTyped ==
    ASSUME TypeOK, NEW j \in Jobs \cup {NoJob}, NEW prior \in 0 .. def.attempts - 1,
           NEW attempts \in 1 .. def.attempts, NEW defers \in 0 .. def.maxDefers
    PROVE  LET e == Entry(j, prior, attempts, defers)
           IN  /\ e \in EntryType
               /\ e.job = j /\ e.state = "waiting" /\ e.made = 0
               /\ e.prior = prior /\ e.attempts = attempts
BY DefTyped DEF Entry, EntryType

LEMMA FreeTyped ==
    ASSUME TypeOK
    PROVE  Free \in EntryType /\ Free.state = "free"
BY DefTyped DEF Free, Entry, EntryType

LEMMA EntryFields ==
    ASSUME TypeOK, NEW i \in Slots
    PROVE  /\ entry[i] \in EntryType
           /\ entry[i].made \in Nat /\ entry[i].prior \in Nat /\ entry[i].attempts \in Nat
           /\ entry[i].job \in Jobs \cup {NoJob}
<1>1. def.attempts \in Nat
  BY DefTyped
<1>2. entry[i] \in EntryType
  BY DEF TypeOK
<1>3. /\ entry[i].made \in 0 .. def.attempts - 1 /\ entry[i].prior \in 0 .. def.attempts - 1
      /\ entry[i].attempts \in 1 .. def.attempts /\ entry[i].job \in Jobs \cup {NoJob}
  BY <1>2 DEF EntryType
<1> QED
  BY <1>1, <1>2, <1>3

(* queue.add of an entry e that no other entry carries the job of.         *)
LEMMA AddStep ==
    ASSUME IInv, NEW e \in EntryType, Add(e), UNCHANGED <<def, failures, doubled>>,
           dispatched \subseteq dispatched', dispatched' \subseteq Jobs,
           e.state = "waiting", e.job \in dispatched',
           e.prior + e.attempts = def.attempts, e.made < e.attempts,
           \A j \in Jobs \ dispatched' : failures[j] = 0,
           \A k \in Slots : run'[k] # "none" <=> run[k] # "none",
           \A k \in Slots : run[k] = "requeued" => run'[k] = "requeued",
           e.job \notin doubled => /\ failures[e.job] = e.prior + e.made
                                   /\ failures[e.job] <= def.attempts
                                   /\ \A k \in Slots : Carries(k, e.job) => run'[k] = "requeued"
    PROVE  entry' \in [Slots -> EntryType'] /\ EntryInv' /\ BudgetInv'
<1>1. PICK f \in Slots : entry[f].state = "free" /\ entry' = [entry EXCEPT ![f] = e]
  BY FreeSlot DEF Add
<1>2. run[f] = "none" /\ run'[f] = "none"
  BY <1>1 DEF IInv, EntryInv, TypeOK
<1>3. /\ entry'[f] = e
      /\ \A k \in Slots \ {f} : entry'[k] = entry[k]
      /\ EntryType' = EntryType
      /\ entry' \in [Slots -> EntryType']
  BY <1>1 DEF IInv, TypeOK, EntryType
<1>4. EntryInv'
  BY <1>1, <1>2, <1>3 DEF IInv, EntryInv
<1>5. BudgetInv'
  <2> SUFFICES ASSUME NEW j \in Jobs
               PROVE  /\ j \notin dispatched' => failures'[j] = 0
                      /\ j \notin doubled' =>
                            /\ failures'[j] <= def'.attempts
                            /\ (\A i \in Slots : Carries(i, j) =>
                                   failures[j] = entry[i].prior + entry[i].made)'
                            /\ (\A i, k \in Slots : Carries(i, j) /\ Carries(k, j) => i = k)'
    BY DEF BudgetInv
  <2>1. j \notin dispatched' => failures'[j] = 0
    OBVIOUS
  <2>2. \A k \in Slots \ {f} : Carries(k, j)' => Carries(k, j)
    BY <1>3 DEF Carries
  <2>3. CASE j = e.job
    <3>1. ASSUME j \notin doubled, NEW k \in Slots, Carries(k, j)'
          PROVE  k = f
      BY <2>2, <2>3, <3>1 DEF Carries
    <3> QED
      BY <1>3, <2>1, <2>3, <3>1 DEF Carries
  <2>4. CASE j # e.job
    <3>1. ~Carries(f, j)'
      BY <1>3, <2>4 DEF Carries
    <3>2. \A k \in Slots : Carries(k, j)' => k # f /\ Carries(k, j) /\ entry'[k] = entry[k]
      BY <1>3, <2>2, <3>1
    <3> QED
      BY <2>1, <3>2 DEF IInv, BudgetInv
  <2> QED
    BY <2>3, <2>4
<1> QED
  BY <1>3, <1>4, <1>5

(* The entry in slot i becomes e and its run is over: the entry is gone, or *)
(* it is still the one that carries its job, d failures later.             *)
LEMMA LeaveStep ==
    ASSUME IInv, NEW i \in Slots, NEW e \in EntryType,
           entry' = [entry EXCEPT ![i] = e], run' = [run EXCEPT ![i] = "none"],
           UNCHANGED <<def, dispatched, doubled>>,
           run[i] # "none", NEW d \in {0, 1},
           \A j \in Jobs : failures'[j] = IF j = entry[i].job THEN failures[j] + d ELSE failures[j],
           (d = 0 /\ e.state = "free") \/ run[i] # "requeued",
           \/ e.state = "free"
           \/ /\ e.job = entry[i].job /\ e.state = "waiting"
              /\ e.prior = entry[i].prior /\ e.attempts = entry[i].attempts
              /\ e.made = entry[i].made + d /\ e.made < e.attempts
    PROVE  entry' \in [Slots -> EntryType'] /\ EntryInv' /\ BudgetInv'
<1>1. /\ entry'[i] = e /\ run'[i] = "none"
      /\ \A k \in Slots \ {i} : entry'[k] = entry[k] /\ run'[k] = run[k]
      /\ EntryType' = EntryType
      /\ entry' \in [Slots -> EntryType']
  BY DEF IInv, TypeOK, EntryType
<1>2. /\ entry[i].state = "active" /\ entry[i].job \in dispatched
      /\ entry[i].prior + entry[i].attempts = def.attempts
      /\ entry[i].made < entry[i].attempts
  BY DEF IInv, EntryInv
<1>3. EntryInv'
  BY <1>1, <1>2 DEF IInv, EntryInv
<1>4. BudgetInv'
  <2> SUFFICES ASSUME NEW j \in Jobs
               PROVE  /\ j \notin dispatched' => failures'[j] = 0
                      /\ j \notin doubled' =>
                            /\ failures'[j] <= def'.attempts
                            /\ (\A k \in Slots : Carries(k, j) =>
                                   failures[j] = entry[k].prior + entry[k].made)'
                            /\ (\A k, n \in Slots : Carries(k, j) /\ Carries(n, j) => k = n)'
    BY DEF BudgetInv
  <2>1. failures[j] \in Nat /\ entry[i].made \in Nat /\ entry[i].prior \in Nat
        /\ entry[i].attempts \in Nat
    BY EntryFields DEF IInv, TypeOK
  <2>2. j \notin dispatched' => failures'[j] = 0
    BY <1>2 DEF IInv, BudgetInv
  <2>3. \A k \in Slots \ {i} : Carries(k, j)' <=> Carries(k, j)
    BY <1>1 DEF Carries
  <2>4. CASE j = entry[i].job
    <3>1. CASE run[i] # "requeued"
      <4>1. Carries(i, j)
        BY <1>2, <2>4, <3>1 DEF Carries
      <4>2. j \notin doubled => /\ failures[j] = entry[i].prior + entry[i].made
                                /\ \A k \in Slots : Carries(k, j) => k = i
        BY <4>1 DEF IInv, BudgetInv
      <4>3. j \notin doubled => \A k \in Slots : Carries(k, j)' => k = i /\ e.state # "free"
        BY <1>1, <2>3, <4>2 DEF Carries
      <4> QED
        BY <1>1, <1>2, <2>1, <2>2, <2>4, <4>2, <4>3 DEF IInv, BudgetInv
    <3>2. CASE run[i] = "requeued"
      <4>1. d = 0 /\ e.state = "free" /\ failures'[j] = failures[j]
        BY <2>1, <3>2
      <4>2. \A k \in Slots : Carries(k, j)' => k # i /\ Carries(k, j) /\ entry'[k] = entry[k]
        BY <1>1, <2>3, <4>1 DEF Carries
      <4> QED
        BY <2>2, <4>1, <4>2 DEF IInv, BudgetInv
    <3> QED
      BY <3>1, <3>2
  <2>5. CASE j # entry[i].job
    <3>1. j # e.job \/ e.state = "free"
      BY <2>5
    <3>2. \A k \in Slots : Carries(k, j)' => k # i /\ Carries(k, j) /\ entry'[k] = entry[k]
      BY <1>1, <2>3, <3>1 DEF Carries
    <3> QED
      BY <2>2, <2>5, <3>2 DEF IInv, BudgetInv
  <2> QED
    BY <2>4, <2>5
<1> QED
  BY <1>1, <1>3, <1>4

(* The run of entry i goes on to r.                                        *)
LEMMA MoveStep ==
    ASSUME IInv, NEW i \in Slots, NEW r, r \notin {"none", "requeued"}, run[i] # "none",
           run' = [run EXCEPT ![i] = r],
           UNCHANGED <<def, queueVars, dispatched, failures>>, doubled \subseteq doubled',
           run[i] = "requeued" => entry[i].job \in doubled'
    PROVE  entry' \in [Slots -> EntryType'] /\ EntryInv' /\ BudgetInv'
<1>1. /\ run'[i] = r /\ \A k \in Slots \ {i} : run'[k] = run[k]
      /\ entry' = entry /\ EntryType' = EntryType /\ entry \in [Slots -> EntryType]
  BY DEF IInv, TypeOK, EntryType, queueVars
<1>2. EntryInv'
  BY <1>1 DEF IInv, EntryInv
<1>3. ASSUME NEW j \in Jobs, j \notin doubled', NEW k \in Slots, Carries(k, j)'
      PROVE  Carries(k, j)
  BY <1>1, <1>3 DEF Carries
<1>4. BudgetInv'
  BY <1>1, <1>3 DEF IInv, BudgetInv
<1> QED
  BY <1>1, <1>2, <1>4

-----------------------------------------------------------------------------
(* The order of the active entries.                                        *)

LEMMA ActiveBeforeIs ==
    ASSUME TypeOK, NEW i \in Slots
    PROVE  /\ ActiveBefore(i) =
                {j \in Slots : \E m, n \in 1 .. Len(order) : m < n /\ order[m] = j /\ order[n] = i}
           /\ IsFiniteSet(ActiveBefore(i)) /\ Cardinality(ActiveBefore(i)) \in Nat
           /\ IsFiniteSet(InOrderBefore(i)) /\ Cardinality(InOrderBefore(i)) \in Nat
<1>1. DOMAIN order = 1 .. Len(order) /\ order \in Seq(Slots)
  BY LenProperties DEF TypeOK
<1>2. \A m \in 1 .. Len(order) : order[m] \in Slots
  BY <1>1, ElementOfSeq
<1>3. ActiveBefore(i) =
        {j \in Slots : \E m, n \in 1 .. Len(order) : m < n /\ order[m] = j /\ order[n] = i}
  BY <1>1, <1>2 DEF ActiveBefore, ToSet
<1>4. ActiveBefore(i) \subseteq Slots /\ InOrderBefore(i) \subseteq Slots
  BY <1>3 DEF InOrderBefore
<1> QED
  BY <1>3, <1>4, FS_Subset, FS_CardinalityType, JobRunnerAssumption

(* Fewer entries before i: still below the limit.                          *)
LEMMA FewerBefore ==
    ASSUME NEW A, IsFiniteSet(A), NEW B, B \subseteq A, NEW n \in Nat, Cardinality(A) < n
    PROVE  Cardinality(B) < n
BY FS_Subset, FS_CardinalityType

LEMMA LeaveOrder ==
    ASSUME IInv, NEW i \in Slots, order' = RemoveFirst(order, i), ahead' = ahead \ {i},
           run' = [run EXCEPT ![i] = "none"], def' = def
    PROVE  order' \in Seq(Slots) /\ OrderInv'
<1> USE DEF IInv
<1>1. order \in Seq(Slots) /\ \A m, n \in 1 .. Len(order) : order[m] = order[n] => m = n
  BY DEF TypeOK, OrderInv
<1>2. order' \in Seq(Slots) /\ Without(order, i, order')
  BY <1>1, RemoveFirstProperties
<1>3. PICK f \in [1 .. Len(order') -> 1 .. Len(order)] :
         /\ \A m \in 1 .. Len(order') : order'[m] = order[f[m]] /\ order'[m] # i
         /\ \A m, n \in 1 .. Len(order') : m < n => f[m] < f[n]
  BY <1>2 DEF Without
<1>4. Len(order) \in Nat /\ Len(order') \in Nat
  BY <1>1, <1>2, LenProperties
<1>5. \A m, n \in 1 .. Len(order') : order'[m] = order'[n] => m = n
  <2> SUFFICES ASSUME NEW m \in 1 .. Len(order'), NEW n \in 1 .. Len(order'),
                      order'[m] = order'[n], m < n
               PROVE  FALSE
    BY <1>4
  <2>1. f[m] = f[n] /\ f[m] < f[n] /\ f[m] \in 1 .. Len(order)
    BY <1>1, <1>3
  <2> QED
    BY <1>4, <2>1
<1>6. ASSUME def.limit > 0
      PROVE  /\ \A k \in Slots : run'[k] # "none" <=> \E m \in 1 .. Len(order') : order'[m] = k
             /\ (\A k \in Slots : PastGate(k) => Cardinality(InOrderBefore(k)) < def.limit)'
  <2>1. \A k \in Slots : run'[k] = IF k = i THEN "none" ELSE run[k]
    BY DEF TypeOK
  <2>2. \A k \in Slots : run[k] # "none" <=> \E m \in 1 .. Len(order) : order[m] = k
    BY <1>6 DEF OrderInv
  <2>3. \A k \in Slots : run'[k] # "none" <=> \E m \in 1 .. Len(order') : order'[m] = k
    <3> SUFFICES ASSUME NEW k \in Slots
                 PROVE  run'[k] # "none" <=> \E m \in 1 .. Len(order') : order'[m] = k
      OBVIOUS
    <3>1. CASE k = i
      BY <1>3, <2>1, <3>1
    <3>2. CASE k # i
      <4>1. ASSUME NEW m \in 1 .. Len(order), order[m] = k
            PROVE  \E n \in 1 .. Len(order') : order'[n] = k
        BY <1>2, <3>2, <4>1 DEF Without
      <4>2. ASSUME NEW m \in 1 .. Len(order'), order'[m] = k
            PROVE  \E n \in 1 .. Len(order) : order[n] = k
        BY <1>3, <4>2
      <4> QED
        BY <2>1, <2>2, <3>2, <4>1, <4>2
    <3> QED
      BY <3>1, <3>2
  <2>4. ASSUME NEW k \in Slots, PastGate(k)'
        PROVE  Cardinality(InOrderBefore(k)') < def.limit
    <3>1. k # i /\ PastGate(k)
      BY <2>1, <2>4 DEF PastGate
    <3>2. Cardinality(InOrderBefore(k)) < def.limit /\ def.limit \in Nat
      BY <1>6, <3>1, DefTyped DEF OrderInv
    <3>3. InOrderBefore(k)' \subseteq InOrderBefore(k)
      <4> SUFFICES ASSUME NEW j \in ActiveBefore(k)', j \notin ahead'
                   PROVE  j \in ActiveBefore(k) /\ j \notin ahead
        BY DEF InOrderBefore
      <4>1. DOMAIN order' = 1 .. Len(order')
        BY <1>2, LenProperties
      <4>2. PICK m \in 1 .. Len(order'), n \in 1 .. Len(order') :
               m < n /\ order'[m] = j /\ order'[n] = k
        BY <4>1 DEF ActiveBefore
      <4>3. /\ f[m] \in 1 .. Len(order) /\ f[n] \in 1 .. Len(order) /\ f[m] < f[n]
            /\ order[f[m]] = j /\ order[f[n]] = k
        BY <1>3, <4>2
      <4>4. j \in Slots /\ j # i
        BY <1>1, <1>3, <4>2, <4>3, ElementOfSeq
      <4> QED
        BY <4>3, <4>4, ActiveBeforeIs
    <3> QED
      BY <3>2, <3>3, FewerBefore, ActiveBeforeIs
  <2> QED
    BY <2>3, <2>4
<1> QED
  BY <1>2, <1>5, <1>6 DEF OrderInv

(* Wherever the new entry sorts: if it is before others it is ahead, so    *)
(* those past the gate have no more entries before them that count.        *)
LEMMA PickUpOrder ==
    ASSUME IInv, NEW i \in Slots, PickUp(i)
    PROVE  /\ order' \in Seq(Slots) /\ ahead' \subseteq Slots /\ skews' \in 0 .. def.maxSkews
           /\ OrderInv'
<1> USE DEF IInv
<1>1. /\ run[i] = "none" /\ run' = [run EXCEPT ![i] = "picked"] /\ def' = def
      /\ IF def.limit > 0 THEN SetProcessedOn(i) ELSE UNCHANGED orderVars
      /\ order \in Seq(Slots) /\ Len(order) \in Nat
      /\ ahead \subseteq Slots /\ skews \in 0 .. def.maxSkews /\ def.maxSkews \in Nat
  BY LenProperties, DefTyped DEF PickUp, TypeOK
<1>2. CASE ~(def.limit > 0)
  BY <1>1, <1>2 DEF OrderInv, orderVars
<1>3. CASE def.limit > 0
  <2>1. PICK n \in 1 .. Len(order) + 1 :
           /\ order' = InsertAt(order, n, i)
           /\ \/ n = Len(order) + 1 /\ UNCHANGED <<ahead, skews>>
              \/ /\ n <= Len(order)
                 /\ skews < def.maxSkews
                 /\ skews' = skews + 1
                 /\ ahead' = ahead \cup {i}
    BY <1>1, <1>3 DEF SetProcessedOn
  <2>2. ahead \subseteq ahead' /\ ahead' \subseteq Slots /\ skews' \in 0 .. def.maxSkews
    BY <1>1, <2>1
  <2>3. /\ order' \in Seq(Slots) /\ Len(order') = Len(order) + 1
        /\ \A m \in 1 .. Len(order') : /\ m < n => order'[m] = order[m]
                                       /\ m = n => order'[m] = i
                                       /\ m > n => order'[m] = order[m - 1]
    <3> DEFINE t == InsertAt(order, n, i)
    <3>1. order \in Seq(Slots) /\ i \in Slots /\ n \in 1 .. Len(order) + 1 /\ order' = t
      BY <1>1, <2>1
    <3>2. /\ t \in Seq(Slots) /\ Len(t) = Len(order) + 1
          /\ \A m \in 1 .. Len(t) : /\ m < n => t[m] = order[m]
                                    /\ m = n => t[m] = i
                                    /\ m > n => t[m] = order[m - 1]
      BY <3>1, InsertAtProperties
    <3> HIDE DEF t
    <3> QED
      BY <3>1, <3>2
  <2>4. /\ \A k \in Slots : run[k] # "none" <=> \E m \in 1 .. Len(order) : order[m] = k
        /\ \A m \in 1 .. Len(order) : order[m] # i
    BY <1>1, <1>3 DEF OrderInv
  <2>5. ASSUME NEW m \in 1 .. Len(order')
        PROVE  /\ m < n => m \in 1 .. Len(order) /\ order'[m] = order[m] /\ order'[m] # i
               /\ m = n => order'[m] = i
               /\ m > n => m - 1 \in 1 .. Len(order) /\ order'[m] = order[m - 1] /\ order'[m] # i
    <3>1. /\ m < n => m \in 1 .. Len(order)
          /\ m > n => m - 1 \in 1 .. Len(order)
      BY <1>1, <2>3
    <3> QED
      BY <1>1, <2>3, <2>4, <3>1
  <2>6. ASSUME NEW m \in 1 .. Len(order)
        PROVE  \E p \in 1 .. Len(order') : order'[p] = order[m]
    <3>1. CASE m < n
      <4>1. m \in 1 .. Len(order')
        BY <1>1, <2>3
      <4> QED
        BY <2>5, <3>1, <4>1
    <3>2. CASE ~(m < n)
      <4>1. m + 1 \in 1 .. Len(order') /\ m + 1 > n /\ (m + 1) - 1 = m
        BY <1>1, <2>3, <3>2
      <4> QED
        BY <2>5, <4>1
    <3> QED
      BY <3>1, <3>2
  <2>7. \A m, p \in 1 .. Len(order') : order'[m] = order'[p] => m = p
    <3> SUFFICES ASSUME NEW m \in 1 .. Len(order'), NEW p \in 1 .. Len(order'),
                        order'[m] = order'[p]
                 PROVE  m = p
      OBVIOUS
    <3>1. \A a, b \in 1 .. Len(order) : order[a] = order[b] => a = b
      BY DEF OrderInv
    <3>2. m \in Nat /\ p \in Nat /\ n \in Nat
      BY <1>1, <2>3
    <3>3. CASE m = n \/ p = n
      BY <2>5, <3>2, <3>3
    <3>4. CASE m < n /\ p < n
      BY <2>5, <3>1, <3>4
    <3>5. CASE m > n /\ p > n
      <4>1. m - 1 = p - 1
        BY <2>5, <3>1, <3>5
      <4> QED
        BY <3>2, <4>1
    <3>6. CASE m < n /\ p > n
      <4>1. m = p - 1
        BY <2>5, <3>1, <3>6
      <4> QED
        BY <3>2, <3>6, <4>1
    <3>7. CASE m > n /\ p < n
      <4>1. m - 1 = p
        BY <2>5, <3>1, <3>7
      <4> QED
        BY <3>2, <3>7, <4>1
    <3> QED
      BY <3>2, <3>3, <3>4, <3>5, <3>6, <3>7
  <2>8. \A k \in Slots : run'[k] = IF k = i THEN "picked" ELSE run[k]
    BY <1>1 DEF TypeOK
  <2>9. \A k \in Slots : run'[k] # "none" <=> \E m \in 1 .. Len(order') : order'[m] = k
    <3> SUFFICES ASSUME NEW k \in Slots
                 PROVE  run'[k] # "none" <=> \E m \in 1 .. Len(order') : order'[m] = k
      OBVIOUS
    <3>1. CASE k = i
      <4>1. n \in 1 .. Len(order')
        BY <1>1, <2>3
      <4> QED
        BY <2>5, <2>8, <3>1, <4>1
    <3>2. CASE k # i
      <4>1. ASSUME NEW m \in 1 .. Len(order'), order'[m] = k
            PROVE  \E p \in 1 .. Len(order) : order[p] = k
        <5>1. m < n \/ m > n
          BY <1>1, <2>3, <2>5, <3>2, <4>1
        <5> QED
          BY <2>5, <4>1, <5>1
      <4> QED
        BY <2>4, <2>6, <2>8, <3>2, <4>1
    <3> QED
      BY <3>1, <3>2
  <2>10. ASSUME NEW k \in Slots, PastGate(k)'
         PROVE  Cardinality(InOrderBefore(k)') < def.limit
    <3>1. k # i /\ PastGate(k)
      BY <2>8, <2>10 DEF PastGate
    <3>2. Cardinality(InOrderBefore(k)) < def.limit /\ def.limit \in Nat
      BY <1>3, <3>1, DefTyped DEF OrderInv
    <3>3. InOrderBefore(k)' \subseteq InOrderBefore(k)
      <4> SUFFICES ASSUME NEW j \in ActiveBefore(k)', j \notin ahead'
                   PROVE  j \in ActiveBefore(k) /\ j \notin ahead
        BY DEF InOrderBefore
      <4>1. DOMAIN order' = 1 .. Len(order')
        BY <2>3, LenProperties
      <4>2. PICK m \in 1 .. Len(order'), p \in 1 .. Len(order') :
               m < p /\ order'[m] = j /\ order'[p] = k
        BY <4>1 DEF ActiveBefore
      <4>3. m \in Nat /\ p \in Nat /\ n \in Nat
        BY <1>1, <2>3
      <4>4. p # n
        BY <2>5, <3>1, <4>2
      <4>5. m # n
        <5> SUFFICES ASSUME m = n PROVE FALSE
          OBVIOUS
        <5>1. j = i /\ n = Len(order) + 1
          BY <2>1, <2>5, <4>2
        <5> QED
          BY <1>1, <2>3, <4>2, <5>1
      <4>6. \E a, b \in 1 .. Len(order) : a < b /\ order[a] = j /\ order[b] = k
        <5>1. CASE p < n
          BY <2>5, <4>2, <4>3, <5>1
        <5>2. CASE m < n /\ p > n
          <6>1. m < p - 1
            BY <4>3, <5>2
          <6> QED
            BY <2>5, <4>2, <5>2, <6>1
        <5>3. CASE m > n /\ p > n
          <6>1. m - 1 < p - 1
            BY <4>2, <4>3
          <6> QED
            BY <2>5, <4>2, <5>3, <6>1
        <5> QED
          BY <4>2, <4>3, <4>4, <4>5, <5>1, <5>2, <5>3
      <4>7. j \in Slots
        BY <1>1, <4>6, ElementOfSeq
      <4> QED
        BY <2>2, <4>6, <4>7, ActiveBeforeIs
    <3> QED
      BY <3>2, <3>3, FewerBefore, ActiveBeforeIs
  <2> QED
    BY <1>1, <2>2, <2>3, <2>7, <2>9, <2>10 DEF OrderInv
<1> QED
  BY <1>2, <1>3

(* A run that goes on was past the gate, or is found under the limit.      *)
LEMMA MoveOrder ==
    ASSUME IInv, NEW i \in Slots, NEW r, r # "none", run[i] # "none",
           run' = [run EXCEPT ![i] = r], UNCHANGED <<def, order, ahead>>,
           r = "dead" \/ PastGate(i) \/ ~IsOverPerTenantLimit(i)
    PROVE  OrderInv'
<1>1. \A k \in Slots : run'[k] = IF k = i THEN r ELSE run[k]
  BY DEF IInv, TypeOK
<1>2. \A k \in Slots : InOrderBefore(k)' = InOrderBefore(k)
  BY DEF InOrderBefore, ActiveBefore
<1>3. ASSUME def.limit > 0, NEW k \in Slots, PastGate(k)'
      PROVE  Cardinality(InOrderBefore(k)) < def.limit
  <2>1. CASE PastGate(k)
    BY <1>3, <2>1 DEF IInv, OrderInv
  <2>2. CASE ~PastGate(k)
    <3>1. k = i /\ ~IsOverPerTenantLimit(i)
      BY <1>1, <1>3, <2>2 DEF PastGate
    <3>2. def.limit \in Nat /\ Cardinality(ActiveBefore(k)) \in Nat
      BY DefTyped, ActiveBeforeIs DEF IInv
    <3>3. Cardinality(ActiveBefore(k)) < def.limit
      BY <1>3, <3>1, <3>2 DEF IsOverPerTenantLimit
    <3>4. InOrderBefore(k) \subseteq ActiveBefore(k)
      BY DEF InOrderBefore
    <3> QED
      BY <3>2, <3>3, <3>4, FewerBefore, ActiveBeforeIs DEF IInv
  <2> QED
    BY <2>1, <2>2
<1> QED
  BY <1>1, <1>2, <1>3 DEF IInv, OrderInv

-----------------------------------------------------------------------------
(* The lock.                                                               *)

(* A step that starts no handler and leaves the lock alone.                *)
LEMMA LockFrame ==
    ASSUME IInv, UNCHANGED <<def, lockVars>>,
           \A i \in Slots : def.sequential /\ run'[i] = "running" => run[i] = "running"
    PROVE  LockInv'
BY DEF IInv, LockInv, lockVars

(* A run that ends, or whose worker dies, drops its token or leaves it to  *)
(* a release that is still to come.                                        *)
LEMMA TokenDropped ==
    ASSUME IInv, NEW i \in Slots, NEW r, r # "running", run' = [run EXCEPT ![i] = r],
           token' = [token EXCEPT ![i] = NoToken], lapsed' = lapsed \ {i},
           UNCHANGED <<def, lock>>,
           releasing' \subseteq releasing \cup ({token[i]} \ {NoToken})
    PROVE  /\ token' \in [Slots -> Tokens \cup {NoToken}]
           /\ releasing' \subseteq Tokens
           /\ LockInv'
<1>1. /\ \A k \in Slots : token'[k] = IF k = i THEN NoToken ELSE token[k]
      /\ \A k \in Slots : run'[k] = IF k = i THEN r ELSE run[k]
      /\ token' \in [Slots -> Tokens \cup {NoToken}]
  BY DEF IInv, TypeOK
<1>2. releasing' \subseteq Tokens /\ NoToken \notin releasing'
  BY JobRunnerAssumption DEF IInv, TypeOK
<1>3. \A k \in Slots : token'[k] \notin releasing'
  BY <1>1, <1>2 DEF IInv, LockInv
<1> QED
  BY <1>1, <1>2, <1>3 DEF IInv, LockInv

(* releaseScript deletes only the value of the run that asks: others keep  *)
(* the lock, and whoever had lost it had lost it before.                   *)
LEMMA LockReleased ==
    ASSUME IInv, NEW t \in Tokens \cup {NoToken}, lock' = LockAfterRelease(t),
           UNCHANGED <<def, lapsed>>, releasing' \subseteq releasing,
           \A k \in Slots : (token'[k] = token[k] /\ token[k] # t) \/ token'[k] = NoToken,
           \A k \in Slots : run'[k] = "running" => run[k] = "running" /\ token'[k] = token[k]
    PROVE  lock' \in Tokens \cup {NoToken} /\ LockInv'
<1>1. lock' = IF lock = t THEN NoToken ELSE lock
  BY DEF LockAfterRelease
<1>2. NoToken \notin releasing'
  BY JobRunnerAssumption DEF IInv, TypeOK
<1> QED
  BY <1>1, <1>2 DEF IInv, LockInv, TypeOK

-----------------------------------------------------------------------------
(* One step per action.                                                    *)

LEMMA DispatchStep ==
    ASSUME IInv, NEW j \in Jobs, Dispatch(j)
    PROVE  IInv'
<1> DEFINE e == Entry(j, 0, def.attempts, 0)
<1>1. def.attempts \in Nat /\ def.attempts >= 1 /\ def.maxDefers \in Nat
  BY DefTyped DEF IInv
<1>2. /\ e \in EntryType /\ e.job = j /\ e.state = "waiting" /\ e.made = 0
      /\ e.prior = 0 /\ e.attempts = def.attempts
  BY <1>1, EntryTyped DEF IInv
<1>3. /\ Add(e) /\ dispatched' = dispatched \cup {j} /\ j \notin dispatched
      /\ UNCHANGED <<def, orderVars, run, lockVars, histVars>>
  BY DEF Dispatch
<1> HIDE DEF e
<1>4. /\ \A k \in Slots : ~Carries(k, j)
      /\ failures[j] = 0 /\ failures \in [Jobs -> Nat]
      /\ \A k \in Jobs \ dispatched : failures[k] = 0
      /\ dispatched' \subseteq Jobs
  BY <1>3 DEF IInv, EntryInv, BudgetInv, Carries, TypeOK
<1>5. entry' \in [Slots -> EntryType'] /\ EntryInv' /\ BudgetInv'
  BY <1>1, <1>2, <1>3, <1>4, AddStep DEF histVars
<1>6. TypeOK'
  BY <1>3, <1>4, <1>5 DEF IInv, TypeOK, orderVars, lockVars, histVars
<1>7. LockInv'
  BY <1>3, LockFrame
<1>8. OrderInv'
  BY <1>3 DEF IInv, OrderInv, PastGate, InOrderBefore, ActiveBefore, orderVars
<1> QED
  BY <1>5, <1>6, <1>7, <1>8 DEF IInv

LEMMA PickUpStep ==
    ASSUME IInv, NEW i \in Slots, PickUp(i)
    PROVE  IInv'
<1>1. /\ entry[i].state = "waiting" /\ run[i] = "none"
      /\ entry' = [entry EXCEPT ![i].state = "active"]
      /\ run' = [run EXCEPT ![i] = "picked"]
      /\ UNCHANGED <<def, lockVars, dispatched, histVars>>
  BY DEF PickUp
<1>2. /\ order' \in Seq(Slots) /\ ahead' \subseteq Slots /\ skews' \in 0 .. def.maxSkews
      /\ OrderInv'
  BY PickUpOrder
<1>3. entry \in [Slots -> EntryType] /\ EntryType' = EntryType
  BY <1>1 DEF IInv, TypeOK, EntryType
<1>4. /\ entry' \in [Slots -> EntryType']
      /\ entry'[i].state = "active" /\ entry'[i].job = entry[i].job
      /\ entry'[i].prior = entry[i].prior /\ entry'[i].made = entry[i].made
      /\ entry'[i].attempts = entry[i].attempts
      /\ \A k \in Slots \ {i} : entry'[k] = entry[k] /\ run'[k] = run[k]
      /\ run'[i] = "picked"
  <2> DEFINE e == [entry[i] EXCEPT !.state = "active"]
  <2>1. /\ e \in EntryType /\ e.state = "active" /\ e.job = entry[i].job
        /\ e.prior = entry[i].prior /\ e.made = entry[i].made /\ e.attempts = entry[i].attempts
    BY <1>3 DEF EntryType
  <2>2. entry' = [entry EXCEPT ![i] = e]
    BY <1>1
  <2> HIDE DEF e
  <2> QED
    BY <1>1, <1>3, <2>1, <2>2 DEF IInv, TypeOK
<1>5. EntryInv'
  BY <1>1, <1>4 DEF IInv, EntryInv
<1>6. \A k \in Slots, j \in Jobs : Carries(k, j)' <=> Carries(k, j)
  BY <1>1, <1>4 DEF Carries
<1>7. \A k \in Slots : entry'[k].prior = entry[k].prior /\ entry'[k].made = entry[k].made
  BY <1>4
<1>8. BudgetInv'
  BY <1>1, <1>6, <1>7 DEF IInv, BudgetInv, histVars
<1>9. TypeOK'
  BY <1>1, <1>2, <1>4 DEF IInv, TypeOK, lockVars, histVars
<1>10. LockInv'
  BY <1>1, <1>4, LockFrame
<1> QED
  BY <1>2, <1>5, <1>8, <1>9, <1>10 DEF IInv

(* Leave, with what happens around it.                                     *)
LEMMA LeaveIInv ==
    ASSUME IInv, NEW i \in Slots, NEW e \in EntryType, Leave(i, e),
           UNCHANGED <<def, lock, dispatched, crashes, doubled>>,
           run[i] # "none", NEW d \in {0, 1},
           \/ d = 0 /\ failures' = failures
           \/ d = 1 /\ failures' = [failures EXCEPT ![entry[i].job] = @ + 1],
           releasing' \subseteq releasing \cup ({token[i]} \ {NoToken}),
           settled' \subseteq settled \cup {entry[i].job},
           (d = 0 /\ e.state = "free") \/ run[i] # "requeued",
           \/ e.state = "free"
           \/ /\ e.job = entry[i].job /\ e.state = "waiting"
              /\ e.prior = entry[i].prior /\ e.attempts = entry[i].attempts
              /\ e.made = entry[i].made + d /\ e.made < e.attempts
    PROVE  IInv'
<1>1. /\ entry' = [entry EXCEPT ![i] = e] /\ order' = RemoveFirst(order, i)
      /\ run' = [run EXCEPT ![i] = "none"] /\ token' = [token EXCEPT ![i] = NoToken]
      /\ lapsed' = lapsed \ {i} /\ ahead' = ahead \ {i} /\ skews' = skews
  BY DEF Leave
<1>2. entry[i].job \in Jobs /\ entry[i].job \in dispatched
  BY DEF IInv, EntryInv, TypeOK
<1>3. /\ failures' \in [Jobs -> Nat]
      /\ \A j \in Jobs : failures'[j] = IF j = entry[i].job THEN failures[j] + d ELSE failures[j]
  <2>1. failures \in [Jobs -> Nat]
    BY DEF IInv, TypeOK
  <2> QED
    BY <1>2, <2>1
<1>4. entry' \in [Slots -> EntryType'] /\ EntryInv' /\ BudgetInv'
  BY <1>1, <1>3, LeaveStep
<1>5. order' \in Seq(Slots) /\ OrderInv'
  BY <1>1, LeaveOrder
<1>6. /\ token' \in [Slots -> Tokens \cup {NoToken}] /\ releasing' \subseteq Tokens
      /\ LockInv'
  BY <1>1, TokenDropped
<1>7. TypeOK'
  BY <1>1, <1>2, <1>3, <1>4, <1>5, <1>6 DEF IInv, TypeOK
<1> QED
  BY <1>4, <1>5, <1>6, <1>7 DEF IInv

(* The actions with which the entry leaves the active list.                *)
LEMMA LeavingSteps ==
    ASSUME IInv, NEW i \in Slots,
           \/ DeferOverTenantLimit(i) \/ HandlerDefers(i) \/ Complete(i)
           \/ Retry(i) \/ FailForGood(i) \/ Stalled(i)
    PROVE  IInv'
<1>1. /\ entry[i] \in EntryType
      /\ entry[i].made \in Nat /\ entry[i].prior \in Nat /\ entry[i].attempts \in Nat
  BY EntryFields DEF IInv
<1>2. Free \in EntryType /\ Free.state = "free"
  BY FreeTyped DEF IInv
<1>3. ASSUME run[i] # "none"
      PROVE  /\ entry[i].made < entry[i].attempts
             /\ entry[i].prior + entry[i].attempts = def.attempts
  BY <1>3 DEF IInv, EntryInv
<1>4. def.attempts \in Nat /\ def.maxDefers \in Nat
  BY DefTyped DEF IInv
<1>5. CASE DeferOverTenantLimit(i)
  <2> DEFINE e == [entry[i] EXCEPT !.state = "waiting"]
  <2>1. /\ e \in EntryType /\ e.state = "waiting" /\ e.job = entry[i].job
        /\ e.prior = entry[i].prior /\ e.attempts = entry[i].attempts /\ e.made = entry[i].made
    BY <1>1 DEF EntryType
  <2>2. /\ run[i] = "picked" /\ Leave(i, e)
        /\ UNCHANGED <<def, lock, releasing, dispatched, histVars>>
    BY <1>5 DEF DeferOverTenantLimit
  <2> HIDE DEF e
  <2>3. e.made = entry[i].made + 0
    BY <1>1, <2>1
  <2> QED
    BY <1>3, <2>1, <2>2, <2>3, LeaveIInv DEF histVars
<1>6. CASE HandlerDefers(i)
  <2> DEFINE e == [entry[i] EXCEPT !.state = "waiting", !.defers = @ + 1]
  <2>1. entry[i].defers \in 0 .. def.maxDefers /\ entry[i].defers + 1 \in 0 .. def.maxDefers
    BY <1>1, <1>4, <1>6 DEF EntryType, HandlerDefers, HasDeferBudgetLeft
  <2>2. /\ e \in EntryType /\ e.state = "waiting" /\ e.job = entry[i].job
        /\ e.prior = entry[i].prior /\ e.attempts = entry[i].attempts /\ e.made = entry[i].made
    BY <1>1, <2>1 DEF EntryType
  <2>3. /\ run[i] = "running" /\ Leave(i, e)
        /\ releasing' = releasing \cup ({token[i]} \ {NoToken})
        /\ UNCHANGED <<def, lock, dispatched, histVars>>
    BY <1>6 DEF HandlerDefers
  <2> HIDE DEF e
  <2>4. e.made = entry[i].made + 0
    BY <1>1, <2>2
  <2> QED
    BY <1>3, <2>2, <2>3, <2>4, LeaveIInv DEF histVars
<1>7. CASE Complete(i)
  <2>1. /\ run[i] \in {"released", "requeued"} /\ Leave(i, Free)
        /\ UNCHANGED <<def, lock, releasing, dispatched, histVars>>
    BY <1>7 DEF Complete
  <2> QED
    BY <1>2, <2>1, LeaveIInv DEF histVars
<1>8. CASE Retry(i)
  <2> DEFINE e == [entry[i] EXCEPT !.state = "waiting", !.made = @ + 1]
  <2>1. /\ run[i] = "failing" /\ Leave(i, e) /\ entry[i].made + 1 < entry[i].attempts
        /\ failures' = [failures EXCEPT ![entry[i].job] = @ + 1]
        /\ UNCHANGED <<def, lock, releasing, dispatched, settled, crashes, doubled>>
    BY <1>8 DEF Retry, RetriesLeft
  <2>2. entry[i].made + 1 \in 0 .. def.attempts - 1
    BY <1>1, <1>3, <1>4, <2>1
  <2>3. /\ e \in EntryType /\ e.state = "waiting" /\ e.job = entry[i].job
        /\ e.prior = entry[i].prior /\ e.attempts = entry[i].attempts
        /\ e.made = entry[i].made + 1
    BY <1>1, <2>2 DEF EntryType
  <2> HIDE DEF e
  <2> QED
    BY <2>1, <2>3, LeaveIInv
<1>9. CASE FailForGood(i)
  <2>1. /\ run[i] \in {"unrecovered", "failing"} /\ Leave(i, Free)
        /\ failures' = [failures EXCEPT ![entry[i].job] = @ + 1]
        /\ settled' = settled \cup {entry[i].job}
        /\ UNCHANGED <<def, lock, releasing, dispatched, crashes, doubled>>
    BY <1>9 DEF FailForGood
  <2> QED
    BY <1>2, <2>1, LeaveIInv
<1>10. CASE Stalled(i)
  <2>1. /\ run[i] = "dead"
        /\ UNCHANGED <<def, lock, releasing, dispatched, failures, crashes, doubled>>
    BY <1>10 DEF Stalled
  <2>2. CASE entry[i].stalls = 0
    <3> DEFINE e == [entry[i] EXCEPT !.state = "waiting", !.stalls = 1]
    <3>1. /\ e \in EntryType /\ e.state = "waiting" /\ e.job = entry[i].job
          /\ e.prior = entry[i].prior /\ e.attempts = entry[i].attempts /\ e.made = entry[i].made
      <4>1. 1 \in 0 .. 1
        OBVIOUS
      <4> QED
        BY <1>1, <4>1 DEF EntryType
    <3>2. Leave(i, e) /\ settled' = settled
      BY <1>10, <2>2 DEF Stalled
    <3> HIDE DEF e
    <3>3. e.made = entry[i].made + 0
      BY <1>1, <3>1
    <3> QED
      BY <1>3, <2>1, <3>1, <3>2, <3>3, LeaveIInv
  <2>3. CASE entry[i].stalls # 0
    <3>1. Leave(i, Free) /\ settled' = settled \cup {entry[i].job}
      BY <1>10, <2>3 DEF Stalled
    <3> QED
      BY <1>2, <2>1, <3>1, LeaveIInv
  <2> QED
    BY <2>2, <2>3
<1> QED
  BY <1>5, <1>6, <1>7, <1>8, <1>9, <1>10

RunStates == {"none", "picked", "claiming", "running", "ok", "threw", "unrecoverable",
              "requeued", "released", "failing", "unrecovered", "dead"}

(* The actions with which the run goes on and the entry stays as it is.    *)
LEMMA MovingSteps ==
    ASSUME IInv, NEW i \in Slots,
           \/ PassTenantLimit(i) \/ RunInParallel(i) \/ ClaimSequentialSlot(i)
           \/ HandlerReturns(i) \/ HandlerThrows(i) \/ HandlerDefersTooOften(i)
           \/ ReleaseSequentialSlot(i) \/ Crash(i)
    PROVE  IInv'
<1>1. ASSUME NEW r \in RunStates, r \notin {"none", "requeued"}, run[i] # "none",
             run' = [run EXCEPT ![i] = r],
             UNCHANGED <<def, queueVars, dispatched, failures>>,
             doubled \subseteq doubled', doubled' \subseteq Jobs,
             run[i] = "requeued" => entry[i].job \in doubled',
             r = "dead" \/ PastGate(i) \/ ~IsOverPerTenantLimit(i),
             settled' \subseteq settled \cup {entry[i].job},
             crashes' \in 0 .. def.maxCrashes,
             token' \in [Slots -> Tokens \cup {NoToken}], lock' \in Tokens \cup {NoToken},
             releasing' \subseteq Tokens, lapsed' \subseteq Slots, LockInv'
      PROVE  IInv'
  <2>1. entry' \in [Slots -> EntryType'] /\ EntryInv' /\ BudgetInv'
    BY <1>1, MoveStep
  <2>2. OrderInv'
    BY <1>1, MoveOrder DEF queueVars, orderVars
  <2>3. entry[i].job \in Jobs
    BY <1>1 DEF IInv, EntryInv, TypeOK
  <2>4. run' \in [Slots -> RunStates]
    BY <1>1 DEF IInv, TypeOK, RunStates
  <2>5. TypeOK'
    BY <1>1, <2>1, <2>3, <2>4 DEF IInv, TypeOK, queueVars, orderVars, RunStates
  <2> QED
    BY <1>1, <2>1, <2>2, <2>5 DEF IInv
<1>2. /\ token \in [Slots -> Tokens \cup {NoToken}] /\ lock \in Tokens \cup {NoToken}
      /\ releasing \subseteq Tokens /\ lapsed \subseteq Slots /\ doubled \subseteq Jobs
      /\ crashes \in 0 .. def.maxCrashes /\ run \in [Slots -> RunStates]
  BY DEF IInv, TypeOK, RunStates
<1>3. ASSUME NEW r \in RunStates \ {"none", "requeued"}, run[i] \notin {"none", "requeued"},
             r = "running" => ~def.sequential, run' = [run EXCEPT ![i] = r],
             UNCHANGED <<def, queueVars, lockVars, dispatched, failures, crashes, doubled>>,
             settled' \subseteq settled \cup {entry[i].job},
             PastGate(i) \/ ~IsOverPerTenantLimit(i)
      PROVE  IInv'
  <2>1. \A k \in Slots : def.sequential /\ run'[k] = "running" => run[k] = "running"
    BY <1>2, <1>3
  <2>2. LockInv'
    BY <1>3, <2>1, LockFrame
  <2> QED
    BY <1>1, <1>2, <1>3, <2>2 DEF lockVars
<1>4. CASE PassTenantLimit(i)
  BY <1>3, <1>4 DEF PassTenantLimit, histVars, RunStates
<1>5. CASE RunInParallel(i)
  BY <1>3, <1>5 DEF RunInParallel, histVars, RunStates, PastGate
<1>6. CASE HandlerReturns(i) \/ HandlerThrows(i) \/ HandlerDefersTooOften(i)
  BY <1>3, <1>6 DEF HandlerReturns, HandlerThrows, HandlerDefersTooOften, histVars, RunStates, PastGate
<1>7. CASE ClaimSequentialSlot(i)
  <2>1. /\ run[i] = "claiming" /\ lock = NoToken /\ run' = [run EXCEPT ![i] = "running"]
        /\ lock' \in Tokens /\ lock' \notin TokensInUse
        /\ token' = [token EXCEPT ![i] = lock']
        /\ UNCHANGED <<def, queueVars, releasing, lapsed, dispatched, histVars>>
    BY <1>7 DEF ClaimSequentialSlot
  <2>2. /\ \A k \in Slots : token'[k] = IF k = i THEN lock' ELSE token[k]
        /\ \A k \in Slots : token[k] # lock'
        /\ lock' \notin releasing /\ lock' # NoToken
        /\ token' \in [Slots -> Tokens \cup {NoToken}]
        /\ \A k \in Slots : run'[k] = IF k = i THEN "running" ELSE run[k]
    BY <1>2, <2>1, JobRunnerAssumption DEF TokensInUse
  <2>3. LockInv'
    BY <2>1, <2>2 DEF IInv, LockInv
  <2> QED
    BY <1>1, <1>2, <2>1, <2>2, <2>3 DEF histVars, RunStates, PastGate
<1>8. CASE ReleaseSequentialSlot(i)
  <2>1. /\ run[i] \in {"ok", "threw", "unrecoverable"}
        /\ run' = [run EXCEPT ![i] = AfterRelease(run[i])]
        /\ lock' = LockAfterRelease(token[i]) /\ token' = [token EXCEPT ![i] = NoToken]
        /\ UNCHANGED <<def, queueVars, releasing, lapsed, dispatched, histVars>>
    BY <1>8 DEF ReleaseSequentialSlot
  <2>2. AfterRelease(run[i]) \in {"released", "failing", "unrecovered"}
    BY <2>1 DEF AfterRelease
  <2>3. /\ token[i] \in Tokens \cup {NoToken}
        /\ token' \in [Slots -> Tokens \cup {NoToken}]
        /\ \A k \in Slots : (token'[k] = token[k] /\ token[k] # token[i]) \/ token'[k] = NoToken
        /\ \A k \in Slots : run'[k] = "running" => run[k] = "running" /\ token'[k] = token[k]
    BY <1>2, <2>1, <2>2 DEF IInv, LockInv
  <2>4. lock' \in Tokens \cup {NoToken} /\ LockInv'
    BY <2>1, <2>3, LockReleased
  <2>5. AfterRelease(run[i]) \in RunStates
    BY <2>2 DEF RunStates
  <2> QED
    BY <1>1, <1>2, <2>1, <2>2, <2>3, <2>4, <2>5 DEF histVars, PastGate
<1>9. CASE Crash(i)
  <2>1. /\ crashes < def.maxCrashes /\ run[i] \notin {"none", "dead"} /\ crashes' = crashes + 1
        /\ run' = [run EXCEPT ![i] = "dead"] /\ token' = [token EXCEPT ![i] = NoToken]
        /\ lapsed' = lapsed \ {i}
        /\ doubled' = IF run[i] = "requeued" THEN doubled \cup {entry[i].job} ELSE doubled
        /\ UNCHANGED <<def, queueVars, lock, releasing, dispatched, settled, failures>>
    BY <1>9 DEF Crash
  <2>2. token' \in [Slots -> Tokens \cup {NoToken}] /\ LockInv'
    BY <2>1, TokenDropped
  <2>3. crashes' \in 0 .. def.maxCrashes
    BY <1>2, <2>1, DefTyped DEF IInv
  <2>4. entry[i].job \in Jobs
    BY <2>1 DEF IInv, EntryInv, TypeOK
  <2> QED
    BY <1>1, <1>2, <2>1, <2>2, <2>3, <2>4 DEF RunStates
<1> QED
  BY <1>4, <1>5, <1>6, <1>7, <1>8, <1>9

(* The new entry carries the job from now on, with what the old one has    *)
(* left: the budget is neither refilled nor cut short.                     *)
LEMMA RequeueStep ==
    ASSUME IInv, NEW i \in Slots, RequeueBehindSequentialLock(i)
    PROVE  IInv'
<1> DEFINE old == entry[i]
           e   == Requeued(old)
           prior == old.prior + old.made
           left  == def.attempts - prior
<1>1. /\ run[i] = "claiming" /\ Add(e) /\ run' = [run EXCEPT ![i] = "requeued"]
      /\ UNCHANGED <<def, orderVars, lockVars, dispatched, histVars>>
  BY DEF RequeueBehindSequentialLock
<1>2. /\ old \in EntryType
      /\ old.made \in Nat /\ old.prior \in Nat /\ old.attempts \in Nat
  BY EntryFields DEF IInv
<1>3. /\ old.state = "active" /\ old.job \in dispatched /\ old.job \in Jobs
      /\ old.prior + old.attempts = def.attempts /\ old.made < old.attempts
  BY <1>1 DEF IInv, EntryInv, TypeOK
<1>4. def.attempts \in Nat /\ def.maxDefers \in Nat /\ old.defers \in 0 .. def.maxDefers
  BY <1>2, DefTyped DEF IInv, EntryType
<1>5. /\ left >= 1 /\ left \in 1 .. def.attempts /\ prior \in 0 .. def.attempts - 1
      /\ prior + left = def.attempts
  <2> HIDE DEF old
  <2> QED
    BY <1>2, <1>3, <1>4
<1>6. e = Entry(old.job, prior, left, old.defers)
  <2>1. e = Entry(old.job, prior, IF left > 1 THEN left ELSE 1, old.defers)
    BY DEF Requeued
  <2>2. (IF left > 1 THEN left ELSE 1) = left
    <3> HIDE DEF left
    <3> QED
      BY <1>4, <1>5
  <2> QED
    BY <2>1, <2>2
<1> HIDE DEF old, left, prior, e
<1>7. /\ e \in EntryType /\ e.job = old.job /\ e.state = "waiting" /\ e.made = 0
      /\ e.prior = prior /\ e.attempts = left
  BY <1>3, <1>4, <1>5, <1>6, EntryTyped DEF IInv
<1>8. \A k \in Slots : run'[k] = IF k = i THEN "requeued" ELSE run[k]
  BY <1>1 DEF IInv, TypeOK
<1>9. old.job \notin doubled => /\ failures[old.job] = prior
                                /\ failures[old.job] <= def.attempts
                                /\ \A k \in Slots : Carries(k, old.job) => k = i
  <2>1. Carries(i, old.job)
    BY <1>1, <1>3 DEF Carries, old
  <2> QED
    BY <1>3, <2>1 DEF IInv, BudgetInv, prior, old
<1>10. /\ \A j \in Jobs \ dispatched' : failures[j] = 0
       /\ dispatched' \subseteq Jobs /\ dispatched \subseteq dispatched'
  BY <1>1 DEF IInv, BudgetInv, TypeOK
<1>11. prior = prior + 0
  BY <1>4, <1>5
<1>12. entry' \in [Slots -> EntryType'] /\ EntryInv' /\ BudgetInv'
  <2>1. e.job \in dispatched' /\ e.prior + e.attempts = def.attempts /\ e.made < e.attempts
    BY <1>1, <1>3, <1>4, <1>5, <1>7
  <2>2. \A k \in Slots : (run'[k] # "none" <=> run[k] # "none") /\
           (run[k] = "requeued" => run'[k] = "requeued")
    BY <1>1, <1>8
  <2>3. e.job \notin doubled => /\ failures[e.job] = e.prior + e.made
                                /\ failures[e.job] <= def.attempts
                                /\ \A k \in Slots : Carries(k, e.job) => run'[k] = "requeued"
    BY <1>7, <1>8, <1>9, <1>11
  <2> QED
    BY <1>1, <1>7, <1>10, <2>1, <2>2, <2>3, AddStep DEF histVars
<1>13. OrderInv'
  BY <1>1, MoveOrder DEF PastGate, orderVars
<1>14. LockInv'
  BY <1>1, <1>8, LockFrame
<1>15. run' \in [Slots -> RunStates]
  BY <1>1 DEF IInv, TypeOK, RunStates
<1>16. TypeOK'
  BY <1>1, <1>12, <1>15 DEF IInv, TypeOK, RunStates, orderVars, lockVars, histVars
<1> QED
  BY <1>12, <1>13, <1>14, <1>16 DEF IInv

(* The lock is released late, or expires.                                  *)
LEMMA LockSteps ==
    ASSUME IInv, ExpireLock \/ \E t \in Tokens : ReleaseAfterDeferral(t)
    PROVE  IInv'
<1>1. UNCHANGED <<def, queueVars, run, token, dispatched, histVars>>
  BY DEF ExpireLock, ReleaseAfterDeferral
<1>2. /\ lock' \in Tokens \cup {NoToken} /\ releasing' \subseteq Tokens
      /\ lapsed' \subseteq Slots /\ LockInv'
  <2>1. CASE ExpireLock
    <3>1. /\ lapsed' = lapsed \cup {i \in Slots : token[i] = lock} /\ lock' = NoToken
          /\ UNCHANGED <<def, run, token, releasing>>
      BY <2>1 DEF ExpireLock
    <3> QED
      BY <3>1 DEF IInv, TypeOK, LockInv
  <2>2. ASSUME NEW t \in Tokens, ReleaseAfterDeferral(t)
        PROVE  /\ lock' \in Tokens \cup {NoToken} /\ releasing' \subseteq Tokens
               /\ lapsed' \subseteq Slots /\ LockInv'
    <3>1. /\ t \in releasing /\ lock' = LockAfterRelease(t) /\ releasing' = releasing \ {t}
          /\ UNCHANGED <<def, run, token, lapsed>>
      BY <2>2 DEF ReleaseAfterDeferral
    <3>2. \A k \in Slots : token[k] # t
      BY <3>1 DEF IInv, LockInv
    <3>3. lock' \in Tokens \cup {NoToken} /\ LockInv'
      BY <3>1, <3>2, LockReleased
    <3> QED
      BY <3>1, <3>3 DEF IInv, TypeOK
  <2> QED
    BY <2>1, <2>2
<1>3. TypeOK'
  BY <1>1, <1>2 DEF IInv, TypeOK, EntryType, queueVars, orderVars, histVars
<1>4. EntryInv' /\ BudgetInv'
  BY <1>1 DEF IInv, EntryInv, BudgetInv, Carries, queueVars, histVars
<1>5. OrderInv'
  BY <1>1 DEF IInv, OrderInv, PastGate, InOrderBefore, ActiveBefore, queueVars, orderVars
<1> QED
  BY <1>2, <1>3, <1>4, <1>5 DEF IInv

-----------------------------------------------------------------------------
(* The theorems.                                                           *)

LEMMA InitIInv == Init => IInv
<1> SUFFICES ASSUME Init
             PROVE  IInv
  OBVIOUS
<1>1. /\ def \in JobDefs /\ def \in JobDefType
      /\ def.attempts \in Nat /\ def.attempts >= 1
      /\ def.maxDefers \in Nat /\ def.maxCrashes \in Nat /\ def.maxSkews \in Nat
  BY JobRunnerAssumption DEF Init, JobDefType
<1>2. Free \in EntryType /\ Free.state = "free"
  BY <1>1 DEF Free, Entry, EntryType
<1>3. entry = [i \in Slots |-> Free] /\ order = <<>> /\ Len(order) = 0 /\ order \in Seq(Slots)
  BY EmptySeq DEF Init
<1>4. TypeOK
  BY <1>1, <1>2, <1>3 DEF Init, TypeOK
<1>5. LockInv /\ EntryInv
  BY <1>2, <1>3 DEF Init, LockInv, EntryInv
<1>6. BudgetInv
  BY <1>1, <1>2, <1>3 DEF Init, BudgetInv, Carries
<1>7. OrderInv
  BY <1>3 DEF Init, OrderInv, PastGate
<1> QED
  BY <1>4, <1>5, <1>6, <1>7 DEF IInv

LEMMA StutterIInv == IInv /\ UNCHANGED vars => IInv'
<1> SUFFICES ASSUME IInv, UNCHANGED vars
             PROVE  IInv'
  OBVIOUS
<1> USE DEF vars, queueVars, orderVars, lockVars, histVars
<1>1. TypeOK'
  BY DEF IInv, TypeOK, EntryType
<1>2. LockInv' /\ EntryInv'
  BY DEF IInv, LockInv, EntryInv
<1>3. BudgetInv'
  BY DEF IInv, BudgetInv, Carries
<1>4. OrderInv'
  BY DEF IInv, OrderInv, PastGate, InOrderBefore, ActiveBefore
<1> QED
  BY <1>1, <1>2, <1>3, <1>4 DEF IInv

LEMMA NextIInv == IInv /\ [Next]_vars => IInv'
<1> SUFFICES ASSUME IInv, [Next]_vars
             PROVE  IInv'
  OBVIOUS
<1>1. CASE \E j \in Jobs : Dispatch(j)
  BY <1>1, DispatchStep
<1>2. CASE \E i \in Slots : WorkerStep(i) \/ Crash(i)
  BY <1>2, PickUpStep, LeavingSteps, MovingSteps, RequeueStep DEF WorkerStep
<1>3. CASE ExpireLock \/ \E t \in Tokens : ReleaseAfterDeferral(t)
  BY <1>3, LockSteps
<1>4. CASE UNCHANGED vars
  BY <1>4, StutterIInv
<1> QED
  BY <1>1, <1>2, <1>3, <1>4 DEF Next

LEMMA SpecIInv == Spec => []IInv
BY InitIInv, NextIInv, PTL DEF Spec

(* An entry's counters stay within its job's declaration: attempts made,   *)
(* attempts carried over by re-enqueues, deferrals by the handler.         *)
THEOREM JobsTypeCorrect == Spec => []TypeOK
<1>1. IInv => TypeOK
  BY DEF IInv
<1> QED
  BY <1>1, SpecIInv, PTL

(* The lock of concurrency "sequential": two handlers run at once only if  *)
(* the lock expired under one of them.                                     *)
THEOREM HandlersRunSequentially == Spec => []SequentialUnlessLapsed
<1>1. IInv => SequentialUnlessLapsed
  BY DEF IInv, LockInv, SequentialUnlessLapsed, RunningSlots
<1> QED
  BY <1>1, SpecIInv, PTL

(* recordJobFailure and BullMQ agree on which failure is the last one.     *)
THEOREM FinalIsFinal == Spec => []FinalMeansFinal
<1>1. IInv => FinalMeansFinal
  <2> SUFFICES ASSUME IInv, NEW i \in Slots, run[i] = "threw"
               PROVE  IsFinalAttempt(entry[i]) <=> ~RetriesLeft(entry[i])
    BY DEF FinalMeansFinal
  <2>1. entry[i].made \in Nat /\ entry[i].prior \in Nat /\ entry[i].attempts \in Nat
    BY EntryFields DEF IInv
  <2>2. entry[i].prior + entry[i].attempts = def.attempts
    BY DEF IInv, EntryInv
  <2> QED
    BY <2>1, <2>2 DEF IsFinalAttempt, RetriesLeft
<1> QED
  BY <1>1, SpecIInv, PTL

(* Re-enqueues behind the sequential lock do not refill the retry budget,  *)
(* unless a worker died with its job enqueued twice.                       *)
THEOREM BudgetIsKept == Spec => []AttemptsWithinBudget
<1>1. IInv => AttemptsWithinBudget
  <2> SUFFICES ASSUME IInv, NEW j \in Jobs, j \notin doubled
               PROVE  ~(failures[j] > def.attempts)
    BY DEF AttemptsWithinBudget
  <2>1. failures[j] <= def.attempts /\ failures[j] \in Nat /\ def.attempts \in Nat
    BY DefTyped DEF IInv, BudgetInv, TypeOK
  <2> QED
    BY <2>1
<1> QED
  BY <1>1, SpecIInv, PTL

(* deferOverTenantLimit: although the check is not atomic with the run, no *)
(* more handlers run past the limit than have a processedOn that sorted    *)
(* before that of an entry fetched earlier.  Of the others, the one with   *)
(* the latest processedOn has all others before it.                        *)
THEOREM LimitIsKept == Spec => []AtMostLimitRun
<1>1. IInv => AtMostLimitRun
  <2> DEFINE R == RunningSlots \ ahead
             P == {m \in 1 .. Len(order) : order[m] \in R}
  <2> SUFFICES ASSUME IInv, def.limit > 0
               PROVE  Cardinality(R) <= def.limit
    BY DEF AtMostLimitRun
  <2>1. def.limit \in Nat /\ order \in Seq(Slots) /\ Len(order) \in Nat
    BY DefTyped, LenProperties DEF IInv, TypeOK
  <2>2. /\ \A i \in R : \E m \in P : order[m] = i
        /\ \A i \in R : Cardinality(InOrderBefore(i)) < def.limit
    BY DEF IInv, OrderInv, RunningSlots, PastGate
  <2>3. CASE R = {}
    <3>1. Cardinality(R) = 0
      <4> HIDE DEF R
      <4> QED
        BY <2>3, FS_EmptySet
    <3> QED
      BY <2>1, <3>1
  <2>4. CASE R # {}
    <3>1. P \subseteq 0 .. Len(order) /\ P # {}
      BY <2>1, <2>2, <2>4
    <3>2. PICK last \in P : \A m \in P : m <= last
      <4> HIDE DEF P
      <4> QED
        BY <2>1, <3>1, BoundedMax
    <3>3. order[last] \in R /\ order[last] \in Slots
      BY DEF RunningSlots
    <3> DEFINE i == order[last]
               A == InOrderBefore(i)
    <3>4. R \subseteq A \cup {i}
      <4> SUFFICES ASSUME NEW k \in R, k # i
                   PROVE  k \in A
        OBVIOUS
      <4>1. PICK m \in P : order[m] = k
        BY <2>2
      <4>2. m < last /\ k \in Slots /\ k \notin ahead
        BY <2>1, <3>2, <4>1 DEF RunningSlots
      <4> QED
        BY <3>3, <4>1, <4>2, ActiveBeforeIs DEF IInv, InOrderBefore
    <3>5. IsFiniteSet(A) /\ Cardinality(A) \in Nat /\ Cardinality(A) < def.limit
      BY <2>2, <3>3, ActiveBeforeIs DEF IInv
    <3> HIDE DEF A, i
    <3>6. IsFiniteSet(A \cup {i}) /\ Cardinality(A \cup {i}) <= Cardinality(A) + 1
      <4>1. /\ IsFiniteSet(A \cup {i})
            /\ Cardinality(A \cup {i}) = IF i \in A THEN Cardinality(A) ELSE Cardinality(A) + 1
        BY <3>5, FS_AddElement, Zenon
      <4> QED
        BY <3>5, <4>1
    <3> HIDE DEF R
    <3>7. /\ Cardinality(R) <= Cardinality(A \cup {i})
          /\ Cardinality(R) \in Nat /\ Cardinality(A \cup {i}) \in Nat
      BY <3>4, <3>6, FS_Subset, FS_CardinalityType
    <3> QED
      BY <2>1, <3>5, <3>6, <3>7
  <2> QED
    BY <2>3, <2>4
<1> QED
  BY <1>1, SpecIInv, PTL
=============================================================================
