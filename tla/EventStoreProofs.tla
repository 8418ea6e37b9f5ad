--------------------------- MODULE EventStoreProofs ---------------------------
(***************************************************************************)
(* EventStore implements StreamLog, for any number of handlers, streams,   *)
(* keys and versions.  The argument: open transactions never collide with  *)
(* each other or with what is committed, because both unique indexes see   *)
(* uncommitted rows; and what one handler sees has no hole, because each   *)
(* insert needs its predecessor.  So when a handler commits, its rows sit  *)
(* directly on top of the committed streams.                               *)
(***************************************************************************)
EXTENDS EventStore, WellFoundedInduction, TLAPS

-----------------------------------------------------------------------------
(* Smallest and largest elements.                                          *)

(* A nonempty set of natural numbers has a smallest element.               *)
LEMMA NatMin ==
    ASSUME NEW T, T \subseteq Nat, T # {}
    PROVE  \E m \in T : \A x \in T : m <= x
<1> DEFINE R == OpToRel(<, Nat)
<1>1. PICK m \in T : \A y \in T : ~ (<<y, m>> \in R)
  <2> HIDE DEF R
  <2>1. IsWellFoundedOn(R, Nat)
    BY NatLessThanWellFounded DEF R
  <2> QED
    BY <2>1, WFMin, Zenon
<1>2. \A y \in T : ~ (y < m)
  BY <1>1 DEF OpToRel
<1> QED
  BY <1>2

(* A nonempty set of numbers up to N has a largest element: the mirror     *)
(* image of the set has a smallest one.                                    *)
LEMMA BoundedMax ==
    ASSUME NEW N \in Nat, NEW T, T \subseteq 0 .. N, T # {}
    PROVE  \E m \in T : \A x \in T : x <= m
<1> DEFINE U == {u \in 0 .. N : N - u \in T}
<1>1. PICK k \in U : \A u \in U : k <= u
  <2>1. U \subseteq Nat
    OBVIOUS
  <2>2. \A x \in T : x \in 0 .. N /\ N - x \in 0 .. N /\ N - (N - x) = x
    OBVIOUS
  <2>3. U # {}
    BY <2>2
  <2> HIDE DEF U
  <2> QED
    BY <2>1, <2>3, NatMin
<1>2. \A x \in T : x \in 0 .. N /\ N - x \in U
  OBVIOUS
<1> QED
  BY <1>1, <1>2

-----------------------------------------------------------------------------
(* The inductive invariant.                                                *)

(* Two rows that one of the unique indexes keeps apart.                    *)
Collide(d, e) ==
    \/ d.stream = e.stream /\ d.version = e.version
    \/ d.key # NoKey /\ d.key = e.key

(* No row, committed or not, collides with another one.                    *)
IndexInv ==
    /\ \A d \in committed, e \in committed : Collide(d, e) => d = e
    /\ \A w \in Writers : \A d \in committed, e \in pending[w] : ~Collide(d, e)
    /\ \A w \in Writers : \A d \in pending[w], e \in pending[w] : Collide(d, e) => d = e
    /\ \A w \in Writers, v \in Writers : \A d \in pending[w], e \in pending[v] :
          w # v => ~Collide(d, e)

(* Streams have no hole, as committed and as each handler sees them.       *)
GaplessInv ==
    /\ Log!Gapless(committed)
    /\ \A w \in Writers : Log!Gapless(VisibleTo(w))

(* A statement in progress has a stream, and a pinned append expects the   *)
(* version of its handle.                                                  *)
TxInv ==
    \A w \in Writers :
       /\ tx[w].pc \in {"guarded", "versioned"} => tx[w].stream \in Streams
       /\ tx[w].pc = "versioned" /\ tx[w].mode = "pinned" =>
             tx[w].expected = tx[w].handle.version

IInv == TypeOK /\ TxInv /\ IndexInv /\ GaplessInv

-----------------------------------------------------------------------------
(* Type correctness.                                                       *)

(* Only numbers that are versions, or 0, are read as a stream's version.   *)
LEMMA StreamVersionTyped ==
    ASSUME TypeOK, NEW w \in Writers, NEW s
    PROVE  GetStreamVersion(w, s) \in 0 .. MaxVersion
<1> DEFINE T == Versions(VisibleTo(w), s) \cup {0}
<1>1. T \subseteq 0 .. MaxVersion /\ T # {} /\ MaxVersion \in Nat
  BY EventStoreAssumption DEF TypeOK, Event, Versions, VisibleTo
<1>2. Max(T) \in T
  <2> HIDE DEF T
  <2>1. \E m \in T : \A x \in T : x <= m
    BY <1>1, BoundedMax
  <2>2. \E m \in T : \A x \in T : m >= x
    BY <1>1, <2>1
  <2> QED
    BY <2>2 DEF Max
<1> QED
  BY <1>1, <1>2 DEF GetStreamVersion

Handles == [stream : Streams \cup {NoStream}, version : 0 .. MaxVersion]

(* Going on with a handle.                                                 *)
LEMMA ContinueTyped ==
    ASSUME TypeOK, TxInv, NEW w \in Writers, NEW h \in Handles, Continue(w, h)
    PROVE  tx' \in [Writers -> Tx] /\ TxInv'
<1> DEFINE t == [NoTx EXCEPT !.pc = "open", !.appends = tx[w].appends, !.handle = h]
<1>1. tx[w].appends \in 0 .. MaxAppends
  BY DEF TypeOK, Tx
<1>2. NoTx \in Tx
  BY EventStoreAssumption DEF NoTx, NoHandle, Tx, Modes
<1>3. t \in Tx /\ tx' = [tx EXCEPT ![w] = t]
  BY <1>1, <1>2 DEF Tx, Handles, Continue, Moves
<1>4. t.pc = "open" /\ t.handle = h
  BY <1>2 DEF Tx
<1> HIDE DEF t
<1>5. tx' \in [Writers -> Tx]
  BY <1>3 DEF TypeOK
<1>6. TxInv'
  BY <1>3, <1>4 DEF TxInv, TypeOK
<1> QED
  BY <1>5, <1>6

(* A transaction that ends.                                                *)
LEMMA EndTyped ==
    ASSUME TypeOK, TxInv, NEW w \in Writers, Moves(w, NoTx)
    PROVE  tx' \in [Writers -> Tx] /\ TxInv'
<1>1. NoTx \in Tx
  BY EventStoreAssumption DEF NoTx, NoHandle, Tx, Modes
<1>2. NoTx.pc = "idle"
  BY DEF NoTx, NoHandle
<1>3. tx' = [tx EXCEPT ![w] = NoTx]
  BY DEF Moves
<1>4. tx' \in [Writers -> Tx]
  BY <1>1, <1>3 DEF TypeOK
<1>5. TxInv'
  BY <1>2, <1>3 DEF TxInv, TypeOK
<1> QED
  BY <1>4, <1>5

(* A transaction that moves on to its next statement.                      *)
LEMMA MoveTyped ==
    ASSUME TypeOK, TxInv, NEW w \in Writers, NEW t \in Tx, Moves(w, t),
           t.stream \in Streams,
           t.handle = tx[w].handle,
           t.pc = "versioned" /\ t.mode = "pinned" => t.expected = t.handle.version
    PROVE  tx' \in [Writers -> Tx] /\ TxInv'
<1>1. tx' = [tx EXCEPT ![w] = t]
  BY DEF Moves
<1> QED
  BY <1>1 DEF TypeOK, TxInv

(* Every step leaves the tables and the transactions well typed.           *)
LEMMA TypeStep == TypeOK /\ TxInv /\ [Next]_vars => TypeOK' /\ TxInv'
<1> SUFFICES ASSUME TypeOK, TxInv, [Next]_vars PROVE TypeOK' /\ TxInv'
  OBVIOUS
<1> USE EventStoreAssumption
<1>1. NoHandle \in Handles
  BY DEF NoHandle, Handles
<1>2. \A w \in Writers : tx[w].handle \in Handles
  BY DEF TypeOK, TxInv, Tx, Handles
<1>3. ASSUME NEW w \in Writers, Begin(w) PROVE TypeOK' /\ TxInv'
  BY <1>1, <1>3, ContinueTyped DEF Begin, TypeOK
<1>4. ASSUME NEW w \in Writers, Commit(w) \/ Rollback(w) PROVE TypeOK' /\ TxInv'
  BY <1>4, EndTyped DEF Commit, Rollback, TypeOK
<1>5. ASSUME NEW w \in Writers, NEW s \in Streams, LoadForWriting(w, s)
      PROVE  TypeOK' /\ TxInv'
  <2> DEFINE version == GetStreamVersion(w, s)
             h == [stream |-> s, version |-> version]
  <2>1. version \in 0 .. MaxVersion
    BY StreamVersionTyped
  <2>2. Continue(w, h)
    BY <1>5 DEF LoadForWriting
  <2> HIDE DEF version
  <2>3. h \in Handles
    BY <2>1 DEF Handles
  <2> HIDE DEF h
  <2> QED
    BY <1>5, <2>2, <2>3, ContinueTyped DEF LoadForWriting, TypeOK
<1>7. ASSUME NEW w \in Writers, NEW s \in Streams, NEW mode \in Modes,
             NEW key \in Keys \cup {NoKey}, StartAppend(w, s, mode, key)
      PROVE  TypeOK' /\ TxInv'
  <2> DEFINE n == tx[w].appends + 1
             t == [tx[w] EXCEPT !.pc = "guarded", !.appends = n,
                                !.stream = s, !.mode = mode, !.key = key]
  <2>1. tx[w] \in Tx /\ n \in 0 .. MaxAppends
    BY <1>7 DEF StartAppend, TypeOK, Tx
  <2>2. Moves(w, t)
    BY <1>7 DEF StartAppend
  <2> HIDE DEF n
  <2>3. t \in Tx /\ t.stream = s /\ t.handle = tx[w].handle /\ t.pc # "versioned"
    BY <2>1 DEF Tx
  <2> HIDE DEF t
  <2> QED
    BY <1>7, <2>2, <2>3, MoveTyped DEF StartAppend, TypeOK
<1>8. ASSUME NEW w \in Writers, ReadVersion(w) PROVE TypeOK' /\ TxInv'
  <2>1. GetStreamVersion(w, tx[w].stream) \in 0 .. MaxVersion
    BY StreamVersionTyped
  <2>2. tx[w].handle.version \in 0 .. MaxVersion /\ tx[w].mode \in Modes
    BY DEF TypeOK, Tx
  <2>3. /\ ExpectedVersions(w) \subseteq 0 .. MaxVersion
        /\ tx[w].mode = "pinned" => ExpectedVersions(w) = {tx[w].handle.version}
    BY <2>1, <2>2 DEF ExpectedVersions, Modes
  <2>4. PICK version \in ExpectedVersions(w) :
           Moves(w, [tx[w] EXCEPT !.pc = "versioned", !.expected = version])
    BY <1>8 DEF ReadVersion
  <2> DEFINE t == [tx[w] EXCEPT !.pc = "versioned", !.expected = version]
  <2>5. tx[w] \in Tx /\ version \in 0 .. MaxVersion
    BY <2>3 DEF TypeOK
  <2>6. /\ t \in Tx /\ t.handle = tx[w].handle /\ t.stream = tx[w].stream
        /\ t.mode = tx[w].mode /\ t.expected = version
    BY <2>5 DEF Tx
  <2>7. tx[w].stream \in Streams
    BY <1>8 DEF ReadVersion, TxInv
  <2>8. Moves(w, t)
    BY <2>4
  <2>9. t.mode = "pinned" => t.expected = t.handle.version
    BY <2>3, <2>6
  <2> HIDE DEF t
  <2> QED
    BY <1>8, <2>6, <2>7, <2>8, <2>9, MoveTyped DEF ReadVersion, TypeOK
<1>9. ASSUME NEW w \in Writers, StaleVersion(w) \/ InsertLoses(w) \/ KeyTaken(w)
      PROVE  TypeOK' /\ TxInv'
  BY <1>2, <1>9, ContinueTyped DEF StaleVersion, InsertLoses, KeyTaken, TypeOK
<1>10. ASSUME NEW w \in Writers, InsertEvent(w) PROVE TypeOK' /\ TxInv'
  <2>1. tx[w] \in Tx /\ tx[w].stream \in Streams /\ tx[w].expected + 1 \in 1 .. MaxVersion
    BY <1>10 DEF InsertEvent, TypeOK, TxInv, Tx
  <2>2. NewEvent(w) \in Event
    BY <2>1 DEF NewEvent, Event, Tx
  <2>3. HandleAfter(w) \in Handles
    <3>1. CASE tx[w].mode # "pinned"
      BY <1>2, <3>1 DEF HandleAfter
    <3>2. CASE tx[w].mode = "pinned"
      <4>1. /\ tx[w].handle \in Handles
            /\ tx[w].handle.version + 1 \in 1 .. MaxVersion
        BY <1>2, <1>10, <2>1, <3>2 DEF InsertEvent, TxInv
      <4> DEFINE h == tx[w].handle
                 v == h.version + 1
      <4>2. HandleAfter(w) = [h EXCEPT !.version = v]
        BY <3>2 DEF HandleAfter
      <4>3. v \in 0 .. MaxVersion
        BY <4>1 DEF Handles
      <4> HIDE DEF v
      <4> QED
        BY <4>1, <4>2, <4>3 DEF Handles
    <3> QED
      BY <3>1, <3>2
  <2>4. pending' \in [Writers -> SUBSET Event]
    BY <1>10, <2>2 DEF InsertEvent, TypeOK
  <2> QED
    BY <1>10, <2>3, <2>4, ContinueTyped DEF InsertEvent, TypeOK
<1>11. ASSUME NEW s \in Streams, ArchiveStream(s) \/ RestoreStream(s) PROVE TypeOK' /\ TxInv'
  BY <1>11 DEF ArchiveStream, RestoreStream, TypeOK, TxInv
<1>12. ASSUME UNCHANGED vars PROVE TypeOK' /\ TxInv'
  BY <1>12 DEF vars, TypeOK, TxInv
<1> QED
  BY <1>3, <1>4, <1>5, <1>7, <1>8, <1>9, <1>10, <1>11, <1>12 DEF Next
-----------------------------------------------------------------------------
(* The unique indexes.                                                     *)

(* The row InsertEvent lets in collides with no row of any transaction.    *)
LEMMA InsertedIsNew ==
    ASSUME TypeOK, NEW w \in Writers, InsertEvent(w),
           NEW d, d \in committed \/ \E v \in Writers : d \in pending[v]
    PROVE  ~Collide(d, NewEvent(w)) /\ ~Collide(NewEvent(w), d)
<1>1. d \in VisibleTo(w) \cup OthersPending(w)
  BY DEF VisibleTo, OthersPending
<1>2. d.stream = tx[w].stream => d.version # tx[w].expected + 1
  BY <1>1 DEF InsertEvent, VersionTaken, Versions
<1>3. tx[w].key # NoKey => d.key # tx[w].key
  BY <1>1 DEF InsertEvent, KeyUsed
<1> QED
  BY <1>2, <1>3 DEF Collide, NewEvent

(* No step lets two rows collide.                                          *)
LEMMA IndexStep == TypeOK /\ IndexInv /\ [Next]_vars => IndexInv'
<1> SUFFICES ASSUME TypeOK, IndexInv, [Next]_vars PROVE IndexInv'
  OBVIOUS
<1>1. ASSUME NEW w \in Writers, Commit(w) PROVE IndexInv'
  <2>1. committed' = committed \cup pending[w]
    BY <1>1 DEF Commit
  <2>2. \A v \in Writers : pending'[v] = IF v = w THEN {} ELSE pending[v]
    BY <1>1 DEF Commit, TypeOK
  <2>3. \A d, e : Collide(d, e) => Collide(e, d)
    BY DEF Collide
  <2> QED
    BY <2>1, <2>2, <2>3 DEF IndexInv
<1>2. ASSUME NEW w \in Writers, Rollback(w) PROVE IndexInv'
  <2>1. committed' = committed
    BY <1>2 DEF Rollback
  <2>2. \A v \in Writers : pending'[v] = IF v = w THEN {} ELSE pending[v]
    BY <1>2 DEF Rollback, TypeOK
  <2> QED
    BY <2>1, <2>2 DEF IndexInv
<1>3. ASSUME NEW w \in Writers, InsertEvent(w) PROVE IndexInv'
  <2> DEFINE n == NewEvent(w)
  <2>1. committed' = committed
    BY <1>3 DEF InsertEvent
  <2>2. \A v \in Writers : pending'[v] = IF v = w THEN pending[w] \cup {n} ELSE pending[v]
    BY <1>3 DEF InsertEvent, TypeOK
  <2>3. /\ \A d \in committed : ~Collide(d, n)
        /\ \A v \in Writers : \A d \in pending[v] : ~Collide(d, n) /\ ~Collide(n, d)
    BY <1>3, InsertedIsNew
  <2> HIDE DEF n
  <2> QED
    BY <2>1, <2>2, <2>3 DEF IndexInv
<1>4. ASSUME UNCHANGED <<committed, pending>> PROVE IndexInv'
  BY <1>4 DEF IndexInv
<1> QED
  BY <1>1, <1>2, <1>3, <1>4
     DEF Next, vars, Begin, LoadForWriting, StartAppend, ReadVersion,
         StaleVersion, InsertLoses, KeyTaken, ArchiveStream, RestoreStream

-----------------------------------------------------------------------------
(* Streams without holes.                                                  *)

(* Two hole-free sets of rows make one.                                    *)
LEMMA GaplessUnion ==
    ASSUME NEW A, NEW B, Log!Gapless(A), Log!Gapless(B)
    PROVE  Log!Gapless(A \cup B)
BY DEF Log!Gapless

(* A row whose predecessor is there leaves no hole.                        *)
LEMMA GaplessInsert ==
    ASSUME NEW A, Log!Gapless(A), NEW n, NEW x \in Nat, n.version = x + 1,
           x > 0 => \E d \in A : d.stream = n.stream /\ d.version = x
    PROVE  Log!Gapless(A \cup {n})
<1> SUFFICES ASSUME NEW v \in 1 .. n.version
             PROVE  \E d \in A \cup {n} : d.stream = n.stream /\ d.version = v
  BY DEF Log!Gapless
<1>1. CASE v = x + 1
  BY <1>1
<1>2. CASE v <= x
  <2>1. PICK d \in A : d.stream = n.stream /\ d.version = x
    BY <1>2
  <2>2. v \in 1 .. d.version
    BY <1>2, <2>1
  <2> QED
    BY <2>1, <2>2 DEF Log!Gapless
<1> QED
  BY <1>1, <1>2

(* No step opens a hole in what anyone sees.                               *)
LEMMA GaplessStep == TypeOK /\ GaplessInv /\ [Next]_vars => GaplessInv'
<1> SUFFICES ASSUME TypeOK, GaplessInv, [Next]_vars PROVE GaplessInv'
  OBVIOUS
<1>1. ASSUME NEW w \in Writers, Commit(w) PROVE GaplessInv'
  <2>1. committed' = VisibleTo(w)
    BY <1>1 DEF Commit, VisibleTo
  <2>2. \A v \in Writers :
           VisibleTo(v)' = IF v = w THEN VisibleTo(w) ELSE VisibleTo(w) \cup VisibleTo(v)
    BY <1>1 DEF Commit, VisibleTo, TypeOK
  <2>3. \A v \in Writers : Log!Gapless(VisibleTo(w) \cup VisibleTo(v))
    BY GaplessUnion DEF GaplessInv
  <2>4. Log!Gapless(committed')
    BY <2>1 DEF GaplessInv
  <2>5. \A v \in Writers : Log!Gapless(VisibleTo(v)')
    BY <2>2, <2>3 DEF GaplessInv
  <2> QED
    BY <2>4, <2>5 DEF GaplessInv, Log!Gapless
<1>2. ASSUME NEW w \in Writers, Rollback(w) PROVE GaplessInv'
  <2>1. committed' = committed
    BY <1>2 DEF Rollback
  <2>2. \A v \in Writers : VisibleTo(v)' = IF v = w THEN committed ELSE VisibleTo(v)
    BY <1>2 DEF Rollback, VisibleTo, TypeOK
  <2>3. \A v \in Writers : Log!Gapless(VisibleTo(v)')
    BY <2>2 DEF GaplessInv
  <2> QED
    BY <2>1, <2>3 DEF GaplessInv, Log!Gapless
<1>3. ASSUME NEW w \in Writers, InsertEvent(w) PROVE GaplessInv'
  <2> DEFINE n == NewEvent(w)
  <2>1. committed' = committed
    BY <1>3 DEF InsertEvent
  <2>2. \A v \in Writers :
           VisibleTo(v)' = IF v = w THEN VisibleTo(w) \cup {n} ELSE VisibleTo(v)
    BY <1>3 DEF InsertEvent, VisibleTo, TypeOK
  <2>3. /\ tx[w].expected \in Nat
        /\ n.version = tx[w].expected + 1
        /\ n.stream = tx[w].stream
    BY EventStoreAssumption DEF NewEvent, TypeOK, Tx
  <2>4. tx[w].expected > 0 =>
           \E d \in VisibleTo(w) : d.stream = n.stream /\ d.version = tx[w].expected
    BY <1>3, <2>3 DEF InsertEvent, HasPredecessor, Versions
  <2> HIDE DEF n
  <2>5. Log!Gapless(VisibleTo(w) \cup {n})
    BY <2>3, <2>4, GaplessInsert DEF GaplessInv
  <2>6. \A v \in Writers : Log!Gapless(VisibleTo(v)')
    BY <2>2, <2>5 DEF GaplessInv
  <2> QED
    BY <2>1, <2>6 DEF GaplessInv, Log!Gapless
<1>4. ASSUME UNCHANGED <<committed, pending>> PROVE GaplessInv'
  BY <1>4 DEF GaplessInv, VisibleTo, Log!Gapless
<1> QED
  BY <1>1, <1>2, <1>3, <1>4
     DEF Next, vars, Begin, LoadForWriting, StartAppend, ReadVersion,
         StaleVersion, InsertLoses, KeyTaken, ArchiveStream, RestoreStream

-----------------------------------------------------------------------------
(* The theorems.                                                           *)

(* Empty tables and idle handlers satisfy the invariant.                   *)
LEMMA InitIInv == Init => IInv
<1> SUFFICES ASSUME Init PROVE IInv
  OBVIOUS
<1>1. NoTx \in Tx
  BY EventStoreAssumption DEF NoTx, NoHandle, Tx, Modes
<1>2. TypeOK
  BY <1>1 DEF Init, TypeOK
<1>3. TxInv
  <2>1. NoTx.pc = "idle"
    BY DEF NoTx, NoHandle
  <2> QED
    BY <2>1 DEF Init, TxInv
<1>4. IndexInv
  BY DEF Init, IndexInv
<1>5. GaplessInv
  BY DEF Init, GaplessInv, VisibleTo, Log!Gapless
<1> QED
  BY <1>2, <1>3, <1>4, <1>5 DEF IInv

(* Every step of every handler preserves it.                               *)
LEMMA NextIInv == IInv /\ [Next]_vars => IInv'
BY TypeStep, IndexStep, GaplessStep DEF IInv

(* The types of EventStore hold in every reachable state, whatever the     *)
(* number of handlers, streams and keys.                                   *)
THEOREM StoreTypeCorrect == Spec => []TypeOK
<1>1. IInv => TypeOK
  BY DEF IInv
<1> QED
  BY <1>1, InitIInv, NextIInv, PTL DEF Spec

(* Every handler sees consistent streams at every moment, although no lock *)
(* is held between the statements of an append (insertFirstEvent,          *)
(* insertSubsequentEvent and the two unique indexes).                      *)
THEOREM ViewsConsistent == Spec => []EveryViewConsistent
<1>1. IInv => EveryViewConsistent
  <2> SUFFICES ASSUME IInv, NEW w \in Writers PROVE Log!Consistent(VisibleTo(w))
    BY DEF EveryViewConsistent
  <2>1. \A d \in VisibleTo(w), e \in VisibleTo(w) : Collide(d, e) => d = e
    <3>1. \A d, e : Collide(d, e) => Collide(e, d)
      BY DEF Collide
    <3> QED
      BY <3>1 DEF IInv, IndexInv, VisibleTo
  <2>2. Log!OnePerVersion(VisibleTo(w)) /\ Log!OnePerKey(VisibleTo(w))
    BY <2>1 DEF Collide, Log!OnePerVersion, Log!OnePerKey
  <2>3. Log!Gapless(VisibleTo(w))
    BY DEF IInv, GaplessInv
  <2> QED
    BY <2>2, <2>3 DEF Log!Consistent
<1> QED
  BY <1>1, InitIInv, NextIInv, PTL DEF Spec

(* A commit is one step of the abstract store; nothing else shows there.   *)
LEMMA StepSimulation == IInv /\ IInv' /\ [Next]_vars => [Log!Append]_committed
<1> SUFFICES ASSUME IInv, IInv', [Next]_vars, committed' # committed PROVE Log!Append
  OBVIOUS
<1>1. PICK w \in Writers : Commit(w)
  BY DEF Next, vars, Begin, Rollback, LoadForWriting, StartAppend,
         ReadVersion, StaleVersion, InsertEvent, InsertLoses, KeyTaken, ArchiveStream,
         RestoreStream
<1>2. committed' = committed \cup pending[w]
  BY <1>1 DEF Commit
<1>3. committed' \subseteq Event
  BY DEF IInv, TypeOK
<1>4. ASSUME NEW d \in committed, NEW e \in committed' \ committed, d.stream = e.stream
      PROVE  d.version < e.version
  <2>1. e \in pending[w]
    BY <1>2
  <2>2. d.version \in 1 .. MaxVersion /\ e.version \in 1 .. MaxVersion /\ MaxVersion \in Nat
    BY <1>2, <1>3, EventStoreAssumption DEF Event
  <2>3. ASSUME e.version <= d.version PROVE FALSE
    <3>1. e.version \in 1 .. d.version
      BY <2>2, <2>3
    <3>2. PICK c \in committed : c.stream = d.stream /\ c.version = e.version
      BY <3>1 DEF IInv, GaplessInv, Log!Gapless
    <3>3. Collide(c, e)
      BY <1>4, <3>2 DEF Collide
    <3> QED
      BY <2>1, <3>3 DEF IInv, IndexInv
  <2> QED
    BY <2>2, <2>3
<1>5. Log!Consistent(committed')
  <2>1. \A d \in committed', e \in committed' : Collide(d, e) => d = e
    BY DEF IInv, IndexInv, Collide
  <2>2. Log!OnePerVersion(committed') /\ Log!OnePerKey(committed')
    BY <2>1 DEF Collide, Log!OnePerVersion, Log!OnePerKey
  <2>3. Log!Gapless(committed')
    BY DEF IInv, GaplessInv, Log!Gapless
  <2> QED
    BY <2>2, <2>3 DEF Log!Consistent
<1> QED
  BY <1>2, <1>3, <1>4, <1>5 DEF Log!Append

(* append implements the abstract store for any number of concurrent       *)
(* handlers: each commit extends its streams at their current versions.    *)
THEOREM StoreImplementsLog == Spec => ImplementsStreamLog
<1>1. Init => Log!Init
  BY DEF Init, Log!Init
<1> QED
  BY <1>1, InitIInv, NextIInv, StepSimulation, PTL DEF Spec, ImplementsStreamLog, Log!Spec
=============================================================================
