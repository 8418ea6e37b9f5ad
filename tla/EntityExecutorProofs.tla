------------------------ MODULE EntityExecutorProofs ------------------------
(***************************************************************************)
(* Proofs about EntityExecutor, for any number of requests and events:     *)
(*                                                                         *)
(*    EntityTypeCorrect    Spec => []TypeOK                                *)
(*    RowIsReplay          Spec => []LiveIsRebuild                         *)
(*    NoLostUpdate         Spec => BuildsOnWhatWasSeen                     *)
(*    PreviousIsCurrent    Spec => PreviousIsReplaced                      *)
(*    DetailsAreCurrent    Spec => DetailIsCurrent                         *)
(*    TrashStaysHidden     Spec => DetailHidesTrash                        *)
(*                                                                         *)
(* All rest on one inductive invariant, IInv.  Every write moves the       *)
(* stream's version, so a copy of the row that claims the version somebody *)
(* sees is the row he sees, wherever the copy has been.  A copy of a       *)
(* version that is not committed is backed by the transaction that made    *)
(* it, and a rollback of that one taints the cache; whoever is shown one   *)
(* sees no stream yet, so it is the row he sees if that one commits.       *)
(***************************************************************************)
EXTENDS EntityExecutor, WellFoundedInduction, SequenceTheorems, TLAPS

-----------------------------------------------------------------------------
(* Smallest elements.                                                      *)

(* A nonempty set of natural numbers has a smallest element.               *)
LEMMA NatMin ==
    ASSUME NEW T, T \subseteq Nat, T # {}
    PROVE  \E m \in T : \A x \in T : m <= x
<1> DEFINE R == OpToRel(<, Nat)
<1>1. PICK m \in T : \A y \in T : ~ (<<y, m>> \in R)
  <2> HIDE DEF R
  <2>1. IsWellFoundedOn(R, Nat)
    BY NatLessThanWellFounded DEF R
  <2> QED
    BY <2>1, WFMin, Zenon
<1>2. \A y \in T : ~ (y < m)
  BY <1>1 DEF OpToRel
<1> QED
  BY <1>2

-----------------------------------------------------------------------------
(* The inductive invariant.                                                *)

(* A row that is there has a version.                                      *)
Proper(r) == r # NoRow => r.state # "none" /\ r.version > 0

(* What h sees is within the bound, and a row that h has not written since *)
(* it began to append is the committed one.                                *)
ViewInv ==
    /\ Proper(row)
    /\ \A h \in Handlers :
          /\ VersionOf(h) <= MaxVersion
          /\ RowOf(h).version <= VersionOf(h)
          /\ Proper(RowOf(h))
          /\ pending[h] # <<>> /\ pendingRow[h].state # "none"
                /\ pendingRow[h].version <= Len(stream) => pendingRow[h] = row

CommittedInv == ~swallowed => row = Replayed(entity, stream)

(* A copy x of the row that claims the version somebody sees is the row he *)
(* sees, and a copy of a version that is not committed is backed by an     *)
(* open transaction among S.                                               *)
SameRow(x, r) == x.content = r.content /\ x.state = r.state

Faithful(x, S) ==
    /\ x.version > 0
    /\ x.version = Len(stream) => SameRow(x, row)
    /\ \A g \in Handlers : x.version = VersionOf(g) => SameRow(x, RowOf(g))
    /\ x.version > Len(stream) => \E g \in S : pending[g] # <<>> /\ x.version <= VersionOf(g)

CachedOwn == {g \in Handlers : tx[g].cachedOwn}

CacheInv ==
    /\ ~tainted /\ cache # NoRow => Faithful(cache, CachedOwn)
    /\ cache.state = "trashed" => trashCached

(* Where h is says what it has.                                            *)
Placed(h) ==
    /\ tx[h].pc = "open" => tx[h].got = NoRow
    /\ tx[h].pc = "probe" => tx[h].got # NoRow
    /\ tx[h].pc = "set" => tx[h].got.state = "live"
    /\ tx[h].pc \in {"failed", "evict"} => pending[h] # <<>>
    /\ tx[h].cachedOwn => pending[h] # <<>>
    /\ tx[h].pc = "loaded" /\ tx[h].verb = "created" => ~tx[h].lock /\ tx[h].expect = NoStatus

(* The row that h has written is the replay of the events that h sees,     *)
(* except after a projection that failed.                                  *)
Projected(h) ==
    ~swallowed /\ pending[h] # <<>> /\ tx[h].pc # "failed"
       => pendingRow[h] = Replayed(entity, StreamOf(h))

(* What h has read and will put into the cache.                            *)
CopyInv(h) == ~tainted /\ tx[h].got # NoRow => Faithful(tx[h].got, CachedOwn \cup {h})

(* Trash gets into the cache by a list of the trash only.                  *)
TrashInv(h) == tx[h].got.state = "trashed" /\ tx[h].pc # "mset" => trashCached

(* What the client of h was shown: a row of h's own view, or, while h sees *)
(* no stream, one that a transaction still open has cached.                *)
ShownInv(h) ==
    ~tainted /\ base[h] # NoRow =>
       /\ Faithful(base[h], CachedOwn \cup {h})
       /\ base[h].version <= VersionOf(h) \/ VersionOf(h) = 0

(* A write that has loaded the row, and one that has checked the version.  *)
Checked(h) == tx[h].lock \/ tx[h].expect # NoStatus

LoadedInv(h) ==
    /\ tx[h].lock /\ tx[h].pc \in {"loaded", "versioned"} => base[h] # NoRow /\ VersionOf(h) > 0
    /\ tx[h].lock /\ tx[h].pc = "loaded" /\ ~tainted /\ base[h].version = VersionOf(h)
          => tx[h].previous = RowOf(h).content

WriteInv(h) ==
    tx[h].pc = "versioned" /\ Checked(h) =>
       /\ tx[h].expected <= VersionOf(h)
       /\ pending[h] # <<>> => tx[h].expected = VersionOf(h)
       /\ tx[h].lock /\ ~tainted /\ tx[h].expected = VersionOf(h)
             => RowOf(h).content = base[h].content /\ tx[h].previous = RowOf(h).content
       /\ tx[h].expect # NoStatus /\ tx[h].expected = VersionOf(h)
             => RowOf(h).content.status = tx[h].expect

(* A detail(), before and after it has loaded row and version.             *)
ReadInv(h) ==
    /\ tx[h].pc \in {"probe", "snapshot", "set"} => tx[h].since <= VersionOf(h)
    /\ tx[h].pc = "set" =>
          /\ tx[h].since <= tx[h].got.version /\ tx[h].got.version <= VersionOf(h)
          /\ ~swallowed => tx[h].got.content
                              = Replayed(entity, SubSeq(StreamOf(h), 1, tx[h].got.version)).content

HandlerInv(h) ==
    /\ Placed(h)
    /\ Projected(h)
    /\ CopyInv(h)
    /\ TrashInv(h)
    /\ ShownInv(h)
    /\ LoadedInv(h)
    /\ WriteInv(h)
    /\ ReadInv(h)

IInv ==
    /\ TypeOK
    /\ ViewInv
    /\ CommittedInv
    /\ CacheInv
    /\ \A h \in Handlers : HandlerInv(h)

-----------------------------------------------------------------------------
(* What a replay makes of a stream.                                        *)

(* f holds the rows of a replay of the first k events of s.                *)
IsReplay(ent, f, s, k) ==
    f = [n \in 0 .. k |-> IF n = 0 THEN NoRow ELSE ApplyEntityEvent(ent, f[n - 1], s[n], n)]

(* A replay is determined by the events it has applied.                    *)
LEMMA ReplayUnique ==
    ASSUME NEW ent, NEW s, NEW t, NEW f, NEW g, NEW k \in Nat, NEW m \in Nat, k <= m,
           \A i \in 1 .. k : s[i] = t[i], IsReplay(ent, f, s, k), IsReplay(ent, g, t, m)
    PROVE  \A n \in 0 .. k : f[n] = g[n]
<1> DEFINE T == {n \in 0 .. k : f[n] # g[n]}
<1>1. SUFFICES ASSUME T # {} PROVE FALSE
  OBVIOUS
<1>2. PICK n \in T : \A x \in T : n <= x
  <2>1. T \subseteq Nat
    OBVIOUS
  <2> QED
    BY <1>1, <2>1, NatMin
<1>3. n \in 0 .. k /\ n \in 0 .. m
  BY <1>2
<1>4. /\ f[n] = IF n = 0 THEN NoRow ELSE ApplyEntityEvent(ent, f[n - 1], s[n], n)
      /\ g[n] = IF n = 0 THEN NoRow ELSE ApplyEntityEvent(ent, g[n - 1], t[n], n)
  BY <1>3 DEF IsReplay
<1>5. CASE n = 0
  BY <1>2, <1>4, <1>5
<1>6. CASE n # 0
  <2>1. n - 1 \in 0 .. k /\ n - 1 \notin T /\ n \in 1 .. k
    BY <1>2, <1>3, <1>6
  <2>2. f[n - 1] = g[n - 1] /\ s[n] = t[n]
    BY <2>1
  <2> QED
    BY <1>2, <1>4, <1>6, <2>2
<1> QED
  BY <1>5, <1>6

(* Every sequence has a replay.                                            *)
LEMMA ReplayExists ==
    ASSUME NEW ent, NEW s, NEW k \in Nat
    PROVE  \E f : IsReplay(ent, f, s, k)
<1> DEFINE T == {n \in Nat : ~ \E f : IsReplay(ent, f, s, n)}
<1>1. SUFFICES ASSUME T # {} PROVE FALSE
  OBVIOUS
<1>2. PICK n \in T : \A x \in T : n <= x
  <2>1. T \subseteq Nat
    OBVIOUS
  <2> QED
    BY <1>1, <2>1, NatMin
<1>3. n \in Nat /\ ~ \E f : IsReplay(ent, f, s, n)
  BY <1>2
<1>4. CASE n = 0
  <2> DEFINE f0 == [i \in 0 .. 0 |-> NoRow]
  <2>1. IsReplay(ent, f0, s, 0)
    BY DEF IsReplay
  <2> QED
    BY <1>3, <1>4, <2>1
<1>5. CASE n # 0
  <2>1. n - 1 \in Nat /\ n - 1 \notin T
    BY <1>2, <1>3, <1>5
  <2>2. PICK f : IsReplay(ent, f, s, n - 1)
    BY <2>1
  <2> DEFINE g == [i \in 0 .. n |->
                     IF i = n THEN ApplyEntityEvent(ent, f[n - 1], s[n], n) ELSE f[i]]
  <2>3. ASSUME NEW i \in 0 .. n
        PROVE  g[i] = IF i = 0 THEN NoRow ELSE ApplyEntityEvent(ent, g[i - 1], s[i], i)
    <3>1. CASE i = n
      <4>1. g[i] = ApplyEntityEvent(ent, f[n - 1], s[n], n)
        BY <3>1
      <4>2. n - 1 \in 0 .. n /\ n - 1 # n
        BY <1>3, <1>5
      <4>3. g[n - 1] = f[n - 1]
        BY <4>2
      <4> HIDE DEF g
      <4> QED
        BY <1>5, <3>1, <4>1, <4>3
    <3>2. CASE i # n
      <4>1. i \in 0 .. n - 1
        BY <1>3, <2>3, <3>2
      <4>2. g[i] = f[i] /\ f[i] = IF i = 0 THEN NoRow ELSE ApplyEntityEvent(ent, f[i - 1], s[i], i)
        BY <2>2, <3>2, <4>1 DEF IsReplay
      <4>3. i # 0 => i - 1 \in 0 .. n /\ i - 1 # n
        BY <1>3, <4>1
      <4>4. i # 0 => g[i - 1] = f[i - 1]
        BY <4>3
      <4> HIDE DEF g
      <4> QED
        BY <4>2, <4>4
    <3> QED
      BY <3>1, <3>2
  <2>4. IsReplay(ent, g, s, n)
    <3>1. g = [i \in 0 .. n |-> g[i]]
      OBVIOUS
    <3> HIDE DEF g
    <3> QED
      BY <2>3, <3>1 DEF IsReplay
  <2> HIDE DEF g
  <2> QED
    BY <1>3, <2>4
<1> QED
  BY <1>4, <1>5

(* Replayed is the last row of the replay.                                 *)
LEMMA ReplayedIsLast ==
    ASSUME NEW ent, NEW s \in Seq(Event), NEW f, IsReplay(ent, f, s, Len(s))
    PROVE  Replayed(ent, s) = f[Len(s)]
<1>1. Len(s) \in Nat
  BY LenProperties
<1>2. ASSUME NEW g, IsReplay(ent, g, s, Len(s)) PROVE g = f
  <2>1. \A n \in 0 .. Len(s) : g[n] = f[n]
    BY <1>1, <1>2, ReplayUnique
  <2>2. g = [n \in 0 .. Len(s) |-> g[n]] /\ f = [n \in 0 .. Len(s) |-> f[n]]
    BY <1>2 DEF IsReplay
  <2> QED
    BY <2>1, <2>2
<1> QED
  BY <1>2 DEF Replayed, IsReplay

LEMMA ReplayedEmpty ==
    ASSUME NEW ent PROVE Replayed(ent, <<>>) = NoRow
<1>1. <<>> \in Seq(Event) /\ Len(<<>>) = 0
  BY EmptySeq
<1>2. PICK f : IsReplay(ent, f, <<>>, 0)
  BY ReplayExists
<1>3. f[0] = NoRow
  BY <1>2 DEF IsReplay
<1> QED
  BY <1>1, <1>2, <1>3, ReplayedIsLast

(* One more event is one more step of the replay.                          *)
LEMMA ReplayedAppend ==
    ASSUME NEW ent, NEW s \in Seq(Event), NEW e \in Event
    PROVE  Replayed(ent, Append(s, e)) = ApplyEntityEvent(ent, Replayed(ent, s), e, Len(s) + 1)
<1> DEFINE t == Append(s, e)
           n == Len(s)
<1>1. n \in Nat /\ n + 1 \in Nat
  BY LenProperties
<1>2. t \in Seq(Event) /\ Len(t) = n + 1 /\ t[n + 1] = e /\ \A i \in 1 .. n : s[i] = t[i]
  BY AppendProperties
<1> HIDE DEF t, n
<1>3. PICK f : IsReplay(ent, f, s, n)
  BY <1>1, ReplayExists
<1>4. PICK g : IsReplay(ent, g, t, n + 1)
  BY <1>1, ReplayExists
<1>5. f[n] = g[n]
  <2>1. n + 1 \in Nat /\ n <= n + 1 /\ n \in 0 .. n
    BY <1>1
  <2>2. \A i \in 0 .. n : f[i] = g[i]
    BY <1>1, <1>2, <1>3, <1>4, <2>1, ReplayUnique
  <2> QED
    BY <2>1, <2>2
<1>6. g[n + 1] = ApplyEntityEvent(ent, g[n], t[n + 1], n + 1)
  <2>1. n + 1 \in 0 .. n + 1 /\ n + 1 # 0 /\ (n + 1) - 1 = n
    BY <1>1
  <2> QED
    BY <1>4, <2>1 DEF IsReplay
<1>7. Replayed(ent, s) = f[n] /\ Replayed(ent, t) = g[n + 1]
  BY <1>2, <1>3, <1>4, ReplayedIsLast DEF n
<1> QED
  BY <1>2, <1>5, <1>6, <1>7 DEF t, n

-----------------------------------------------------------------------------
(* What a handler sees.                                                    *)

LEMMA ApplyType ==
    ASSUME NEW ent \in Entity, NEW r \in Row, NEW e \in Event, NEW v \in 0 .. MaxVersion
    PROVE  /\ ApplyEntityEvent(ent, r, e, v) \in Row
           /\ \/ /\ ApplyEntityEvent(ent, r, e, v).version = v
                 /\ ApplyEntityEvent(ent, r, e, v).state # "none"
              \/ ApplyEntityEvent(ent, r, e, v) = NoRow
              \/ ApplyEntityEvent(ent, r, e, v) = r
<1>1. 0 \in 0 .. MaxVersion
  BY EntityExecutorAssumption
<1>2. NoContent \in Content /\ NoRow \in Row
  BY <1>1 DEF NoContent, Content, NoRow, Row
<1>3. e.verb \in Verbs /\ e.content \in Content
  BY DEF Event
<1> QED
  BY <1>2, <1>3 DEF ApplyEntityEvent, Row, Entity

LEMMA ViewFacts ==
    ASSUME TypeOK, NEW h \in Handlers
    PROVE  /\ stream \in Seq(Event) /\ Len(stream) \in Nat
           /\ pending[h] \in Seq(Event) /\ Len(pending[h]) \in Nat
           /\ StreamOf(h) \in Seq(Event)
           /\ VersionOf(h) = Len(stream) + Len(pending[h]) /\ VersionOf(h) \in Nat
           /\ RowOf(h) \in Row
           /\ pending[h] = <<>> => StreamOf(h) = stream /\ VersionOf(h) = Len(stream)
           /\ pending[h] # <<>> => VersionOf(h) > Len(stream)
<1>1. stream \in Seq(Event) /\ pending[h] \in Seq(Event) /\ row \in Row /\ pendingRow[h] \in Row
  BY DEF TypeOK
<1>2. Len(stream) \in Nat /\ Len(pending[h]) \in Nat
  BY <1>1, LenProperties
<1>3. StreamOf(h) \in Seq(Event) /\ VersionOf(h) = Len(stream) + Len(pending[h])
  BY <1>1, ConcatProperties DEF StreamOf, VersionOf
<1>4. pending[h] = <<>> => StreamOf(h) = stream /\ Len(pending[h]) = 0
  BY <1>1, ConcatEmptySeq, EmptySeq DEF StreamOf
<1>5. pending[h] # <<>> => Len(pending[h]) # 0
  BY <1>1, EmptySeq
<1>6. RowOf(h) \in Row
  BY <1>1 DEF RowOf
<1> QED
  BY <1>1, <1>2, <1>3, <1>4, <1>5, <1>6

-----------------------------------------------------------------------------
(* Steps that leave the store alone.                                       *)

LEMMA StoreView ==
    ASSUME UNCHANGED storeVars, NEW h \in Handlers
    PROVE  /\ stream' = stream /\ row' = row
           /\ pending'[h] = pending[h] /\ pendingRow'[h] = pendingRow[h]
           /\ StreamOf(h)' = StreamOf(h)
           /\ VersionOf(h)' = VersionOf(h)
           /\ RowOf(h)' = RowOf(h)
BY DEF storeVars, StreamOf, VersionOf, RowOf

(* A copy stays faithful while the store stays and transactions that have  *)
(* cached rows of their own stay.                                          *)
LEMMA CacheStays ==
    ASSUME CacheInv, UNCHANGED <<storeVars, cache, tainted>>, trashCached => trashCached',
           CachedOwn \subseteq CachedOwn'
    PROVE  CacheInv'
<1>1. UNCHANGED storeVars /\ cache' = cache /\ tainted' = tainted
  OBVIOUS
<1>2. stream' = stream /\ row' = row /\ pending' = pending
  BY <1>1 DEF storeVars
<1>3. \A g \in Handlers : VersionOf(g)' = VersionOf(g) /\ RowOf(g)' = RowOf(g)
  BY <1>1, StoreView
<1>4. (cache.state = "trashed" => trashCached)'
  BY <1>1 DEF CacheInv
<1>5. ASSUME ~tainted, cache # NoRow PROVE Faithful(cache, CachedOwn)'
  <2>1. Faithful(cache, CachedOwn)
    BY <1>5 DEF CacheInv
  <2>2. CachedOwn \subseteq Handlers
    BY DEF CachedOwn
  <2> QED
    BY <1>1, <1>2, <1>3, <2>1, <2>2 DEF Faithful, SameRow
<1> QED
  BY <1>1, <1>4, <1>5 DEF CacheInv

LEMMA StoreStep ==
    ASSUME IInv, NEW h \in Handlers, TypeOK', UNCHANGED <<storeVars, entity, tainted>>,
           swallowed => swallowed', trashCached => trashCached',
           \A g \in Handlers \ {h} : tx'[g] = tx[g] /\ base'[g] = base[g],
           tx[h].cachedOwn => tx'[h].cachedOwn,
           CacheInv', HandlerInv(h)'
    PROVE  IInv'
<1>1. stream' = stream /\ row' = row /\ pending' = pending /\ pendingRow' = pendingRow
      /\ tainted' = tainted /\ entity' = entity
  BY DEF storeVars
<1>2. \A g \in Handlers : StreamOf(g)' = StreamOf(g) /\ VersionOf(g)' = VersionOf(g)
                            /\ RowOf(g)' = RowOf(g)
  BY StoreView
<1>3. ViewInv'
  BY <1>1, <1>2 DEF IInv, ViewInv
<1>4. CommittedInv'
  BY <1>1 DEF IInv, CommittedInv
<1>5. CachedOwn \subseteq Handlers /\ CachedOwn \subseteq CachedOwn'
  BY DEF CachedOwn
<1>6. ASSUME NEW g \in Handlers, g # h PROVE HandlerInv(g)'
  <2>1. HandlerInv(g) /\ tx'[g] = tx[g] /\ base'[g] = base[g]
    BY <1>6 DEF IInv
  <2>2. Placed(g)' /\ TrashInv(g)'
    BY <1>1, <2>1 DEF HandlerInv, Placed, TrashInv
  <2>3. Projected(g)'
    BY <1>1, <1>2, <2>1 DEF HandlerInv, Projected
  <2>4. CopyInv(g)'
    BY <1>1, <1>2, <1>5, <2>1 DEF HandlerInv, CopyInv, Faithful, SameRow
  <2>5. ShownInv(g)'
    BY <1>1, <1>2, <1>5, <2>1 DEF HandlerInv, ShownInv, Faithful, SameRow
  <2>6. LoadedInv(g)' /\ WriteInv(g)'
    BY <1>1, <1>2, <2>1 DEF HandlerInv, LoadedInv, WriteInv, Checked
  <2>7. ReadInv(g)'
    BY <1>1, <1>2, <2>1 DEF HandlerInv, ReadInv
  <2> QED
    BY <2>2, <2>3, <2>4, <2>5, <2>6, <2>7 DEF HandlerInv
<1> QED
  BY <1>3, <1>4, <1>6 DEF IInv

-----------------------------------------------------------------------------
(* Returns to the handler.                                                 *)

LEMMA NothingTyped == NoContent \in Content /\ NoRow \in Row /\ NoTx \in Tx
<1>1. 0 \in 0 .. MaxVersion
  BY EntityExecutorAssumption
<1>2. NoContent \in Content
  BY <1>1 DEF NoContent, Content
<1>3. NoRow \in Row
  BY <1>1, <1>2 DEF NoRow, Row
<1> QED
  BY <1>1, <1>2, <1>3 DEF NoTx, Tx, Verbs

LEMMA ReturnFacts ==
    ASSUME TypeOK, NEW h \in Handlers, NEW own \in BOOLEAN,
           tx' = [tx EXCEPT ![h] = [NoTx EXCEPT !.cachedOwn = own]]
    PROVE  /\ tx' \in [Handlers -> Tx]
           /\ tx'[h].pc = "open" /\ tx'[h].got = NoRow
           /\ tx'[h].cachedOwn = own
           /\ \A g \in Handlers \ {h} : tx'[g] = tx[g]
<1> DEFINE t == [NoTx EXCEPT !.cachedOwn = own]
<1>1. t \in Tx /\ t.pc = "open" /\ t.got = NoRow /\ t.cachedOwn = own
  <2>1. NoTx.pc = "open" /\ NoTx.got = NoRow
    BY DEF NoTx
  <2>2. NoTx \in Tx
    BY NothingTyped
  <2> QED
    BY <2>1, <2>2 DEF Tx
<1>2. tx \in [Handlers -> Tx] /\ tx' = [tx EXCEPT ![h] = t]
  BY DEF TypeOK
<1> HIDE DEF t
<1> QED
  BY <1>1, <1>2

(* An executor that has returned without touching the store leaves h in    *)
(* order when what the client was shown is.                                *)
LEMMA ReturnKeeps ==
    ASSUME IInv, NEW h \in Handlers, UNCHANGED <<storeVars, entity, tainted>>,
           swallowed => swallowed', swallowed' \/ tx[h].pc # "failed",
           tx'[h].pc = "open", tx'[h].got = NoRow,
           tx'[h].cachedOwn => pending[h] # <<>>,
           ShownInv(h)'
    PROVE  HandlerInv(h)'
<1>1. /\ pending'[h] = pending[h] /\ pendingRow'[h] = pendingRow[h] /\ StreamOf(h)' = StreamOf(h)
      /\ entity' = entity
  BY StoreView
<1>2. HandlerInv(h)
  BY DEF IInv
<1>3. Placed(h)'
  BY <1>1 DEF Placed
<1>4. Projected(h)'
  BY <1>1, <1>2 DEF HandlerInv, Projected
<1>5. CopyInv(h)'
  BY DEF CopyInv
<1>6. TrashInv(h)' /\ LoadedInv(h)' /\ WriteInv(h)' /\ ReadInv(h)'
  BY DEF TrashInv, NoRow, LoadedInv, WriteInv, ReadInv
<1> QED
  BY <1>3, <1>4, <1>5, <1>6 DEF HandlerInv

LEMMA ShownStays ==
    ASSUME IInv, NEW h \in Handlers, UNCHANGED <<storeVars, tainted>>, base'[h] = base[h],
           CachedOwn \subseteq CachedOwn'
    PROVE  ShownInv(h)'
<1>1. /\ stream' = stream /\ row' = row /\ pending' = pending /\ tainted' = tainted
      /\ \A g \in Handlers : VersionOf(g)' = VersionOf(g) /\ RowOf(g)' = RowOf(g)
  BY StoreView DEF storeVars
<1>2. CachedOwn \subseteq Handlers
  BY DEF CachedOwn
<1> QED
  BY <1>1, <1>2 DEF IInv, HandlerInv, ShownInv, Faithful, SameRow

(* A step in which the executor returns and the store, the cache and what  *)
(* the client was shown stay.                                              *)
LEMMA PlainReturn ==
    ASSUME IInv, NEW h \in Handlers, Return(h),
           UNCHANGED <<storeVars, cache, base, entity, tainted, trashCached>>,
           swallowed' \in BOOLEAN, swallowed => swallowed', swallowed' \/ tx[h].pc # "failed"
    PROVE  IInv'
<1>0. TypeOK /\ HandlerInv(h) /\ CacheInv
  BY DEF IInv
<1>1. tx[h].cachedOwn \in BOOLEAN
  BY <1>0 DEF TypeOK, Tx
<1>2. /\ tx' \in [Handlers -> Tx]
      /\ tx'[h].pc = "open" /\ tx'[h].got = NoRow
      /\ tx'[h].cachedOwn = tx[h].cachedOwn
      /\ \A g \in Handlers \ {h} : tx'[g] = tx[g]
  BY <1>0, <1>1, ReturnFacts DEF Return, Moves
<1>3. TypeOK'
  BY <1>0, <1>2 DEF TypeOK, storeVars
<1>4. CachedOwn \subseteq CachedOwn'
  BY <1>2 DEF CachedOwn
<1>5. CacheInv'
  BY <1>0, <1>4, CacheStays
<1>6. ShownInv(h)'
  BY <1>4, ShownStays
<1>7. HandlerInv(h)'
  BY <1>0, <1>2, <1>6, ReturnKeeps DEF HandlerInv, Placed
<1> QED
  BY <1>2, <1>3, <1>5, <1>7, StoreStep

LEMMA AppendConflictStep ==
    ASSUME IInv, NEW h \in Handlers, AppendConflict(h) PROVE IInv'
<1>1. swallowed' = swallowed /\ swallowed \in BOOLEAN
  BY DEF AppendConflict, IInv, TypeOK, histVars
<1> QED
  BY <1>1, PlainReturn DEF AppendConflict, histVars

LEMMA IgnoreFailureStep ==
    ASSUME IInv, NEW h \in Handlers, IgnoreFailure(h) PROVE IInv'
BY PlainReturn DEF IgnoreFailure

-----------------------------------------------------------------------------
(* Copies of the row.                                                      *)

(* A row that h reads is a faithful copy, with the row's own version or    *)
(* with the stream's.                                                      *)
LEMMA ReadIsFaithful ==
    ASSUME TypeOK, ViewInv, NEW h \in Handlers, NEW x \in Row,
           SameRow(x, RowOf(h)), RowOf(h).state # "none",
           x.version = VersionOf(h) \/ x.version = RowOf(h).version
    PROVE  Faithful(x, {h})
<1>1. /\ VersionOf(h) \in Nat /\ Len(stream) \in Nat /\ x.version \in Nat
      /\ x.version <= VersionOf(h) /\ x.version > 0
  <2>1. /\ VersionOf(h) \in Nat /\ Len(stream) \in Nat
        /\ x.version \in Nat /\ RowOf(h).version \in Nat
    BY ViewFacts DEF Row
  <2>2. RowOf(h).version <= VersionOf(h) /\ RowOf(h).version > 0
    BY DEF ViewInv, Proper, NoRow
  <2> QED
    BY <2>1, <2>2
<1>2. x.version = Len(stream) => SameRow(x, row)
  <2>1. CASE pending[h] = <<>>
    BY <2>1 DEF RowOf
  <2>2. CASE pending[h] # <<>>
    <3>1. VersionOf(h) > Len(stream) /\ RowOf(h) = pendingRow[h]
      BY <2>2, ViewFacts DEF RowOf
    <3>2. x.version = Len(stream) => pendingRow[h] = row
      BY <1>1, <2>2, <3>1 DEF ViewInv
    <3> QED
      BY <3>1, <3>2
  <2> QED
    BY <2>1, <2>2
<1>3. ASSUME NEW g \in Handlers, x.version = VersionOf(g) PROVE SameRow(x, RowOf(g))
  <2>0. VersionOf(g) \in Nat /\ VersionOf(g) >= Len(stream)
    BY ViewFacts
  <2>1. CASE pending[g] = <<>>
    BY <1>2, <1>3, <2>1, ViewFacts DEF RowOf
  <2>2. CASE pending[g] # <<>>
    <3>1. VersionOf(g) > Len(stream)
      BY <2>2, ViewFacts
    <3>2. pending[h] # <<>>
      BY <1>1, <1>3, <2>0, <3>1, ViewFacts
    <3>3. g = h
      BY <2>2, <3>2 DEF TypeOK
    <3> QED
      BY <3>3
  <2> QED
    BY <2>1, <2>2
<1>4. x.version > Len(stream) => pending[h] # <<>>
  BY <1>1, ViewFacts
<1> QED
  BY <1>1, <1>2, <1>3, <1>4 DEF Faithful

(* When h takes a faithful copy, what it got is in order.                  *)
LEMMA CopyTaken ==
    ASSUME NEW h \in Handlers, NEW S \in SUBSET Handlers, UNCHANGED <<storeVars, tainted>>,
           ~tainted => Faithful(tx'[h].got, S),
           S \subseteq CachedOwn' \cup {h}
    PROVE  CopyInv(h)'
<1>1. stream' = stream /\ row' = row /\ pending' = pending /\ tainted' = tainted
  BY DEF storeVars
<1>2. \A g \in Handlers : VersionOf(g)' = VersionOf(g) /\ RowOf(g)' = RowOf(g)
  BY StoreView
<1> QED
  BY <1>1, <1>2 DEF CopyInv, Faithful, SameRow

(* When its client is shown a faithful copy, what it was shown is.         *)
LEMMA RowShown ==
    ASSUME NEW h \in Handlers, NEW S \in SUBSET Handlers, UNCHANGED <<storeVars, tainted>>,
           ~tainted /\ base'[h] # NoRow =>
              /\ Faithful(base'[h], S)
              /\ base'[h].version <= VersionOf(h) \/ VersionOf(h) = 0,
           S \subseteq CachedOwn' \cup {h}
    PROVE  ShownInv(h)'
<1>1. stream' = stream /\ row' = row /\ pending' = pending /\ tainted' = tainted
  BY DEF storeVars
<1>2. \A g \in Handlers : VersionOf(g)' = VersionOf(g) /\ RowOf(g)' = RowOf(g)
  BY StoreView
<1> QED
  BY <1>1, <1>2 DEF ShownInv, Faithful, SameRow

-----------------------------------------------------------------------------
(* The write verbs, up to the append.                                      *)

LEMMA LoadRowStep ==
    ASSUME IInv, NEW h \in Handlers, NEW verb \in Verbs, NEW lock \in BOOLEAN,
           NEW expect \in Statuses \cup {NoStatus}, LoadRow(h, verb, lock, expect),
           verb = "created" => ~lock /\ expect = NoStatus,
           lock => verb = "updated" /\ RowOf(h).state # "none"
    PROVE  IInv'
<1> DEFINE c == IF verb \in {"created", "domain"} THEN NoContent ELSE RowOf(h).content
           t == [tx[h] EXCEPT !.pc = "loaded", !.verb = verb, !.lock = lock, !.expect = expect,
                              !.previous = c]
<1>0. TypeOK /\ HandlerInv(h) /\ CacheInv /\ ViewInv
  BY DEF IInv
<1>1. tx \in [Handlers -> Tx] /\ tx[h] \in Tx /\ c \in Content
  BY <1>0, ViewFacts, NothingTyped DEF TypeOK, Row
<1>2. tx' = [tx EXCEPT ![h] = t] /\ (lock => c = RowOf(h).content)
  BY DEF LoadRow, Moves
<1> HIDE DEF c
<1>3. /\ t \in Tx /\ t.pc = "loaded" /\ t.verb = verb /\ t.lock = lock /\ t.expect = expect
      /\ t.previous = c /\ t.got = tx[h].got /\ t.cachedOwn = tx[h].cachedOwn
  BY <1>1 DEF Tx
<1> HIDE DEF t
<1>4. /\ tx[h].pc = "open" /\ (lock => base[h] # NoRow)
      /\ UNCHANGED <<storeVars, cache, base, entity, tainted, swallowed, trashCached>>
  BY DEF LoadRow, histVars
<1>5. tx' \in [Handlers -> Tx] /\ tx'[h] = t /\ \A g \in Handlers \ {h} : tx'[g] = tx[g]
  BY <1>1, <1>2, <1>3
<1>6. TypeOK'
  BY <1>0, <1>4, <1>5 DEF TypeOK, storeVars
<1>7. CachedOwn \subseteq CachedOwn'
  BY <1>3, <1>5 DEF CachedOwn
<1>8. CacheInv'
  BY <1>0, <1>4, <1>7, CacheStays
<1>9. /\ pending'[h] = pending[h] /\ pendingRow'[h] = pendingRow[h]
      /\ StreamOf(h)' = StreamOf(h) /\ VersionOf(h)' = VersionOf(h) /\ RowOf(h)' = RowOf(h)
  BY <1>4, StoreView
<1>10. tx[h].got = NoRow
  BY <1>0, <1>4 DEF HandlerInv, Placed
<1>11. HandlerInv(h)'
  <2>1. Placed(h)'
    BY <1>0, <1>3, <1>5, <1>9 DEF HandlerInv, Placed
  <2>2. Projected(h)'
    BY <1>0, <1>4, <1>9 DEF HandlerInv, Projected
  <2>3. CopyInv(h)' /\ TrashInv(h)'
    BY <1>3, <1>5, <1>10 DEF CopyInv, TrashInv, NoRow
  <2>4. ShownInv(h)'
    BY <1>4, <1>7, ShownStays
  <2>5. LoadedInv(h)' /\ WriteInv(h)'
    <3>1. lock => VersionOf(h) > 0
      <4>1. VersionOf(h) \in Nat /\ RowOf(h).version \in Nat
        BY <1>0, ViewFacts DEF Row
      <4>2. lock => RowOf(h).version > 0 /\ RowOf(h).version <= VersionOf(h)
        BY <1>0 DEF ViewInv, Proper, NoRow
      <4> QED
        BY <4>1, <4>2
    <3> QED
      BY <1>2, <1>3, <1>4, <1>5, <1>9, <3>1 DEF LoadedInv, WriteInv
  <2>6. ReadInv(h)'
    BY <1>3, <1>5 DEF ReadInv
  <2> QED
    BY <2>1, <2>2, <2>3, <2>4, <2>5, <2>6 DEF HandlerInv
<1> QED
  BY <1>3, <1>4, <1>5, <1>6, <1>8, <1>11, StoreStep

(* A write whose client has what it says it has.                           *)
LEMMA VersionedStep ==
    ASSUME IInv, NEW h \in Handlers, CurrentStreamVersion(h), VersionAccepted(h)
    PROVE  IInv'
<1> DEFINE v == IF tx[h].verb = "created" THEN 0 ELSE VersionOf(h)
           t == [tx[h] EXCEPT !.pc = "versioned", !.expected = v]
<1>0. TypeOK /\ HandlerInv(h) /\ CacheInv /\ ViewInv
  BY DEF IInv
<1>1. tx \in [Handlers -> Tx] /\ tx[h] \in Tx
  BY <1>0 DEF TypeOK
<1>2. v \in 0 .. MaxVersion
  <2>1. VersionOf(h) \in Nat /\ VersionOf(h) <= MaxVersion
    BY <1>0, ViewFacts DEF ViewInv
  <2> QED
    BY <2>1, EntityExecutorAssumption
<1> HIDE DEF v
<1>3. /\ t \in Tx /\ t.pc = "versioned" /\ t.lock = tx[h].lock /\ t.expect = tx[h].expect
      /\ t.expected = v
      /\ t.previous = tx[h].previous /\ t.got = tx[h].got /\ t.cachedOwn = tx[h].cachedOwn
  BY <1>1, <1>2 DEF Tx
<1>4. tx' = [tx EXCEPT ![h] = t]
  BY DEF CurrentStreamVersion, Moves, v
<1> HIDE DEF t
<1>5. /\ tx[h].pc = "loaded"
      /\ UNCHANGED <<storeVars, cache, base, entity, tainted, swallowed, trashCached>>
  BY DEF CurrentStreamVersion, histVars
<1>6. tx' \in [Handlers -> Tx] /\ tx'[h] = t /\ \A g \in Handlers \ {h} : tx'[g] = tx[g]
  BY <1>1, <1>3, <1>4
<1>7. TypeOK'
  BY <1>0, <1>5, <1>6 DEF TypeOK, storeVars
<1>8. CachedOwn \subseteq CachedOwn'
  BY <1>3, <1>6 DEF CachedOwn
<1>9. CacheInv'
  BY <1>0, <1>5, <1>8, CacheStays
<1>10. /\ pending'[h] = pending[h] /\ pendingRow'[h] = pendingRow[h]
       /\ StreamOf(h)' = StreamOf(h) /\ VersionOf(h)' = VersionOf(h) /\ RowOf(h)' = RowOf(h)
       /\ stream' = stream /\ row' = row /\ pending' = pending
       /\ \A g \in Handlers : VersionOf(g)' = VersionOf(g) /\ RowOf(g)' = RowOf(g)
  BY <1>5, StoreView DEF storeVars
<1>11. HandlerInv(h)'
  <2>1. Placed(h)'
    BY <1>0, <1>3, <1>6, <1>10 DEF HandlerInv, Placed
  <2>2. Projected(h)'
    BY <1>0, <1>5, <1>10 DEF HandlerInv, Projected
  <2>3. CopyInv(h)'
    <3>1. CachedOwn \subseteq Handlers
      BY DEF CachedOwn
    <3> QED
      BY <1>0, <1>3, <1>5, <1>6, <1>8, <1>10, <3>1 DEF HandlerInv, CopyInv, Faithful, SameRow
  <2>4. TrashInv(h)'
    BY <1>0, <1>3, <1>5, <1>6 DEF HandlerInv, TrashInv
  <2>5. ShownInv(h)'
    BY <1>5, <1>8, ShownStays
  <2>6. LoadedInv(h)'
    BY <1>0, <1>3, <1>5, <1>6, <1>10 DEF HandlerInv, LoadedInv
  <2>7. WriteInv(h)'
    <3>1. SUFFICES ASSUME Checked(h) PROVE WriteInv(h)'
      BY <1>3, <1>6 DEF WriteInv, Checked
    <3>2. v = VersionOf(h) /\ VersionOf(h) \in Nat
      BY <1>0, <1>5, <3>1, ViewFacts DEF HandlerInv, Placed, Checked, v
    <3>3. ASSUME tx[h].lock, ~tainted
          PROVE  RowOf(h).content = base[h].content /\ tx[h].previous = RowOf(h).content
      <4>1. base[h] # NoRow /\ base[h].version = VersionOf(h)
        BY <1>0, <1>5, <3>3 DEF HandlerInv, LoadedInv, VersionAccepted
      <4>2. base[h].content = RowOf(h).content
        BY <1>0, <3>3, <4>1 DEF HandlerInv, ShownInv, Faithful, SameRow
      <4> QED
        BY <1>0, <1>5, <3>3, <4>1, <4>2 DEF HandlerInv, LoadedInv
    <3>4. tx[h].expect # NoStatus => RowOf(h).content.status = tx[h].expect
      BY DEF VersionAccepted
    <3>5. base'[h] = base[h] /\ tainted' = tainted
      BY <1>5
    <3> QED
      BY <1>3, <1>6, <1>10, <3>2, <3>3, <3>4, <3>5 DEF WriteInv
  <2>8. ReadInv(h)'
    BY <1>3, <1>6 DEF ReadInv
  <2> QED
    BY <2>1, <2>2, <2>3, <2>4, <2>5, <2>6, <2>7, <2>8 DEF HandlerInv
<1> QED
  BY <1>3, <1>5, <1>6, <1>7, <1>9, <1>11, StoreStep

LEMMA CurrentStreamVersionStep ==
    ASSUME IInv, NEW h \in Handlers, CurrentStreamVersion(h) PROVE IInv'
<1>1. CASE VersionAccepted(h)
  BY <1>1, VersionedStep
<1>2. CASE ~VersionAccepted(h)
  <2>1. /\ Return(h) /\ tx[h].pc = "loaded"
        /\ UNCHANGED <<storeVars, cache, base, entity, tainted, trashCached>>
        /\ swallowed' = swallowed
    BY <1>2 DEF CurrentStreamVersion, histVars
  <2>2. swallowed \in BOOLEAN
    BY DEF IInv, TypeOK
  <2> QED
    BY <2>1, <2>2, PlainReturn
<1> QED
  BY <1>1, <1>2

LEMMA EvictCachedEntityStep ==
    ASSUME IInv, NEW h \in Handlers, EvictCachedEntity(h) PROVE IInv'
<1> DEFINE b == IF tx[h].verb \in {"deleted", "forgotten"} THEN NoRow ELSE RowOf(h)
<1>0. TypeOK /\ HandlerInv(h) /\ CacheInv /\ ViewInv
  BY DEF IInv
<1>1. tx[h].cachedOwn \in BOOLEAN
  BY <1>0 DEF TypeOK, Tx
<1>2. /\ tx' \in [Handlers -> Tx]
      /\ tx'[h].pc = "open" /\ tx'[h].got = NoRow
      /\ tx'[h].cachedOwn = tx[h].cachedOwn
      /\ \A g \in Handlers \ {h} : tx'[g] = tx[g]
  BY <1>0, <1>1, ReturnFacts DEF EvictCachedEntity, Return, Moves
<1>3. RowOf(h) \in Row /\ b \in Row
  BY <1>0, ViewFacts, NothingTyped
<1>4. base' = [base EXCEPT ![h] = b] /\ base \in [Handlers -> Row]
  BY <1>0 DEF EvictCachedEntity, TypeOK
<1>5. b # NoRow => b = RowOf(h)
  OBVIOUS
<1> HIDE DEF b
<1>6. base' \in [Handlers -> Row] /\ base'[h] = b /\ \A g \in Handlers \ {h} : base'[g] = base[g]
  BY <1>3, <1>4
<1>7. /\ tx[h].pc = "evict" /\ cache' = NoRow
      /\ UNCHANGED <<storeVars, entity, tainted, swallowed, trashCached>>
  BY DEF EvictCachedEntity, histVars
<1>8. TypeOK'
  BY <1>0, <1>2, <1>6, <1>7, NothingTyped DEF TypeOK, storeVars
<1>9. CacheInv'
  BY <1>7 DEF CacheInv, NoRow
<1>10. ShownInv(h)'
  <2>1. ASSUME b # NoRow PROVE Faithful(b, {h}) /\ b.version <= VersionOf(h)
    <3>1. RowOf(h).state # "none" /\ b = RowOf(h) /\ b.version <= VersionOf(h)
      BY <1>0, <1>5, <2>1 DEF ViewInv, Proper
    <3>2. SameRow(b, RowOf(h)) /\ b.version = RowOf(h).version
      BY <3>1 DEF SameRow
    <3> QED
      BY <1>0, <1>3, <3>1, <3>2, ReadIsFaithful
  <2>2. {h} \in SUBSET Handlers /\ {h} \subseteq CachedOwn' \cup {h}
    OBVIOUS
  <2>3. base'[h] # NoRow => Faithful(base'[h], {h}) /\ base'[h].version <= VersionOf(h)
    BY <1>6, <2>1
  <2> QED
    BY <1>7, <2>2, <2>3, RowShown
<1>11. HandlerInv(h)'
  BY <1>0, <1>2, <1>7, <1>10, ReturnKeeps DEF HandlerInv, Placed
<1> QED
  BY <1>2, <1>6, <1>7, <1>8, <1>9, <1>11, StoreStep

-----------------------------------------------------------------------------
(* The reads.                                                              *)

LEMMA GetCachedStep ==
    ASSUME IInv, NEW h \in Handlers, GetCached(h) PROVE IInv'
<1> DEFINE p == IF cache = NoRow THEN "snapshot" ELSE "probe"
           v == VersionOf(h)
           t == [tx[h] EXCEPT !.pc = p, !.got = cache, !.since = v]
<1>0. TypeOK /\ HandlerInv(h) /\ CacheInv /\ ViewInv
  BY DEF IInv
<1>1. tx \in [Handlers -> Tx] /\ tx[h] \in Tx /\ cache \in Row
  BY <1>0 DEF TypeOK
<1>2. v \in Nat /\ v \in 0 .. MaxVersion
  <2>1. VersionOf(h) \in Nat /\ VersionOf(h) <= MaxVersion
    BY <1>0, ViewFacts DEF ViewInv
  <2> QED
    BY <2>1, EntityExecutorAssumption
<1>3. p \in {"snapshot", "probe"} /\ (p = "probe" => cache # NoRow)
  OBVIOUS
<1>4. tx' = [tx EXCEPT ![h] = t]
  BY DEF GetCached, Moves
<1> HIDE DEF p, v
<1>5. /\ t \in Tx /\ t.pc = p /\ t.got = cache /\ t.since = v
      /\ t.cachedOwn = tx[h].cachedOwn
  BY <1>1, <1>2, <1>3 DEF Tx
<1> HIDE DEF t
<1>6. /\ tx[h].pc = "open"
      /\ UNCHANGED <<storeVars, cache, base, entity, tainted, swallowed, trashCached>>
  BY DEF GetCached, histVars
<1>7. tx' \in [Handlers -> Tx] /\ tx'[h] = t /\ \A g \in Handlers \ {h} : tx'[g] = tx[g]
  BY <1>1, <1>4, <1>5
<1>8. TypeOK'
  BY <1>0, <1>6, <1>7 DEF TypeOK, storeVars
<1>9. CachedOwn \subseteq Handlers /\ CachedOwn \subseteq CachedOwn'
  BY <1>5, <1>7 DEF CachedOwn
<1>10. CacheInv'
  BY <1>0, <1>6, <1>9, CacheStays
<1>11. /\ pending'[h] = pending[h] /\ pendingRow'[h] = pendingRow[h]
       /\ StreamOf(h)' = StreamOf(h) /\ VersionOf(h)' = VersionOf(h) /\ RowOf(h)' = RowOf(h)
  BY <1>6, StoreView
<1>12. HandlerInv(h)'
  <2>1. Placed(h)'
    BY <1>0, <1>3, <1>5, <1>7, <1>11 DEF HandlerInv, Placed
  <2>2. Projected(h)'
    BY <1>0, <1>6, <1>11 DEF HandlerInv, Projected
  <2>3. CopyInv(h)'
    <3>1. CASE cache = NoRow
      BY <1>5, <1>7, <3>1 DEF CopyInv
    <3>2. CASE cache # NoRow
      <4>1. ~tainted => Faithful(tx'[h].got, CachedOwn)
        BY <1>0, <1>5, <1>7, <3>2 DEF CacheInv
      <4> QED
        BY <1>6, <1>9, <4>1, CopyTaken
    <3> QED
      BY <3>1, <3>2
  <2>4. TrashInv(h)'
    BY <1>0, <1>5, <1>6, <1>7 DEF CacheInv, TrashInv
  <2>5. ShownInv(h)'
    BY <1>6, <1>9, ShownStays
  <2>6. LoadedInv(h)' /\ WriteInv(h)'
    BY <1>3, <1>5, <1>7 DEF LoadedInv, WriteInv
  <2>7. ReadInv(h)'
    BY <1>2, <1>3, <1>5, <1>7, <1>11 DEF ReadInv, v
  <2> QED
    BY <2>1, <2>2, <2>3, <2>4, <2>5, <2>6, <2>7 DEF HandlerInv
<1> QED
  BY <1>5, <1>6, <1>7, <1>8, <1>10, <1>12, StoreStep

(* A detail() that ends answers a row that is in order.                    *)
LEMMA AnswerStep ==
    ASSUME IInv, NEW h \in Handlers, NEW r \in Row, Answer(h, r), tx[h].pc # "failed",
           UNCHANGED <<storeVars, cache, entity, histVars>>,
           ~tainted /\ r # NoRow =>
              /\ Faithful(r, CachedOwn \cup {h})
              /\ r.version <= VersionOf(h) \/ VersionOf(h) = 0
    PROVE  IInv'
<1>0. TypeOK /\ HandlerInv(h) /\ CacheInv /\ ViewInv
  BY DEF IInv
<1>1. tx[h].cachedOwn \in BOOLEAN
  BY <1>0 DEF TypeOK, Tx
<1>2. /\ tx' \in [Handlers -> Tx]
      /\ tx'[h].pc = "open" /\ tx'[h].got = NoRow
      /\ tx'[h].cachedOwn = tx[h].cachedOwn
      /\ \A g \in Handlers \ {h} : tx'[g] = tx[g]
  BY <1>0, <1>1, ReturnFacts DEF Answer, Return, Moves
<1>3. base' = [base EXCEPT ![h] = r] /\ base \in [Handlers -> Row]
  BY <1>0 DEF Answer, TypeOK
<1>4. base' \in [Handlers -> Row] /\ base'[h] = r /\ \A g \in Handlers \ {h} : base'[g] = base[g]
  BY <1>3
<1>5. UNCHANGED <<storeVars, cache, entity, tainted, swallowed, trashCached>>
  BY DEF histVars
<1>6. TypeOK'
  BY <1>0, <1>2, <1>4, <1>5 DEF TypeOK, storeVars
<1>7. CachedOwn \subseteq CachedOwn'
  BY <1>2 DEF CachedOwn
<1>8. CacheInv'
  BY <1>0, <1>5, <1>7, CacheStays
<1>9. ShownInv(h)'
  <2> DEFINE S == CachedOwn \cup {h}
  <2>1. S \in SUBSET Handlers /\ S \subseteq CachedOwn' \cup {h}
    BY <1>7 DEF CachedOwn
  <2>2. ~tainted /\ base'[h] # NoRow =>
           /\ Faithful(base'[h], S)
           /\ base'[h].version <= VersionOf(h) \/ VersionOf(h) = 0
    BY <1>4
  <2> HIDE DEF S
  <2> QED
    BY <1>5, <2>1, <2>2, RowShown
<1>10. HandlerInv(h)'
  BY <1>0, <1>2, <1>5, <1>9, ReturnKeeps DEF HandlerInv, Placed
<1> QED
  BY <1>2, <1>4, <1>5, <1>6, <1>8, <1>10, StoreStep

LEMMA ProbeStep ==
    ASSUME IInv, NEW h \in Handlers, Probe(h) PROVE IInv'
<1>0. TypeOK /\ HandlerInv(h) /\ CacheInv /\ ViewInv
  BY DEF IInv
<1>1. /\ tx[h].pc = "probe"
      /\ UNCHANGED <<storeVars, cache, entity, histVars>>
  BY DEF Probe
<1>2. tx \in [Handlers -> Tx] /\ tx[h] \in Tx /\ tx[h].got \in Row
  BY <1>0 DEF TypeOK, Tx
<1>3. ASSUME Answer(h, NoRow) PROVE IInv'
  BY <1>1, <1>3, NothingTyped, AnswerStep
<1>4. ASSUME CacheHitCounts(h), Answer(h, WithStreamVersion(tx[h].got, VersionOf(h)))
      PROVE  IInv'
  <2> DEFINE r == WithStreamVersion(tx[h].got, VersionOf(h))
  <2>1. VersionOf(h) \in Nat /\ (VersionOf(h) > 0 => tx[h].got.version = VersionOf(h))
    BY <1>0, <1>4, ViewFacts DEF CacheHitCounts
  <2>2. r = tx[h].got
    BY <1>2, <2>1 DEF WithStreamVersion, Row
  <2>3. tx[h].got # NoRow
    BY <1>0, <1>1 DEF HandlerInv, Placed
  <2>4. ~tainted => Faithful(tx[h].got, CachedOwn \cup {h})
    BY <1>0, <2>3 DEF HandlerInv, CopyInv
  <2>5. tx[h].got.version <= VersionOf(h) \/ VersionOf(h) = 0
    BY <2>1
  <2>6. /\ Answer(h, r) /\ r \in Row /\ (~tainted => Faithful(r, CachedOwn \cup {h}))
        /\ r.version <= VersionOf(h) \/ VersionOf(h) = 0
    BY <1>2, <1>4, <2>2, <2>4, <2>5
  <2> HIDE DEF r
  <2> QED
    BY <1>1, <2>6, AnswerStep
<1>5. ASSUME Moves(h, [tx[h] EXCEPT !.pc = "snapshot", !.got = NoRow]), UNCHANGED base
      PROVE  IInv'
  <2> DEFINE t == [tx[h] EXCEPT !.pc = "snapshot", !.got = NoRow]
  <2>1. /\ t \in Tx /\ t.pc = "snapshot" /\ t.got = NoRow /\ t.since = tx[h].since
        /\ t.cachedOwn = tx[h].cachedOwn
    BY <1>2, NothingTyped DEF Tx
  <2>2. tx' = [tx EXCEPT ![h] = t]
    BY <1>5 DEF Moves
  <2> HIDE DEF t
  <2>3. tx' \in [Handlers -> Tx] /\ tx'[h] = t /\ \A g \in Handlers \ {h} : tx'[g] = tx[g]
    BY <1>2, <2>1, <2>2
  <2>4. UNCHANGED <<storeVars, cache, base, entity, tainted, swallowed, trashCached>>
    BY <1>1, <1>5 DEF histVars
  <2>5. TypeOK'
    BY <1>0, <2>3, <2>4 DEF TypeOK, storeVars
  <2>6. CachedOwn \subseteq Handlers /\ CachedOwn \subseteq CachedOwn'
    BY <2>1, <2>3 DEF CachedOwn
  <2>7. CacheInv'
    BY <1>0, <2>4, <2>6, CacheStays
  <2>8. /\ pending'[h] = pending[h] /\ pendingRow'[h] = pendingRow[h]
        /\ StreamOf(h)' = StreamOf(h) /\ VersionOf(h)' = VersionOf(h)
    BY <2>4, StoreView
  <2>9. Placed(h)' /\ TrashInv(h)'
    BY <1>0, <1>1, <2>1, <2>3, <2>4, <2>8 DEF HandlerInv, Placed, TrashInv, NoRow
  <2>10. Projected(h)'
    BY <1>0, <1>1, <2>4, <2>8 DEF HandlerInv, Projected
  <2>11. CopyInv(h)'
    BY <2>1, <2>3 DEF CopyInv
  <2>12. ShownInv(h)'
    BY <2>4, <2>6, ShownStays
  <2>13. LoadedInv(h)' /\ WriteInv(h)' /\ ReadInv(h)'
    BY <1>0, <1>1, <2>1, <2>3, <2>8 DEF HandlerInv, LoadedInv, WriteInv, ReadInv
  <2>14. HandlerInv(h)'
    BY <2>9, <2>10, <2>11, <2>12, <2>13 DEF HandlerInv
  <2> QED
    BY <2>1, <2>3, <2>4, <2>5, <2>7, <2>14, StoreStep
<1> QED
  BY <1>3, <1>4, <1>5 DEF Probe

LEMMA LoadDetailSnapshotStep ==
    ASSUME IInv, NEW h \in Handlers, LoadDetailSnapshot(h) PROVE IInv'
<1>0. TypeOK /\ HandlerInv(h) /\ CacheInv /\ ViewInv /\ CommittedInv
  BY DEF IInv
<1>1. /\ tx[h].pc = "snapshot"
      /\ UNCHANGED <<storeVars, cache, entity, histVars>>
  BY DEF LoadDetailSnapshot
<1>2. tx \in [Handlers -> Tx] /\ tx[h] \in Tx /\ RowOf(h) \in Row
  BY <1>0, ViewFacts DEF TypeOK
<1>3. CASE RowOf(h).state # "live"
  <2>1. Answer(h, NoRow)
    BY <1>3 DEF LoadDetailSnapshot
  <2> QED
    BY <1>1, <2>1, NothingTyped, AnswerStep
<1>4. CASE RowOf(h).state = "live"
  <2> DEFINE v == VersionOf(h)
             r == WithStreamVersion(RowOf(h), v)
             t == [tx[h] EXCEPT !.pc = "set", !.got = r]
  <2>1. v \in Nat /\ v \in 0 .. MaxVersion
    <3>1. VersionOf(h) \in Nat /\ VersionOf(h) <= MaxVersion
      BY <1>0, ViewFacts DEF ViewInv
    <3> QED
      BY <3>1, EntityExecutorAssumption
  <2>2. tx' = [tx EXCEPT ![h] = t]
    BY <1>4 DEF LoadDetailSnapshot, Moves
  <2>3. /\ r \in Row /\ r.version = v /\ r.state = "live" /\ r.content = RowOf(h).content
    <3> DEFINE q == RowOf(h)
    <3>0. q.version <= v /\ q.version > 0
      BY <1>0, <1>4 DEF ViewInv, Proper, NoRow
    <3> HIDE DEF v
    <3>1. q \in Row /\ q.state = "live" /\ q.version \in Nat
      BY <1>2, <1>4 DEF Row
    <3> HIDE DEF q
    <3>3. v > 0
      BY <2>1, <3>0, <3>1
    <3>2. /\ [q EXCEPT !.version = v] \in Row /\ [q EXCEPT !.version = v].version = v
          /\ [q EXCEPT !.version = v].state = "live"
          /\ [q EXCEPT !.version = v].content = q.content
      BY <2>1, <3>1 DEF Row
    <3> QED
      BY <3>2, <3>3 DEF WithStreamVersion, q
  <2>4. SameRow(r, RowOf(h)) /\ r.version = VersionOf(h)
    BY <1>4, <2>3 DEF SameRow
  <2> HIDE DEF r
  <2>5. /\ t \in Tx /\ t.pc = "set" /\ t.got = r /\ t.since = tx[h].since
        /\ t.cachedOwn = tx[h].cachedOwn
    BY <1>2, <2>3 DEF Tx
  <2> HIDE DEF t
  <2>6. tx' \in [Handlers -> Tx] /\ tx'[h] = t /\ \A g \in Handlers \ {h} : tx'[g] = tx[g]
    BY <1>2, <2>2, <2>5
  <2>7. UNCHANGED <<storeVars, cache, base, entity, tainted, swallowed, trashCached>>
    BY <1>1, <1>4 DEF histVars, LoadDetailSnapshot
  <2>8. TypeOK'
    BY <1>0, <2>6, <2>7 DEF TypeOK, storeVars
  <2>9. CachedOwn \subseteq CachedOwn'
    BY <2>5, <2>6 DEF CachedOwn
  <2>10. CacheInv'
    BY <1>0, <2>7, <2>9, CacheStays
  <2>11. /\ pending'[h] = pending[h] /\ pendingRow'[h] = pendingRow[h]
         /\ StreamOf(h)' = StreamOf(h) /\ VersionOf(h)' = VersionOf(h)
    BY <2>7, StoreView
  <2>12. Placed(h)' /\ TrashInv(h)'
    BY <1>0, <2>3, <2>5, <2>6, <2>11 DEF HandlerInv, Placed, TrashInv
  <2>13. Projected(h)'
    BY <1>0, <1>1, <2>7, <2>11 DEF HandlerInv, Projected
  <2>14. CopyInv(h)'
    <3>1. Faithful(tx'[h].got, {h})
      BY <1>0, <1>4, <2>3, <2>4, <2>5, <2>6, ReadIsFaithful
    <3>2. {h} \in SUBSET Handlers /\ {h} \subseteq CachedOwn' \cup {h}
      OBVIOUS
    <3> QED
      BY <2>7, <3>1, <3>2, CopyTaken
  <2>15. ShownInv(h)'
    BY <2>7, <2>9, ShownStays
  <2>16. LoadedInv(h)' /\ WriteInv(h)'
    BY <2>5, <2>6 DEF LoadedInv, WriteInv
  <2>17. ReadInv(h)'
    <3>1. tx'[h].pc = "set" /\ tx'[h].got.version = v /\ tx'[h].since = tx[h].since
          /\ tx'[h].got.content = RowOf(h).content
      BY <2>3, <2>5, <2>6
    <3>2. tx[h].since <= v
      BY <1>0, <1>1 DEF HandlerInv, ReadInv
    <3>3. SubSeq(StreamOf(h), 1, v) = StreamOf(h)
      BY <1>0, ViewFacts, SubSeqFull DEF VersionOf
    <3>4. ~swallowed => RowOf(h) = Replayed(entity, StreamOf(h))
      <4>1. CASE pending[h] = <<>>
        BY <1>0, <4>1, ViewFacts DEF CommittedInv, RowOf
      <4>2. CASE pending[h] # <<>>
        BY <1>0, <1>1, <4>2 DEF HandlerInv, Projected, RowOf
      <4> QED
        BY <4>1, <4>2
    <3>5. v = VersionOf(h)
      OBVIOUS
    <3> HIDE DEF v
    <3>6. SubSeq(StreamOf(h)', 1, tx'[h].got.version) = StreamOf(h)
      BY <2>11, <3>1, <3>3
    <3>7. (~swallowed => tx[h].got.content
                            = Replayed(entity, SubSeq(StreamOf(h), 1, tx[h].got.version)).content)'
      BY <2>7, <3>1, <3>4, <3>6
    <3>8. tx'[h].since <= v /\ v <= v /\ VersionOf(h)' = v
      BY <2>1, <2>11, <3>1, <3>2, <3>5
    <3> QED
      BY <3>1, <3>7, <3>8 DEF ReadInv
  <2>18. HandlerInv(h)'
    BY <2>12, <2>13, <2>14, <2>15, <2>16, <2>17 DEF HandlerInv
  <2> QED
    BY <2>5, <2>6, <2>7, <2>8, <2>10, <2>18, StoreStep
<1> QED
  BY <1>3, <1>4

(* A row that gets into the cache keeps its backing: a transaction that    *)
(* caches while it has written is one that has cached rows of its own.     *)
LEMMA CachingFacts ==
    ASSUME IInv, NEW h \in Handlers, Caching(h), UNCHANGED <<storeVars, tainted>>
    PROVE  /\ tx' \in [Handlers -> Tx]
           /\ tx'[h].pc = "open" /\ tx'[h].got = NoRow
           /\ tx[h].cachedOwn => tx'[h].cachedOwn
           /\ tx'[h].cachedOwn => pending[h] # <<>>
           /\ \A g \in Handlers \ {h} : tx'[g] = tx[g]
           /\ cache' = tx[h].got /\ cache' \in Row
           /\ (~tainted /\ cache # NoRow => Faithful(cache, CachedOwn))'
<1> DEFINE own == tx[h].cachedOwn \/ pending[h] # <<>>
<1>0. TypeOK /\ HandlerInv(h)
  BY DEF IInv
<1>1. tx[h].cachedOwn \in BOOLEAN /\ tx[h].got \in Row
  BY <1>0 DEF TypeOK, Tx
<1>2. own \in BOOLEAN /\ tx' = [tx EXCEPT ![h] = [NoTx EXCEPT !.cachedOwn = own]]
  BY DEF Caching, Moves
<1>3. /\ tx[h].cachedOwn => own
      /\ pending[h] # <<>> => own
      /\ own => pending[h] # <<>>
  BY <1>0 DEF HandlerInv, Placed
<1> HIDE DEF own
<1>4. /\ tx' \in [Handlers -> Tx]
      /\ tx'[h].pc = "open" /\ tx'[h].got = NoRow
      /\ tx'[h].cachedOwn = own
      /\ \A g \in Handlers \ {h} : tx'[g] = tx[g]
  BY <1>0, <1>2, ReturnFacts
<1>5. cache' = tx[h].got
  BY DEF Caching
<1>6. ASSUME ~tainted, tx[h].got # NoRow PROVE Faithful(cache, CachedOwn)'
  <2>1. Faithful(tx[h].got, CachedOwn \cup {h})
    BY <1>0, <1>6 DEF HandlerInv, CopyInv
  <2>2. stream' = stream /\ row' = row /\ pending' = pending
    BY DEF storeVars
  <2>3. \A g \in Handlers : VersionOf(g)' = VersionOf(g) /\ RowOf(g)' = RowOf(g)
    BY StoreView
  <2>4. \A g \in CachedOwn \cup {h} : g \in Handlers /\ (pending[g] # <<>> => g \in CachedOwn')
    BY <1>3, <1>4 DEF CachedOwn
  <2> QED
    BY <1>5, <2>1, <2>2, <2>3, <2>4 DEF Faithful, SameRow
<1>7. (~tainted /\ cache # NoRow => Faithful(cache, CachedOwn))'
  BY <1>5, <1>6
<1> QED
  BY <1>1, <1>3, <1>4, <1>5, <1>7

LEMMA SetCachedStep ==
    ASSUME IInv, NEW h \in Handlers, SetCached(h) PROVE IInv'
<1>0. TypeOK /\ HandlerInv(h) /\ CacheInv /\ ViewInv
  BY DEF IInv
<1>1. /\ tx[h].pc = "set" /\ Caching(h)
      /\ base' = [base EXCEPT ![h] = tx[h].got]
      /\ UNCHANGED <<storeVars, entity, tainted, swallowed, trashCached>>
  BY DEF SetCached, histVars
<1>2. /\ tx' \in [Handlers -> Tx]
      /\ tx'[h].pc = "open" /\ tx'[h].got = NoRow
      /\ tx[h].cachedOwn => tx'[h].cachedOwn
      /\ tx'[h].cachedOwn => pending[h] # <<>>
      /\ \A g \in Handlers \ {h} : tx'[g] = tx[g]
      /\ cache' = tx[h].got /\ cache' \in Row
      /\ (~tainted /\ cache # NoRow => Faithful(cache, CachedOwn))'
  BY <1>1, CachingFacts
<1>3. tx[h].got \in Row /\ tx[h].got.state = "live" /\ base \in [Handlers -> Row]
  BY <1>0, <1>1 DEF TypeOK, Tx, HandlerInv, Placed
<1>4. /\ base' \in [Handlers -> Row] /\ base'[h] = tx[h].got
      /\ \A g \in Handlers \ {h} : base'[g] = base[g]
  BY <1>1, <1>3
<1>5. TypeOK'
  BY <1>0, <1>1, <1>2, <1>4 DEF TypeOK, storeVars
<1>6. CacheInv'
  BY <1>2, <1>3 DEF CacheInv
<1>7. ShownInv(h)'
  <2> DEFINE S == CachedOwn \cup {h}
  <2>1. S \in SUBSET Handlers /\ S \subseteq CachedOwn' \cup {h}
    BY <1>2 DEF CachedOwn
  <2>2. tx[h].got.version <= VersionOf(h) /\ tx[h].got # NoRow
    BY <1>0, <1>1, <1>3 DEF HandlerInv, ReadInv, NoRow
  <2>3. ~tainted => Faithful(base'[h], S) /\ base'[h].version <= VersionOf(h)
    BY <1>0, <1>4, <2>2 DEF HandlerInv, CopyInv
  <2> HIDE DEF S
  <2> QED
    BY <1>1, <2>1, <2>3, RowShown
<1>8. HandlerInv(h)'
  BY <1>1, <1>2, <1>7, ReturnKeeps
<1> QED
  BY <1>1, <1>2, <1>4, <1>5, <1>6, <1>8, StoreStep

LEMMA ListStep ==
    ASSUME IInv, NEW h \in Handlers, NEW state \in {"live", "trashed"}, List(h, state)
    PROVE  IInv'
<1> DEFINE v == VersionOf(h)
           q == RowOf(h)
           r == WithStreamVersion(q, v)
           t == [tx[h] EXCEPT !.pc = "mset", !.got = q]
<1>0. TypeOK /\ HandlerInv(h) /\ CacheInv /\ ViewInv
  BY DEF IInv
<1>1. /\ tx[h].pc = "open" /\ q.state = state
      /\ tx' = [tx EXCEPT ![h] = t] /\ base' = [base EXCEPT ![h] = r]
      /\ UNCHANGED <<storeVars, cache, entity, tainted, swallowed, trashCached>>
  BY DEF List, histVars, Moves
<1>2. /\ tx \in [Handlers -> Tx] /\ tx[h] \in Tx /\ q \in Row /\ base \in [Handlers -> Row]
      /\ v \in Nat /\ v <= MaxVersion /\ v > 0
  <2>1. /\ tx \in [Handlers -> Tx] /\ tx[h] \in Tx /\ q \in Row /\ base \in [Handlers -> Row]
        /\ v \in Nat /\ v <= MaxVersion
    BY <1>0, ViewFacts DEF TypeOK, ViewInv
  <2>2. q.version > 0 /\ q.version <= v
    BY <1>0, <1>1 DEF ViewInv, Proper, NoRow
  <2>3. q.version \in Nat
    BY <2>1 DEF Row
  <2> HIDE DEF v, q
  <2> QED
    BY <2>1, <2>2, <2>3
<1>3. v = VersionOf(h) /\ q = RowOf(h)
  OBVIOUS
<1> HIDE DEF v, q
<1>4. v \in 0 .. MaxVersion
  BY <1>2, EntityExecutorAssumption
<1>5. r \in Row /\ r.version = v /\ r.content = q.content /\ r.state = q.state
  BY <1>2, <1>4 DEF WithStreamVersion, Row
<1> HIDE DEF r
<1>7. /\ t \in Tx /\ t.pc = "mset" /\ t.got = q
      /\ t.cachedOwn = tx[h].cachedOwn
  BY <1>2 DEF Tx
<1> HIDE DEF t
<1>8. tx' \in [Handlers -> Tx] /\ tx'[h] = t /\ \A g \in Handlers \ {h} : tx'[g] = tx[g]
  BY <1>1, <1>2, <1>7
<1>9. base' \in [Handlers -> Row] /\ base'[h] = r /\ \A g \in Handlers \ {h} : base'[g] = base[g]
  BY <1>1, <1>2, <1>5
<1>10. TypeOK'
  BY <1>0, <1>1, <1>8, <1>9 DEF TypeOK, storeVars
<1>11. CachedOwn \subseteq CachedOwn'
  BY <1>7, <1>8 DEF CachedOwn
<1>12. CacheInv'
  BY <1>0, <1>1, <1>11, CacheStays
<1>13. /\ pending'[h] = pending[h] /\ pendingRow'[h] = pendingRow[h]
       /\ StreamOf(h)' = StreamOf(h) /\ VersionOf(h)' = VersionOf(h) /\ RowOf(h)' = RowOf(h)
  BY <1>1, StoreView
<1>14. Placed(h)' /\ TrashInv(h)' /\ LoadedInv(h)' /\ WriteInv(h)' /\ ReadInv(h)'
  BY <1>0, <1>7, <1>8, <1>13 DEF HandlerInv, Placed, TrashInv, LoadedInv, WriteInv, ReadInv
<1>15. Projected(h)'
  BY <1>0, <1>1, <1>13 DEF HandlerInv, Projected
<1>16. CopyInv(h)'
  <2>1. SameRow(q, RowOf(h)) /\ RowOf(h).state # "none" /\ q.version = RowOf(h).version
    BY <1>1, <1>3 DEF SameRow
  <2>2. Faithful(q, {h})
    BY <1>0, <1>2, <2>1, ReadIsFaithful
  <2>3. {h} \in SUBSET Handlers /\ {h} \subseteq CachedOwn' \cup {h}
    OBVIOUS
  <2>4. Faithful(tx'[h].got, {h})
    BY <1>7, <1>8, <2>2
  <2> QED
    BY <1>1, <2>3, <2>4, CopyTaken
<1>17. ShownInv(h)'
  <2>1. SameRow(r, RowOf(h)) /\ RowOf(h).state # "none" /\ r.version = VersionOf(h)
    BY <1>1, <1>3, <1>5 DEF SameRow
  <2>2. Faithful(r, {h})
    BY <1>0, <1>5, <2>1, ReadIsFaithful
  <2>3. {h} \in SUBSET Handlers /\ {h} \subseteq CachedOwn' \cup {h}
    OBVIOUS
  <2>4. Faithful(base'[h], {h}) /\ base'[h].version <= VersionOf(h)
    BY <1>2, <1>3, <1>5, <1>9, <2>2
  <2> QED
    BY <1>1, <2>3, <2>4, RowShown
<1>18. HandlerInv(h)'
  BY <1>14, <1>15, <1>16, <1>17 DEF HandlerInv
<1> QED
  BY <1>1, <1>7, <1>8, <1>9, <1>10, <1>12, <1>18, StoreStep

LEMMA MSetCachedStep ==
    ASSUME IInv, NEW h \in Handlers, MSetCached(h) PROVE IInv'
<1>0. TypeOK /\ HandlerInv(h) /\ CacheInv
  BY DEF IInv
<1>1. /\ tx[h].pc = "mset" /\ Caching(h)
      /\ trashCached' = (trashCached \/ tx[h].got.state = "trashed")
      /\ UNCHANGED <<storeVars, base, entity, tainted, swallowed>>
  BY DEF MSetCached
<1>2. /\ tx' \in [Handlers -> Tx]
      /\ tx'[h].pc = "open" /\ tx'[h].got = NoRow
      /\ tx[h].cachedOwn => tx'[h].cachedOwn
      /\ tx'[h].cachedOwn => pending[h] # <<>>
      /\ \A g \in Handlers \ {h} : tx'[g] = tx[g]
      /\ cache' = tx[h].got /\ cache' \in Row
      /\ (~tainted /\ cache # NoRow => Faithful(cache, CachedOwn))'
  BY <1>1, CachingFacts
<1>3. trashCached' \in BOOLEAN /\ (trashCached => trashCached')
  BY <1>1
<1>4. TypeOK'
  BY <1>0, <1>1, <1>2, <1>3 DEF TypeOK, storeVars
<1>5. CacheInv'
  BY <1>1, <1>2 DEF CacheInv
<1>6. ShownInv(h)'
  <2>1. CachedOwn \subseteq CachedOwn' /\ base'[h] = base[h]
    BY <1>1, <1>2 DEF CachedOwn
  <2> QED
    BY <1>1, <2>1, ShownStays
<1>7. HandlerInv(h)'
  BY <1>1, <1>2, <1>6, ReturnKeeps
<1> QED
  BY <1>1, <1>2, <1>3, <1>4, <1>5, <1>7, StoreStep

(* A step that changes the cache at most.                                  *)
LEMMA CacheOnlyStep ==
    ASSUME IInv, UNCHANGED <<storeVars, tx, base, entity, histVars>>, cache' \in Row, CacheInv'
    PROVE  IInv'
<1>1. /\ stream' = stream /\ row' = row /\ pending' = pending /\ pendingRow' = pendingRow
      /\ tx' = tx /\ base' = base /\ tainted' = tainted /\ swallowed' = swallowed
      /\ trashCached' = trashCached /\ entity' = entity
  BY DEF storeVars, histVars
<1>2. \A g \in Handlers : StreamOf(g)' = StreamOf(g) /\ VersionOf(g)' = VersionOf(g)
                            /\ RowOf(g)' = RowOf(g)
  BY StoreView
<1>3. TypeOK'
  BY <1>1 DEF IInv, TypeOK
<1>4. ViewInv'
  BY <1>1, <1>2 DEF IInv, ViewInv
<1>5. CommittedInv'
  BY <1>1 DEF IInv, CommittedInv
<1>6. CachedOwn \subseteq Handlers /\ CachedOwn' = CachedOwn
  BY <1>1 DEF CachedOwn
<1>7. ASSUME NEW g \in Handlers PROVE HandlerInv(g)'
  <2>1. HandlerInv(g)
    BY DEF IInv
  <2>2. Placed(g)' /\ TrashInv(g)'
    BY <1>1, <2>1 DEF HandlerInv, Placed, TrashInv
  <2>3. Projected(g)'
    BY <1>1, <1>2, <2>1 DEF HandlerInv, Projected
  <2>4. CopyInv(g)'
    BY <1>1, <1>2, <1>6, <2>1 DEF HandlerInv, CopyInv, Faithful, SameRow
  <2>5. ShownInv(g)'
    BY <1>1, <1>2, <1>6, <2>1 DEF HandlerInv, ShownInv, Faithful, SameRow
  <2>7. LoadedInv(g)' /\ WriteInv(g)'
    BY <1>1, <1>2, <2>1 DEF HandlerInv, LoadedInv, WriteInv, Checked
  <2>6. ReadInv(g)'
    BY <1>1, <1>2, <2>1 DEF HandlerInv, ReadInv
  <2> QED
    BY <2>2, <2>3, <2>4, <2>5, <2>6, <2>7 DEF HandlerInv
<1> QED
  BY <1>3, <1>4, <1>5, <1>7 DEF IInv

LEMMA ExpireCachedStep ==
    ASSUME IInv, ExpireCached PROVE IInv'
<1>1. CacheInv'
  BY DEF ExpireCached, CacheInv, NoRow
<1> QED
  BY <1>1, NothingTyped, CacheOnlyStep DEF ExpireCached

LEMMA StutterStep ==
    ASSUME IInv, UNCHANGED vars PROVE IInv'
<1>1. UNCHANGED <<storeVars, tx, base, entity, histVars>> /\ cache' = cache
      /\ tainted' = tainted /\ trashCached' = trashCached
  BY DEF vars, histVars
<1>2. CacheInv /\ cache \in Row
  BY DEF IInv, TypeOK
<1>3. CachedOwn \subseteq CachedOwn'
  BY <1>1 DEF CachedOwn
<1>4. CacheInv'
  BY <1>1, <1>2, <1>3, CacheStays
<1> QED
  BY <1>1, <1>2, <1>4, CacheOnlyStep

-----------------------------------------------------------------------------
(* The ends of a transaction.                                              *)

(* What was read stays a prefix of what is there.                          *)
LEMMA PrefixStays ==
    ASSUME NEW s \in Seq(Event), NEW t \in Seq(Event), NEW v \in 0 .. Len(s)
    PROVE  SubSeq(s \o t, 1, v) = SubSeq(s, 1, v)
<1>1. Len(s) \in Nat
  BY LenProperties
<1>2. CASE v = 0
  BY <1>2, SubSeqEmpty
<1>3. CASE v # 0
  <2>1. v \in 1 .. Len(s) /\ 1 \in 1 .. Len(s)
    BY <1>1, <1>3
  <2> QED
    BY <2>1, SubSeqOfConcat1
<1> QED
  BY <1>2, <1>3

(* Everybody sees what the one that commits has seen.                      *)
LEMMA CommitView ==
    ASSUME TypeOK, NEW h \in Handlers, Commit(h)
    PROVE  /\ stream' = StreamOf(h) /\ row' = RowOf(h) /\ Len(stream') = VersionOf(h)
           /\ \A g \in Handlers :
                 /\ pending'[g] = <<>>
                 /\ StreamOf(g)' = StreamOf(h)
                 /\ VersionOf(g)' = VersionOf(h)
                 /\ RowOf(g)' = RowOf(h)
                 /\ g # h => pending[g] = <<>> /\ VersionOf(g) = Len(stream)
           /\ VersionOf(h) > Len(stream)
<1>1. /\ pending[h] # <<>> /\ stream' = StreamOf(h) /\ row' = RowOf(h)
      /\ pending' = [pending EXCEPT ![h] = <<>>]
  BY DEF Commit
<1>2. pending \in [Handlers -> Seq(Event)]
  BY DEF TypeOK
<1>3. StreamOf(h) \in Seq(Event) /\ VersionOf(h) > Len(stream)
  BY <1>1, ViewFacts
<1>4. ASSUME NEW g \in Handlers
      PROVE  pending'[g] = <<>> /\ (g # h => pending[g] = <<>>)
  BY <1>1, <1>2 DEF TypeOK
<1>5. ASSUME NEW g \in Handlers
      PROVE  StreamOf(g)' = StreamOf(h) /\ RowOf(g)' = RowOf(h) /\ VersionOf(g)' = VersionOf(h)
  <2>1. StreamOf(g)' = StreamOf(h) \o <<>>
    BY <1>1, <1>4 DEF StreamOf
  <2>2. StreamOf(g)' = StreamOf(h)
    BY <1>3, <2>1, ConcatEmptySeq
  <2>3. RowOf(g)' = RowOf(h)
    BY <1>1, <1>4 DEF RowOf
  <2> QED
    BY <2>2, <2>3 DEF VersionOf
<1>6. ASSUME NEW g \in Handlers, g # h PROVE VersionOf(g) = Len(stream)
  BY <1>4, <1>6, ViewFacts
<1>7. Len(stream') = VersionOf(h)
  BY <1>1 DEF VersionOf
<1> QED
  BY <1>1, <1>3, <1>4, <1>5, <1>6, <1>7

LEMMA CommitStep ==
    ASSUME IInv, NEW h \in Handlers, Commit(h) PROVE IInv'
<1>0. TypeOK /\ ViewInv /\ CommittedInv /\ CacheInv /\ HandlerInv(h)
  BY DEF IInv
<1>1. /\ stream' = StreamOf(h) /\ row' = RowOf(h) /\ Len(stream') = VersionOf(h)
      /\ \A g \in Handlers :
            /\ pending'[g] = <<>>
            /\ StreamOf(g)' = StreamOf(h)
            /\ VersionOf(g)' = VersionOf(h)
            /\ RowOf(g)' = RowOf(h)
            /\ g # h => pending[g] = <<>> /\ VersionOf(g) = Len(stream)
      /\ VersionOf(h) > Len(stream)
  BY <1>0, CommitView
<1>2. /\ tx[h].pc = "open" /\ pending[h] # <<>>
      /\ pending' = [pending EXCEPT ![h] = <<>>]
      /\ pendingRow' = [pendingRow EXCEPT ![h] = NoRow]
      /\ tx' = [tx EXCEPT ![h] = NoTx]
      /\ UNCHANGED <<cache, base, entity, tainted, swallowed, trashCached>>
  BY DEF Commit, Moves, histVars
<1>3. /\ tx' \in [Handlers -> Tx] /\ tx'[h] = NoTx
      /\ \A g \in Handlers \ {h} : tx'[g] = tx[g]
  BY <1>0, <1>2, NothingTyped DEF TypeOK
<1>4. /\ StreamOf(h) \in Seq(Event) /\ VersionOf(h) \in Nat /\ VersionOf(h) <= MaxVersion
      /\ RowOf(h) \in Row /\ RowOf(h).version <= VersionOf(h) /\ Len(stream) \in Nat
      /\ stream \in Seq(Event) /\ pending[h] \in Seq(Event)
  BY <1>0, ViewFacts DEF ViewInv
<1>5. TypeOK'
  <2>1. stream' \in Seq(Event) /\ Len(stream') <= MaxVersion
        /\ row' \in Row /\ row'.version <= Len(stream')
    BY <1>1, <1>4
  <2>2. pending' \in [Handlers -> Seq(Event)] /\ pendingRow' \in [Handlers -> Row]
    <3>1. <<>> \in Seq(Event)
      BY EmptySeq
    <3> QED
      BY <1>0, <1>2, <3>1, NothingTyped DEF TypeOK
  <2>3. \A f, g \in Handlers : pending'[f] # <<>> /\ pending'[g] # <<>> => f = g
    BY <1>1
  <2> QED
    BY <1>0, <1>2, <1>3, <2>1, <2>2, <2>3 DEF TypeOK
<1>6. ViewInv'
  BY <1>0, <1>1, <1>4 DEF ViewInv, Proper
<1>7. CommittedInv'
  <2>1. ~swallowed => RowOf(h) = Replayed(entity, StreamOf(h))
    BY <1>0, <1>2 DEF HandlerInv, Projected, RowOf
  <2> QED
    BY <1>1, <1>2, <2>1 DEF CommittedInv
<1>8. ASSUME NEW x \in Row, NEW S \in SUBSET Handlers, Faithful(x, S)
      PROVE  /\ x.version = VersionOf(h) => SameRow(x, RowOf(h))
             /\ ~(x.version > VersionOf(h)) /\ x.version > 0
  <2>1. (x.version = VersionOf(h) => SameRow(x, RowOf(h))) /\ x.version > 0
    BY <1>8 DEF Faithful
  <2>2. ASSUME x.version > VersionOf(h) PROVE FALSE
    <3>0. x.version \in Nat
      BY DEF Row
    <3>1. PICK g \in S : pending[g] # <<>> /\ x.version <= VersionOf(g)
      BY <1>1, <1>4, <1>8, <2>2, <3>0 DEF Faithful
    <3>2. g = h
      BY <1>1, <3>1
    <3> QED
      BY <1>4, <2>2, <3>0, <3>1, <3>2
  <2> QED
    BY <2>1, <2>2
<1>9. CacheInv'
  <2>1. (cache.state = "trashed" => trashCached)'
    BY <1>0, <1>2 DEF CacheInv
  <2>2. ASSUME ~tainted, cache # NoRow PROVE Faithful(cache, CachedOwn)'
    <3>1. Faithful(cache, CachedOwn) /\ CachedOwn \in SUBSET Handlers /\ cache \in Row
      BY <1>0, <2>2 DEF CacheInv, CachedOwn, TypeOK
    <3>2. /\ cache.version = VersionOf(h) => SameRow(cache, RowOf(h))
          /\ ~(cache.version > VersionOf(h)) /\ cache.version > 0
      BY <1>8, <3>1
    <3> QED
      BY <1>1, <1>2, <3>2 DEF Faithful, SameRow
  <2> QED
    BY <1>2, <2>1, <2>2 DEF CacheInv
<1>10. ASSUME NEW g \in Handlers PROVE ShownInv(g)'
  <2>1. ASSUME ~tainted, base[g] # NoRow
        PROVE  /\ Faithful(base[g], CachedOwn \cup {g})'
               /\ base[g].version <= VersionOf(h)
    <3>1. /\ Faithful(base[g], CachedOwn \cup {g}) /\ CachedOwn \cup {g} \in SUBSET Handlers
          /\ base[g] \in Row /\ base'[g] = base[g]
      BY <1>0, <1>2, <2>1 DEF IInv, HandlerInv, ShownInv, CachedOwn, TypeOK
    <3>2. /\ base[g].version = VersionOf(h) => SameRow(base[g], RowOf(h))
          /\ ~(base[g].version > VersionOf(h)) /\ base[g].version > 0
      BY <1>8, <3>1
    <3>3. base[g].version \in Nat
      BY <3>1 DEF Row
    <3> QED
      BY <1>1, <1>4, <3>1, <3>2, <3>3 DEF Faithful, SameRow
  <2> QED
    BY <1>1, <1>2, <2>1 DEF ShownInv
<1>11. HandlerInv(h)'
  <2>1. /\ tx'[h].pc = "open" /\ tx'[h].got = NoRow
        /\ tx'[h].cachedOwn = FALSE
    BY <1>3 DEF NoTx
  <2>2. /\ Placed(h)' /\ TrashInv(h)' /\ LoadedInv(h)' /\ WriteInv(h)' /\ ReadInv(h)'
        /\ CopyInv(h)'
    BY <2>1 DEF Placed, TrashInv, LoadedInv, WriteInv, ReadInv, CopyInv, NoRow
  <2>3. Projected(h)'
    BY <1>1 DEF Projected
  <2>4. ShownInv(h)'
    BY <1>10
  <2> QED
    BY <2>2, <2>3, <2>4 DEF HandlerInv
<1>12. ASSUME NEW g \in Handlers, g # h PROVE HandlerInv(g)'
  <2>0. /\ HandlerInv(g) /\ tx'[g] = tx[g] /\ base'[g] = base[g]
        /\ VersionOf(g) = Len(stream) /\ VersionOf(g) < VersionOf(h)
        /\ pending[g] = <<>> /\ VersionOf(g)' = VersionOf(h) /\ StreamOf(g)' = StreamOf(h)
        /\ pending'[g] = <<>>
    BY <1>1, <1>2, <1>3, <1>4, <1>12 DEF IInv
  <2>1. tx[g] \in Tx /\ base[g] \in Row
    BY <1>0 DEF TypeOK
  <2>2. /\ tx[g].got \in Row /\ tx[g].expected \in Nat /\ tx[g].since \in Nat
        /\ tx[g].got.version \in Nat /\ base[g].version \in Nat
    BY <2>1 DEF Tx, Row
  <2>3. Placed(g)' /\ TrashInv(g)' /\ Projected(g)'
    BY <1>2, <2>0 DEF HandlerInv, Placed, TrashInv, Projected
  <2>4. CopyInv(g)'
    <3>1. ASSUME ~tainted, tx[g].got # NoRow
          PROVE  Faithful(tx[g].got, CachedOwn \cup {g})'
      <4>1. Faithful(tx[g].got, CachedOwn \cup {g}) /\ CachedOwn \cup {g} \in SUBSET Handlers
        BY <2>0, <3>1 DEF HandlerInv, CopyInv, CachedOwn
      <4>2. /\ tx[g].got.version = VersionOf(h) => SameRow(tx[g].got, RowOf(h))
            /\ ~(tx[g].got.version > VersionOf(h)) /\ tx[g].got.version > 0
        BY <1>8, <2>2, <4>1
      <4> QED
        BY <1>1, <2>0, <4>2 DEF Faithful, SameRow
    <3> QED
      BY <1>2, <2>0, <3>1 DEF CopyInv
  <2>5. ShownInv(g)'
    BY <1>10
  <2>6. LoadedInv(g)' /\ WriteInv(g)'
    <3>1. ASSUME ~tainted, base[g] # NoRow, VersionOf(g) > 0 PROVE base[g].version # VersionOf(h)
      BY <1>4, <2>0, <2>2, <3>1 DEF HandlerInv, ShownInv
    <3>2. tx[g].pc = "versioned" /\ Checked(g) => tx[g].expected < VersionOf(h)
      BY <1>4, <2>0, <2>2 DEF HandlerInv, WriteInv
    <3>3. LoadedInv(g)'
      BY <1>2, <1>4, <2>0, <3>1 DEF HandlerInv, LoadedInv
    <3> QED
      BY <1>4, <2>0, <2>2, <3>2, <3>3 DEF WriteInv, Checked
  <2>7. ReadInv(g)'
    <3>1. ASSUME tx[g].pc \in {"probe", "snapshot", "set"} PROVE tx[g].since <= VersionOf(h)
      BY <1>4, <2>0, <2>2, <3>1 DEF HandlerInv, ReadInv
    <3>2. ASSUME tx[g].pc = "set"
          PROVE  /\ tx[g].since <= tx[g].got.version /\ tx[g].got.version <= VersionOf(h)
                 /\ ~swallowed => tx[g].got.content
                       = Replayed(entity, SubSeq(StreamOf(h), 1, tx[g].got.version)).content
      <4>1. tx[g].since <= tx[g].got.version /\ tx[g].got.version <= VersionOf(g)
        BY <2>0, <3>2 DEF HandlerInv, ReadInv
      <4>2. StreamOf(g) = stream
        BY <1>0, <2>0, ViewFacts
      <4>3. SubSeq(StreamOf(h), 1, tx[g].got.version) = SubSeq(StreamOf(g), 1, tx[g].got.version)
        <5>1. tx[g].got.version \in 0 .. Len(stream)
          BY <1>4, <2>0, <2>2, <4>1
        <5> QED
          BY <1>4, <4>2, <5>1, PrefixStays DEF StreamOf
      <4>4. ~swallowed => tx[g].got.content
                            = Replayed(entity, SubSeq(StreamOf(g), 1, tx[g].got.version)).content
        BY <2>0, <3>2 DEF HandlerInv, ReadInv
      <4>5. tx[g].got.version <= VersionOf(h)
        BY <1>4, <2>0, <2>2, <4>1
      <4> QED
        BY <4>1, <4>3, <4>4, <4>5
    <3> QED
      BY <1>2, <2>0, <3>1, <3>2 DEF ReadInv
  <2> QED
    BY <2>3, <2>4, <2>5, <2>6, <2>7 DEF HandlerInv
<1> QED
  BY <1>5, <1>6, <1>7, <1>9, <1>12, <1>11 DEF IInv

(* Only the one that rolls back sees something else, the committed store.  *)
LEMMA RollbackView ==
    ASSUME TypeOK, NEW h \in Handlers, Rollback(h)
    PROVE  /\ pending'[h] = <<>> /\ StreamOf(h)' = stream /\ VersionOf(h)' = Len(stream)
           /\ RowOf(h)' = row
           /\ \A g \in Handlers \ {h} :
                 /\ pending'[g] = pending[g] /\ pendingRow'[g] = pendingRow[g]
                 /\ StreamOf(g)' = StreamOf(g)
                 /\ VersionOf(g)' = VersionOf(g)
                 /\ RowOf(g)' = RowOf(g)
<1>1. /\ pending' = [pending EXCEPT ![h] = <<>>] /\ pendingRow' = [pendingRow EXCEPT ![h] = NoRow]
      /\ stream' = stream /\ row' = row
  BY DEF Rollback
<1>2. pending \in [Handlers -> Seq(Event)] /\ pendingRow \in [Handlers -> Row]
      /\ stream \in Seq(Event)
  BY DEF TypeOK
<1>3. ASSUME NEW g \in Handlers \ {h}
      PROVE  pending'[g] = pending[g] /\ pendingRow'[g] = pendingRow[g]
  BY <1>1, <1>2
<1>4. ASSUME NEW g \in Handlers \ {h}
      PROVE  StreamOf(g)' = StreamOf(g) /\ VersionOf(g)' = VersionOf(g) /\ RowOf(g)' = RowOf(g)
  BY <1>1, <1>3 DEF StreamOf, VersionOf, RowOf
<1>5. pending'[h] = <<>> /\ RowOf(h)' = row
  BY <1>1, <1>2 DEF RowOf
<1>6. StreamOf(h)' = stream
  <2>1. StreamOf(h)' = stream \o <<>>
    BY <1>1, <1>5 DEF StreamOf
  <2> QED
    BY <1>2, <2>1, ConcatEmptySeq
<1>7. VersionOf(h)' = Len(stream)
  BY <1>6 DEF VersionOf
<1> QED
  BY <1>3, <1>4, <1>5, <1>6, <1>7

LEMMA RollbackStep ==
    ASSUME IInv, NEW h \in Handlers, Rollback(h) PROVE IInv'
<1>0. TypeOK /\ ViewInv /\ CommittedInv /\ CacheInv /\ HandlerInv(h)
  BY DEF IInv
<1>1. /\ pending'[h] = <<>> /\ StreamOf(h)' = stream /\ VersionOf(h)' = Len(stream)
      /\ RowOf(h)' = row
      /\ \A g \in Handlers \ {h} :
            /\ pending'[g] = pending[g] /\ pendingRow'[g] = pendingRow[g]
            /\ StreamOf(g)' = StreamOf(g)
            /\ VersionOf(g)' = VersionOf(g)
            /\ RowOf(g)' = RowOf(g)
  BY <1>0, RollbackView
<1>2. /\ pending' = [pending EXCEPT ![h] = <<>>]
      /\ pendingRow' = [pendingRow EXCEPT ![h] = NoRow]
      /\ tx' = [tx EXCEPT ![h] = NoTx]
      /\ base' = [base EXCEPT ![h] = NoRow]
      /\ tainted' = (tainted \/ tx[h].cachedOwn)
      /\ UNCHANGED <<stream, row, cache, entity, swallowed, trashCached>>
  BY DEF Rollback, Moves
<1>3. /\ tx' \in [Handlers -> Tx] /\ tx'[h] = NoTx /\ base' \in [Handlers -> Row]
      /\ base'[h] = NoRow
      /\ \A g \in Handlers \ {h} : tx'[g] = tx[g] /\ base'[g] = base[g]
  BY <1>0, <1>2, NothingTyped DEF TypeOK
<1>4. Len(stream) \in Nat /\ Len(stream) <= MaxVersion /\ row.version <= Len(stream)
  BY <1>0, ViewFacts DEF TypeOK
<1>5. TypeOK'
  <2>1. pending' \in [Handlers -> Seq(Event)] /\ pendingRow' \in [Handlers -> Row]
    <3>1. <<>> \in Seq(Event)
      BY EmptySeq
    <3> QED
      BY <1>0, <1>2, <3>1, NothingTyped DEF TypeOK
  <2>2. \A f, g \in Handlers : pending'[f] # <<>> /\ pending'[g] # <<>> => f = g
    <3>1. \A g \in Handlers : pending'[g] # <<>> => pending[g] # <<>>
      BY <1>1
    <3> QED
      BY <1>0, <3>1 DEF TypeOK
  <2>3. tainted' \in BOOLEAN
    BY <1>2
  <2> QED
    BY <1>0, <1>2, <1>3, <2>1, <2>2, <2>3 DEF TypeOK
<1>6. ViewInv'
  BY <1>0, <1>1, <1>2, <1>4 DEF ViewInv, Proper
<1>7. CommittedInv'
  BY <1>0, <1>2 DEF CommittedInv
<1>8. ~tainted' => ~tainted /\ CachedOwn \subseteq Handlers \ {h} /\ CachedOwn' = CachedOwn
  BY <1>2, <1>3 DEF CachedOwn, NoTx
<1>9. CacheInv'
  <2>1. (cache.state = "trashed" => trashCached)'
    BY <1>0, <1>2 DEF CacheInv
  <2>2. ASSUME ~tainted', cache # NoRow PROVE Faithful(cache, CachedOwn)'
    <3>1. Faithful(cache, CachedOwn)
      BY <1>0, <1>8, <2>2 DEF CacheInv
    <3> QED
      BY <1>1, <1>2, <1>8, <2>2, <3>1 DEF Faithful, SameRow
  <2> QED
    BY <1>2, <2>1, <2>2 DEF CacheInv
<1>10. HandlerInv(h)'
  <2>1. /\ tx'[h].pc = "open" /\ tx'[h].got = NoRow
        /\ tx'[h].cachedOwn = FALSE
    BY <1>3 DEF NoTx
  <2>2. /\ Placed(h)' /\ TrashInv(h)' /\ LoadedInv(h)' /\ WriteInv(h)' /\ ReadInv(h)'
        /\ CopyInv(h)'
    BY <2>1 DEF Placed, TrashInv, LoadedInv, WriteInv, ReadInv, CopyInv, NoRow
  <2>3. Projected(h)' /\ ShownInv(h)'
    BY <1>1, <1>3 DEF Projected, ShownInv
  <2> QED
    BY <2>2, <2>3 DEF HandlerInv
<1>11. ASSUME NEW g \in Handlers, g # h PROVE HandlerInv(g)'
  <2>0. /\ HandlerInv(g) /\ tx'[g] = tx[g] /\ base'[g] = base[g]
        /\ pending'[g] = pending[g] /\ pendingRow'[g] = pendingRow[g]
        /\ StreamOf(g)' = StreamOf(g) /\ VersionOf(g)' = VersionOf(g) /\ RowOf(g)' = RowOf(g)
    BY <1>1, <1>3, <1>11 DEF IInv
  <2>1. Placed(g)' /\ TrashInv(g)'
    BY <1>2, <2>0 DEF HandlerInv, Placed, TrashInv
  <2>2. Projected(g)'
    BY <1>2, <2>0 DEF HandlerInv, Projected
  <2>3. CopyInv(g)'
    <3>1. ASSUME ~tainted', tx[g].got # NoRow
          PROVE  Faithful(tx[g].got, CachedOwn \cup {g})'
      <4>1. Faithful(tx[g].got, CachedOwn \cup {g})
        BY <1>8, <2>0, <3>1 DEF HandlerInv, CopyInv
      <4>2. CachedOwn' \cup {g} \subseteq Handlers \ {h} /\ CachedOwn' = CachedOwn
        BY <1>8, <1>11, <3>1
      <4> QED
        BY <1>1, <1>2, <2>0, <4>1, <4>2 DEF Faithful, SameRow
    <3> QED
      BY <2>0, <3>1 DEF CopyInv
  <2>4. ShownInv(g)'
    <3>1. ASSUME ~tainted', base[g] # NoRow
          PROVE  Faithful(base[g], CachedOwn \cup {g})'
      <4>1. Faithful(base[g], CachedOwn \cup {g})
        BY <1>8, <2>0, <3>1 DEF HandlerInv, ShownInv
      <4>2. CachedOwn' \cup {g} \subseteq Handlers \ {h} /\ CachedOwn' = CachedOwn
        BY <1>8, <1>11, <3>1
      <4> QED
        BY <1>1, <1>2, <2>0, <4>1, <4>2 DEF Faithful, SameRow
    <3> QED
      BY <1>8, <2>0, <3>1 DEF HandlerInv, ShownInv
  <2>5. LoadedInv(g)' /\ WriteInv(g)'
    BY <1>8, <2>0 DEF HandlerInv, LoadedInv, WriteInv, Checked
  <2>6. ReadInv(g)'
    BY <1>2, <2>0 DEF HandlerInv, ReadInv
  <2> QED
    BY <2>1, <2>2, <2>3, <2>4, <2>5, <2>6 DEF HandlerInv
<1> QED
  BY <1>5, <1>6, <1>7, <1>9, <1>10, <1>11 DEF IInv

-----------------------------------------------------------------------------
(* The append.                                                             *)

LEMMA AppendView ==
    ASSUME TypeOK, NEW h \in Handlers, NEW e \in Event, stream' = stream, row' = row,
           pending' = [pending EXCEPT ![h] = Append(@, e)],
           \A g \in Handlers \ {h} : pendingRow'[g] = pendingRow[g]
    PROVE  /\ pending' \in [Handlers -> Seq(Event)] /\ pending'[h] # <<>>
           /\ StreamOf(h)' = Append(StreamOf(h), e)
           /\ VersionOf(h)' = VersionOf(h) + 1
           /\ RowOf(h)' = pendingRow'[h]
           /\ \A g \in Handlers \ {h} :
                 /\ pending'[g] = pending[g]
                 /\ StreamOf(g)' = StreamOf(g)
                 /\ VersionOf(g)' = VersionOf(g)
                 /\ RowOf(g)' = RowOf(g)
<1>1. pending \in [Handlers -> Seq(Event)] /\ stream \in Seq(Event) /\ pending[h] \in Seq(Event)
  BY DEF TypeOK
<1>2. Append(pending[h], e) \in Seq(Event) /\ Append(pending[h], e) # <<>>
  BY <1>1, AppendProperties
<1>3. /\ pending' \in [Handlers -> Seq(Event)] /\ pending'[h] = Append(pending[h], e)
      /\ \A g \in Handlers \ {h} : pending'[g] = pending[g]
  BY <1>1, <1>2
<1>4. StreamOf(h) \in Seq(Event) /\ <<e>> \in Seq(Event)
  BY ViewFacts
<1>5. StreamOf(h)' = Append(StreamOf(h), e)
  <2>1. StreamOf(h)' = stream \o Append(pending[h], e)
    BY <1>3 DEF StreamOf
  <2>2. Append(pending[h], e) = pending[h] \o <<e>>
    BY <1>1, AppendIsConcat
  <2>3. stream \o (pending[h] \o <<e>>) = (stream \o pending[h]) \o <<e>>
    BY <1>1, <1>4, ConcatAssociative
  <2>4. Append(StreamOf(h), e) = StreamOf(h) \o <<e>>
    BY <1>4, AppendIsConcat
  <2> QED
    BY <2>1, <2>2, <2>3, <2>4 DEF StreamOf
<1>6. VersionOf(h)' = VersionOf(h) + 1
  <2>1. Len(Append(StreamOf(h), e)) = Len(StreamOf(h)) + 1
    BY <1>4, AppendProperties
  <2> QED
    BY <1>5, <2>1 DEF VersionOf
<1>7. RowOf(h)' = pendingRow'[h]
  BY <1>2, <1>3 DEF RowOf
<1>8. ASSUME NEW g \in Handlers \ {h}
      PROVE  StreamOf(g)' = StreamOf(g) /\ VersionOf(g)' = VersionOf(g) /\ RowOf(g)' = RowOf(g)
  BY <1>3 DEF StreamOf, VersionOf, RowOf
<1> QED
  BY <1>2, <1>3, <1>5, <1>6, <1>7, <1>8

LEMMA NewEventType ==
    ASSUME TypeOK, NEW h \in Handlers, NEW status \in Statuses,
           tx[h].expected + 1 <= MaxVersion
    PROVE  NewEvent(h, status) \in Event /\ tx[h].expected + 1 \in 0 .. MaxVersion
<1>1. tx[h].verb \in Verbs /\ tx[h].expected \in 0 .. MaxVersion
  BY DEF TypeOK, Tx
<1>2. tx[h].expected + 1 \in 0 .. MaxVersion
  BY <1>1, EntityExecutorAssumption
<1>3. [at |-> tx[h].expected + 1, status |-> status] \in Content
  BY <1>2 DEF Content
<1> QED
  BY <1>1, <1>2, <1>3, NothingTyped DEF NewEvent, Event

LEMMA AppendFacts ==
    ASSUME IInv, NEW h \in Handlers, NEW status \in Statuses, AppendEvent(h, status)
    PROVE  /\ NewEvent(h, status) \in Event
           /\ tx[h].pc = "versioned" /\ tx[h].expected = VersionOf(h)
           /\ VersionOf(h) + 1 \in 0 .. MaxVersion
           /\ \A g \in Handlers \ {h} : pending[g] = <<>> /\ pendingRow'[g] = pendingRow[g]
                                         /\ tx'[g] = tx[g]
           /\ pending' = [pending EXCEPT ![h] = Append(@, NewEvent(h, status))]
           /\ pendingRow' \in [Handlers -> Row]
           /\ \/ pendingRow'[h]
                    = ApplyEntityEvent(entity, RowOf(h), NewEvent(h, status), VersionOf(h) + 1)
              \/ tx'[h].pc = "failed" /\ pendingRow'[h] = RowOf(h)
           /\ tx' \in [Handlers -> Tx]
           /\ tx'[h].pc \in {"open", "evict", "failed"}
           /\ tx'[h].cachedOwn = tx[h].cachedOwn
           /\ tx'[h].got = NoRow
           /\ UNCHANGED <<stream, row, cache, base, entity, tainted, swallowed, trashCached>>
<1> DEFINE e == NewEvent(h, status)
           v == tx[h].expected + 1
           a == ApplyEntityEvent(entity, RowOf(h), e, v)
<1>0. TypeOK
  BY DEF IInv
<1>1. /\ tx[h].pc = "versioned" /\ v <= MaxVersion /\ IsNext(h)
      /\ pending' = [pending EXCEPT ![h] = Append(@, e)]
      /\ \/ /\ pendingRow' = [pendingRow EXCEPT ![h] = a]
            /\ Return(h) \/ Appended(h, "evict")
         \/ /\ pendingRow' = [pendingRow EXCEPT ![h] = RowOf(h)]
            /\ Appended(h, "failed")
      /\ UNCHANGED <<stream, row, cache, base, entity, tainted, swallowed, trashCached>>
  BY DEF AppendEvent, histVars
<1>2. tx[h].expected = VersionOf(h) /\ \A g \in Handlers \ {h} : pending[g] = <<>>
  BY <1>1 DEF IsNext
<1>3. e \in Event /\ v \in 0 .. MaxVersion
  BY <1>0, <1>1, NewEventType
<1>4. RowOf(h) \in Row /\ a \in Row
  <2>1. RowOf(h) \in Row /\ entity \in Entity
    BY <1>0, ViewFacts DEF TypeOK
  <2> HIDE DEF e, v
  <2> QED
    BY <1>3, <2>1, ApplyType
<1>5. /\ v = VersionOf(h) + 1
      /\ a = ApplyEntityEvent(entity, RowOf(h), NewEvent(h, status), VersionOf(h) + 1)
  BY <1>2
<1> HIDE DEF a
<1>6. pendingRow \in [Handlers -> Row] /\ tx \in [Handlers -> Tx] /\ tx[h] \in Tx
      /\ tx[h].cachedOwn \in BOOLEAN
  BY <1>0 DEF TypeOK, Tx
<1>7. ASSUME Return(h)
      PROVE  /\ tx' \in [Handlers -> Tx] /\ \A g \in Handlers \ {h} : tx'[g] = tx[g]
             /\ tx'[h].pc = "open" /\ tx'[h].cachedOwn = tx[h].cachedOwn /\ tx'[h].got = NoRow
  BY <1>0, <1>6, <1>7, ReturnFacts DEF Return, Moves
<1>8. ASSUME NEW pc \in {"evict", "failed"}, Appended(h, pc)
      PROVE  /\ tx' \in [Handlers -> Tx] /\ \A g \in Handlers \ {h} : tx'[g] = tx[g]
             /\ tx'[h].pc = pc /\ tx'[h].cachedOwn = tx[h].cachedOwn /\ tx'[h].got = NoRow
  <2> DEFINE t == [NoTx EXCEPT !.pc = pc, !.verb = tx[h].verb, !.cachedOwn = tx[h].cachedOwn]
  <2>1. t \in Tx /\ t.pc = pc /\ t.cachedOwn = tx[h].cachedOwn /\ t.got = NoRow
    <3>1. NoTx \in Tx /\ NoTx.got = NoRow /\ tx[h].verb \in Verbs
      BY <1>6, NothingTyped DEF NoTx, Tx
    <3> QED
      BY <1>6, <3>1 DEF Tx
  <2>2. tx' = [tx EXCEPT ![h] = t]
    BY <1>8 DEF Appended, Moves
  <2> HIDE DEF t
  <2> QED
    BY <1>6, <2>1, <2>2
<1>9. /\ tx' \in [Handlers -> Tx] /\ \A g \in Handlers \ {h} : tx'[g] = tx[g]
      /\ tx'[h].pc \in {"open", "evict", "failed"}
      /\ tx'[h].cachedOwn = tx[h].cachedOwn
      /\ tx'[h].got = NoRow
  BY <1>1, <1>7, <1>8
<1>10. /\ pendingRow' \in [Handlers -> Row]
       /\ \A g \in Handlers \ {h} : pendingRow'[g] = pendingRow[g]
       /\ pendingRow'[h] = a \/ (tx'[h].pc = "failed" /\ pendingRow'[h] = RowOf(h))
  BY <1>1, <1>4, <1>6, <1>8
<1> QED
  BY <1>1, <1>2, <1>3, <1>5, <1>9, <1>10

LEMMA AppendEventStep ==
    ASSUME IInv, NEW h \in Handlers, NEW status \in Statuses, AppendEvent(h, status)
    PROVE  IInv'
<1> DEFINE e == NewEvent(h, status)
           v == VersionOf(h) + 1
<1>0. TypeOK /\ ViewInv /\ CommittedInv /\ CacheInv /\ HandlerInv(h)
  BY DEF IInv
<1>1. /\ e \in Event /\ tx[h].pc = "versioned" /\ tx[h].expected = VersionOf(h)
      /\ v \in 0 .. MaxVersion
      /\ \A g \in Handlers \ {h} : pending[g] = <<>> /\ pendingRow'[g] = pendingRow[g]
                                    /\ tx'[g] = tx[g]
      /\ pending' = [pending EXCEPT ![h] = Append(@, e)]
      /\ pendingRow' \in [Handlers -> Row]
      /\ \/ pendingRow'[h] = ApplyEntityEvent(entity, RowOf(h), e, v)
         \/ tx'[h].pc = "failed" /\ pendingRow'[h] = RowOf(h)
      /\ tx' \in [Handlers -> Tx]
      /\ tx'[h].pc \in {"open", "evict", "failed"}
      /\ tx'[h].cachedOwn = tx[h].cachedOwn
      /\ tx'[h].got = NoRow
      /\ UNCHANGED <<stream, row, cache, base, entity, tainted, swallowed, trashCached>>
  BY AppendFacts
<1>2. v = VersionOf(h) + 1
  OBVIOUS
<1> HIDE DEF e, v
<1>3. /\ pending' \in [Handlers -> Seq(Event)] /\ pending'[h] # <<>>
      /\ StreamOf(h)' = Append(StreamOf(h), e)
      /\ VersionOf(h)' = v
      /\ RowOf(h)' = pendingRow'[h]
      /\ \A g \in Handlers \ {h} :
            /\ pending'[g] = pending[g]
            /\ StreamOf(g)' = StreamOf(g)
            /\ VersionOf(g)' = VersionOf(g)
            /\ RowOf(g)' = RowOf(g)
  BY <1>0, <1>1, <1>2, AppendView
<1>4. /\ StreamOf(h) \in Seq(Event) /\ VersionOf(h) \in Nat /\ Len(StreamOf(h)) = VersionOf(h)
      /\ RowOf(h) \in Row /\ RowOf(h).version \in Nat /\ RowOf(h).version <= VersionOf(h)
      /\ Len(stream) \in Nat /\ Len(stream) <= VersionOf(h)
  <2>1. RowOf(h) \in Row /\ StreamOf(h) \in Seq(Event) /\ VersionOf(h) \in Nat
        /\ Len(stream) \in Nat /\ Len(stream) <= VersionOf(h)
    BY <1>0, ViewFacts
  <2>2. RowOf(h).version \in Nat
    BY <2>1 DEF Row
  <2> QED
    BY <1>0, <2>1, <2>2 DEF ViewInv, VersionOf
<1>5. TypeOK'
  <2>1. \A f, g \in Handlers : pending'[f] # <<>> /\ pending'[g] # <<>> => f = g
    BY <1>1, <1>3
  <2> QED
    BY <1>0, <1>1, <1>3, <2>1 DEF TypeOK
<1>6. \/ pendingRow'[h].version = v /\ pendingRow'[h].state # "none"
      \/ pendingRow'[h] = NoRow \/ pendingRow'[h] = RowOf(h)
  <2>1. entity \in Entity
    BY <1>0 DEF TypeOK
  <2> QED
    BY <1>1, <1>4, <2>1, ApplyType
<1>7. ViewInv'
  <2>1. v <= MaxVersion /\ v > VersionOf(h) /\ v > Len(stream)
    BY <1>1, <1>2, <1>4, EntityExecutorAssumption
  <2>2. pendingRow'[h].version <= v
    <3>1. NoRow.version = 0
      BY DEF NoRow
    <3>2. RowOf(h).version <= v /\ v <= v /\ 0 <= v
      BY <1>2, <1>4
    <3> QED
      BY <1>6, <3>1, <3>2
  <2>3. pendingRow'[h].state # "none" /\ pendingRow'[h].version <= Len(stream)
          => pendingRow'[h] = row
    <3>1. CASE pendingRow'[h].version = v
      BY <1>4, <2>1, <3>1, <1>2
    <3>2. CASE pendingRow'[h] = NoRow
      BY <3>2 DEF NoRow
    <3>3. CASE pendingRow'[h] = RowOf(h)
      BY <1>0, <3>3 DEF ViewInv, RowOf
    <3> QED
      BY <1>6, <3>1, <3>2, <3>3
  <2>4. ASSUME NEW g \in Handlers, g # h
        PROVE  /\ VersionOf(g)' <= MaxVersion /\ RowOf(g)'.version <= VersionOf(g)'
               /\ pending'[g] = <<>> /\ Proper(RowOf(g)')
    BY <1>0, <1>1, <1>3, <2>4 DEF ViewInv
  <2>5. Proper(row') /\ Proper(RowOf(h)')
    <3>1. v > 0
      BY <1>2, <1>4
    <3>2. Proper(row) /\ Proper(RowOf(h))
      BY <1>0 DEF ViewInv
    <3> QED
      BY <1>1, <1>3, <1>6, <3>1, <3>2 DEF Proper
  <2> QED
    BY <1>1, <1>3, <2>1, <2>2, <2>3, <2>4, <2>5 DEF ViewInv, Proper
<1>8. CommittedInv'
  BY <1>0, <1>1 DEF CommittedInv
<1>9. CachedOwn' = CachedOwn /\ CachedOwn \subseteq Handlers
  BY <1>1 DEF CachedOwn
<1>10. ASSUME NEW x \in Row, NEW S \in SUBSET Handlers, Faithful(x, S)
       PROVE  /\ x.version # v
              /\ x.version > Len(stream) =>
                    \E g \in S : pending'[g] # <<>> /\ x.version <= VersionOf(g)'
  <2>0. x.version \in Nat
    BY DEF Row
  <2>1. ASSUME x.version > Len(stream)
        PROVE  h \in S /\ x.version <= VersionOf(h)
    <3>1. PICK g \in S : pending[g] # <<>> /\ x.version <= VersionOf(g)
      BY <1>10, <2>1 DEF Faithful
    <3>2. g = h
      BY <1>1, <3>1
    <3> QED
      BY <3>1, <3>2
  <2>2. x.version # v
    BY <1>2, <1>4, <2>0, <2>1
  <2>3. x.version > Len(stream) => x.version <= VersionOf(h)'
    BY <1>2, <1>3, <1>4, <2>0, <2>1
  <2> QED
    BY <1>3, <2>1, <2>2, <2>3
<1>11. CacheInv'
  <2>1. (cache.state = "trashed" => trashCached)'
    BY <1>0, <1>1 DEF CacheInv
  <2>2. ASSUME ~tainted, cache # NoRow PROVE Faithful(cache, CachedOwn)'
    <3>1. Faithful(cache, CachedOwn) /\ cache \in Row
      BY <1>0, <2>2 DEF CacheInv, TypeOK
    <3>2. /\ cache.version # v
          /\ cache.version > Len(stream) =>
                \E g \in CachedOwn : pending'[g] # <<>> /\ cache.version <= VersionOf(g)'
      BY <1>9, <1>10, <3>1
    <3> QED
      BY <1>1, <1>3, <1>9, <3>1, <3>2 DEF Faithful, SameRow
  <2> QED
    BY <1>1, <2>1, <2>2 DEF CacheInv
<1>12. ASSUME NEW g \in Handlers PROVE ShownInv(g)'
  <2>1. ASSUME ~tainted, base[g] # NoRow
        PROVE  /\ Faithful(base[g], CachedOwn \cup {g})'
               /\ base[g].version <= VersionOf(g)' \/ VersionOf(g)' = 0
    <3>1. /\ Faithful(base[g], CachedOwn \cup {g}) /\ base[g] \in Row /\ base'[g] = base[g]
          /\ base[g].version <= VersionOf(g) \/ VersionOf(g) = 0
      BY <1>0, <1>1, <2>1 DEF IInv, HandlerInv, ShownInv, TypeOK
    <3>2. CachedOwn \cup {g} \in SUBSET Handlers
      BY <1>9
    <3>3. /\ base[g].version # v
          /\ base[g].version > Len(stream) =>
                \E f \in CachedOwn \cup {g} :
                   pending'[f] # <<>> /\ base[g].version <= VersionOf(f)'
      BY <1>10, <3>1, <3>2
    <3>4. Faithful(base[g], CachedOwn \cup {g})'
      BY <1>1, <1>3, <1>9, <3>1, <3>3 DEF Faithful, SameRow
    <3>5. base[g].version \in Nat /\ v \in Nat
      BY <1>1, <3>1 DEF Row
    <3>6. CASE g = h
      <4>1. \A f \in CachedOwn \cup {g} : pending'[f] # <<>> => f = h
        BY <1>1, <1>3, <3>2
      <4>2. base[h].version > Len(stream) => base[h].version <= v
        BY <1>3, <3>3, <3>6, <4>1
      <4> QED
        BY <1>2, <1>3, <1>4, <3>4, <3>5, <3>6, <4>2
    <3> QED
      BY <1>3, <3>1, <3>4, <3>6
  <2> QED
    BY <1>1, <2>1 DEF ShownInv
<1>13. ASSUME NEW g \in Handlers, tx'[g].got = NoRow \/ tx'[g].got = tx[g].got PROVE CopyInv(g)'
  <2>1. ASSUME ~tainted, tx'[g].got # NoRow PROVE Faithful(tx[g].got, CachedOwn \cup {g})'
    <3>1. Faithful(tx[g].got, CachedOwn \cup {g}) /\ tx[g].got \in Row
      BY <1>0, <1>13, <2>1 DEF IInv, HandlerInv, CopyInv, TypeOK, Tx
    <3>2. CachedOwn \cup {g} \in SUBSET Handlers
      BY <1>9
    <3>3. /\ tx[g].got.version # v
          /\ tx[g].got.version > Len(stream) =>
                \E f \in CachedOwn \cup {g} :
                   pending'[f] # <<>> /\ tx[g].got.version <= VersionOf(f)'
      BY <1>10, <3>1, <3>2
    <3>4. tx'[g].got = tx[g].got
      BY <1>13, <2>1
    <3> QED
      BY <1>1, <1>3, <1>9, <3>1, <3>3, <3>4 DEF Faithful, SameRow
  <2> QED
    BY <1>1, <2>1 DEF CopyInv
<1>14. HandlerInv(h)'
  <2>1. Placed(h)'
    BY <1>0, <1>1, <1>3 DEF HandlerInv, Placed
  <2>2. Projected(h)'
    <3>1. ASSUME ~swallowed, tx'[h].pc # "failed"
          PROVE  pendingRow'[h] = Replayed(entity, StreamOf(h)')
      <4>1. RowOf(h) = Replayed(entity, StreamOf(h))
        <5>1. CASE pending[h] = <<>>
          BY <1>0, <3>1, <5>1, ViewFacts DEF CommittedInv, RowOf
        <5>2. CASE pending[h] # <<>>
          BY <1>0, <1>1, <3>1, <5>2 DEF HandlerInv, Projected, RowOf
        <5> QED
          BY <5>1, <5>2
      <4>2. Replayed(entity, Append(StreamOf(h), e))
               = ApplyEntityEvent(entity, Replayed(entity, StreamOf(h)), e, v)
        BY <1>1, <1>2, <1>4, ReplayedAppend
      <4> QED
        BY <1>1, <1>3, <3>1, <4>1, <4>2
    <3> QED
      BY <1>1, <3>1 DEF Projected
  <2>3. CopyInv(h)'
    BY <1>1, <1>13
  <2>4. TrashInv(h)'
    BY <1>0, <1>1 DEF HandlerInv, TrashInv, NoRow
  <2>5. ShownInv(h)'
    BY <1>12
  <2>6. LoadedInv(h)' /\ WriteInv(h)' /\ ReadInv(h)'
    BY <1>1 DEF LoadedInv, WriteInv, ReadInv
  <2> QED
    BY <2>1, <2>2, <2>3, <2>4, <2>5, <2>6 DEF HandlerInv
<1>15. ASSUME NEW g \in Handlers, g # h PROVE HandlerInv(g)'
  <2>0. /\ HandlerInv(g) /\ tx'[g] = tx[g] /\ base'[g] = base[g]
        /\ pending'[g] = pending[g] /\ pendingRow'[g] = pendingRow[g] /\ StreamOf(g)' = StreamOf(g)
        /\ VersionOf(g)' = VersionOf(g) /\ RowOf(g)' = RowOf(g)
        /\ tainted' = tainted /\ swallowed' = swallowed /\ trashCached' = trashCached
        /\ entity' = entity
    BY <1>1, <1>3, <1>15 DEF IInv
  <2>1. Placed(g)' /\ TrashInv(g)'
    BY <2>0 DEF HandlerInv, Placed, TrashInv
  <2>2. Projected(g)'
    BY <2>0 DEF HandlerInv, Projected
  <2>3. CopyInv(g)'
    BY <1>13, <2>0
  <2>4. ShownInv(g)' /\ LoadedInv(g)' /\ WriteInv(g)'
    BY <1>12, <2>0 DEF HandlerInv, LoadedInv, WriteInv, Checked
  <2>5. ReadInv(g)'
    BY <2>0 DEF HandlerInv, ReadInv
  <2> QED
    BY <2>1, <2>2, <2>3, <2>4, <2>5 DEF HandlerInv
<1> QED
  BY <1>5, <1>7, <1>8, <1>11, <1>14, <1>15 DEF IInv

-----------------------------------------------------------------------------
(* The invariant of the specification.                                     *)

LEMMA InitIInv == Init => IInv
<1> SUFFICES ASSUME Init PROVE IInv
  OBVIOUS
<1>0. <<>> \in Seq(Event) /\ Len(<<>>) = 0 /\ MaxVersion \in Nat
  BY EmptySeq, EntityExecutorAssumption
<1>1. /\ stream = <<>> /\ row = NoRow /\ cache = NoRow /\ NoRow.version = 0
      /\ \A h \in Handlers : pending[h] = <<>> /\ tx[h] = NoTx /\ base[h] = NoRow
  BY DEF Init, NoRow
<1>2. TypeOK
  <2>1. stream \in Seq(Event) /\ Len(stream) <= MaxVersion /\ row \in Row /\ cache \in Row
        /\ row.version <= Len(stream)
    <3>1. 0 <= MaxVersion /\ 0 <= 0
      BY <1>0
    <3> QED
      BY <1>0, <1>1, <3>1, NothingTyped
  <2>2. /\ pending \in [Handlers -> Seq(Event)] /\ pendingRow \in [Handlers -> Row]
        /\ tx \in [Handlers -> Tx] /\ base \in [Handlers -> Row]
    BY <1>0, NothingTyped DEF Init
  <2>3. /\ entity \in Entity
        /\ tainted \in BOOLEAN /\ swallowed \in BOOLEAN /\ trashCached \in BOOLEAN
    BY EntityExecutorAssumption DEF Init
  <2> QED
    BY <1>1, <2>1, <2>2, <2>3 DEF TypeOK
<1>3. ViewInv
  <2>1. \A h \in Handlers : VersionOf(h) = 0 /\ RowOf(h) = NoRow
    BY <1>0, <1>1, <1>2, ViewFacts DEF RowOf
  <2> QED
    BY <1>0, <1>1, <2>1 DEF ViewInv, Proper
<1>4. CommittedInv
  BY <1>1, ReplayedEmpty DEF CommittedInv
<1>5. CacheInv
  BY <1>1 DEF CacheInv, NoRow
<1>6. ASSUME NEW h \in Handlers PROVE HandlerInv(h)
  <2>1. /\ tx[h].pc = "open" /\ tx[h].got = NoRow
        /\ tx[h].cachedOwn = FALSE /\ tx[h].got.state = "none"
    BY <1>1 DEF NoTx, NoRow
  <2> QED
    BY <1>1, <2>1 DEF HandlerInv, Placed, Projected, CopyInv, TrashInv, ShownInv, LoadedInv,
                      WriteInv, ReadInv
<1> QED
  BY <1>2, <1>3, <1>4, <1>5, <1>6 DEF IInv

LEMMA WriteStepKeeps ==
    ASSUME IInv, NEW h \in Handlers, WriteStep(h) PROVE IInv'
<1>0. FALSE \in BOOLEAN /\ NoStatus \in Statuses \cup {NoStatus}
  OBVIOUS
<1>1. CASE Create(h)
  BY <1>0, <1>1, LoadRowStep DEF Create, Verbs
<1>2. CASE Forget(h)
  BY <1>0, <1>2, LoadRowStep DEF Forget, Verbs
<1>3. CASE Restore(h)
  BY <1>0, <1>3, LoadRowStep DEF Restore, Verbs
<1>4. CASE AppendDomainEvent(h)
  BY <1>0, <1>4, LoadRowStep DEF AppendDomainEvent, Verbs
<1>5. ASSUME NEW expect \in Statuses \cup {NoStatus}, Delete(h, expect) PROVE IInv'
  BY <1>0, <1>5, LoadRowStep DEF Delete, Verbs
<1>6. ASSUME NEW expect \in Statuses \cup {NoStatus},
              NEW lock \in BOOLEAN, NEW includeDeleted \in BOOLEAN,
              Update(h, lock, expect, includeDeleted)
       PROVE  IInv'
  BY <1>6, LoadRowStep DEF Update, Verbs
<1>7. CASE CurrentStreamVersion(h)
  BY <1>7, CurrentStreamVersionStep
<1>8. ASSUME NEW status \in Statuses, AppendEvent(h, status) PROVE IInv'
  BY <1>8, AppendEventStep
<1>9. CASE AppendConflict(h)
  BY <1>9, AppendConflictStep
<1>10. CASE IgnoreFailure(h)
  BY <1>10, IgnoreFailureStep
<1>11. CASE EvictCachedEntity(h)
  BY <1>11, EvictCachedEntityStep
<1> QED
  BY <1>1, <1>2, <1>3, <1>4, <1>5, <1>6, <1>7, <1>8, <1>9, <1>10, <1>11 DEF WriteStep

LEMMA ReadStepKeeps ==
    ASSUME IInv, NEW h \in Handlers, ReadStep(h) PROVE IInv'
<1>1. CASE GetCached(h)
  BY <1>1, GetCachedStep
<1>2. CASE Probe(h)
  BY <1>2, ProbeStep
<1>3. CASE LoadDetailSnapshot(h)
  BY <1>3, LoadDetailSnapshotStep
<1>4. CASE SetCached(h)
  BY <1>4, SetCachedStep
<1>5. ASSUME NEW state \in {"live", "trashed"}, List(h, state) PROVE IInv'
  BY <1>5, ListStep
<1>6. CASE MSetCached(h)
  BY <1>6, MSetCachedStep
<1> QED
  BY <1>1, <1>2, <1>3, <1>4, <1>5, <1>6 DEF ReadStep

LEMMA NextIInv == IInv /\ [Next]_vars => IInv'
<1> SUFFICES ASSUME IInv, [Next]_vars PROVE IInv'
  OBVIOUS
<1>1. ASSUME NEW h \in Handlers, Commit(h) PROVE IInv'
  BY <1>1, CommitStep
<1>2. ASSUME NEW h \in Handlers, Rollback(h) PROVE IInv'
  BY <1>2, RollbackStep
<1>3. ASSUME NEW h \in Handlers, WriteStep(h) PROVE IInv'
  BY <1>3, WriteStepKeeps
<1>4. ASSUME NEW h \in Handlers, ReadStep(h) PROVE IInv'
  BY <1>4, ReadStepKeeps
<1>5. CASE ExpireCached
  BY <1>5, ExpireCachedStep
<1>6. CASE UNCHANGED vars
  BY <1>6, StutterStep
<1> QED
  BY <1>1, <1>2, <1>3, <1>4, <1>5, <1>6 DEF Next

(* However requests interleave, every copy of the row, in the cache, on    *)
(* its way there or shown to a client, that claims a version somebody sees *)
(* is the row of that version.                                             *)
THEOREM EntityInvariant == Spec => []IInv
  BY InitIInv, NextIInv, PTL DEF Spec

(* Events, rows, copies and versions stay within their types, and one      *)
(* transaction at a time has appended: the unique index orders writers.    *)
THEOREM EntityTypeCorrect == Spec => []TypeOK
<1>1. IInv => TypeOK
  BY DEF IInv
<1> QED
  BY <1>1, EntityInvariant, PTL

(* Live == Rebuild: the row that the write verbs project in the            *)
(* transaction of their event is the one a replay of the stream makes,     *)
(* unless a handler went on after a failed projection.                     *)
THEOREM RowIsReplay == Spec => []LiveIsRebuild
<1>1. IInv => LiveIsRebuild
  BY DEF IInv, CommittedInv, LiveIsRebuild
<1> QED
  BY <1>1, EntityInvariant, PTL

-----------------------------------------------------------------------------
(* What a step may do.                                                     *)

(* A step of h moves h alone.                                              *)
LEMMA StepMoves ==
    ASSUME TypeOK, NEW h \in Handlers, Commit(h) \/ Rollback(h) \/ WriteStep(h) \/ ReadStep(h)
    PROVE  \A g \in Handlers \ {h} : tx'[g] = tx[g]
<1>0. tx \in [Handlers -> Tx]
  BY DEF TypeOK
<1>1. ASSUME NEW t, tx' = [tx EXCEPT ![h] = t] PROVE \A g \in Handlers \ {h} : tx'[g] = tx[g]
  BY <1>0, <1>1
<1>2. CASE Commit(h) \/ Rollback(h)
  BY <1>1, <1>2 DEF Commit, Rollback, Moves
<1>3. CASE WriteStep(h)
  <2>1. ASSUME NEW verb, NEW lock, NEW expect, LoadRow(h, verb, lock, expect)
        PROVE  \A g \in Handlers \ {h} : tx'[g] = tx[g]
    BY <1>1, <2>1 DEF LoadRow, Moves
  <2>2. CASE CurrentStreamVersion(h)
    BY <1>1, <2>2 DEF CurrentStreamVersion, Moves, Return
  <2>3. ASSUME NEW status, AppendEvent(h, status)
        PROVE  \A g \in Handlers \ {h} : tx'[g] = tx[g]
    BY <1>1, <2>3 DEF AppendEvent, Moves, Return, Appended
  <2>4. CASE AppendConflict(h) \/ IgnoreFailure(h) \/ EvictCachedEntity(h)
    BY <1>1, <2>4 DEF AppendConflict, IgnoreFailure, EvictCachedEntity, Moves, Return
  <2> QED
    BY <1>3, <2>1, <2>2, <2>3, <2>4
       DEF WriteStep, Create, Forget, Restore, AppendDomainEvent, Update, Delete
<1>4. CASE ReadStep(h)
  <2>1. CASE GetCached(h)
    BY <1>1, <2>1 DEF GetCached, Moves
  <2>2. CASE Probe(h)
    BY <1>1, <2>2 DEF Probe, Answer, Moves, Return
  <2>3. CASE LoadDetailSnapshot(h)
    BY <1>1, <2>3 DEF LoadDetailSnapshot, Answer, Moves, Return
  <2>4. CASE SetCached(h) \/ MSetCached(h)
    BY <1>1, <2>4 DEF SetCached, MSetCached, Caching, Moves
  <2>5. ASSUME NEW state, List(h, state) PROVE \A g \in Handlers \ {h} : tx'[g] = tx[g]
    BY <1>1, <2>5 DEF List, Moves
  <2> QED
    BY <1>4, <2>1, <2>2, <2>3, <2>4, <2>5 DEF ReadStep
<1> QED
  BY <1>2, <1>3, <1>4

(* What is not an append or the end of a transaction leaves the store.     *)
LEMMA StoreStays ==
    ASSUME NEW h \in Handlers, WriteStep(h) \/ ReadStep(h),
           \A status \in Statuses : ~AppendEvent(h, status)
    PROVE  pending' = pending
<1>1. CASE WriteStep(h)
  BY <1>1 DEF WriteStep, Create, Forget, Restore, AppendDomainEvent, Update, Delete, LoadRow,
              CurrentStreamVersion, AppendConflict, IgnoreFailure, EvictCachedEntity, storeVars
<1>2. CASE ReadStep(h)
  BY <1>2 DEF ReadStep, GetCached, Probe, LoadDetailSnapshot, SetCached, List, MSetCached,
              storeVars
<1> QED
  BY <1>1, <1>2

(* When a write under a check appends, the version that it has checked is  *)
(* the one it builds on.                                                   *)
LEMMA AppendsAtChecked ==
    ASSUME IInv, Next, NEW h \in Handlers, Appends(h), Checked(h)
    PROVE  tx[h].expected = VersionOf(h)
<1>0. TypeOK /\ HandlerInv(h) /\ pending \in [Handlers -> Seq(Event)]
  BY DEF IInv, TypeOK
<1>1. tx[h].pc = "versioned" /\ pending'[h] # pending[h]
  BY DEF Appends
<1>2. ASSUME NEW g \in Handlers, Commit(g) PROVE FALSE
  <2>1. g # h /\ pending' = [pending EXCEPT ![g] = <<>>]
    BY <1>1, <1>2 DEF Commit
  <2> QED
    BY <1>0, <1>1, <2>1
<1>3. ASSUME NEW g \in Handlers, Rollback(g) PROVE tx[h].expected = VersionOf(h)
  <2>1. pending' = [pending EXCEPT ![g] = <<>>]
    BY <1>3 DEF Rollback
  <2>2. pending[h] # <<>>
    BY <1>0, <1>1, <2>1
  <2> QED
    BY <1>0, <1>1, <2>2 DEF HandlerInv, WriteInv
<1>4. ASSUME NEW g \in Handlers, NEW status \in Statuses, AppendEvent(g, status)
      PROVE  tx[h].expected = VersionOf(h)
  <2>1. pending' = [pending EXCEPT ![g] = Append(@, NewEvent(g, status))] /\ IsNext(g)
    BY <1>4 DEF AppendEvent
  <2>2. g = h
    BY <1>0, <1>1, <2>1
  <2> QED
    BY <2>1, <2>2 DEF IsNext
<1>5. ASSUME NEW g \in Handlers, WriteStep(g) \/ ReadStep(g),
             \A status \in Statuses : ~AppendEvent(g, status)
      PROVE  FALSE
  BY <1>1, <1>5, StoreStays
<1>6. CASE ExpireCached
  BY <1>1, <1>6 DEF ExpireCached, storeVars
<1> QED
  BY <1>2, <1>3, <1>4, <1>5, <1>6 DEF Next

(* No lost update.                                                         *)
THEOREM NoLostUpdate == Spec => BuildsOnWhatWasSeen
<1> DEFINE A == \A h \in Handlers : Appends(h) =>
                   /\ tx[h].lock /\ ~tainted => RowOf(h).content = base[h].content
                   /\ tx[h].expect # NoStatus => RowOf(h).content.status = tx[h].expect
<1>1. ASSUME IInv, [Next]_vars PROVE [A]_vars
  <2>1. SUFFICES ASSUME Next PROVE A
    BY <1>1
  <2>2. ASSUME NEW h \in Handlers, Appends(h), Checked(h)
        PROVE  /\ tx[h].lock /\ ~tainted => RowOf(h).content = base[h].content
               /\ tx[h].expect # NoStatus => RowOf(h).content.status = tx[h].expect
    <3>1. tx[h].expected = VersionOf(h)
      BY <1>1, <2>1, <2>2, AppendsAtChecked
    <3> QED
      BY <1>1, <2>2, <3>1 DEF IInv, HandlerInv, WriteInv, Appends
  <2> QED
    BY <2>2 DEF Checked
<1> QED
  BY <1>1, EntityInvariant, PTL DEF Spec, BuildsOnWhatWasSeen

(* The "previous" of an update under the optimistic lock.                  *)
THEOREM PreviousIsCurrent == Spec => PreviousIsReplaced
<1> DEFINE A == \A h \in Handlers : Appends(h) /\ tx[h].lock /\ ~tainted
                   => tx[h].previous = RowOf(h).content
<1>1. ASSUME IInv, [Next]_vars PROVE [A]_vars
  <2>1. SUFFICES ASSUME Next PROVE A
    BY <1>1
  <2>2. ASSUME NEW h \in Handlers, Appends(h), tx[h].lock, ~tainted
        PROVE  tx[h].previous = RowOf(h).content
    <3>1. tx[h].expected = VersionOf(h)
      BY <1>1, <2>1, <2>2, AppendsAtChecked DEF Checked
    <3> QED
      BY <1>1, <2>2, <3>1 DEF IInv, HandlerInv, WriteInv, Appends, Checked
  <2> QED
    BY <2>2
<1> QED
  BY <1>1, EntityInvariant, PTL DEF Spec, PreviousIsReplaced

(* The two ways in which detail() answers a row: the cached one, which     *)
(* counted, and the one it has loaded.                                     *)
LEMMA DetailStep ==
    ASSUME IInv, Next, NEW h \in Handlers, DetailAnswers(h)
    PROVE  /\ base'[h] = tx[h].got
           /\ tx[h].pc = "probe" => IsOwned(h) /\ CacheHitCounts(h)
<1>0. /\ TypeOK /\ tx \in [Handlers -> Tx] /\ base \in [Handlers -> Row] /\ tx[h].got \in Row
  BY DEF IInv, TypeOK, Tx
<1>1. tx[h].pc \in {"probe", "set"} /\ tx'[h].pc = "open" /\ base'[h] # NoRow
  BY DEF DetailAnswers
<1>2. Commit(h) \/ Rollback(h) \/ WriteStep(h) \/ ReadStep(h)
  <2>1. ASSUME NEW g \in Handlers, g # h, Commit(g) \/ Rollback(g) \/ WriteStep(g) \/ ReadStep(g)
        PROVE  FALSE
    BY <1>0, <1>1, <2>1, StepMoves
  <2>2. CASE ExpireCached
    BY <1>1, <2>2 DEF ExpireCached
  <2> QED
    BY <2>1, <2>2 DEF Next
<1>3. ~Commit(h) /\ ~Rollback(h) /\ ~WriteStep(h)
  <2>1. ~Commit(h)
    BY <1>1 DEF Commit
  <2>2. ~Rollback(h)
    BY <1>0, <1>1 DEF Rollback
  <2>3. ~WriteStep(h)
    BY <1>1 DEF WriteStep, Create, Forget, Restore, AppendDomainEvent, Update, Delete, LoadRow,
                CurrentStreamVersion, AppendEvent, AppendConflict, IgnoreFailure, EvictCachedEntity
  <2> QED
    BY <2>1, <2>2, <2>3
<1>4. Probe(h) \/ SetCached(h)
  BY <1>1, <1>2, <1>3 DEF ReadStep, GetCached, LoadDetailSnapshot, List, MSetCached
<1>5. CASE SetCached(h)
  BY <1>0, <1>5 DEF SetCached
<1>6. CASE Probe(h)
  <2>1. CASE ~IsOwned(h) /\ Answer(h, NoRow)
    BY <1>0, <1>1, <2>1 DEF Answer
  <2>2. CASE /\ IsOwned(h) /\ CacheHitCounts(h)
             /\ Answer(h, WithStreamVersion(tx[h].got, VersionOf(h)))
    <3>1. WithStreamVersion(tx[h].got, VersionOf(h)) = tx[h].got
      BY <1>0, <2>2 DEF CacheHitCounts, WithStreamVersion, Row
    <3> QED
      BY <1>0, <2>2, <3>1 DEF Answer
  <2>3. CASE Moves(h, [tx[h] EXCEPT !.pc = "snapshot", !.got = NoRow])
    BY <1>0, <1>1, <2>3 DEF Moves, Tx
  <2> QED
    BY <1>6, <2>1, <2>2, <2>3 DEF Probe
<1> QED
  BY <1>4, <1>5, <1>6

(* A cached row that counts while h sees no stream is one of the           *)
(* transaction that is still creating the entity.                          *)
LEMMA EarlyDetail ==
    ASSUME IInv, NEW h \in Handlers, ~tainted, tx[h].got # NoRow, VersionOf(h) = 0
    PROVE  \E g \in Handlers :
              /\ pending[g] # <<>> /\ tx[h].got.version \in 1 .. VersionOf(g)
              /\ tx[h].got.version = VersionOf(g) => tx[h].got.content = RowOf(g).content
<1>1. /\ TypeOK /\ Faithful(tx[h].got, CachedOwn \cup {h}) /\ CachedOwn \cup {h} \subseteq Handlers
  BY DEF IInv, HandlerInv, CopyInv, CachedOwn
<1>2. tx[h].got.version \in Nat /\ Len(stream) = 0
  <2>1. tx[h].got \in Row
    BY <1>1 DEF TypeOK, Tx
  <2>2. Len(stream) \in Nat /\ VersionOf(h) = Len(stream) + Len(pending[h])
        /\ Len(pending[h]) \in Nat
    BY <1>1, ViewFacts
  <2> QED
    BY <2>1, <2>2 DEF Row
<1>3. PICK g \in CachedOwn \cup {h} : pending[g] # <<>> /\ tx[h].got.version <= VersionOf(g)
  BY <1>1, <1>2 DEF Faithful
<1>4. g \in Handlers /\ VersionOf(g) \in Nat /\ tx[h].got.version > 0
  BY <1>1, <1>3, ViewFacts DEF Faithful
<1>5. tx[h].got.version = VersionOf(g) => tx[h].got.content = RowOf(g).content
  BY <1>1, <1>4 DEF Faithful, SameRow
<1>6. tx[h].got.version \in 1 .. VersionOf(g)
  BY <1>2, <1>3, <1>4
<1> QED
  BY <1>3, <1>4, <1>5, <1>6

(* A detail() of an entity that has a stream.                              *)
LEMMA LaterDetail ==
    ASSUME IInv, NEW h \in Handlers, ~tainted, ~swallowed, VersionOf(h) > 0,
           tx[h].pc = "set" \/ (tx[h].pc = "probe" /\ tx[h].got.version = VersionOf(h))
    PROVE  /\ tx[h].got.version \in tx[h].since .. VersionOf(h)
           /\ tx[h].got.content
                 = Replayed(entity, SubSeq(StreamOf(h), 1, tx[h].got.version)).content
<1>0. TypeOK /\ CommittedInv /\ HandlerInv(h)
  BY DEF IInv
<1>1. tx[h].since \in Int /\ tx[h].got.version \in Int /\ VersionOf(h) \in Int
  <2>1. tx[h] \in Tx
    BY <1>0 DEF TypeOK
  <2>2. VersionOf(h) \in Nat
    BY <1>0, ViewFacts
  <2> QED
    BY <2>1, <2>2 DEF Tx, Row
<1>2. CASE tx[h].pc = "set"
  BY <1>0, <1>1, <1>2 DEF HandlerInv, ReadInv
<1>3. CASE tx[h].pc = "probe" /\ tx[h].got.version = VersionOf(h)
  <2>1. tx[h].since <= VersionOf(h) /\ tx[h].got # NoRow
    BY <1>0, <1>3 DEF HandlerInv, ReadInv, Placed
  <2>2. tx[h].got.content = RowOf(h).content
    BY <1>0, <1>3, <2>1 DEF HandlerInv, CopyInv, Faithful, SameRow
  <2>3. SubSeq(StreamOf(h), 1, VersionOf(h)) = StreamOf(h)
    BY <1>0, ViewFacts, SubSeqFull DEF VersionOf
  <2>4. RowOf(h) = Replayed(entity, StreamOf(h))
    <3>1. CASE pending[h] = <<>>
      BY <1>0, <3>1, ViewFacts DEF CommittedInv, RowOf
    <3>2. CASE pending[h] # <<>>
      BY <1>0, <1>3, <3>2 DEF HandlerInv, Projected, RowOf
    <3> QED
      BY <3>1, <3>2
  <2>5. tx[h].got.version \in tx[h].since .. VersionOf(h)
    BY <1>1, <1>3, <2>1
  <2> QED
    BY <1>3, <2>2, <2>3, <2>4, <2>5
<1> QED
  BY <1>2, <1>3

(* detail() answers a row with its version, and none that is older than    *)
(* its call; while there is no stream, at most one of the transaction that *)
(* is creating the entity.                                                 *)
THEOREM DetailsAreCurrent == Spec => DetailIsCurrent
<1> DEFINE Current(h) ==
               /\ base'[h].version \in tx[h].since .. VersionOf(h)
               /\ base'[h].content
                     = Replayed(entity, SubSeq(StreamOf(h), 1, base'[h].version)).content
           Early(h) ==
               \E g \in Handlers :
                  /\ pending[g] # <<>> /\ base'[h].version \in 1 .. VersionOf(g)
                  /\ base'[h].version = VersionOf(g) => base'[h].content = RowOf(g).content
           A == \A h \in Handlers : DetailAnswers(h) /\ ~tainted /\ ~swallowed =>
                   IF VersionOf(h) > 0 THEN Current(h) ELSE Early(h)
<1>1. ASSUME IInv, [Next]_vars PROVE [A]_vars
  <2>1. SUFFICES ASSUME Next PROVE A
    BY <1>1
  <2>2. ASSUME NEW h \in Handlers, DetailAnswers(h), ~tainted, ~swallowed
        PROVE  IF VersionOf(h) > 0 THEN Current(h) ELSE Early(h)
    <3>1. /\ base'[h] = tx[h].got /\ tx[h].got # NoRow /\ tx[h].pc \in {"probe", "set"}
          /\ tx[h].pc = "probe" => CacheHitCounts(h)
      BY <1>1, <2>1, <2>2, DetailStep DEF DetailAnswers
    <3>2. VersionOf(h) \in Nat
      BY <1>1, ViewFacts DEF IInv
    <3>3. CASE VersionOf(h) > 0
      <4>1. tx[h].pc = "set" \/ (tx[h].pc = "probe" /\ tx[h].got.version = VersionOf(h))
        BY <3>1, <3>3 DEF CacheHitCounts
      <4> QED
        BY <1>1, <2>2, <3>1, <3>3, <4>1, LaterDetail
    <3>4. CASE VersionOf(h) = 0
      BY <1>1, <2>2, <3>1, <3>4, EarlyDetail
    <3> QED
      BY <3>2, <3>3, <3>4
  <2> QED
    BY <2>2
<1> QED
  BY <1>1, EntityInvariant, PTL DEF Spec, DetailIsCurrent

(* detail() shows no soft-deleted row where its reads carry an ownership   *)
(* predicate, nor where no trash list was cached.                          *)
THEOREM TrashStaysHidden == Spec => DetailHidesTrash
<1> DEFINE A == \A h \in Handlers : DetailAnswers(h) /\ base'[h].state = "trashed" /\ ~tainted
                   => entity.ownership = "pass" /\ trashCached
<1>1. ASSUME IInv, [Next]_vars PROVE [A]_vars
  <2>1. SUFFICES ASSUME Next PROVE A
    BY <1>1
  <2>2. ASSUME NEW h \in Handlers, DetailAnswers(h), base'[h].state = "trashed", ~tainted
        PROVE  entity.ownership = "pass" /\ trashCached
    <3>0. /\ TypeOK /\ ViewInv /\ HandlerInv(h) /\ tx[h].pc \in {"probe", "set"}
          /\ entity.ownership \in {"pass", "sql"}
      BY <1>1, <2>2 DEF IInv, DetailAnswers, TypeOK, Entity
    <3>1. /\ tx[h].got.state = "trashed"
          /\ tx[h].pc = "probe" => IsOwned(h) /\ CacheHitCounts(h)
      BY <1>1, <2>1, <2>2, DetailStep
    <3>2. tx[h].pc = "probe"
      BY <3>0, <3>1 DEF HandlerInv, Placed
    <3>3. trashCached
      BY <3>0, <3>1, <3>2 DEF HandlerInv, TrashInv
    <3>4. ASSUME entity.ownership = "sql" PROVE FALSE
      <4>1. RowOf(h).state = "live"
        BY <3>1, <3>2, <3>4 DEF IsOwned
      <4>2. VersionOf(h) \in Nat /\ RowOf(h).version \in Nat
        BY <3>0, ViewFacts DEF Row
      <4>3. RowOf(h).version > 0 /\ RowOf(h).version <= VersionOf(h)
        BY <3>0, <4>1 DEF ViewInv, Proper, NoRow
      <4>4. tx[h].got.version = VersionOf(h)
        BY <3>1, <3>2, <4>2, <4>3 DEF CacheHitCounts
      <4>5. tx[h].got # NoRow
        BY <3>1 DEF NoRow
      <4>6. RowOf(h).state = "trashed"
        BY <2>2, <3>0, <3>1, <4>4, <4>5 DEF HandlerInv, CopyInv, Faithful, SameRow
      <4> QED
        BY <4>1, <4>6
    <3> QED
      BY <3>0, <3>3, <3>4
  <2> QED
    BY <2>2
<1> QED
  BY <1>1, EntityInvariant, PTL DEF Spec, DetailHidesTrash

=============================================================================
