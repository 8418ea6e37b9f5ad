----------------------- MODULE DispatcherProcessProofs -----------------------
(***************************************************************************)
(* Proofs about DispatcherProcess, for any number of consumers, passes,    *)
(* calls of start() and overlapping calls of withBackgroundPassesPaused(). *)
(* The argument has three parts.  Slots: a consumer waits for a slot       *)
(* exactly while it is in the queue, so a slot that is handed over goes to *)
(* somebody who has none.  Drains: a drain awaits at least the passes, or  *)
(* the turns, that are in flight, because nothing starts a pass once the   *)
(* drain has begun, and only a pass starts turns.  Lifecycle: unless       *)
(* stop() overlaps start(), there is one interval and one listener, the    *)
(* ones in hand.                                                           *)
(***************************************************************************)
EXTENDS DispatcherProcess, FiniteSetTheorems, SequenceTheorems, TLAPS

-----------------------------------------------------------------------------
(* The inductive invariant.                                                *)

(* Everybody in the queue waits, once, and everybody who waits is in it.   *)
QueueInv ==
    /\ \A i \in 1 .. Len(waiters) : turn[waiters[i]] = "queued"
    /\ \A i, k \in 1 .. Len(waiters) : waiters[i] = waiters[k] => i = k
    /\ \A c \in Consumers : turn[c] = "queued" => \E i \in 1 .. Len(waiters) : waiters[i] = c

SlotInv ==
    /\ QueueInv
    /\ active = Cardinality(Holders)
    /\ waiters # <<>> => active = MaxConcurrentConsumerTurns

Called == {s \in StartCalls : start[s] \in {"listening", "returned"}}
Ended  == {s \in StartCalls : start[s] = "returned"}
Paused == {q \in Pausers : pause[q] # "none"}

(* What bounds the counters.                                               *)
CountInv ==
    /\ timers <= Cardinality(Called)
    /\ subs <= Cardinality(Ended)
    /\ timer => timers >= 1
    /\ sub => subs >= 1
    /\ stop = "unlistening" => sub
    /\ depth = Cardinality(Paused)

InProgress(s) == start[s] \in {"registering", "listening"}

(* Unless stop() overlapped start(), what ticks and listens is in hand.    *)
LifecycleInv ==
    /\ running => stop = "uncalled"
    /\ ~overlapped =>
          /\ timers = IF timer THEN 1 ELSE 0
          /\ subs = IF sub THEN 1 ELSE 0
          /\ ~running => ~timer
          /\ ~running /\ stop # "unlistening" => ~sub
          /\ \A s \in StartCalls : InProgress(s) => running /\ ~sub
          /\ \A s \in StartCalls : start[s] = "registering" => ~timer
          /\ \A r, s \in StartCalls : InProgress(r) /\ InProgress(s) => r = s

(* Only a pass that has made its pre-check has turns to ask for.           *)
PassInv == \A p \in Passes : todo[p] # {} => pass[p] = "turns"

(* What a drain at stage pc awaits, of what is in flight.                  *)
Drains(pc, waits, done) ==
    /\ pc = "passes" => InFlightPasses \subseteq waits
    /\ pc = "turns" => InFlightPasses = {} /\ InFlightTurns \subseteq waits
    /\ pc = done => InFlightPasses = {} /\ InFlightTurns = {}

DrainInv ==
    /\ ~overlapped => Drains(stop, stopWaits, "returned")
    /\ \A q \in Pausers : Drains(pause[q], pauseWaits[q], "fn")

IInv == TypeOK /\ SlotInv /\ CountInv /\ LifecycleInv /\ PassInv /\ DrainInv

-----------------------------------------------------------------------------
(* Counting.                                                               *)

LEMMA OneMore ==
    ASSUME NEW S, IsFiniteSet(S), NEW x, x \notin S, NEW T, T = S \cup {x}
    PROVE  Cardinality(S) \in Nat /\ Cardinality(T) = Cardinality(S) + 1
BY FS_AddElement, FS_CardinalityType

LEMMA OneLess ==
    ASSUME NEW S, IsFiniteSet(S), NEW x, x \in S, NEW T, T = S \ {x}
    PROVE  /\ Cardinality(S) \in Nat /\ Cardinality(T) \in Nat
           /\ Cardinality(T) = Cardinality(S) - 1
BY FS_RemoveElement, FS_CardinalityType

LEMMA PartOf ==
    ASSUME NEW S, IsFiniteSet(S), NEW T, T \subseteq S
    PROVE  /\ IsFiniteSet(T)
           /\ Cardinality(T) \in Nat /\ Cardinality(S) \in Nat
           /\ Cardinality(T) <= Cardinality(S)
BY FS_Subset, FS_CardinalityType

(* The calls that have set an interval, or a listener, bound the counters. *)
LEMMA CalledFinite ==
    /\ IsFiniteSet(Called) /\ Cardinality(Called) \in Nat
    /\ Cardinality(Called) <= Cardinality(StartCalls)
    /\ IsFiniteSet(Ended) /\ Cardinality(Ended) \in Nat
    /\ Cardinality(Ended) <= Cardinality(StartCalls)
    /\ Cardinality(StartCalls) \in Nat
<1>1. Called \subseteq StartCalls /\ Ended \subseteq StartCalls
  BY DEF Called, Ended
<1> QED
  BY <1>1, PartOf, DispatcherProcessAssumption

LEMMA PausedFinite ==
    /\ IsFiniteSet(Paused) /\ Cardinality(Paused) \in Nat
    /\ Cardinality(Paused) <= Cardinality(Pausers)
    /\ Cardinality(Pausers) \in Nat
<1>1. Paused \subseteq Pausers
  BY DEF Paused
<1> QED
  BY <1>1, PartOf, DispatcherProcessAssumption

LEMMA HoldersFinite == IsFiniteSet(Holders) /\ Cardinality(Holders) \in Nat
<1>1. Holders \subseteq Consumers
  BY DEF Holders
<1> QED
  BY <1>1, PartOf, DispatcherProcessAssumption

-----------------------------------------------------------------------------
(* Slots.                                                                  *)

(* A new turn takes a slot, or its place at the end of the queue.          *)
LEMMA AcquireStep ==
    ASSUME TypeOK, SlotInv, NEW c \in Consumers, turn[c] = "none",
           AcquireConsumerTurnSlot(c)
    PROVE  /\ turn' \in [Consumers -> {"none", "queued", "granted", "tx", "wants", "handler"}]
           /\ active' \in 0 .. MaxConcurrentConsumerTurns
           /\ waiters' \in Seq(Consumers)
           /\ SlotInv'
           /\ \A d \in Consumers : d # c => turn'[d] = turn[d]
<1> USE DispatcherProcessAssumption
<1>1. CASE active >= MaxConcurrentConsumerTurns
  <2>1. /\ waiters' = Append(waiters, c) /\ turn' = [turn EXCEPT ![c] = "queued"]
        /\ active' = active
    BY <1>1 DEF AcquireConsumerTurnSlot
  <2>2. /\ waiters' \in Seq(Consumers) /\ Len(waiters') = Len(waiters) + 1
        /\ \A i \in 1 .. Len(waiters) : waiters'[i] = waiters[i]
        /\ waiters'[Len(waiters) + 1] = c
        /\ Len(waiters) \in Nat
    BY <2>1, AppendProperties, LenProperties DEF TypeOK
  <2>3. \A i \in 1 .. Len(waiters) : waiters[i] # c /\ waiters[i] \in Consumers
    BY ElementOfSeq DEF TypeOK, SlotInv, QueueInv
  <2>4. QueueInv'
    <3>1. \A i \in 1 .. Len(waiters') : i \in 1 .. Len(waiters) \/ i = Len(waiters) + 1
      BY <2>2
    <3>2. \A i \in 1 .. Len(waiters') : turn'[waiters'[i]] = "queued"
      BY <2>1, <2>2, <2>3, <3>1 DEF TypeOK, SlotInv, QueueInv
    <3>3. \A i, k \in 1 .. Len(waiters') : waiters'[i] = waiters'[k] => i = k
      BY <2>2, <2>3, <3>1 DEF SlotInv, QueueInv
    <3>4. \A d \in Consumers : turn'[d] = "queued" =>
             \E i \in 1 .. Len(waiters') : waiters'[i] = d
      <4> SUFFICES ASSUME NEW d \in Consumers, turn'[d] = "queued"
                   PROVE  \E i \in 1 .. Len(waiters') : waiters'[i] = d
        OBVIOUS
      <4>1. CASE d = c
        BY <4>1, <2>2
      <4>2. CASE d # c
        <5>1. PICK i \in 1 .. Len(waiters) : waiters[i] = d
          BY <4>2, <2>1 DEF TypeOK, SlotInv, QueueInv
        <5> QED
          BY <5>1, <2>2
      <4> QED
        BY <4>1, <4>2
    <3> QED
      BY <3>2, <3>3, <3>4 DEF QueueInv
  <2>5. Holders' = Holders
    BY <2>1 DEF Holders, TypeOK
  <2>6. active = MaxConcurrentConsumerTurns
    BY <1>1 DEF TypeOK
  <2> QED
    BY <2>1, <2>2, <2>4, <2>5, <2>6 DEF SlotInv, TypeOK
<1>2. CASE ~(active >= MaxConcurrentConsumerTurns)
  <2>1. /\ waiters' = waiters /\ turn' = [turn EXCEPT ![c] = "granted"]
        /\ active' = active + 1
    BY <1>2 DEF AcquireConsumerTurnSlot
  <2>2. waiters = <<>> /\ active' \in 0 .. MaxConcurrentConsumerTurns
    BY <1>2, <2>1 DEF SlotInv, TypeOK
  <2>3. QueueInv'
    <3>1. \A i \in 1 .. Len(waiters) : waiters[i] # c /\ waiters[i] \in Consumers
      BY ElementOfSeq DEF TypeOK, SlotInv, QueueInv
    <3> QED
      BY <2>1, <3>1 DEF TypeOK, SlotInv, QueueInv
  <2>4. Holders' = Holders \cup {c} /\ c \notin Holders
    BY <2>1 DEF Holders, TypeOK
  <2>5. Cardinality(Holders') = Cardinality(Holders) + 1
    BY <2>4, OneMore, HoldersFinite
  <2> QED
    BY <2>1, <2>2, <2>3, <2>5 DEF SlotInv, TypeOK
<1> QED
  BY <1>1, <1>2

(* A slot that is released goes to the first in the queue, or is free.     *)
LEMMA ReleaseStep ==
    ASSUME TypeOK, SlotInv, NEW c \in Consumers, turn[c] \in {"tx", "handler"},
           ReleaseSlot(c)
    PROVE  /\ turn' \in [Consumers -> {"none", "queued", "granted", "tx", "wants", "handler"}]
           /\ active' \in 0 .. MaxConcurrentConsumerTurns
           /\ waiters' \in Seq(Consumers)
           /\ SlotInv'
           /\ InFlightTurns' = InFlightTurns \ {c}
<1> USE DispatcherProcessAssumption
<1>1. \A i \in 1 .. Len(waiters) :
         waiters[i] # c /\ waiters[i] \in Consumers /\ turn[waiters[i]] = "queued"
  BY ElementOfSeq DEF TypeOK, SlotInv, QueueInv
<1>2. c \in Holders
  BY DEF Holders
<1>3. CASE waiters # <<>>
  <2> DEFINE h == Head(waiters)
  <2>1. /\ turn' = [turn EXCEPT ![c] = "none", ![h] = "granted"]
        /\ waiters' = Tail(waiters) /\ active' = active
    BY <1>3 DEF ReleaseSlot
  <2>2. /\ h = waiters[1] /\ waiters' \in Seq(Consumers) /\ Len(waiters') = Len(waiters) - 1
        /\ \A i \in 1 .. Len(waiters') : waiters'[i] = waiters[i + 1]
        /\ Len(waiters) \in Nat /\ Len(waiters) >= 1
    <3>1. waiters \in Seq(Consumers)
      BY DEF TypeOK
    <3>2. Len(waiters) \in Nat /\ Len(waiters) >= 1
      BY <1>3, <3>1, EmptySeq, LenProperties
    <3> QED
      BY <1>3, <2>1, <3>1, <3>2, HeadTailProperties
  <2>3. h \in Consumers /\ h # c /\ turn[h] = "queued"
    BY <1>1, <2>2
  <2> HIDE DEF h
  <2>4. \A d \in Consumers :
           turn'[d] = IF d = h THEN "granted" ELSE IF d = c THEN "none" ELSE turn[d]
    BY <2>1, <2>3 DEF TypeOK
  <2>5. QueueInv'
    <3>1. \A i \in 1 .. Len(waiters') : i + 1 \in 1 .. Len(waiters) /\ i + 1 # 1
      BY <2>2
    <3>2. \A i \in 1 .. Len(waiters') : waiters'[i] # h /\ waiters'[i] # c
      <4>1. 1 \in 1 .. Len(waiters)
        BY <2>2
      <4> QED
        BY <1>1, <2>2, <3>1, <4>1 DEF SlotInv, QueueInv
    <3>3. \A i \in 1 .. Len(waiters') : turn'[waiters'[i]] = "queued"
      BY <1>1, <2>2, <2>4, <3>1, <3>2
    <3>4. \A i, k \in 1 .. Len(waiters') : waiters'[i] = waiters'[k] => i = k
      <4> SUFFICES ASSUME NEW i \in 1 .. Len(waiters'), NEW k \in 1 .. Len(waiters'),
                          waiters'[i] = waiters'[k]
                   PROVE  i = k
        OBVIOUS
      <4>1. i + 1 = k + 1
        BY <2>2, <3>1 DEF SlotInv, QueueInv
      <4> QED
        BY <4>1
    <3>5. \A d \in Consumers : turn'[d] = "queued" =>
             \E i \in 1 .. Len(waiters') : waiters'[i] = d
      <4> SUFFICES ASSUME NEW d \in Consumers, turn'[d] = "queued"
                   PROVE  \E i \in 1 .. Len(waiters') : waiters'[i] = d
        OBVIOUS
      <4>1. turn[d] = "queued" /\ d # h
        BY <2>4
      <4>2. PICK i \in 1 .. Len(waiters) : waiters[i] = d
        BY <4>1 DEF SlotInv, QueueInv
      <4>3. i - 1 \in 1 .. Len(waiters') /\ (i - 1) + 1 = i
        BY <2>2, <4>1, <4>2
      <4> QED
        BY <2>2, <4>2, <4>3
    <3> QED
      BY <3>3, <3>4, <3>5 DEF QueueInv
  <2>6. Cardinality(Holders') = Cardinality(Holders)
    <3>1. Holders' = (Holders \ {c}) \cup {h} /\ h \notin Holders \ {c}
      BY <2>3, <2>4 DEF Holders
    <3>2. /\ IsFiniteSet(Holders \ {c})
          /\ Cardinality(Holders \ {c}) = Cardinality(Holders) - 1
      BY <1>2, FS_RemoveElement, HoldersFinite
    <3>3. Cardinality(Holders') = Cardinality(Holders \ {c}) + 1
      BY <3>1, <3>2, OneMore
    <3> QED
      BY <3>2, <3>3, HoldersFinite
  <2>7. active = MaxConcurrentConsumerTurns
    BY <1>3 DEF SlotInv
  <2>8. turn' \in [Consumers -> {"none", "queued", "granted", "tx", "wants", "handler"}]
    BY <2>1, <2>3 DEF TypeOK
  <2>9. InFlightTurns' = InFlightTurns \ {c}
    BY <2>3, <2>4 DEF InFlightTurns
  <2> QED
    BY <2>1, <2>2, <2>5, <2>6, <2>7, <2>8, <2>9 DEF SlotInv, TypeOK
<1>4. CASE waiters = <<>>
  <2>1. /\ turn' = [turn EXCEPT ![c] = "none"]
        /\ waiters' = waiters /\ active' = active - 1
    BY <1>4 DEF ReleaseSlot
  <2>2. QueueInv'
    BY <1>1, <2>1 DEF TypeOK, SlotInv, QueueInv
  <2>3. Holders' = Holders \ {c}
    BY <2>1 DEF Holders, TypeOK
  <2>4. /\ Cardinality(Holders') = Cardinality(Holders) - 1
        /\ Cardinality(Holders') \in Nat
    BY <1>2, <2>3, OneLess, HoldersFinite
  <2>5. InFlightTurns' = InFlightTurns \ {c}
    BY <2>1 DEF InFlightTurns, TypeOK
  <2> QED
    BY <1>4, <2>1, <2>2, <2>4, <2>5 DEF SlotInv, TypeOK
<1> QED
  BY <1>3, <1>4

(* A turn that goes on keeps its slot.                                     *)
LEMMA HolderMoves ==
    ASSUME TypeOK, SlotInv, NEW c \in Consumers, c \in Holders,
           NEW t \in {"tx", "wants", "handler"},
           turn' = [turn EXCEPT ![c] = t], UNCHANGED <<active, waiters>>
    PROVE  /\ turn' \in [Consumers -> {"none", "queued", "granted", "tx", "wants", "handler"}]
           /\ SlotInv'
           /\ InFlightTurns' = InFlightTurns
<1>1. Holders' = Holders
  BY DEF Holders, TypeOK
<1>2. \A i \in 1 .. Len(waiters) : waiters[i] \in Consumers /\ waiters[i] # c
  BY ElementOfSeq DEF TypeOK, SlotInv, QueueInv, Holders
<1>3. QueueInv'
  BY <1>2 DEF TypeOK, SlotInv, QueueInv, Holders
<1>4. InFlightTurns' = InFlightTurns
  BY DEF InFlightTurns, TypeOK, Holders
<1> QED
  BY <1>1, <1>3, <1>4 DEF SlotInv, TypeOK

-----------------------------------------------------------------------------
(* start() and stop().                                                     *)

(* One call goes on.                                                       *)
LEMMA StartStep ==
    ASSUME IInv, NEW s \in StartCalls,
           CallStart(s) \/ PreRegistered(s) \/ PreRegisterFails(s) \/ Listening(s)
    PROVE  IInv'
<1> USE DEF IInv
<1>1. PICK pc \in {"registering", "listening", "returned"} : start' = [start EXCEPT ![s] = pc]
  BY DEF CallStart, PreRegistered, PreRegisterFails, Listening
<1>2. /\ UNCHANGED <<slotVars, passVars, waitVars, pauseVars>>
      /\ overlapped' = overlapped
      /\ stop' = stop \/ stop' = "uncalled"
  BY DEF CallStart, PreRegistered, PreRegisterFails, Listening
<1>3. SlotInv' /\ PassInv' /\ DrainInv'
  <2>1. InFlightPasses' = InFlightPasses /\ InFlightTurns' = InFlightTurns
    BY <1>2 DEF slotVars, passVars, InFlightPasses, InFlightTurns
  <2>2. DrainInv'
    BY <1>2, <2>1 DEF DrainInv, Drains, waitVars, pauseVars
  <2>3. SlotInv' /\ PassInv'
    BY <1>2 DEF slotVars, passVars, SlotInv, QueueInv, Holders, PassInv
  <2> QED
    BY <2>2, <2>3
<1>4. /\ IsFiniteSet(Called) /\ Cardinality(Called) \in Nat
      /\ IsFiniteSet(Ended) /\ Cardinality(Ended) \in Nat
      /\ Cardinality(Called') \in Nat /\ Cardinality(Called') <= Cardinality(StartCalls)
      /\ Cardinality(Ended') \in Nat /\ Cardinality(Ended') <= Cardinality(StartCalls)
      /\ Cardinality(StartCalls) \in Nat
  <2>1. Called' \subseteq StartCalls /\ Ended' \subseteq StartCalls
    BY DEF Called, Ended
  <2> QED
    BY <2>1, PartOf, CalledFinite, DispatcherProcessAssumption
<1>5. Paused' = Paused /\ depth' = depth
  BY <1>2 DEF pauseVars, Paused
<1>6. ASSUME timers' \in Nat, timers' <= Cardinality(Called'),
             subs' \in Nat, subs' <= Cardinality(Ended'),
             {timer', sub', running', preRegistered'} \subseteq BOOLEAN
      PROVE  TypeOK'
  BY <1>1, <1>2, <1>4, <1>6 DEF TypeOK, slotVars, passVars, waitVars, pauseVars
<1>7. CASE CallStart(s)
  <2>1. start' = [start EXCEPT ![s] = "registering"] /\ start[s] = "uncalled"
    BY <1>7 DEF CallStart
  <2>2. Called' = Called /\ Ended' = Ended
    BY <2>1 DEF TypeOK, Called, Ended
  <2>3. CountInv'
    BY <1>5, <1>7, <2>2 DEF CountInv, CallStart
  <2>4. LifecycleInv'
    BY <1>7, <2>1 DEF CallStart, LifecycleInv, InProgress, TypeOK
  <2>5. TypeOK'
    BY <1>6, <1>7, <2>2 DEF CallStart, TypeOK, CountInv
  <2> QED
    BY <1>3, <2>3, <2>4, <2>5
<1>8. CASE PreRegistered(s)
  <2>1. start' = [start EXCEPT ![s] = "listening"] /\ start[s] = "registering"
    BY <1>8 DEF PreRegistered
  <2>2. Called' = Called \cup {s} /\ s \notin Called /\ Ended' = Ended
    BY <2>1 DEF TypeOK, Called, Ended
  <2>3. Cardinality(Called') = Cardinality(Called) + 1
    BY <1>4, <2>2, OneMore
  <2>4. CountInv'
    BY <1>4, <1>5, <1>8, <2>2, <2>3 DEF CountInv, PreRegistered, TypeOK
  <2>5. LifecycleInv'
    BY <1>8, <2>1 DEF PreRegistered, LifecycleInv, InProgress, TypeOK
  <2>6. TypeOK'
    BY <1>4, <1>6, <1>8, <2>2, <2>3 DEF PreRegistered, TypeOK, CountInv
  <2> QED
    BY <1>3, <2>4, <2>5, <2>6
<1>9. CASE PreRegisterFails(s)
  <2>1. start' = [start EXCEPT ![s] = "returned"] /\ start[s] = "registering"
    BY <1>9 DEF PreRegisterFails
  <2>2. /\ Called' = Called \cup {s} /\ s \notin Called
        /\ Ended' = Ended \cup {s} /\ s \notin Ended
    BY <2>1 DEF TypeOK, Called, Ended
  <2>3. /\ Cardinality(Called') = Cardinality(Called) + 1
        /\ Cardinality(Ended') = Cardinality(Ended) + 1
    BY <1>4, <2>2, OneMore
  <2>4. CountInv'
    BY <1>4, <1>5, <1>9, <2>3 DEF CountInv, PreRegisterFails, TypeOK
  <2>5. LifecycleInv'
    BY <1>9, <2>1 DEF PreRegisterFails, LifecycleInv, InProgress, TypeOK
  <2>6. TypeOK'
    BY <1>4, <1>6, <1>9, <2>3 DEF PreRegisterFails, TypeOK, CountInv
  <2> QED
    BY <1>3, <2>4, <2>5, <2>6
<1>10. CASE Listening(s)
  <2>1. start' = [start EXCEPT ![s] = "returned"] /\ start[s] = "listening"
    BY <1>10 DEF Listening
  <2>2. Called' = Called /\ Ended' = Ended \cup {s} /\ s \notin Ended
    BY <2>1 DEF TypeOK, Called, Ended
  <2>3. Cardinality(Ended') = Cardinality(Ended) + 1
    BY <1>4, <2>2, OneMore
  <2>4. CountInv'
    BY <1>4, <1>5, <1>10, <2>2, <2>3 DEF CountInv, Listening, TypeOK
  <2>5. LifecycleInv'
    BY <1>10, <2>1 DEF Listening, LifecycleInv, InProgress, TypeOK
  <2>6. {timer', sub', running', preRegistered'} \subseteq BOOLEAN
    BY <1>10 DEF Listening, TypeOK
  <2>7. TypeOK'
    BY <1>4, <1>6, <1>10, <2>2, <2>3, <2>6 DEF Listening, TypeOK, CountInv
  <2> QED
    BY <1>3, <2>4, <2>5, <2>7
<1> QED
  BY <1>7, <1>8, <1>9, <1>10

(* What stop() does while it drains.                                       *)
LEMMA StopStep ==
    ASSUME IInv, CallStop \/ Unlisten \/ StopDrainedPasses \/ StopDrainedTurns
    PROVE  IInv'
<1> USE DEF IInv
<1>1. /\ UNCHANGED <<slotVars, passVars, pauseWaits, pauseVars, start, preRegistered>>
  BY DEF CallStop, Unlisten, StopDrainedPasses, StopDrainedTurns, waitVars
<1>2. InFlightPasses' = InFlightPasses /\ InFlightTurns' = InFlightTurns
  BY <1>1 DEF slotVars, passVars, InFlightPasses, InFlightTurns
<1>3. /\ SlotInv' /\ PassInv'
      /\ (\A q \in Pausers : Drains(pause[q], pauseWaits[q], "fn"))'
  BY <1>1, <1>2 DEF slotVars, passVars, pauseVars, SlotInv, QueueInv, Holders, PassInv,
                    DrainInv, Drains
<1>4. Called' = Called /\ Ended' = Ended /\ Paused' = Paused /\ depth' = depth
  BY <1>1 DEF Called, Ended, Paused, pauseVars
<1>5. /\ Cardinality(Called) \in Nat /\ Cardinality(Called) <= Cardinality(StartCalls)
      /\ Cardinality(Ended) \in Nat /\ Cardinality(Ended) <= Cardinality(StartCalls)
      /\ Cardinality(StartCalls) \in Nat
  BY CalledFinite
<1>6. InFlightPasses \subseteq Passes \cup Consumers /\ InFlightTurns \subseteq Passes \cup Consumers
  BY DEF InFlightPasses, InFlightTurns
<1>7. CASE CallStop
  <2>1. ~overlapped' => ~overlapped /\ \A s \in StartCalls : ~InProgress(s)
    BY <1>7 DEF CallStop, StartInProgress, InProgress, TypeOK
  <2>2. TypeOK'
    <3>1. /\ {timer', sub', running', preRegistered', overlapped'} \subseteq BOOLEAN
          /\ stopWaits' \subseteq Passes \cup Consumers
      BY <1>1, <1>6, <1>7 DEF CallStop, TypeOK
    <3>2. timers' \in 0 .. Cardinality(StartCalls) /\ subs' = subs
      BY <1>5, <1>7 DEF CallStop, TypeOK, CountInv
    <3>3. stop' \in {"unlistening", "passes"}
      BY <1>7 DEF CallStop
    <3> QED
      BY <1>1, <3>1, <3>2, <3>3 DEF TypeOK, slotVars, passVars, pauseVars
  <2>3. CountInv'
    BY <1>4, <1>5, <1>7 DEF CallStop, CountInv, TypeOK
  <2>4. LifecycleInv'
    BY <1>1, <1>7, <2>1 DEF CallStop, LifecycleInv, InProgress, TypeOK
  <2>5. Drains(stop, stopWaits, "returned")'
    BY <1>2, <1>7 DEF CallStop, Drains
  <2> QED
    BY <1>3, <2>2, <2>3, <2>4, <2>5 DEF DrainInv
<1>8. CASE Unlisten
  <2>1. subs >= 1 /\ sub /\ ~running
    BY <1>8 DEF Unlisten, CountInv, LifecycleInv
  <2>2. TypeOK'
    <3>1. /\ {timer', sub', running', preRegistered', overlapped'} \subseteq BOOLEAN
          /\ stopWaits' \subseteq Passes \cup Consumers
      BY <1>1, <1>6, <1>8 DEF Unlisten, TypeOK
    <3>2. timers' = timers /\ subs' \in 0 .. Cardinality(StartCalls)
      BY <1>5, <1>8, <2>1 DEF Unlisten, TypeOK
    <3>3. stop' = "passes"
      BY <1>8 DEF Unlisten
    <3> QED
      BY <1>1, <3>1, <3>2, <3>3 DEF TypeOK, slotVars, passVars, pauseVars
  <2>3. CountInv'
    BY <1>4, <1>5, <1>8 DEF Unlisten, CountInv, TypeOK
  <2>4. LifecycleInv'
    BY <1>1, <1>8, <2>1 DEF Unlisten, LifecycleInv, InProgress, TypeOK
  <2>5. Drains(stop, stopWaits, "returned")'
    BY <1>2, <1>8 DEF Unlisten, Drains
  <2> QED
    BY <1>3, <2>2, <2>3, <2>4, <2>5 DEF DrainInv
<1>9. CASE StopDrainedPasses
  <2>1. TypeOK'
    BY <1>1, <1>6, <1>9 DEF StopDrainedPasses, TypeOK, slotVars, passVars, pauseVars
  <2>2. CountInv'
    BY <1>4, <1>9 DEF StopDrainedPasses, CountInv
  <2>3. LifecycleInv'
    BY <1>9 DEF StopDrainedPasses, LifecycleInv, InProgress
  <2>4. ~overlapped' => Drains(stop, stopWaits, "returned")'
    BY <1>2, <1>9 DEF StopDrainedPasses, DrainInv, Drains
  <2> QED
    BY <1>3, <2>1, <2>2, <2>3, <2>4 DEF DrainInv
<1>10. CASE StopDrainedTurns
  <2>1. TypeOK'
    BY <1>1, <1>10 DEF StopDrainedTurns, TypeOK, slotVars, passVars, pauseVars, waitVars
  <2>2. CountInv'
    BY <1>4, <1>10 DEF StopDrainedTurns, CountInv
  <2>3. LifecycleInv'
    BY <1>10 DEF StopDrainedTurns, LifecycleInv, InProgress
  <2>4. ~overlapped' => Drains(stop, stopWaits, "returned")'
    BY <1>2, <1>10 DEF StopDrainedTurns, DrainInv, Drains
  <2> QED
    BY <1>3, <2>1, <2>2, <2>3, <2>4 DEF DrainInv
<1> QED
  BY <1>7, <1>8, <1>9, <1>10

-----------------------------------------------------------------------------
(* withBackgroundPassesPaused().                                           *)

(* The pause depth is the number of calls that have begun and not ended.   *)
LEMMA PauseStep ==
    ASSUME IInv, NEW q \in Pausers,
           Pause(q) \/ PauseDrainedPasses(q) \/ PauseDrainedTurns(q) \/ Resume(q)
    PROVE  IInv'
<1> USE DEF IInv
<1>1. UNCHANGED <<lifecycleVars, slotVars, passVars, stopWaits>>
  BY DEF Pause, PauseDrainedPasses, PauseDrainedTurns, Resume, waitVars
<1>2. InFlightPasses' = InFlightPasses /\ InFlightTurns' = InFlightTurns
  BY <1>1 DEF slotVars, passVars, InFlightPasses, InFlightTurns
<1>3. /\ SlotInv' /\ PassInv' /\ LifecycleInv'
      /\ (~overlapped => Drains(stop, stopWaits, "returned"))'
  BY <1>1, <1>2 DEF lifecycleVars, slotVars, passVars, SlotInv, QueueInv, Holders, PassInv,
                    LifecycleInv, InProgress, DrainInv, Drains
<1>4. /\ IsFiniteSet(Paused) /\ Cardinality(Paused) \in Nat
      /\ Cardinality(Paused') \in Nat /\ Cardinality(Paused') <= Cardinality(Pausers)
      /\ Cardinality(Pausers) \in Nat
  <2>1. Paused' \subseteq Pausers
    BY DEF Paused
  <2> QED
    BY <2>1, PartOf, PausedFinite, DispatcherProcessAssumption
<1>5. ASSUME NEW pc \in {"none", "passes", "turns", "fn"}, pause' = [pause EXCEPT ![q] = pc],
             depth' = Cardinality(Paused'),
             NEW w \in SUBSET (Passes \cup Consumers),
             pauseWaits' = [pauseWaits EXCEPT ![q] = w],
             pc = "passes" => InFlightPasses \subseteq w,
             pc = "turns" => InFlightPasses = {} /\ InFlightTurns \subseteq w,
             pc = "fn" => InFlightPasses = {} /\ InFlightTurns = {}
      PROVE  IInv'
  <2>1. TypeOK'
    BY <1>1, <1>4, <1>5 DEF TypeOK, lifecycleVars, slotVars, passVars
  <2>2. CountInv'
    BY <1>1, <1>5 DEF CountInv, Called, Ended, lifecycleVars
  <2>3. (\A r \in Pausers : Drains(pause[r], pauseWaits[r], "fn"))'
    BY <1>2, <1>5 DEF DrainInv, Drains, TypeOK
  <2> QED
    BY <1>3, <2>1, <2>2, <2>3 DEF DrainInv
<1>6. InFlightPasses \subseteq Passes \cup Consumers /\ InFlightTurns \subseteq Passes \cup Consumers
  BY DEF InFlightPasses, InFlightTurns
<1>7. Drains(pause[q], pauseWaits[q], "fn") /\ depth = Cardinality(Paused)
  BY DEF DrainInv, CountInv
<1>8. CASE Pause(q)
  <2>1. Paused' = Paused \cup {q} /\ q \notin Paused
    BY <1>8 DEF Pause, Paused, TypeOK
  <2>2. Cardinality(Paused') = Cardinality(Paused) + 1
    BY <1>4, <2>1, OneMore
  <2> QED
    BY <1>5, <1>6, <1>7, <1>8, <2>2 DEF Pause
<1>9. CASE PauseDrainedPasses(q)
  <2>1. Paused' = Paused
    BY <1>9 DEF PauseDrainedPasses, Paused, TypeOK
  <2> QED
    BY <1>5, <1>6, <1>7, <1>9, <2>1 DEF PauseDrainedPasses, Drains
<1>10. CASE PauseDrainedTurns(q)
  <2>1. Paused' = Paused /\ pauseWaits' = [pauseWaits EXCEPT ![q] = {}]
    BY <1>10 DEF PauseDrainedTurns, Paused, TypeOK, waitVars
  <2> QED
    BY <1>5, <1>7, <1>10, <2>1 DEF PauseDrainedTurns, Drains
<1>11. CASE Resume(q)
  <2>1. /\ Paused' = Paused \ {q} /\ q \in Paused
        /\ pauseWaits' = [pauseWaits EXCEPT ![q] = pauseWaits[q]]
        /\ pauseWaits[q] \in SUBSET (Passes \cup Consumers)
    BY <1>11 DEF Resume, Paused, TypeOK, waitVars
  <2>2. Cardinality(Paused') = Cardinality(Paused) - 1
    BY <1>4, <2>1, OneLess
  <2> QED
    BY <1>5, <1>7, <1>11, <2>1, <2>2 DEF Resume
<1> QED
  BY <1>8, <1>9, <1>10, <1>11

-----------------------------------------------------------------------------
(* Passes and turns.                                                       *)

(* What the conjuncts about start(), stop() and pauses need of a step of a *)
(* pass or a turn.                                                         *)
LEMMA LifecycleFrame ==
    ASSUME IInv, UNCHANGED <<lifecycleVars, pauseVars>>
    PROVE  LifecycleInv' /\ CountInv'
BY DEF IInv, LifecycleInv, CountInv, InProgress, Called, Ended, Paused, lifecycleVars, pauseVars

(* A drain that has begun leaves no background pass to start.              *)
LEMMA NobodyStartsAPass ==
    ASSUME IInv, NEW p \in Passes, RunBackgroundPass(p)
    PROVE  /\ ~overlapped => stop \notin {"passes", "turns", "returned"}
           /\ \A q \in Pausers : pause[q] = "none"
<1>1. ~overlapped => stop \notin {"passes", "turns", "returned"}
  <2> SUFFICES ASSUME ~overlapped, stop \in {"passes", "turns", "returned"}
               PROVE  FALSE
    OBVIOUS
  <2>1. ~running /\ timers = 0 /\ subs = 0
    BY DEF IInv, LifecycleInv
  <2> QED
    BY <2>1 DEF RunBackgroundPass
<1>2. Paused = {}
  BY FS_EmptySet, PausedFinite DEF IInv, CountInv, RunBackgroundPass
<1> QED
  BY <1>1, <1>2 DEF Paused

(* The drains after a step that ends what is in X: nobody waits for it any *)
(* more, and nothing new is in flight but turns of a pass in flight.       *)
LEMMA DrainStep ==
    ASSUME IInv, UNCHANGED <<lifecycleVars, pauseVars>>, NEW X,
           stopWaits' = stopWaits \ X,
           \A q \in Pausers : pauseWaits'[q] = pauseWaits[q] \ X,
           InFlightPasses' \subseteq InFlightPasses \ X,
           InFlightTurns' \subseteq InFlightTurns \ X \/ InFlightPasses # {}
    PROVE  DrainInv'
<1>1. ASSUME NEW pc, NEW waits, NEW done, Drains(pc, waits, done)
      PROVE  /\ pc = "passes" => InFlightPasses' \subseteq waits \ X
             /\ pc = "turns" => InFlightPasses' = {} /\ InFlightTurns' \subseteq waits \ X
             /\ pc = done => InFlightPasses' = {} /\ InFlightTurns' = {}
  BY <1>1 DEF Drains
<1>2. (~overlapped => Drains(stop, stopWaits, "returned"))'
  BY <1>1 DEF IInv, DrainInv, Drains, lifecycleVars
<1>3. \A q \in Pausers : Drains(pause[q], pauseWaits[q], "fn")
  BY DEF IInv, DrainInv
<1>4. (\A q \in Pausers : Drains(pause[q], pauseWaits[q], "fn"))'
  BY <1>1, <1>3 DEF Drains, pauseVars
<1> QED
  BY <1>2, <1>4 DEF DrainInv

(* A tick or a NOTIFY starts a pass only while nothing drains.             *)
LEMMA RunBackgroundPassStep ==
    ASSUME IInv, NEW p \in Passes, RunBackgroundPass(p)
    PROVE  IInv'
<1> USE DEF IInv
<1>1. /\ UNCHANGED <<lifecycleVars, slotVars, todo, awaits, waitVars, pauseVars>>
      /\ pass' = [pass EXCEPT ![p] = "precheck"] /\ pass[p] = "none"
  BY DEF RunBackgroundPass
<1>2. LifecycleInv' /\ CountInv'
  BY <1>1, LifecycleFrame
<1>3. TypeOK'
  BY <1>1 DEF TypeOK, lifecycleVars, slotVars, waitVars, pauseVars
<1>4. SlotInv' /\ PassInv'
  BY <1>1 DEF SlotInv, QueueInv, Holders, slotVars, PassInv, TypeOK
<1>5. DrainInv'
  BY <1>1, NobodyStartsAPass DEF DrainInv, Drains, lifecycleVars, pauseVars
<1> QED
  BY <1>2, <1>3, <1>4, <1>5

(* A pass makes its pre-check, asks for turns, and ends.                   *)
LEMMA PassStepStep ==
    ASSUME IInv, NEW p \in Passes, PassStep(p)
    PROVE  IInv'
<1> USE DEF IInv
<1>1. UNCHANGED <<lifecycleVars, pauseVars>>
  BY DEF PassStep, PreChecked, Gated, JoinTurn, RunConsumerTurn, PassDone
<1>2. LifecycleInv' /\ CountInv'
  BY <1>1, LifecycleFrame
<1>3. CASE PreChecked(p)
  <2>1. /\ UNCHANGED <<slotVars, awaits, waitVars>>
        /\ pass' = [pass EXCEPT ![p] = "turns"] /\ pass[p] = "precheck"
        /\ todo' = [todo EXCEPT ![p] = Consumers]
    BY <1>3 DEF PreChecked
  <2>2. TypeOK' /\ PassInv' /\ SlotInv'
    BY <1>1, <2>1 DEF TypeOK, PassInv, SlotInv, QueueInv, Holders,
                      lifecycleVars, slotVars, waitVars, pauseVars
  <2>3. InFlightPasses' = InFlightPasses /\ InFlightTurns' = InFlightTurns
    BY <2>1 DEF TypeOK, InFlightPasses, InFlightTurns, slotVars
  <2>4. stopWaits' = stopWaits \ {} /\ \A q \in Pausers : pauseWaits'[q] = pauseWaits[q] \ {}
    BY <2>1 DEF waitVars
  <2>5. DrainInv'
    BY <1>1, <2>3, <2>4, DrainStep
  <2> QED
    BY <1>2, <2>2, <2>5
<1>4. ASSUME NEW c \in Consumers, Gated(p, c) \/ JoinTurn(p, c)
      PROVE  IInv'
  <2>1. /\ UNCHANGED <<slotVars, pass, waitVars>>
        /\ todo' = [todo EXCEPT ![p] = @ \ {c}]
        /\ awaits' \in [Passes -> SUBSET Consumers]
    BY <1>4 DEF Gated, JoinTurn, TypeOK
  <2>2. TypeOK' /\ PassInv' /\ SlotInv'
    BY <1>1, <2>1 DEF TypeOK, PassInv, SlotInv, QueueInv, Holders,
                      lifecycleVars, slotVars, waitVars, pauseVars
  <2>3. InFlightPasses' = InFlightPasses /\ InFlightTurns' = InFlightTurns
    BY <2>1 DEF InFlightPasses, InFlightTurns, slotVars
  <2>4. stopWaits' = stopWaits \ {} /\ \A q \in Pausers : pauseWaits'[q] = pauseWaits[q] \ {}
    BY <2>1 DEF waitVars
  <2>5. DrainInv'
    BY <1>1, <2>3, <2>4, DrainStep
  <2> QED
    BY <1>2, <2>2, <2>5
<1>5. ASSUME NEW c \in Consumers, RunConsumerTurn(p, c)
      PROVE  IInv'
  <2>1. /\ UNCHANGED <<pass, waitVars>>
        /\ AcquireConsumerTurnSlot(c) /\ turn[c] = "none"
        /\ c \in todo[p]
        /\ todo' = [todo EXCEPT ![p] = @ \ {c}]
        /\ awaits' \in [Passes -> SUBSET Consumers]
    BY <1>5 DEF RunConsumerTurn, TypeOK
  <2>2. /\ turn' \in [Consumers -> {"none", "queued", "granted", "tx", "wants", "handler"}]
        /\ active' \in 0 .. MaxConcurrentConsumerTurns
        /\ waiters' \in Seq(Consumers)
        /\ SlotInv'
    BY <2>1, AcquireStep
  <2>3. TypeOK' /\ PassInv'
    BY <1>1, <2>1, <2>2 DEF TypeOK, PassInv, lifecycleVars, waitVars, pauseVars
  <2>4. InFlightPasses' = InFlightPasses /\ p \in InFlightPasses
    BY <2>1 DEF InFlightPasses, PassInv
  <2>5. stopWaits' = stopWaits \ {} /\ \A q \in Pausers : pauseWaits'[q] = pauseWaits[q] \ {}
    BY <2>1 DEF waitVars
  <2>6. DrainInv'
    BY <1>1, <2>4, <2>5, DrainStep
  <2> QED
    BY <1>2, <2>2, <2>3, <2>6
<1>6. CASE PassDone(p)
  <2>1. /\ UNCHANGED <<slotVars, todo, awaits>>
        /\ pass' = [pass EXCEPT ![p] = "none"] /\ todo[p] = {}
        /\ stopWaits' = stopWaits \ {p}
        /\ pauseWaits' = [q \in Pausers |-> pauseWaits[q] \ {p}]
    BY <1>6 DEF PassDone
  <2>2. TypeOK' /\ PassInv' /\ SlotInv'
    BY <1>1, <2>1 DEF TypeOK, PassInv, SlotInv, QueueInv, Holders,
                      lifecycleVars, slotVars, pauseVars
  <2>3. InFlightPasses' = InFlightPasses \ {p} /\ InFlightTurns' = InFlightTurns \ {p}
    BY <2>1, DispatcherProcessAssumption DEF TypeOK, InFlightPasses, InFlightTurns, slotVars
  <2>4. DrainInv'
    BY <1>1, <2>1, <2>3, DrainStep
  <2> QED
    BY <1>2, <2>2, <2>4
<1> QED
  BY <1>3, <1>4, <1>5, <1>6 DEF PassStep

(* A turn goes on, or ends and releases its slot.                          *)
LEMMA TurnStepStep ==
    ASSUME IInv, NEW c \in Consumers, TurnStep(c)
    PROVE  IInv'
<1> USE DEF IInv
<1>1. UNCHANGED <<lifecycleVars, pauseVars, pass, todo>>
  BY DEF TurnStep, BeginTurn, HandlerConnects, EndTurn, passVars
<1>2. LifecycleInv' /\ CountInv' /\ PassInv' /\ InFlightPasses' = InFlightPasses
  BY <1>1, LifecycleFrame DEF PassInv, InFlightPasses
<1>3. CASE BeginTurn(c) \/ HandlerConnects(c)
  <2>1. /\ UNCHANGED <<active, waiters, awaits, waitVars>>
        /\ c \in Holders
        /\ \E t \in {"tx", "wants", "handler"} : turn' = [turn EXCEPT ![c] = t]
    BY <1>3 DEF BeginTurn, HandlerConnects, Holders, passVars
  <2>2. /\ turn' \in [Consumers -> {"none", "queued", "granted", "tx", "wants", "handler"}]
        /\ SlotInv' /\ InFlightTurns' = InFlightTurns
    BY <2>1, HolderMoves
  <2>3. TypeOK'
    BY <1>1, <2>1, <2>2 DEF TypeOK, lifecycleVars, waitVars, pauseVars
  <2>4. stopWaits' = stopWaits \ {} /\ \A q \in Pausers : pauseWaits'[q] = pauseWaits[q] \ {}
    BY <2>1 DEF waitVars
  <2>5. DrainInv'
    BY <1>1, <1>2, <2>2, <2>4, DrainStep
  <2> QED
    BY <1>2, <2>2, <2>3, <2>5
<1>4. CASE EndTurn(c)
  <2>1. /\ ReleaseSlot(c) /\ turn[c] \in {"tx", "handler"}
        /\ awaits' = [p \in Passes |-> awaits[p] \ {c}]
        /\ stopWaits' = stopWaits \ {c}
        /\ pauseWaits' = [q \in Pausers |-> pauseWaits[q] \ {c}]
    BY <1>4 DEF EndTurn
  <2>2. /\ turn' \in [Consumers -> {"none", "queued", "granted", "tx", "wants", "handler"}]
        /\ active' \in 0 .. MaxConcurrentConsumerTurns
        /\ waiters' \in Seq(Consumers)
        /\ SlotInv' /\ InFlightTurns' = InFlightTurns \ {c}
    BY <2>1, ReleaseStep
  <2>3. TypeOK'
    BY <1>1, <2>1, <2>2 DEF TypeOK, lifecycleVars, pauseVars
  <2>4. InFlightPasses' = InFlightPasses \ {c}
    BY <1>2, DispatcherProcessAssumption DEF InFlightPasses
  <2>5. DrainInv'
    BY <1>1, <2>1, <2>2, <2>4, DrainStep
  <2> QED
    BY <1>2, <2>2, <2>3, <2>5
<1> QED
  BY <1>3, <1>4 DEF TurnStep

-----------------------------------------------------------------------------
(* The theorems.                                                           *)

LEMMA InitIInv == Init => IInv
<1> SUFFICES ASSUME Init
             PROVE  IInv
  OBVIOUS
<1> USE DEF Init
<1>1. TypeOK
  <2>1. Cardinality(StartCalls) \in Nat /\ Cardinality(Pausers) \in Nat
    BY CalledFinite, PausedFinite
  <2>2. waiters \in Seq(Consumers)
    BY EmptySeq
  <2>3. /\ 0 \in 0 .. Cardinality(StartCalls)
        /\ 0 \in 0 .. Cardinality(Pausers)
        /\ 0 \in 0 .. MaxConcurrentConsumerTurns
    BY <2>1, DispatcherProcessAssumption
  <2> QED
    BY <2>2, <2>3 DEF TypeOK
<1>2. SlotInv
  <2>1. Holders = {}
    BY DEF Holders
  <2>2. Len(waiters) = 0
    BY EmptySeq
  <2> QED
    BY <2>1, <2>2, FS_EmptySet DEF SlotInv, QueueInv
<1>3. CountInv
  <2>1. Paused = {}
    BY DEF Paused
  <2> QED
    BY <2>1, FS_EmptySet, CalledFinite DEF CountInv
<1>4. LifecycleInv /\ PassInv /\ DrainInv
  BY DEF LifecycleInv, InProgress, PassInv, DrainInv, Drains
<1> QED
  BY <1>1, <1>2, <1>3, <1>4 DEF IInv

LEMMA StutterIInv == IInv /\ UNCHANGED vars => IInv'
<1> SUFFICES ASSUME IInv, UNCHANGED vars
             PROVE  IInv'
  OBVIOUS
<1> USE DEF vars, lifecycleVars, slotVars, passVars, waitVars, pauseVars
<1>1. TypeOK'
  BY DEF IInv, TypeOK
<1>2. SlotInv' /\ PassInv'
  BY DEF IInv, SlotInv, QueueInv, Holders, PassInv
<1>3. LifecycleInv' /\ CountInv'
  BY LifecycleFrame
<1>4. DrainInv'
  BY DEF IInv, DrainInv, Drains, InFlightPasses, InFlightTurns
<1> QED
  BY <1>1, <1>2, <1>3, <1>4 DEF IInv

LEMMA NextIInv == IInv /\ [Next]_vars => IInv'
<1> SUFFICES ASSUME IInv, [Next]_vars
             PROVE  IInv'
  OBVIOUS
<1>1. CASE LifecycleNext
  BY <1>1, StartStep, StopStep DEF LifecycleNext
<1>2. CASE PauseNext
  BY <1>2, PauseStep DEF PauseNext
<1>3. CASE \E p \in Passes : RunBackgroundPass(p) \/ PassStep(p)
  BY <1>3, RunBackgroundPassStep, PassStepStep
<1>4. CASE \E c \in Consumers : TurnStep(c)
  BY <1>4, TurnStepStep
<1>5. CASE UNCHANGED vars
  BY <1>5, StutterIInv
<1> QED
  BY <1>1, <1>2, <1>3, <1>4, <1>5 DEF Next

LEMMA SpecIInv == Spec => []IInv
BY InitIInv, NextIInv, PTL DEF Spec

(* The counters of the dispatcher stay within what calls of start() and    *)
(* withBackgroundPassesPaused() have set, and at most                      *)
(* MaxConcurrentConsumerTurns turns hold a slot.                           *)
THEOREM DispatcherTypeCorrect == Spec => []TypeOK
<1>1. IInv => TypeOK
  BY DEF IInv
<1> QED
  BY <1>1, SpecIInv, PTL

(* acquireConsumerTurnSlot and its release keep their books: the counter   *)
(* is the number of turns that hold a slot, and nobody waits while one is  *)
(* free.                                                                   *)
THEOREM SlotsAreAccountedFor == Spec => []SlotsAccountedFor
<1>1. IInv => SlotsAccountedFor
  <2> SUFFICES ASSUME IInv
               PROVE  SlotsAccountedFor
    OBVIOUS
  <2>1. DOMAIN waiters = 1 .. Len(waiters)
    BY LenProperties DEF IInv, TypeOK
  <2> QED
    BY <2>1 DEF IInv, SlotInv, QueueInv, SlotsAccountedFor
<1> QED
  BY <1>1, SpecIInv, PTL

(* withBackgroundPassesPaused runs its function with no background pass    *)
(* and no turn in flight, however many calls overlap and however passes    *)
(* were interleaved with its drain.                                        *)
THEOREM PauseIsQuiet == Spec => []QuietWhilePaused
<1>1. IInv => QuietWhilePaused
  BY DEF IInv, DrainInv, Drains, QuietWhilePaused
<1> QED
  BY <1>1, SpecIInv, PTL

(* When stop() has returned nothing ticks, listens or runs, unless it      *)
(* overlapped start() or unlisten failed.                                  *)
THEOREM StopIsQuiet == Spec => []QuietAfterStop
<1>1. IInv => QuietAfterStop
  <2> SUFFICES ASSUME IInv, stop = "returned", ~overlapped
               PROVE  timers = 0 /\ subs = 0 /\ InFlightPasses = {} /\ InFlightTurns = {}
    BY DEF QuietAfterStop
  <2>1. timers = 0 /\ subs = 0
    BY DEF IInv, LifecycleInv
  <2> QED
    BY <2>1 DEF IInv, DrainInv, Drains
<1> QED
  BY <1>1, SpecIInv, PTL

(* Of the turns that hold a slot one can always go on: it runs with the    *)
(* connections it needs, or the pool has one for it.                       *)
SomeTurnCanGoOn ==
    Holders # {} =>
        \/ \E c \in Consumers : turn[c] \in {"tx", "handler"}
        \/ Connections < PoolSize

(* "A pool no larger than this limit can deadlock": a pool that is larger  *)
(* does not, because a turn that waits for its second connection holds one *)
(* connection and one slot, and slots are fewer than connections.          *)
THEOREM PoolDoesNotDeadlock == Spec => []SomeTurnCanGoOn
<1>1. IInv => SomeTurnCanGoOn
  <2> SUFFICES ASSUME IInv, \A c \in Consumers : turn[c] \notin {"tx", "handler"}
               PROVE  Connections < PoolSize
    BY DEF SomeTurnCanGoOn
  <2> DEFINE Open == {c \in Consumers : turn[c] \in {"tx", "wants", "handler"}}
             Handling == {c \in Consumers : turn[c] = "handler"}
  <2>1. Open \subseteq Holders /\ Handling = {}
    BY DEF Holders
  <2>2. Cardinality(Open) \in Nat /\ Cardinality(Open) <= Cardinality(Holders)
    <3> HIDE DEF Open
    <3> QED
      BY <2>1, PartOf, HoldersFinite
  <2>3. Cardinality(Holders) = active /\ active \in 0 .. MaxConcurrentConsumerTurns
    BY DEF IInv, SlotInv, TypeOK
  <2>4. Cardinality(Handling) = 0
    BY <2>1, FS_EmptySet
  <2>5. Connections = Cardinality(Open) + Cardinality(Handling)
    BY DEF Connections
  <2> HIDE DEF Open, Handling
  <2> QED
    BY <2>2, <2>3, <2>4, <2>5, DispatcherProcessAssumption
<1> QED
  BY <1>1, SpecIInv, PTL
=============================================================================
