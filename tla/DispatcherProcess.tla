-------------------------- MODULE DispatcherProcess --------------------------
(***************************************************************************)
(* The dispatcher of one process (createEventDispatcher, pipeline/         *)
(* event-dispatcher.ts): start and stop, background passes, the turn slots *)
(* its consumers compete for, and withBackgroundPassesPaused.  What a turn *)
(* does to its consumer is the subject of EventDispatcher; here a turn is  *)
(* something that takes a slot, a connection and, for its handler, one     *)
(* more connection.                                                        *)
(*                                                                         *)
(* The process is single-threaded: a step is the code between two awaits.  *)
(* Only a pass's loop over its consumers is taken consumer by consumer.    *)
(***************************************************************************)
EXTENDS Integers, FiniteSets, Sequences

CONSTANTS
    Consumers,                   \* consumers this process is wired with
    Passes,                      \* bound: background passes in flight
    StartCalls,                  \* bound: calls of start()
    Pausers,                     \* bound: calls of withBackgroundPassesPaused()
                                 \* that overlap
    MaxConcurrentConsumerTurns,  \* MAX_CONCURRENT_CONSUMER_TURNS
    PoolSize                     \* connections of the app pool

(* "A pool no larger than this limit can deadlock".                        *)
ASSUME DispatcherProcessAssumption ==
    /\ MaxConcurrentConsumerTurns \in Nat \ {0}
    /\ PoolSize \in Nat
    /\ PoolSize > MaxConcurrentConsumerTurns
    /\ IsFiniteSet(Consumers) /\ IsFiniteSet(StartCalls) /\ IsFiniteSet(Pausers)
    /\ Passes \cap Consumers = {}

VARIABLES
    running, preRegistered,
    timer, timers,  \* the interval in hand; the intervals that tick
    sub, subs,      \* the subscription in hand; the listeners that are called
    start,          \* start[s]: where call s of start() is
    stop,           \* where stop() is
    pause,          \* pause[q]: where call q of withBackgroundPassesPaused() is
    depth,          \* backgroundPassPauseDepth
    stopWaits,      \* passes, then turns, that stop() awaits
    pauseWaits,     \* pauseWaits[q]: the same for call q of
                    \* withBackgroundPassesPaused()
    pass,           \* pass[p]: where pass p is
    todo,           \* todo[p]: consumers whose turn p has still to ask for
    awaits,         \* awaits[p]: consumers whose turn p awaits
    turn,           \* turn[c]: where the turn of c is (inFlightTurns)
    active,         \* activeConsumerTurns
    waiters,        \* consumerTurnWaiters
    overlapped      \* history: stop() was called during start(), or could
                    \* not unlisten

lifecycleVars == <<running, preRegistered, timer, timers, sub, subs, start, stop, overlapped>>
slotVars == <<turn, active, waiters>>
passVars == <<pass, todo, awaits>>
waitVars == <<stopWaits, pauseWaits>>
pauseVars == <<pause, depth>>
vars == <<lifecycleVars, slotVars, passVars, waitVars, pauseVars>>

-----------------------------------------------------------------------------
(* State.                                                                  *)

TypeOK ==
    /\ running \in BOOLEAN /\ preRegistered \in BOOLEAN
    /\ timer \in BOOLEAN /\ sub \in BOOLEAN
    /\ timers \in 0 .. Cardinality(StartCalls)
    /\ subs \in 0 .. Cardinality(StartCalls)
    /\ start \in [StartCalls -> {"uncalled", "registering", "listening", "returned"}]
    /\ stop \in {"uncalled", "unlistening", "passes", "turns", "returned"}
    /\ pause \in [Pausers -> {"none", "passes", "turns", "fn"}]
    /\ depth \in 0 .. Cardinality(Pausers)
    /\ stopWaits \in SUBSET (Passes \cup Consumers)
    /\ pauseWaits \in [Pausers -> SUBSET (Passes \cup Consumers)]
    /\ pass \in [Passes -> {"none", "precheck", "turns"}]
    /\ todo \in [Passes -> SUBSET Consumers]
    /\ awaits \in [Passes -> SUBSET Consumers]
    /\ turn \in [Consumers -> {"none", "queued", "granted", "tx", "wants", "handler"}]
    /\ active \in 0 .. MaxConcurrentConsumerTurns
    /\ waiters \in Seq(Consumers)
    /\ overlapped \in BOOLEAN

Init ==
    /\ running = FALSE /\ preRegistered = FALSE
    /\ timer = FALSE /\ timers = 0
    /\ sub = FALSE /\ subs = 0
    /\ start = [s \in StartCalls |-> "uncalled"]
    /\ stop = "uncalled"
    /\ pause = [q \in Pausers |-> "none"]
    /\ depth = 0
    /\ stopWaits = {}
    /\ pauseWaits = [q \in Pausers |-> {}]
    /\ pass = [p \in Passes |-> "none"]
    /\ todo = [p \in Passes |-> {}]
    /\ awaits = [p \in Passes |-> {}]
    /\ turn = [c \in Consumers |-> "none"]
    /\ active = 0
    /\ waiters = <<>>
    /\ overlapped = FALSE

InFlightPasses == {p \in Passes : pass[p] # "none"}
InFlightTurns  == {c \in Consumers : turn[c] # "none"}

-----------------------------------------------------------------------------
(* start().                                                                *)

StartInProgress == \E s \in StartCalls : start[s] \in {"registering", "listening"}

(* A call that finds running set returns at once.                          *)
CallStart(s) ==
    /\ start[s] = "uncalled"
    /\ ~running
    /\ stop \in {"uncalled", "returned"}
    /\ running' = TRUE
    /\ start' = [start EXCEPT ![s] = "registering"]
    /\ stop' = "uncalled"
    /\ UNCHANGED <<preRegistered, timer, timers, sub, subs, overlapped,
                   slotVars, passVars, waitVars, pauseVars>>

(* preRegisterConsumers has resolved: set the interval, begin to listen.   *)
PreRegistered(s) ==
    /\ start[s] = "registering"
    /\ preRegistered' = TRUE
    /\ timer' = TRUE
    /\ timers' = timers + 1
    /\ start' = [start EXCEPT ![s] = "listening"]
    /\ UNCHANGED <<running, sub, subs, stop, overlapped, slotVars, passVars, waitVars, pauseVars>>

(* preRegisterConsumers has thrown: start() rejects and running stays set, *)
(* so that only a stop() makes another start() do anything.                *)
PreRegisterFails(s) ==
    /\ start[s] = "registering"
    /\ start' = [start EXCEPT ![s] = "returned"]
    /\ UNCHANGED <<running, preRegistered, timer, timers, sub, subs, stop, overlapped,
                   slotVars, passVars, waitVars, pauseVars>>

(* listen() has resolved, or failed: then polling goes on without it.      *)
Listening(s) ==
    /\ start[s] = "listening"
    /\ \/ sub' = TRUE /\ subs' = subs + 1
       \/ UNCHANGED <<sub, subs>>
    /\ start' = [start EXCEPT ![s] = "returned"]
    /\ UNCHANGED <<running, preRegistered, timer, timers, stop, overlapped,
                   slotVars, passVars, waitVars, pauseVars>>

-----------------------------------------------------------------------------
(* stop().                                                                 *)

(* Without a subscription it goes on to drainInFlightPasses.               *)
CallStop ==
    /\ running
    /\ running' = FALSE
    /\ timer' = FALSE
    /\ timers' = IF timer THEN timers - 1 ELSE timers
    /\ stop' = IF sub THEN "unlistening" ELSE "passes"
    /\ stopWaits' = IF sub THEN {} ELSE InFlightPasses
    /\ overlapped' = (overlapped \/ StartInProgress)
    /\ UNCHANGED <<preRegistered, sub, subs, start, slotVars, passVars, pauseWaits, pauseVars>>

(* A failed unlisten() is swallowed: the listener stays.                   *)
Unlisten ==
    /\ stop = "unlistening"
    /\ \/ subs' = subs - 1 /\ UNCHANGED overlapped
       \/ overlapped' = TRUE /\ UNCHANGED subs
    /\ sub' = FALSE
    /\ stop' = "passes"
    /\ stopWaits' = InFlightPasses
    /\ UNCHANGED <<running, preRegistered, timer, timers, start, slotVars, passVars,
                   pauseWaits, pauseVars>>

(* Mutant of StopDrainedPasses: the turns in flight are not awaited after  *)
(* the passes, and the passes only as far as they have registered turns.   *)
StopDrainedPassesWithTurnsOnly ==
    /\ stop = "passes"
    /\ stop' = "turns"
    /\ stopWaits' = InFlightTurns
    /\ UNCHANGED <<running, preRegistered, timer, timers, sub, subs, start, overlapped,
                   slotVars, passVars, pauseWaits, pauseVars>>

StopDrainedPasses ==
    /\ stop = "passes"
    /\ stopWaits = {}
    /\ stop' = "turns"
    /\ stopWaits' = InFlightTurns
    /\ UNCHANGED <<running, preRegistered, timer, timers, sub, subs, start, overlapped,
                   slotVars, passVars, pauseWaits, pauseVars>>

StopDrainedTurns ==
    /\ stop = "turns"
    /\ stopWaits = {}
    /\ stop' = "returned"
    /\ UNCHANGED <<running, preRegistered, timer, timers, sub, subs, start, overlapped,
                   slotVars, passVars, waitVars, pauseVars>>

-----------------------------------------------------------------------------
(* withBackgroundPassesPaused().                                           *)

Pause(q) ==
    /\ pause[q] = "none"
    /\ depth' = depth + 1
    /\ pause' = [pause EXCEPT ![q] = "passes"]
    /\ pauseWaits' = [pauseWaits EXCEPT ![q] = InFlightPasses]
    /\ UNCHANGED <<lifecycleVars, slotVars, passVars, stopWaits>>

PauseDrainedPasses(q) ==
    /\ pause[q] = "passes"
    /\ pauseWaits[q] = {}
    /\ pause' = [pause EXCEPT ![q] = "turns"]
    /\ pauseWaits' = [pauseWaits EXCEPT ![q] = InFlightTurns]
    /\ UNCHANGED <<lifecycleVars, slotVars, passVars, stopWaits, depth>>

PauseDrainedTurns(q) ==
    /\ pause[q] = "turns"
    /\ pauseWaits[q] = {}
    /\ pause' = [pause EXCEPT ![q] = "fn"]
    /\ UNCHANGED <<lifecycleVars, slotVars, passVars, waitVars, depth>>

(* Mutant of Resume: passes run again after the first of two calls.        *)
ResumeAll(q) ==
    /\ pause[q] = "fn"
    /\ depth' = 0
    /\ pause' = [pause EXCEPT ![q] = "none"]
    /\ UNCHANGED <<lifecycleVars, slotVars, passVars, waitVars>>

(* fn has returned or thrown.                                              *)
Resume(q) ==
    /\ pause[q] = "fn"
    /\ depth' = depth - 1
    /\ pause' = [pause EXCEPT ![q] = "none"]
    /\ UNCHANGED <<lifecycleVars, slotVars, passVars, waitVars>>

-----------------------------------------------------------------------------
(* Background passes.                                                      *)

(* runBackgroundPass, from a tick or a NOTIFY: running is not looked at.   *)
RunBackgroundPass(p) ==
    /\ timers > 0 \/ subs > 0
    /\ depth = 0
    /\ preRegistered
    /\ pass[p] = "none"
    /\ pass' = [pass EXCEPT ![p] = "precheck"]
    /\ UNCHANGED <<lifecycleVars, slotVars, todo, awaits, waitVars, pauseVars>>

(* selectIdleConsumerKeys has resolved; a failure means nobody is idle.    *)
PreChecked(p) ==
    /\ pass[p] = "precheck"
    /\ pass' = [pass EXCEPT ![p] = "turns"]
    /\ todo' = [todo EXCEPT ![p] = Consumers]
    /\ UNCHANGED <<lifecycleVars, slotVars, awaits, waitVars, pauseVars>>

(* The gates: feature off, backing off, or proven idle.  A turn that is in *)
(* flight is joined before they are looked at.                             *)
Gated(p, c) ==
    /\ c \in todo[p]
    /\ turn[c] = "none"
    /\ todo' = [todo EXCEPT ![p] = @ \ {c}]
    /\ UNCHANGED <<lifecycleVars, slotVars, pass, awaits, waitVars, pauseVars>>

JoinTurn(p, c) ==
    /\ c \in todo[p]
    /\ turn[c] # "none"
    /\ todo' = [todo EXCEPT ![p] = @ \ {c}]
    /\ awaits' = [awaits EXCEPT ![p] = @ \cup {c}]
    /\ UNCHANGED <<lifecycleVars, slotVars, pass, waitVars, pauseVars>>

(* Mutant of AcquireConsumerTurnSlot: one turn too many.                   *)
AcquireConsumerTurnSlotPastLimit(c) ==
    IF active > MaxConcurrentConsumerTurns
    THEN /\ waiters' = Append(waiters, c)
         /\ turn' = [turn EXCEPT ![c] = "queued"]
         /\ UNCHANGED active
    ELSE /\ active' = active + 1
         /\ turn' = [turn EXCEPT ![c] = "granted"]
         /\ UNCHANGED waiters

(* acquireConsumerTurnSlot, up to its await.                               *)
AcquireConsumerTurnSlot(c) ==
    IF active >= MaxConcurrentConsumerTurns
    THEN /\ waiters' = Append(waiters, c)
         /\ turn' = [turn EXCEPT ![c] = "queued"]
         /\ UNCHANGED active
    ELSE /\ active' = active + 1
         /\ turn' = [turn EXCEPT ![c] = "granted"]
         /\ UNCHANGED waiters

RunConsumerTurn(p, c) ==
    /\ c \in todo[p]
    /\ turn[c] = "none"
    /\ AcquireConsumerTurnSlot(c)
    /\ todo' = [todo EXCEPT ![p] = @ \ {c}]
    /\ awaits' = [awaits EXCEPT ![p] = @ \cup {c}]
    /\ UNCHANGED <<lifecycleVars, pass, waitVars, pauseVars>>

(* Promise.all over the turns has resolved.                                *)
PassDone(p) ==
    /\ pass[p] = "turns"
    /\ todo[p] = {}
    /\ awaits[p] = {}
    /\ pass' = [pass EXCEPT ![p] = "none"]
    /\ stopWaits' = stopWaits \ {p}
    /\ pauseWaits' = [q \in Pausers |-> pauseWaits[q] \ {p}]
    /\ UNCHANGED <<lifecycleVars, slotVars, todo, awaits, pauseVars>>

-----------------------------------------------------------------------------
(* Turns.                                                                  *)

Connections ==
    Cardinality({c \in Consumers : turn[c] \in {"tx", "wants", "handler"}})
      + Cardinality({c \in Consumers : turn[c] = "handler"})

(* db.begin() of processConsumer.  A handler that writes through           *)
(* context.db wants one more connection while that transaction is open.    *)
BeginTurn(c) ==
    /\ turn[c] = "granted"
    /\ Connections < PoolSize
    /\ \E t \in {"tx", "wants"} : turn' = [turn EXCEPT ![c] = t]
    /\ UNCHANGED <<lifecycleVars, active, waiters, passVars, waitVars, pauseVars>>

HandlerConnects(c) ==
    /\ turn[c] = "wants"
    /\ Connections < PoolSize
    /\ turn' = [turn EXCEPT ![c] = "handler"]
    /\ UNCHANGED <<lifecycleVars, active, waiters, passVars, waitVars, pauseVars>>

(* Mutant of ReleaseSlot: the slot is freed and the waiter woken as well.  *)
ReleaseSlotTwice(c) ==
    IF waiters # <<>>
    THEN /\ turn' = [turn EXCEPT ![c] = "none", ![Head(waiters)] = "granted"]
         /\ waiters' = Tail(waiters)
         /\ active' = active - 1
    ELSE /\ turn' = [turn EXCEPT ![c] = "none"]
         /\ active' = active - 1
         /\ UNCHANGED waiters

(* Mutant of ReleaseSlot: nobody is woken.                                 *)
ReleaseSlotWithoutWaking(c) ==
    /\ turn' = [turn EXCEPT ![c] = "none"]
    /\ active' = active - 1
    /\ UNCHANGED waiters

(* The slot is handed to the first waiter, the count unchanged.            *)
ReleaseSlot(c) ==
    IF waiters # <<>>
    THEN /\ turn' = [turn EXCEPT ![c] = "none", ![Head(waiters)] = "granted"]
         /\ waiters' = Tail(waiters)
         /\ UNCHANGED active
    ELSE /\ turn' = [turn EXCEPT ![c] = "none"]
         /\ active' = active - 1
         /\ UNCHANGED waiters

(* processConsumer has resolved (it never rejects): release the slot, and  *)
(* everybody who awaits the turn's promise goes on.                        *)
EndTurn(c) ==
    /\ turn[c] \in {"tx", "handler"}
    /\ ReleaseSlot(c)
    /\ awaits' = [p \in Passes |-> awaits[p] \ {c}]
    /\ stopWaits' = stopWaits \ {c}
    /\ pauseWaits' = [q \in Pausers |-> pauseWaits[q] \ {c}]
    /\ UNCHANGED <<lifecycleVars, pass, todo, pauseVars>>

-----------------------------------------------------------------------------

LifecycleNext ==
    \/ \E s \in StartCalls : 
           CallStart(s) \/ PreRegistered(s) \/ PreRegisterFails(s) \/ Listening(s)
    \/ CallStop
    \/ Unlisten
    \/ StopDrainedPasses
    \/ StopDrainedTurns

PauseNext ==
    \E q \in Pausers :
        \/ Pause(q)
        \/ PauseDrainedPasses(q)
        \/ PauseDrainedTurns(q)
        \/ Resume(q)

PassStep(p) ==
    \/ PreChecked(p)
    \/ \E c \in Consumers : Gated(p, c) \/ JoinTurn(p, c) \/ RunConsumerTurn(p, c)
    \/ PassDone(p)

TurnStep(c) == BeginTurn(c) \/ HandlerConnects(c) \/ EndTurn(c)

Next ==
    \/ LifecycleNext
    \/ PauseNext
    \/ \E p \in Passes : RunBackgroundPass(p) \/ PassStep(p)
    \/ \E c \in Consumers : TurnStep(c)

Spec == Init /\ [][Next]_vars

(* A promise that is ready to go on does; handlers and the idle pre-check  *)
(* end; the pool serves waiting requests in order, so a turn that waits    *)
(* for a connection gets one that becomes free again and again.  Nobody    *)
(* has to call start, stop or pause, and no tick has to come.              *)
Fairness ==
    /\ WF_vars(Unlisten) /\ WF_vars(StopDrainedPasses) /\ WF_vars(StopDrainedTurns)
    /\ \A q \in Pausers : WF_vars(PauseDrainedPasses(q)) /\ WF_vars(PauseDrainedTurns(q))
    /\ \A p \in Passes : WF_vars(PassStep(p))
    /\ \A c \in Consumers : SF_vars(TurnStep(c))

FairSpec == Spec /\ Fairness

-----------------------------------------------------------------------------
(* Properties.                                                             *)

Holders == {c \in Consumers : turn[c] \in {"granted", "tx", "wants", "handler"}}

(* The counter is the number of turns that hold a slot, however releases,  *)
(* hand-overs and new turns interleave, and nobody waits for a slot while  *)
(* one is free (acquireConsumerTurnSlot).                                  *)
SlotsAccountedFor ==
    /\ active = Cardinality(Holders)
    /\ waiters # <<>> => active = MaxConcurrentConsumerTurns
    /\ \A c \in Consumers : turn[c] = "queued" => \E i \in DOMAIN waiters : waiters[i] = c

(* While fn of withBackgroundPassesPaused runs, no background pass is in   *)
(* flight, not even in its idle pre-check, and no turn that one started.   *)
QuietWhilePaused ==
    (\E q \in Pausers : pause[q] = "fn") => InFlightPasses = {} /\ InFlightTurns = {}

(* After stop() has returned nothing ticks, listens or runs, unless stop() *)
(* was called while start() was still awaiting preRegisterConsumers or     *)
(* listen (start() then sets its interval all the same), or unlisten       *)
(* failed.                                                                 *)
QuietAfterStop ==
    stop = "returned" /\ ~overlapped =>
        timers = 0 /\ subs = 0 /\ InFlightPasses = {} /\ InFlightTurns = {}

(* A turn gets its slot and ends, although each turn that holds a slot     *)
(* holds a connection while its handler may need a second one.             *)
EveryTurnEnds == \A c \in Consumers : turn[c] # "none" ~> turn[c] = "none"

(* stop() and withBackgroundPassesPaused() return from their drains also   *)
(* when ticks go on starting passes meanwhile.                             *)
DrainsEnd ==
    /\ stop = "unlistening" ~> stop = "returned"
    /\ \A q \in Pausers : pause[q] = "passes" ~> pause[q] = "fn"
=============================================================================
