------------------------------ MODULE StreamLog ------------------------------
(***************************************************************************)
(* What the event store promises its callers, without transactions, locks  *)
(* or versions read too early: a set of events that grows by one batch at  *)
(* a time.  A batch extends every stream it touches at the version the     *)
(* stream has at that moment, leaves no version out, and repeats no        *)
(* idempotency key.                                                        *)
(***************************************************************************)
EXTENDS Integers

CONSTANTS Event, NoKey

VARIABLES events

(* Versions of a stream are numbered without a hole.                       *)
Gapless(E) ==
    \A e \in E : \A v \in 1 .. e.version :
       \E d \in E : d.stream = e.stream /\ d.version = v

OnePerVersion(E) ==
    \A d \in E, e \in E : d.stream = e.stream /\ d.version = e.version => d = e

OnePerKey(E) ==
    \A d \in E, e \in E : d.key # NoKey /\ d.key = e.key => d = e

Consistent(E) == Gapless(E) /\ OnePerVersion(E) /\ OnePerKey(E)

Init == events = {}

(* One step appends the batch events' \ events.                            *)
Append ==
    /\ events \subseteq events'
    /\ events' \subseteq Event
    /\ \A d \in events, e \in events' \ events : d.stream = e.stream => d.version < e.version
    /\ Consistent(events')

Spec == Init /\ [][Append]_events
=============================================================================
