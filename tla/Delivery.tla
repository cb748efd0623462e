------------------------------ MODULE Delivery ------------------------------
(****************************************************************************)
(* What the chain promises about time events (global.registerEventAtTime,   *)
(* app.executeTimeEvents): an event registered for a second is executed     *)
(* exactly once, by the first block whose time is past that second, before  *)
(* anything else that block or a later one does with its transactions;      *)
(* events are executed in the order of their seconds, and those of a second *)
(* in the order they were registered.                                       *)
(****************************************************************************)
EXTENDS Integers, Sequences

CONSTANTS
  Events,     \* what can be registered
  FollowUps,  \* the events that an event may register when it is executed
  Delays,     \* seconds between registering and executing
  Times       \* the seconds of the chain: all of Nat, or a bound for TLC

ASSUME DeliveryAssumption ==
  /\ FollowUps \in [Events -> SUBSET Events]
  /\ Delays \subseteq Nat
  /\ Times \subseteq Nat /\ 0 \in Times

VARIABLES
  clock,  \* time of the last block
  queue   \* the events of every second that have not been executed

deliveryVars == <<clock, queue>>

Overdue == {t \in Times : t < clock /\ queue[t] # <<>>}

(* The queue with an event registered now.                                  *)
With(q, event, delay) == [q EXCEPT ![clock + delay] = Append(@, event)]

(* The queue without the first event of a second.                           *)
Without(t) == [queue EXCEPT ![t] = Tail(@)]

(* A transaction registers an event.                                        *)
Register(event, delay) ==
  /\ Overdue = {}
  /\ clock + delay \in Times
  /\ queue' = With(queue, event, delay)
  /\ UNCHANGED clock

(* The earliest event is executed, and may register another one.            *)
Execute ==
  \E t \in Overdue :
    /\ \A s \in Overdue : t <= s
    /\ \/ queue' = Without(t)
       \/ \E next \in FollowUps[Head(queue[t])], delay \in Delays :
            /\ clock + delay \in Times
            /\ queue' = With(Without(t), next, delay)
    /\ UNCHANGED clock

(* Blocks of the same second exist.                                         *)
Advance(time) ==
  /\ Overdue = {}
  /\ time >= clock
  /\ clock' = time
  /\ UNCHANGED queue

DeliveryInit ==
  /\ clock = 0
  /\ queue = [t \in Times |-> <<>>]

DeliveryNext ==
  \/ \E event \in Events, delay \in Delays : Register(event, delay)
  \/ Execute
  \/ \E time \in Times : Advance(time)

DeliverySpec == DeliveryInit /\ [][DeliveryNext]_deliveryVars
=============================================================================
