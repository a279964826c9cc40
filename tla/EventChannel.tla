---------------------------- MODULE EventChannel ----------------------------
(***************************************************************************)
(* What the eventfd bridge promises its two sides: a bounded first-in      *)
(* first-out channel from the native threads to the JavaScript callback.   *)
(* An accepted event is appended once, taken once and in order, and handed *)
(* to the callback before the next one is taken.  EventfdBridge implements *)
(* this specification.                                                     *)
(***************************************************************************)
EXTENDS Naturals, Sequences

CONSTANTS
  Events,     \* the values of a HardwareEvent that the properties tell apart
  NoEvent,    \* "no event is in flight"
  Capacity    \* EVENT_QUEUE_CAPACITY

VARIABLES
  queue,      \* accepted events that the main thread has not taken yet
  inflight,   \* the event taken from the queue and not yet handed over
  open        \* the bridge has not been freed

cvars == <<queue, inflight, open>>

Init ==
  /\ queue = <<>>
  /\ inflight = NoEvent
  /\ open = TRUE

Post(e) ==
  /\ open
  /\ Len(queue) < Capacity
  /\ queue' = Append(queue, e)
  /\ UNCHANGED <<inflight, open>>

Take ==
  /\ open
  /\ queue # <<>>
  /\ inflight = NoEvent
  /\ inflight' = Head(queue)
  /\ queue' = Tail(queue)
  /\ UNCHANGED open

HandOver ==
  /\ open
  /\ inflight # NoEvent
  /\ inflight' = NoEvent
  /\ UNCHANGED <<queue, open>>

(* Closing discards whatever is still queued; nothing is in flight then. *)
Close ==
  /\ open
  /\ inflight = NoEvent
  /\ open' = FALSE
  /\ UNCHANGED <<queue, inflight>>

Next ==
  \/ \E e \in Events : Post(e)
  \/ Take
  \/ HandOver
  \/ Close

Spec == Init /\ [][Next]_cvars
=============================================================================
