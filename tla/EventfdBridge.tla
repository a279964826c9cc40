--------------------------- MODULE EventfdBridge ---------------------------
(***************************************************************************)
(* The bridge of sdk/src/quickjs_eventfd_bridge.c: native threads push     *)
(* HardwareEvents into a ring with free-running uint32 indices and signal  *)
(* an eventfd; the interpreter thread reads the eventfd, drains the ring   *)
(* and calls a JavaScript callback for each event.  Every action is one    *)
(* access to memory shared by the threads, or one system call.             *)
(***************************************************************************)
EXTENDS Naturals, Sequences

CONSTANTS
  Producers,   \* native threads that call eventfd_bridge_post_event
  Events,      \* values of a HardwareEvent
  NoEvent,     \* content of a slot, or of a local copy, never written
  Capacity,    \* EVENT_QUEUE_CAPACITY (256)
  Laps,        \* the uint32 indices wrap after Laps trips round the ring
  MaxSignal,   \* largest value of an eventfd counter (2^64 - 2)
  MaxDepth     \* bound: dispatches nested through the callback

IndexSpace == Laps * Capacity   \* 2^32 values of a uint32_t index

ASSUME CapacityAssumption  == Capacity \in Nat \ {0}
ASSUME LapsAssumption      == Laps \in Nat \ {0, 1}
ASSUME MaxSignalAssumption == MaxSignal \in Nat \ {0}
ASSUME MaxDepthAssumption  == MaxDepth \in Nat \ {0}
ASSUME NoEventAssumption   == NoEvent \notin Events

VARIABLES
  head, tail,  \* queue.head, queue.tail
  ring,        \* queue.ring
  signal,      \* the eventfd counter
  phase,       \* how far eventfd_bridge_destroy has got
  ppc,         \* where each producer stands inside post_event
  ptail,       \* its local current_tail
  pev,         \* the event it posts
  cpc,         \* where the interpreter thread stands inside dispatch_pending
  cev,         \* its local copy ev
  depth,       \* activations of dispatch_pending on the interpreter's stack
  fault        \* a producer used the bridge after it was freed

shared   == <<head, tail, ring, signal>>
producer == <<ppc, ptail, pev>>
consumer == <<cpc, cev, depth>>
vars     == <<shared, phase, producer, consumer, fault>>

Index == 0 .. IndexSpace - 1

(* uint32_t arithmetic on the indices *)
Plus(i, k) == IF i + k < IndexSpace THEN i + k ELSE i + k - IndexSpace
Dist(h, t) == IF t >= h THEN t - h ELSE t + IndexSpace - h

(* idx & EVENT_QUEUE_MASK *)
Slot(i) == i % Capacity

Live == phase = "live"   \* bridge->is_running

TypeOK ==
  /\ head \in Index /\ tail \in Index
  /\ ring \in [0 .. Capacity - 1 -> Events \cup {NoEvent}]
  /\ signal \in 0 .. MaxSignal
  /\ phase \in {"live", "stopping", "closed", "freed"}
  /\ ppc \in [Producers -> {"idle", "check", "write", "publish", "wake"}]
  /\ ptail \in [Producers -> Index]
  /\ pev \in [Producers -> Events \cup {NoEvent}]
  /\ cpc \in {"idle", "load", "copy", "release", "call", "callback"}
  /\ cev \in Events \cup {NoEvent}
  /\ depth \in 0 .. MaxDepth
  /\ fault \in BOOLEAN

(* eventfd_bridge_create: malloc leaves the ring uninitialised *)
Init ==
  /\ head = 0 /\ tail = 0
  /\ ring = [s \in 0 .. Capacity - 1 |-> NoEvent]
  /\ signal = 0
  /\ phase = "live"
  /\ ppc = [p \in Producers |-> "idle"]
  /\ ptail = [p \in Producers |-> 0]
  /\ pev = [p \in Producers |-> NoEvent]
  /\ cpc = "idle" /\ cev = NoEvent /\ depth = 0
  /\ fault = FALSE

-----------------------------------------------------------------------------
(* eventfd_bridge_post_event, on a native thread                           *)

(* is_running is read, then the tail; when it is false the call returns    *)
(* false at once and changes nothing.                                      *)
LoadTail(p, e) ==
  /\ ppc[p] = "idle" /\ Live
  /\ ppc' = [ppc EXCEPT ![p] = "check"]
  /\ ptail' = [ptail EXCEPT ![p] = tail]
  /\ pev' = [pev EXCEPT ![p] = e]
  /\ UNCHANGED <<shared, phase, consumer, fault>>

IsFull(p) == Dist(head, ptail[p]) >= Capacity

(* mutant: no backpressure, the oldest event is overwritten *)
CheckSpaceOverwrites(p) ==
  /\ ppc[p] = "check" /\ phase # "freed"
  /\ ppc' = [ppc EXCEPT ![p] = "write"]
  /\ UNCHANGED <<shared, phase, ptail, pev, consumer, fault>>

(* the acquire load of head and the backpressure test on the local tail *)
CheckSpace(p) ==
  /\ ppc[p] = "check" /\ phase # "freed"
  /\ ppc' = [ppc EXCEPT ![p] = IF IsFull(p) THEN "idle" ELSE "write"]
  /\ UNCHANGED <<shared, phase, ptail, pev, consumer, fault>>

WriteSlot(p) ==
  /\ ppc[p] = "write" /\ phase # "freed"
  /\ ring' = [ring EXCEPT ![Slot(ptail[p])] = pev[p]]
  /\ ppc' = [ppc EXCEPT ![p] = "publish"]
  /\ UNCHANGED <<head, tail, signal, phase, ptail, pev, consumer, fault>>

(* the release store of the local tail + 1 *)
Publish(p) ==
  /\ ppc[p] = "publish" /\ phase # "freed"
  /\ tail' = Plus(ptail[p], 1)
  /\ ppc' = [ppc EXCEPT ![p] = "wake"]
  /\ UNCHANGED <<head, ring, signal, phase, ptail, pev, consumer, fault>>

(* write(event_fd, 1): a saturated counter answers EAGAIN, which the call  *)
(* ignores; a closed descriptor answers EBADF and the call returns false.  *)
Wake(p) ==
  /\ ppc[p] = "wake" /\ phase # "freed"
  /\ signal' = IF phase # "closed" /\ signal < MaxSignal THEN signal + 1
                                                         ELSE signal
  /\ ppc' = [ppc EXCEPT ![p] = "idle"]
  /\ UNCHANGED <<head, tail, ring, phase, ptail, pev, consumer, fault>>

(* any step of a producer inside the call dereferences the freed bridge *)
UseAfterFree(p) ==
  /\ ppc[p] # "idle" /\ phase = "freed"
  /\ fault' = TRUE
  /\ UNCHANGED <<shared, phase, producer, consumer>>

-----------------------------------------------------------------------------
(* eventfd_bridge_dispatch_pending, on the interpreter thread              *)

(* mutant: only a counter of exactly one counts as a signal *)
DispatchExact ==
  /\ cpc \in {"idle", "callback"} /\ Live
  /\ depth < MaxDepth
  /\ signal = 1
  /\ signal' = 0
  /\ cpc' = "load"
  /\ depth' = depth + 1
  /\ UNCHANGED <<head, tail, ring, phase, producer, cev, fault>>

(* The event loop calls dispatch, or the callback itself does.  The read   *)
(* takes the whole counter; on an empty one it answers EAGAIN and dispatch *)
(* returns without touching the ring.                                      *)
Dispatch ==
  /\ cpc \in {"idle", "callback"} /\ Live
  /\ depth < MaxDepth
  /\ signal > 0
  /\ signal' = 0
  /\ cpc' = "load"
  /\ depth' = depth + 1
  /\ UNCHANGED <<head, tail, ring, phase, producer, cev, fault>>

(* Empty: this activation returns, to the event loop or to the callback    *)
(* that called it.                                                         *)
LoadIndices ==
  /\ cpc = "load"
  /\ IF head = tail
     THEN /\ depth' = depth - 1
          /\ cpc' = IF depth = 1 THEN "idle" ELSE "callback"
     ELSE /\ cpc' = "copy"
          /\ UNCHANGED depth
  /\ UNCHANGED <<shared, phase, producer, cev, fault>>

(* mutant: the slot is read at the incremented index *)
CopySlotNext ==
  /\ cpc = "copy"
  /\ cev' = ring[Slot(Plus(head, 1))]
  /\ cpc' = "release"
  /\ UNCHANGED <<shared, phase, producer, depth, fault>>

CopySlot ==
  /\ cpc = "copy"
  /\ cev' = ring[Slot(head)]
  /\ cpc' = "release"
  /\ UNCHANGED <<shared, phase, producer, depth, fault>>

ReleaseSlot ==
  /\ cpc = "release"
  /\ head' = Plus(head, 1)
  /\ cpc' = "call"
  /\ UNCHANGED <<tail, ring, signal, phase, producer, cev, depth, fault>>

(* JS_Call enters the callback with the event *)
CallCallback ==
  /\ cpc = "call"
  /\ cpc' = "callback"
  /\ UNCHANGED <<shared, phase, producer, cev, depth, fault>>

(* mutant: "if" for "while", one event for each signal *)
CallbackReturnsOnce ==
  /\ cpc = "callback"
  /\ depth' = depth - 1
  /\ cpc' = IF depth = 1 THEN "idle" ELSE "callback"
  /\ UNCHANGED <<shared, phase, producer, cev, fault>>

(* its result, an exception included, is dropped *)
CallbackReturns ==
  /\ cpc = "callback"
  /\ cpc' = "load"
  /\ UNCHANGED <<shared, phase, producer, cev, depth, fault>>

-----------------------------------------------------------------------------
(* eventfd_bridge_destroy, from the finalizer of the JavaScript object: it *)
(* runs on the interpreter thread, outside any dispatch of that object.    *)

StopRunning ==
  /\ cpc = "idle" /\ Live
  /\ phase' = "stopping"
  /\ UNCHANGED <<shared, producer, consumer, fault>>

CloseEventfd ==
  /\ phase = "stopping"
  /\ phase' = "closed"
  /\ UNCHANGED <<shared, producer, consumer, fault>>

FreeBridge ==
  /\ phase = "closed"
  /\ phase' = "freed"
  /\ UNCHANGED <<shared, producer, consumer, fault>>

-----------------------------------------------------------------------------
ProducerStep(p) ==
  \/ CheckSpace(p) \/ WriteSlot(p) \/ Publish(p) \/ Wake(p)

ConsumerStep ==
  \/ Dispatch \/ LoadIndices \/ CopySlot
  \/ ReleaseSlot \/ CallCallback \/ CallbackReturns

Next ==
  \/ \E p \in Producers :
       \/ \E e \in Events : LoadTail(p, e)
       \/ ProducerStep(p)
       \/ UseAfterFree(p)
  \/ ConsumerStep
  \/ StopRunning \/ CloseEventfd \/ FreeBridge

Spec == Init /\ [][Next]_vars

(* A thread inside post_event or dispatch_pending keeps running, and the   *)
(* event loop calls dispatch while the descriptor is readable.  Nothing    *)
(* obliges a producer to post or the collector to finalise the object.     *)
FairSpec ==
  /\ Spec
  /\ \A p \in Producers : WF_vars(ProducerStep(p))
  /\ WF_vars(ConsumerStep)

-----------------------------------------------------------------------------
(* The ring never holds more than Capacity published events, although the  *)
(* producer tests a tail and a head it read at different moments and both  *)
(* indices wrap.                                                           *)
OccupancyBounded == Dist(head, tail) <= Capacity

(* The plain, non-atomic copy of a slot on the interpreter thread never    *)
(* overlaps the plain write of the same slot by a producer: this is what   *)
(* the acquire/release pairs and the order "copy, then store head" give.   *)
NoSlotRace ==
  \A p \in Producers :
    ppc[p] = "write" /\ cpc = "copy" => Slot(ptail[p]) # Slot(head)

(* While the interpreter thread is outside dispatch and an event is        *)
(* published, the descriptor is readable or the producer is about to make  *)
(* it so: draining after clearing the counter loses no wake-up.            *)
NoLostWakeup ==
  Live /\ cpc = "idle" /\ head # tail
    => signal > 0 \/ \E p \in Producers : ppc[p] = "wake"

(* the events between head and tail, oldest first *)
Published ==
  [i \in 1 .. Dist(head, tail) |-> ring[Slot(Plus(head, i - 1))]]

Channel == INSTANCE EventChannel WITH
  queue    <- Published,
  inflight <- IF cpc = "call" THEN cev ELSE NoEvent,
  open     <- phase # "freed"

(* The bridge is a bounded FIFO channel: a successful post appends exactly *)
(* its event, events leave in order, and none is duplicated or dropped.    *)
ChannelSafe == Channel!Spec

(* A post that publishes adds exactly its own event behind the ones that   *)
(* were already there.                                                     *)
PublishAppends ==
  [][\A p \in Producers :
       ppc[p] = "publish" /\ ppc'[p] = "wake"
         => Published' = Append(Published, pev[p])]_vars

(* A published event is eventually taken, unless the bridge is destroyed.  *)
EventuallyTaken ==
  \A i \in Index : (head = i /\ tail # i) ~> (head # i \/ ~Live)
=============================================================================
