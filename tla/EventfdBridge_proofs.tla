------------------------ MODULE EventfdBridge_proofs ------------------------
(***************************************************************************)
(* Proofs about EventfdBridge for every capacity, index width and eventfd  *)
(* range.                                                                  *)
(***************************************************************************)
EXTENDS EventfdBridge, Integers, SequenceTheorems, TLAPS

USE CapacityAssumption, LapsAssumption, MaxSignalAssumption,
    MaxDepthAssumption, NoEventAssumption

-----------------------------------------------------------------------------
(* The index space is at least two trips round the ring, so one more than  *)
(* Capacity indices can be told apart.                                     *)
LEMMA IndexSpaceFacts ==
  /\ IndexSpace \in Nat
  /\ IndexSpace > Capacity
  /\ IndexSpace % Capacity = 0
<1>1. IndexSpace \in Nat /\ IndexSpace >= 2 * Capacity
  BY DEF IndexSpace
<1>2. IndexSpace % Capacity = 0
  BY DEF IndexSpace
<1> QED
  BY <1>1, <1>2

LEMMA SlotType == \A i \in Nat : Slot(i) \in 0 .. Capacity - 1
  BY DEF Slot

(* An index is a number of whole trips round the ring plus its slot. *)
LEMMA TripsAndSlot ==
  ASSUME NEW i \in Nat
  PROVE  /\ i \div Capacity \in Nat
         /\ i = (i \div Capacity) * Capacity + Slot(i)
  BY DEF Slot

(* A multiple of Capacity is not strictly between 0 and Capacity. *)
LEMMA NoMultipleBetween ==
  ASSUME NEW k \in Int, 0 < k * Capacity
  PROVE  k * Capacity >= Capacity
<1>1. k >= 1
  <2> SUFFICES ASSUME k <= 0  PROVE FALSE
    OBVIOUS
  <2>1. k * Capacity <= 0
    OBVIOUS
  <2> QED
    BY <2>1
<1>2. k * Capacity = (k - 1) * Capacity + Capacity /\ (k - 1) * Capacity >= 0
  BY <1>1
<1> QED
  BY <1>2

(* Two indices less than Capacity apart, wrap-around included, fall into   *)
(* different slots.                                                        *)
LEMMA SlotsDiffer ==
  ASSUME NEW h \in Index, NEW t \in Index,
         h # t, Dist(h, t) < Capacity
  PROVE  Slot(h) # Slot(t)
<1> DEFINE a == h \div Capacity
           b == t \div Capacity
<1>1. h \in Nat /\ t \in Nat /\ h < IndexSpace
  BY IndexSpaceFacts DEF Index
<1>2. /\ a \in Nat /\ h = a * Capacity + Slot(h)
      /\ b \in Nat /\ t = b * Capacity + Slot(t)
  BY <1>1, TripsAndSlot
<1>3. Slot(h) \in Nat /\ Slot(t) \in Nat
  BY <1>1, SlotType
<1> HIDE DEF a, b
<1> SUFFICES ASSUME Slot(h) = Slot(t)  PROVE FALSE
  OBVIOUS
<1>4. CASE t >= h
  <2>1. (b - a) * Capacity = t - h
    BY <1>2, <1>3
  <2> QED
    BY <2>1, <1>1, <1>2, <1>4, NoMultipleBetween DEF Dist
<1>5. CASE t < h
  <2>1. (Laps + b - a) * Capacity = t + IndexSpace - h
    BY <1>2, <1>3 DEF IndexSpace
  <2> QED
    BY <2>1, <1>1, <1>2, <1>5, NoMultipleBetween, IndexSpaceFacts DEF Dist
<1> QED
  BY <1>1, <1>4, <1>5

(* The arithmetic of the wrapping indices. *)
LEMMA DistType ==
  ASSUME NEW h \in Index, NEW t \in Index
  PROVE  /\ Dist(h, t) \in 0 .. IndexSpace - 1
         /\ Dist(h, t) = 0 <=> h = t
  BY IndexSpaceFacts DEF Index, Dist

LEMMA PlusType ==
  ASSUME NEW h \in Index, NEW k \in 0 .. IndexSpace - 1
  PROVE  /\ Plus(h, k) \in Index
         /\ Dist(h, Plus(h, k)) = k
  BY IndexSpaceFacts DEF Index, Plus, Dist

LEMMA PlusDist ==
  ASSUME NEW h \in Index, NEW t \in Index
  PROVE  Plus(h, Dist(h, t)) = t
  BY IndexSpaceFacts DEF Index, Plus, Dist

LEMMA AdvanceTail ==
  ASSUME NEW h \in Index, NEW t \in Index, Dist(h, t) < Capacity
  PROVE  Dist(h, Plus(t, 1)) = Dist(h, t) + 1
  BY IndexSpaceFacts DEF Index, Plus, Dist

LEMMA AdvanceHead ==
  ASSUME NEW h \in Index, NEW t \in Index, h # t
  PROVE  Dist(Plus(h, 1), t) = Dist(h, t) - 1
  BY IndexSpaceFacts DEF Index, Plus, Dist

(* the k-th index after head lies Dist(head, tail) - k before tail *)
LEMMA DistFromWithin ==
  ASSUME NEW h \in Index, NEW t \in Index, NEW k \in 0 .. Dist(h, t)
  PROVE  Dist(Plus(h, k), t) = Dist(h, t) - k
  BY IndexSpaceFacts DEF Index, Plus, Dist

LEMMA PlusPlus ==
  ASSUME NEW h \in Index, NEW k \in 0 .. IndexSpace - 2
  PROVE  Plus(Plus(h, 1), k) = Plus(h, k + 1)
  BY IndexSpaceFacts DEF Index, Plus

-----------------------------------------------------------------------------
(* The contract of the header: one producer (quickjs_eventfd_bridge.h,     *)
(* "Single-Producer Single-Consumer Lock-Free Queue").                     *)
SingleProducer == \A p, q \in Producers : p = q

(* What a producer knows between its steps: the tail is still the one it   *)
(* read, and the free slot it found is still free.                         *)
ProducerInv ==
  \A p \in Producers :
    /\ ppc[p] \in {"check", "write", "publish"} => ptail[p] = tail
    /\ ppc[p] \in {"write", "publish"} => Dist(head, tail) < Capacity
    /\ ppc[p] # "idle" => pev[p] \in Events
    /\ ppc[p] = "publish" => ring[Slot(tail)] = pev[p]

(* What the interpreter thread knows: a slot it reads is published, and    *)
(* destroy never overtakes a dispatch.                                     *)
ConsumerInv ==
  /\ cpc \in {"copy", "release"} => head # tail
  /\ cpc = "release" => cev = ring[Slot(head)]
  /\ cpc = "call" => cev \in Events
  /\ ~Live => cpc = "idle"

DepthInv == cpc = "idle" <=> depth = 0

(* Every published slot has been written. *)
RingInv ==
  \A k \in 0 .. IndexSpace - 1 :
    k < Dist(head, tail) => ring[Slot(Plus(head, k))] \in Events

IndInv ==
  /\ TypeOK
  /\ DepthInv
  /\ OccupancyBounded
  /\ ProducerInv
  /\ ConsumerInv
  /\ RingInv

-----------------------------------------------------------------------------
(* Every shared and local variable keeps its type, the indices staying     *)
(* inside the uint32 range however often they wrap, for any number of      *)
(* producers.                                                              *)
LEMMA InitType == Init => TypeOK /\ DepthInv
<1> SUFFICES ASSUME Init  PROVE TypeOK /\ DepthInv
  OBVIOUS
<1>1. head \in Index /\ tail \in Index /\ 0 \in Index
  BY IndexSpaceFacts DEF Init, Index
<1>2. fault \in BOOLEAN
  BY DEF Init
<1> QED
  BY <1>1, <1>2 DEF Init, TypeOK, DepthInv

LEMMA NextType == TypeOK /\ DepthInv /\ [Next]_vars => TypeOK' /\ DepthInv'
<1> SUFFICES ASSUME TypeOK, DepthInv, [Next]_vars
             PROVE  TypeOK' /\ DepthInv'
  OBVIOUS
<1> USE DEF TypeOK, DepthInv, shared, producer, consumer
<1>1. ASSUME NEW p \in Producers, NEW e \in Events, LoadTail(p, e)
      PROVE  TypeOK' /\ DepthInv'
  BY <1>1 DEF LoadTail
<1>2. ASSUME NEW p \in Producers, CheckSpace(p)
      PROVE  TypeOK' /\ DepthInv'
  BY <1>2 DEF CheckSpace
<1>3. ASSUME NEW p \in Producers, WriteSlot(p)
      PROVE  TypeOK' /\ DepthInv'
  <2>1. Slot(ptail[p]) \in 0 .. Capacity - 1
    BY SlotType, IndexSpaceFacts DEF Index
  <2> QED
    BY <1>3, <2>1 DEF WriteSlot
<1>4. ASSUME NEW p \in Producers, Publish(p)
      PROVE  TypeOK' /\ DepthInv'
  BY <1>4, PlusType, IndexSpaceFacts DEF Publish
<1>5. ASSUME NEW p \in Producers, Wake(p)
      PROVE  TypeOK' /\ DepthInv'
  BY <1>5 DEF Wake
<1>6. ASSUME NEW p \in Producers, UseAfterFree(p)
      PROVE  TypeOK' /\ DepthInv'
  BY <1>6 DEF UseAfterFree
<1>7. CASE Dispatch
  BY <1>7 DEF Dispatch
<1>8. CASE LoadIndices
  BY <1>8 DEF LoadIndices
<1>9. CASE CopySlot
  <2>1. Slot(head) \in 0 .. Capacity - 1
    BY SlotType, IndexSpaceFacts DEF Index
  <2> QED
    BY <1>9, <2>1 DEF CopySlot
<1>10. CASE ReleaseSlot
  BY <1>10, PlusType, IndexSpaceFacts DEF ReleaseSlot
<1>11. CASE CallCallback \/ CallbackReturns
  BY <1>11 DEF CallCallback, CallbackReturns
<1>12. CASE StopRunning \/ CloseEventfd \/ FreeBridge
  BY <1>12 DEF StopRunning, CloseEventfd, FreeBridge
<1>13. CASE UNCHANGED vars
  BY <1>13 DEF vars
<1> QED
  BY <1>1, <1>2, <1>3, <1>4, <1>5, <1>6, <1>7, <1>8, <1>9, <1>10, <1>11,
     <1>12, <1>13 DEF Next, ProducerStep, ConsumerStep

THEOREM TypeCorrect == Spec => []TypeOK
<1>1. Spec => [](TypeOK /\ DepthInv)
  BY InitType, NextType, PTL DEF Spec
<1> QED
  BY <1>1, PTL

-----------------------------------------------------------------------------
(* No wake-up is lost, whatever the number of producers: eventfd_bridge_   *)
(* post_event signals after it publishes, and dispatch clears the signal   *)
(* before it looks at the ring.                                            *)
LEMMA NextWakeup ==
  TypeOK /\ DepthInv /\ NoLostWakeup /\ [Next]_vars => NoLostWakeup'
<1> SUFFICES ASSUME TypeOK, DepthInv, NoLostWakeup, [Next]_vars
             PROVE  NoLostWakeup'
  OBVIOUS
<1> USE DEF NoLostWakeup, Live, shared, producer, consumer
<1>1. ASSUME NEW p \in Producers, NEW e \in Events, LoadTail(p, e)
      PROVE  NoLostWakeup'
  BY <1>1 DEF LoadTail, TypeOK
<1>2. ASSUME NEW p \in Producers, CheckSpace(p) \/ WriteSlot(p)
      PROVE  NoLostWakeup'
  BY <1>2 DEF CheckSpace, WriteSlot, TypeOK
<1>3. ASSUME NEW p \in Producers, Publish(p)
      PROVE  NoLostWakeup'
  <2>1. ppc'[p] = "wake"
    BY <1>3 DEF Publish, TypeOK
  <2> QED
    BY <2>1
<1>4. ASSUME NEW p \in Producers, Wake(p)
      PROVE  NoLostWakeup'
  <2>1. CASE phase = "closed"
    BY <1>4, <2>1 DEF Wake
  <2>2. CASE phase # "closed"
    <3>1. signal' > 0
      BY <1>4, <2>2 DEF Wake, TypeOK
    <3> QED
      BY <3>1
  <2> QED
    BY <2>1, <2>2
<1>5. ASSUME NEW p \in Producers, UseAfterFree(p)
      PROVE  NoLostWakeup'
  BY <1>5 DEF UseAfterFree
<1>6. CASE Dispatch
  BY <1>6 DEF Dispatch
<1>7. CASE LoadIndices
  BY <1>7 DEF LoadIndices, DepthInv
<1>8. CASE CopySlot \/ ReleaseSlot \/ CallCallback \/ CallbackReturns
  BY <1>8 DEF CopySlot, ReleaseSlot, CallCallback, CallbackReturns
<1>9. CASE StopRunning \/ CloseEventfd \/ FreeBridge
  BY <1>9 DEF StopRunning, CloseEventfd, FreeBridge
<1>10. CASE UNCHANGED vars
  BY <1>10 DEF vars
<1> QED
  BY <1>1, <1>2, <1>3, <1>4, <1>5, <1>6, <1>7, <1>8, <1>9, <1>10
     DEF Next, ProducerStep, ConsumerStep

THEOREM WakeupSafe == Spec => []NoLostWakeup
<1>1. Init => NoLostWakeup
  BY DEF Init, NoLostWakeup
<1> QED
  BY <1>1, InitType, NextType, NextWakeup, PTL DEF Spec

-----------------------------------------------------------------------------
(* With a single producer the ring discipline is inductive.                *)
LEMMA InitInd == Init => IndInv
<1> SUFFICES ASSUME Init  PROVE IndInv
  OBVIOUS
<1>1. 0 \in Index /\ Dist(head, tail) = 0
  BY IndexSpaceFacts DEF Init, Index, Dist
<1>2. OccupancyBounded /\ RingInv
  BY <1>1 DEF OccupancyBounded, RingInv
<1>3. ProducerInv /\ ConsumerInv
  BY DEF Init, ProducerInv, ConsumerInv, Live
<1> QED
  BY <1>2, <1>3, InitType DEF IndInv

(* The part of the invariant that speaks of the ring and both indices is   *)
(* not disturbed by a step that leaves those three alone.                  *)
LEMMA RingUntouched ==
  ASSUME OccupancyBounded, RingInv, UNCHANGED <<head, tail, ring>>
  PROVE  OccupancyBounded' /\ RingInv'
  BY DEF OccupancyBounded, RingInv

(* The slot the producer fills is none of the published ones. *)
LEMMA FreeSlot ==
  ASSUME TypeOK, Dist(head, tail) < Capacity,
         NEW k \in 0 .. IndexSpace - 1, k < Dist(head, tail)
  PROVE  Slot(Plus(head, k)) # Slot(tail)
<1>1. Plus(head, k) \in Index /\ head \in Index /\ tail \in Index
  BY PlusType DEF TypeOK
<1>2. Dist(Plus(head, k), tail) = Dist(head, tail) - k
  BY <1>1, DistFromWithin, DistType
<1>3. Dist(Plus(head, k), tail) # 0 /\ Dist(Plus(head, k), tail) < Capacity
  BY <1>1, <1>2, DistType
<1> QED
  BY <1>1, <1>3, DistType, SlotsDiffer

LEMMA StepWriteSlot ==
  ASSUME IndInv, SingleProducer, NEW p \in Producers, WriteSlot(p)
  PROVE  OccupancyBounded' /\ ProducerInv' /\ ConsumerInv' /\ RingInv'
<1> USE DEF IndInv, producer, consumer
<1>1. ptail[p] = tail /\ Dist(head, tail) < Capacity /\ pev[p] \in Events
  BY DEF WriteSlot, ProducerInv
<1>2. head \in Index /\ tail \in Index
  BY DEF TypeOK
<1>3. ring' = [ring EXCEPT ![Slot(tail)] = pev[p]]
  BY <1>1 DEF WriteSlot
<1>4. Slot(tail) \in 0 .. Capacity - 1
  BY <1>2, SlotType, IndexSpaceFacts DEF Index
<1>5. OccupancyBounded'
  BY DEF WriteSlot, OccupancyBounded
<1>6. ProducerInv'
  <2> SUFFICES ASSUME NEW q \in Producers
               PROVE  /\ ppc'[q] \in {"check", "write", "publish"}
                           => ptail'[q] = tail'
                      /\ ppc'[q] \in {"write", "publish"}
                           => Dist(head', tail') < Capacity
                      /\ ppc'[q] # "idle" => pev'[q] \in Events
                      /\ ppc'[q] = "publish" => ring'[Slot(tail')] = pev'[q]
    BY DEF ProducerInv
  <2>1. q = p
    BY DEF SingleProducer
  <2> QED
    BY <2>1, <1>1, <1>3, <1>4 DEF WriteSlot, TypeOK
<1>7. head # tail => Slot(head) # Slot(tail)
  BY <1>1, <1>2, SlotsDiffer
<1>8. Slot(head) \in 0 .. Capacity - 1
  BY <1>2, SlotType, IndexSpaceFacts DEF Index
<1>9. head # tail => ring'[Slot(head)] = ring[Slot(head)]
  BY <1>3, <1>7, <1>8 DEF TypeOK
<1>10. ConsumerInv'
  BY <1>9 DEF WriteSlot, ConsumerInv, Live
<1>11. RingInv'
  <2> SUFFICES ASSUME NEW k \in 0 .. IndexSpace - 1, k < Dist(head, tail)
               PROVE  ring'[Slot(Plus(head, k))] \in Events
    BY DEF RingInv, WriteSlot
  <2>1. Slot(Plus(head, k)) # Slot(tail)
    BY <1>1, FreeSlot
  <2>2. Plus(head, k) \in Index
    BY <1>2, PlusType
  <2>3. Slot(Plus(head, k)) \in 0 .. Capacity - 1
    BY <2>2, SlotType, IndexSpaceFacts DEF Index
  <2> QED
    BY <1>3, <2>1, <2>3 DEF RingInv, TypeOK
<1> QED
  BY <1>5, <1>6, <1>10, <1>11

LEMMA StepPublish ==
  ASSUME IndInv, SingleProducer, NEW p \in Producers, Publish(p)
  PROVE  OccupancyBounded' /\ ProducerInv' /\ ConsumerInv' /\ RingInv'
<1> USE DEF IndInv, producer, consumer
<1>1. /\ ptail[p] = tail /\ Dist(head, tail) < Capacity
      /\ pev[p] \in Events /\ ring[Slot(tail)] = pev[p]
  BY DEF Publish, ProducerInv
<1>2. head \in Index /\ tail \in Index
  BY DEF TypeOK
<1>3. tail' = Plus(tail, 1) /\ Dist(head, tail') = Dist(head, tail) + 1
  BY <1>1, <1>2, AdvanceTail DEF Publish
<1>4. OccupancyBounded'
  BY <1>1, <1>2, <1>3, DistType DEF Publish, OccupancyBounded
<1>5. ProducerInv'
  <2>1. \A q \in Producers : q = p
    BY DEF SingleProducer
  <2> QED
    BY <2>1, <1>1 DEF Publish, ProducerInv, TypeOK
<1>6. ConsumerInv'
  <2>1. head' # tail'
    BY <1>2, <1>3, DistType, PlusType, IndexSpaceFacts DEF Publish
  <2> QED
    BY <2>1 DEF Publish, ConsumerInv, Live
<1>7. RingInv'
  <2> SUFFICES ASSUME NEW k \in 0 .. IndexSpace - 1, k < Dist(head, tail) + 1
               PROVE  ring[Slot(Plus(head, k))] \in Events
    BY <1>3 DEF RingInv, Publish
  <2>1. CASE k < Dist(head, tail)
    BY <2>1 DEF RingInv
  <2>2. CASE k = Dist(head, tail)
    BY <2>2, <1>1, <1>2, PlusDist
  <2> QED
    BY <2>1, <2>2, <1>2, DistType
<1> QED
  BY <1>4, <1>5, <1>6, <1>7

LEMMA StepReleaseSlot ==
  ASSUME IndInv, ReleaseSlot
  PROVE  OccupancyBounded' /\ ProducerInv' /\ ConsumerInv' /\ RingInv'
<1> USE DEF IndInv, producer, consumer
<1>1. head \in Index /\ tail \in Index /\ head # tail
  BY DEF TypeOK, ReleaseSlot, ConsumerInv
<1>2. Dist(head, tail) \in 1 .. IndexSpace - 1
  BY <1>1, DistType
<1>3. Dist(head', tail) = Dist(head, tail) - 1
  BY <1>1, AdvanceHead DEF ReleaseSlot
<1>4. OccupancyBounded'
  BY <1>2, <1>3 DEF ReleaseSlot, OccupancyBounded
<1>5. ProducerInv'
  BY <1>2, <1>3 DEF ReleaseSlot, ProducerInv
<1>6. ring[Slot(head)] \in Events
  <2>1. Plus(head, 0) = head
    BY <1>1, IndexSpaceFacts DEF Plus, Index
  <2> QED
    BY <2>1, <1>2, IndexSpaceFacts DEF RingInv
<1>7. ConsumerInv'
  BY <1>6 DEF ReleaseSlot, ConsumerInv, Live
<1>8. RingInv'
  <2> SUFFICES ASSUME NEW k \in 0 .. IndexSpace - 1, k < Dist(head, tail) - 1
               PROVE  ring[Slot(Plus(Plus(head, 1), k))] \in Events
    BY <1>3 DEF RingInv, ReleaseSlot
  <2>1. Plus(Plus(head, 1), k) = Plus(head, k + 1)
    BY <1>1, <1>2, PlusPlus, IndexSpaceFacts
  <2> QED
    BY <2>1, <1>2, IndexSpaceFacts DEF RingInv
<1> QED
  BY <1>4, <1>5, <1>7, <1>8

LEMMA NextInd == IndInv /\ SingleProducer /\ [Next]_vars => IndInv'
<1> SUFFICES ASSUME IndInv, SingleProducer, [Next]_vars
             PROVE  OccupancyBounded' /\ ProducerInv' /\ ConsumerInv' /\ RingInv'
  BY NextType DEF IndInv
<1> USE DEF shared, producer, consumer
<1>1. ASSUME NEW p \in Producers, NEW e \in Events, LoadTail(p, e)
      PROVE  ProducerInv' /\ ConsumerInv' /\ UNCHANGED <<head, tail, ring>>
  <2>1. UNCHANGED <<head, tail, ring>> /\ ConsumerInv'
    BY <1>1 DEF LoadTail, IndInv, ConsumerInv, Live
  <2>2. ProducerInv'
    BY <1>1 DEF LoadTail, IndInv, ProducerInv, TypeOK
  <2> QED
    BY <2>1, <2>2
<1>2. ASSUME NEW p \in Producers, CheckSpace(p)
      PROVE  ProducerInv' /\ ConsumerInv' /\ UNCHANGED <<head, tail, ring>>
  <2>1. UNCHANGED <<head, tail, ring>> /\ ConsumerInv'
    BY <1>2 DEF CheckSpace, IndInv, ConsumerInv, Live
  <2>2. ptail[p] = tail /\ (~IsFull(p) => Dist(head, tail) < Capacity)
    BY <1>2, DistType DEF CheckSpace, IsFull, IndInv, ProducerInv, TypeOK, Index
  <2>3. ProducerInv'
    BY <1>2, <2>2 DEF CheckSpace, IndInv, ProducerInv, TypeOK
  <2> QED
    BY <2>1, <2>3
<1>3. ASSUME NEW p \in Producers, Wake(p)
      PROVE  ProducerInv' /\ ConsumerInv' /\ UNCHANGED <<head, tail, ring>>
  BY <1>3 DEF Wake, IndInv, ProducerInv, ConsumerInv, Live, TypeOK
<1>4. ASSUME NEW p \in Producers, UseAfterFree(p)
      PROVE  ProducerInv' /\ ConsumerInv' /\ UNCHANGED <<head, tail, ring>>
  BY <1>4 DEF UseAfterFree, IndInv, ProducerInv, ConsumerInv, Live
<1>5. CASE Dispatch \/ LoadIndices \/ CopySlot \/ CallCallback \/ CallbackReturns
  <2>1. UNCHANGED <<head, tail, ring>> /\ ProducerInv'
    BY <1>5 DEF Dispatch, LoadIndices, CopySlot, CallCallback, CallbackReturns,
                IndInv, ProducerInv
  <2>2. ConsumerInv'
    BY <1>5 DEF Dispatch, LoadIndices, CopySlot, CallCallback, CallbackReturns,
                IndInv, ConsumerInv, Live
  <2> QED
    BY <1>5, <2>1, <2>2, RingUntouched DEF IndInv
<1>6. CASE StopRunning \/ CloseEventfd \/ FreeBridge
  <2>1. UNCHANGED <<head, tail, ring>> /\ ProducerInv' /\ ConsumerInv'
    BY <1>6 DEF StopRunning, CloseEventfd, FreeBridge,
                IndInv, ProducerInv, ConsumerInv, Live
  <2> QED
    BY <2>1, RingUntouched DEF IndInv
<1>7. CASE UNCHANGED vars
  BY <1>7 DEF vars, IndInv, OccupancyBounded, ProducerInv, ConsumerInv, RingInv,
              Live
<1> QED
  BY <1>1, <1>2, <1>3, <1>4, <1>5, <1>6, <1>7, RingUntouched,
     StepWriteSlot, StepPublish, StepReleaseSlot
     DEF IndInv, Next, ProducerStep, ConsumerStep

LEMMA Invariance == ASSUME SingleProducer PROVE Spec => []IndInv
  BY InitInd, NextInd, PTL DEF Spec

(* The ring of one producer never holds more than Capacity events: the     *)
(* backpressure test of eventfd_bridge_post_event is enough although head  *)
(* moves after it was read.                                                *)
THEOREM OccupancyCorrect ==
  ASSUME SingleProducer PROVE Spec => []OccupancyBounded
<1>1. IndInv => OccupancyBounded
  BY DEF IndInv
<1> QED
  BY <1>1, Invariance, PTL

(* The plain accesses of one producer and of the interpreter thread to a   *)
(* slot never overlap.                                                     *)
THEOREM SlotRaceFree ==
  ASSUME SingleProducer PROVE Spec => []NoSlotRace
<1>1. IndInv => NoSlotRace
  BY SlotsDiffer DEF IndInv, NoSlotRace, ProducerInv, ConsumerInv, TypeOK
<1> QED
  BY <1>1, Invariance, PTL

-----------------------------------------------------------------------------
(* The bridge with one producer implements the FIFO channel.               *)

(* what the refinement mapping's queue is made of *)
PublishedShape ==
  /\ Published \in Seq(Events)
  /\ Len(Published) = Dist(head, tail)
  /\ Dist(head, tail) \in Nat
  /\ \A i \in 1 .. Dist(head, tail) :
        Published[i] = ring[Slot(Plus(head, i - 1))]

LEMMA PublishedFacts == IndInv => PublishedShape
<1> SUFFICES ASSUME IndInv  PROVE PublishedShape
  OBVIOUS
<1>1. Dist(head, tail) \in 0 .. IndexSpace - 1
  BY DistType DEF IndInv, TypeOK
<1>2. \A i \in 1 .. Dist(head, tail) : ring[Slot(Plus(head, i - 1))] \in Events
  BY <1>1, IndexSpaceFacts DEF IndInv, RingInv
<1> QED
  BY <1>1, <1>2, IndexSpaceFacts DEF Published, PublishedShape

LEMMA PublishedFactsNext == IndInv' => PublishedShape'
  BY PublishedFacts, PTL

(* storing the tail appends the event the producer wrote *)
LEMMA PublishPosts ==
  ASSUME IndInv, IndInv', NEW p \in Producers, Publish(p)
  PROVE  pev[p] \in Events /\ Channel!Post(pev[p])
<1> USE DEF producer, consumer
<1>1. /\ ptail[p] = tail /\ Dist(head, tail) < Capacity
      /\ pev[p] \in Events /\ ring[Slot(tail)] = pev[p]
  BY DEF Publish, IndInv, ProducerInv
<1>2. head \in Index /\ tail \in Index
  BY DEF IndInv, TypeOK
<1>3. Dist(head, tail') = Dist(head, tail) + 1
  BY <1>1, <1>2, AdvanceTail DEF Publish
<1>4. UNCHANGED <<head, ring, cpc, cev, phase>> /\ phase # "freed"
  BY DEF Publish
<1>5. /\ Append(Published, pev[p]) \in Seq(Events)
      /\ Len(Append(Published, pev[p])) = Dist(head, tail) + 1
      /\ \A i \in 1 .. Dist(head, tail) :
            Append(Published, pev[p])[i] = Published[i]
      /\ Append(Published, pev[p])[Dist(head, tail) + 1] = pev[p]
  BY <1>1, PublishedFacts DEF PublishedShape
<1>6. /\ Published' \in Seq(Events)
      /\ Len(Published') = Dist(head, tail) + 1
      /\ \A i \in 1 .. Dist(head, tail) + 1 :
            Published'[i] = ring[Slot(Plus(head, i - 1))]
  BY <1>3, <1>4, PublishedFactsNext DEF PublishedShape
<1>7. Published'[Dist(head, tail) + 1] = pev[p]
  BY <1>1, <1>2, <1>6, PlusDist, PublishedFacts DEF PublishedShape
<1>8. Published' = Append(Published, pev[p])
  <2>1. \A i \in 1 .. Dist(head, tail) + 1 :
           Published'[i] = Append(Published, pev[p])[i]
    <3> TAKE i \in 1 .. Dist(head, tail) + 1
    <3>1. CASE i \in 1 .. Dist(head, tail)
      BY <3>1, <1>5, <1>6, PublishedFacts DEF PublishedShape
    <3>2. CASE i = Dist(head, tail) + 1
      BY <3>2, <1>5, <1>7
    <3> QED
      BY <3>1, <3>2, PublishedFacts DEF PublishedShape
  <2> QED
    BY <2>1, <1>5, <1>6, SeqEqual
<1>9. Len(Published) < Capacity
  BY <1>1, PublishedFacts DEF PublishedShape
<1> QED
  BY <1>1, <1>4, <1>8, <1>9 DEF Channel!Post

(* storing the head takes the oldest event *)
LEMMA ReleaseTakes ==
  ASSUME IndInv, IndInv', ReleaseSlot
  PROVE  Channel!Take
<1> USE DEF producer, consumer
<1>1. head \in Index /\ tail \in Index /\ head # tail
  BY DEF ReleaseSlot, IndInv, ConsumerInv, TypeOK
<1>2. /\ cev = ring[Slot(head)] /\ cpc = "release" /\ cpc' = "call"
      /\ phase # "freed" /\ UNCHANGED <<tail, ring, cev, phase>>
  BY DEF ReleaseSlot, IndInv, ConsumerInv, Live
<1>3. /\ Dist(head, tail) \in 1 .. IndexSpace - 1
      /\ Dist(head', tail) = Dist(head, tail) - 1
  BY <1>1, AdvanceHead, DistType DEF ReleaseSlot
<1>4. Published # <<>>
  BY <1>3, PublishedFacts, EmptySeq DEF PublishedShape
<1>5. /\ Tail(Published) \in Seq(Events)
      /\ Len(Tail(Published)) = Dist(head, tail) - 1
      /\ \A i \in 1 .. Dist(head, tail) - 1 :
            Tail(Published)[i] = Published[i + 1]
  BY <1>4, PublishedFacts, HeadTailProperties DEF PublishedShape
<1>6. /\ Published' \in Seq(Events)
      /\ Len(Published') = Dist(head, tail) - 1
      /\ \A i \in 1 .. Dist(head, tail) - 1 :
            Published'[i] = ring[Slot(Plus(head', i - 1))]
  BY <1>2, <1>3, PublishedFactsNext DEF PublishedShape
<1>7. \A i \in 1 .. Dist(head, tail) - 1 : Published'[i] = Published[i + 1]
  <2> TAKE i \in 1 .. Dist(head, tail) - 1
  <2>1. Plus(head', i - 1) = Plus(head, i)
    BY <1>1, <1>3, PlusPlus, IndexSpaceFacts DEF ReleaseSlot
  <2>2. i + 1 \in 1 .. Dist(head, tail) /\ (i + 1) - 1 = i
    BY <1>3
  <2>3. Published[i + 1] = ring[Slot(Plus(head, (i + 1) - 1))]
    BY <2>2, PublishedFacts DEF PublishedShape
  <2> QED
    BY <2>1, <2>2, <2>3, <1>6
<1>8. Published' = Tail(Published)
  BY <1>5, <1>6, <1>7, SeqEqual
<1>9. Head(Published) = cev
  <2>1. Plus(head, 0) = head
    BY <1>1, IndexSpaceFacts DEF Plus, Index
  <2>2. Published[1] = ring[Slot(Plus(head, 1 - 1))]
    BY <1>3, PublishedFacts DEF PublishedShape
  <2> QED
    BY <1>2, <2>1, <2>2
<1> QED
  BY <1>2, <1>4, <1>8, <1>9 DEF Channel!Take

(* filling the free slot changes no published event *)
LEMMA WriteHidden ==
  ASSUME IndInv, IndInv', NEW p \in Producers, WriteSlot(p)
  PROVE  UNCHANGED Channel!cvars
<1> USE DEF producer, consumer
<1>1. ptail[p] = tail /\ Dist(head, tail) < Capacity
  BY DEF WriteSlot, IndInv, ProducerInv
<1>2. ring' = [ring EXCEPT ![Slot(tail)] = pev[p]]
  BY <1>1 DEF WriteSlot
<1>3. UNCHANGED <<head, tail, phase, cpc, cev>>
  BY DEF WriteSlot
<1>4. head \in Index /\ Dist(head, tail) \in 0 .. IndexSpace - 1
  BY DistType DEF IndInv, TypeOK
<1>5. \A i \in 1 .. Dist(head, tail) :
         ring'[Slot(Plus(head, i - 1))] = ring[Slot(Plus(head, i - 1))]
  <2> TAKE i \in 1 .. Dist(head, tail)
  <2>1. i - 1 \in 0 .. IndexSpace - 1 /\ i - 1 < Dist(head, tail)
    BY <1>4, IndexSpaceFacts
  <2>2. Slot(Plus(head, i - 1)) # Slot(tail)
    BY <1>1, <2>1, FreeSlot DEF IndInv
  <2>3. Slot(Plus(head, i - 1)) \in 0 .. Capacity - 1
    BY <1>4, <2>1, PlusType, SlotType, IndexSpaceFacts DEF Index
  <2> QED
    BY <1>2, <2>2, <2>3 DEF IndInv, TypeOK
<1>6. Published' = Published
  <2>1. Dist(head, tail)' = Dist(head, tail)
    BY <1>3
  <2>2. \A i \in 1 .. Dist(head, tail) : Published'[i] = Published[i]
    BY <1>3, <1>5, <2>1, PublishedFacts, PublishedFactsNext DEF PublishedShape
  <2> QED
    BY <2>1, <2>2, PublishedFacts, PublishedFactsNext, SeqEqual
       DEF PublishedShape
<1> QED
  BY <1>3, <1>6 DEF Channel!cvars

LEMMA StepRefines ==
  ASSUME IndInv, IndInv', [Next]_vars
  PROVE  [Channel!Next]_(Channel!cvars)
<1> USE DEF producer, consumer, shared, Channel!cvars
<1>1. ASSUME NEW p \in Producers, NEW e \in Events, LoadTail(p, e)
      PROVE  UNCHANGED Channel!cvars
  BY <1>1 DEF LoadTail, Published
<1>2. ASSUME NEW p \in Producers,
             CheckSpace(p) \/ Wake(p) \/ UseAfterFree(p)
      PROVE  UNCHANGED Channel!cvars
  BY <1>2 DEF CheckSpace, Wake, UseAfterFree, Published
<1>3. CASE Dispatch \/ LoadIndices \/ CopySlot \/ CallbackReturns
  BY <1>3 DEF Dispatch, LoadIndices, CopySlot, CallbackReturns, Published
<1>4. CASE CallCallback
  <2>1. cev # NoEvent /\ phase # "freed"
    BY <1>4 DEF CallCallback, IndInv, ConsumerInv, Live
  <2>2. Channel!HandOver
    BY <1>4, <2>1 DEF CallCallback, Channel!HandOver, Published
  <2> QED
    BY <2>2 DEF Channel!Next
<1>5. CASE StopRunning \/ CloseEventfd
  BY <1>5 DEF StopRunning, CloseEventfd, Published, Live
<1>6. CASE FreeBridge
  <2>1. cpc = "idle"
    BY <1>6 DEF FreeBridge, IndInv, ConsumerInv, Live
  <2>2. Channel!Close
    BY <1>6, <2>1 DEF FreeBridge, Channel!Close, Published
  <2> QED
    BY <2>2 DEF Channel!Next
<1>7. ASSUME NEW p \in Producers, Publish(p)
      PROVE  Channel!Next
  BY <1>7, PublishPosts DEF Channel!Next
<1>8. CASE ReleaseSlot
  BY <1>8, ReleaseTakes DEF Channel!Next
<1>9. CASE UNCHANGED vars
  BY <1>9 DEF vars, Published
<1> QED
  BY <1>1, <1>2, <1>3, <1>4, <1>5, <1>6, <1>7, <1>8, <1>9, WriteHidden
     DEF Next, ProducerStep, ConsumerStep

LEMMA InitRefines == Init => Channel!Init
<1> SUFFICES ASSUME Init  PROVE Channel!Init
  OBVIOUS
<1>1. Dist(head, tail) = 0
  BY DEF Init, Dist
<1>2. Len(Published) = 0 /\ Published \in Seq(Events)
  BY <1>1, InitInd, PublishedFacts DEF PublishedShape
<1>3. Published = <<>>
  BY <1>2, EmptySeq
<1> QED
  BY <1>3 DEF Init, Channel!Init

(* Every post that publishes appends exactly its event, events are taken   *)
(* in that order and handed to the callback one at a time, for every       *)
(* capacity, index width and depth of nested dispatches.                   *)
THEOREM BridgeIsChannel == ASSUME SingleProducer PROVE Spec => ChannelSafe
<1>1. Spec => []IndInv
  BY Invariance
<1> QED
  BY <1>1, StepRefines, InitRefines, PTL DEF Spec, ChannelSafe, Channel!Spec
=============================================================================
