----------------------- MODULE SensorStreaming_proofs -----------------------
(***************************************************************************)
(* Proofs about the two sides of sensor streaming: the daemon's table of   *)
(* clients (SensorsDaemon) for any number of clients and of entries, and   *)
(* the stream of one client (SensorStream) for a socket of any size and    *)
(* any number of frames.  Nothing in one is used for the other.            *)
(***************************************************************************)
EXTENDS SensorsDaemon, SensorStream, FiniteSetTheorems, SequenceTheorems, TLAPS

-----------------------------------------------------------------------------
(* the daemon's table *)

USE FreeAssumption, SlotsAssumption

(* Everything of the type invariant but the range of the count. *)
ShapeInv ==
  /\ alive \in BOOLEAN
  /\ streaming_clients \in [Slots -> Clients \cup {Free}]
  /\ sensing \in BOOLEAN
  /\ ready \in SUBSET Clients
  /\ events \in SUBSET Clients
  /\ conn \in [Clients -> {"none", "pending", "open", "closed"}]
  /\ inbox \in [Clients -> Seq({"start", "stop", "eof"})]
  /\ session \in [Clients -> {"none", "starting", "acked", "streaming", "stopping", "gone",
                           "killed"}]

(* epoll reports open connections only. *)
EpollInv == \A c \in ready \cup events : conn[c] = "open"

Unregistered(c) == \A i \in Slots : streaming_clients[i] # c

(* A client sends START once, as its first request, so a client whose      *)
(* START has not been read has no entry.                                   *)
RequestInv ==
  \A c \in Clients :
    /\ session[c] = "none" => inbox[c] = <<>> /\ Unregistered(c) /\ conn[c] = "none"
    /\ \A k \in 1 .. Len(inbox[c]) : inbox[c][k] = "start" => k = 1 /\ Unregistered(c)

IndInv ==
  /\ ShapeInv /\ EpollInv /\ RequestInv
  /\ CountMatchesEntries /\ EntriesAreOpen /\ SensingWhileRegistered

LEMMA EntriesFinite == IsFiniteSet(Entries) /\ Cardinality(Entries) \in 0 .. MaxSlots
<1>1. IsFiniteSet(Slots) /\ Cardinality(Slots) = MaxSlots
  BY FS_Interval DEF Slots
<1>2. Entries \subseteq Slots
  BY DEF Entries
<1>3. IsFiniteSet(Entries) /\ Cardinality(Entries) <= Cardinality(Slots)
  BY <1>1, <1>2, FS_Subset
<1> QED
  BY <1>1, <1>3, FS_CardinalityType

LEMMA InitInd == Init => IndInv
<1> SUFFICES ASSUME Init  PROVE IndInv
  OBVIOUS
<1>1. Entries = {}
  BY DEF Init, Entries
<1>2. ShapeInv
  <2>1. /\ inbox \in [Clients -> Seq({"start", "stop", "eof"})]
        /\ conn \in [Clients -> {"none", "pending", "open", "closed"}]
        /\ session \in [Clients -> {"none", "starting", "acked", "streaming", "stopping", "gone",
                           "killed"}]
    BY DEF Init
  <2>2. alive \in BOOLEAN /\ sensing \in BOOLEAN
    BY DEF Init
  <2>3. /\ streaming_clients \in [Slots -> Clients \cup {Free}]
        /\ ready \in SUBSET Clients /\ events \in SUBSET Clients
    BY DEF Init
  <2> QED
    BY <2>1, <2>2, <2>3 DEF ShapeInv
<1>3. CountMatchesEntries
  BY <1>1, FS_EmptySet DEF Init, CountMatchesEntries
<1>4. EntriesAreOpen /\ SensingWhileRegistered
  BY <1>1 DEF EntriesAreOpen, SensingWhileRegistered
<1>5. EpollInv /\ RequestInv
  BY DEF Init, EpollInv, RequestInv, Unregistered
<1> QED
  BY <1>2, <1>3, <1>4, <1>5 DEF IndInv

-----------------------------------------------------------------------------
(* What the two operations on the table do to the entries in use. *)

LEMMA AddEntry ==
  ASSUME IndInv, NEW c \in Clients, add_streaming_client(c), Unregistered(c)
  PROVE  /\ streaming_clients' \in [Slots -> Clients \cup {Free}]
         /\ CountMatchesEntries'
         /\ \A i \in Entries' : streaming_clients'[i] = c
                                  \/ (i \in Entries /\ streaming_clients'[i] = streaming_clients[i])
         /\ \A i, j \in Entries' : streaming_clients'[i] = streaming_clients'[j] => i = j
<1>1. CASE ~Holds(Free)
  BY <1>1 DEF add_streaming_client, IndInv, ShapeInv, CountMatchesEntries, Entries, EntriesAreOpen
<1>2. CASE Holds(Free)
  <2>1. PICK i \in Slots :
          /\ streaming_clients[i] = Free
          /\ streaming_clients' = [streaming_clients EXCEPT ![i] = c]
    BY <1>2 DEF add_streaming_client, First
  <2>2. Entries' = Entries \cup {i} /\ i \notin Entries
    BY <2>1 DEF Entries, IndInv, ShapeInv
  <2>3. Cardinality(Entries') = Cardinality(Entries) + 1
    BY <2>2, EntriesFinite, FS_AddElement
  <2>4. CountMatchesEntries'
    BY <1>2, <2>3 DEF add_streaming_client, IndInv, CountMatchesEntries
  <2>5. \A j \in Entries' : streaming_clients'[j] = c
                              \/ (j \in Entries /\ streaming_clients'[j] = streaming_clients[j])
    BY <2>1, <2>2 DEF IndInv, ShapeInv, Entries
  <2>6. \A j, k \in Entries' : streaming_clients'[j] = streaming_clients'[k] => j = k
    BY <2>1, <2>2 DEF IndInv, ShapeInv, EntriesAreOpen, Entries, Unregistered
  <2>7. streaming_clients' \in [Slots -> Clients \cup {Free}]
    BY <2>1 DEF IndInv, ShapeInv
  <2> QED
    BY <2>4, <2>5, <2>6, <2>7
<1> QED
  BY <1>1, <1>2

LEMMA RemoveEntry ==
  ASSUME IndInv, NEW c \in Clients, remove_streaming_client(c)
  PROVE  /\ streaming_clients' \in [Slots -> Clients \cup {Free}]
         /\ CountMatchesEntries'
         /\ \A i \in Entries' : /\ i \in Entries
                                /\ streaming_clients'[i] = streaming_clients[i]
                                /\ streaming_clients'[i] # c
<1>1. CASE ~Holds(c)
  BY <1>1 DEF remove_streaming_client, Holds, IndInv, ShapeInv, CountMatchesEntries, Entries
<1>2. CASE Holds(c)
  <2>1. PICK i \in Slots :
          /\ streaming_clients[i] = c
          /\ streaming_clients' = [streaming_clients EXCEPT ![i] = Free]
    BY <1>2 DEF remove_streaming_client, First
  <2>2. Entries' = Entries \ {i} /\ i \in Entries
    BY <2>1 DEF Entries, IndInv, ShapeInv
  <2>3. Cardinality(Entries') = Cardinality(Entries) - 1
    BY <2>2, EntriesFinite, FS_RemoveElement
  <2>4. CountMatchesEntries'
    BY <1>2, <2>3 DEF remove_streaming_client, IndInv, CountMatchesEntries
  <2>5. \A j \in Entries' : /\ j \in Entries
                            /\ streaming_clients'[j] = streaming_clients[j]
                            /\ streaming_clients'[j] # c
    BY <2>1, <2>2 DEF IndInv, ShapeInv, EntriesAreOpen, Entries
  <2>6. streaming_clients' \in [Slots -> Clients \cup {Free}]
    BY <2>1 DEF IndInv, ShapeInv
  <2> QED
    BY <2>4, <2>5, <2>6
<1> QED
  BY <1>1, <1>2

(* Steps that leave the table alone keep what depends on it. *)
LEMMA TableKept ==
  ASSUME IndInv, UNCHANGED table,
         \A c \in Clients : conn[c] = "open" => conn'[c] = "open"
  PROVE  /\ CountMatchesEntries' /\ EntriesAreOpen' /\ SensingWhileRegistered'
         /\ \A c \in Clients : Unregistered(c)' <=> Unregistered(c)
<1>1. Entries' = Entries
  BY DEF table, Entries
<1>2. CountMatchesEntries' /\ SensingWhileRegistered'
  BY <1>1 DEF table, IndInv, CountMatchesEntries, SensingWhileRegistered
<1>3. EntriesAreOpen'
  BY <1>1 DEF table, IndInv, EntriesAreOpen, ShapeInv, Entries
<1> QED
  BY <1>2, <1>3 DEF table, Unregistered

-----------------------------------------------------------------------------
(* An arrival keeps the shape of the requests: only the first is START. *)
LEMMA ArrivalInd ==
  ASSUME IndInv, NEW c \in Clients, NEW what \in {"start", "stop", "eof"},
         Arrives(c, what), what = "start" => inbox[c] = <<>> /\ Unregistered(c)
  PROVE  /\ inbox' \in [Clients -> Seq({"start", "stop", "eof"})]
         /\ ready' \in SUBSET Clients
         /\ \A d \in ready' : conn[d] = "open"
         /\ \A d \in Clients : d # c => inbox'[d] = inbox[d]
         /\ \A d \in Clients : \A k \in 1 .. Len(inbox'[d]) :
              inbox'[d][k] = "start" => k = 1 /\ Unregistered(d)
<1>1. inbox' = [inbox EXCEPT ![c] = Append(inbox[c], what)]
  BY DEF Arrives
<1>2. inbox[c] \in Seq({"start", "stop", "eof"})
  BY DEF IndInv, ShapeInv
<1>3. /\ inbox'[c] = Append(inbox[c], what)
      /\ \A d \in Clients : d # c => inbox'[d] = inbox[d]
      /\ inbox' \in [Clients -> Seq({"start", "stop", "eof"})]
  BY <1>1, <1>2 DEF IndInv, ShapeInv
<1>4. ready' \in SUBSET Clients /\ \A d \in ready' : conn[d] = "open"
  BY DEF Arrives, IndInv, ShapeInv, EpollInv
<1>5. \A k \in 1 .. Len(inbox'[c]) : inbox'[c][k] = "start" => k = 1 /\ Unregistered(c)
  BY <1>2, <1>3 DEF IndInv, RequestInv
<1>6. ASSUME NEW d \in Clients, NEW k \in 1 .. Len(inbox'[d]), inbox'[d][k] = "start"
      PROVE  k = 1 /\ Unregistered(d)
  BY <1>3, <1>5, <1>6 DEF IndInv, RequestInv
<1> QED
  BY <1>3, <1>4, <1>6

LEMMA ClientInd ==
  ASSUME IndInv, NEW c \in Clients, ClientStep(c)
  PROVE  IndInv'
<1>1. CASE Start(c)
  <2>1. inbox[c] = <<>> /\ Unregistered(c) /\ conn[c] = "none"
    BY <1>1 DEF Start, IndInv, RequestInv
  <2>2. /\ Arrives(c, "start") /\ UNCHANGED <<alive, table, events>>
        /\ session' = [session EXCEPT ![c] = "starting"]
        /\ conn' = [conn EXCEPT ![c] = "pending"]
    BY <1>1 DEF Start, Become
  <2>3. \A d \in Clients : conn[d] = "open" => conn'[d] = "open"
    BY <2>1, <2>2 DEF IndInv, ShapeInv
  <2>4. ShapeInv'
    BY <2>1, <2>2, ArrivalInd DEF IndInv, ShapeInv, table
  <2>5. EpollInv'
    BY <2>1, <2>2, <2>3, ArrivalInd DEF IndInv, ShapeInv, EpollInv
  <2>6. RequestInv'
    BY <2>1, <2>2, <2>3, ArrivalInd, TableKept DEF IndInv, ShapeInv, RequestInv
  <2> QED
    BY <2>2, <2>3, <2>4, <2>5, <2>6, TableKept DEF IndInv
<1>2. CASE Started(c)
  <2>1. ShapeInv' /\ EpollInv' /\ RequestInv'
    BY <1>2, TableKept DEF Started, Become, IndInv, ShapeInv, EpollInv, RequestInv, table, epoll
  <2> QED
    BY <1>2, <2>1, TableKept DEF Started, IndInv
<1>3. CASE Stop(c) \/ Close(c) \/ Killed(c)
  <2>1. PICK what \in {"stop", "eof"}, to \in {"stopping", "gone", "killed"} :
          /\ Arrives(c, what) /\ UNCHANGED <<alive, table, events, conn>>
          /\ session' = [session EXCEPT ![c] = to]
    BY <1>3 DEF Stop, Close, Killed, Become
  <2>2. ShapeInv' /\ EpollInv'
    BY <2>1, ArrivalInd DEF IndInv, ShapeInv, EpollInv, table
  <2>3. session[c] # "none"
    BY <1>3 DEF Stop, Close, Killed
  <2>4. RequestInv'
    BY <2>1, <2>3, ArrivalInd, TableKept DEF IndInv, ShapeInv, RequestInv
  <2> QED
    BY <2>1, <2>2, <2>4, TableKept DEF IndInv
<1> QED
  BY <1>1, <1>2, <1>3 DEF ClientStep

-----------------------------------------------------------------------------
(* The daemon's steps that leave the table alone. *)

LEMMA AcceptInd ==
  ASSUME IndInv, NEW c \in Clients, Accept(c)
  PROVE  IndInv'
<1>1. conn' = [conn EXCEPT ![c] = "open"] /\ UNCHANGED <<alive, table, events, inbox, session>>
  BY DEF Accept
<1>2. ready' \subseteq ready \cup {c}
  BY DEF Accept
<1>3. ShapeInv' /\ EpollInv'
  BY <1>1, <1>2 DEF IndInv, ShapeInv, EpollInv, table
<1>4. \A d \in Clients : conn[d] = "open" => conn'[d] = "open"
  BY <1>1 DEF IndInv, ShapeInv
<1>5. session[c] # "none"
  BY DEF Accept, IndInv, RequestInv
<1>6. RequestInv'
  BY <1>1, <1>4, <1>5, TableKept DEF IndInv, ShapeInv, RequestInv
<1> QED
  BY <1>1, <1>3, <1>4, <1>6, TableKept DEF IndInv

LEMMA WaitInd == IndInv /\ EpollWait => IndInv'
<1> SUFFICES ASSUME IndInv, EpollWait  PROVE IndInv'
  OBVIOUS
<1>1. ShapeInv' /\ EpollInv'
  BY DEF EpollWait, IndInv, ShapeInv, EpollInv, table
<1>2. RequestInv'
  BY TableKept DEF EpollWait, IndInv, RequestInv
<1> QED
  BY <1>1, <1>2, TableKept DEF EpollWait, IndInv

LEMMA BroadcastInd ==
  ASSUME IndInv, NEW i \in Slots, Broadcast(i)
  PROVE  IndInv'
<1>1. UNCHANGED <<table, epoll, conn, inbox, session>> /\ alive' \in BOOLEAN
  BY DEF Broadcast
<1>2. ShapeInv' /\ EpollInv'
  BY <1>1 DEF IndInv, ShapeInv, EpollInv, table, epoll
<1>3. RequestInv'
  BY <1>1, TableKept DEF IndInv, RequestInv
<1> QED
  BY <1>1, <1>2, <1>3, TableKept DEF IndInv

-----------------------------------------------------------------------------
(* Reading a request: what is left still has no second START. *)
LEMMA ReadInd ==
  ASSUME IndInv, NEW c \in Clients, inbox[c] # <<>>,
         inbox' = [inbox EXCEPT ![c] = Tail(@)]
  PROVE  /\ inbox' \in [Clients -> Seq({"start", "stop", "eof"})]
         /\ \A d \in Clients : d # c => inbox'[d] = inbox[d]
         /\ \A k \in 1 .. Len(inbox'[c]) : inbox'[c][k] # "start"
         /\ session[c] # "none"
<1>1. inbox[c] \in Seq({"start", "stop", "eof"})
  BY DEF IndInv, ShapeInv
<1>2. /\ inbox'[c] = Tail(inbox[c])
      /\ \A d \in Clients : d # c => inbox'[d] = inbox[d]
  BY DEF IndInv, ShapeInv
<1>3. inbox' \in [Clients -> Seq({"start", "stop", "eof"})]
  BY <1>1 DEF IndInv, ShapeInv
<1>4. ASSUME NEW k \in 1 .. Len(inbox'[c]), inbox'[c][k] = "start"
      PROVE  FALSE
  <2>1. k + 1 \in 1 .. Len(inbox[c]) /\ inbox[c][k + 1] = "start"
    <3>1. /\ Len(Tail(inbox[c])) = Len(inbox[c]) - 1
          /\ \A i \in 1 .. Len(Tail(inbox[c])) : Tail(inbox[c])[i] = inbox[c][i + 1]
      BY <1>1, HeadTailProperties
    <3>2. Len(inbox[c]) \in Nat
      BY <1>1
    <3>3. k \in 1 .. Len(Tail(inbox[c]))
      BY <1>2, <1>4
    <3>4. k + 1 \in 1 .. Len(inbox[c])
      BY <3>1, <3>2, <3>3
    <3> QED
      BY <1>2, <1>4, <3>1, <3>3, <3>4
  <2>2. k + 1 = 1
    BY <2>1 DEF IndInv, RequestInv
  <2> QED
    BY <2>2, <1>4
<1>5. session[c] # "none"
  BY DEF IndInv, RequestInv
<1> QED
  BY <1>2, <1>3, <1>4, <1>5

LEMMA StartRequestInd ==
  ASSUME IndInv, NEW c \in Clients, StartRequest(c)
  PROVE  IndInv'
<1>1. /\ conn[c] = "open" /\ events' = events \ {c}
      /\ inbox[c] # <<>> /\ inbox' = [inbox EXCEPT ![c] = Tail(@)]
      /\ UNCHANGED <<ready, conn>> /\ sensing' = TRUE
  BY DEF StartRequest, Handles, IndInv, EpollInv
<1>2. Unregistered(c)
  <2>1. inbox[c] \in Seq({"start", "stop", "eof"})
    BY DEF IndInv, ShapeInv
  <2>2. 1 \in 1 .. Len(inbox[c]) /\ inbox[c][1] = "start"
    BY <2>1 DEF StartRequest
  <2> QED
    BY <2>2 DEF IndInv, RequestInv
<1>3. add_streaming_client(c)
  BY DEF StartRequest
<1>4. PICK to \in {"acked"} \cup {session[c]} : session' = [session EXCEPT ![c] = to]
  BY DEF StartRequest, Become
<1>5. alive' \in BOOLEAN
  BY DEF StartRequest, Answer
<1>6. sensing' \in BOOLEAN
  BY <1>1
<1>7. ShapeInv'
  <2>1. session' \in [Clients -> {"none", "starting", "acked", "streaming", "stopping", "gone",
                           "killed"}]
    BY <1>4 DEF IndInv, ShapeInv
  <2>2. inbox' \in [Clients -> Seq({"start", "stop", "eof"})]
    BY <1>1, ReadInd
  <2>3. streaming_clients' \in [Slots -> Clients \cup {Free}]
    BY <1>2, <1>3, AddEntry
  <2>4. /\ ready' \in SUBSET Clients /\ events' \in SUBSET Clients
        /\ conn' \in [Clients -> {"none", "pending", "open", "closed"}]
    BY <1>1 DEF IndInv, ShapeInv
  <2> QED
    BY <1>5, <1>6, <2>1, <2>2, <2>3, <2>4 DEF ShapeInv
<1>8. EpollInv'
  BY <1>1 DEF IndInv, EpollInv
<1>9. CountMatchesEntries'
  BY <1>2, <1>3, AddEntry
<1>10. EntriesAreOpen'
  BY <1>1, <1>2, <1>3, AddEntry DEF IndInv, EntriesAreOpen
<1>11. SensingWhileRegistered'
  BY <1>1 DEF SensingWhileRegistered
<1>12. RequestInv'
  <2>1. \A d \in Clients : d # c /\ Unregistered(d) => Unregistered(d)'
    BY <1>2, <1>3, <1>7, AddEntry DEF Unregistered, Entries, ShapeInv
  <2>2. session[c] # "none" /\ session'[c] # "none"
    BY <1>1, <1>4, ReadInd DEF IndInv, ShapeInv
  <2>3. \A d \in Clients : d # c => session'[d] = session[d]
    BY <1>4 DEF IndInv, ShapeInv
  <2>4. ASSUME NEW d \in Clients  PROVE session'[d] = "none" => inbox'[d] = <<>> /\ Unregistered(d)' /\ conn'[d] = "none"
    BY <1>1, <2>1, <2>2, <2>3, ReadInd DEF IndInv, RequestInv
  <2>5. ASSUME NEW d \in Clients, NEW k \in 1 .. Len(inbox'[d]), inbox'[d][k] = "start"
        PROVE  k = 1 /\ Unregistered(d)'
    BY <1>1, <2>1, <2>5, ReadInd DEF IndInv, RequestInv
  <2> QED
    BY <2>4, <2>5 DEF RequestInv
<1> QED
  BY <1>7, <1>8, <1>9, <1>10, <1>11, <1>12 DEF IndInv

LEMMA StopRequestInd ==
  ASSUME IndInv, NEW c \in Clients, StopRequest(c)
  PROVE  IndInv'
<1>1. /\ events' = events \ {c}
      /\ inbox[c] # <<>> /\ inbox' = [inbox EXCEPT ![c] = Tail(@)]
      /\ UNCHANGED <<ready, conn, session>>
      /\ sensing' = IF active_clients_count' = 0 THEN FALSE ELSE sensing
  BY DEF StopRequest, Handles
<1>2. remove_streaming_client(c)
  BY DEF StopRequest
<1>3. alive' \in BOOLEAN
  BY DEF StopRequest, Answer
<1>4. sensing' \in BOOLEAN
  BY <1>1 DEF IndInv, ShapeInv
<1>5. ShapeInv'
  <2>1. inbox' \in [Clients -> Seq({"start", "stop", "eof"})]
    BY <1>1, ReadInd
  <2>2. streaming_clients' \in [Slots -> Clients \cup {Free}]
    BY <1>2, RemoveEntry
  <2>3. /\ ready' \in SUBSET Clients /\ events' \in SUBSET Clients
        /\ conn' \in [Clients -> {"none", "pending", "open", "closed"}]
        /\ session' \in [Clients -> {"none", "starting", "acked", "streaming", "stopping", "gone",
                           "killed"}]
    BY <1>1 DEF IndInv, ShapeInv
  <2> QED
    BY <1>3, <1>4, <2>1, <2>2, <2>3 DEF ShapeInv
<1>6. EpollInv'
  BY <1>1 DEF IndInv, EpollInv
<1>7. CountMatchesEntries'
  BY <1>2, RemoveEntry
<1>8. EntriesAreOpen'
  BY <1>1, <1>2, RemoveEntry DEF IndInv, EntriesAreOpen
<1>9. SensingWhileRegistered'
  <2>1. CASE active_clients_count' = 0
    <3>1. Cardinality(Entries') = 0 /\ IsFiniteSet(Entries')
      <4>1. Entries' \subseteq Entries
        BY <1>2, RemoveEntry
      <4>2. IsFiniteSet(Entries')
        BY <4>1, EntriesFinite, FS_Subset
      <4> QED
        BY <1>7, <2>1, <4>2 DEF CountMatchesEntries
    <3>2. Entries' = {}
      BY <3>1, FS_EmptySet
    <3> QED
      BY <3>2 DEF SensingWhileRegistered
  <2>2. CASE active_clients_count' # 0
    <3>1. sensing' = sensing
      BY <1>1, <2>2
    <3>2. Entries' \subseteq Entries
      BY <1>2, RemoveEntry
    <3> QED
      BY <3>1, <3>2 DEF IndInv, SensingWhileRegistered
  <2> QED
    BY <2>1, <2>2
<1>10. RequestInv'
  <2>1. \A d \in Clients : Unregistered(d) => Unregistered(d)'
    BY <1>2, <1>5, RemoveEntry DEF Unregistered, Entries, ShapeInv
  <2> QED
    BY <1>1, <2>1, ReadInd DEF IndInv, RequestInv
<1> QED
  BY <1>5, <1>6, <1>7, <1>8, <1>9, <1>10 DEF IndInv

LEMMA DisconnectInd ==
  ASSUME IndInv, NEW c \in Clients, Disconnect(c)
  PROVE  IndInv'
<1>1. /\ events' = events \ {c} /\ ready' = ready \ {c}
      /\ conn[c] = "open" /\ conn' = [conn EXCEPT ![c] = "closed"]
      /\ UNCHANGED <<alive, sensing, inbox, session>>
  BY DEF Disconnect, Handles, IndInv, EpollInv
<1>2. remove_streaming_client(c)
  BY DEF Disconnect
<1>3. ShapeInv'
  <2>1. streaming_clients' \in [Slots -> Clients \cup {Free}]
    BY <1>2, RemoveEntry
  <2>2. conn' \in [Clients -> {"none", "pending", "open", "closed"}]
    BY <1>1 DEF IndInv, ShapeInv
  <2> QED
    BY <1>1, <2>1, <2>2 DEF IndInv, ShapeInv
<1>4. EpollInv'
  BY <1>1 DEF IndInv, ShapeInv, EpollInv
<1>5. CountMatchesEntries'
  BY <1>2, RemoveEntry
<1>6. EntriesAreOpen'
  BY <1>1, <1>2, <1>3, RemoveEntry DEF IndInv, ShapeInv, EntriesAreOpen, Entries
<1>7. SensingWhileRegistered'
  <2>1. Entries' \subseteq Entries
    BY <1>2, RemoveEntry
  <2> QED
    BY <1>1, <2>1 DEF IndInv, SensingWhileRegistered
<1>8. RequestInv'
  <2>1. \A d \in Clients : Unregistered(d) => Unregistered(d)'
    BY <1>2, <1>3, RemoveEntry DEF Unregistered, Entries, ShapeInv
  <2>2. session[c] # "none"
    BY <1>1 DEF IndInv, RequestInv
  <2> QED
    BY <1>1, <2>1, <2>2 DEF IndInv, ShapeInv, RequestInv
<1> QED
  BY <1>3, <1>4, <1>5, <1>6, <1>7, <1>8 DEF IndInv

(* What a request does to the entries of the others. *)
LEMMA StartTable ==
  ASSUME IndInv, NEW c \in Clients, StartRequest(c)
  PROVE  \A d \in Clients : d # c /\ Unregistered(d) => Unregistered(d)'
<1>1. Unregistered(c)
  <2>1. inbox[c] \in Seq({"start", "stop", "eof"})
    BY DEF IndInv, ShapeInv
  <2>2. 1 \in 1 .. Len(inbox[c]) /\ inbox[c][1] = "start"
    BY <2>1 DEF StartRequest
  <2> QED
    BY <2>2 DEF IndInv, RequestInv
<1>2. \A i \in Entries' : \/ streaming_clients'[i] = c
                          \/ i \in Entries /\ streaming_clients'[i] = streaming_clients[i]
  BY <1>1, AddEntry DEF StartRequest
<1> QED
  BY <1>2 DEF Unregistered, Entries

LEMMA RemoveTable ==
  ASSUME IndInv, NEW c \in Clients, remove_streaming_client(c)
  PROVE  Unregistered(c)' /\ \A d \in Clients : Unregistered(d) => Unregistered(d)'
<1>1. \A i \in Entries' : /\ i \in Entries
                          /\ streaming_clients'[i] = streaming_clients[i]
                          /\ streaming_clients'[i] # c
  BY RemoveEntry
<1> QED
  BY <1>1 DEF Unregistered, Entries

LEMMA NextInd == IndInv /\ [Next]_vars => IndInv'
<1> SUFFICES ASSUME IndInv, [Next]_vars  PROVE IndInv'
  OBVIOUS
<1>1. CASE \E c \in Clients : ClientStep(c)
  BY <1>1, ClientInd
<1>2. CASE DaemonStep
  BY <1>2, WaitInd, BroadcastInd, AcceptInd, StartRequestInd, StopRequestInd, DisconnectInd
  DEF DaemonStep
<1>3. CASE UNCHANGED vars
  <2>1. ShapeInv' /\ EpollInv'
    BY <1>3 DEF IndInv, ShapeInv, EpollInv, vars, table, epoll
  <2>2. RequestInv'
    BY <1>3, TableKept DEF IndInv, RequestInv, vars
  <2> QED
    BY <1>3, <2>1, <2>2, TableKept DEF IndInv, vars
<1> QED
  BY <1>1, <1>2, <1>3 DEF Next

LEMMA Inductive == Spec => []IndInv
  BY InitInd, NextInd, PTL DEF Spec

-----------------------------------------------------------------------------
(* Every variable keeps its type; the count never leaves 0 .. MaxSlots.    *)
THEOREM TypeCorrect == Spec => []TypeOK
<1>1. IndInv => TypeOK
  BY EntriesFinite DEF IndInv, ShapeInv, CountMatchesEntries, TypeOK
<1> QED
  BY <1>1, Inductive, PTL

(* The count that decides when the hardware is suspended is the number of  *)
(* entries in use, for any number of clients and of entries.               *)
THEOREM CountCorrect == Spec => []CountMatchesEntries
<1>1. IndInv => CountMatchesEntries
  BY DEF IndInv
<1> QED
  BY <1>1, Inductive, PTL

(* An entry belongs to one open connection. *)
THEOREM EntriesCorrect == Spec => []EntriesAreOpen
<1>1. IndInv => EntriesAreOpen
  BY DEF IndInv
<1> QED
  BY <1>1, Inductive, PTL

(* No STOP and no disconnection silences the sensor of another client. *)
THEOREM SensingCorrect == Spec => []SensingWhileRegistered
<1>1. IndInv => SensingWhileRegistered
  BY DEF IndInv
<1> QED
  BY <1>1, Inductive, PTL

(* The count and the entries of the table agree with the connections.      *)
THEOREM TableCorrect == Spec => []TableConsistent
<1>1. IndInv => TableConsistent
  BY DEF IndInv, TableConsistent
<1> QED
  BY <1>1, Inductive, PTL

-----------------------------------------------------------------------------
(* Nothing, one request or two requests to be read. *)
None(w) == Len(w) = 0
Only(w, x) == Len(w) = 1 /\ w[1] = x
Two(w, x, y) == Len(w) = 2 /\ w[1] = x /\ w[2] = y

Requests == {"start", "stop", "eof"}

WordFacts(w) ==
  /\ w # <<>> <=> ~None(w)
  /\ \A x \in Requests : Only(w, x) => ~None(w) /\ Head(w) = x /\ None(Tail(w))
  /\ \A x \in Requests : Two(w, x, "eof") => ~None(w) /\ Head(w) = x /\ Only(Tail(w), "eof")
  /\ \A x, y \in Requests : ~(Only(w, x) /\ Two(w, y, "eof"))
  /\ \A z \in Requests : None(w) => Only(Append(w, z), z) /\ ~None(Append(w, z))
  /\ \A x \in Requests : Only(w, x) => Two(Append(w, "eof"), x, "eof") /\ ~None(Append(w, "eof"))

LEMMA WordProperties ==
  ASSUME NEW w \in Seq(Requests)
  PROVE  WordFacts(w)
<1>1. w # <<>> <=> Len(w) # 0
  <2>1. w = <<>> => Len(w) = 0
    OBVIOUS
  <2>2. Len(w) = 0 => w = <<>>
    BY EmptySeq, SeqEqual
  <2> QED
    BY <2>1, <2>2
<1>2. Len(w) \in Nat
  OBVIOUS
<1>3. ASSUME NEW x \in Requests, Only(w, x)  PROVE ~None(w) /\ Head(w) = x /\ None(Tail(w))
  BY <1>1, <1>3, HeadTailProperties DEF Only, None
<1>4. ASSUME NEW x \in Requests, Two(w, x, "eof")
      PROVE  ~None(w) /\ Head(w) = x /\ Only(Tail(w), "eof")
  <2>1. Len(w) = 2 /\ w[1] = x /\ w[2] = "eof"
    BY <1>4 DEF Two
  <2>2. w # <<>>
    BY <1>1, <2>1
  <2>3. Len(Tail(w)) = 1 /\ Tail(w)[1] = "eof" /\ Head(w) = x
    BY <2>1, <2>2, HeadTailProperties
  <2>4. ~None(w)
    BY <2>1 DEF None
  <2>5. Only(Tail(w), "eof")
    BY <2>3, Zenon DEF Only
  <2> QED
    BY <2>3, <2>4, <2>5
<1>5. ASSUME NEW z \in Requests
      PROVE  /\ None(w) => Only(Append(w, z), z) /\ ~None(Append(w, z))
             /\ \A x \in Requests : Only(w, x) => Two(Append(w, z), x, z) /\ ~None(Append(w, z))
  <2>1. /\ Len(Append(w, z)) = Len(w) + 1 /\ Append(w, z)[Len(w) + 1] = z
        /\ \A i \in 1 .. Len(w) : Append(w, z)[i] = w[i]
    BY AppendProperties
  <2>2. None(w) => Only(Append(w, z), z) /\ ~None(Append(w, z))
    BY <1>2, <2>1 DEF Only, None
  <2>3. ASSUME NEW x \in Requests, Only(w, x)
        PROVE  Two(Append(w, z), x, z) /\ ~None(Append(w, z))
    BY <1>2, <2>1, <2>3 DEF Only, Two, None
  <2> QED
    BY <2>2, <2>3
<1>6. "eof" \in Requests
  BY DEF Requests
<1>7. \A x, y \in Requests : ~(Only(w, x) /\ Two(w, y, "eof"))
  BY DEF Only, Two
<1> QED
  <2>1. w # <<>> <=> ~None(w)
    BY <1>1 DEF None
  <2>2. \A x \in Requests : Only(w, x) => Two(Append(w, "eof"), x, "eof") /\ ~None(Append(w, "eof"))
    BY <1>5, <1>6
  <2>3. \A z \in Requests : None(w) => Only(Append(w, z), z) /\ ~None(Append(w, z))
    BY <1>5
  <2> QED
    <3>1. \A x \in Requests : Only(w, x) => ~None(w) /\ Head(w) = x /\ None(Tail(w))
      BY <1>3
    <3>2. \A x \in Requests : Two(w, x, "eof") => ~None(w) /\ Head(w) = x /\ Only(Tail(w), "eof")
      BY <1>4
    <3> QED
      BY <1>7, <2>1, <2>2, <2>3, <3>1, <3>2 DEF WordFacts

(* What the daemon has not read of a client tells where the client stands, *)
(* and what epoll holds for it is no more than that.                       *)
InboxOf(c) ==
  /\ session[c] = "none" => None(inbox[c])
  /\ session[c] = "starting" => Only(inbox[c], "start")
  /\ session[c] \in {"acked", "streaming"} => None(inbox[c])
  /\ session[c] = "stopping" =>
       Only(inbox[c], "stop") \/ (None(inbox[c]) /\ Unregistered(c))
  /\ session[c] = "gone" =>
       Two(inbox[c], "stop", "eof") \/ (Only(inbox[c], "eof") /\ Unregistered(c))
  /\ session[c] = "killed" => Two(inbox[c], "start", "eof") \/ Only(inbox[c], "eof")
  /\ c \in ready \cup events => ~None(inbox[c])
  /\ c \in ready /\ c \in events =>
       Two(inbox[c], "stop", "eof") \/ Two(inbox[c], "start", "eof")
  /\ conn[c] = "closed" => Gone(c)

InboxInv == \A c \in Clients : InboxOf(c)

LEMMA InboxType ==
  ASSUME IndInv, NEW c \in Clients
  PROVE  /\ WordFacts(inbox[c])
         /\ session[c] \in {"none", "starting", "acked", "streaming", "stopping", "gone", "killed"}
<1>1. inbox[c] \in Seq(Requests)
  BY DEF IndInv, ShapeInv, Requests
<1>2. WordFacts(inbox[c])
  BY <1>1, WordProperties
<1>3. session[c] \in {"none", "starting", "acked", "streaming", "stopping", "gone", "killed"}
  BY DEF IndInv, ShapeInv
<1> QED
  BY <1>2, <1>3

(* A step that concerns another client. *)
LEMMA InboxKept ==
  ASSUME IndInv, NEW d \in Clients, InboxOf(d),
         inbox'[d] = inbox[d], session'[d] = session[d], conn'[d] = conn[d],
         d \in ready' <=> d \in ready, d \in events' <=> d \in events,
         Unregistered(d) => Unregistered(d)'
  PROVE  InboxOf(d)'
  BY DEF InboxOf, Gone

LEMMA ArrivalKept ==
  ASSUME IndInv, NEW c \in Clients, NEW what \in {"start", "stop", "eof"}, Arrives(c, what)
  PROVE  inbox'[c] = Append(inbox[c], what)
  BY InboxType DEF Arrives, IndInv, ShapeInv

LEMMA InboxClient ==
  ASSUME IndInv, InboxInv, NEW c \in Clients, ClientStep(c)
  PROVE  InboxInv'
<1>1. UNCHANGED <<table, events>>
  BY DEF ClientStep, Start, Started, Stop, Close, Killed, epoll
<1>2. \A d \in Clients : Unregistered(d)' <=> Unregistered(d)
  BY <1>1 DEF table, Unregistered
<1>3. ASSUME NEW d \in Clients, d # c  PROVE InboxOf(d)'
  <2>1. /\ inbox'[d] = inbox[d] /\ session'[d] = session[d] /\ conn'[d] = conn[d]
        /\ d \in ready' <=> d \in ready
    BY <1>3 DEF ClientStep, Start, Started, Stop, Close, Killed, Become, Arrives, epoll,
                IndInv, ShapeInv
  <2> QED
    BY <1>1, <1>2, <2>1, InboxKept DEF InboxInv
<1>4. InboxOf(c)'
  <2>1. InboxOf(c)
    BY DEF InboxInv
  <2>2. CASE Start(c)
    <3>1. None(inbox[c]) /\ session'[c] = "starting" /\ conn'[c] = "pending" /\ conn[c] = "none"
      BY <2>1, <2>2 DEF Start, Become, InboxOf, IndInv, ShapeInv, RequestInv
    <3>2. Only(inbox'[c], "start") /\ ~None(inbox'[c])
      <4>1. inbox'[c] = Append(inbox[c], "start")
        BY <2>2, ArrivalKept DEF Start
      <4> QED
        BY <3>1, <4>1, InboxType DEF WordFacts, Requests
    <3>3. c \notin ready' /\ c \notin events'
      BY <1>1, <2>2, <3>1 DEF Start, Arrives, IndInv, EpollInv
    <3> QED
      BY <3>1, <3>2, <3>3 DEF InboxOf
  <2>3. CASE Started(c)
    <3>1. session'[c] = "streaming" /\ session[c] = "acked"
      BY <2>3 DEF Started, Become, IndInv, ShapeInv
    <3> QED
      BY <2>1, <2>3, <3>1 DEF Started, InboxOf, Gone, epoll
  <2>4. CASE Stop(c)
    <3>1. session[c] = "streaming" /\ session'[c] = "stopping" /\ None(inbox[c]) /\ conn'[c] = conn[c]
      BY <2>1, <2>4 DEF Stop, Become, InboxOf, IndInv, ShapeInv
    <3>2. Only(inbox'[c], "stop") /\ ~None(inbox'[c])
      <4>1. inbox'[c] = Append(inbox[c], "stop")
        BY <2>4, ArrivalKept DEF Stop
      <4> QED
        BY <3>1, <4>1, InboxType DEF WordFacts, Requests
    <3>3. c \notin events'
      BY <1>1, <2>1, <3>1 DEF InboxOf
    <3> QED
      BY <2>1, <3>1, <3>2, <3>3 DEF InboxOf, Gone
  <2>5. CASE Close(c)
    <3>1. session[c] = "stopping" /\ session'[c] = "gone" /\ conn'[c] = conn[c]
      BY <2>1, <2>5 DEF Close, Become, IndInv, ShapeInv
    <3>2. inbox'[c] = Append(inbox[c], "eof")
      BY <2>5, ArrivalKept DEF Close
    <3>3. /\ ~None(inbox'[c])
          /\ \/ Only(inbox[c], "stop") /\ Two(inbox'[c], "stop", "eof")
             \/ None(inbox[c]) /\ Unregistered(c) /\ Only(inbox'[c], "eof")
      BY <2>1, <3>1, <3>2, InboxType DEF WordFacts, Requests, InboxOf
    <3>4. None(inbox[c]) => c \notin events'
      BY <1>1, <2>1 DEF InboxOf
    <3> QED
      BY <1>2, <3>1, <3>3, <3>4 DEF InboxOf, Gone
  <2>6. CASE Killed(c)
    <3>1. /\ session[c] \in {"starting", "acked", "streaming"}
          /\ session'[c] = "killed" /\ conn'[c] = conn[c]
      BY <2>1, <2>6 DEF Killed, Become, IndInv, ShapeInv
    <3>2. inbox'[c] = Append(inbox[c], "eof")
      BY <2>6, ArrivalKept DEF Killed
    <3>3. /\ ~None(inbox'[c])
          /\ \/ Only(inbox[c], "start") /\ Two(inbox'[c], "start", "eof")
             \/ None(inbox[c]) /\ Only(inbox'[c], "eof")
      BY <2>1, <3>1, <3>2, InboxType DEF WordFacts, Requests, InboxOf
    <3>4. None(inbox[c]) => c \notin events'
      BY <1>1, <2>1 DEF InboxOf
    <3> QED
      BY <3>1, <3>3, <3>4 DEF InboxOf, Gone
  <2> QED
    BY <2>2, <2>3, <2>4, <2>5, <2>6 DEF ClientStep
<1> QED
  BY <1>3, <1>4 DEF InboxInv

LEMMA InboxWaits ==
  ASSUME IndInv, InboxInv,
         EpollWait \/ (\E i \in Slots : Broadcast(i)) \/ \E c \in Clients : Accept(c)
  PROVE  InboxInv'
<1>1. UNCHANGED table
  BY DEF EpollWait, Broadcast, Accept
<1>2. ASSUME NEW d \in Clients  PROVE InboxOf(d)'
  <2>1. InboxOf(d) /\ (Unregistered(d)' <=> Unregistered(d))
    BY <1>1 DEF InboxInv, table, Unregistered
  <2>2. CASE EpollWait
    BY <2>1, <2>2 DEF EpollWait, InboxOf, Gone
  <2>3. CASE \E i \in Slots : Broadcast(i)
    BY <2>1, <2>3 DEF Broadcast, epoll, InboxOf, Gone
  <2>4. ASSUME NEW c \in Clients, Accept(c)  PROVE InboxOf(d)'
    <3>1. CASE d = c
      <4>1. c \notin events /\ conn'[c] = "open"
        BY <2>4 DEF Accept, IndInv, EpollInv, ShapeInv
      <4> QED
        BY <2>1, <2>4, <3>1, <4>1, InboxType DEF Accept, InboxOf, WordFacts, Gone
    <3>2. CASE d # c
      <4>1. /\ inbox'[d] = inbox[d] /\ session'[d] = session[d] /\ conn'[d] = conn[d]
            /\ d \in ready' <=> d \in ready
            /\ d \in events' <=> d \in events
        BY <2>4, <3>2 DEF Accept, IndInv, ShapeInv
      <4> QED
        BY <2>1, <4>1, InboxKept
    <3> QED
      BY <3>1, <3>2
  <2> QED
    BY <2>2, <2>3, <2>4
<1> QED
  BY <1>2 DEF InboxInv

(* Who is disconnected has closed its end, and what is read then is that. *)
LEMMA DisconnectGone ==
  ASSUME IndInv, InboxInv, NEW c \in Clients, Disconnect(c)
  PROVE  Gone(c) /\ (session[c] = "gone" => Unregistered(c))
<1>1. InboxOf(c) /\ ~None(inbox[c])
  BY DEF Disconnect, Handles, InboxInv, InboxOf
<1>2. Head(inbox[c]) = "eof"
  BY <1>1, InboxType DEF WordFacts, Requests, Disconnect
<1>3. /\ ~Only(inbox[c], "start") /\ ~Only(inbox[c], "stop")
      /\ ~Two(inbox[c], "stop", "eof") /\ ~Two(inbox[c], "start", "eof")
  BY <1>2, InboxType DEF WordFacts, Requests
<1> QED
  BY <1>1, <1>3, InboxType DEF InboxOf, Gone

LEMMA InboxHandles ==
  ASSUME IndInv, InboxInv, NEW c \in Clients,
         StartRequest(c) \/ StopRequest(c) \/ Disconnect(c)
  PROVE  InboxInv'
<1>1. InboxOf(c) /\ c \in events /\ events' = events \ {c} /\ ~None(inbox[c])
  BY DEF InboxInv, InboxOf, StartRequest, StopRequest, Disconnect, Handles
<1>2. \A d \in Clients : d # c /\ Unregistered(d) => Unregistered(d)'
  <2>1. CASE StartRequest(c)
    BY <2>1, StartTable
  <2>2. CASE StopRequest(c) \/ Disconnect(c)
    BY <2>2, RemoveTable DEF StopRequest, Disconnect
  <2> QED
    BY <2>1, <2>2
<1>3. ASSUME NEW d \in Clients, d # c  PROVE InboxOf(d)'
  <2>1. /\ inbox'[d] = inbox[d] /\ session'[d] = session[d] /\ conn'[d] = conn[d]
        /\ d \in ready' <=> d \in ready
        /\ d \in events' <=> d \in events
    BY <1>1, <1>3 DEF StartRequest, StopRequest, Disconnect, Become, IndInv, ShapeInv
  <2> QED
    BY <1>2, <1>3, <2>1, InboxKept DEF InboxInv
<1>7. Only(inbox'[c], "eof") => ~None(inbox'[c])
  BY DEF Only, None
<1>4. CASE StartRequest(c)
  <2>1. /\ Head(inbox[c]) = "start" /\ inbox'[c] = Tail(inbox[c]) /\ ready' = ready /\ conn' = conn
        /\ session'[c] = IF session[c] = "starting" THEN "acked" ELSE session[c]
    BY <1>4 DEF StartRequest, Become, IndInv, ShapeInv
  <2>2. /\ ~Only(inbox[c], "stop") /\ ~Only(inbox[c], "eof") /\ ~Two(inbox[c], "stop", "eof")
    BY <2>1, InboxType DEF WordFacts, Requests
  <2>3. \/ session[c] = "starting" /\ Only(inbox[c], "start")
        \/ session[c] = "killed" /\ Two(inbox[c], "start", "eof")
    BY <1>1, <2>2, InboxType DEF InboxOf
  <2>4. ~(Only(inbox[c], "start") /\ Two(inbox[c], "stop", "eof"))
        /\ ~(Only(inbox[c], "start") /\ Two(inbox[c], "start", "eof"))
    BY InboxType DEF WordFacts, Requests
  <2>5. IF session[c] = "starting" THEN None(inbox'[c]) ELSE Only(inbox'[c], "eof")
    BY <2>1, <2>3, InboxType DEF WordFacts, Requests
  <2>6. session[c] = "starting" => c \notin ready'
    BY <1>1, <2>1, <2>3, <2>4 DEF InboxOf
  <2>7. InboxOf(c)'
    BY <1>1, <2>1, <2>3, <2>5, <1>7, <2>6 DEF InboxOf, Gone
  <2> QED
    BY <1>3, <2>7 DEF InboxInv
<1>5. CASE StopRequest(c)
  <2>1. /\ Head(inbox[c]) = "stop" /\ inbox'[c] = Tail(inbox[c]) /\ ready' = ready
        /\ conn' = conn /\ session' = session
    BY <1>5 DEF StopRequest, IndInv, ShapeInv
  <2>2. /\ ~Only(inbox[c], "start") /\ ~Only(inbox[c], "eof") /\ ~Two(inbox[c], "start", "eof")
    BY <2>1, InboxType DEF WordFacts, Requests
  <2>3. \/ session[c] = "stopping" /\ Only(inbox[c], "stop")
        \/ session[c] = "gone" /\ Two(inbox[c], "stop", "eof")
    BY <1>1, <2>2, InboxType DEF InboxOf
  <2>4. ~(Only(inbox[c], "stop") /\ Two(inbox[c], "stop", "eof"))
        /\ ~(Only(inbox[c], "stop") /\ Two(inbox[c], "start", "eof"))
    BY InboxType DEF WordFacts, Requests
  <2>5. IF session[c] = "stopping" THEN None(inbox'[c]) ELSE Only(inbox'[c], "eof")
    BY <2>1, <2>3, InboxType DEF WordFacts, Requests
  <2>6. Unregistered(c)'
    BY <1>5, RemoveTable DEF StopRequest
  <2>7. session[c] = "stopping" => c \notin ready'
    BY <1>1, <2>1, <2>3, <2>4 DEF InboxOf
  <2>8. InboxOf(c)'
    BY <1>1, <2>1, <2>3, <2>5, <1>7, <2>6, <2>7 DEF InboxOf, Gone
  <2> QED
    BY <1>3, <2>8 DEF InboxInv
<1>6. CASE Disconnect(c)
  <2>1. /\ conn'[c] = "closed" /\ ready' = ready \ {c} /\ UNCHANGED <<inbox, session>>
        /\ Unregistered(c)'
    BY <1>6, RemoveTable DEF Disconnect, IndInv, ShapeInv
  <2>2. Gone(c)'
    BY <1>6, <2>1, DisconnectGone DEF Gone
  <2>3. InboxOf(c)'
    BY <1>1, <2>1, <2>2 DEF InboxOf, Gone
  <2> QED
    BY <1>3, <2>3 DEF InboxInv
<1> QED
  BY <1>4, <1>5, <1>6

LEMMA InboxStep == IndInv /\ InboxInv /\ [Next]_vars => InboxInv'
<1> SUFFICES ASSUME IndInv, InboxInv, [Next]_vars  PROVE InboxInv'
  OBVIOUS
<1>1. CASE UNCHANGED vars
  BY <1>1 DEF vars, table, epoll, InboxInv, InboxOf, Unregistered, Gone
<1>2. CASE DaemonStep
  BY <1>2, InboxWaits, InboxHandles DEF DaemonStep
<1> QED
  BY <1>1, <1>2, InboxClient DEF Next

LEMMA InboxCorrect == Spec => []InboxInv
<1>1. Init => InboxInv
  BY DEF Init, InboxInv, InboxOf, Unregistered, None
<1> QED
  BY <1>1, InboxStep, Inductive, PTL DEF Spec

-----------------------------------------------------------------------------
(* The daemon closes a connection only when its client is gone, for any    *)
(* number of clients: edges that were merged or reported late never make   *)
(* it read a connection where nothing is.                                  *)
THEOREM DisconnectCorrect == Spec => []OnlyGoneDisconnected
<1>1. InboxInv => OnlyGoneDisconnected
  BY DEF InboxInv, InboxOf, OnlyGoneDisconnected
<1> QED
  BY <1>1, InboxCorrect, PTL

(* Only the disconnection of a killed client leaves the accelerometer on   *)
(* for nobody: a START leaves an entry, the STOP that empties the table    *)
(* counts to zero, and a client that sent STOP has no entry any more when  *)
(* the end of its connection is read.                                      *)
KilledClosed == \E d \in Clients : conn[d] = "closed" /\ session[d] = "killed"

LEMMA IdleStep == IndInv /\ InboxInv /\ IdleSensing /\ [Next]_vars => IdleSensing'
<1> SUFFICES ASSUME IndInv, InboxInv, IdleSensing, [Next]_vars, sensing', Entries' = {}
             PROVE  KilledClosed'
  BY DEF IdleSensing, KilledClosed
<1>1. ASSUME UNCHANGED <<streaming_clients, sensing>>,
             \A d \in Clients : conn[d] = "closed" => conn'[d] = "closed",
             \A d \in Clients : session[d] = "killed" => session'[d] = "killed"
      PROVE  KilledClosed'
  <2>1. sensing /\ Entries = {}
    BY <1>1 DEF Entries
  <2> QED
    BY <1>1, <2>1 DEF IdleSensing, KilledClosed
<1>2. ASSUME NEW c \in Clients, ClientStep(c)  PROVE KilledClosed'
  <2>1. UNCHANGED table
    BY <1>2 DEF ClientStep, Start, Started, Stop, Close, Killed
  <2>2. \A d \in Clients : conn[d] = "closed" => conn'[d] = "closed"
    BY <1>2 DEF ClientStep, Start, Started, Stop, Close, Killed, IndInv, ShapeInv, RequestInv
  <2>3. \A d \in Clients : session[d] = "killed" => session'[d] = "killed"
    BY <1>2 DEF ClientStep, Start, Started, Stop, Close, Killed, Become, IndInv, ShapeInv
  <2> QED
    BY <1>1, <2>1, <2>2, <2>3 DEF table
<1>3. ASSUME NEW c \in Clients, Accept(c)  PROVE KilledClosed'
  BY <1>1, <1>3 DEF Accept, IndInv, ShapeInv, table
<1>4. ASSUME NEW c \in Clients, StartRequest(c)  PROVE FALSE
  <2>1. CASE Holds(Free)
    <3>1. PICK i \in Slots : streaming_clients' = [streaming_clients EXCEPT ![i] = c]
      BY <1>4, <2>1 DEF StartRequest, add_streaming_client
    <3>2. i \in Entries'
      BY <3>1 DEF IndInv, ShapeInv, Entries
    <3> QED
      BY <3>2
  <2>2. CASE ~Holds(Free)
    <3>1. streaming_clients' = streaming_clients
      BY <1>4, <2>2 DEF StartRequest, add_streaming_client
    <3>2. 1 \in Slots /\ streaming_clients[1] # Free
      BY <2>2 DEF Holds, Slots
    <3> QED
      BY <3>1, <3>2 DEF Entries
  <2> QED
    BY <2>1, <2>2
<1>5. ASSUME NEW c \in Clients, StopRequest(c)  PROVE FALSE
  <2>1. CountMatchesEntries'
    BY <1>5, RemoveEntry DEF StopRequest
  <2>2. active_clients_count' = 0
    BY <2>1, FS_EmptySet DEF CountMatchesEntries
  <2> QED
    BY <1>5, <2>2 DEF StopRequest
<1>6. ASSUME NEW c \in Clients, Disconnect(c)  PROVE KilledClosed'
  <2>1. /\ UNCHANGED <<sensing, session>> /\ conn'[c] = "closed"
        /\ \A d \in Clients : conn[d] = "closed" => conn'[d] = "closed"
    BY <1>6 DEF Disconnect, IndInv, ShapeInv
  <2>2. CASE session[c] = "killed"
    BY <2>1, <2>2 DEF KilledClosed
  <2>3. CASE session[c] = "gone"
    <3>1. ~Holds(c)
      BY <1>6, <2>3, DisconnectGone DEF Holds, Unregistered
    <3>2. UNCHANGED streaming_clients
      BY <1>6, <3>1 DEF Disconnect, remove_streaming_client
    <3> QED
      BY <1>1, <2>1, <3>2
  <2> QED
    BY <1>6, <2>2, <2>3, DisconnectGone DEF Gone
<1>7. CASE DaemonStep
  <2>1. CASE EpollWait \/ \E i \in Slots : Broadcast(i)
    BY <1>1, <2>1 DEF EpollWait, Broadcast, table
  <2> QED
    BY <1>3, <1>4, <1>5, <1>6, <1>7, <2>1 DEF DaemonStep
<1>8. CASE UNCHANGED vars
  BY <1>1, <1>8 DEF vars, table
<1> QED
  BY <1>2, <1>7, <1>8 DEF Next

(* The accelerometer is on while a client is registered, and for nobody    *)
(* only after the disconnection of a client that was killed before STOP.   *)
THEOREM SensorCorrect == Spec => []SensorFollowsClients
<1>1. Init => IdleSensing
  BY DEF Init, IdleSensing
<1>2. IndInv /\ IdleSensing => SensorFollowsClients
  BY DEF IndInv, SensorFollowsClients
<1> QED
  BY <1>1, <1>2, IdleStep, InboxCorrect, Inductive, PTL DEF Spec
-----------------------------------------------------------------------------
(* one stream, word by word *)

USE RoomAssumption, FramesAssumption

(* What each place of the owner's says of the rest. *)
OwnerInv ==
  /\ stop = "idle" =>
       /\ fd = "closed" /\ ~is_running /\ ~registered /\ ~half /\ ~asked
       /\ listener = "none" /\ hand = <<>> /\ stream = <<>>
       /\ frame = 0 /\ written = {} /\ lost = 0 /\ delivered = {} /\ garbled = 0
       /\ followed = 0 /\ foreign = 0
  /\ stop \in {"starting", "streaming", "flagged"} => fd = "open" /\ registered /\ ~asked
  /\ stop \in {"starting", "failed"} => listener = "none"
  /\ is_running => stop \in {"starting", "streaming", "failed"}
  /\ fd = "reused" => stop \in {"closed", "returned"}
  /\ stop \in {"closed", "returned"} => fd # "open"
  /\ half \/ asked => registered

(* A read of a foreign descriptor comes after the flag was cleared, so the *)
(* loop ends at its next test; what follows a header is read before it.    *)
ForeignInv ==
  /\ followed \in {0, 1} /\ foreign \in {0, 1}
  /\ foreign = 1 => listener \in {"stuck", "ended", "test", "callback"}
  /\ followed = 1 => listener \in {"payload", "stuck", "ended", "test", "callback"}
  /\ followed = 1 \/ foreign = 1 => fd # "open" /\ stop # "idle"

CountInv ==
  /\ lost <= frame
  /\ half => lost < frame
  /\ garbled \in Nat
  /\ written \subseteq 1 .. frame
  /\ half => frame \notin written
  /\ delivered \subseteq written
  /\ listener # "callback" => Len(hand) < 7

(* Headers and events stand whole in the stream, but for what a read has   *)
(* taken off the first one; behind the header of a frame that was written  *)
(* stands its event.                                                       *)
At(s, i, kind, j, k) == i \in 1 .. Len(s) /\ s[i] = <<kind, j, k>>

WordsKnown ==
  \A i \in 1 .. Len(stream) :
    \/ \E j \in 1 .. 5, k \in 0 .. frame : At(stream, i, "header", j, k)
    \/ \E j \in 1 .. 7, k \in written : At(stream, i, "event", j, k)

HeadersWhole ==
  \A i \in 1 .. Len(stream), j \in 1 .. 4, k \in 0 .. MaxFrames :
    At(stream, i, "header", j, k) => At(stream, i + 1, "header", j + 1, k)

EventsWhole ==
  \A i \in 1 .. Len(stream), j \in 1 .. 6, k \in 0 .. MaxFrames :
    At(stream, i, "event", j, k) => At(stream, i + 1, "event", j + 1, k)

EventFollows ==
  \A i \in 1 .. Len(stream), k \in written :
    At(stream, i, "header", 5, k) => At(stream, i + 1, "event", 1, k)

HalfIsLast ==
  \A i \in 1 .. Len(stream) : half /\ At(stream, i, "header", 5, frame) => i = Len(stream)

NoAnswer ==
  registered => \A i \in 1 .. Len(stream), j \in 1 .. 5 : ~ At(stream, i, "header", j, 0)

ChainInv == WordsKnown /\ HeadersWhole /\ EventsWhole /\ EventFollows /\ HalfIsLast /\ NoAnswer

(* Frames follow each other in order. *)
OrderInv ==
  /\ \A i, j \in 1 .. Len(stream), k \in Frames :
       At(stream, i, "header", 1, k) /\ At(stream, j, "header", 1, k) => i = j
  /\ \A i, j \in 1 .. Len(stream), k, l \in Frames :
       At(stream, i, "event", 7, k) /\ At(stream, j, "event", 7, l) /\ i < j => k < l
  /\ \A k \in Frames : hand = Event(k) =>
       /\ k \in written
       /\ \A d \in delivered : d < k
       /\ \A i \in 1 .. Len(stream), l \in Frames : At(stream, i, "event", 7, l) => k < l
  /\ \A d \in delivered, i \in 1 .. Len(stream), l \in Frames : At(stream, i, "event", 7, l) => d < l

(* Each loss stands for one garbled event that is yet to come: a header     *)
(* without its event in the stream, a listener that waits for such an event *)
(* or has read something else in its place.                                 *)
InPayload == listener \in {"payload", "inPayload"}

Unfollowed ==
  {k \in Frames : /\ \E i \in 1 .. Len(stream) : At(stream, i, "header", 1, k)
                  /\ k \notin written
                  /\ ~(half /\ k = frame)}

Owed ==
  /\ InPayload
  /\ IF stream = <<>> THEN ~half ELSE \A k \in Frames : ~ At(stream, 1, "event", 1, k)

Pending == listener = "callback" /\ \A k \in Frames : hand # Event(k)

One(b) == IF b THEN 1 ELSE 0

Debt == IF Deserted THEN 0 ELSE Cardinality(Unfollowed) + One(Owed)

GarbledInv == garbled + One(Pending) + Debt <= lost + foreign

(* Without a loss the listener is in step with the daemon: it reads headers *)
(* where headers stand and events where events do, and every header is, or  *)
(* will be, followed by its event.                                          *)
PayloadFollows ==
  \A i \in 1 .. Len(stream), k \in Frames :
    At(stream, i, "header", 5, k) =>
      At(stream, i + 1, "event", 1, k) \/ (i = Len(stream) /\ half /\ k = frame)

HeaderFollows ==
  \A i \in 1 .. Len(stream), k \in Frames :
    At(stream, i, "event", 7, k) =>
      i = Len(stream) \/ \E l \in 0 .. MaxFrames : At(stream, i + 1, "header", 1, l)

AnswerIsLast == \A i \in 1 .. Len(stream) : At(stream, i, "header", 5, 0) => i = Len(stream)

FrontAwaited ==
  stream # <<>> =>
    IF InPayload THEN \E k \in Frames : At(stream, 1, "event", 1, k)
                 ELSE \E k \in 0 .. MaxFrames : At(stream, 1, "header", 1, k)

PayloadComes ==
  /\ InPayload /\ stream = <<>> => half
  /\ up /\ half => IF stream = <<>> THEN InPayload ELSE At(stream, Len(stream), "header", 5, frame)

InStep ==
  /\ PayloadFollows /\ HeaderFollows /\ AnswerIsLast
  /\ FrontAwaited /\ PayloadComes
  /\ written \subseteq delivered \cup Waiting

(* The event that is about to be given to the callback is the next one. *)
NoGap == \A k \in Frames : hand = Event(k) => \A j \in written : j < k => j \in delivered

StreamInv ==
  /\ StreamTypeOK /\ OwnerInv /\ ForeignInv /\ CountInv /\ ChainInv /\ OrderInv /\ GarbledInv
  /\ lost = 0 => NoGap /\ (~Deserted => InStep)

-----------------------------------------------------------------------------
(* words, frames and what reads and writes do to the stream *)

LEMMA HeaderWords ==
  ASSUME NEW k \in 0 .. MaxFrames
  PROVE  /\ Header(k) \in Seq(Words) /\ Len(Header(k)) = 5
         /\ \A i \in 1 .. 5 : Header(k)[i] = <<"header", i, k>>
<1>1. \A i \in 1 .. 5 : <<"header", i, k>> \in Words
  BY DEF Words
<1>2. Header(k) \in [1 .. 5 -> Words]
  BY <1>1 DEF Header
<1>3. Header(k) \in Seq(Words)
  <2>1. 5 \in Nat
    OBVIOUS
  <2>2. Seq(Words) = UNION {[1 .. n -> Words] : n \in Nat}
    BY SeqDef
  <2> QED
    BY <1>2, <2>1, <2>2
<1>4. DOMAIN Header(k) = 1 .. 5
  BY DEF Header
<1>5. Len(Header(k)) = 5
  BY <1>3, <1>4, LenProperties
<1> QED
  BY <1>3, <1>5 DEF Header

LEMMA EventWords ==
  ASSUME NEW k \in Frames
  PROVE  /\ Event(k) \in Seq(Words) /\ Len(Event(k)) = 7
         /\ \A i \in 1 .. 7 : Event(k)[i] = <<"event", i, k>>
<1>1. \A i \in 1 .. 7 : <<"event", i, k>> \in Words
  BY DEF Words, Frames
<1>2. Event(k) \in [1 .. 7 -> Words]
  BY <1>1 DEF Event
<1>3. Event(k) \in Seq(Words)
  <2>1. 7 \in Nat
    OBVIOUS
  <2>2. Seq(Words) = UNION {[1 .. n -> Words] : n \in Nat}
    BY SeqDef
  <2> QED
    BY <1>2, <2>1, <2>2
<1>4. DOMAIN Event(k) = 1 .. 7
  BY DEF Event
<1>5. Len(Event(k)) = 7
  BY <1>3, <1>4, LenProperties
<1> QED
  BY <1>3, <1>5 DEF Event

LEMMA HeaderAppended ==
  ASSUME NEW s \in Seq(Words), NEW n \in 0 .. MaxFrames
  PROVE  /\ s \o Header(n) \in Seq(Words) /\ Len(s \o Header(n)) = Len(s) + 5
         /\ \A i \in Nat : \A kind, j, k :
              At(s \o Header(n), i, kind, j, k) <=>
                \/ At(s, i, kind, j, k)
                \/ i - Len(s) \in 1 .. 5 /\ kind = "header" /\ j = i - Len(s) /\ k = n
<1> DEFINE t == s \o Header(n)
<1>1. /\ t \in Seq(Words) /\ Len(t) = Len(s) + 5 /\ Len(s) \in Nat
      /\ \A i \in 1 .. Len(t) : t[i] = IF i <= Len(s) THEN s[i] ELSE Header(n)[i - Len(s)]
  <2>1. Len(s) \in Nat
    BY LenProperties
  <2>2. Header(n) \in Seq(Words) /\ Len(Header(n)) = 5
    BY HeaderWords
  <2>3. /\ t \in Seq(Words) /\ Len(t) = Len(s) + Len(Header(n))
        /\ \A i \in 1 .. Len(s) + Len(Header(n)) : t[i] = IF i <= Len(s) THEN s[i] ELSE Header(n)[i - Len(s)]
    BY <2>2, ConcatProperties
  <2> QED
    BY <2>1, <2>2, <2>3
<1>2. ASSUME NEW i \in Nat, NEW kind, NEW j, NEW k
      PROVE  At(t, i, kind, j, k) <=>
                \/ At(s, i, kind, j, k)
                \/ i - Len(s) \in 1 .. 5 /\ kind = "header" /\ j = i - Len(s) /\ k = n
  <2>1. CASE i \in 1 .. Len(s)
    <3>1. i \in 1 .. Len(t) /\ t[i] = s[i] /\ i - Len(s) \notin 1 .. 5
      BY <1>1, <2>1
    <3> HIDE DEF t
    <3> QED
      BY <2>1, <3>1 DEF At
  <2>2. CASE i - Len(s) \in 1 .. 5
    <3>1. t[i] = <<"header", i - Len(s), n>>
      BY <1>1, <2>2, HeaderWords, SMTT(20)
    <3> QED
      BY <1>1, <2>2, <3>1 DEF At
  <2>3. CASE i \notin 1 .. Len(s) /\ i - Len(s) \notin 1 .. 5
    <3>1. i \notin 1 .. Len(t)
      BY <1>1, <2>3
    <3> HIDE DEF t
    <3> QED
      BY <2>3, <3>1 DEF At
  <2> QED
    BY <2>1, <2>2, <2>3
<1> QED
  BY <1>1, <1>2

LEMMA EventAppended ==
  ASSUME NEW s \in Seq(Words), NEW n \in Frames
  PROVE  /\ s \o Event(n) \in Seq(Words) /\ Len(s \o Event(n)) = Len(s) + 7
         /\ \A i \in Nat : \A kind, j, k :
              At(s \o Event(n), i, kind, j, k) <=>
                \/ At(s, i, kind, j, k)
                \/ i - Len(s) \in 1 .. 7 /\ kind = "event" /\ j = i - Len(s) /\ k = n
<1> DEFINE t == s \o Event(n)
<1>1. /\ t \in Seq(Words) /\ Len(t) = Len(s) + 7 /\ Len(s) \in Nat
      /\ \A i \in 1 .. Len(t) : t[i] = IF i <= Len(s) THEN s[i] ELSE Event(n)[i - Len(s)]
  <2>1. Len(s) \in Nat
    BY LenProperties
  <2>2. Event(n) \in Seq(Words) /\ Len(Event(n)) = 7
    BY EventWords
  <2>3. /\ t \in Seq(Words) /\ Len(t) = Len(s) + Len(Event(n))
        /\ \A i \in 1 .. Len(s) + Len(Event(n)) : t[i] = IF i <= Len(s) THEN s[i] ELSE Event(n)[i - Len(s)]
    BY <2>2, ConcatProperties
  <2> QED
    BY <2>1, <2>2, <2>3
<1>2. ASSUME NEW i \in Nat, NEW kind, NEW j, NEW k
      PROVE  At(t, i, kind, j, k) <=>
                \/ At(s, i, kind, j, k)
                \/ i - Len(s) \in 1 .. 7 /\ kind = "event" /\ j = i - Len(s) /\ k = n
  <2>1. CASE i \in 1 .. Len(s)
    <3>1. i \in 1 .. Len(t) /\ t[i] = s[i] /\ i - Len(s) \notin 1 .. 7
      BY <1>1, <2>1
    <3> HIDE DEF t
    <3> QED
      BY <2>1, <3>1 DEF At
  <2>2. CASE i - Len(s) \in 1 .. 7
    <3>1. t[i] = <<"event", i - Len(s), n>>
      BY <1>1, <2>2, EventWords, SMTT(20)
    <3> QED
      BY <1>1, <2>2, <3>1 DEF At
  <2>3. CASE i \notin 1 .. Len(s) /\ i - Len(s) \notin 1 .. 7
    <3>1. i \notin 1 .. Len(t)
      BY <1>1, <2>3
    <3> HIDE DEF t
    <3> QED
      BY <2>3, <3>1 DEF At
  <2> QED
    BY <2>1, <2>2, <2>3
<1> QED
  BY <1>1, <1>2

(* A read of up to n words takes d of them. *)
LEMMA ReadWords ==
  ASSUME stream \in Seq(Words), NEW n \in Nat
  PROVE  LET d == Least(n, Len(stream)) IN
         /\ d \in Nat /\ d <= n /\ d <= Len(stream) /\ (d = n \/ d = Len(stream))
         /\ Taken(n) \in Seq(Words) /\ Len(Taken(n)) = d
         /\ \A i \in 1 .. d : Taken(n)[i] = stream[i]
         /\ Left(n) \in Seq(Words) /\ Len(Left(n)) = Len(stream) - d
         /\ \A i \in Nat : \A kind, j, k :
              At(Left(n), i, kind, j, k) <=> i >= 1 /\ At(stream, i + d, kind, j, k)
<1> DEFINE d == Least(n, Len(stream))
<1>1. /\ Len(stream) \in Nat /\ d \in Nat /\ d <= n /\ d <= Len(stream)
      /\ d = n \/ d = Len(stream)
  BY LenProperties DEF Least
<1>2. /\ Taken(n) \in Seq(Words) /\ Len(Taken(n)) = d
      /\ \A i \in 1 .. d : Taken(n)[i] = stream[i]
  <2>1. \A i \in 1 .. d : stream[i] \in Words
    BY <1>1, ElementOfSeq
  <2> QED
    BY <1>1, <2>1, SubSeqProperties DEF Taken
<1>3. /\ Left(n) \in Seq(Words) /\ Len(Left(n)) = Len(stream) - d
      /\ \A i \in 1 .. Len(stream) - d : Left(n)[i] = stream[i + d]
  <2>1. \A i \in d + 1 .. Len(stream) : stream[i] \in Words
    BY <1>1, ElementOfSeq
  <2> QED
    BY <1>1, <2>1, SubSeqProperties DEF Left
<1>4. ASSUME NEW i \in Nat, NEW kind, NEW j, NEW k
      PROVE  At(Left(n), i, kind, j, k) <=> i >= 1 /\ At(stream, i + d, kind, j, k)
  BY <1>1, <1>3 DEF At
<1> QED
  BY <1>1, <1>2, <1>3, <1>4

LEMMA EmptyLength ==
  ASSUME NEW s \in Seq(Words)
  PROVE  s = <<>> <=> Len(s) = 0
BY EmptySeq

LEMMA WordUnique ==
  ASSUME NEW s, NEW i, NEW t, NEW j, NEW k, At(s, i, t, j, k),
         NEW u, NEW m, NEW l, At(s, i, u, m, l)
  PROVE  t = u /\ j = m /\ k = l
BY DEF At

-----------------------------------------------------------------------------
(* the owner, the flag and the counts *)

LEMMA OwnerInductive == OwnerInv /\ StreamTypeOK /\ [StreamNext]_streamvars => OwnerInv'
<1> SUFFICES ASSUME OwnerInv, StreamTypeOK, [StreamNext]_streamvars  PROVE OwnerInv'
  OBVIOUS
<1> USE DEF owner, thread, daemon, callbacks
<1>1. CASE UNCHANGED streamvars
  BY <1>1 DEF streamvars, OwnerInv
<1>2. CASE BroadcastFrame \/ HandleStop \/ Crash
  <2>1. BroadcastFrame \/ HandleStop => stop # "idle"
    BY <1>2 DEF OwnerInv, BroadcastFrame, BroadcastHeader, BroadcastPayload, HandleStop
  <2>2. CASE BroadcastFrame
    BY <2>1, <2>2 DEF OwnerInv, BroadcastFrame, BroadcastHeader, BroadcastPayload
  <2>3. CASE HandleStop
    BY <2>1, <2>3 DEF OwnerInv, HandleStop
  <2>4. CASE Crash
    BY <2>4 DEF OwnerInv, Crash
  <2> QED
    BY <1>2, <2>2, <2>3, <2>4
<1>3. CASE StartSession \/ StopBegins \/ Reuse
  BY <1>3 DEF OwnerInv, StreamTypeOK, StartSession, StopBegins, Reuse
<1>4. CASE OwnerStep
  BY <1>4 DEF OwnerInv, StreamTypeOK, OwnerStep, StartListener, StartFails, SendStop, CloseSession, Join
<1>5. CASE ListenerStep
  <2>1. listener # "none"
    BY <1>5 DEF ListenerStep, Test, EnterHeader, EnterPayload, ReadHeader, ReadPayload, Callback
  <2> QED
    BY <1>5, <2>1 DEF OwnerInv, ListenerStep, Test, EnterHeader, EnterPayload, Enters, ReadHeader,
                      ReadPayload, Callback
<1> QED
  BY <1>1, <1>2, <1>3, <1>4, <1>5 DEF StreamNext

LEMMA ForeignInductive == ForeignInv /\ OwnerInv /\ [StreamNext]_streamvars => ForeignInv'
<1> SUFFICES ASSUME ForeignInv, OwnerInv, [StreamNext]_streamvars  PROVE ForeignInv'
  OBVIOUS
<1> USE DEF owner, thread, daemon, callbacks
<1>1. CASE UNCHANGED streamvars
  BY <1>1 DEF streamvars, ForeignInv
<1>2. CASE BroadcastFrame \/ HandleStop \/ Crash
  BY <1>2 DEF ForeignInv, BroadcastFrame, BroadcastHeader, BroadcastPayload, HandleStop, Crash
<1>3. CASE StartSession \/ StopBegins \/ Reuse \/ OwnerStep
  BY <1>3 DEF ForeignInv, OwnerInv, StartSession, StopBegins, Reuse, OwnerStep, StartListener, StartFails, SendStop,
              CloseSession, Join
<1>4. CASE EnterHeader \/ EnterPayload
  <2>1. CASE EnterHeader
    <3>1. followed = 0 /\ foreign = 0 /\ stop # "idle"
      BY <2>1 DEF ForeignInv, OwnerInv, EnterHeader
    <3> QED
      BY <2>1, <3>1 DEF ForeignInv, EnterHeader, Enters
  <2>2. CASE EnterPayload
    <3>1. foreign = 0 /\ stop # "idle"
      BY <2>2 DEF ForeignInv, OwnerInv, EnterPayload
    <3> QED
      BY <2>2, <3>1 DEF ForeignInv, EnterPayload, Enters
  <2> QED
    BY <1>4, <2>1, <2>2
<1>5. CASE Test \/ ReadHeader \/ ReadPayload \/ Callback
  BY <1>5 DEF ForeignInv, OwnerInv, Test, ReadHeader, ReadPayload, Callback
<1> QED
  BY <1>1, <1>2, <1>3, <1>4, <1>5 DEF StreamNext, ListenerStep

LEMMA CountInductive ==
  CountInv /\ StreamTypeOK /\ OwnerInv /\ OrderInv /\ [StreamNext]_streamvars => CountInv'
<1> SUFFICES ASSUME CountInv, StreamTypeOK, OwnerInv, OrderInv, [StreamNext]_streamvars  PROVE CountInv'
  OBVIOUS
<1> USE DEF owner, thread, daemon, callbacks
<1>1. CASE UNCHANGED streamvars
  BY <1>1 DEF streamvars, CountInv
<1>2. CASE BroadcastHeader
  <2>1. frame' = frame + 1 /\ ~half /\ frame \in Nat
    BY <1>2 DEF BroadcastHeader, StreamTypeOK
  <2>2. frame' \notin written /\ written \subseteq 1 .. frame'
    BY <2>1 DEF CountInv
  <2>3. UNCHANGED <<lost, garbled, written, delivered, listener, hand>>
    BY <1>2 DEF BroadcastHeader
  <2>4. lost < frame' /\ lost \in Nat /\ frame' \in Nat
    BY <2>1 DEF CountInv, StreamTypeOK
  <2> QED
    BY <2>2, <2>3, <2>4 DEF CountInv
<1>3. CASE BroadcastPayload
  <2>1. half /\ half' = FALSE /\ lost + 1 <= frame /\ frame \in 1 .. frame
    BY <1>3 DEF BroadcastPayload, StreamTypeOK, CountInv
  <2>2. UNCHANGED <<garbled, frame, delivered, listener, hand>>
    BY <1>3 DEF BroadcastPayload
  <2>3. lost' \in {lost, lost + 1}
    BY <1>3 DEF BroadcastPayload
  <2>4. written \subseteq written' /\ written' \subseteq written \cup {frame}
    BY <1>3 DEF BroadcastPayload
  <2>5. lost' <= frame'
    <3>1. lost \in Nat /\ frame \in Nat
      BY DEF StreamTypeOK
    <3> QED
      BY <2>1, <2>2, <2>3, <3>1
  <2> QED
    BY <2>1, <2>2, <2>4, <2>5 DEF CountInv
<1>4. CASE HandleStop \/ Crash \/ StartSession \/ StopBegins \/ Reuse \/ OwnerStep
  <2>1. UNCHANGED <<lost, half, frame, garbled, written, delivered, hand>>
    BY <1>4 DEF HandleStop, Crash, StartSession, StopBegins, Reuse, OwnerStep, StartListener, StartFails, SendStop,
                CloseSession, Join
  <2>2. UNCHANGED listener \/ (listener = "none" /\ listener' = "test")
    BY <1>4 DEF HandleStop, Crash, StartSession, StopBegins, Reuse, OwnerStep, StartListener, StartFails, SendStop,
                CloseSession, Join, OwnerInv
  <2> QED
    BY <2>1, <2>2 DEF CountInv
<1>5. CASE Test \/ EnterHeader \/ EnterPayload \/ ReadHeader
  <2>1. /\ UNCHANGED <<lost, half, frame, garbled, written, delivered>>
        /\ hand' = hand \/ hand' = <<>>
        /\ listener # "callback"
    BY <1>5 DEF Test, EnterHeader, EnterPayload, Enters, ReadHeader
  <2> QED
    BY <2>1 DEF CountInv
<1>6. CASE ReadPayload
  <2>1. UNCHANGED <<lost, half, frame, garbled, written, delivered>> /\ listener = "inPayload"
    BY <1>6 DEF ReadPayload
  <2>2. listener' # "callback" => Len(hand') < 7
    <3>1. CASE hand' = Taken(7) /\ listener' = IF Len(stream) >= 7 THEN "callback" ELSE "test"
      <4>1. Len(Taken(7)) = Least(7, Len(stream)) /\ Len(stream) \in Nat
        BY ReadWords, LenProperties DEF StreamTypeOK
      <4> QED
        BY <3>1, <4>1 DEF Least
    <3>2. CASE UNCHANGED hand
      BY <2>1, <3>2 DEF CountInv
    <3> QED
      BY <1>6, <3>1, <3>2 DEF ReadPayload
  <2> QED
    BY <2>1, <2>2 DEF CountInv
<1>7. CASE Callback
  <2>1. UNCHANGED <<lost, half, frame, written>> /\ hand' = <<>> /\ garbled' \in {garbled, garbled + 1}
    BY <1>7 DEF Callback
  <2>2. delivered' \subseteq written
    BY <1>7 DEF Callback, CountInv, OrderInv
  <2> QED
    BY <2>1, <2>2 DEF CountInv
<1> QED
  BY <1>1, <1>2, <1>3, <1>4, <1>5, <1>6, <1>7 DEF StreamNext, ListenerStep, BroadcastFrame
(* What a step can do to the words between the two: put some behind them,  *)
(* take some off their front, or leave them.                               *)
HeaderPut ==
  /\ BroadcastHeader /\ Fits(Header(frame + 1)) /\ stream' = stream \o Header(frame + 1)
  /\ half' = TRUE

EventPut ==
  /\ BroadcastPayload /\ Fits(Event(frame)) /\ stream' = stream \o Event(frame)
  /\ written' = written \cup {frame} /\ UNCHANGED lost

AnswerPut == HandleStop /\ Fits(Header(0)) /\ stream' = stream \o Header(0)

HeaderTaken == ReadHeader /\ stream' = Left(5)

PayloadTaken == ReadPayload /\ stream' = Left(7) /\ hand' = Taken(7)

NoWords ==
  /\ UNCHANGED <<stream, written>>
  /\ frame' \in {frame, frame + 1}
  /\ half' => half /\ frame' = frame
  /\ registered' => registered \/ stream = <<>>
  /\ \/ UNCHANGED delivered /\ hand' \in {hand, <<>>}
     \/ delivered' = delivered \cup {k \in Frames : hand = Event(k)} /\ hand' = <<>>

LEMMA StreamChange ==
  ASSUME OwnerInv, [StreamNext]_streamvars
  PROVE  NoWords \/ HeaderPut \/ EventPut \/ AnswerPut \/ HeaderTaken \/ PayloadTaken
<1> USE DEF owner, thread, daemon, callbacks
<1>1. CASE UNCHANGED streamvars
  BY <1>1 DEF streamvars, NoWords
<1>2. CASE BroadcastHeader
  <2>1. CASE UNCHANGED <<stream, half>>
    BY <1>2, <2>1 DEF BroadcastHeader, NoWords
  <2>2. CASE Dies /\ UNCHANGED half
    BY <2>1, <2>2 DEF Dies
  <2> QED
    BY <1>2, <2>1, <2>2 DEF BroadcastHeader, HeaderPut
<1>3. CASE BroadcastPayload
  <2>1. CASE UNCHANGED <<stream, written>>
    BY <1>3, <2>1 DEF BroadcastPayload, NoWords
  <2>2. CASE Dies /\ UNCHANGED <<written, lost>>
    BY <2>1, <2>2 DEF Dies
  <2> QED
    BY <1>3, <2>1, <2>2 DEF BroadcastPayload, EventPut
<1>4. CASE HandleStop
  <2>1. CASE UNCHANGED stream
    BY <1>4, <2>1 DEF HandleStop, NoWords
  <2>2. CASE Dies
    BY <2>1, <2>2 DEF Dies
  <2> QED
    BY <1>4, <2>1, <2>2 DEF HandleStop, AnswerPut
<1>5. CASE Crash \/ StartSession \/ StopBegins \/ Reuse \/ OwnerStep
  BY <1>5 DEF NoWords, OwnerInv, Crash, StartSession, StopBegins, Reuse, OwnerStep, StartListener, StartFails, SendStop,
              CloseSession, Join
<1>6. CASE ListenerStep
  BY <1>6 DEF ListenerStep, Test, EnterHeader, EnterPayload, Enters, ReadHeader, ReadPayload, Callback,
              NoWords, HeaderTaken, PayloadTaken
<1> QED
  BY <1>1, <1>2, <1>3, <1>4, <1>5, <1>6 DEF StreamNext, BroadcastFrame

LEMMA StreamTyped ==
  ASSUME StreamTypeOK, OwnerInv, CountInv, [StreamNext]_streamvars
  PROVE  stream' \in Seq(Words) /\ Len(stream') <= Room
<1>1. stream \in Seq(Words) /\ Len(stream) \in Nat /\ Len(stream) <= Room
  BY LenProperties DEF StreamTypeOK
<1>2. CASE UNCHANGED stream
  BY <1>1, <1>2
<1>3. ASSUME NEW k \in 0 .. MaxFrames, Fits(Header(k)), stream' = stream \o Header(k)
      PROVE  stream' \in Seq(Words) /\ Len(stream') <= Room
  BY <1>1, <1>3, HeaderAppended, HeaderWords DEF Fits
<1>4. ASSUME NEW k \in Frames, Fits(Event(k)), stream' = stream \o Event(k)
      PROVE  stream' \in Seq(Words) /\ Len(stream') <= Room
  BY <1>1, <1>4, EventAppended, EventWords DEF Fits
<1>5. ASSUME NEW n \in Nat, stream' = Left(n)
      PROVE  stream' \in Seq(Words) /\ Len(stream') <= Room
  <2>1. stream' \in Seq(Words) /\ Len(stream') = Len(stream) - Least(n, Len(stream))
    BY <1>1, <1>5, ReadWords
  <2> QED
    BY <1>1, <2>1 DEF Least
<1>6. frame \in Nat /\ (frame < MaxFrames => frame + 1 \in 0 .. MaxFrames) /\ 0 \in 0 .. MaxFrames
  BY DEF StreamTypeOK
<1>7. half => frame \in Frames
  BY <1>6 DEF CountInv, StreamTypeOK, Frames
<1> QED
  BY <1>2, <1>3, <1>4, <1>5, <1>6, <1>7, StreamChange
  DEF NoWords, HeaderPut, BroadcastHeader, EventPut, BroadcastPayload, AnswerPut, HeaderTaken, PayloadTaken

DebtTyped ==
  /\ IsFiniteSet(Unfollowed) /\ Cardinality(Unfollowed) \in Nat
  /\ One(Owed) \in 0 .. 1 /\ One(Pending) \in 0 .. 1
  /\ Debt \in Nat

LEMMA DebtNatural == DebtTyped
<1>1. IsFiniteSet(Frames)
  BY FS_Interval DEF Frames
<1>2. IsFiniteSet(Unfollowed)
  BY <1>1, FS_Subset DEF Unfollowed
<1>3. Cardinality(Unfollowed) \in Nat
  BY <1>2, FS_CardinalityType
<1>4. One(Owed) \in 0 .. 1 /\ One(Pending) \in 0 .. 1
  BY DEF One
<1> QED
  BY <1>2, <1>3, <1>4 DEF DebtTyped, Debt

LEMMA GarbledBound ==
  ASSUME NEW g \in Nat, NEW p \in 0 .. 1, NEW d \in Nat, NEW l \in 0 .. MaxFrames, NEW f \in 0 .. 1,
         g + p + d <= l + f
  PROVE  g <= l + f /\ g \in 0 .. MaxFrames + 1
OBVIOUS

LEMMA StreamTypeInductive ==
  ASSUME StreamTypeOK, OwnerInv, CountInv, CountInv', ForeignInv', GarbledInv', [StreamNext]_streamvars
  PROVE  StreamTypeOK'
<1> USE DEF owner, thread, daemon, callbacks
<1>1. CASE UNCHANGED streamvars
  BY <1>1 DEF streamvars, StreamTypeOK
<1>2. stream' \in Seq(Words) /\ Len(stream') <= Room
  BY StreamTyped
<1>3. ASSUME StreamNext
      PROVE  /\ stop' \in {"idle", "starting", "streaming", "flagged", "sent", "closed", "returned",
                           "failed", "killed"}
             /\ is_running' \in BOOLEAN
             /\ fd' \in {"open", "closed", "reused"}
             /\ listener' \in {"none", "test", "header", "inHeader", "payload", "inPayload",
                               "callback", "stuck", "ended"}
             /\ up' \in BOOLEAN /\ registered' \in BOOLEAN /\ half' \in BOOLEAN /\ asked' \in BOOLEAN
             /\ frame' \in 0 .. MaxFrames
  <2>1. CASE BroadcastHeader
    <3>1. frame' \in 0 .. MaxFrames
      BY <2>1 DEF BroadcastHeader, StreamTypeOK
    <3>2. (up' = up \/ up' = FALSE) /\ (half' = half \/ half' = TRUE)
      BY <2>1 DEF BroadcastHeader, Dies
    <3>3. up' \in BOOLEAN /\ half' \in BOOLEAN
      BY <3>2 DEF StreamTypeOK
    <3> QED
      BY <2>1, <3>1, <3>3 DEF BroadcastHeader, StreamTypeOK
  <2>2. CASE BroadcastPayload \/ HandleStop \/ Crash
    <3>1. /\ up' = up \/ up' = FALSE
          /\ half' = half \/ half' = FALSE
          /\ registered' = registered \/ registered' = FALSE
          /\ asked' = asked \/ asked' = FALSE
      BY <2>2 DEF BroadcastPayload, HandleStop, Crash, Dies
    <3>2. up' \in BOOLEAN /\ half' \in BOOLEAN /\ registered' \in BOOLEAN /\ asked' \in BOOLEAN
      BY <3>1 DEF StreamTypeOK
    <3>3. UNCHANGED <<stop, is_running, fd, listener, frame>>
      BY <2>2 DEF BroadcastPayload, HandleStop, Crash
    <3> QED
      BY <3>2, <3>3 DEF StreamTypeOK
  <2>3. CASE StartSession \/ StartListener \/ SendStop
    <3>1. UNCHANGED <<half, frame, up>>
      BY <2>3 DEF StartSession, StartListener, StartFails, SendStop
    <3>2. CASE StartSession \/ StartListener
      BY <3>1, <3>2 DEF StreamTypeOK, StartSession, StartListener
    <3>3. CASE SendStop
      BY <3>1, <3>3 DEF StreamTypeOK, SendStop
    <3> QED
      BY <2>3, <3>2, <3>3
  <2>4. CASE StartFails \/ StopBegins \/ CloseSession \/ Join \/ Reuse
    <3>1. UNCHANGED <<listener, daemon, asked>>
      BY <2>4 DEF StartFails, StopBegins, CloseSession, Join, Reuse
    <3>2. /\ stop' \in {stop, "flagged", "closed", "returned", "failed"} /\ is_running' \in {is_running, FALSE}
          /\ fd' \in {fd, "closed", "reused"}
      BY <2>4 DEF StartFails, StopBegins, CloseSession, Join, Reuse
    <3>3. is_running' \in BOOLEAN
      BY <3>2 DEF StreamTypeOK
    <3>4. /\ stop' \in {"idle", "starting", "streaming", "flagged", "sent", "closed", "returned", "failed",
                     "killed"}
          /\ fd' \in {"open", "closed", "reused"}
      BY <3>2 DEF StreamTypeOK
    <3> QED
      BY <3>1, <3>3, <3>4 DEF StreamTypeOK
  <2>5. CASE ListenerStep
    <3>1. UNCHANGED <<owner, daemon, asked>>
      BY <2>5 DEF ListenerStep, Test, EnterHeader, EnterPayload, ReadHeader, ReadPayload, Callback
    <3>2. listener' \in {"test", "header", "inHeader", "payload", "inPayload", "callback", "stuck", "ended"}
      BY <2>5 DEF ListenerStep, Test, EnterHeader, EnterPayload, Enters, ReadHeader, ReadPayload, Callback
    <3> QED
      BY <3>1, <3>2 DEF StreamTypeOK
  <2> QED
    BY <1>3, <2>1, <2>2, <2>3, <2>4, <2>5 DEF StreamNext, BroadcastFrame, OwnerStep
<1>4. ASSUME StreamNext
      PROVE  hand' \in Seq(Words)
  <2>1. <<>> \in Seq(Words) /\ Taken(7) \in Seq(Words) /\ hand \in Seq(Words)
    BY EmptySeq, ReadWords DEF StreamTypeOK
  <2>2. hand' \in {hand, <<>>, Taken(7)}
    <3>1. CASE BroadcastFrame \/ HandleStop \/ Crash
      BY <3>1 DEF BroadcastFrame, BroadcastHeader, BroadcastPayload, HandleStop, Crash
    <3>2. CASE StartSession \/ StopBegins \/ Reuse \/ OwnerStep
      BY <3>2 DEF StartSession, StopBegins, Reuse, OwnerStep, StartListener, StartFails, SendStop, CloseSession, Join
    <3>3. CASE ListenerStep
      BY <3>3 DEF ListenerStep, Test, EnterHeader, EnterPayload, Enters, ReadHeader, ReadPayload, Callback
    <3> QED
      BY <1>4, <3>1, <3>2, <3>3 DEF StreamNext
  <2> QED
    BY <2>1, <2>2
<1>5. ASSUME StreamNext
      PROVE  lost' \in 0 .. MaxFrames
  <2>1. lost' \in {lost, lost + 1}
    <3>1. CASE BroadcastFrame \/ HandleStop \/ Crash
      BY <3>1 DEF BroadcastFrame, BroadcastHeader, BroadcastPayload, HandleStop, Crash
    <3>2. CASE StartSession \/ StopBegins \/ Reuse \/ OwnerStep
      BY <3>2 DEF StartSession, StopBegins, Reuse, OwnerStep, StartListener, StartFails, SendStop, CloseSession, Join
    <3>3. CASE ListenerStep
      BY <3>3 DEF ListenerStep, Test, EnterHeader, EnterPayload, ReadHeader, ReadPayload, Callback
    <3> QED
      BY <1>5, <3>1, <3>2, <3>3 DEF StreamNext
  <2>2. lost' \in Nat /\ lost' <= frame' /\ frame' \in 0 .. MaxFrames
    BY <1>3, <1>5, <2>1 DEF StreamTypeOK, CountInv
  <2> QED
    BY <2>2
<1>6. ASSUME StreamNext
      PROVE  /\ written' \in SUBSET Frames /\ delivered' \in SUBSET Frames
             /\ followed' \in Nat /\ foreign' \in Nat /\ garbled' \in 0 .. MaxFrames + 1
  <2>1. frame' \in 0 .. MaxFrames /\ lost' \in 0 .. MaxFrames
    BY <1>3, <1>5, <1>6
  <2>2. written' \subseteq Frames /\ delivered' \subseteq Frames
    BY <2>1 DEF CountInv, Frames
  <2>3. followed' \in Nat /\ foreign' \in 0 .. 1 /\ garbled' \in Nat
    BY DEF ForeignInv, CountInv
  <2>4. garbled' \in 0 .. MaxFrames + 1
    <3>1. One(Pending)' \in 0 .. 1 /\ Debt' \in Nat
      <4>1. DebtTyped'
        BY DebtNatural, PTL
      <4> QED
        BY <4>1 DEF DebtTyped
    <3>2. garbled' + One(Pending)' + Debt' <= lost' + foreign'
      BY DEF GarbledInv
    <3> QED
      BY <2>1, <2>3, <3>1, <3>2, GarbledBound
  <2> QED
    BY <2>2, <2>3, <2>4
<1> QED
  BY <1>1, <1>2, <1>3, <1>4, <1>5, <1>6 DEF StreamTypeOK

-----------------------------------------------------------------------------
(* headers and events stay whole *)

LEMMA FrameOfWord ==
  ASSUME StreamTypeOK, ChainInv, NEW i, NEW j, NEW k
  PROVE  /\ At(stream, i, "header", j, k) => k \in 0 .. frame /\ j \in 1 .. 5
         /\ At(stream, i, "event", j, k) => k \in written /\ j \in 1 .. 7
<1>1. ASSUME NEW kind \in {"header", "event"}, At(stream, i, kind, j, k)
      PROVE  \/ kind = "header" /\ k \in 0 .. frame /\ j \in 1 .. 5
             \/ kind = "event" /\ k \in written /\ j \in 1 .. 7
  <2>1. i \in 1 .. Len(stream)
    BY <1>1 DEF At
  <2>2. CASE \E m \in 1 .. 5, l \in 0 .. frame : At(stream, i, "header", m, l)
    BY <1>1, <2>2, WordUnique
  <2>3. CASE \E m \in 1 .. 7, l \in written : At(stream, i, "event", m, l)
    BY <1>1, <2>3, WordUnique
  <2> QED
    BY <2>1, <2>2, <2>3 DEF ChainInv, WordsKnown
<1> QED
  BY <1>1

(* A header put behind the words. *)
LEMMA ChainHeader ==
  ASSUME StreamTypeOK, ChainInv, NEW n \in 0 .. MaxFrames, stream' = stream \o Header(n),
         frame' \in Nat, frame <= frame', n <= frame',
         UNCHANGED written, n \notin written,
         half' => n = frame' /\ frame < frame',
         registered' => registered /\ n # 0
  PROVE  ChainInv'
<1> DEFINE L == Len(stream)
<1>1. /\ L \in Nat /\ Len(stream') = L + 5 /\ frame \in Nat
      /\ \A i \in Nat : \A kind, j, k :
           At(stream', i, kind, j, k) <=>
             \/ At(stream, i, kind, j, k)
             \/ i - L \in 1 .. 5 /\ kind = "header" /\ j = i - L /\ k = n
  BY HeaderAppended, LenProperties DEF StreamTypeOK
<1> HIDE DEF L
<1>2. ASSUME NEW i \in 1 .. Len(stream')
      PROVE  \/ \E j \in 1 .. 5, k \in 0 .. frame' : At(stream', i, "header", j, k)
             \/ \E j \in 1 .. 7, k \in written' : At(stream', i, "event", j, k)
  <2>1. CASE i \in 1 .. L
    <3>1. CASE \E j \in 1 .. 5, k \in 0 .. frame : At(stream, i, "header", j, k)
      BY <1>1, <3>1
    <3>2. CASE \E j \in 1 .. 7, k \in written : At(stream, i, "event", j, k)
      BY <1>1, <3>2
    <3> QED
      BY <2>1, <3>1, <3>2 DEF ChainInv, WordsKnown, L
  <2>2. CASE i - L \in 1 .. 5
    BY <1>1, <2>2
  <2> QED
    BY <1>1, <2>1, <2>2
<1>3. ASSUME NEW i \in 1 .. Len(stream'), NEW j \in 1 .. 4, NEW k \in 0 .. MaxFrames,
             At(stream', i, "header", j, k)
      PROVE  At(stream', i + 1, "header", j + 1, k)
  <2>1. CASE At(stream, i, "header", j, k)
    <3>1. At(stream, i + 1, "header", j + 1, k)
      BY <2>1 DEF ChainInv, HeadersWhole, At
    <3> QED
      BY <1>1, <3>1
  <2>2. CASE i - L = j /\ k = n
    BY <1>1, <2>2
  <2>3. i \in Nat
    OBVIOUS
  <2>4. At(stream, i, "header", j, k) \/ (j = i - L /\ k = n)
    BY <1>1, <1>3, <2>3
  <2> QED
    BY <2>1, <2>2, <2>4
<1>4. ASSUME NEW i \in 1 .. Len(stream'), NEW j \in 1 .. 6, NEW k \in 0 .. MaxFrames,
             At(stream', i, "event", j, k)
      PROVE  At(stream', i + 1, "event", j + 1, k)
  <2>1. At(stream, i, "event", j, k)
    BY <1>1, <1>4
  <2>2. At(stream, i + 1, "event", j + 1, k)
    BY <2>1, SMTT(20) DEF ChainInv, EventsWhole, At
  <2> QED
    BY <1>1, <2>2
<1>5. ASSUME NEW i \in 1 .. Len(stream'), NEW k \in written', At(stream', i, "header", 5, k)
      PROVE  At(stream', i + 1, "event", 1, k)
  <2>1. At(stream, i, "header", 5, k)
    BY <1>1, <1>5
  <2>2. At(stream, i + 1, "event", 1, k)
    BY <2>1 DEF ChainInv, EventFollows, At
  <2> QED
    BY <1>1, <2>2
<1>6. ASSUME NEW i \in 1 .. Len(stream'), half', At(stream', i, "header", 5, frame')
      PROVE  i = Len(stream')
  <2>1. ~ At(stream, i, "header", 5, frame')
    BY <1>1, <1>6, FrameOfWord
  <2> QED
    BY <1>1, <1>6, <2>1
<1>7. ASSUME registered', NEW i \in 1 .. Len(stream'), NEW j \in 1 .. 5
      PROVE  ~ At(stream', i, "header", j, 0)
  <2>1. ~ At(stream, i, "header", j, 0)
    BY <1>7 DEF ChainInv, NoAnswer, At
  <2> QED
    BY <1>1, <1>7, <2>1
<1> QED
  BY <1>2, <1>3, <1>4, <1>5, <1>6, <1>7 DEF ChainInv, WordsKnown, HeadersWhole, EventsWhole, EventFollows, HalfIsLast, NoAnswer

(* The event of the frame begun, put behind its header or what is left of it. *)
LEMMA ChainEvent ==
  ASSUME StreamTypeOK, ChainInv, half, frame \in Frames, stream' = stream \o Event(frame),
         written' = written \cup {frame}, frame' = frame, ~half', UNCHANGED registered
  PROVE  ChainInv'
<1> DEFINE L == Len(stream)
<1>1. /\ L \in Nat /\ Len(stream') = L + 7 /\ frame \in Nat
      /\ \A i \in Nat : \A kind, j, k :
           At(stream', i, kind, j, k) <=>
             \/ At(stream, i, kind, j, k)
             \/ i - L \in 1 .. 7 /\ kind = "event" /\ j = i - L /\ k = frame
  BY EventAppended, LenProperties DEF StreamTypeOK
<1> HIDE DEF L
<1>2. ASSUME NEW i \in 1 .. Len(stream')
      PROVE  \/ \E j \in 1 .. 5, k \in 0 .. frame' : At(stream', i, "header", j, k)
             \/ \E j \in 1 .. 7, k \in written' : At(stream', i, "event", j, k)
  <2>1. CASE i \in 1 .. L
    <3>1. CASE \E j \in 1 .. 5, k \in 0 .. frame : At(stream, i, "header", j, k)
      BY <1>1, <3>1
    <3>2. CASE \E j \in 1 .. 7, k \in written : At(stream, i, "event", j, k)
      BY <1>1, <3>2
    <3> QED
      BY <2>1, <3>1, <3>2 DEF ChainInv, WordsKnown, L
  <2>2. CASE i - L \in 1 .. 7
    <3>1. At(stream', i, "event", i - L, frame) /\ frame \in written'
      BY <1>1, <2>2
    <3> QED
      BY <2>2, <3>1
  <2> QED
    BY <1>1, <2>1, <2>2
<1>3. ASSUME NEW i \in 1 .. Len(stream'), NEW j \in 1 .. 4, NEW k \in 0 .. MaxFrames,
             At(stream', i, "header", j, k)
      PROVE  At(stream', i + 1, "header", j + 1, k)
  <2>1. At(stream, i, "header", j, k)
    BY <1>1, <1>3
  <2>2. At(stream, i + 1, "header", j + 1, k)
    BY <2>1 DEF ChainInv, HeadersWhole, At
  <2> QED
    BY <1>1, <2>2
<1>4. ASSUME NEW i \in 1 .. Len(stream'), NEW j \in 1 .. 6, NEW k \in 0 .. MaxFrames,
             At(stream', i, "event", j, k)
      PROVE  At(stream', i + 1, "event", j + 1, k)
  <2>1. CASE At(stream, i, "event", j, k)
    <3>1. At(stream, i + 1, "event", j + 1, k)
      BY <2>1 DEF ChainInv, EventsWhole, At
    <3> QED
      BY <1>1, <3>1
  <2>2. CASE i - L = j /\ k = frame
    BY <1>1, <2>2
  <2> QED
    BY <1>1, <1>4, <2>1, <2>2
<1>5. ASSUME NEW i \in 1 .. Len(stream'), NEW k \in written', At(stream', i, "header", 5, k)
      PROVE  At(stream', i + 1, "event", 1, k)
  <2>1. At(stream, i, "header", 5, k)
    BY <1>1, <1>5
  <2>2. i \in 1 .. Len(stream)
    BY <2>1 DEF At
  <2>3. CASE k = frame
    <3>1. i = L
      BY <2>1, <2>2, <2>3 DEF ChainInv, HalfIsLast, L
    <3> QED
      BY <1>1, <2>3, <3>1
  <2>4. CASE k \in written
    <3>1. At(stream, i + 1, "event", 1, k)
      BY <2>1, <2>2, <2>4 DEF ChainInv, EventFollows
    <3> QED
      BY <1>1, <3>1
  <2> QED
    BY <2>3, <2>4
<1>6. ASSUME registered', NEW i \in 1 .. Len(stream'), NEW j \in 1 .. 5
      PROVE  ~ At(stream', i, "header", j, 0)
  <2>1. ~ At(stream, i, "header", j, 0)
    BY <1>6 DEF ChainInv, NoAnswer, At
  <2> QED
    BY <1>1, <1>6, <2>1
<1> QED
  BY <1>2, <1>3, <1>4, <1>5, <1>6 DEF ChainInv, WordsKnown, HeadersWhole, EventsWhole, EventFollows,
                                        HalfIsLast, NoAnswer

(* Words taken off the front. *)
LEMMA ChainTaken ==
  ASSUME StreamTypeOK, ChainInv, NEW n \in Nat, stream' = Left(n),
         UNCHANGED <<written, frame, half, registered>>
  PROVE  ChainInv'
<1> DEFINE d == Least(n, Len(stream))
<1>1. /\ d \in Nat /\ d <= Len(stream) /\ Len(stream) \in Nat /\ Len(stream') = Len(stream) - d
      /\ \A i \in Nat : \A kind, j, k : At(stream', i, kind, j, k) <=> i >= 1 /\ At(stream, i + d, kind, j, k)
  BY ReadWords, LenProperties DEF StreamTypeOK
<1> HIDE DEF d
<1>2. \A i \in 1 .. Len(stream') : i \in Nat /\ i + d \in 1 .. Len(stream) /\ i + 1 \in Nat
                                   /\ (i + d) + 1 = (i + 1) + d /\ (i + d = Len(stream) => i = Len(stream'))
  BY <1>1
<1>3. \A i \in 1 .. Len(stream') :
        \/ \E j \in 1 .. 5, k \in 0 .. frame : At(stream', i, "header", j, k)
        \/ \E j \in 1 .. 7, k \in written : At(stream', i, "event", j, k)
  <2> TAKE i \in 1 .. Len(stream')
  <2>1. CASE \E j \in 1 .. 5, k \in 0 .. frame : At(stream, i + d, "header", j, k)
    BY <1>1, <1>2, <2>1
  <2>2. CASE \E j \in 1 .. 7, k \in written : At(stream, i + d, "event", j, k)
    BY <1>1, <1>2, <2>2
  <2> QED
    BY <1>2, <2>1, <2>2 DEF ChainInv, WordsKnown
<1>4. \A i \in 1 .. Len(stream'), j \in 1 .. 4, k \in 0 .. MaxFrames :
        At(stream', i, "header", j, k) => At(stream', i + 1, "header", j + 1, k)
  BY <1>1, <1>2 DEF ChainInv, HeadersWhole
<1>5. \A i \in 1 .. Len(stream'), j \in 1 .. 6, k \in 0 .. MaxFrames :
        At(stream', i, "event", j, k) => At(stream', i + 1, "event", j + 1, k)
  BY <1>1, <1>2 DEF ChainInv, EventsWhole
<1>6. \A i \in 1 .. Len(stream'), k \in written :
        At(stream', i, "header", 5, k) => At(stream', i + 1, "event", 1, k)
  BY <1>1, <1>2 DEF ChainInv, EventFollows
<1>7. \A i \in 1 .. Len(stream') : half /\ At(stream', i, "header", 5, frame) => i = Len(stream')
  BY <1>1, <1>2 DEF ChainInv, HalfIsLast
<1>8. registered => \A i \in 1 .. Len(stream'), j \in 1 .. 5 : ~ At(stream', i, "header", j, 0)
  BY <1>1, <1>2 DEF ChainInv, NoAnswer
<1> QED
  BY <1>3, <1>4, <1>5, <1>6, <1>7, <1>8 DEF ChainInv, WordsKnown, HeadersWhole, EventsWhole, EventFollows, HalfIsLast, NoAnswer
LEMMA ChainInductive ==
  ASSUME StreamTypeOK, OwnerInv, CountInv, ChainInv, [StreamNext]_streamvars
  PROVE  ChainInv'
<1> USE DEF owner, thread, daemon, callbacks
<1>1. CASE NoWords
  <2>1. frame \in Nat /\ \A k \in 0 .. frame : k \in 0 .. frame'
    BY <1>1 DEF NoWords, StreamTypeOK
  <2>2. WordsKnown'
    BY <1>1, <2>1 DEF NoWords, ChainInv, WordsKnown
  <2>3. HeadersWhole' /\ EventsWhole' /\ EventFollows'
    BY <1>1 DEF NoWords, ChainInv, HeadersWhole, EventsWhole, EventFollows
  <2>4. HalfIsLast'
    BY <1>1 DEF NoWords, ChainInv, HalfIsLast
  <2>5. NoAnswer'
    <3>1. CASE stream = <<>>
      <4>1. Len(stream) = 0
        BY <3>1
      <4> QED
        BY <1>1, <4>1 DEF NoWords, NoAnswer
    <3> QED
      BY <1>1, <3>1 DEF NoWords, ChainInv, NoAnswer
  <2> QED
    BY <2>2, <2>3, <2>4, <2>5 DEF ChainInv
<1>2. CASE HeaderPut
  <2>1. /\ frame \in Nat /\ frame < MaxFrames /\ frame' = frame + 1 /\ registered
        /\ UNCHANGED <<written, registered>> /\ stream' = stream \o Header(frame + 1)
    BY <1>2 DEF HeaderPut, BroadcastHeader, StreamTypeOK
  <2>2. frame + 1 \in 0 .. MaxFrames /\ frame + 1 \notin written
    BY <2>1 DEF CountInv
  <2> QED
    BY <2>1, <2>2, ChainHeader
<1>3. CASE EventPut
  <2>1. half /\ frame \in Frames
    BY <1>3 DEF EventPut, BroadcastPayload, CountInv, StreamTypeOK, Frames
  <2> QED
    BY <1>3, <2>1, ChainEvent DEF EventPut, BroadcastPayload
<1>4. CASE AnswerPut
  <2>1. /\ frame \in Nat /\ frame' = frame /\ ~half' /\ registered' = FALSE /\ UNCHANGED written
        /\ stream' = stream \o Header(0)
    BY <1>4 DEF AnswerPut, HandleStop, StreamTypeOK
  <2>2. 0 \in 0 .. MaxFrames /\ 0 \notin written
    BY <2>1 DEF CountInv
  <2> QED
    BY <2>1, <2>2, ChainHeader
<1>5. CASE HeaderTaken \/ PayloadTaken
  <2>1. PICK n \in Nat : stream' = Left(n)
    BY <1>5 DEF HeaderTaken, PayloadTaken
  <2>2. UNCHANGED <<written, frame, half, registered>>
    BY <1>5 DEF HeaderTaken, PayloadTaken, ReadHeader, ReadPayload
  <2> QED
    BY <2>1, <2>2, ChainTaken
<1> QED
  BY <1>1, <1>2, <1>3, <1>4, <1>5, StreamChange

-----------------------------------------------------------------------------
(* frames follow each other in order *)

LEMMA OrderHeader ==
  ASSUME StreamTypeOK, ChainInv, OrderInv, NEW n \in 0 .. MaxFrames, stream' = stream \o Header(n),
         n = 0 \/ n > frame, UNCHANGED <<hand, written, delivered>>
  PROVE  OrderInv'
<1> DEFINE L == Len(stream)
<1>1. /\ L \in Nat /\ Len(stream') = L + 5 /\ frame \in Nat
      /\ \A i \in Nat : \A kind, j, k :
           At(stream', i, kind, j, k) <=>
             \/ At(stream, i, kind, j, k)
             \/ i - L \in 1 .. 5 /\ kind = "header" /\ j = i - L /\ k = n
  BY HeaderAppended, LenProperties DEF StreamTypeOK
<1>2. ASSUME NEW i \in 1 .. Len(stream'), NEW k \in Frames, At(stream', i, "event", 7, k)
      PROVE  i \in 1 .. Len(stream) /\ At(stream, i, "event", 7, k)
  <2>1. At(stream, i, "event", 7, k)
    BY <1>1, <1>2
  <2> QED
    BY <2>1 DEF At
<1>3. ASSUME NEW i \in 1 .. Len(stream'), NEW j \in 1 .. Len(stream'), NEW k \in Frames,
             At(stream', i, "header", 1, k), At(stream', j, "header", 1, k)
      PROVE  i = j
  <2>1. k = n => ~ At(stream, i, "header", 1, k) /\ ~ At(stream, j, "header", 1, k)
    BY <1>1, FrameOfWord DEF Frames
  <2>2. CASE At(stream, i, "header", 1, k) /\ At(stream, j, "header", 1, k)
    BY <2>2 DEF OrderInv, At
  <2>3. CASE i - L = 1 /\ j - L = 1
    BY <1>1, <2>3
  <2> QED
    BY <1>1, <1>3, <2>1, <2>2, <2>3
<1> QED
  BY <1>2, <1>3 DEF OrderInv

LEMMA OrderEvent ==
  ASSUME StreamTypeOK, ChainInv, CountInv, OrderInv, half, frame \in Frames,
         stream' = stream \o Event(frame), written' = written \cup {frame}, UNCHANGED <<hand, delivered>>
  PROVE  OrderInv'
<1> DEFINE L == Len(stream)
<1>1. /\ L \in Nat /\ Len(stream') = L + 7 /\ frame \in Nat
      /\ \A i \in Nat : \A kind, j, k :
           At(stream', i, kind, j, k) <=>
             \/ At(stream, i, kind, j, k)
             \/ i - L \in 1 .. 7 /\ kind = "event" /\ j = i - L /\ k = frame
  BY EventAppended, LenProperties DEF StreamTypeOK
<1>2. \A k \in written : k < frame
  BY <1>1 DEF CountInv
<1>3. ASSUME NEW i \in 1 .. Len(stream'), NEW l \in Frames, At(stream', i, "event", 7, l)
      PROVE  \/ i \in 1 .. L /\ At(stream, i, "event", 7, l) /\ l < frame
             \/ i = L + 7 /\ l = frame
  <2>1. At(stream, i, "event", 7, l) => i \in 1 .. L /\ l < frame
    BY <1>2, FrameOfWord DEF At
  <2> QED
    BY <1>1, <1>3, <2>1
<1>4. ASSUME NEW i \in 1 .. Len(stream'), NEW j \in 1 .. Len(stream'), NEW k \in Frames,
             At(stream', i, "header", 1, k), At(stream', j, "header", 1, k)
      PROVE  i = j
  <2>1. At(stream, i, "header", 1, k) /\ At(stream, j, "header", 1, k)
    BY <1>1, <1>4
  <2> QED
    BY <2>1 DEF OrderInv, At
<1>5. ASSUME NEW i \in 1 .. Len(stream'), NEW j \in 1 .. Len(stream'), NEW k \in Frames, NEW l \in Frames,
             At(stream', i, "event", 7, k), At(stream', j, "event", 7, l), i < j
      PROVE  k < l
  <2>1. CASE i \in 1 .. L /\ At(stream, i, "event", 7, k) /\ k < frame
    <3>1. CASE j \in 1 .. L /\ At(stream, j, "event", 7, l) /\ l < frame
      BY <1>5, <2>1, <3>1 DEF OrderInv
    <3>2. CASE j = L + 7 /\ l = frame
      BY <2>1, <3>2
    <3> QED
      BY <1>3, <1>5, <3>1, <3>2
  <2>2. CASE i = L + 7 /\ k = frame
    <3>1. j <= L + 7
      BY <1>1
    <3> QED
      BY <1>1, <1>5, <2>2, <3>1
  <2> QED
    BY <1>3, <1>5, <2>1, <2>2
<1>6. ASSUME NEW k \in Frames, hand' = Event(k)
      PROVE  /\ k \in written'
             /\ \A d \in delivered' : d < k
             /\ \A i \in 1 .. Len(stream'), l \in Frames : At(stream', i, "event", 7, l) => k < l
  <2>1. k \in written /\ k < frame
    BY <1>2, <1>6 DEF OrderInv
  <2>2. ASSUME NEW i \in 1 .. Len(stream'), NEW l \in Frames, At(stream', i, "event", 7, l)
        PROVE  k < l
    BY <1>3, <1>6, <2>1, <2>2 DEF OrderInv
  <2> QED
    BY <1>6, <2>1, <2>2 DEF OrderInv
<1>7. ASSUME NEW d \in delivered', NEW i \in 1 .. Len(stream'), NEW l \in Frames,
             At(stream', i, "event", 7, l)
      PROVE  d < l
  <2>1. d \in written /\ d < frame
    BY <1>2 DEF CountInv
  <2> QED
    BY <1>3, <1>7, <2>1 DEF OrderInv
<1> QED
  BY <1>4, <1>5, <1>6, <1>7 DEF OrderInv
(* What is left after a read keeps its order, and an event that was read     *)
(* comes before it.                                                          *)
LEMMA OrderTaken ==
  ASSUME StreamTypeOK, ChainInv, OrderInv, NEW n \in Nat, stream' = Left(n),
         UNCHANGED <<written, delivered>>, hand' = hand \/ (n = 7 /\ hand' = Taken(7))
  PROVE  OrderInv'
<1> DEFINE d == Least(n, Len(stream))
<1>1. /\ d \in Nat /\ d <= Len(stream) /\ Len(stream) \in Nat /\ Len(stream') = Len(stream) - d
      /\ \A i \in Nat : \A kind, j, k : At(stream', i, kind, j, k) <=> i >= 1 /\ At(stream, i + d, kind, j, k)
  BY ReadWords, LenProperties DEF StreamTypeOK
<1>2. Len(Taken(n)) = d /\ \A i \in 1 .. d : Taken(n)[i] = stream[i]
  BY ReadWords DEF StreamTypeOK
<1> HIDE DEF d
<1>3. \A i \in 1 .. Len(stream') : i \in Nat /\ i + d \in 1 .. Len(stream)
  BY <1>1
<1>4. \A i, j \in 1 .. Len(stream'), k \in Frames :
        At(stream', i, "header", 1, k) /\ At(stream', j, "header", 1, k) => i = j
  <2> SUFFICES ASSUME NEW i \in 1 .. Len(stream'), NEW j \in 1 .. Len(stream'), NEW k \in Frames,
                      At(stream', i, "header", 1, k), At(stream', j, "header", 1, k)
               PROVE  i = j
    OBVIOUS
  <2>1. i + d = j + d
    BY <1>1, <1>3 DEF OrderInv
  <2> QED
    BY <1>1, <2>1
<1>5. \A i, j \in 1 .. Len(stream'), k, l \in Frames :
        At(stream', i, "event", 7, k) /\ At(stream', j, "event", 7, l) /\ i < j => k < l
  <2> SUFFICES ASSUME NEW i \in 1 .. Len(stream'), NEW j \in 1 .. Len(stream'), NEW k \in Frames,
                      NEW l \in Frames, At(stream', i, "event", 7, k), At(stream', j, "event", 7, l), i < j
               PROVE  k < l
    OBVIOUS
  <2>1. i + d < j + d
    BY <1>1
  <2> QED
    BY <1>1, <1>3, <2>1 DEF OrderInv
<1>6. \A c \in delivered, i \in 1 .. Len(stream'), l \in Frames : At(stream', i, "event", 7, l) => c < l
  BY <1>1, <1>3 DEF OrderInv
<1>7. ASSUME NEW k \in Frames, hand' = Event(k)
      PROVE  /\ k \in written
             /\ \A c \in delivered : c < k
             /\ \A i \in 1 .. Len(stream'), l \in Frames : At(stream', i, "event", 7, l) => k < l
  <2>1. CASE hand' = hand
    <3>1. /\ k \in written /\ \A c \in delivered : c < k
          /\ \A i \in 1 .. Len(stream), l \in Frames : At(stream, i, "event", 7, l) => k < l
      BY <1>7, <2>1 DEF OrderInv
    <3> QED
      BY <1>1, <1>3, <3>1
  <2>2. CASE n = 7 /\ hand' = Taken(7)
    <3>1. d = 7 /\ At(stream, 7, "event", 7, k)
      <4>1. Len(Event(k)) = 7 /\ Event(k)[7] = <<"event", 7, k>>
        BY EventWords
      <4>2. d = 7 /\ stream[7] = <<"event", 7, k>>
        BY <1>2, <1>7, <2>2, <4>1
      <4> QED
        BY <1>1, <4>2 DEF At
    <3>2. k \in written /\ \A c \in delivered : c < k
      BY <1>1, <3>1, FrameOfWord DEF OrderInv
    <3>3. ASSUME NEW i \in 1 .. Len(stream'), NEW l \in Frames, At(stream', i, "event", 7, l)
          PROVE  k < l
      <4>1. At(stream, i + 7, "event", 7, l) /\ 7 < i + 7 /\ i + 7 \in 1 .. Len(stream)
            /\ 7 \in 1 .. Len(stream)
        BY <1>1, <1>3, <3>1, <3>3
      <4> QED
        BY <3>1, <4>1 DEF OrderInv
    <3> QED
      BY <3>2, <3>3
  <2> QED
    BY <2>1, <2>2
<1> QED
  BY <1>4, <1>5, <1>6, <1>7 DEF OrderInv

(* An event given to the callback is the last one before those of the stream. *)
LEMMA OrderNoWords ==
  ASSUME OrderInv, NoWords
  PROVE  OrderInv'
<1>1. \A k \in Frames : Event(k) # <<>>
  BY EventWords
<1>2. UNCHANGED <<stream, written>>
  BY DEF NoWords
<1>3. CASE UNCHANGED delivered /\ hand' \in {hand, <<>>}
  BY <1>1, <1>2, <1>3 DEF OrderInv
<1>4. CASE delivered' = delivered \cup {k \in Frames : hand = Event(k)} /\ hand' = <<>>
  BY <1>1, <1>2, <1>4 DEF OrderInv
<1> QED
  BY <1>3, <1>4 DEF NoWords

LEMMA OrderInductive ==
  ASSUME StreamTypeOK, OwnerInv, CountInv, ChainInv, OrderInv, [StreamNext]_streamvars
  PROVE  OrderInv'
<1> USE DEF owner, thread, daemon, callbacks
<1>1. CASE HeaderPut
  <2>1. /\ frame \in Nat /\ frame < MaxFrames /\ UNCHANGED <<hand, written, delivered>>
        /\ stream' = stream \o Header(frame + 1)
    BY <1>1 DEF HeaderPut, BroadcastHeader, StreamTypeOK
  <2>2. frame + 1 \in 0 .. MaxFrames /\ frame + 1 > frame
    BY <2>1
  <2> QED
    BY <2>1, <2>2, OrderHeader
<1>2. CASE EventPut
  <2>1. half /\ frame \in Frames
    BY <1>2 DEF EventPut, BroadcastPayload, CountInv, StreamTypeOK, Frames
  <2> QED
    BY <1>2, <2>1, OrderEvent DEF EventPut, BroadcastPayload
<1>3. CASE AnswerPut
  <2>1. UNCHANGED <<hand, written, delivered>> /\ stream' = stream \o Header(0) /\ 0 \in 0 .. MaxFrames
    BY <1>3 DEF AnswerPut, HandleStop
  <2> QED
    BY <2>1, OrderHeader
<1>4. CASE HeaderTaken
  BY <1>4, OrderTaken DEF HeaderTaken, ReadHeader
<1>5. CASE PayloadTaken
  BY <1>5, OrderTaken DEF PayloadTaken, ReadPayload
<1> QED
  BY <1>1, <1>2, <1>3, <1>4, <1>5, OrderNoWords, StreamChange

-----------------------------------------------------------------------------
(* a garbled event has been paid for by a loss *)

LEMMA DebtPrimed == DebtTyped'
BY DebtNatural, PTL

LEMMA DebtSum ==
  ASSUME NEW g \in Nat, NEW a \in Nat, NEW s \in Nat, g + a <= s,
         NEW x \in Nat, NEW p \in Nat, NEW d \in Nat, p + d <= a + x
  PROVE  g + p + d <= s + x
OBVIOUS

LEMMA DebtStep ==
  ASSUME StreamTypeOK, GarbledInv, UNCHANGED garbled, lost' \in Nat, foreign' \in Nat, NEW x \in Nat,
         lost' + foreign' = lost + foreign + x,
         One(Pending') + Debt' <= One(Pending) + Debt + x
  PROVE  GarbledInv'
<1>1. /\ garbled \in Nat /\ lost \in Nat /\ foreign \in Nat
      /\ One(Pending) \in Nat /\ Debt \in Nat /\ One(Pending') \in Nat /\ Debt' \in Nat
  BY DebtNatural, DebtPrimed, SMTT(20) DEF StreamTypeOK, DebtTyped
<1>2. garbled + One(Pending) + Debt <= lost + foreign
  BY DEF GarbledInv
<1>3. garbled + One(Pending') + Debt' <= (lost + foreign) + x
  <2>1. /\ One(Pending) + Debt \in Nat /\ lost + foreign \in Nat
        /\ garbled + (One(Pending) + Debt) <= lost + foreign
    BY <1>1, <1>2
  <2> QED
    BY <1>1, <2>1, DebtSum
<1> QED
  BY <1>3 DEF GarbledInv

(* The debt does not grow if nothing is added to what it counts. *)
LEMMA DebtFalls ==
  ASSUME Deserted => Deserted',
         ~Deserted' => Unfollowed' \subseteq Unfollowed /\ (Owed' => Owed)
  PROVE  Debt' <= Debt
<1>1. DebtTyped /\ DebtTyped'
  BY DebtNatural, DebtPrimed
<1>2. CASE Deserted'
  BY <1>1, <1>2 DEF Debt, DebtTyped
<1>3. CASE ~Deserted'
  <2>1. Cardinality(Unfollowed') <= Cardinality(Unfollowed)
    BY <1>1, <1>3, FS_Subset DEF DebtTyped
  <2>2. One(Owed') <= One(Owed)
    BY <1>3 DEF One
  <2>3. Debt = Cardinality(Unfollowed) + One(Owed) /\ Debt' = Cardinality(Unfollowed') + One(Owed')
    BY <1>3 DEF Debt
  <2>4. /\ Cardinality(Unfollowed) \in Nat /\ Cardinality(Unfollowed') \in Nat
        /\ One(Owed) \in Nat /\ One(Owed') \in Nat
    BY <1>1 DEF DebtTyped
  <2> QED
    BY <2>1, <2>2, <2>3, <2>4
<1> QED
  BY <1>2, <1>3

(* Nobody's debt grows, and nothing was garbled. *)
LEMMA NoDebt ==
  ASSUME StreamTypeOK, GarbledInv, UNCHANGED garbled, lost' \in Nat, foreign' \in Nat,
         NEW x \in Nat, lost' + foreign' = lost + foreign + x, Pending' => Pending,
         Deserted => Deserted',
         ~Deserted' => Unfollowed' \subseteq Unfollowed /\ (Owed' => Owed)
  PROVE  GarbledInv'
<1>1. Debt' <= Debt
  BY DebtFalls
<1>2. One(Pending') <= One(Pending)
  BY DEF One
<1>3. One(Pending) \in Nat /\ Debt \in Nat /\ One(Pending') \in Nat /\ Debt' \in Nat
  BY DebtNatural, DebtPrimed DEF DebtTyped
<1>4. One(Pending') + Debt' <= One(Pending) + Debt + x
  BY <1>1, <1>2, <1>3
<1> QED
  BY <1>4, DebtStep

(* Words put behind those that are there change what the listener finds     *)
(* first only if nothing is there.                                          *)
LEMMA OwedPut ==
  ASSUME StreamTypeOK, UNCHANGED listener, Owed', Len(stream') > 0,
         \A k : At(stream, 1, "event", 1, k) => At(stream', 1, "event", 1, k),
         stream = <<>> => ~half
  PROVE  Owed
<1>1. stream' # <<>>
  OBVIOUS
<1>2. \A k \in Frames : ~ At(stream', 1, "event", 1, k)
  BY <1>1 DEF Owed
<1> QED
  BY <1>2 DEF Owed, InPayload

LEMMA GarbledHeader ==
  ASSUME StreamTypeOK, CountInv, ChainInv, GarbledInv, HeaderPut
  PROVE  GarbledInv'
<1> USE DEF owner, thread, daemon, callbacks
<1>1. /\ frame \in Nat /\ frame + 1 \in 0 .. MaxFrames /\ frame' = frame + 1 /\ ~half /\ half'
      /\ UNCHANGED <<fd, listener, hand, garbled, lost, foreign, written>>
      /\ stream' = stream \o Header(frame + 1)
  BY DEF HeaderPut, BroadcastHeader, StreamTypeOK
<1>2. /\ Len(stream) \in Nat /\ Len(stream') = Len(stream) + 5
      /\ \A i \in Nat : \A kind, j, k :
           At(stream', i, kind, j, k) <=>
             \/ At(stream, i, kind, j, k)
             \/ i - Len(stream) \in 1 .. 5 /\ kind = "header" /\ j = i - Len(stream) /\ k = frame + 1
  BY <1>1, HeaderAppended, LenProperties DEF StreamTypeOK
<1>3. Unfollowed' \subseteq Unfollowed
  <2> SUFFICES ASSUME NEW k \in Frames, NEW i \in 1 .. Len(stream'), At(stream', i, "header", 1, k),
                      k \notin written, k # frame + 1
               PROVE  k \in Unfollowed
    BY <1>1 DEF Unfollowed
  <2>1. At(stream, i, "header", 1, k)
    BY <1>2
  <2> QED
    BY <1>1, <2>1 DEF Unfollowed, At
<1>4. Owed' => Owed
  BY <1>1, <1>2, OwedPut
<1>5. (Deserted => Deserted') /\ (Pending' => Pending)
  BY <1>1 DEF Deserted, Pending
<1>6. lost' \in Nat /\ foreign' \in Nat /\ lost' + foreign' = lost + foreign + 0
  BY <1>1 DEF StreamTypeOK
<1> QED
  BY <1>1, <1>3, <1>4, <1>5, <1>6, NoDebt

LEMMA GarbledAnswer ==
  ASSUME StreamTypeOK, CountInv, ChainInv, GarbledInv, AnswerPut
  PROVE  GarbledInv'
<1> USE DEF owner, thread, daemon, callbacks
<1>1. /\ ~half /\ ~half' /\ stream' = stream \o Header(0) /\ 0 \in 0 .. MaxFrames
      /\ UNCHANGED <<fd, listener, hand, garbled, lost, foreign, written>>
  BY DEF AnswerPut, HandleStop, StreamTypeOK
<1>2. /\ Len(stream) \in Nat /\ Len(stream') = Len(stream) + 5
      /\ \A i \in Nat : \A kind, j, k :
           At(stream', i, kind, j, k) <=>
             \/ At(stream, i, kind, j, k)
             \/ i - Len(stream) \in 1 .. 5 /\ kind = "header" /\ j = i - Len(stream) /\ k = 0
  BY <1>1, HeaderAppended, LenProperties DEF StreamTypeOK
<1>3. Unfollowed' \subseteq Unfollowed
  <2> SUFFICES ASSUME NEW k \in Frames, NEW i \in 1 .. Len(stream'), At(stream', i, "header", 1, k),
                      k \notin written
               PROVE  k \in Unfollowed
    BY <1>1 DEF Unfollowed
  <2>1. At(stream, i, "header", 1, k)
    BY <1>2 DEF Frames
  <2> QED
    BY <1>1, <2>1 DEF Unfollowed, At
<1>4. Owed' => Owed
  BY <1>1, <1>2, OwedPut
<1>5. (Deserted => Deserted') /\ (Pending' => Pending)
  BY <1>1 DEF Deserted, Pending
<1>6. lost' \in Nat /\ foreign' \in Nat /\ lost' + foreign' = lost + foreign + 0
  BY <1>1 DEF StreamTypeOK
<1> QED
  BY <1>1, <1>3, <1>4, <1>5, <1>6, NoDebt

LEMMA GarbledEvent ==
  ASSUME StreamTypeOK, CountInv, ChainInv, GarbledInv, EventPut
  PROVE  GarbledInv'
<1> USE DEF owner, thread, daemon, callbacks
<1>1. /\ frame \in Frames /\ half /\ ~half' /\ stream' = stream \o Event(frame)
      /\ written' = written \cup {frame}
      /\ UNCHANGED <<fd, listener, hand, garbled, lost, foreign, frame>>
  BY DEF EventPut, BroadcastPayload, StreamTypeOK, CountInv, Frames
<1>2. /\ Len(stream) \in Nat /\ Len(stream') = Len(stream) + 7
      /\ \A i \in Nat : \A kind, j, k :
           At(stream', i, kind, j, k) <=>
             \/ At(stream, i, kind, j, k)
             \/ i - Len(stream) \in 1 .. 7 /\ kind = "event" /\ j = i - Len(stream) /\ k = frame
  BY <1>1, EventAppended, LenProperties DEF StreamTypeOK
<1>3. Unfollowed' \subseteq Unfollowed
  <2> SUFFICES ASSUME NEW k \in Frames, NEW i \in 1 .. Len(stream'), At(stream', i, "header", 1, k),
                      k \notin written, k # frame
               PROVE  k \in Unfollowed
    BY <1>1 DEF Unfollowed
  <2>1. At(stream, i, "header", 1, k)
    BY <1>2
  <2> QED
    BY <1>1, <2>1 DEF Unfollowed, At
<1>4. ASSUME Owed'  PROVE Owed
  <2>1. stream' # <<>>
    BY <1>2
  <2>2. stream # <<>>
    <3>1. ~ At(stream', 1, "event", 1, frame)
      BY <1>1, <1>4, <2>1 DEF Owed
    <3>2. Len(stream) # 0
      BY <1>2, <3>1
    <3> QED
      BY <3>2
  <2> QED
    BY <1>1, <1>2, <1>4, <2>2, OwedPut
<1>5. (Deserted => Deserted') /\ (Pending' => Pending)
  BY <1>1 DEF Deserted, Pending
<1>6. lost' \in Nat /\ foreign' \in Nat /\ lost' + foreign' = lost + foreign + 0
  BY <1>1 DEF StreamTypeOK
<1> QED
  BY <1>1, <1>3, <1>4, <1>5, <1>6, NoDebt

(* A payload is dropped behind its header, which is paid for, or the writer  *)
(* ends.                                                                     *)
LEMMA GarbledLoss ==
  ASSUME StreamTypeOK, CountInv, GarbledInv, BroadcastPayload, UNCHANGED <<stream, written>>
  PROVE  GarbledInv'
<1> USE DEF owner, thread, daemon, callbacks
<1>1. /\ half /\ ~half' /\ UNCHANGED <<fd, listener, hand, garbled, foreign, frame, stream, written>>
      /\ lost \in Nat /\ foreign \in Nat
  BY DEF BroadcastPayload, StreamTypeOK
<1>2. (Pending' <=> Pending) /\ (Deserted' <=> Deserted)
  BY <1>1 DEF Pending, Deserted
<1>3. CASE Deserted
  <2>1. UNCHANGED lost
    BY <1>3 DEF BroadcastPayload
  <2>2. lost' \in Nat /\ foreign' \in Nat /\ lost' + foreign' = lost + foreign + 0
    BY <1>1, <2>1
  <2> QED
    BY <1>1, <1>2, <1>3, <2>2, NoDebt
<1>4. CASE ~Deserted /\ lost' = lost + 1
  <2>1. lost' \in Nat /\ foreign' \in Nat /\ lost' + foreign' = lost + foreign + 1
    BY <1>1, <1>4
  <2>2. /\ Unfollowed' \subseteq Unfollowed \cup {frame}
        /\ stream = <<>> => Unfollowed' = {}
    <3>1. stream = <<>> => Len(stream) = 0
      OBVIOUS
    <3> QED
      BY <1>1, <3>1 DEF Unfollowed, At
  <2>3. stream # <<>> => (Owed' <=> Owed)
    BY <1>1 DEF Owed, InPayload
  <2>4. /\ DebtTyped /\ DebtTyped'
        /\ Debt = Cardinality(Unfollowed) + One(Owed) /\ Debt' = Cardinality(Unfollowed') + One(Owed')
    BY <1>2, <1>4, DebtNatural, DebtPrimed DEF Debt
  <2>5. Debt' <= Debt + 1
    <3>1. CASE stream = <<>>
      <4>1. Cardinality(Unfollowed') = 0
        BY <2>2, <3>1, FS_EmptySet
      <4> QED
        BY <2>4, <4>1 DEF DebtTyped
    <3>2. CASE stream # <<>>
      <4>1. /\ IsFiniteSet(Unfollowed \cup {frame})
            /\ \/ Cardinality(Unfollowed \cup {frame}) = Cardinality(Unfollowed)
               \/ Cardinality(Unfollowed \cup {frame}) = Cardinality(Unfollowed) + 1
        <5>1. IsFiniteSet(Unfollowed)
          BY <2>4 DEF DebtTyped
        <5> QED
          BY <5>1, FS_AddElement
      <4>2. Cardinality(Unfollowed') <= Cardinality(Unfollowed \cup {frame})
        BY <2>2, <4>1, FS_Subset
      <4>3. Cardinality(Unfollowed') <= Cardinality(Unfollowed) + 1
        BY <2>4, <4>1, <4>2, FS_CardinalityType DEF DebtTyped
      <4> QED
        BY <2>3, <2>4, <3>2, <4>3 DEF DebtTyped, One
    <3> QED
      BY <3>1, <3>2
  <2>6. One(Pending') + Debt' <= One(Pending) + Debt + 1
    BY <1>2, <2>4, <2>5 DEF DebtTyped, One
  <2> QED
    BY <1>1, <2>1, <2>6, DebtStep
<1>5. CASE ~Deserted /\ ~(lost' = lost + 1)
  <2>1. stream' = stream \o Event(frame) /\ written' = written \cup {frame}
    BY <1>5 DEF BroadcastPayload
  <2>2. frame \in written
    BY <1>1, <2>1
  <2> QED
    BY <1>1, <2>2 DEF CountInv
<1> QED
  BY <1>3, <1>4, <1>5

(* A whole event at the front of the stream is what a read of a payload takes. *)
LEMMA WholeEvent ==
  ASSUME StreamTypeOK, ChainInv, NEW k \in Frames, At(stream, 1, "event", 1, k)
  PROVE  /\ Len(stream) >= 7 /\ Taken(7) = Event(k)
         /\ \A i \in 1 .. 7 : At(stream, i, "event", i, k)
<1>1. \A i \in 1 .. 6 : At(stream, i, "event", i, k) => At(stream, i + 1, "event", i + 1, k)
  BY DEF ChainInv, EventsWhole, At, Frames
<1>2. /\ At(stream, 2, "event", 2, k) /\ At(stream, 3, "event", 3, k) /\ At(stream, 4, "event", 4, k)
      /\ At(stream, 5, "event", 5, k) /\ At(stream, 6, "event", 6, k) /\ At(stream, 7, "event", 7, k)
  BY <1>1
<1>3. Len(stream) >= 7 /\ Len(stream) \in Nat
  BY <1>2, LenProperties DEF At, StreamTypeOK
<1>4. /\ Taken(7) \in Seq(Words) /\ Len(Taken(7)) = 7 /\ \A i \in 1 .. 7 : Taken(7)[i] = stream[i]
      /\ Event(k) \in Seq(Words) /\ Len(Event(k)) = 7 /\ \A i \in 1 .. 7 : Event(k)[i] = <<"event", i, k>>
  <2>1. Least(7, Len(stream)) = 7
    BY <1>3 DEF Least
  <2> QED
    BY <2>1, ReadWords, EventWords DEF StreamTypeOK
<1>5. \A i \in 1 .. 7 : At(stream, i, "event", i, k) /\ stream[i] = <<"event", i, k>>
  BY <1>2 DEF At
<1>6. Taken(7) = Event(k)
  <2>1. Len(Taken(7)) = Len(Event(k)) /\ \A i \in 1 .. Len(Taken(7)) : Taken(7)[i] = Event(k)[i]
    BY <1>4, <1>5
  <2> QED
    BY <1>4, <2>1, SeqEqual
<1> QED
  BY <1>3, <1>5, <1>6

(* A whole header at the front is what a read of a header takes. *)
LEMMA WholeHeader ==
  ASSUME StreamTypeOK, ChainInv, NEW k \in 0 .. MaxFrames, At(stream, 1, "header", 1, k)
  PROVE  /\ Len(stream) >= 5 /\ Taken(5) = Header(k)
         /\ \A i \in 1 .. 5 : At(stream, i, "header", i, k)
<1>1. \A i \in 1 .. 4 : At(stream, i, "header", i, k) => At(stream, i + 1, "header", i + 1, k)
  BY DEF ChainInv, HeadersWhole, At
<1>2. /\ At(stream, 2, "header", 2, k) /\ At(stream, 3, "header", 3, k) /\ At(stream, 4, "header", 4, k)
      /\ At(stream, 5, "header", 5, k)
  BY <1>1
<1>3. Len(stream) >= 5 /\ Len(stream) \in Nat
  BY <1>2, LenProperties DEF At, StreamTypeOK
<1>4. /\ Taken(5) \in Seq(Words) /\ Len(Taken(5)) = 5 /\ \A i \in 1 .. 5 : Taken(5)[i] = stream[i]
      /\ Header(k) \in Seq(Words) /\ Len(Header(k)) = 5
      /\ \A i \in 1 .. 5 : Header(k)[i] = <<"header", i, k>>
  <2>1. Least(5, Len(stream)) = 5
    BY <1>3 DEF Least
  <2> QED
    BY <2>1, ReadWords, HeaderWords DEF StreamTypeOK
<1>5. \A i \in 1 .. 5 : At(stream, i, "header", i, k) /\ stream[i] = <<"header", i, k>>
  BY <1>2 DEF At
<1>6. Taken(5) = Header(k)
  <2>1. Len(Taken(5)) = Len(Header(k)) /\ \A i \in 1 .. Len(Taken(5)) : Taken(5)[i] = Header(k)[i]
    BY <1>4, <1>5
  <2> QED
    BY <1>4, <2>1, SeqEqual
<1> QED
  BY <1>3, <1>5, <1>6

(* What a header that was read says of what is left. *)
LEMMA HeaderRead ==
  ASSUME StreamTypeOK, ChainInv, NEW k \in Frames, Taken(5) = Header(k)
  PROVE  /\ At(stream, 1, "header", 1, k) /\ At(stream, 5, "header", 5, k)
         /\ Len(stream) >= 5 /\ Least(5, Len(stream)) = 5
<1>1. k \in 0 .. MaxFrames /\ 5 \in Nat
  BY DEF Frames
<1>2. Len(Header(k)) = 5 /\ Header(k)[1] = <<"header", 1, k>> /\ Header(k)[5] = <<"header", 5, k>>
  BY <1>1, HeaderWords
<1>3. /\ Len(Taken(5)) = Least(5, Len(stream)) /\ Len(stream) \in Nat
      /\ \A i \in 1 .. Least(5, Len(stream)) : Taken(5)[i] = stream[i]
      /\ Least(5, Len(stream)) <= Len(stream)
  BY <1>1, ReadWords, LenProperties DEF StreamTypeOK
<1>4. Least(5, Len(stream)) = 5
  BY <1>2, <1>3
<1>5. Len(stream) >= 5 /\ stream[1] = <<"header", 1, k>> /\ stream[5] = <<"header", 5, k>>
  BY <1>2, <1>3, <1>4
<1> QED
  BY <1>3, <1>4, <1>5 DEF At

LEMMA UnfollowedTaken ==
  ASSUME StreamTypeOK, NEW n \in Nat, stream' = Left(n), UNCHANGED <<written, half, frame>>
  PROVE  /\ Unfollowed' \subseteq Unfollowed
         /\ \A k \in Unfollowed' : \E i \in 1 .. Len(stream) :
              i > Least(n, Len(stream)) /\ At(stream, i, "header", 1, k)
<1> DEFINE d == Least(n, Len(stream))
<1>1. /\ d \in Nat /\ Len(stream) \in Nat /\ Len(stream') = Len(stream) - d
      /\ \A i \in Nat : \A kind, j, k : At(stream', i, kind, j, k) <=> i >= 1 /\ At(stream, i + d, kind, j, k)
  BY ReadWords, LenProperties DEF StreamTypeOK
<1> HIDE DEF d
<1>2. ASSUME NEW k \in Unfollowed'
      PROVE  \E i \in 1 .. Len(stream) : i > d /\ At(stream, i, "header", 1, k)
  <2>1. PICK i \in 1 .. Len(stream') : At(stream', i, "header", 1, k)
    BY <1>2 DEF Unfollowed
  <2>2. i + d \in 1 .. Len(stream) /\ i + d > d /\ At(stream, i + d, "header", 1, k)
    BY <1>1, <2>1
  <2> QED
    BY <2>2
<1>3. Unfollowed' \subseteq Unfollowed
  BY <1>2 DEF Unfollowed
<1> QED
  BY <1>2, <1>3 DEF d

LEMMA GarbledHeaderRead ==
  ASSUME StreamTypeOK, ChainInv, OrderInv, GarbledInv, ReadHeader
  PROVE  GarbledInv'
<1> USE DEF owner, thread, daemon, callbacks
<1>1. /\ listener = "inHeader" /\ listener' \in {"payload", "test", "ended"}
      /\ UNCHANGED <<fd, half, frame, written, hand, garbled, lost, foreign>>
      /\ lost \in Nat /\ foreign \in Nat
  BY DEF ReadHeader, StreamTypeOK
<1>2. lost' \in Nat /\ foreign' \in Nat /\ lost' + foreign' = lost + foreign + 0
  BY <1>1
<1>3. ~Deserted /\ ~Pending' /\ ~Owed
  BY <1>1 DEF Deserted, Pending, Owed, InPayload
<1>4. CASE UNCHANGED stream /\ listener' = "ended"
  <2>1. Unfollowed' \subseteq Unfollowed /\ ~Owed'
    BY <1>1, <1>4 DEF Unfollowed, Owed, InPayload
  <2> QED
    BY <1>1, <1>2, <1>3, <2>1, NoDebt
<1>5. CASE stream' = Left(5) /\ listener' = "test"
  <2>1. Unfollowed' \subseteq Unfollowed
    BY <1>1, <1>5, UnfollowedTaken
  <2>2. ~Owed'
    BY <1>5 DEF Owed, InPayload
  <2> QED
    BY <1>1, <1>2, <1>3, <2>1, <2>2, NoDebt
<1>6. CASE stream' = Left(5) /\ listener' = "payload" /\ IsHeader(Taken(5))
  <2>1. PICK k \in Frames : Taken(5) = Header(k)
    BY <1>6 DEF IsHeader
  <2>2. /\ At(stream, 1, "header", 1, k) /\ At(stream, 5, "header", 5, k)
        /\ Len(stream) >= 5 /\ Least(5, Len(stream)) = 5
    BY <2>1, HeaderRead
  <2>3. /\ Len(stream) \in Nat /\ Len(stream') = Len(stream) - 5
        /\ \A i \in Nat : \A kind, j, m : At(stream', i, kind, j, m) <=> i >= 1 /\ At(stream, i + 5, kind, j, m)
    BY <1>6, <2>2, ReadWords, LenProperties DEF StreamTypeOK
  <2>4. Unfollowed' \subseteq Unfollowed
    BY <1>1, <1>6, UnfollowedTaken
  <2>5. k \notin Unfollowed'
    <3> SUFFICES ASSUME k \in Unfollowed'  PROVE FALSE
      OBVIOUS
    <3>1. PICK i \in 1 .. Len(stream) : i > 5 /\ At(stream, i, "header", 1, k)
      BY <1>1, <1>6, <2>2, UnfollowedTaken
    <3>2. 1 \in 1 .. Len(stream)
      BY <2>2, <2>3
    <3> QED
      BY <2>2, <3>1, <3>2 DEF OrderInv
  <2>6. CASE k \in Unfollowed
    <3>1. DebtTyped /\ DebtTyped'
      BY DebtNatural, DebtPrimed
    <3>2. /\ IsFiniteSet(Unfollowed \ {k})
          /\ Cardinality(Unfollowed \ {k}) = Cardinality(Unfollowed) - 1
      BY <2>6, <3>1, FS_RemoveElement DEF DebtTyped
    <3>3. Cardinality(Unfollowed') <= Cardinality(Unfollowed) - 1
      <4>1. Unfollowed' \subseteq Unfollowed \ {k}
        BY <2>4, <2>5
      <4> QED
        BY <3>2, <4>1, FS_Subset
    <3>4. Debt = Cardinality(Unfollowed) /\ Debt' <= Cardinality(Unfollowed') + 1
      <4>1. Debt = Cardinality(Unfollowed) + 0
        BY <1>3 DEF Debt, One
      <4>2. Debt' = 0 \/ Debt' = Cardinality(Unfollowed') + One(Owed')
        BY DEF Debt
      <4> QED
        BY <3>1, <4>1, <4>2 DEF DebtTyped
    <3>5. One(Pending') = 0
      BY <1>3 DEF One
    <3>6. One(Pending') + Debt' <= One(Pending) + Debt + 0
      BY <3>1, <3>3, <3>4, <3>5 DEF DebtTyped
    <3> QED
      BY <1>1, <1>2, <3>6, DebtStep
  <2>7. CASE k \notin Unfollowed
    <3>1. k \in written \/ (half /\ k = frame)
      BY <2>2, <2>3, <2>7 DEF Unfollowed
    <3>2. ~Owed'
      <4>1. CASE k \in written
        <5>1. At(stream, 6, "event", 1, k)
          BY <2>2, <2>3, <4>1 DEF ChainInv, EventFollows
        <5>2. At(stream', 1, "event", 1, k)
          BY <2>3, <5>1
        <5>3. Len(stream') # 0
          BY <2>3, <5>2 DEF At
        <5>4. stream' # <<>>
          BY <5>3
        <5> QED
          BY <5>2, <5>4 DEF Owed
      <4>2. CASE half /\ k = frame
        <5>1. Len(stream) = 5
          BY <2>2, <2>3, <4>2 DEF ChainInv, HalfIsLast
        <5>2. stream' = <<>>
          BY <2>3, <5>1, StreamTyped, EmptySeq
        <5> QED
          BY <1>1, <4>2, <5>2 DEF Owed
      <4> QED
        BY <3>1, <4>1, <4>2
    <3> QED
      BY <1>1, <1>2, <1>3, <2>4, <3>2, NoDebt
  <2> QED
    BY <2>6, <2>7
<1> QED
  BY <1>4, <1>5, <1>6 DEF ReadHeader

LEMMA GarbledPayloadRead ==
  ASSUME StreamTypeOK, ChainInv, GarbledInv, ReadPayload
  PROVE  GarbledInv'
<1> USE DEF owner, thread, daemon, callbacks
<1>1. /\ listener = "inPayload" /\ listener' \in {"callback", "test"}
      /\ UNCHANGED <<fd, half, frame, written, garbled, lost, foreign>>
      /\ lost \in Nat /\ foreign \in Nat /\ lost' + foreign' = lost + foreign + 0
  BY DEF ReadPayload, StreamTypeOK
<1>2. ~Deserted /\ ~Pending /\ ~Owed'
  BY <1>1 DEF Deserted, Pending, Owed, InPayload
<1>3. Unfollowed' \subseteq Unfollowed
  <2>1. CASE UNCHANGED stream
    BY <1>1, <2>1 DEF Unfollowed
  <2>2. CASE stream' = Left(7)
    BY <1>1, <2>2, UnfollowedTaken
  <2> QED
    BY <2>1, <2>2 DEF ReadPayload
<1>4. Pending' => Owed
  <2> SUFFICES ASSUME Pending', ~Owed  PROVE FALSE
    OBVIOUS
  <2>1. stream # <<>> /\ hand' = Taken(7)
    BY DEF ReadPayload, Pending
  <2>2. PICK k \in Frames : At(stream, 1, "event", 1, k)
    BY <1>1, <2>1 DEF Owed, InPayload
  <2>3. hand' = Event(k)
    BY <2>1, <2>2, WholeEvent
  <2> QED
    BY <2>3 DEF Pending
<1>5. DebtTyped /\ DebtTyped'
  BY DebtNatural, DebtPrimed
<1>6. Cardinality(Unfollowed') <= Cardinality(Unfollowed)
  BY <1>3, <1>5, FS_Subset DEF DebtTyped
<1>7. Debt' <= Cardinality(Unfollowed') /\ Debt = Cardinality(Unfollowed) + One(Owed)
  <2>1. One(Owed') = 0
    BY <1>2 DEF One
  <2>2. Debt' = 0 \/ Debt' = Cardinality(Unfollowed') + One(Owed')
    BY DEF Debt
  <2> QED
    BY <1>2, <1>5, <2>1, <2>2 DEF Debt, DebtTyped
<1>8. One(Pending') <= One(Owed)
  BY <1>4 DEF One
<1>9. One(Pending') + Debt' <= One(Pending) + Debt + 0
  BY <1>5, <1>6, <1>7, <1>8 DEF DebtTyped
<1>10. lost' \in Nat /\ foreign' \in Nat
  BY <1>1
<1> QED
  BY <1>1, <1>9, <1>10, DebtStep

LEMMA GarbledCallback ==
  ASSUME StreamTypeOK, GarbledInv, Callback
  PROVE  GarbledInv'
<1> USE DEF owner, thread, daemon, callbacks
<1>1. /\ listener = "callback" /\ listener' = "test"
      /\ UNCHANGED <<fd, half, frame, written, lost, foreign, stream>>
      /\ garbled' = IF Pending THEN garbled + 1 ELSE garbled
  BY DEF Callback, Pending
<1>2. ~Pending' /\ ~Owed' /\ (Deserted' <=> Deserted) /\ Unfollowed' = Unfollowed
  BY <1>1 DEF Pending, Owed, InPayload, Deserted, Unfollowed
<1>3. Debt' <= Debt
  BY <1>2, DebtFalls
<1>4. DebtTyped /\ DebtTyped' /\ garbled \in Nat /\ lost \in Nat /\ foreign \in Nat
  BY DebtNatural, DebtPrimed DEF StreamTypeOK
<1>5. garbled' = garbled + One(Pending) /\ One(Pending') = 0
  BY <1>1, <1>2, <1>4 DEF One
<1>6. garbled + One(Pending) + 0 + Debt' <= lost + foreign
  BY <1>3, <1>4 DEF GarbledInv, DebtTyped
<1> QED
  BY <1>1, <1>5, <1>6 DEF GarbledInv

(* A read of a foreign descriptor may give the callback nothing. *)
LEMMA GarbledEnter ==
  ASSUME StreamTypeOK, GarbledInv, EnterHeader \/ EnterPayload
  PROVE  GarbledInv'
<1> USE DEF owner, thread, daemon, callbacks
<1>1. /\ UNCHANGED <<fd, half, frame, written, garbled, lost, stream>>
      /\ lost \in Nat /\ foreign \in Nat /\ lost' \in Nat /\ foreign' \in Nat
      /\ ~Pending /\ Unfollowed' = Unfollowed
  BY DEF EnterHeader, EnterPayload, Enters, StreamTypeOK, Pending, Unfollowed
<1>2. CASE fd = "reused" /\ foreign' = foreign + 1
  <2>1. lost' + foreign' = lost + foreign + 1
    <3>1. lost' = lost /\ foreign' = foreign + 1
      BY <1>1, <1>2 DEF EnterHeader, EnterPayload, Enters
    <3> QED
      BY <1>1, <3>1
  <2>2. Deserted' /\ listener' \notin {"inHeader", "inPayload"}
    BY <1>1, <1>2 DEF EnterHeader, EnterPayload, Enters, Deserted
  <2>3. Debt' = 0 /\ DebtTyped /\ DebtTyped'
    BY <2>2, DebtNatural, DebtPrimed DEF Debt
  <2>4. One(Pending') + Debt' <= One(Pending) + Debt + 1
    BY <2>3 DEF DebtTyped
  <2> QED
    BY <1>1, <2>1, <2>4, DebtStep
<1>3. CASE foreign' = foreign
  <2>1. UNCHANGED foreign /\ listener' # "callback"
    BY <1>1, <1>3 DEF EnterHeader, EnterPayload, Enters
  <2>2. lost' + foreign' = lost + foreign + 0
    BY <1>1, <2>1
  <2>3. ~Pending'
    BY <2>1 DEF Pending
  <2>4. Deserted => Deserted'
    BY <1>1 DEF EnterHeader, EnterPayload, Enters, Deserted
  <2>5. CASE Owed' => Owed
    BY <1>1, <2>2, <2>3, <2>4, <2>5, NoDebt
  <2>6. CASE fd = "reused"
    <3>1. Deserted'
      BY <1>1, <1>3, <2>6 DEF EnterHeader, EnterPayload, Enters, Deserted
    <3>2. Debt' = 0 /\ DebtTyped /\ One(Pending') = 0 /\ One(Pending) = 0
      BY <1>1, <2>3, <3>1, DebtNatural DEF Debt, One
    <3>3. One(Pending') + Debt' <= One(Pending) + Debt + 0
      BY <3>2 DEF DebtTyped
    <3> QED
      BY <1>1, <2>2, <3>3, DebtStep
  <2>7. CASE fd # "reused"
    <3>1. Owed' => Owed
      BY <1>1, <2>7 DEF EnterHeader, EnterPayload, Enters, Owed, InPayload
    <3> QED
      BY <2>5, <3>1
  <2> QED
    BY <2>6, <2>7
<1>4. UNCHANGED foreign \/ (fd = "reused" /\ foreign' = foreign + 1)
  BY DEF EnterHeader, EnterPayload, Enters
<1> QED
  BY <1>2, <1>3, <1>4

LEMMA GarbledStart ==
  ASSUME StreamTypeOK, OwnerInv, StartSession
  PROVE  GarbledInv'
<1> USE DEF owner, thread, daemon, callbacks
<1>1. stream' = <<>> /\ listener' = "none" /\ garbled' = 0 /\ lost' = 0 /\ foreign' = 0
  BY DEF StartSession, OwnerInv
<1>2. Unfollowed' = {} /\ ~Owed' /\ ~Pending'
  <2>1. Len(stream') = 0
    BY <1>1
  <2> QED
    BY <1>1, <2>1 DEF Unfollowed, Owed, InPayload, Pending
<1>3. Cardinality(Unfollowed') = 0
  BY <1>2, FS_EmptySet
<1>4. Debt' = 0 /\ One(Pending') = 0
  BY <1>2, <1>3 DEF Debt, One
<1> QED
  BY <1>1, <1>4 DEF GarbledInv

LEMMA GarbledInductive ==
  ASSUME StreamTypeOK, OwnerInv, CountInv, ChainInv, OrderInv, GarbledInv, [StreamNext]_streamvars
  PROVE  GarbledInv'
<1> USE DEF owner, thread, daemon, callbacks
<1>1. ASSUME UNCHANGED <<hand, garbled, lost, foreign, stream, written>>,
             half' = half, frame' = frame \/ ~half, Deserted => Deserted',
             UNCHANGED listener \/ (listener' \notin {"payload", "inPayload", "callback"})
      PROVE  GarbledInv'
  <2>1. lost' \in Nat /\ foreign' \in Nat /\ lost' + foreign' = lost + foreign + 0
    BY <1>1 DEF StreamTypeOK
  <2>2. Unfollowed' \subseteq Unfollowed
    BY <1>1 DEF Unfollowed
  <2>3. (Owed' => Owed) /\ (Pending' => Pending)
    BY <1>1 DEF Owed, InPayload, Pending
  <2> QED
    BY <1>1, <2>1, <2>2, <2>3, NoDebt
<1>2. CASE UNCHANGED streamvars
  BY <1>1, <1>2 DEF streamvars, Deserted
<1>3. CASE BroadcastHeader
  <2>1. CASE HeaderPut
    BY <2>1, GarbledHeader
  <2>2. CASE ~HeaderPut
    BY <1>1, <1>3, <2>2 DEF BroadcastHeader, HeaderPut, Dies, Deserted
  <2> QED
    BY <2>1, <2>2
<1>4. CASE BroadcastPayload
  <2>1. CASE EventPut
    BY <2>1, GarbledEvent
  <2>2. CASE ~EventPut
    BY <1>4, <2>2, GarbledLoss DEF BroadcastPayload, EventPut, Dies
  <2> QED
    BY <2>1, <2>2
<1>5. CASE HandleStop
  <2>1. CASE AnswerPut
    BY <2>1, GarbledAnswer
  <2>2. CASE ~AnswerPut
    BY <1>1, <1>5, <2>2 DEF HandleStop, AnswerPut, Dies, Deserted
  <2> QED
    BY <2>1, <2>2
<1>6. CASE Crash \/ StopBegins \/ Reuse \/ OwnerStep
  <2>1. UNCHANGED <<hand, garbled, lost, foreign, stream, written, half, frame>>
    BY <1>6 DEF Crash, StopBegins, Reuse, OwnerStep, StartListener, StartFails, SendStop, CloseSession, Join
  <2>2. UNCHANGED listener \/ (StartListener /\ listener' = "test")
    BY <1>6 DEF Crash, StopBegins, Reuse, OwnerStep, StartListener, StartFails, SendStop, CloseSession, Join
  <2>3. UNCHANGED fd \/ (CloseSession /\ fd' = "closed") \/ (Reuse /\ fd # "open" /\ fd' # "open")
             \/ (StartFails /\ fd' = "closed")
    BY <1>6 DEF Crash, StopBegins, Reuse, OwnerStep, StartListener, StartFails, SendStop, CloseSession, Join,
                OwnerInv
  <2>4. Deserted => Deserted'
    BY <2>2, <2>3 DEF Deserted, StartListener, OwnerInv
  <2> QED
    BY <1>1, <2>1, <2>2, <2>3, <2>4
<1>7. CASE Test
  BY <1>1, <1>7 DEF Test, Deserted
<1> QED
  BY <1>2, <1>3, <1>4, <1>5, <1>6, <1>7, GarbledStart, GarbledEnter, GarbledHeaderRead,
     GarbledPayloadRead, GarbledCallback DEF StreamNext, BroadcastFrame, ListenerStep

-----------------------------------------------------------------------------
(* without a loss the listener is in step *)

LEMMA InStepQuiet ==
  ASSUME InStep, UNCHANGED <<stream, written>>, half' = half, frame' = frame \/ ~half, up' => up,
         (InPayload' <=> InPayload) \/ (stream = <<>> /\ ~InPayload' /\ ~up'),
         delivered \cup Waiting \subseteq delivered' \cup Waiting'
  PROVE  InStep'
<1>1. PayloadFollows' /\ HeaderFollows' /\ AnswerIsLast'
  BY DEF InStep, PayloadFollows, HeaderFollows, AnswerIsLast
<1>2. FrontAwaited'
  BY DEF InStep, FrontAwaited
<1>3. PayloadComes'
  BY DEF InStep, PayloadComes
<1>4. written' \subseteq delivered' \cup Waiting'
  BY DEF InStep
<1> QED
  BY <1>1, <1>2, <1>3, <1>4 DEF InStep

(* A header is put where the listener will look for one. *)
LEMMA InStepHeader ==
  ASSUME StreamTypeOK, ChainInv, InStep, registered, ~half, NEW n \in 0 .. MaxFrames,
         stream' = stream \o Header(n), half' => n \in Frames /\ n = frame', n \in Frames => half',
         UNCHANGED <<listener, hand, written, delivered>>
  PROVE  InStep'
<1> DEFINE L == Len(stream)
<1>1. /\ L \in Nat /\ Len(stream') = L + 5
      /\ \A i \in Nat : \A kind, j, k :
           At(stream', i, kind, j, k) <=>
             \/ At(stream, i, kind, j, k)
             \/ i - L \in 1 .. 5 /\ kind = "header" /\ j = i - L /\ k = n
  BY HeaderAppended, LenProperties DEF StreamTypeOK
<1>2. stream' # <<>>
  BY <1>1
<1>3. (InPayload' <=> InPayload) /\ (stream = <<>> => ~InPayload /\ L = 0)
  BY DEF InStep, PayloadComes, InPayload
<1> HIDE DEF L
<1>4. \A i, kind, j, k : At(stream, i, kind, j, k) => i \in 1 .. Len(stream)
  BY DEF At
<1>5. PayloadFollows'
  <2> SUFFICES ASSUME NEW i \in 1 .. Len(stream'), NEW k \in Frames, At(stream', i, "header", 5, k)
               PROVE  At(stream', i + 1, "event", 1, k) \/ (i = Len(stream') /\ half' /\ k = frame')
    BY DEF PayloadFollows
  <2>1. CASE At(stream, i, "header", 5, k)
    <3>1. At(stream, i + 1, "event", 1, k)
      BY <1>4, <2>1 DEF InStep, PayloadFollows
    <3> QED
      BY <1>1, <3>1
  <2>2. CASE i - L = 5 /\ k = n
    BY <1>1, <2>2
  <2> QED
    BY <1>1, <2>1, <2>2
<1>6. HeaderFollows'
  <2> SUFFICES ASSUME NEW i \in 1 .. Len(stream'), NEW k \in Frames, At(stream', i, "event", 7, k)
               PROVE  \E l \in 0 .. MaxFrames : At(stream', i + 1, "header", 1, l)
    BY DEF HeaderFollows
  <2>1. At(stream, i, "event", 7, k) /\ i \in 1 .. Len(stream)
    BY <1>1, <1>4
  <2>2. CASE i = L
    BY <1>1, <2>2
  <2>3. CASE i # L
    <3>1. \E l \in 0 .. MaxFrames : At(stream, i + 1, "header", 1, l)
      BY <2>1, <2>3 DEF InStep, HeaderFollows, L
    <3> QED
      BY <1>1, <3>1
  <2> QED
    BY <2>2, <2>3
<1>7. AnswerIsLast'
  <2> SUFFICES ASSUME NEW i \in 1 .. Len(stream'), At(stream', i, "header", 5, 0)  PROVE i = Len(stream')
    BY DEF AnswerIsLast
  <2>1. ~ At(stream, i, "header", 5, 0)
    BY <1>4 DEF ChainInv, NoAnswer
  <2> QED
    BY <1>1, <2>1
<1>8. FrontAwaited'
  <2>1. CASE stream = <<>>
    <3>1. At(stream', 1, "header", 1, n)
      BY <1>1, <1>3, <2>1
    <3> QED
      BY <1>3, <2>1, <3>1 DEF FrontAwaited
  <2>2. CASE stream # <<>>
    BY <1>1, <1>3, <2>2 DEF InStep, FrontAwaited
  <2> QED
    BY <2>1, <2>2
<1>9. PayloadComes'
  <2>1. half' => At(stream', Len(stream'), "header", 5, frame')
    BY <1>1
  <2> QED
    BY <1>2, <2>1 DEF PayloadComes
<1>10. written' \subseteq delivered' \cup Waiting'
  <2>1. \A i \in 1 .. Len(stream), k \in Frames :
          stream[i] = <<"event", 7, k>> => i \in 1 .. Len(stream') /\ stream'[i] = <<"event", 7, k>>
    BY <1>1 DEF At
  <2> QED
    BY <2>1 DEF InStep, Waiting
<1> QED
  BY <1>5, <1>6, <1>7, <1>8, <1>9, <1>10 DEF InStep

(* The event of the frame begun is put behind its header, or before a        *)
(* listener that has read it.                                                *)
LEMMA InStepEvent ==
  ASSUME StreamTypeOK, ChainInv, InStep, up, half, ~half', frame \in Frames,
         stream' = stream \o Event(frame), written' = written \cup {frame},
         UNCHANGED <<listener, hand, delivered, frame>>
  PROVE  InStep'
<1> DEFINE L == Len(stream)
<1>1. /\ L \in Nat /\ Len(stream') = L + 7
      /\ \A i \in Nat : \A kind, j, k :
           At(stream', i, kind, j, k) <=>
             \/ At(stream, i, kind, j, k)
             \/ i - L \in 1 .. 7 /\ kind = "event" /\ j = i - L /\ k = frame
  BY EventAppended, LenProperties DEF StreamTypeOK
<1>2. stream' # <<>> /\ (InPayload' <=> InPayload)
  BY <1>1 DEF InPayload
<1>3. IF stream = <<>> THEN InPayload /\ L = 0 ELSE At(stream, L, "header", 5, frame)
  BY DEF InStep, PayloadComes
<1> HIDE DEF L
<1>4. \A i, kind, j, k : At(stream, i, kind, j, k) => i \in 1 .. Len(stream) /\ stream # <<>>
  <2>1. stream = <<>> => Len(stream) = 0
    OBVIOUS
  <2> QED
    BY <2>1 DEF At
<1>5. PayloadFollows'
  <2> SUFFICES ASSUME NEW i \in 1 .. Len(stream'), NEW k \in Frames, At(stream', i, "header", 5, k)
               PROVE  At(stream', i + 1, "event", 1, k)
    BY DEF PayloadFollows
  <2>1. At(stream, i, "header", 5, k) /\ i \in 1 .. Len(stream)
    BY <1>1, <1>4
  <2>2. CASE At(stream, i + 1, "event", 1, k)
    BY <1>1, <2>2
  <2>3. CASE i = L /\ k = frame
    BY <1>1, <2>3
  <2> QED
    BY <2>1, <2>2, <2>3 DEF InStep, PayloadFollows, L
<1>6. HeaderFollows'
  <2> SUFFICES ASSUME NEW i \in 1 .. Len(stream'), NEW k \in Frames, At(stream', i, "event", 7, k)
               PROVE  i = Len(stream') \/ \E l \in 0 .. MaxFrames : At(stream', i + 1, "header", 1, l)
    BY DEF HeaderFollows
  <2>1. CASE At(stream, i, "event", 7, k)
    <3>1. i # L
      BY <1>3, <1>4, <2>1, WordUnique
    <3>2. PICK l \in 0 .. MaxFrames : At(stream, i + 1, "header", 1, l)
      BY <1>4, <2>1, <3>1 DEF InStep, HeaderFollows, L
    <3> QED
      BY <1>1, <3>2
  <2>2. CASE i - L = 7
    BY <1>1, <2>2
  <2> QED
    BY <1>1, <2>1, <2>2
<1>7. AnswerIsLast'
  <2> SUFFICES ASSUME NEW i \in 1 .. Len(stream'), At(stream', i, "header", 5, 0)  PROVE FALSE
    BY DEF AnswerIsLast
  <2>1. At(stream, i, "header", 5, 0) /\ i \in 1 .. Len(stream) /\ stream # <<>>
    BY <1>1, <1>4
  <2>2. i = L
    BY <2>1 DEF InStep, AnswerIsLast, L
  <2>3. frame = 0
    BY <1>3, <2>1, <2>2, WordUnique
  <2> QED
    BY <2>3 DEF Frames
<1>8. FrontAwaited'
  <2>1. CASE stream = <<>>
    <3>1. At(stream', 1, "event", 1, frame)
      BY <1>1, <1>3, <2>1
    <3> QED
      BY <1>2, <1>3, <2>1, <3>1 DEF FrontAwaited
  <2>2. CASE stream # <<>>
    BY <1>1, <1>2, <2>2 DEF InStep, FrontAwaited
  <2> QED
    BY <2>1, <2>2
<1>9. PayloadComes'
  BY <1>2 DEF PayloadComes
<1>10. written' \subseteq delivered' \cup Waiting'
  <2>1. \A i \in 1 .. Len(stream), k \in Frames :
          stream[i] = <<"event", 7, k>> => i \in 1 .. Len(stream') /\ stream'[i] = <<"event", 7, k>>
    BY <1>1 DEF At
  <2>2. L + 7 \in 1 .. Len(stream') /\ stream'[L + 7] = <<"event", 7, frame>>
    <3>1. At(stream', L + 7, "event", 7, frame)
      BY <1>1
    <3> QED
      BY <3>1 DEF At
  <2> QED
    BY <2>1, <2>2 DEF InStep, Waiting
<1> QED
  BY <1>5, <1>6, <1>7, <1>8, <1>9, <1>10 DEF InStep

LEMMA InStepTaken ==
  ASSUME StreamTypeOK, InStep, NEW n \in Nat, stream' = Left(n), UNCHANGED <<half, frame>>
  PROVE  PayloadFollows' /\ HeaderFollows' /\ AnswerIsLast'
<1> DEFINE d == Least(n, Len(stream))
<1>1. /\ d \in Nat /\ Len(stream) \in Nat /\ Len(stream') = Len(stream) - d
      /\ \A i \in Nat : \A kind, j, k : At(stream', i, kind, j, k) <=> i >= 1 /\ At(stream, i + d, kind, j, k)
  BY ReadWords, LenProperties DEF StreamTypeOK
<1> HIDE DEF d
<1>2. \A i \in 1 .. Len(stream') : i \in Nat /\ i + d \in 1 .. Len(stream) /\ i + 1 \in Nat
                                   /\ (i + d) + 1 = (i + 1) + d /\ (i + d = Len(stream) => i = Len(stream'))
  BY <1>1
<1>3. PayloadFollows'
  BY <1>1, <1>2 DEF InStep, PayloadFollows
<1>4. HeaderFollows'
  <2> SUFFICES ASSUME NEW i \in 1 .. Len(stream'), NEW k \in Frames, At(stream', i, "event", 7, k)
               PROVE  i = Len(stream') \/ \E l \in 0 .. MaxFrames : At(stream', i + 1, "header", 1, l)
    BY DEF HeaderFollows
  <2>1. CASE i + d = Len(stream)
    BY <1>2, <2>1
  <2>2. ASSUME NEW l \in 0 .. MaxFrames, At(stream, (i + d) + 1, "header", 1, l)
        PROVE  At(stream', i + 1, "header", 1, l)
    BY <1>1, <1>2, <2>2
  <2>3. At(stream, i + d, "event", 7, k) /\ i + d \in 1 .. Len(stream)
    BY <1>1, <1>2
  <2> QED
    BY <2>1, <2>2, <2>3 DEF InStep, HeaderFollows
<1>5. AnswerIsLast'
  BY <1>1, <1>2 DEF InStep, AnswerIsLast
<1> QED
  BY <1>3, <1>4, <1>5

(* The listener reads the header that stands in front. *)
LEMMA InStepHeaderRead ==
  ASSUME StreamTypeOK, StreamTypeOK', CountInv, ChainInv, InStep, ReadHeader, stream # <<>>
  PROVE  InStep'
<1> USE DEF owner, thread, daemon, callbacks
<1>1. /\ listener = "inHeader" /\ stream' = Left(5)
      /\ listener' = IF IsHeader(Taken(5)) THEN "payload" ELSE "test"
      /\ UNCHANGED <<up, half, frame, written, hand, delivered>>
  BY DEF ReadHeader
<1>2. PICK k \in 0 .. MaxFrames : At(stream, 1, "header", 1, k)
  BY <1>1 DEF InStep, FrontAwaited, InPayload
<1>3. /\ Len(stream) >= 5 /\ Taken(5) = Header(k)
      /\ \A i \in 1 .. 5 : At(stream, i, "header", i, k)
  BY <1>2, WholeHeader
<1>4. Least(5, Len(stream)) = 5 /\ Len(stream) \in Nat
  BY <1>3, LenProperties DEF Least, StreamTypeOK
<1>5. /\ Len(stream') = Len(stream) - 5
      /\ \A i \in Nat : \A kind, j, m : At(stream', i, kind, j, m) <=> i >= 1 /\ At(stream, i + 5, kind, j, m)
  BY <1>1, <1>4, ReadWords DEF StreamTypeOK
<1>6. InPayload' <=> k \in Frames
  <2>1. IsHeader(Taken(5)) <=> k \in Frames
    <3>1. ASSUME NEW m \in Frames, Header(m) = Header(k)
          PROVE  m = k
      <4>1. m \in 0 .. MaxFrames
        BY DEF Frames
      <4>2. <<"header", 1, m>> = <<"header", 1, k>>
        BY <3>1, <4>1, HeaderWords
      <4> QED
        BY <4>2
    <3> QED
      BY <1>3, <3>1 DEF IsHeader
  <2> QED
    BY <1>1, <2>1 DEF InPayload
<1>7. stream' = <<>> <=> Len(stream) = 5
  <2>1. stream' \in Seq(Words)
    BY DEF StreamTypeOK
  <2>2. stream' = <<>> <=> Len(stream') = 0
    BY <2>1, EmptyLength
  <2> QED
    BY <1>4, <1>5, <2>2
<1>8. 5 \in 1 .. Len(stream) /\ At(stream, 5, "header", 5, k)
  BY <1>3, <1>4
<1>9. FrontAwaited'
  <2> SUFFICES ASSUME Len(stream) # 5
               PROVE  k \in Frames /\ At(stream', 1, "event", 1, k)
    BY <1>6, <1>7 DEF FrontAwaited
  <2>1. k \in Frames
    <3>1. k # 0
      BY <1>8 DEF InStep, AnswerIsLast
    <3> QED
      BY <3>1 DEF Frames
  <2>2. At(stream, 5 + 1, "event", 1, k)
    <3>1. \A i \in 1 .. Len(stream) : At(stream, i, "header", 5, k) =>
             At(stream, i + 1, "event", 1, k) \/ i = Len(stream)
      BY <2>1 DEF InStep, PayloadFollows
    <3> QED
      BY <1>8, <3>1
  <2> QED
    BY <1>5, <2>1, <2>2
<1>10. PayloadComes'
  <2>1. ASSUME InPayload', stream' = <<>>
        PROVE  half'
    <3>1. k \in Frames /\ Len(stream) = 5
      BY <1>6, <1>7, <2>1
    <3>2. ~ At(stream, 5 + 1, "event", 1, k)
      BY <3>1 DEF At
    <3>3. At(stream, 5 + 1, "event", 1, k) \/ half
      BY <1>8, <3>1 DEF InStep, PayloadFollows
    <3> QED
      BY <1>1, <3>2, <3>3
  <2>2. ASSUME up', half'
        PROVE  IF stream' = <<>> THEN InPayload' ELSE At(stream', Len(stream'), "header", 5, frame')
    <3>1. At(stream, Len(stream), "header", 5, frame) /\ frame \in Frames
      BY <1>1, <2>2 DEF InStep, PayloadComes, CountInv, StreamTypeOK, Frames
    <3>2. CASE Len(stream) = 5
      <4>1. k = frame
        BY <1>8, <3>1, <3>2, WordUnique
      <4> QED
        BY <1>6, <1>7, <3>1, <3>2, <4>1
    <3>3. CASE Len(stream) # 5
      <4>1. Len(stream') \in Nat /\ Len(stream') >= 1 /\ Len(stream') + 5 = Len(stream)
        BY <1>3, <1>4, <1>5, <3>3
      <4> QED
        BY <1>1, <1>5, <1>7, <3>1, <3>3, <4>1
    <3> QED
      BY <3>2, <3>3
  <2> QED
    BY <2>1, <2>2 DEF PayloadComes
<1>11. written' \subseteq delivered' \cup Waiting'
  <2>1. ASSUME NEW m \in Frames, NEW i \in 1 .. Len(stream), stream[i] = <<"event", 7, m>>
        PROVE  \E j \in 1 .. Len(stream') : stream'[j] = <<"event", 7, m>>
    <3>1. At(stream, i, "event", 7, m)
      BY <2>1 DEF At
    <3>2. i > 5
      BY <1>3, <3>1, WordUnique
    <3>3. At(stream', i - 5, "event", 7, m)
      BY <1>5, <3>1, <3>2
    <3> QED
      BY <3>3 DEF At
  <2> QED
    BY <1>1, <2>1 DEF InStep, Waiting
<1> QED
  BY <1>1, <1>9, <1>10, <1>11, InStepTaken DEF InStep

(* The listener reads the event that stands in front. *)
LEMMA InStepPayloadRead ==
  ASSUME StreamTypeOK, StreamTypeOK', CountInv, ChainInv, InStep, ReadPayload, stream # <<>>
  PROVE  InStep'
<1> USE DEF owner, thread, daemon, callbacks
<1>1. /\ listener = "inPayload" /\ stream' = Left(7) /\ hand' = Taken(7)
      /\ listener' \in {"callback", "test"}
      /\ UNCHANGED <<up, half, frame, written, delivered>>
  BY DEF ReadPayload
<1>2. PICK k \in Frames : At(stream, 1, "event", 1, k)
  BY <1>1 DEF InStep, FrontAwaited, InPayload
<1>3. /\ Len(stream) >= 7 /\ Taken(7) = Event(k)
      /\ \A i \in 1 .. 7 : At(stream, i, "event", i, k)
  BY <1>2, WholeEvent
<1>4. Least(7, Len(stream)) = 7 /\ Len(stream) \in Nat
  BY <1>3, LenProperties DEF Least, StreamTypeOK
<1>5. /\ Len(stream') = Len(stream) - 7
      /\ \A i \in Nat : \A kind, j, m : At(stream', i, kind, j, m) <=> i >= 1 /\ At(stream, i + 7, kind, j, m)
  BY <1>1, <1>4, ReadWords DEF StreamTypeOK
<1>6. ~InPayload'
  BY <1>1 DEF InPayload
<1>7. stream' = <<>> <=> Len(stream) = 7
  <2>1. stream' \in Seq(Words)
    BY DEF StreamTypeOK
  <2>2. stream' = <<>> <=> Len(stream') = 0
    BY <2>1, EmptyLength
  <2> QED
    BY <1>4, <1>5, <2>2
<1>8. 7 \in 1 .. Len(stream) /\ At(stream, 7, "event", 7, k)
  BY <1>3, <1>4
<1>9. FrontAwaited'
  <2> SUFFICES ASSUME Len(stream) # 7
               PROVE  \E l \in 0 .. MaxFrames : At(stream', 1, "header", 1, l)
    BY <1>6, <1>7 DEF FrontAwaited
  <2>1. PICK l \in 0 .. MaxFrames : At(stream, 7 + 1, "header", 1, l)
    <3>1. \A i \in 1 .. Len(stream) : At(stream, i, "event", 7, k) =>
             i = Len(stream) \/ \E l \in 0 .. MaxFrames : At(stream, i + 1, "header", 1, l)
      BY DEF InStep, HeaderFollows
    <3> QED
      BY <1>8, <3>1
  <2> QED
    BY <1>5, <2>1
<1>10. PayloadComes'
  <2> SUFFICES ASSUME up', half'
               PROVE  stream' # <<>> /\ At(stream', Len(stream'), "header", 5, frame')
    BY <1>6 DEF PayloadComes
  <2>1. At(stream, Len(stream), "header", 5, frame)
    BY <1>1 DEF InStep, PayloadComes
  <2>2. Len(stream) # 7
    <3> SUFFICES ASSUME Len(stream) = 7  PROVE FALSE
      OBVIOUS
    <3>1. At(stream, 7, "header", 5, frame)
      BY <2>1
    <3>2. "event" = "header"
      BY <1>8, <3>1, WordUnique
    <3> QED
      BY <3>2
  <2>3. Len(stream') \in Nat /\ Len(stream') >= 1 /\ Len(stream') + 7 = Len(stream)
    BY <1>3, <1>4, <1>5, <2>2
  <2> QED
    BY <1>1, <1>5, <1>7, <2>1, <2>2, <2>3
<1>11. written' \subseteq delivered' \cup Waiting'
  <2>1. ASSUME NEW m \in Frames, NEW i \in 1 .. Len(stream), stream[i] = <<"event", 7, m>>
        PROVE  m = k \/ \E j \in 1 .. Len(stream') : stream'[j] = <<"event", 7, m>>
    <3>1. At(stream, i, "event", 7, m)
      BY <2>1 DEF At
    <3>2. CASE i <= 7
      BY <1>3, <3>1, <3>2, WordUnique
    <3>3. CASE i > 7
      <4>1. At(stream', i - 7, "event", 7, m)
        BY <1>5, <3>1, <3>3
      <4> QED
        BY <4>1 DEF At
    <3> QED
      BY <3>2, <3>3
  <2>2. \A m \in Frames : hand # Event(m)
    BY <1>1, EventWords DEF CountInv
  <2>3. hand' = Event(k)
    BY <1>1, <1>3
  <2> QED
    BY <1>1, <2>1, <2>2, <2>3 DEF InStep, Waiting
<1> QED
  BY <1>1, <1>9, <1>10, <1>11, InStepTaken DEF InStep

(* Once nobody holds the other end, nobody will. *)
LEMMA StaysJoined ==
  ASSUME OwnerInv, [StreamNext]_streamvars, ~StartSession, ~Deserted'
  PROVE  ~Deserted
<1> USE DEF owner, thread, daemon, callbacks, Deserted
<1>1. CASE UNCHANGED <<fd, listener>>
  BY <1>1
<1>2. CASE StartListener \/ StartFails \/ StopBegins \/ SendStop \/ CloseSession \/ Join \/ Reuse
  BY <1>2 DEF StartListener, StartFails, StopBegins, SendStop, CloseSession, Join, Reuse, OwnerInv
<1>3. CASE ListenerStep
  BY <1>3 DEF ListenerStep, Test, EnterHeader, EnterPayload, Enters, ReadHeader, ReadPayload, Callback
<1>4. CASE UNCHANGED streamvars
  BY <1>1, <1>4 DEF streamvars
<1>5. CASE BroadcastFrame \/ HandleStop \/ Crash
  BY <1>1, <1>5 DEF BroadcastFrame, BroadcastHeader, BroadcastPayload, HandleStop, Crash
<1> QED
  BY <1>2, <1>3, <1>4, <1>5 DEF StreamNext, OwnerStep

LEMMA InStepInductive ==
  ASSUME StreamTypeOK, StreamTypeOK', OwnerInv, CountInv, ChainInv, [StreamNext]_streamvars,
         lost = 0 /\ ~Deserted => InStep, lost' = 0, ~Deserted'
  PROVE  InStep'
<1> USE DEF owner, thread, daemon, callbacks
<1>1. CASE StartSession
  <2>1. /\ stream' = <<>> /\ half' = FALSE /\ written' = {} /\ listener' = "none"
    BY <1>1 DEF StartSession, OwnerInv
  <2>2. Len(stream') = 0
    BY <2>1
  <2>3. PayloadFollows' /\ HeaderFollows' /\ AnswerIsLast'
    BY <2>2 DEF PayloadFollows, HeaderFollows, AnswerIsLast
  <2>4. FrontAwaited' /\ PayloadComes'
    BY <2>1 DEF FrontAwaited, PayloadComes, InPayload
  <2> QED
    BY <2>1, <2>3, <2>4 DEF InStep
<1>2. ASSUME InStep, UNCHANGED <<stream, written, half, delivered, hand>>, frame' = frame \/ ~half, up' => up,
             (InPayload' <=> InPayload) \/ (stream = <<>> /\ ~InPayload' /\ ~up')
      PROVE  InStep'
  <2>1. Waiting' = Waiting
    BY <1>2 DEF Waiting
  <2> QED
    BY <1>2, <2>1, InStepQuiet
<1>3. CASE UNCHANGED streamvars
  BY <1>2, <1>3 DEF streamvars, InPayload, Deserted
<1>4. CASE BroadcastHeader
  <2>1. lost = 0 /\ ~Deserted
    BY <1>4 DEF BroadcastHeader, Deserted
  <2>2. CASE HeaderPut
    <3>1. /\ registered /\ ~half /\ half' = TRUE /\ frame' = frame + 1 /\ frame + 1 \in 0 .. MaxFrames
          /\ UNCHANGED <<listener, hand, written, delivered>> /\ stream' = stream \o Header(frame + 1)
      BY <2>2 DEF HeaderPut, BroadcastHeader, StreamTypeOK
    <3>2. frame + 1 \in Frames
      BY <3>1 DEF StreamTypeOK, Frames
    <3> QED
      BY <2>1, <3>1, <3>2, InStepHeader
  <2>3. CASE ~HeaderPut
    <3>1. /\ UNCHANGED <<stream, written, half, delivered, hand, up, listener>> /\ ~half
      BY <1>4, <2>1, <2>3 DEF BroadcastHeader, HeaderPut
    <3> QED
      BY <1>2, <2>1, <3>1 DEF InPayload
  <2> QED
    BY <2>2, <2>3
<1>5. CASE BroadcastPayload
  <2>1. ~Deserted
    BY <1>5 DEF BroadcastPayload, Deserted
  <2>2. lost \in Nat
    BY DEF StreamTypeOK
  <2>3. EventPut
    <3>1. lost' # lost + 1
      BY <2>2
    <3> QED
      BY <1>5, <2>1, <3>1 DEF BroadcastPayload, EventPut
  <2>4. /\ up /\ half /\ half' = FALSE /\ stream' = stream \o Event(frame) /\ lost = 0
        /\ written' = written \cup {frame} /\ UNCHANGED <<listener, hand, delivered, frame>>
    BY <2>3 DEF EventPut, BroadcastPayload
  <2>5. frame \in Frames
    BY <2>4 DEF CountInv, StreamTypeOK, Frames
  <2> QED
    BY <2>1, <2>4, <2>5, InStepEvent
<1>6. CASE HandleStop
  <2>1. lost = 0 /\ ~Deserted
    BY <1>6 DEF HandleStop, Deserted
  <2>2. CASE AnswerPut
    <3>1. /\ registered /\ ~half /\ ~half' /\ stream' = stream \o Header(0)
          /\ UNCHANGED <<listener, hand, written, delivered>>
      BY <2>2 DEF AnswerPut, HandleStop, OwnerInv
    <3>2. 0 \notin Frames /\ 0 \in 0 .. MaxFrames
      BY DEF Frames
    <3> QED
      BY <2>1, <3>1, <3>2, InStepHeader
  <2>3. CASE ~AnswerPut
    <3>1. UNCHANGED <<stream, written, half, delivered, hand, up, listener, frame>>
      BY <1>6, <2>1, <2>3 DEF HandleStop, AnswerPut
    <3> QED
      BY <1>2, <2>1, <3>1 DEF InPayload
  <2> QED
    BY <2>2, <2>3
<1>7. CASE Crash \/ StopBegins \/ Reuse \/ OwnerStep
  <2>1. /\ UNCHANGED <<stream, written, half, delivered, hand, frame, lost>>
        /\ up' => up
        /\ UNCHANGED listener \/ (listener = "none" /\ listener' = "test")
    BY <1>7 DEF Crash, StopBegins, Reuse, OwnerStep, StartListener, StartFails, SendStop, CloseSession, Join, OwnerInv
  <2>2. ~Deserted
    BY <1>7, StaysJoined DEF Crash, StopBegins, Reuse, OwnerStep, StartListener, StartFails, SendStop, CloseSession, Join,
                             StartSession
  <2> QED
    BY <1>2, <2>1, <2>2 DEF InPayload
<1>8. CASE Test \/ EnterHeader \/ EnterPayload
  <2>1. fd = "open" /\ ~Deserted /\ UNCHANGED <<stream, written, half, delivered, frame, lost, up>>
    BY <1>8 DEF Test, EnterHeader, EnterPayload, Enters, Deserted
  <2>2. UNCHANGED hand /\ (InPayload' <=> InPayload)
    BY <1>8, <2>1 DEF Test, EnterHeader, EnterPayload, Enters, InPayload
  <2> QED
    BY <1>2, <2>1, <2>2
<1>9. CASE ReadHeader
  <2>1. CASE stream = <<>>
    BY <1>2, <1>9, <2>1 DEF ReadHeader, InPayload, Deserted
  <2>2. CASE stream # <<>>
    <3>1. lost = 0 /\ ~Deserted
      BY <1>9 DEF ReadHeader, Deserted
    <3> QED
      BY <1>9, <2>2, <3>1, InStepHeaderRead
  <2> QED
    BY <2>1, <2>2
<1>10. CASE ReadPayload
  <2>1. CASE stream = <<>>
    BY <1>2, <1>10, <2>1 DEF ReadPayload, InPayload, Deserted
  <2>2. CASE stream # <<>>
    <3>1. lost = 0 /\ ~Deserted
      BY <1>10 DEF ReadPayload, Deserted
    <3> QED
      BY <1>10, <2>2, <3>1, InStepPayloadRead
  <2> QED
    BY <2>1, <2>2
<1>11. CASE Callback
  <2>1. /\ ~Deserted /\ lost = 0 /\ UNCHANGED <<stream, written, half, frame, up>>
        /\ delivered' = delivered \cup {k \in Frames : hand = Event(k)}
        /\ listener = "callback" /\ listener' = "test"
    BY <1>11 DEF Callback, Deserted
  <2>2. Waiting \subseteq Waiting' \cup {k \in Frames : hand = Event(k)}
    BY <2>1 DEF Waiting
  <2>3. delivered \cup Waiting \subseteq delivered' \cup Waiting'
    BY <2>1, <2>2
  <2>4. InPayload' <=> InPayload
    BY <2>1 DEF InPayload
  <2> QED
    BY <2>1, <2>3, <2>4, InStepQuiet
<1> QED
  BY <1>1, <1>3, <1>4, <1>5, <1>6, <1>7, <1>8, <1>9, <1>10, <1>11
  DEF StreamNext, BroadcastFrame, ListenerStep

(* What the listener takes up as an event is the one behind those delivered. *)
LEMMA NoGapInductive ==
  ASSUME StreamTypeOK, OwnerInv, CountInv, ChainInv, OrderInv, [StreamNext]_streamvars,
         lost = 0 => NoGap /\ (~Deserted => InStep), lost' = 0
  PROVE  NoGap'
<1> USE DEF owner, thread, daemon, callbacks
<1> SUFFICES ASSUME NEW k \in Frames, hand' = Event(k), NEW j \in written', j < k
             PROVE  j \in delivered'
  BY DEF NoGap
<1>1. \A m \in Frames : Event(m) # <<>>
  BY EventWords
<1>2. lost = 0
  <2>1. lost \in Nat
    BY DEF StreamTypeOK
  <2> QED
    BY <2>1 DEF streamvars, StreamNext, BroadcastFrame, BroadcastHeader, BroadcastPayload, HandleStop, Crash,
                StartSession, StopBegins, OwnerStep, StartListener, StartFails, SendStop, CloseSession, Join, Reuse,
                ListenerStep, Test, EnterHeader, EnterPayload, ReadHeader, ReadPayload, Callback
<1>3. CASE PayloadTaken
  <2>1. /\ hand' = Taken(7) /\ UNCHANGED <<written, delivered>> /\ InStep
        /\ \A m \in Frames : hand # Event(m)
    BY <1>2, <1>3, EventWords DEF PayloadTaken, ReadPayload, Deserted, CountInv
  <2>2. 7 \in 1 .. Len(stream) /\ \A i \in 1 .. 7 : stream[i] = <<"event", i, k>>
    <3>1. Len(Event(k)) = 7 /\ \A i \in 1 .. 7 : Event(k)[i] = <<"event", i, k>>
      BY EventWords
    <3>2. /\ Len(Taken(7)) = Least(7, Len(stream)) /\ Len(stream) \in Nat
          /\ \A i \in 1 .. Least(7, Len(stream)) : Taken(7)[i] = stream[i]
      BY ReadWords, LenProperties DEF StreamTypeOK
    <3>3. Least(7, Len(stream)) = 7 /\ 7 \in 1 .. Len(stream)
      BY <1>3, <2>1, <3>1, <3>2 DEF Least
    <3> QED
      BY <2>1, <3>1, <3>2, <3>3
  <2>3. CASE j \in delivered
    BY <2>1, <2>3
  <2>4. CASE j \in Waiting
    <3>1. PICK i \in 1 .. Len(stream) : stream[i] = <<"event", 7, j>>
      BY <2>1, <2>4 DEF Waiting
    <3>2. j \in Frames /\ Len(stream) \in Nat /\ j \in Nat /\ k \in Nat /\ i \in Nat
      BY <2>4, LenProperties DEF Waiting, Frames, StreamTypeOK
    <3>3. i <= 7
      <4>1. At(stream, 7, "event", 7, k) /\ At(stream, i, "event", 7, j)
        BY <2>2, <3>1 DEF At
      <4>2. 7 < i => k < j
        BY <2>2, <3>2, <4>1 DEF OrderInv
      <4> QED
        BY <3>2, <4>2
    <3>4. stream[i] = <<"event", i, k>>
      BY <2>2, <3>2, <3>3, SMTT(20)
    <3>5. j = k
      BY <3>1, <3>4
    <3> QED
      BY <3>2, <3>5
  <2> QED
    BY <2>1, <2>3, <2>4 DEF InStep
<1>4. CASE hand' = hand
  <2>1. CASE EventPut
    <3>1. half /\ written' = written \cup {frame} /\ delivered' = delivered /\ k \in written
      BY <1>4, <2>1 DEF EventPut, BroadcastPayload, OrderInv
    <3>2. j # frame
      BY <3>1 DEF CountInv, StreamTypeOK, Frames
    <3> QED
      BY <1>2, <1>4, <3>1, <3>2 DEF NoGap
  <2>2. CASE ~EventPut
    <3>1. written' = written /\ delivered \subseteq delivered'
      BY <2>2, StreamChange DEF NoWords, HeaderPut, AnswerPut, HeaderTaken, PayloadTaken, BroadcastHeader,
                                HandleStop, ReadHeader, ReadPayload
    <3> QED
      BY <1>2, <1>4, <3>1 DEF NoGap
  <2> QED
    BY <2>1, <2>2
<1> QED
  <2>1. hand' = hand \/ PayloadTaken
    BY <1>1, StreamChange DEF NoWords, HeaderPut, EventPut, AnswerPut, HeaderTaken, PayloadTaken,
                              BroadcastHeader, BroadcastPayload, HandleStop, ReadHeader, ReadPayload
  <2> QED
    BY <1>3, <1>4, <2>1

-----------------------------------------------------------------------------
(* the invariant and what it says *)

LEMMA StreamStarts == StreamInit => StreamInv
<1> SUFFICES ASSUME StreamInit  PROVE StreamInv
  OBVIOUS
<1> USE DEF StreamInit
<1>1. Len(stream) = 0 /\ Len(hand) = 0 /\ \A k \in Frames : hand # Event(k)
  <2>1. \A k \in Frames : Len(Event(k)) = 7
    BY EventWords
  <2> QED
    BY <2>1
<1>2. StreamTypeOK
  <2>1. hand \in Seq(Words) /\ stream \in Seq(Words) /\ Len(stream) <= Room
    BY <1>1, EmptySeq
  <2>2. 0 \in 0 .. MaxFrames /\ 0 \in 0 .. MaxFrames + 1 /\ 0 \in Nat
    OBVIOUS
  <2> QED
    BY <2>1, <2>2 DEF StreamTypeOK
<1>3. OwnerInv /\ ForeignInv
  BY DEF OwnerInv, ForeignInv
<1>4. CountInv
  BY <1>1 DEF CountInv
<1>5. ChainInv
  BY <1>1 DEF ChainInv, WordsKnown, HeadersWhole, EventsWhole, EventFollows, HalfIsLast, NoAnswer
<1>6. OrderInv
  BY <1>1 DEF OrderInv
<1>7. GarbledInv
  <2>1. Deserted /\ ~Pending
    BY DEF Deserted, Pending
  <2>2. Debt = 0 /\ One(Pending) = 0
    BY <2>1 DEF Debt, One
  <2> QED
    BY <2>2 DEF GarbledInv
<1>8. Deserted /\ NoGap
  BY <1>1 DEF Deserted, NoGap
<1> QED
  BY <1>2, <1>3, <1>4, <1>5, <1>6, <1>7, <1>8 DEF StreamInv

LEMMA StreamInductive == StreamInv /\ [StreamNext]_streamvars => StreamInv'
<1> SUFFICES ASSUME StreamInv, [StreamNext]_streamvars  PROVE StreamInv'
  OBVIOUS
<1>1. /\ StreamTypeOK /\ OwnerInv /\ ForeignInv /\ CountInv /\ ChainInv /\ OrderInv /\ GarbledInv
      /\ lost = 0 => NoGap /\ (~Deserted => InStep)
  BY DEF StreamInv
<1>2. OwnerInv' /\ ForeignInv'
  BY <1>1, OwnerInductive, ForeignInductive
<1>3. CountInv'
  BY <1>1, CountInductive
<1>4. ChainInv'
  BY <1>1, <1>2, <1>3, ChainInductive
<1>5. OrderInv'
  BY <1>1, <1>2, <1>3, <1>4, OrderInductive
<1>6. GarbledInv'
  BY <1>1, GarbledInductive
<1>7. StreamTypeOK'
  BY <1>1, <1>2, <1>3, <1>6, StreamTypeInductive
<1>8. lost' = 0 => NoGap' /\ (~Deserted' => InStep')
  BY <1>1, <1>7, InStepInductive, NoGapInductive
<1> QED
  BY <1>2, <1>3, <1>4, <1>5, <1>6, <1>7, <1>8 DEF StreamInv

LEMMA StreamInvariant == StreamSpec => []StreamInv
BY StreamStarts, StreamInductive, PTL DEF StreamSpec

(* Every variable of a stream has its type; with it, the callback is given no *)
(* more garbled events than there were frames, and one                        *)
(* (sdk/src/sensors_client.c).                                                *)
THEOREM StreamTypeCorrect == StreamSpec => []StreamTypeOK
<1>1. StreamInv => StreamTypeOK
  BY DEF StreamInv
<1> QED
  BY <1>1, StreamInvariant, PTL

(* However the daemon's writes, the drops of its full socket and the listener's *)
(* reads interleave, each payload dropped behind its header makes at most one   *)
(* garbled event: the listener falls into step again of itself.                 *)
THEOREM GarbledCorrect == StreamSpec => []GarbledNeedsLoss
<1>1. StreamInv => GarbledNeedsLoss
  <2> SUFFICES ASSUME StreamInv  PROVE GarbledNeedsLoss
    OBVIOUS
  <2>1. garbled \in Nat /\ lost \in 0 .. MaxFrames /\ foreign \in 0 .. 1
    BY DEF StreamInv, CountInv, StreamTypeOK, ForeignInv
  <2>2. One(Pending) \in 0 .. 1 /\ Debt \in Nat
    BY DebtNatural DEF DebtTyped
  <2>3. garbled + One(Pending) + Debt <= lost + foreign
    BY DEF StreamInv, GarbledInv
  <2> QED
    BY <2>1, <2>2, <2>3, GarbledBound DEF GarbledNeedsLoss
<1> QED
  BY <1>1, StreamInvariant, PTL

(* As long as no payload was dropped, no event that the daemon wrote is lost and *)
(* none is delivered twice or out of order, whatever the sizes of the reads.     *)
THEOREM WholeCorrect == StreamSpec => []WholeWithoutLoss
<1>1. StreamInv => WholeWithoutLoss
  <2> SUFFICES ASSUME StreamInv, lost + foreign = 0, fd = "open"
               PROVE  /\ written = delivered \cup Waiting
                      /\ \A k \in delivered, w \in Waiting : k < w
    BY DEF WholeWithoutLoss
  <2>1. StreamTypeOK /\ CountInv /\ ChainInv /\ OrderInv
    BY DEF StreamInv
  <2>2. lost = 0
    BY <2>1 DEF StreamTypeOK
  <2>3. written \subseteq delivered \cup Waiting
    BY <2>2 DEF StreamInv, InStep, Deserted
  <2>4. \A w \in Waiting : \/ w \in Frames /\ hand = Event(w)
                           \/ w \in Frames /\ \E i \in 1 .. Len(stream) : At(stream, i, "event", 7, w)
    BY DEF Waiting, At
  <2>5. Waiting \subseteq written
    BY <2>1, <2>4, FrameOfWord DEF OrderInv
  <2>6. \A k \in delivered, w \in Waiting : k < w
    BY <2>1, <2>4 DEF OrderInv
  <2> QED
    BY <2>1, <2>3, <2>5, <2>6 DEF CountInv
<1> QED
  BY <1>1, StreamInvariant, PTL

(* stop_sensor_stream clears the flag before it closes the descriptor, so the *)
(* listener takes at most a header and what follows it from whatever has      *)
(* taken the descriptor's number, another session included.                   *)
THEOREM ForeignCorrect == StreamSpec => []ForeignFrameOnce
<1>1. StreamInv => ForeignFrameOnce
  BY DEF StreamInv, ForeignInv, ForeignFrameOnce
<1> QED
  BY <1>1, StreamInvariant, PTL
-----------------------------------------------------------------------------
(* the stream implements the feed *)

LEMMA FeedStarts == StreamInit => Feed!Init
BY DEF StreamInit, Feed!Init

LEMMA FeedHeader == StreamInv /\ BroadcastHeader => Feed!Begin
BY DEF StreamInv, BroadcastHeader, thread, callbacks, Feed!Begin

(* A payload that is written is a new event's, one that is dropped is the last *)
(* frame's.                                                                    *)
LEMMA FeedPayload == StreamInv /\ BroadcastPayload => Feed!Send \/ Feed!Drop \/ UNCHANGED Feed!feedvars
<1> SUFFICES ASSUME StreamInv, BroadcastPayload
             PROVE  Feed!Send \/ Feed!Drop \/ UNCHANGED Feed!feedvars
  OBVIOUS
<1>1. /\ frame \in Nat /\ frame > 0 /\ frame \notin written /\ lost < frame
      /\ UNCHANGED <<frame, foreign, delivered, garbled>>
  BY DEF StreamInv, CountInv, StreamTypeOK, BroadcastPayload, thread, callbacks
<1>2. \/ UNCHANGED <<written, lost>>
      \/ written' = written \cup {frame} /\ UNCHANGED lost
      \/ lost' = lost + 1 /\ UNCHANGED written
  BY DEF BroadcastPayload
<1> QED
  BY <1>1, <1>2 DEF Feed!Send, Feed!Drop, Feed!feedvars

(* One read of a foreign descriptor may give the callback something. *)
LEMMA FeedEnter == StreamInv /\ (EnterHeader \/ EnterPayload) => Feed!Stray \/ UNCHANGED Feed!feedvars
<1> SUFFICES ASSUME StreamInv, EnterHeader \/ EnterPayload
             PROVE  Feed!Stray \/ UNCHANGED Feed!feedvars
  OBVIOUS
<1>1. foreign = 0 /\ UNCHANGED <<frame, written, lost, delivered, garbled>>
  BY DEF StreamInv, ForeignInv, EnterHeader, EnterPayload, daemon, callbacks
<1>2. foreign' = foreign \/ foreign' = foreign + 1
  BY DEF EnterHeader, EnterPayload, Enters
<1> QED
  BY <1>1, <1>2 DEF Feed!Stray, Feed!feedvars

(* The callback is given the next event, or what is owed for a loss. *)
LEMMA FeedCallback == StreamInv /\ Callback => (\E k \in written : Feed!Receive(k)) \/ Feed!Spoil
<1> SUFFICES ASSUME StreamInv, Callback
             PROVE  (\E k \in written : Feed!Receive(k)) \/ Feed!Spoil
  OBVIOUS
<1> DEFINE whole == {k \in Frames : hand = Event(k)}
<1>1. /\ listener = "callback" /\ UNCHANGED <<frame, written, lost, foreign>>
      /\ delivered' = delivered \cup whole
      /\ garbled' = IF whole = {} THEN garbled + 1 ELSE garbled
  BY DEF Callback, daemon
<1>2. CASE whole = {}
  <2>1. garbled \in Nat /\ lost \in Nat /\ foreign \in Nat
    BY DEF StreamInv, CountInv, StreamTypeOK
  <2>2. One(Pending) = 1
    BY <1>1, <1>2 DEF One, Pending
  <2>3. Debt \in Nat /\ garbled + One(Pending) + Debt <= lost + foreign
    BY DebtNatural DEF DebtTyped, StreamInv, GarbledInv
  <2>4. garbled < lost + foreign
    BY <2>1, <2>2, <2>3
  <2> QED
    BY <1>1, <1>2, <2>4 DEF Feed!Spoil
<1>3. ASSUME NEW k \in Frames, hand = Event(k)
      PROVE  \E e \in written : Feed!Receive(e)
  <2>1. \A m \in whole : m = k
    <3> SUFFICES ASSUME NEW m \in Frames, Event(m) = Event(k)  PROVE m = k
      BY <1>3
    <3>1. <<"event", 1, m>> = <<"event", 1, k>>
      BY EventWords
    <3> QED
      BY <3>1
  <2>2. whole = {k}
    BY <1>3, <2>1
  <2>3. k \in written /\ \A d \in delivered : d < k
    BY <1>3 DEF StreamInv, OrderInv
  <2>4. lost = 0 => \A j \in written : j < k => j \in delivered
    BY <1>3 DEF StreamInv, NoGap
  <2>5. delivered' = delivered \cup {k} /\ UNCHANGED garbled
    BY <1>1, <2>2
  <2>6. Feed!Receive(k)
    BY <1>1, <2>3, <2>4, <2>5 DEF Feed!Receive
  <2> QED
    BY <2>3, <2>6
<1> QED
  BY <1>2, <1>3

LEMMA FeedStep == StreamInv /\ [StreamNext]_streamvars => [Feed!Next]_Feed!feedvars
<1> SUFFICES ASSUME StreamInv, [StreamNext]_streamvars
             PROVE  Feed!Next \/ UNCHANGED Feed!feedvars
  OBVIOUS
<1>1. CASE BroadcastFrame
  BY <1>1, FeedHeader, FeedPayload DEF BroadcastFrame, Feed!Next
<1>2. CASE EnterHeader \/ EnterPayload
  BY <1>2, FeedEnter DEF Feed!Next
<1>3. CASE Callback
  BY <1>3, FeedCallback DEF Feed!Next
<1>4. CASE HandleStop \/ Crash \/ StartSession \/ StopBegins \/ OwnerStep \/ Reuse
  BY <1>4 DEF HandleStop, Crash, StartSession, StopBegins, OwnerStep, Reuse, StartListener, StartFails, SendStop,
              CloseSession, Join, thread, daemon, callbacks, Feed!feedvars
<1>5. CASE Test \/ ReadHeader \/ ReadPayload
  BY <1>5 DEF Test, ReadHeader, ReadPayload, daemon, callbacks, Feed!feedvars
<1>6. CASE UNCHANGED streamvars
  BY <1>6 DEF streamvars, thread, daemon, callbacks, Feed!feedvars
<1> QED
  BY <1>1, <1>2, <1>3, <1>4, <1>5, <1>6 DEF StreamNext, ListenerStep

(* The callback of a session is given the events that the daemon wrote, each at *)
(* most once, in order and, until a payload is dropped, without a gap; whatever *)
(* else it is given stands for a dropped payload or, once, for what was read    *)
(* from a descriptor that had become somebody else's, an event of another       *)
(* session included (sdk/src/sensors_daemon.c, sensors_client.c).               *)
THEOREM StreamIsFeed == StreamSpec => FeedSafe
<1>1. StreamSpec => []StreamInv
  BY StreamInvariant
<1> QED
  BY <1>1, FeedStarts, FeedStep, PTL DEF StreamSpec, FeedSafe, Feed!Spec
=============================================================================
