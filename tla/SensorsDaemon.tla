---------------------------- MODULE SensorsDaemon ----------------------------
(***************************************************************************)
(* The sensor service of sdk/src/sensors_daemon.c with its clients, which  *)
(* speak through sdk/src/sensors_client.c: each connects, sends START,     *)
(* waits for the answer and later sends STOP and closes, or is killed.     *)
(* The daemon is one thread around epoll.  Client descriptors are edge     *)
(* triggered and each event reads one header, so two arrivals before the   *)
(* same epoll_wait give one read.  SIGPIPE keeps its default action: a     *)
(* write to a connection whose peer is gone ends the daemon.               *)
(* One client stands for one session; a process may own several.           *)
(***************************************************************************)
EXTENDS Integers, FiniteSets, Sequences

CONSTANTS
  Clients,
  Free,      \* an empty entry of streaming_clients (0 in the code)
  MaxSlots   \* MAX_STREAMING_CLIENTS

ASSUME FreeAssumption  == Free \notin Clients
ASSUME SlotsAssumption == MaxSlots \in Nat \ {0}

Slots == 1 .. MaxSlots

VARIABLES
  alive,              \* the daemon has not been killed
  streaming_clients,
  active_clients_count,
  sensing,            \* the accelerometer is enabled
  ready,              \* epoll: connections with an edge not reported yet
  events,             \* connections reported by epoll_wait, not handled yet
  conn,               \* the daemon's end of each connection
  inbox,              \* what the daemon has not read from it
  session             \* where each client stands

table  == <<streaming_clients, active_clients_count, sensing>>
epoll  == <<ready, events>>
vars   == <<alive, table, epoll, conn, inbox, session>>

TypeOK ==
  /\ alive \in BOOLEAN
  /\ streaming_clients \in [Slots -> Clients \cup {Free}]
  /\ active_clients_count \in 0 .. MaxSlots
  /\ sensing \in BOOLEAN
  /\ ready \in SUBSET Clients
  /\ events \in SUBSET Clients
  /\ conn \in [Clients -> {"none", "pending", "open", "closed"}]
  /\ inbox \in [Clients -> Seq({"start", "stop", "eof"})]
  /\ session \in [Clients -> {"none", "starting", "acked", "streaming", "stopping", "gone",
                           "killed"}]

Init ==
  /\ alive = TRUE
  /\ streaming_clients = [i \in Slots |-> Free]
  /\ active_clients_count = 0 /\ sensing = FALSE
  /\ ready = {} /\ events = {}
  /\ conn = [c \in Clients |-> "none"]
  /\ inbox = [c \in Clients |-> <<>>]
  /\ session = [c \in Clients |-> "none"]

-----------------------------------------------------------------------------
(* the clients *)

(* the other end of the connection is closed *)
Gone(c) == session[c] \in {"gone", "killed"}

Become(c, to) == session' = [session EXCEPT ![c] = to]

(* new data, or the end of the stream, is an edge on an accepted connection *)
Arrives(c, what) ==
  /\ inbox' = [inbox EXCEPT ![c] = Append(@, what)]
  /\ ready' = IF conn[c] = "open" THEN ready \cup {c} ELSE ready

(* start_sensor_stream up to the read of the acknowledgement *)
Start(c) ==
  /\ alive /\ session[c] = "none"
  /\ Become(c, "starting")
  /\ conn' = [conn EXCEPT ![c] = "pending"]
  /\ Arrives(c, "start")
  /\ UNCHANGED <<alive, table, events>>

Started(c) ==
  /\ session[c] = "acked"
  /\ Become(c, "streaming")
  /\ UNCHANGED <<alive, table, epoll, conn, inbox>>

(* stop_sensor_stream: the request, then the end of the connection *)
Stop(c) ==
  /\ session[c] = "streaming"
  /\ Become(c, "stopping")
  /\ Arrives(c, "stop")
  /\ UNCHANGED <<alive, table, events, conn>>

Close(c) ==
  /\ session[c] = "stopping"
  /\ Become(c, "gone")
  /\ Arrives(c, "eof")
  /\ UNCHANGED <<alive, table, events, conn>>

(* the process of a client is killed; after its STOP this is a close *)
Killed(c) ==
  /\ session[c] \in {"starting", "acked", "streaming"}
  /\ Become(c, "killed")
  /\ Arrives(c, "eof")
  /\ UNCHANGED <<alive, table, events, conn>>

ClientStep(c) == Start(c) \/ Started(c) \/ Stop(c) \/ Close(c) \/ Killed(c)

-----------------------------------------------------------------------------
(* the loop of the daemon *)

(* EPOLL_CTL_ADD reports what has arrived before it as an edge *)
Accept(c) ==
  /\ alive /\ conn[c] = "pending"
  /\ conn' = [conn EXCEPT ![c] = "open"]
  /\ ready' = IF inbox[c] # <<>> THEN ready \cup {c} ELSE ready
  /\ UNCHANGED <<alive, table, events, inbox, session>>

EpollWait ==
  /\ alive /\ events = {} /\ ready # {}
  /\ events' = ready
  /\ ready' = {}
  /\ UNCHANGED <<alive, table, conn, inbox, session>>

(* one frame to one streaming client *)
Broadcast(i) ==
  /\ alive /\ sensing /\ streaming_clients[i] # Free
  /\ alive' = ~Gone(streaming_clients[i])
  /\ UNCHANGED <<table, epoll, conn, inbox, session>>

First(i, x) ==
  /\ streaming_clients[i] = x
  /\ \A j \in Slots : j < i => streaming_clients[j] # x

Holds(x) == \E i \in Slots : streaming_clients[i] = x

add_streaming_client(c) ==
  IF Holds(Free)
  THEN /\ \E i \in Slots : First(i, Free)
            /\ streaming_clients' = [streaming_clients EXCEPT ![i] = c]
       /\ active_clients_count' = active_clients_count + 1
  ELSE UNCHANGED <<streaming_clients, active_clients_count>>

remove_streaming_client(c) ==
  IF Holds(c)
  THEN /\ \E i \in Slots : First(i, c)
            /\ streaming_clients' = [streaming_clients EXCEPT ![i] = Free]
       /\ active_clients_count' = active_clients_count - 1
  ELSE UNCHANGED <<streaming_clients, active_clients_count>>

(* mutant: a connection is read until nothing is left, and that read, too,  *)
(* is taken for the end                                                     *)
HandlesAgain(c) ==
  /\ alive /\ c \in events
  /\ events' = IF inbox[c] = <<>> THEN events \ {c} ELSE events

Handles(c) ==
  /\ alive /\ c \in events
  /\ events' = events \ {c}

(* the answer reaches the client or kills the daemon *)
Answer(c) == alive' = ~Gone(c)

StartRequest(c) ==
  /\ Handles(c) /\ inbox[c] # <<>> /\ Head(inbox[c]) = "start"
  /\ inbox' = [inbox EXCEPT ![c] = Tail(@)]
  /\ add_streaming_client(c)
  /\ sensing' = TRUE
  /\ Answer(c)
  /\ Become(c, IF session[c] = "starting" THEN "acked" ELSE session[c])
  /\ UNCHANGED <<ready, conn>>

(* mutant: the sensor is stopped with the request of any client *)
StopRequestAlways(c) ==
  /\ Handles(c) /\ inbox[c] # <<>> /\ Head(inbox[c]) = "stop"
  /\ inbox' = [inbox EXCEPT ![c] = Tail(@)]
  /\ remove_streaming_client(c)
  /\ sensing' = FALSE
  /\ Answer(c)
  /\ UNCHANGED <<ready, conn, session>>

StopRequest(c) ==
  /\ Handles(c) /\ inbox[c] # <<>> /\ Head(inbox[c]) = "stop"
  /\ inbox' = [inbox EXCEPT ![c] = Tail(@)]
  /\ remove_streaming_client(c)
  /\ sensing' = IF active_clients_count' = 0 THEN FALSE ELSE sensing
  /\ Answer(c)
  /\ UNCHANGED <<ready, conn, session>>

(* mutant: a descriptor is closed and its entry stays *)
DisconnectKeepsEntry(c) ==
  /\ Handles(c)
  /\ inbox[c] = <<>> \/ Head(inbox[c]) = "eof"
  /\ conn' = [conn EXCEPT ![c] = "closed"]
  /\ ready' = ready \ {c}
  /\ UNCHANGED <<alive, table, inbox, session>>

(* mutant: the entry goes and the descriptor stays *)
DisconnectLeaks(c) ==
  /\ Handles(c)
  /\ inbox[c] = <<>> \/ Head(inbox[c]) = "eof"
  /\ remove_streaming_client(c)
  /\ UNCHANGED <<alive, sensing, ready, conn, inbox, session>>

(* read returned 0, or -1 when nothing was there *)
Disconnect(c) ==
  /\ Handles(c)
  /\ inbox[c] = <<>> \/ Head(inbox[c]) = "eof"
  /\ remove_streaming_client(c)
  /\ conn' = [conn EXCEPT ![c] = "closed"]
  /\ ready' = ready \ {c}
  /\ UNCHANGED <<alive, sensing, inbox, session>>

DaemonStep ==
  \/ EpollWait
  \/ \E i \in Slots : Broadcast(i)
  \/ \E c \in Clients :
       Accept(c) \/ StartRequest(c) \/ StopRequest(c) \/ Disconnect(c)

Next == DaemonStep \/ \E c \in Clients : ClientStep(c)

Spec == Init /\ [][Next]_vars

(* The loop goes on: it waits, and handles each event that was reported.   *)
FairSpec ==
  /\ Spec
  /\ WF_vars(EpollWait)
  /\ \A c \in Clients :
       WF_vars(Accept(c)) /\ WF_vars(StartRequest(c) \/ StopRequest(c) \/ Disconnect(c))

-----------------------------------------------------------------------------
Entries == {i \in Slots : streaming_clients[i] # Free}

(* The count, which decides when the hardware is suspended, is the number  *)
(* of entries in use whatever order clients come, stop and die in.         *)
CountMatchesEntries == active_clients_count = Cardinality(Entries)

(* An entry belongs to a connection that is open, and no two entries to    *)
(* the same one: a descriptor that is reused gets no frames of the client  *)
(* that had it before.                                                     *)
EntriesAreOpen ==
  /\ \A i \in Entries : conn[streaming_clients[i]] = "open"
  /\ \A i, j \in Entries : streaming_clients[i] = streaming_clients[j] => i = j

(* The table is what the broadcasts and the decision to suspend rely on. *)
TableConsistent == CountMatchesEntries /\ EntriesAreOpen

(* While a client is registered the accelerometer is on: another client's  *)
(* STOP or disconnection does not silence it.                              *)
SensingWhileRegistered == Entries # {} => sensing

(* If the accelerometer is on for nobody, a client was killed before it    *)
(* sent STOP and has been disconnected (583).  A session that was stopped  *)
(* leaves it off, however its STOP and the end of its connection, which    *)
(* may be reported as one event, mix with the requests of the others.      *)
IdleSensing ==
  sensing /\ Entries = {} => \E c \in Clients : conn[c] = "closed" /\ session[c] = "killed"

(* The accelerometer follows the registrations, in both directions. *)
SensorFollowsClients == SensingWhileRegistered /\ IdleSensing

(* A read that finds nothing is taken for the end of the connection (579). *)
(* Although edges are merged, reported late and answered by one read each, *)
(* that never happens: a connection is closed only if its client is gone.  *)
OnlyGoneDisconnected == \A c \in Clients : conn[c] = "closed" => Gone(c)

(* The daemon notices that a client is gone although it reads one header   *)
(* per edge: it closes its end, or the write of an answer or of a frame    *)
(* has killed it.                                                          *)
DisconnectNoticed ==
  \A c \in Clients : Gone(c) ~> (conn[c] = "closed" \/ ~alive)

=============================================================================
