-------------------------- MODULE BluetoothService --------------------------
(***************************************************************************)
(* The Bluetooth daemon of sdk/src/bluetooth_svc.cpp: one thread serves    *)
(* requests (sdk/src/libbluetooth_client.c opens a connection for each),   *)
(* and every accepted START spawns a detached scan thread that appends to  *)
(* the device list once a second.  is_scanning is a plain bool that the    *)
(* threads share; the list has a mutex, which clear() does not take.       *)
(***************************************************************************)
EXTENDS Integers, Sequences

CONSTANTS
  Callers,      \* who may have a request under way
  ScanThreads,  \* bound: scan threads alive at a time
  MaxDevices,   \* devices one thread reports (10)
  Garbage,      \* a list that a clear() and a push_back() changed at once
  NoOne         \* no caller; no owner of the mutex

ASSUME CallersAssumption == NoOne \notin Callers
ASSUME ThreadsAssumption == NoOne \notin ScanThreads
ASSUME DevicesAssumption == MaxDevices \in Nat \ {0}
ASSUME GarbageAssumption == Garbage \notin Seq(Nat)

VARIABLES
  bt_alive,           \* the daemon runs
  request,            \* the command of each caller's connection
  answer,             \* the status and device count it has been sent
  clearing,           \* the caller for whom the service is inside clear()
  waiting,            \* the caller for whose GET the service waits for the mutex
  is_scanning,
  discovered_devices,
  list_mutex,         \* the scan thread that holds it
  scan,               \* where each scan thread stands
  count,              \* its local counter
  hasty               \* history: a scan older than the list was stopped before its end

service == <<bt_alive, clearing, waiting, is_scanning, discovered_devices, hasty>>
threads == <<list_mutex, scan, count>>
callers == <<request, answer>>
btvars  == <<callers, service, threads>>

Commands == {"start", "stop", "get"}
NoAnswer == [status |-> 1, devices |-> 0]
Answers  == [status : {0, -1, -3}, devices : Nat] \cup {NoAnswer}

BtTypeOK ==
  /\ bt_alive \in BOOLEAN
  /\ request \in [Callers -> Commands \cup {"none", "broken"}]
  /\ answer \in [Callers -> Answers]
  /\ clearing \in Callers \cup {NoOne}
  /\ waiting \in Callers \cup {NoOne}
  /\ is_scanning \in BOOLEAN
  /\ discovered_devices \in Seq(1 .. MaxDevices) \cup {Garbage}
  /\ list_mutex \in ScanThreads \cup {NoOne}
  /\ scan \in [ScanThreads -> {"none", "loop", "sleep", "push"}]
  /\ count \in [ScanThreads -> 0 .. MaxDevices]
  /\ hasty \in BOOLEAN

BtInit ==
  /\ bt_alive = TRUE
  /\ request = [c \in Callers |-> "none"]
  /\ answer = [c \in Callers |-> NoAnswer]
  /\ clearing = NoOne
  /\ waiting = NoOne
  /\ is_scanning = FALSE
  /\ discovered_devices = <<>>
  /\ list_mutex = NoOne
  /\ scan = [t \in ScanThreads |-> "none"]
  /\ count = [t \in ScanThreads |-> 0]
  /\ hasty = FALSE

-----------------------------------------------------------------------------
(* the scan threads: generate_mock_le_telemetry *)

Live == {t \in ScanThreads : scan[t] # "none"}

(* mutant: the thread outlives its ten devices *)
TestLoopForEver(t) ==
  /\ scan[t] = "loop"
  /\ scan' = [scan EXCEPT ![t] = IF is_scanning THEN "sleep" ELSE "none"]
  /\ count' = [count EXCEPT ![t] = @ % MaxDevices]
  /\ UNCHANGED <<callers, service, list_mutex>>

TestLoop(t) ==
  /\ scan[t] = "loop"
  /\ IF is_scanning /\ count[t] < MaxDevices
     THEN scan' = [scan EXCEPT ![t] = "sleep"] /\ UNCHANGED count
     ELSE scan' = [scan EXCEPT ![t] = "none"] /\ count' = [count EXCEPT ![t] = 0]
  /\ UNCHANGED <<callers, service, list_mutex>>

LockList(t) ==
  /\ scan[t] = "sleep" /\ list_mutex = NoOne
  /\ list_mutex' = t
  /\ scan' = [scan EXCEPT ![t] = "push"]
  /\ UNCHANGED <<callers, service, count>>

Pushed(device) ==
  IF clearing # NoOne \/ discovered_devices = Garbage THEN Garbage
  ELSE Append(discovered_devices, device)

(* mutant: the address is made from the counter as it was *)
PushSame(t) ==
  /\ scan[t] = "push"
  /\ discovered_devices' = Pushed(IF count[t] = 0 THEN 1 ELSE count[t])
  /\ list_mutex' = NoOne
  /\ count' = [count EXCEPT ![t] = @ + 1]
  /\ scan' = [scan EXCEPT ![t] = "loop"]
  /\ UNCHANGED <<callers, bt_alive, clearing, waiting, is_scanning, hasty>>

(* push_back, unlock, count++ *)
Push(t) ==
  /\ scan[t] = "push"
  /\ discovered_devices' = Pushed(count[t] + 1)
  /\ list_mutex' = NoOne
  /\ count' = [count EXCEPT ![t] = @ + 1]
  /\ scan' = [scan EXCEPT ![t] = "loop"]
  /\ UNCHANGED <<callers, bt_alive, clearing, waiting, is_scanning, hasty>>

ScanStep(t) == TestLoop(t) \/ LockList(t) \/ Push(t)

-----------------------------------------------------------------------------
(* the service thread: handle_client_request *)

Free == bt_alive /\ clearing = NoOne /\ waiting = NoOne
Serves(c, command) == Free /\ request[c] = command

Respond(c, status, n) ==
  /\ request' = [request EXCEPT ![c] = "none"]
  /\ answer' = [answer EXCEPT ![c] = [status |-> status, devices |-> n]]

(* mutant: a second scan is accepted while one runs *)
BeginStartAgain(c) ==
  /\ Serves(c, "start")
  /\ clearing' = c
  /\ discovered_devices' = IF list_mutex = NoOne THEN <<>> ELSE Garbage
  /\ hasty' = (hasty /\ Live # {})
  /\ UNCHANGED <<callers, bt_alive, waiting, is_scanning, threads>>

(* clear() begins.  A thread between lock and unlock has seen the old list *)
BeginStart(c) ==
  /\ Serves(c, "start") /\ ~is_scanning
  /\ clearing' = c
  /\ discovered_devices' = IF list_mutex = NoOne THEN <<>> ELSE Garbage
  /\ hasty' = (hasty /\ Live # {})
  /\ UNCHANGED <<callers, bt_alive, waiting, is_scanning, threads>>

(* clear() ends, is_scanning is set and the thread is created, which may   *)
(* fail unnoticed.                                                         *)
FinishStart(c) ==
  /\ clearing = c /\ bt_alive
  /\ clearing' = NoOne
  /\ discovered_devices' = IF list_mutex = NoOne THEN discovered_devices ELSE Garbage
  /\ is_scanning' = TRUE
  /\ \/ \E t \in ScanThreads \ Live :
          scan' = [scan EXCEPT ![t] = "loop"]
     \/ UNCHANGED scan
  /\ IF request[c] = "start" THEN Respond(c, 0, 0) ELSE UNCHANGED callers
  /\ UNCHANGED <<bt_alive, waiting, list_mutex, count, hasty>>

(* mutant: a busy scanner does not answer *)
RefuseStartSilent(c) ==
  /\ Serves(c, "start") /\ is_scanning
  /\ UNCHANGED btvars

(* -3, "Scanner Busy" here and STATUS_PERMISSION_DENIED in ipc_common.h *)
RefuseStart(c) ==
  /\ Serves(c, "start") /\ is_scanning
  /\ Respond(c, -3, 0)
  /\ UNCHANGED <<service, threads>>

StopScan(c) ==
  /\ Serves(c, "stop")
  /\ is_scanning' = FALSE
  /\ hasty' = (hasty \/ Live # {})
  /\ Respond(c, 0, 0)
  /\ UNCHANGED <<bt_alive, clearing, waiting, discovered_devices, threads>>

(* a GET that meets the mutex taken holds up every other caller *)
WaitForList(c) ==
  /\ Serves(c, "get") /\ list_mutex # NoOne
  /\ waiting' = c
  /\ UNCHANGED <<callers, bt_alive, clearing, is_scanning, discovered_devices, hasty, threads>>

(* the copy is made under the mutex *)
GetDevices(c) ==
  /\ Serves(c, "get") \/ waiting = c
  /\ list_mutex = NoOne
  /\ waiting' = NoOne
  /\ IF request[c] = "get"
     THEN \E n \in IF discovered_devices = Garbage THEN 0 .. MaxDevices
                   ELSE {Len(discovered_devices)} : Respond(c, 0, n)
     ELSE UNCHANGED callers
  /\ UNCHANGED <<bt_alive, clearing, is_scanning, discovered_devices, hasty, threads>>

(* The answer goes to a caller that has closed its end: nothing ignores    *)
(* SIGPIPE: the daemon, its threads and its memory go, every waiting read  *)
(* ends.                                                                   *)
BrokenPipe(c) ==
  /\ Serves(c, "broken")
  /\ bt_alive' = FALSE
  /\ scan' = [t \in ScanThreads |-> "none"]
  /\ count' = [t \in ScanThreads |-> 0]
  /\ list_mutex' = NoOne
  /\ is_scanning' = FALSE /\ discovered_devices' = <<>> /\ hasty' = FALSE
  /\ answer' = [d \in Callers |-> IF request[d] \in Commands
                                  THEN [status |-> -1, devices |-> 0] ELSE answer[d]]
  /\ request' = [d \in Callers |-> "none"]
  /\ UNCHANGED <<clearing, waiting>>

Serve(c) ==
  \/ BeginStart(c) \/ FinishStart(c) \/ RefuseStart(c) \/ StopScan(c)
  \/ WaitForList(c) \/ GetDevices(c) \/ BrokenPipe(c)

-----------------------------------------------------------------------------
(* libbluetooth_client.c: a connection carries one request and its answer *)

Send(c, command) ==
  /\ request[c] = "none" /\ answer[c] = NoAnswer
  /\ IF bt_alive
     THEN request' = [request EXCEPT ![c] = command] /\ UNCHANGED answer
     ELSE answer' = [answer EXCEPT ![c] = [status |-> -1, devices |-> 0]] /\ UNCHANGED request
  /\ UNCHANGED <<service, threads>>

Receive(c) ==
  /\ answer[c] # NoAnswer
  /\ answer' = [answer EXCEPT ![c] = NoAnswer]
  /\ UNCHANGED <<request, service, threads>>

(* the calling process is killed while it waits *)
HangUp(c) ==
  /\ request[c] \in Commands
  /\ request' = [request EXCEPT ![c] = "broken"]
  /\ UNCHANGED <<answer, service, threads>>

BtCaller(c) == (\E command \in Commands : Send(c, command)) \/ Receive(c) \/ HangUp(c)

BtNext ==
  \/ \E c \in Callers : BtCaller(c) \/ Serve(c)
  \/ \E t \in ScanThreads : ScanStep(t)

BtSafety == BtInit /\ [][BtNext]_btvars

(* The daemon's loop and its threads run; epoll hands out every ready      *)
(* descriptor in turn and a scan thread sleeps a second without the mutex, *)
(* so none is passed over for ever.  Nobody has to ask, or to read.        *)
BtSpec ==
  /\ BtSafety
  /\ \A c \in Callers : SF_btvars(Serve(c))
  /\ \A t \in ScanThreads : SF_btvars(ScanStep(t))

-----------------------------------------------------------------------------
(* When no scan was stopped before its end, one thread at a time fills the *)
(* list (generate_mock_le_telemetry), and the list names each device once, *)
(* in order, up to the thread's counter.                                   *)
SoleScanInOrder ==
  ~hasty => /\ \A t, u \in Live : t = u
            /\ \A t \in Live : discovered_devices = [i \in 1 .. count[t] |-> i]

(* The missing lock around clear() (START, bluetooth_svc.cpp:391) corrupts *)
(* the list only after a STOP that came while a scan thread still ran.     *)
RaceNeedsEarlyStop ==
  discovered_devices = Garbage => hasty

(* Every scan thread ends, whether anybody stops it or not. *)
ScanEnds == \A t \in ScanThreads : scan[t] # "none" ~> scan[t] = "none"

(* A request is answered or, when its caller has gone, dropped, and with   *)
(* the death of the daemon every request is.                               *)
RequestServed == \A c \in Callers : request[c] # "none" ~> request[c] = "none"
=============================================================================
