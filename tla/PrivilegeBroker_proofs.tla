----------------------- MODULE PrivilegeBroker_proofs -----------------------
(***************************************************************************)
(* Proofs about the broker and the Bluetooth daemon behind it, for any     *)
(* number of clients, callers, scan threads and requests.                  *)
(***************************************************************************)
EXTENDS PrivilegeBroker, SequenceTheorems, TLAPS

USE CallersAssumption, ThreadsAssumption, DevicesAssumption
USE BrokerAssumption, FullAssumption, RequestsAssumption

-----------------------------------------------------------------------------
(* The Bluetooth daemon by itself *)

(* A thread that is about to report a device has not reported its last. *)
LimitInv ==
  \A t \in ScanThreads : /\ scan[t] \in {"sleep", "push"} => count[t] < MaxDevices
                         /\ scan[t] = "none" => count[t] = 0

MutexInv == \A t \in ScanThreads : scan[t] = "push" <=> list_mutex = t

(* As long as nobody stops a scan before its end, the flag outlives the    *)
(* thread: a START that is accepted finds no thread alive.                 *)
Alone ==
  /\ Live # {} => is_scanning /\ clearing = NoOne
  /\ clearing # NoOne => discovered_devices = <<>>
  /\ discovered_devices # Garbage
  /\ \A t, u \in Live : t = u
  /\ \A t \in Live : discovered_devices = [i \in 1 .. count[t] |-> i]

SoleInv == ~hasty => Alone

BtInd == BtTypeOK /\ LimitInv /\ MutexInv /\ SoleInv

LEMMA EmptyUpTo == <<>> = [i \in 1 .. 0 |-> i] /\ <<>> \in Seq(1 .. MaxDevices) /\ <<>> # Garbage
<1>1. <<>> \in Seq(Nat) /\ <<>> \in Seq(1 .. MaxDevices)
  OBVIOUS
<1>2. <<>> = [i \in 1 .. 0 |-> i]
  BY SMT
<1> QED
  BY <1>1, <1>2, GarbageAssumption

LEMMA AppendUpTo ==
  ASSUME NEW n \in Nat, NEW s, s = [i \in 1 .. n |-> i]
  PROVE  Append(s, n + 1) = [i \in 1 .. n + 1 |-> i] /\ Append(s, n + 1) # Garbage
<1>1. s \in Seq(Nat) /\ Len(s) = n
  OBVIOUS
<1>2. Append(s, n + 1) \in Seq(Nat)
  BY <1>1
<1>3. Len(Append(s, n + 1)) = n + 1
  BY <1>1
<1>4. \A i \in 1 .. n + 1 : Append(s, n + 1)[i] = i
  BY <1>1
<1>5. Append(s, n + 1) = [i \in 1 .. n + 1 |-> Append(s, n + 1)[i]]
  BY <1>2, <1>3
<1> QED
  BY <1>2, <1>4, <1>5, GarbageAssumption

LEMMA BtInitInd == BtInit => BtInd
<1> SUFFICES ASSUME BtInit  PROVE BtInd
  OBVIOUS
<1>1. Live = {}
  BY DEF BtInit, Live
<1>2. BtTypeOK
  <2>1. answer \in [Callers -> Answers]
    BY DEF BtInit, Answers
  <2>2. /\ request \in [Callers -> Commands \cup {"none", "broken"}]
        /\ scan \in [ScanThreads -> {"none", "loop", "sleep", "push"}]
        /\ count \in [ScanThreads -> 0 .. MaxDevices]
    BY DEF BtInit
  <2>3. bt_alive \in BOOLEAN /\ is_scanning \in BOOLEAN /\ hasty \in BOOLEAN
    BY DEF BtInit
  <2> QED
    BY <2>1, <2>2, <2>3, EmptyUpTo DEF BtInit, BtTypeOK
<1>3. LimitInv /\ MutexInv
  BY DEF BtInit, LimitInv, MutexInv
<1>4. SoleInv
  BY <1>1, EmptyUpTo DEF BtInit, SoleInv, Alone
<1> QED
  BY <1>2, <1>3, <1>4 DEF BtInd

(* A caller's step leaves the scan alone. *)
LEMMA CallerInd ==
  ASSUME BtInd, NEW c \in Callers, BtCaller(c)
  PROVE  BtInd'
<1> USE DEF BtInd
<1>1. UNCHANGED <<service, threads>>
  BY DEF BtCaller, Send, Receive, HangUp
<1>2. request' \in [Callers -> Commands \cup {"none", "broken"}]
  BY DEF BtCaller, Send, Receive, HangUp, BtTypeOK
<1>6. answer' \in [Callers -> Answers]
  <2>1. [status |-> -1, devices |-> 0] \in Answers /\ NoAnswer \in Answers
    BY DEF Answers
  <2> QED
    BY <2>1 DEF BtCaller, Send, Receive, HangUp, BtTypeOK
<1>3. BtTypeOK'
  BY <1>1, <1>2, <1>6 DEF BtTypeOK, service, threads
<1>4. LimitInv' /\ MutexInv'
  BY <1>1 DEF LimitInv, MutexInv, threads
<1>5. SoleInv'
  BY <1>1 DEF SoleInv, Alone, Live, service, threads
<1> QED
  BY <1>3, <1>4, <1>5

LEMMA RespondType ==
  ASSUME BtTypeOK, NEW c \in Callers, NEW s \in {0, -1, -3}, NEW n \in Nat, Respond(c, s, n)
  PROVE  request' \in [Callers -> Commands \cup {"none", "broken"}] /\ answer' \in [Callers -> Answers]
BY DEF Respond, BtTypeOK, Answers

LEMMA ScanInd ==
  ASSUME BtInd, NEW t \in ScanThreads, ScanStep(t)
  PROVE  BtInd'
<1> USE DEF BtInd
<1>1. CASE TestLoop(t)
  <2>1. Live' \subseteq Live
    BY <1>1 DEF TestLoop, Live, BtTypeOK
  <2>2. \A u \in Live' : count'[u] = count[u]
    BY <1>1 DEF TestLoop, Live, BtTypeOK
  <2>3. BtTypeOK'
    <3>1. CASE is_scanning /\ count[t] < MaxDevices
      BY <1>1, <3>1 DEF TestLoop, BtTypeOK, callers, service
    <3>2. CASE ~(is_scanning /\ count[t] < MaxDevices)
      <4>1. scan' = [scan EXCEPT ![t] = "none"] /\ count' = [count EXCEPT ![t] = 0] /\ 0 \in 0 .. MaxDevices
        BY <1>1, <3>2 DEF TestLoop, BtTypeOK
      <4> QED
        BY <1>1, <4>1 DEF TestLoop, BtTypeOK, callers, service
    <3> QED
      BY <3>1, <3>2
  <2>4. LimitInv' /\ MutexInv'
    BY <1>1 DEF TestLoop, BtTypeOK, LimitInv, MutexInv
  <2>5. SoleInv'
    BY <1>1, <2>1, <2>2 DEF TestLoop, SoleInv, Alone, service
  <2> QED
    BY <2>3, <2>4, <2>5
<1>2. CASE LockList(t)
  <2>1. Live' = Live
    BY <1>2 DEF LockList, Live, BtTypeOK
  <2>2. BtTypeOK'
    BY <1>2 DEF LockList, BtTypeOK, callers, service
  <2>3. LimitInv' /\ MutexInv'
    BY <1>2 DEF LockList, BtTypeOK, LimitInv, MutexInv
  <2>4. SoleInv'
    BY <1>2, <2>1 DEF LockList, SoleInv, Alone, service
  <2> QED
    BY <2>2, <2>3, <2>4
<1>3. CASE Push(t)
  <2>1. Live' = Live /\ t \in Live
    BY <1>3 DEF Push, Live, BtTypeOK
  <2>2. count[t] \in 0 .. MaxDevices /\ count[t] < MaxDevices /\ count[t] + 1 \in 1 .. MaxDevices
    BY <1>3 DEF Push, BtTypeOK, LimitInv
  <2>3. discovered_devices' \in Seq(1 .. MaxDevices) \cup {Garbage}
    <3>1. CASE discovered_devices = Garbage \/ clearing # NoOne
      BY <1>3, <3>1 DEF Push, Pushed
    <3>2. CASE ~(discovered_devices = Garbage \/ clearing # NoOne)
      <4>1. discovered_devices \in Seq(1 .. MaxDevices)
        BY <3>2 DEF BtTypeOK
      <4>2. discovered_devices' = Append(discovered_devices, count[t] + 1)
        BY <1>3, <3>2 DEF Push, Pushed
      <4> QED
        BY <2>2, <4>1, <4>2, AppendProperties
    <3> QED
      BY <3>1, <3>2
  <2>4. BtTypeOK'
    <3>1. count' \in [ScanThreads -> 0 .. MaxDevices]
      BY <1>3, <2>2 DEF Push, BtTypeOK
    <3>2. scan' \in [ScanThreads -> {"none", "loop", "sleep", "push"}]
      BY <1>3 DEF Push, BtTypeOK
    <3> QED
      BY <1>3, <2>3, <3>1, <3>2 DEF Push, BtTypeOK, callers
  <2>5. LimitInv' /\ MutexInv'
    BY <1>3 DEF Push, BtTypeOK, LimitInv, MutexInv
  <2>6. ASSUME ~hasty'  PROVE Alone'
    <3>1. ~hasty /\ is_scanning /\ clearing = NoOne /\ discovered_devices # Garbage
      BY <1>3, <2>1, <2>6 DEF Push, SoleInv, Alone
    <3>2. discovered_devices = [i \in 1 .. count[t] |-> i] /\ \A u \in Live : u = t
      BY <2>1, <3>1 DEF SoleInv, Alone
    <3>3. discovered_devices' = Append(discovered_devices, count[t] + 1) /\ count'[t] = count[t] + 1
      BY <1>3, <3>1 DEF Push, Pushed, BtTypeOK
    <3>4. discovered_devices' = [i \in 1 .. count'[t] |-> i] /\ discovered_devices' # Garbage
      <4>1. count[t] \in Nat
        BY <2>2
      <4>2. /\ Append(discovered_devices, count[t] + 1) = [i \in 1 .. count[t] + 1 |-> i]
            /\ Append(discovered_devices, count[t] + 1) # Garbage
        BY <3>2, <4>1, AppendUpTo
      <4> QED
        BY <3>3, <4>2
    <3> QED
      BY <1>3, <2>1, <3>1, <3>2, <3>4 DEF Push, Alone, callers
  <2>7. SoleInv'
    BY <2>6 DEF SoleInv, Alone
  <2> QED
    BY <2>4, <2>5, <2>7
<1> QED
  BY <1>1, <1>2, <1>3 DEF ScanStep

LEMMA ServeInd ==
  ASSUME BtInd, NEW c \in Callers, Serve(c)
  PROVE  BtInd'
<1> USE DEF BtInd
<1>1. CASE BeginStart(c)
  <2>1. BtTypeOK'
    BY <1>1, EmptyUpTo DEF BeginStart, BtTypeOK, callers, threads
  <2>2. LimitInv' /\ MutexInv' /\ Live' = Live
    BY <1>1 DEF BeginStart, LimitInv, MutexInv, Live, threads
  <2>3. ASSUME ~hasty'  PROVE Live = {} /\ list_mutex = NoOne
    <3>1. Live = {}
      BY <1>1, <2>3 DEF BeginStart, SoleInv, Alone
    <3>2. \A t \in ScanThreads : scan[t] # "push"
      BY <3>1 DEF Live
    <3> QED
      BY <3>1, <3>2 DEF MutexInv, BtTypeOK
  <2>4. SoleInv'
    BY <1>1, <2>2, <2>3, EmptyUpTo DEF BeginStart, SoleInv, Alone
  <2> QED
    BY <2>1, <2>2, <2>4
<1>2. CASE FinishStart(c)
  <2>1. request' \in [Callers -> Commands \cup {"none", "broken"}] /\ answer' \in [Callers -> Answers]
    BY <1>2, RespondType DEF FinishStart, BtTypeOK, callers
  <2>2. scan' \in [ScanThreads -> {"none", "loop", "sleep", "push"}]
    BY <1>2 DEF FinishStart, BtTypeOK
  <2>3. BtTypeOK'
    BY <1>2, <2>1, <2>2 DEF FinishStart, BtTypeOK
  <2>4. LimitInv' /\ MutexInv'
    <3>1. CASE UNCHANGED scan
      BY <1>2, <3>1 DEF FinishStart, LimitInv, MutexInv
    <3>2. ASSUME NEW t \in ScanThreads \ Live, scan' = [scan EXCEPT ![t] = "loop"]
          PROVE  LimitInv' /\ MutexInv'
      BY <1>2, <3>2 DEF FinishStart, LimitInv, MutexInv, BtTypeOK, Live
    <3> QED
      BY <1>2, <3>1, <3>2 DEF FinishStart
  <2>5. ASSUME ~hasty'  PROVE Alone'
    <3>1. ~hasty /\ Live = {} /\ discovered_devices = <<>>
      BY <1>2, <2>5 DEF FinishStart, SoleInv, Alone
    <3>2. list_mutex = NoOne
      BY <3>1 DEF Live, MutexInv, BtTypeOK
    <3>3. discovered_devices' = <<>> /\ clearing' = NoOne /\ is_scanning' /\ count' = count
      BY <1>2, <3>1, <3>2 DEF FinishStart
    <3>4. \A t \in ScanThreads : count[t] = 0
      BY <3>1 DEF Live, LimitInv
    <3>5. \A t, u \in Live' : t = u
      BY <1>2, <3>1 DEF FinishStart, Live, BtTypeOK
    <3>6. \A t \in Live' : count'[t] = 0
      BY <3>3, <3>4 DEF Live
    <3> QED
      BY <3>3, <3>5, <3>6, EmptyUpTo DEF Alone
  <2>6. SoleInv'
    BY <2>5 DEF SoleInv, Alone
  <2> QED
    BY <2>3, <2>4, <2>6
<1>3. CASE RefuseStart(c)
  <2>1. UNCHANGED <<service, threads>>
    BY <1>3 DEF RefuseStart
  <2>2. BtTypeOK'
    BY <1>3, <2>1, RespondType DEF RefuseStart, BtTypeOK, service, threads
  <2>3. LimitInv' /\ MutexInv' /\ SoleInv'
    BY <2>1 DEF LimitInv, MutexInv, SoleInv, Alone, Live, service, threads
  <2> QED
    BY <2>2, <2>3
<1>4. CASE StopScan(c)
  <2>1. BtTypeOK'
    BY <1>4, RespondType DEF StopScan, BtTypeOK, threads
  <2>2. LimitInv' /\ MutexInv' /\ Live' = Live
    BY <1>4 DEF StopScan, LimitInv, MutexInv, Live, threads
  <2>3. SoleInv'
    BY <1>4, <2>2 DEF StopScan, SoleInv, Alone, threads
  <2> QED
    BY <2>1, <2>2, <2>3
<1>5. CASE WaitForList(c)
  <2>1. BtTypeOK'
    BY <1>5 DEF WaitForList, BtTypeOK, callers, threads
  <2>2. LimitInv' /\ MutexInv' /\ SoleInv'
    BY <1>5 DEF WaitForList, LimitInv, MutexInv, SoleInv, Alone, Live, threads
  <2> QED
    BY <2>1, <2>2
<1>6. CASE GetDevices(c)
  <2>1. discovered_devices # Garbage => Len(discovered_devices) \in Nat
    BY DEF BtTypeOK
  <2>2. request' \in [Callers -> Commands \cup {"none", "broken"}] /\ answer' \in [Callers -> Answers]
    <3>1. CASE UNCHANGED callers
      BY <3>1 DEF callers, BtTypeOK
    <3>2. ASSUME NEW n \in Nat, Respond(c, 0, n)
          PROVE  request' \in [Callers -> Commands \cup {"none", "broken"}] /\ answer' \in [Callers -> Answers]
      BY <3>2, RespondType
    <3>3. UNCHANGED callers \/ \E n \in Nat : Respond(c, 0, n)
      BY <1>6, <2>1 DEF GetDevices
    <3> QED
      BY <3>1, <3>2, <3>3
  <2>3. BtTypeOK'
    BY <1>6, <2>2 DEF GetDevices, BtTypeOK, threads
  <2>4. LimitInv' /\ MutexInv' /\ SoleInv'
    BY <1>6 DEF GetDevices, LimitInv, MutexInv, SoleInv, Alone, Live, threads
  <2> QED
    BY <2>3, <2>4
<1>7. CASE BrokenPipe(c)
  <2>1. Live' = {}
    BY <1>7 DEF BrokenPipe, Live
  <2>2. answer' \in [Callers -> Answers] /\ request' \in [Callers -> Commands \cup {"none", "broken"}]
    BY <1>7 DEF BrokenPipe, BtTypeOK, Answers
  <2>3. scan' \in [ScanThreads -> {"none", "loop", "sleep", "push"}] /\ count' \in [ScanThreads -> 0 .. MaxDevices]
    BY <1>7 DEF BrokenPipe
  <2>4. BtTypeOK'
    BY <1>7, <2>2, <2>3, EmptyUpTo DEF BrokenPipe, BtTypeOK
  <2>5. LimitInv' /\ MutexInv'
    BY <1>7 DEF BrokenPipe, LimitInv, MutexInv
  <2>6. SoleInv'
    BY <1>7, <2>1, EmptyUpTo DEF BrokenPipe, Serves, Free, SoleInv, Alone
  <2> QED
    BY <2>4, <2>5, <2>6
<1> QED
  BY <1>1, <1>2, <1>3, <1>4, <1>5, <1>6, <1>7 DEF Serve

LEMMA BtStepInd == BtInd /\ [BtNext]_btvars => BtInd'
<1> SUFFICES ASSUME BtInd, [BtNext]_btvars  PROVE BtInd'
  OBVIOUS
<1>1. CASE BtNext
  BY <1>1, CallerInd, ServeInd, ScanInd DEF BtNext
<1>2. CASE UNCHANGED btvars
  BY <1>2 DEF btvars, callers, service, threads, BtInd, BtTypeOK, LimitInv, MutexInv, SoleInv, Alone, Live
<1> QED
  BY <1>1, <1>2

LEMMA BtIndCorrect == BtSafety => []BtInd
<1> QED
  BY BtInitInd, BtStepInd, PTL DEF BtSafety

(* Every variable of the Bluetooth daemon keeps its type. *)
THEOREM BtTypeCorrect == BtSafety => []BtTypeOK
<1>1. BtInd => BtTypeOK
  BY DEF BtInd
<1> QED
  BY <1>1, BtIndCorrect, PTL

(* Without an early STOP one thread at a time fills the list, in order. *)
THEOREM SoleScanCorrect == BtSafety => []SoleScanInOrder
<1>1. BtInd => SoleScanInOrder
  BY DEF BtInd, SoleInv, Alone, SoleScanInOrder
<1> QED
  BY <1>1, BtIndCorrect, PTL

(* clear() without the mutex races with push_back only after an early STOP. *)
THEOREM RaceCorrect == BtSafety => []RaceNeedsEarlyStop
<1>1. BtInd => RaceNeedsEarlyStop
  BY DEF BtInd, BtTypeOK, SoleInv, Alone, RaceNeedsEarlyStop
<1> QED
  BY <1>1, BtIndCorrect, PTL

-----------------------------------------------------------------------------
(* The Bluetooth daemon cannot tell the broker from another caller *)

LEMMA StepIsBluetoothStep == [Next]_vars => [BtNext]_btvars
<1> SUFFICES ASSUME [Next]_vars  PROVE [BtNext]_btvars
  OBVIOUS
<1>1. ASSUME NEW c \in Clients, Client(c)  PROVE UNCHANGED btvars
  BY <1>1 DEF Client, Connect, Refused, Write, Vanish, vars
<1>2. CASE Daemon
  <2>1. CASE AskBluetooth
    <3>1. Send(Broker, call[current].command) /\ call[current].command \in Commands
      BY <2>1 DEF AskBluetooth, ForBluetooth
    <3> QED
      BY <3>1 DEF BtNext, BtCaller
  <2>2. CASE BluetoothAnswers
    BY <2>2 DEF BluetoothAnswers, BtNext, BtCaller
  <2> QED
    BY <1>2, <2>1, <2>2 DEF Daemon, Accept, ReadNothing, AnswerItself, AskWifi, WifiAnswers,
                            Reply, ReplyBroken, CloseClient
<1>3. ASSUME NEW c \in Callers, BtCaller(c) \/ Serve(c)  PROVE BtNext
  BY <1>3 DEF BtNext
<1>4. ASSUME NEW t \in ScanThreads, ScanStep(t)  PROVE BtNext
  BY <1>4 DEF BtNext
<1>5. CASE UNCHANGED vars
  BY <1>5 DEF vars
<1> QED
  BY <1>1, <1>2, <1>3, <1>4, <1>5 DEF Next

(* What was proved of the Bluetooth daemon by itself holds behind the      *)
(* broker.                                                                 *)
LEMMA BluetoothBehindBroker == Spec => BtSafety
<1>1. Init => BtInit
  BY DEF Init
<1> QED
  BY <1>1, StepIsBluetoothStep, PTL DEF Spec, BtSafety

-----------------------------------------------------------------------------
(* the connections *)

BrokerShape ==
  /\ broker_pc \in {"accept", "read", "bt", "wifi", "reply", "dead"}
  /\ current \in Clients \cup {NoOne}
  /\ backlog \in Seq(Clients)
  /\ conn \in [Clients -> {"none", "open", "sent", "closed", "broken"}]
  /\ call \in [Clients -> Requests \cup {NoCall}]
  /\ status \in Codes
  /\ len \in Nat
  /\ done \in Commands \cup {"none"}

Queued(c) == \E i \in 1 .. Len(backlog) : backlog[i] = c

(* The thread holds a connection exactly between accept and close, and one *)
(* that has left the backlog.                                              *)
HandInv ==
  /\ current \in Clients <=> broker_pc \in {"read", "bt", "wifi", "reply"}
  /\ current \in Clients => ~Queued(current)
  /\ \A c \in Clients : conn[c] # "none" => call[c] \in Requests

(* The conversation with the Bluetooth daemon is about the call in hand.   *)
TalkInv ==
  /\ request[Broker] # "broken"
  /\ answer[Broker] # NoAnswer => request[Broker] = "none"
  /\ broker_pc = "bt" /\ request[Broker] # "none" => request[Broker] = call[current].command
  /\ broker_pc = "bt" /\ answer[Broker].status = 0 => done = call[current].command
  /\ broker_pc \in {"accept", "read"} => done = "none"
  /\ broker_pc = "bt" /\ done # "none" => answer[Broker].status = 0
  /\ broker_pc = "reply" /\ ForBluetooth(call[current]) /\ done # "none" => status = 0 /\ len <= Full
  /\ broker_pc = "wifi" => ForWifi(call[current])
  /\ broker_pc = "reply" /\ ForBluetooth(call[current]) /\ status = 0 => done = call[current].command

BrokerInd == BrokerShape /\ HandInv /\ EachConnectionOnce /\ OneConversation /\ TalkInv

LEMMA BrokerInitInd == Init => BrokerInd
<1> SUFFICES ASSUME Init  PROVE BrokerInd
  OBVIOUS
<1>1. BrokerShape
  BY DEF Init, BrokerShape, Codes, Commands
<1>2. HandInv
  BY DEF Init, HandInv
<1>3. EachConnectionOnce
  BY DEF Init, EachConnectionOnce
<1>4. OneConversation /\ TalkInv
  BY DEF Init, BtInit, OneConversation, TalkInv, NoAnswer
<1> QED
  BY <1>1, <1>2, <1>3, <1>4 DEF BrokerInd

LEMMA ConnectInd ==
  ASSUME BrokerInd, NEW c \in Clients, NEW r \in Requests, Connect(c, r)
  PROVE  BrokerInd'
<1> USE DEF BrokerInd
<1>1. conn[c] = "none" /\ c # current /\ ~Queued(c)
  BY DEF Connect, EachConnectionOnce, HandInv, BrokerShape, Queued
<1>2. backlog' \in Seq(Clients) /\ Len(backlog') = Len(backlog) + 1 /\ backlog'[Len(backlog) + 1] = c
  BY DEF Connect, BrokerShape
<1>3. \A i \in 1 .. Len(backlog) : backlog'[i] = backlog[i]
  BY DEF Connect, BrokerShape
<1>4. \A i \in 1 .. Len(backlog') : i \in 1 .. Len(backlog) \/ i = Len(backlog) + 1
  BY <1>2 DEF BrokerShape
<1>5. \A d \in Clients : Queued(d)' <=> Queued(d) \/ d = c
  BY <1>2, <1>3, <1>4 DEF Queued, BrokerShape
<1>6. BrokerShape'
  BY <1>2 DEF Connect, BrokerShape, brokervars
<1>7. \A d \in Clients : /\ conn'[d] # "none" <=> conn[d] # "none" \/ d = c
                         /\ call'[d] = IF d = c THEN r ELSE call[d]
  BY DEF Connect, BrokerShape
<1>8. UNCHANGED <<broker_pc, current, status, len, done, request, answer>>
  BY DEF Connect, brokervars, btvars, callers
<1>9. HandInv'
  BY <1>1, <1>5, <1>7, <1>8 DEF HandInv, BrokerShape
<1>10. EachConnectionOnce'
  <2>1. \A i, j \in 1 .. Len(backlog') : backlog'[i] = backlog'[j] => i = j
    BY <1>1, <1>2, <1>3, <1>4 DEF EachConnectionOnce, Queued
  <2>2. \A d \in Clients : conn'[d] # "none" <=> (Queued(d)' \/ d = current')
    BY <1>5, <1>7, <1>8 DEF EachConnectionOnce, Queued
  <2> QED
    BY <2>1, <2>2 DEF EachConnectionOnce, Queued
<1>11. OneConversation' /\ TalkInv'
  <2>1. broker_pc \in {"bt", "wifi", "reply"} => call'[current] = call[current]
    BY <1>1, <1>7 DEF HandInv
  <2> QED
    BY <1>8, <2>1 DEF OneConversation, TalkInv
<1> QED
  BY <1>6, <1>9, <1>10, <1>11

(* A client that writes or vanishes keeps its connection. *)
LEMMA MovesInd ==
  ASSUME BrokerInd, NEW c \in Clients, Write(c) \/ Vanish(c)
  PROVE  BrokerInd'
<1> USE DEF BrokerInd
<1>1. UNCHANGED <<broker_pc, current, backlog, call, status, len, done, request, answer>>
  BY DEF Write, Vanish, brokervars, btvars, callers
<1>2. BrokerShape'
  BY <1>1 DEF Write, Vanish, BrokerShape
<1>3. \A d \in Clients : conn'[d] # "none" <=> conn[d] # "none"
  BY DEF Write, Vanish, BrokerShape
<1>4. HandInv'
  BY <1>1, <1>3 DEF HandInv, Queued
<1>5. EachConnectionOnce'
  BY <1>1, <1>3 DEF EachConnectionOnce
<1>6. OneConversation' /\ TalkInv'
  BY <1>1 DEF OneConversation, TalkInv
<1> QED
  BY <1>2, <1>4, <1>5, <1>6

LEMMA AcceptInd ==
  ASSUME BrokerInd, Accept
  PROVE  BrokerInd'
<1> USE DEF BrokerInd
<1>1. /\ Head(backlog) \in Clients /\ Tail(backlog) \in Seq(Clients)
      /\ Len(Tail(backlog)) = Len(backlog) - 1 /\ Len(backlog) >= 1 /\ Head(backlog) = backlog[1]
      /\ \A i \in 1 .. Len(Tail(backlog)) : Tail(backlog)[i] = backlog[i + 1]
  BY HeadTailProperties DEF Accept, BrokerShape
<1>2. BrokerShape'
  BY <1>1 DEF Accept, BrokerShape
<1>3. current \notin Clients
  BY DEF Accept, HandInv
<1>4. \A d \in Clients : Queued(d) <=> Queued(d)' \/ d = current'
  <2> SUFFICES ASSUME NEW d \in Clients  PROVE Queued(d) <=> Queued(d)' \/ d = current'
    OBVIOUS
  <2>1. Len(backlog) \in Nat
    BY DEF BrokerShape
  <2>2. ASSUME NEW i \in 1 .. Len(backlog), backlog[i] = d  PROVE Queued(d)' \/ d = current'
    <3>1. CASE i = 1
      BY <1>1, <2>2, <3>1 DEF Accept
    <3>2. CASE i # 1
      <4>1. i - 1 \in 1 .. Len(Tail(backlog)) /\ Tail(backlog)[i - 1] = d
        BY <1>1, <2>1, <2>2, <3>2
      <4> QED
        BY <4>1 DEF Accept, Queued
    <3> QED
      BY <3>1, <3>2
  <2>3. ASSUME NEW i \in 1 .. Len(backlog'), backlog'[i] = d  PROVE Queued(d)
    <3>1. i + 1 \in 1 .. Len(backlog) /\ backlog[i + 1] = d
      BY <1>1, <2>1, <2>3 DEF Accept
    <3> QED
      BY <3>1 DEF Queued
  <2>4. ASSUME d = current'  PROVE Queued(d)
    BY <1>1, <2>1, <2>4 DEF Accept, Queued
  <2> QED
    BY <2>2, <2>3, <2>4 DEF Queued
<1>5. ~Queued(current)'
  <2> SUFFICES ASSUME NEW i \in 1 .. Len(Tail(backlog)), Tail(backlog)[i] = Head(backlog)  PROVE FALSE
    BY DEF Accept, Queued
  <2>1. Len(backlog) \in Nat /\ 1 \in 1 .. Len(backlog) /\ i + 1 \in 1 .. Len(backlog) /\ backlog[i + 1] = backlog[1]
    BY <1>1 DEF BrokerShape
  <2>2. i + 1 = 1
    BY <2>1 DEF EachConnectionOnce
  <2> QED
    BY <2>2
<1>6. HandInv'
  BY <1>1, <1>5 DEF Accept, HandInv
<1>7. EachConnectionOnce'
  <2>1. ASSUME NEW i \in 1 .. Len(backlog'), NEW j \in 1 .. Len(backlog'), backlog'[i] = backlog'[j]
        PROVE  i = j
    <3>1. Len(backlog) \in Nat /\ i + 1 \in 1 .. Len(backlog) /\ j + 1 \in 1 .. Len(backlog)
      BY <1>1 DEF Accept, BrokerShape
    <3>2. backlog[i + 1] = backlog[j + 1]
      BY <1>1, <2>1 DEF Accept
    <3>3. i + 1 = j + 1
      BY <3>1, <3>2 DEF EachConnectionOnce
    <3> QED
      BY <3>3
  <2>2. \A d \in Clients : conn'[d] # "none" <=> (Queued(d)' \/ d = current')
    BY <1>3, <1>4 DEF Accept, EachConnectionOnce, Queued
  <2> QED
    BY <2>1, <2>2 DEF EachConnectionOnce, Queued
<1>8. OneConversation' /\ TalkInv'
  BY DEF Accept, OneConversation, TalkInv, btvars, callers
<1> QED
  BY <1>2, <1>6, <1>7, <1>8

LEMMA CloseInd ==
  ASSUME BrokerInd, broker_pc \in {"read", "reply"}, CloseClient
  PROVE  BrokerInd'
<1> USE DEF BrokerInd
<1>1. current \in Clients /\ ~Queued(current)
  BY DEF HandInv
<1>2. BrokerShape'
  BY <1>1 DEF CloseClient, BrokerShape, Codes
<1>3. \A d \in Clients : /\ conn'[d] # "none" <=> conn[d] # "none" /\ d # current
                         /\ d # current => call'[d] = call[d]
                         /\ Queued(d)' <=> Queued(d)
  BY <1>1 DEF CloseClient, BrokerShape, Queued
<1>4. HandInv'
  BY <1>3 DEF CloseClient, HandInv
<1>5. EachConnectionOnce'
  <2>1. \A d \in Clients : conn'[d] # "none" <=> (Queued(d)' \/ d = current')
    BY <1>1, <1>3 DEF CloseClient, EachConnectionOnce, Queued
  <2> QED
    BY <2>1 DEF CloseClient, EachConnectionOnce, Queued
<1>6. OneConversation' /\ TalkInv'
  BY DEF CloseClient, OneConversation, TalkInv, btvars, callers
<1> QED
  BY <1>2, <1>4, <1>5, <1>6

LEMMA DeathInd ==
  ASSUME BrokerInd, ReplyBroken
  PROVE  BrokerInd'
<1> USE DEF BrokerInd
<1>1. BrokerShape'
  BY DEF ReplyBroken, BrokerShape, Codes
<1>2. HandInv' /\ EachConnectionOnce'
  BY DEF ReplyBroken, HandInv, EachConnectionOnce
<1>3. OneConversation' /\ TalkInv'
  BY DEF ReplyBroken, OneConversation, TalkInv, btvars, callers
<1> QED
  BY <1>1, <1>2, <1>3

(* A step of the daemon between reading a request and answering it. *)
LEMMA WorkInd ==
  ASSUME BtTypeOK, BrokerInd, AnswerItself \/ AskBluetooth \/ AskWifi \/ BluetoothAnswers \/ WifiAnswers
  PROVE  BrokerInd'
<1> USE DEF BrokerInd
<1>1. UNCHANGED <<current, backlog, conn, call, done>> /\ broker_pc' \in {"bt", "wifi", "reply"}
  BY DEF AnswerItself, AskBluetooth, AskWifi, BluetoothAnswers, WifiAnswers, clientvars
<1>2. current \in Clients /\ broker_pc \in {"read", "bt", "wifi"}
  BY DEF AnswerItself, AskBluetooth, AskWifi, BluetoothAnswers, WifiAnswers, Reads, HandInv
<1>3. HandInv' /\ EachConnectionOnce'
  BY <1>1, <1>2 DEF HandInv, EachConnectionOnce, Queued
<1>4. CASE AnswerItself
  <2>1. BrokerShape'
    BY <1>1, <1>4 DEF AnswerItself, BrokerShape, Codes
  <2>2. OneConversation' /\ TalkInv'
    BY <1>1, <1>4 DEF AnswerItself, Reads, OneConversation, TalkInv, btvars, callers
  <2> QED
    BY <1>3, <2>1, <2>2
<1>5. CASE AskBluetooth
  <2>1. BrokerShape'
    BY <1>1, <1>5 DEF AskBluetooth, BrokerShape
  <2>2. /\ request[Broker] = "none" /\ answer[Broker] = NoAnswer
        /\ call[current].command \in Commands /\ broker_pc' = "bt"
    BY <1>5 DEF AskBluetooth, Reads, ForBluetooth, Send
  <2>3. \/ request'[Broker] = call[current].command /\ answer'[Broker] = NoAnswer
        \/ request'[Broker] = "none" /\ answer'[Broker] = [status |-> -1, devices |-> 0]
    BY <1>5, <2>2 DEF AskBluetooth, Send, BtTypeOK
  <2>a. done = "none" /\ ~ForWifi(call[current])'
    BY <1>1, <1>5 DEF AskBluetooth, Reads, ForWifi, ForBluetooth, TalkInv
  <2>4. OneConversation' /\ TalkInv'
    BY <1>1, <2>a, <2>2, <2>3 DEF OneConversation, TalkInv, NoAnswer, Commands
  <2> QED
    BY <1>3, <2>1, <2>4
<1>6. CASE AskWifi
  <2>1. BrokerShape'
    BY <1>1, <1>6 DEF AskWifi, BrokerShape
  <2>2. OneConversation' /\ TalkInv'
    BY <1>1, <1>6 DEF AskWifi, Reads, OneConversation, TalkInv, btvars, callers
  <2> QED
    BY <1>3, <2>1, <2>2
<1>7. CASE BluetoothAnswers
  <2>1. answer[Broker] \in Answers /\ answer[Broker] # NoAnswer /\ answer'[Broker] = NoAnswer
    BY <1>7 DEF BluetoothAnswers, Receive, BtTypeOK
  <2>2. answer[Broker].status \in {0, -1, -3} /\ answer[Broker].devices \in Nat
    BY <2>1 DEF Answers
  <2>3. BrokerShape'
    BY <1>1, <1>7, <2>2 DEF BluetoothAnswers, BrokerShape, Codes
  <2>4. request'[Broker] = "none" /\ broker_pc = "bt" /\ broker_pc' = "reply" /\ status' = answer[Broker].status
    BY <1>7, <2>1 DEF BluetoothAnswers, Receive, TalkInv
  <2>a. ForBluetooth(call[current]) /\ done # "none" => status' = 0 /\ len' <= Full
    BY <1>7, <2>2, <2>4 DEF BluetoothAnswers, TalkInv
  <2>5. OneConversation' /\ TalkInv'
    BY <1>1, <2>a, <2>1, <2>4 DEF OneConversation, TalkInv, ForBluetooth
  <2> QED
    BY <1>3, <2>3, <2>5
<1>8. CASE WifiAnswers
  <2>1. BrokerShape'
    BY <1>1, <1>8 DEF WifiAnswers, BrokerShape, Codes
  <2>2. ~ForBluetooth(call[current])
    BY <1>8 DEF WifiAnswers, TalkInv, ForWifi, ForBluetooth
  <2>3. OneConversation' /\ TalkInv'
    BY <1>1, <1>8, <2>2 DEF WifiAnswers, OneConversation, TalkInv, btvars, callers
  <2> QED
    BY <1>3, <2>1, <2>3
<1> QED
  BY <1>4, <1>5, <1>6, <1>7, <1>8

(* A step that leaves the broker's variables and conversation as they are. *)
LEMMA OthersInd ==
  ASSUME BrokerInd, UNCHANGED <<brokervars, clientvars>>,
         request'[Broker] = request[Broker], answer'[Broker] = answer[Broker]
  PROVE  BrokerInd'
BY DEF BrokerInd, BrokerShape, HandInv, Queued, EachConnectionOnce, OneConversation, TalkInv, brokervars, clientvars

(* What the Bluetooth daemon's step does to the broker's request. *)
LEMMA ServeBroker ==
  ASSUME BtTypeOK, request[Broker] # "broken", NEW c \in Callers, Serve(c)
  PROVE  \/ request'[Broker] = request[Broker] /\ answer'[Broker] = answer[Broker]
         \/ /\ request[Broker] \in Commands /\ request'[Broker] = "none"
            /\ answer'[Broker] # NoAnswer
            /\ answer'[Broker].status = 0 => c = Broker
<1>1. ASSUME NEW s \in {0, -3}, NEW n \in Nat, Respond(c, s, n), request[c] \in Commands
      PROVE  \/ request'[Broker] = request[Broker] /\ answer'[Broker] = answer[Broker]
             \/ /\ request[Broker] \in Commands /\ request'[Broker] = "none"
                /\ answer'[Broker] # NoAnswer /\ c = Broker
  <2>1. CASE c = Broker
    BY <1>1, <2>1 DEF Respond, BtTypeOK, NoAnswer
  <2>2. CASE c # Broker
    BY <1>1, <2>2 DEF Respond, BtTypeOK
  <2> QED
    BY <2>1, <2>2
<1>2. CASE BeginStart(c) \/ WaitForList(c)
  BY <1>2 DEF BeginStart, WaitForList, callers
<1>3. CASE FinishStart(c)
  BY <1>1, <1>3 DEF FinishStart, callers, Commands
<1>4. CASE RefuseStart(c)
  BY <1>1, <1>4 DEF RefuseStart, Serves, Commands
<1>5. CASE StopScan(c)
  BY <1>1, <1>5 DEF StopScan, Serves, Commands
<1>6. CASE GetDevices(c)
  <2>1. discovered_devices # Garbage => Len(discovered_devices) \in Nat
    BY DEF BtTypeOK
  <2>2. UNCHANGED callers \/ (request[c] \in Commands /\ \E n \in Nat : Respond(c, 0, n))
    BY <1>6, <2>1 DEF GetDevices, Commands
  <2> QED
    BY <1>1, <2>2 DEF callers
<1>7. CASE BrokenPipe(c)
  <2>1. CASE request[Broker] \in Commands
    BY <1>7, <2>1 DEF BrokenPipe, NoAnswer
  <2>2. CASE request[Broker] \notin Commands
    BY <1>7, <2>2 DEF BrokenPipe, BtTypeOK
  <2> QED
    BY <2>1, <2>2
<1> QED
  BY <1>2, <1>3, <1>4, <1>5, <1>6, <1>7 DEF Serve

LEMMA BluetoothInd ==
  ASSUME BtTypeOK, BrokerInd, NEW c \in Callers, Serve(c), Recorded(c)
  PROVE  BrokerInd'
<1> USE DEF BrokerInd
<1>1. UNCHANGED <<broker_pc, current, status, len, backlog, conn, call>>
  BY DEF Recorded, clientvars
<1>2. CASE request'[Broker] = request[Broker] /\ answer'[Broker] = answer[Broker]
  <2>1. done' = done
    BY <1>2 DEF Recorded
  <2> QED
    BY <1>1, <1>2, <2>1, OthersInd DEF brokervars, clientvars
<1>3. CASE ~(request'[Broker] = request[Broker] /\ answer'[Broker] = answer[Broker])
  <2>1. /\ request[Broker] \in Commands /\ request'[Broker] = "none"
        /\ answer'[Broker] # NoAnswer
        /\ answer'[Broker].status = 0 => c = Broker
    BY <1>3, ServeBroker DEF TalkInv
  <2>2. broker_pc = "bt" /\ request[Broker] = call[current].command
    BY <2>1 DEF OneConversation, TalkInv, Commands
  <2>3. answer'[Broker].status = 0 => done' = call[current].command
    BY <2>1, <2>2 DEF Recorded, Commands
  <2>4. done' \in Commands \cup {"none"}
    BY <2>1 DEF Recorded, BrokerShape
  <2>5. BrokerShape'
    BY <1>1, <2>4 DEF BrokerShape
  <2>6. HandInv' /\ EachConnectionOnce'
    BY <1>1 DEF HandInv, EachConnectionOnce, Queued
  <2>a. done' # "none" => answer'[Broker].status = 0
    <3>1. answer[Broker] = NoAnswer
      BY <2>1 DEF TalkInv, Commands
    <3>2. done = "none"
      BY <2>2, <3>1 DEF TalkInv, NoAnswer
    <3> QED
      BY <3>2 DEF Recorded, Commands
  <2>7. OneConversation' /\ TalkInv'
    BY <1>1, <2>a, <2>1, <2>2, <2>3 DEF OneConversation, TalkInv
  <2> QED
    BY <2>5, <2>6, <2>7
<1> QED
  BY <1>2, <1>3

LEMMA BrokerStepInd == BtTypeOK /\ BrokerInd /\ [Next]_vars => BrokerInd'
<1> SUFFICES ASSUME BtTypeOK, BrokerInd, [Next]_vars  PROVE BrokerInd'
  OBVIOUS
<1>1. ASSUME NEW c \in Clients, Client(c)  PROVE BrokerInd'
  <2>1. CASE Refused(c)
    BY <2>1, OthersInd DEF Refused, vars, btvars, callers
  <2> QED
    BY <1>1, <2>1, ConnectInd, MovesInd DEF Client
<1>2. CASE Daemon
  <2>1. CASE Accept
    BY <2>1, AcceptInd
  <2>2. CASE ReadNothing \/ Reply
    BY <2>2, CloseInd DEF ReadNothing, Reply
  <2>3. CASE ReplyBroken
    BY <2>3, DeathInd
  <2> QED
    BY <1>2, <2>1, <2>2, <2>3, WorkInd DEF Daemon
<1>3. ASSUME NEW c \in Callers \ {Broker}, BtCaller(c), Rest  PROVE BrokerInd'
  <2>1. request'[Broker] = request[Broker] /\ answer'[Broker] = answer[Broker]
    BY <1>3 DEF BtCaller, Send, Receive, HangUp, BtTypeOK
  <2> QED
    BY <1>3, <2>1, OthersInd DEF Rest
<1>4. ASSUME NEW c \in Callers, Serve(c), Recorded(c)  PROVE BrokerInd'
  BY <1>4, BluetoothInd
<1>5. ASSUME NEW t \in ScanThreads, ScanStep(t), Rest  PROVE BrokerInd'
  <2>1. UNCHANGED callers
    BY <1>5 DEF ScanStep, TestLoop, LockList, Push
  <2> QED
    BY <1>5, <2>1, OthersInd DEF Rest, callers
<1>6. CASE UNCHANGED vars
  BY <1>6, OthersInd DEF vars, btvars, callers
<1> QED
  BY <1>1, <1>2, <1>3, <1>4, <1>5, <1>6 DEF Next

LEMMA BrokerIndCorrect == Spec => []BrokerInd
<1>1. Spec => []BtTypeOK
  BY BluetoothBehindBroker, BtTypeCorrect, PTL
<1> QED
  BY <1>1, BrokerInitInd, BrokerStepInd, PTL DEF Spec

(* Every variable of the two daemons and of the clients keeps its type. *)
THEOREM TypeCorrect == Spec => []TypeOK
<1>1. BtTypeOK /\ BrokerInd => TypeOK
  BY DEF BrokerInd, BrokerShape, TypeOK
<1>2. Spec => []BtTypeOK
  BY BluetoothBehindBroker, BtTypeCorrect, PTL
<1> QED
  BY <1>1, <1>2, BrokerIndCorrect, PTL

(* No connection is lost or served twice, whoever vanishes. *)
THEOREM ConnectionsCorrect == Spec => []EachConnectionOnce
<1>1. BrokerInd => EachConnectionOnce
  BY DEF BrokerInd
<1> QED
  BY <1>1, BrokerIndCorrect, PTL

(* No answer of the Bluetooth daemon is left over for the next client. *)
THEOREM ConversationCorrect == Spec => []OneConversation
<1>1. BrokerInd => OneConversation
  BY DEF BrokerInd
<1> QED
  BY <1>1, BrokerIndCorrect, PTL

(* Nothing is left over from one client to the next. *)
THEOREM LeftOverCorrect == Spec => []NothingLeftOver
<1>1. BrokerInd => NothingLeftOver
  BY DEF BrokerInd, NothingLeftOver
<1> QED
  BY <1>1, BrokerIndCorrect, PTL

(* STATUS_OK for a Bluetooth operation: the Bluetooth daemon answered this *)
(* request with 0, and in a buffer of the largest size that is reported.   *)
THEOREM ResultCorrect == Spec => []TruthfulResult
<1>1. BrokerInd => TruthfulResult
  <2> SUFFICES ASSUME BrokerInd, NEW r \in Requests, Replies(r)
               PROVE  /\ Result(r) = 0 => done = r.command
                      /\ done = r.command /\ r.room >= Full => Result(r) = 0
    BY DEF TruthfulResult
  <2>1. r.command # "none" /\ r.room \in Nat /\ len \in Nat
    BY DEF Replies, ForBluetooth, Commands, BrokerInd, BrokerShape
  <2>2. Result(r) = 0 => status = 0
    BY DEF Result
  <2>3. status = 0 => done = r.command
    BY DEF Replies, BrokerInd, TalkInv
  <2>4. done # "none" => status = 0 /\ len <= Full
    BY DEF Replies, BrokerInd, TalkInv
  <2> QED
    BY <2>1, <2>2, <2>3, <2>4 DEF Result
<1> QED
  BY <1>1, BrokerIndCorrect, PTL

(* Behind the broker, too, a scan that nobody stops early is alone. *)
THEOREM SoleScanBehindBroker == Spec => []SoleScanInOrder
BY BluetoothBehindBroker, SoleScanCorrect, PTL
=============================================================================
