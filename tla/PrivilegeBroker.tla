--------------------------- MODULE PrivilegeBroker ---------------------------
(***************************************************************************)
(* The privilege broker of sdk/src/privilege_broker_daemon.c, its clients  *)
(* (sdk/src/privilege_broker.c) and the Bluetooth daemon it forwards to.   *)
(* The broker is one thread that accepts a connection, reads the request,  *)
(* carries it out with blocking calls, answers and closes.  Other programs *)
(* use the Bluetooth daemon directly.  The Wi-Fi service is external.      *)
(***************************************************************************)
EXTENDS BluetoothService

CONSTANTS
  Clients,    \* processes that call nacl_privilege_broker_*
  Broker,     \* the broker daemon, one of the Bluetooth daemon's callers
  Requests,   \* the calls that clients make
  Full,       \* NACL_PRIVILEGE_BROKER_MAX_PAYLOAD, in units of one device
  NoCall      \* what a client asks when it asks nothing

ASSUME BrokerAssumption == Broker \in Callers /\ NoOne \notin Clients /\ NoCall \notin Requests
ASSUME FullAssumption == Full \in Nat \ {0}
ASSUME RequestsAssumption ==
  \A r \in Requests : /\ r.op \in {"ping", "backend", "dispatch"}
                      /\ r.cap \in {"bt", "wifi", "other"}
                      /\ r.command \in Commands \cup {"other"}
                      /\ r.uid2000 \in BOOLEAN /\ r.data \in BOOLEAN
                      /\ r.room \in Nat    \* the response buffer; 0 stands for none

VARIABLES
  broker_pc,  \* where the daemon's only thread is
  current,    \* the connection in handle_client
  backlog,    \* connections accept() has not taken yet
  conn,       \* each client's connection
  call,       \* what the client asks
  status,     \* response_header.status
  len,        \* response_header.payload_len
  done        \* history: the Bluetooth command answered with 0 for the request in hand

brokervars == <<broker_pc, current, status, len, done>>
clientvars == <<backlog, conn, call>>
vars == <<btvars, brokervars, clientvars>>

Codes == {0, -1, -2, -3, -4}

TypeOK ==
  /\ BtTypeOK
  /\ broker_pc \in {"accept", "read", "bt", "wifi", "reply", "dead"}
  /\ current \in Clients \cup {NoOne}
  /\ backlog \in Seq(Clients)
  /\ conn \in [Clients -> {"none", "open", "sent", "closed", "broken"}]
  /\ call \in [Clients -> Requests \cup {NoCall}]
  /\ status \in Codes
  /\ len \in Nat
  /\ done \in Commands \cup {"none"}

Init ==
  /\ BtInit
  /\ broker_pc = "accept"
  /\ current = NoOne
  /\ backlog = <<>>
  /\ conn = [c \in Clients |-> "none"]
  /\ call = [c \in Clients |-> NoCall]
  /\ status = 0
  /\ len = 0
  /\ done = "none"

-----------------------------------------------------------------------------
(* the client library: broker_request *)

(* connect() succeeds as soon as the connection is queued *)
Connect(c, r) ==
  /\ conn[c] = "none" /\ broker_pc # "dead"
  /\ conn' = [conn EXCEPT ![c] = "open"]
  /\ call' = [call EXCEPT ![c] = r]
  /\ backlog' = Append(backlog, c)
  /\ UNCHANGED <<btvars, brokervars>>

(* without a daemon connect() fails and the call returns STATUS_ERROR *)
Refused(c) == conn[c] = "none" /\ broker_pc = "dead" /\ UNCHANGED vars

Write(c) ==
  /\ conn[c] = "open"
  /\ conn' = [conn EXCEPT ![c] = "sent"]
  /\ UNCHANGED <<btvars, brokervars, backlog, call>>

(* the client is killed before, or after, it has written its request *)
Vanish(c) ==
  /\ \/ conn[c] = "open" /\ conn' = [conn EXCEPT ![c] = "closed"]
     \/ conn[c] = "sent" /\ conn' = [conn EXCEPT ![c] = "broken"]
  /\ UNCHANGED <<btvars, brokervars, backlog, call>>

(* What the call returns: a payload that does not fit the caller's buffer  *)
(* is read, thrown away and called an error.                               *)
Result(r) == IF len > r.room THEN -1 ELSE status

-----------------------------------------------------------------------------
(* the daemon: main and handle_client *)

Accept ==
  /\ broker_pc = "accept" /\ backlog # <<>>
  /\ current' = Head(backlog)
  /\ backlog' = Tail(backlog)
  /\ broker_pc' = "read"
  /\ UNCHANGED <<btvars, status, len, done, conn, call>>

(* close(client_fd), and the locals of handle_client are gone *)
CloseClient ==
  /\ conn' = [conn EXCEPT ![current] = "none"]
  /\ call' = [call EXCEPT ![current] = NoCall]
  /\ current' = NoOne
  /\ broker_pc' = "accept"
  /\ status' = 0 /\ len' = 0 /\ done' = "none"
  /\ UNCHANGED <<btvars, backlog>>

(* mutant: the early return skips close(client_fd) *)
ReadNothingLeaks ==
  /\ broker_pc = "read" /\ conn[current] = "closed"
  /\ current' = NoOne
  /\ broker_pc' = "accept"
  /\ UNCHANGED <<btvars, status, len, done, clientvars>>

(* read_full meets the end of the stream *)
ReadNothing == broker_pc = "read" /\ conn[current] = "closed" /\ CloseClient

Supported(r) == r.op = "dispatch" /\ r.cap \in {"bt", "wifi"} /\ r.uid2000 /\ ~r.data
ForBluetooth(r) == Supported(r) /\ r.cap = "bt" /\ r.command \in Commands
ForWifi(r) == Supported(r) /\ r.cap = "wifi" /\ r.command \in {"start", "get"}

Reads == broker_pc = "read" /\ conn[current] \in {"sent", "broken"}

(* ping, get_backend, and everything the daemon refuses by itself *)
AnswerItself ==
  /\ Reads /\ ~ForBluetooth(call[current]) /\ ~ForWifi(call[current])
  /\ status' = IF call[current].op = "dispatch" THEN -2 ELSE 0
  /\ len' = IF call[current].op = "backend" THEN 1 ELSE 0
  /\ broker_pc' = "reply"
  /\ UNCHANGED <<btvars, current, done, clientvars>>

AskBluetooth ==
  /\ Reads /\ ForBluetooth(call[current])
  /\ Send(Broker, call[current].command)
  /\ broker_pc' = "bt"
  /\ UNCHANGED <<current, status, len, done, clientvars>>

AskWifi ==
  /\ Reads /\ ForWifi(call[current])
  /\ broker_pc' = "wifi"
  /\ UNCHANGED <<btvars, current, status, len, done, clientvars>>

(* mutant: the count is taken for the outcome *)
BluetoothAnswersCount ==
  /\ broker_pc = "bt" /\ Receive(Broker)
  /\ status' = 0
  /\ len' = answer[Broker].devices
  /\ broker_pc' = "reply"
  /\ UNCHANGED <<current, done, clientvars>>

(* GET sets *out_len; START and STOP leave it at the whole buffer *)
BluetoothAnswers ==
  /\ broker_pc = "bt" /\ Receive(Broker)
  /\ status' = answer[Broker].status
  /\ len' = IF status' # 0 THEN 0
            ELSE IF call[current].command # "get" THEN Full
            ELSE IF answer[Broker].devices < Full THEN answer[Broker].devices ELSE Full
  /\ broker_pc' = "reply"
  /\ UNCHANGED <<current, done, clientvars>>

(* external: any outcome *)
WifiAnswers ==
  /\ broker_pc = "wifi"
  /\ \/ status' \in Codes \ {0} /\ len' = 0
     \/ status' = 0 /\ len' \in 0 .. 1
  /\ broker_pc' = "reply"
  /\ UNCHANGED <<btvars, current, done, clientvars>>

Reply == broker_pc = "reply" /\ conn[current] = "sent" /\ CloseClient

(* mutant: EPIPE makes handle_client return before the socket is closed *)
ReplyKeepsSocket ==
  /\ broker_pc = "reply" /\ conn[current] = "broken"
  /\ current' = NoOne
  /\ broker_pc' = "accept"
  /\ status' = 0 /\ len' = 0 /\ done' = "none"
  /\ UNCHANGED <<btvars, clientvars>>

(* write_full to a client that is gone: SIGPIPE ends the daemon, and every *)
(* waiting call with STATUS_ERROR                                          *)
ReplyBroken ==
  /\ broker_pc = "reply" /\ conn[current] = "broken"
  /\ broker_pc' = "dead"
  /\ current' = NoOne
  /\ backlog' = <<>>
  /\ conn' = [c \in Clients |-> "none"]
  /\ call' = [c \in Clients |-> NoCall]
  /\ status' = 0 /\ len' = 0 /\ done' = "none"
  /\ UNCHANGED btvars

Daemon ==
  \/ Accept \/ ReadNothing \/ AnswerItself \/ AskBluetooth \/ AskWifi
  \/ BluetoothAnswers \/ WifiAnswers \/ Reply \/ ReplyBroken

-----------------------------------------------------------------------------
Client(c) == (\E r \in Requests : Connect(c, r)) \/ Refused(c) \/ Write(c) \/ Vanish(c)

Rest == UNCHANGED <<brokervars, clientvars>>

(* the Bluetooth daemon's step, noted when it fulfils the broker's request *)
Recorded(c) ==
  /\ done' = IF c = Broker /\ request[c] # request'[c] /\ answer'[c].status = 0
             THEN request[c] ELSE done
  /\ UNCHANGED <<broker_pc, current, status, len, clientvars>>

Next ==
  \/ \E c \in Clients : Client(c)
  \/ Daemon
  \/ \E c \in Callers \ {Broker} : BtCaller(c) /\ Rest
  \/ \E c \in Callers : Serve(c) /\ Recorded(c)
  \/ \E t \in ScanThreads : ScanStep(t) /\ Rest

(* Both daemons keep running, a client that connected writes its request,  *)
(* a program that asked reads its answer; epoll hands out every ready      *)
(* descriptor in turn and a scan thread that sleeps leaves the mutex free, *)
(* hence strong fairness for each caller and each thread.                  *)
Fairness ==
  /\ WF_vars(Daemon)
  /\ \A c \in Clients : WF_vars(Write(c))
  /\ \A c \in Callers \ {Broker} : WF_vars(Receive(c) /\ Rest)
  /\ \A c \in Callers : SF_vars(Serve(c) /\ Recorded(c))
  /\ \A t \in ScanThreads : SF_vars(ScanStep(t) /\ Rest)

Spec == Init /\ [][Next]_vars /\ Fairness

-----------------------------------------------------------------------------
(* what the client in hand is about to be told *)
Replies(r) == broker_pc = "reply" /\ call[current] = r /\ ForBluetooth(r)

(* A call that asks for a Bluetooth operation returns STATUS_OK only when  *)
(* the Bluetooth daemon has answered this request with 0, as it does a     *)
(* START whose thread was not created, too                                 *)
(* (privilege_broker_daemon.c:234, privilege_broker.c:140-160), and always *)
(* then, provided that the caller's buffer holds the largest response: the *)
(* reply to START and STOP is as long as that (privilege_broker_daemon.c:  *)
(* 241), and a smaller buffer makes a failure of the success.              *)
TruthfulResult ==
  \A r \in Requests : Replies(r) =>
    /\ Result(r) = 0 => done = r.command
    /\ done = r.command /\ r.room >= Full => Result(r) = 0

(* The connections the daemon knows of are those of the clients that hold  *)
(* one, each once: none is lost or served twice, whoever vanishes.         *)
EachConnectionOnce ==
  /\ \A i, j \in 1 .. Len(backlog) : backlog[i] = backlog[j] => i = j
  /\ \A c \in Clients :
       conn[c] # "none" <=> ((\E i \in 1 .. Len(backlog) : backlog[i] = c) \/ c = current)

(* The broker has a request at the Bluetooth daemon exactly while it waits *)
(* for the answer: an answer is never left over for the next client.       *)
OneConversation ==
  broker_pc = "bt" <=> (request[Broker] # "none" \/ answer[Broker] # NoAnswer)

(* Neither a connection nor an answer is left over from one client to the  *)
(* next.                                                                   *)
NothingLeftOver == EachConnectionOnce /\ OneConversation

(* Every connection is answered or closed, by the reply or by the death of *)
(* the daemon, provided the Wi-Fi service answers.                         *)
CallReturns == \A c \in Clients : conn[c] # "none" ~> conn[c] = "none"
=============================================================================
