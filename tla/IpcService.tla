----------------------------- MODULE IpcService -----------------------------
(***************************************************************************)
(* The generic service of sdk/src/service_daemon.c and its client, one     *)
(* call of execute_hardware_command (sdk/src/client_bridge.c) per          *)
(* connection.  The daemon is one thread around epoll; client descriptors  *)
(* are non-blocking and edge triggered, and an event reads one header.     *)
(* Neither side ignores SIGPIPE: writing to a closed connection ends the   *)
(* writer.                                                                 *)
(* What a client has sent and the daemon has not read is its header, if it *)
(* is still there, and bytes of payload: none, a "short" run of less than  *)
(* a header, or a "long" one.  A response header stands for its status.    *)
(* The size of the caller's buffer, which the code does not respect, is    *)
(* left out.                                                               *)
(***************************************************************************)
EXTENDS Integers, Sequences

CONSTANTS
  Clients,
  NoClient,
  Arguments  \* the calls each client may make

\* "unserved": to a subsystem that has no service; "absent": a length was given,
\* but no payload
Calls == [command : {"scan", "other", "unserved"},
          payload : {"none", "absent", "short", "long"},
          buffer  : BOOLEAN]

ASSUME ClientAssumption ==
  /\ NoClient \notin Clients
  /\ Arguments \in [Clients -> SUBSET Calls]

VARIABLES
  alive,    \* the daemon has not been killed
  pc,       \* where each client is in execute_hardware_command
  call,     \* its arguments
  result,   \* what it returned
  conn,     \* the daemon's end of each connection
  open,     \* clients that have not closed their end
  up,       \* what the daemon has not read
  down,     \* what the client has not read
  ready,    \* epoll: connections with an edge not reported yet
  events,   \* connections reported, not handled yet
  serving,  \* the connection in hand
  step,     \* where the daemon is in handling it
  reply,    \* the status of its answer
  done,     \* history: for each client, whether its request was carried out
  vanished  \* history: clients that were killed from outside

client == <<pc, call, result, open, vanished>>
daemon == <<serving, step, reply, done>>
epoll  == <<ready, events>>
vars   == <<alive, client, conn, up, down, epoll, daemon>>

Runs     == {"none", "short", "long"}
Statuses == {"ok", "unsupported", "error"}
Nothing  == [header |-> FALSE, bytes |-> "none"]

TypeOK ==
  /\ alive \in BOOLEAN
  /\ pc \in [Clients -> {"idle", "header", "payload", "rest", "answer", "data", "over"}]
  /\ call \in [Clients -> Calls]
  /\ result \in [Clients -> Statuses \cup {"none", "failed", "killed"}]
  /\ conn \in [Clients -> {"none", "pending", "open", "closed"}]
  /\ open \in SUBSET Clients
  /\ up \in [Clients -> [header : BOOLEAN, bytes : Runs]]
  /\ down \in [Clients -> Seq(Statuses \cup {"data"})]
  /\ ready \in SUBSET Clients
  /\ events \in SUBSET Clients
  /\ serving \in Clients \cup {NoClient}
  /\ step \in {"wait", "payload", "stray", "reply", "data"}
  /\ reply \in Statuses
  /\ done \in [Clients -> 0 .. 1]
  /\ vanished \in SUBSET Clients

Init ==
  /\ alive = TRUE
  /\ pc = [c \in Clients |-> "idle"]
  /\ call \in [Clients -> Calls] /\ \A c \in Clients : call[c] \in Arguments[c]
  /\ result = [c \in Clients |-> "none"]
  /\ conn = [c \in Clients |-> "none"]
  /\ open = {}
  /\ up = [c \in Clients |-> Nothing]
  /\ down = [c \in Clients |-> <<>>]
  /\ ready = {} /\ events = {}
  /\ serving = NoClient /\ step = "wait" /\ reply = "ok"
  /\ done = [c \in Clients |-> 0]
  /\ vanished = {}

-----------------------------------------------------------------------------
(* execute_hardware_command *)

Hangup(c) == ready' = IF conn[c] = "open" THEN ready \cup {c} ELSE ready

\* the call returns and has closed its end
Finish(c, r) ==
  /\ pc' = [pc EXCEPT ![c] = "over"]
  /\ result' = [result EXCEPT ![c] = r]
  /\ open' = open \ {c}
  /\ Hangup(c)

\* nobody is asked
Unserved(c) ==
  /\ pc[c] = "idle" /\ call[c].command = "unserved"
  /\ pc' = [pc EXCEPT ![c] = "over"]
  /\ result' = [result EXCEPT ![c] = "unsupported"]
  /\ UNCHANGED <<alive, call, open, vanished, conn, up, down, epoll, daemon>>

connect_to_daemon(c) ==
  /\ pc[c] = "idle" /\ call[c].command # "unserved"
  /\ \/ /\ alive
        /\ pc' = [pc EXCEPT ![c] = "header"]
        /\ conn' = [conn EXCEPT ![c] = "pending"]
        /\ open' = open \cup {c}
        /\ UNCHANGED result
     \/ /\ ~alive
        /\ pc' = [pc EXCEPT ![c] = "over"]
        /\ result' = [result EXCEPT ![c] = "failed"]
        /\ UNCHANGED <<conn, open>>
  /\ UNCHANGED <<alive, call, up, down, epoll, daemon, vanished>>

\* a write that leaves s unread; what becomes of the call if the daemon has closed
\* the connection is given
Write(c, s, next, otherwise) ==
  \/ /\ conn[c] # "closed"
     /\ up' = [up EXCEPT ![c] = s]
     /\ ready' = IF conn[c] = "open" THEN ready \cup {c} ELSE ready
     /\ pc' = [pc EXCEPT ![c] = next]
     /\ UNCHANGED <<result, open>>
  \/ /\ conn[c] = "closed"
     /\ Finish(c, otherwise)
     /\ UNCHANGED up

HasPayload(c) == call[c].payload \in {"short", "long"}

SendHeader(c) ==
  /\ pc[c] = "header"
  /\ Write(c, [up[c] EXCEPT !.header = TRUE], IF HasPayload(c) THEN "payload" ELSE "answer",
           "killed")
  /\ UNCHANGED <<alive, call, conn, down, events, daemon, vanished>>

\* a long payload may not fit the socket's buffer and go out in two pieces
SendPayload(c) ==
  /\ pc[c] = "payload"
  /\ \E next \in IF call[c].payload = "long" THEN {"answer", "rest"} ELSE {"answer"} :
       Write(c, [up[c] EXCEPT !.bytes = call[c].payload], next, "killed")
  /\ UNCHANGED <<alive, call, conn, down, events, daemon, vanished>>

\* bytes follow the ones that are there
Joined(r) == IF r = "none" THEN {"short", "long"} ELSE {"long"}

\* The same write goes on.  If the daemon closes the connection meanwhile, it
\* returns a short count and the call ends with an error.
SendRest(c) ==
  /\ pc[c] = "rest"
  /\ \E r \in Joined(up[c].bytes) : Write(c, [up[c] EXCEPT !.bytes = r], "answer", "failed")
  /\ UNCHANGED <<alive, call, conn, down, events, daemon, vanished>>

\* mutant: the data of a success is never read
DataUnwanted(c) == FALSE

\* a success is followed by data, which is read if there is somewhere to put it
DataWanted(c) == Head(down[c]) = "ok" /\ call[c].buffer

\* the end of the stream is an error
ReadAnswer(c) ==
  /\ pc[c] = "answer"
  /\ \/ /\ down[c] # <<>>
        /\ down' = [down EXCEPT ![c] = Tail(@)]
        /\ IF DataWanted(c)
           THEN pc' = [pc EXCEPT ![c] = "data"] /\ UNCHANGED <<result, open, ready>>
           ELSE Finish(c, Head(down[c]))
     \/ /\ down[c] = <<>> /\ conn[c] = "closed"
        /\ Finish(c, "failed")
        /\ UNCHANGED down
  /\ UNCHANGED <<alive, call, conn, up, events, daemon, vanished>>

\* whatever this read yields, the status is returned
ReadData(c) ==
  /\ pc[c] = "data"
  /\ \/ down[c] # <<>> /\ down' = [down EXCEPT ![c] = Tail(@)]
     \/ down[c] = <<>> /\ conn[c] = "closed" /\ UNCHANGED down
  /\ Finish(c, "ok")
  /\ UNCHANGED <<alive, call, conn, up, events, daemon, vanished>>

\* the client's process is killed in the middle of a call
Vanish(c) ==
  /\ c \in open
  /\ Finish(c, "killed")
  /\ vanished' = vanished \cup {c}
  /\ UNCHANGED <<alive, call, conn, up, down, events, daemon>>

-----------------------------------------------------------------------------
(* the daemon's loop *)

Readable(c) == up[c] # Nothing \/ c \notin open

\* the listening descriptor is level triggered; what was sent before is an edge
Accept(c) ==
  /\ alive /\ step = "wait" /\ conn[c] = "pending"
  /\ conn' = [conn EXCEPT ![c] = "open"]
  /\ ready' = IF Readable(c) THEN ready \cup {c} ELSE ready
  /\ UNCHANGED <<alive, client, up, down, events, daemon>>

\* epoll_wait reports the edges of descriptors that are readable now
Wait ==
  /\ alive /\ step = "wait" /\ events = {}
  /\ \E c \in ready : Readable(c)
  /\ events' = {c \in ready : Readable(c)}
  /\ ready' = {}
  /\ UNCHANGED <<alive, client, conn, up, down, daemon>>

\* mutant: a connection at its end is taken out of epoll and not closed
DeletedOnly(c) == UNCHANGED conn /\ ready' = ready \ {c}

CloseConnection(c) ==
  /\ conn' = [conn EXCEPT ![c] = "closed"]
  /\ ready' = ready \ {c}

Begin(c, next, status) ==
  /\ serving' = c
  /\ step' = next
  /\ reply' = status

\* what reading part of a run can leave of it
Remains(r) == CASE r = "none" -> {"none"} [] r = "short" -> {"none", "short"} [] r = "long" -> Runs

\* What comes first in the stream is taken for a header.  A header made of
\* payload gives any length, and if the payload happens to carry the signature
\* it is a request like any other.
ReadHeader(c) ==
  /\ alive /\ step = "wait" /\ c \in events
  /\ events' = events \ {c}
  /\ \/ /\ ~up[c].header /\ up[c].bytes # "long"
        /\ CloseConnection(c)
        /\ up' = [up EXCEPT ![c] = Nothing]
        /\ UNCHANGED daemon
     \/ /\ up[c].header
        /\ up' = [up EXCEPT ![c].header = FALSE]
        /\ Begin(c, IF call[c].payload = "none" THEN "reply" ELSE "payload",
                 IF call[c].command = "scan" THEN "ok" ELSE "unsupported")
        /\ done' = [done EXCEPT ![c] = @ + 1]
        /\ UNCHANGED <<conn, ready>>
     \/ /\ ~up[c].header /\ up[c].bytes = "long"
        /\ \E r \in Remains("long") : up' = [up EXCEPT ![c].bytes = r]
        /\ \E next \in {"stray", "reply"}, status \in Statuses : Begin(c, next, status)
        /\ UNCHANGED <<conn, ready, done>>
  /\ UNCHANGED <<alive, client, down>>

\* mutant: a payload that is not there yet ends the connection
ReadPayloadOrClose ==
  /\ alive /\ step \in {"payload", "stray"}
  /\ IF up[serving].bytes = "none"
     THEN CloseConnection(serving) /\ serving' = NoClient /\ step' = "wait" /\ UNCHANGED up
     ELSE step' = "reply" /\ up' = [up EXCEPT ![serving].bytes = "none"]
          /\ UNCHANGED <<conn, ready, serving>>
  /\ UNCHANGED <<alive, client, down, events, reply, done>>

\* One read of the payload, of the length the header gave: all that is there, or
\* any part of it if the header was payload itself.  A short result is logged and
\* not acted upon.
ReadPayload ==
  /\ alive /\ step \in {"payload", "stray"}
  /\ step' = "reply"
  /\ \E r \in IF step = "stray" THEN Remains(up[serving].bytes) ELSE {"none"} :
       up' = [up EXCEPT ![serving].bytes = r]
  /\ UNCHANGED <<alive, client, conn, down, epoll, serving, reply, done>>

Killed ==
  /\ alive' = FALSE
  /\ conn' = [c \in Clients |-> IF conn[c] = "none" THEN "none" ELSE "closed"]
  /\ ready' = {} /\ events' = {}
  /\ serving' = NoClient /\ step' = "wait"

\* handle_request writes the header, then the payload of a success
WriteHeader ==
  /\ alive /\ step = "reply"
  /\ \/ /\ serving \in open
        /\ down' = [down EXCEPT ![serving] = Append(@, reply)]
        /\ step' = IF reply = "ok" THEN "data" ELSE "wait"
        /\ serving' = IF reply = "ok" THEN serving ELSE NoClient
        /\ UNCHANGED <<alive, conn, epoll>>
     \/ serving \notin open /\ Killed /\ UNCHANGED down
  /\ UNCHANGED <<client, up, reply, done>>

WriteData ==
  /\ alive /\ step = "data"
  /\ \/ /\ serving \in open
        /\ down' = [down EXCEPT ![serving] = Append(@, "data")]
        /\ step' = "wait"
        /\ serving' = NoClient
        /\ UNCHANGED <<alive, conn, epoll>>
     \/ serving \notin open /\ Killed /\ UNCHANGED down
  /\ UNCHANGED <<client, up, reply, done>>

-----------------------------------------------------------------------------
ClientSteps(c) ==
  SendHeader(c) \/ SendPayload(c) \/ SendRest(c) \/ ReadAnswer(c) \/ ReadData(c)

DaemonSteps ==
  \/ \E c \in Clients : ReadHeader(c)
  \/ Wait \/ ReadPayload \/ WriteHeader \/ WriteData

Next ==
  \/ \E c \in Clients :
       \/ Unserved(c) \/ connect_to_daemon(c) \/ ClientSteps(c) \/ Vanish(c)
       \/ Accept(c)
  \/ DaemonSteps

Spec == Init /\ [][Next]_vars

\* A client goes on inside its call; the daemon's loop runs and the kernel's
\* queue of connections is first in, first out.  Nobody has to call.
FairSpec ==
  /\ Spec
  /\ \A c \in Clients : WF_vars(ClientSteps(c)) /\ SF_vars(Accept(c))
  /\ WF_vars(DaemonSteps)
-----------------------------------------------------------------------------
(* properties *)

\* A call with no payload that waits for the answer's data is harmless
\* whatever the others do, unless its process dies: an answer to nobody kills
\* the daemon (SIGPIPE).  It takes a caller that was killed, one that passed a
\* payload (read too early, the rest is answered a second time) or one that
\* passed no buffer and closed before the data.
DaemonSurvives ==
  alive \/ \E c \in Clients : c \in vanished \/ HasPayload(c) \/ ~call[c].buffer

\* A caller gets the answer to its own request, which was carried out once: the
\* second answers that stray payload brings about, which may be successes, are
\* never taken for it.  While the daemon lives a call fails only if its payload
\* was long, and was cut in two by the socket's buffer, and no caller is killed
\* by the connection being closed before it.
AnswersFit ==
  \A c \in Clients :
    /\ result[c] = "ok" => call[c].command = "scan" /\ done[c] = 1
    /\ result[c] = "unsupported" =>
         IF call[c].command = "unserved" THEN done[c] = 0
                                         ELSE call[c].command = "other" /\ done[c] = 1
    /\ result[c] # "error"
    /\ result[c] = "failed" => ~alive \/ call[c].payload = "long"
    /\ result[c] = "killed" => ~alive \/ c \in vanished

\* epoll has an edge of the connection to report, or the daemon has it in hand.
Noticed(c) == c \in events \/ (c \in ready /\ Readable(c)) \/ serving = c

\* Nobody waits in vain: although an edge is reported once and one header is
\* read for it, the daemon has yet to look at each accepted connection whose
\* caller is gone, or waits while nothing is there for it to read.
NobodyForgotten ==
  alive => \A c \in Clients :
    /\ conn[c] = "open"
    /\ c \notin open \/ (pc[c] \in {"answer", "data"} /\ down[c] = <<>>)
    => Noticed(c)

\* A call that has begun returns, and the daemon closes the connections that
\* were closed to it: the edge of a hangup is never lost among the others.
CallsComplete ==
  \A c \in Clients :
    pc[c] # "idle" ~> pc[c] = "over" /\ conn[c] \in {"none", "closed"}
=============================================================================
