----------------------------- MODULE AdbSession -----------------------------
(***************************************************************************)
(* An ADB session of sdk/src/adb_client.c with its two users: execute() of *)
(* sdk/src/quickjs_adb_binding.c ("js") and execute_adb_shell_cmd of       *)
(* sdk/src/connectivity_automation.c ("auto").  All of it is one thread    *)
(* that blocks on the socket; adbd, at the other end, is external.  A      *)
(* session runs one shell command at a time, and every channel it opens    *)
(* has the local id 1: the host cannot tell whose packet it reads.         *)
(***************************************************************************)
EXTENDS Integers, Sequences

CONSTANTS
  MaxCommands,  \* bound: commands of one session
  MaxPackets,   \* bound: packets of output of one command
  ShortReads    \* the transport may hand over part of a header

ASSUME CommandsAssumption == MaxCommands \in Nat \ {0}
ASSUME PacketsAssumption  == MaxPackets \in Nat
ASSUME ReadsAssumption    == ShortReads \in BOOLEAN

VARIABLES
  pc,         \* where the host's thread is; "none": there is no session
  state,      \* session->state
  remote_id,
  mode,       \* who runs the command
  output,     \* what it has collected for its caller
  commands,   \* commands so far; adbd's id for a channel is its command's number
  key,        \* the private key: none, or one that adbd knows or does not
  to_host, to_adbd,   \* the packets under way
  aligned,    \* the host's next read begins at a header
  link,       \* adbd's end of the connection is open
  stream,     \* adbd's open channel, or 0
  sent,       \* packets of output it has sent on the last channel
  ready       \* adbd has the OKAY that allows it the next one

host    == <<pc, state, remote_id, mode, output, commands, key>>
streams == <<to_host, to_adbd, aligned, link>>
adbd    == <<stream, sent, ready>>
vars    == <<host, streams, adbd>>

Packet(type, ch) == [type |-> type, ch |-> ch, n |-> 0, big |-> FALSE]
Data(ch, n, big) == [type |-> "WRTE", ch |-> ch, n |-> n, big |-> big]

Channels   == 0 .. MaxCommands
Packets    == [type : {"CNXN", "TOKEN", "OKAY", "WRTE", "CLSE"}, ch : Channels,
               n : 0 .. MaxPackets, big : BOOLEAN]
Requests   == [type : {"CNXN", "SIGNATURE", "RSAPUBLICKEY", "OPEN", "OKAY", "CLSE"},
               ch : Channels, n : {0}, big : {FALSE}]
InACommand == {"opening", "output"}

TypeOK ==
  /\ pc \in {"none", "handshake", "idle"} \cup InACommand
  /\ state \in {"DISCONNECTED", "CONNECTING", "AUTH_SENT", "CONNECTED",
                "SHELL_OPENING", "SHELL_ACTIVE", "ERROR"}
  /\ remote_id \in Channels
  /\ mode \in {"js", "auto"}
  /\ output \in Seq(Packets)
  /\ commands \in Channels
  /\ key \in {"none", "known", "unknown"}
  /\ to_host \in Seq(Packets) /\ to_adbd \in Seq(Requests)
  /\ aligned \in BOOLEAN /\ link \in BOOLEAN
  /\ stream \in Channels
  /\ sent \in 0 .. MaxPackets
  /\ ready \in BOOLEAN

Init ==
  /\ pc = "none" /\ state = "DISCONNECTED" /\ remote_id = 0
  /\ mode = "js" /\ output = <<>> /\ commands = 0
  /\ key \in {"none", "known", "unknown"}
  /\ to_host = <<>> /\ to_adbd = <<>> /\ aligned = TRUE /\ link = FALSE
  /\ stream = 0 /\ sent = 0 /\ ready = FALSE

-----------------------------------------------------------------------------
(* the transport: adb_send_packet and adb_read_packet *)

(* A packet for an adbd that has closed its end is lost.  (A second write  *)
(* there raises SIGPIPE, with which the program is over.)                  *)
Send(type, ch) ==
  to_adbd' = IF link THEN Append(to_adbd, Packet(type, ch)) ELSE to_adbd

Receives(p) ==
  /\ aligned /\ to_host # <<>>
  /\ p = Head(to_host) /\ ~p.big
  /\ to_host' = Tail(to_host)
  /\ UNCHANGED aligned

(* A header that arrives in pieces, or announces more than the buffer      *)
(* holds, is given up with the rest of its packet unread; whatever is read *)
(* there fails the magic test.  After the last packet of a closed          *)
(* connection comes the end of the stream.  The connection is a loopback   *)
(* one: a checksum that does not match, which would consume its packet, is *)
(* left out.                                                               *)
Illegible == to_host # <<>> /\ (ShortReads \/ Head(to_host).big)

ReadFails ==
  /\ \/ Illegible /\ aligned' = FALSE
     \/ ~aligned /\ UNCHANGED aligned
     \/ to_host = <<>> /\ ~link /\ UNCHANGED aligned
  /\ UNCHANGED to_host

-----------------------------------------------------------------------------
(* adb.connect(): adb_initialize_session, adb_connect_loopback and         *)
(* adb_handle_handshake                                                    *)

Connect ==
  /\ pc = "none"
  /\ pc' = "handshake" /\ state' = "CONNECTING"
  /\ link' = TRUE
  /\ to_adbd' = <<Packet("CNXN", 0)>>
  /\ UNCHANGED <<remote_id, mode, output, commands, key, to_host, aligned, adbd>>

(* adb_close_session, and the object is freed.  The CLSE it sends on an    *)
(* active channel tells adbd no more than the end of the connection.       *)
Forget ==
  /\ pc' = "none" /\ state' = "DISCONNECTED" /\ remote_id' = 0
  /\ mode' = "js" /\ output' = <<>> /\ commands' = 0
  /\ key' \in {"none", "known", "unknown"}
  /\ to_host' = <<>> /\ to_adbd' = <<>> /\ aligned' = TRUE /\ link' = FALSE
  /\ stream' = 0 /\ sent' = 0 /\ ready' = FALSE

(* with or without authentication *)
Connected ==
  /\ pc = "handshake"
  /\ \E p \in Packets : p.type = "CNXN" /\ Receives(p)
  /\ pc' = "idle" /\ state' = "CONNECTED"
  /\ UNCHANGED <<remote_id, mode, output, commands, key, to_adbd, link, adbd>>

(* The token is signed with the private key; without one the public key    *)
(* is offered.                                                             *)
AnswerToken ==
  /\ pc = "handshake"
  /\ \E p \in Packets : p.type = "TOKEN" /\ Receives(p)
  /\ Send(IF key = "none" THEN "RSAPUBLICKEY" ELSE "SIGNATURE", 0)
  /\ state' = "AUTH_SENT"
  /\ UNCHANGED <<pc, remote_id, mode, output, commands, key, link, adbd>>

(* nothing legible from adbd, or no public key either *)
HandshakeFails ==
  /\ pc = "handshake"
  /\ \/ Illegible
     \/ to_host = <<>> /\ ~link
     \/ to_host # <<>> /\ Head(to_host).type = "TOKEN" /\ key = "none"
  /\ Forget

-----------------------------------------------------------------------------
(* one shell command: adb_open_shell_channel, then adb_read_shell_data     *)
(* until it fails                                                          *)

(* mutant: the buffer of the command before is not reset *)
ExecuteKeepsOutput ==
  /\ pc = "idle" /\ state = "CONNECTED" /\ commands < MaxCommands
  /\ pc' = "opening" /\ state' = "SHELL_OPENING"
  /\ mode' \in {"js", "auto"}
  /\ commands' = commands + 1
  /\ Send("OPEN", commands')
  /\ UNCHANGED <<remote_id, output, key, to_host, aligned, link, adbd>>

Execute ==
  /\ pc = "idle" /\ state = "CONNECTED" /\ commands < MaxCommands
  /\ pc' = "opening" /\ state' = "SHELL_OPENING"
  /\ mode' \in {"js", "auto"}
  /\ output' = <<>>
  /\ commands' = commands + 1
  /\ Send("OPEN", commands')
  /\ UNCHANGED <<remote_id, key, to_host, aligned, link, adbd>>

(* the write fails: the state is not taken back *)
OpenNotSent ==
  /\ pc = "idle" /\ state = "CONNECTED" /\ ~link
  /\ state' = "SHELL_OPENING"
  /\ UNCHANGED <<pc, remote_id, mode, output, commands, key, streams, adbd>>

(* OKAY for local id 1, whichever channel it is for; anything but a CLSE   *)
(* is passed over                                                          *)
Opened ==
  /\ pc = "opening"
  /\ \E p \in Packets :
       /\ p.type # "CLSE" /\ Receives(p)
       /\ IF p.type = "OKAY"
          THEN pc' = "output" /\ state' = "SHELL_ACTIVE" /\ remote_id' = p.ch
          ELSE UNCHANGED <<pc, state, remote_id>>
  /\ UNCHANGED <<mode, output, commands, key, to_adbd, link, adbd>>

NotOpened ==
  /\ pc = "opening"
  /\ ReadFails \/ \E p \in Packets : p.type = "CLSE" /\ Receives(p)
  /\ pc' = "idle" /\ state' = "ERROR"
  /\ UNCHANGED <<remote_id, mode, output, commands, key, to_adbd, link, adbd>>

(* mutant: one packet is taken for the whole output *)
CollectOnce ==
  /\ pc = "output"
  /\ \E p \in Packets : p.type = "WRTE" /\ Receives(p) /\ output' = Append(output, p)
  /\ Send("OKAY", remote_id)
  /\ pc' = "idle" /\ state' = "CONNECTED"
  /\ UNCHANGED <<remote_id, mode, commands, key, link, adbd>>

(* mutant: a packet is put at the start of the caller's buffer *)
CollectOverwrites ==
  /\ pc = "output"
  /\ \E p \in Packets : p.type = "WRTE" /\ Receives(p) /\ output' = <<p>>
  /\ Send("OKAY", remote_id)
  /\ UNCHANGED <<pc, state, remote_id, mode, commands, key, link, adbd>>

(* mutant: the packet is not acknowledged *)
CollectSilently ==
  /\ pc = "output"
  /\ \E p \in Packets : p.type = "WRTE" /\ Receives(p) /\ output' = Append(output, p)
  /\ UNCHANGED <<pc, state, remote_id, mode, commands, key, to_adbd, link, adbd>>

(* A packet without data leaves the old length and the old bytes in the    *)
(* caller's variables: they are taken again.  "auto" stops if there are    *)
(* none.  (What "auto" has no room for it reads and drops.)                *)
Collect ==
  /\ pc = "output"
  /\ \E p \in Packets :
       /\ p.type # "CLSE" /\ Receives(p)
       /\ IF p.type = "WRTE"
          THEN output' = Append(output, p) /\ Send("OKAY", remote_id) /\ UNCHANGED pc
          ELSE /\ output' = IF output = <<>> THEN <<>> ELSE Append(output, output[Len(output)])
               /\ pc' = IF output = <<>> /\ mode = "auto" THEN "idle" ELSE pc
               /\ UNCHANGED to_adbd
  /\ UNCHANGED <<state, remote_id, mode, commands, key, link, adbd>>

(* execute() ends in "connected" however the reading ended, and says CLSE  *)
Finish(closed) ==
  /\ pc' = "idle"
  /\ IF mode = "js" THEN state' = "CONNECTED" /\ Send("CLSE", remote_id)
     ELSE state' = (IF closed THEN "CONNECTED" ELSE state) /\ UNCHANGED to_adbd
  /\ UNCHANGED <<remote_id, mode, output, commands, key, link, adbd>>

OutputEnds ==
  /\ pc = "output"
  /\ \E p \in Packets : p.type = "CLSE" /\ Receives(p)
  /\ Finish(TRUE)

OutputBroken ==
  /\ pc = "output"
  /\ ReadFails
  /\ Finish(FALSE)

(* the finalizer of the session object *)
Finalize == pc = "idle" /\ Forget

HostStep ==
  \/ Connected \/ AnswerToken \/ HandshakeFails
  \/ Opened \/ NotOpened \/ Collect \/ OutputEnds \/ OutputBroken

-----------------------------------------------------------------------------
(* adbd, as the client relies on it *)

Gets(type) ==
  /\ link /\ to_adbd # <<>> /\ Head(to_adbd).type = type
  /\ to_adbd' = Tail(to_adbd)

Says(p) == to_host' = Append(to_host, p) /\ UNCHANGED <<host, aligned, link>>

Challenge ==
  /\ Gets("CNXN") \/ (Gets("SIGNATURE") /\ key = "unknown")
  /\ Says(Packet("TOKEN", 0))
  /\ UNCHANGED adbd

Welcome ==
  /\ Gets("CNXN") \/ (Gets("SIGNATURE") /\ key = "known") \/ Gets("RSAPUBLICKEY")
  /\ Says(Packet("CNXN", 0))
  /\ UNCHANGED adbd

OpenChannel ==
  /\ Gets("OPEN")
  /\ Says(Packet("OKAY", Head(to_adbd).ch))
  /\ stream' = Head(to_adbd).ch /\ sent' = 0 /\ ready' = TRUE

RefuseChannel ==
  /\ Gets("OPEN")
  /\ Says(Packet("CLSE", 0))
  /\ UNCHANGED adbd

TakeOkay ==
  /\ Gets("OKAY")
  /\ ready' = (ready \/ Head(to_adbd).ch = stream)
  /\ UNCHANGED <<host, to_host, aligned, link, stream, sent>>

(* a CLSE for a channel that is closed already is ignored *)
TakeClose ==
  /\ Gets("CLSE")
  /\ stream' = IF Head(to_adbd).ch = stream THEN 0 ELSE stream
  /\ UNCHANGED <<host, to_host, aligned, link, sent, ready>>

Write ==
  /\ link /\ stream # 0 /\ ready /\ sent < MaxPackets
  /\ \E big \in BOOLEAN : Says(Data(stream, sent + 1, big))
  /\ sent' = sent + 1 /\ ready' = FALSE
  /\ UNCHANGED <<to_adbd, stream>>

CloseChannel ==
  /\ link /\ stream # 0 /\ ready
  /\ Says(Packet("CLSE", stream))
  /\ stream' = 0
  /\ UNCHANGED <<to_adbd, sent, ready>>

(* debugging is switched off, or adbd dies, with or without what it sent *)
LinkDown ==
  /\ link
  /\ link' = FALSE
  /\ to_adbd' = <<>>
  /\ to_host' \in {to_host, <<>>}
  /\ UNCHANGED <<host, aligned, adbd>>

AdbdReads ==
  \/ Challenge \/ (Welcome /\ Head(to_adbd).type # "RSAPUBLICKEY")
  \/ OpenChannel \/ RefuseChannel \/ TakeOkay \/ TakeClose

Adbd == AdbdReads \/ Welcome \/ Write \/ CloseChannel \/ LinkDown

Next == Connect \/ Execute \/ OpenNotSent \/ Finalize \/ HostStep \/ Adbd

Spec == Init /\ [][Next]_vars

(* The host's thread runs, adbd reads what it is sent and every command    *)
(* ends.  Whether the user allows a public key is up to the user.          *)
FairSpec ==
  /\ Spec
  /\ WF_vars(HostStep) /\ WF_vars(AdbdReads) /\ WF_vars(Write \/ CloseChannel)

-----------------------------------------------------------------------------
(* What a command collects is its own output from the first packet on, in  *)
(* order and without repetition, although all channels share one local id. *)
OutputOfItsCommand ==
  \A i \in 1 .. Len(output) : output[i] = Data(commands, i, FALSE)

(* A session that says it is connected has left nothing of an old command  *)
(* in the stream, so the answer to the next OPEN is its own.               *)
ConnectedMeansClean ==
  pc = "idle" /\ state = "CONNECTED" /\ aligned /\ link => to_host = <<>>

(* Over a sound connection a command returns only when adbd has closed its *)
(* channel, with every packet that was sent.                               *)
WholeOutput ==
  [][pc = "output" /\ pc' = "idle" /\ link /\ aligned'
       => stream = 0 /\ Len(output') = sent]_vars

(* A command returns, whatever becomes of the connection, and so does the  *)
(* handshake with a key that adbd knows.                                   *)
CallsReturn ==
  /\ pc \in InACommand ~> pc \notin InACommand
  /\ (pc = "handshake" /\ key = "known") ~> pc # "handshake"
=============================================================================
