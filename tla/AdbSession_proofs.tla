------------------------- MODULE AdbSession_proofs -------------------------
(* Proofs about AdbSession: types, and that a command's output is its own. *)
EXTENDS AdbSession, SequenceTheorems, TLAPS

USE CommandsAssumption, PacketsAssumption, ReadsAssumption

-----------------------------------------------------------------------------
(* What is under way in each phase.  The conversation is half-duplex: the  *)
(* host waits for adbd, and adbd waits for an OKAY after each packet, so   *)
(* while the stream is aligned at most two packets are on their way.  What *)
(* adbd's side has to do with them is known only while the link is up.     *)

ParkedInv ==
  pc = "none" => /\ to_host = <<>> /\ to_adbd = <<>> /\ ~link
                 /\ stream = 0 /\ output = <<>>

(* one packet travels back and forth *)
HandshakeInv ==
  pc = "handshake" =>
    /\ stream = 0 /\ output = <<>>
    /\ \/ to_host = <<>> /\ to_adbd = <<>>
       \/ to_host = <<>> /\ \E t \in {"CNXN", "SIGNATURE", "RSAPUBLICKEY"} :
                               to_adbd = <<Packet(t, 0)>>
       \/ to_adbd = <<>> /\ \E t \in {"CNXN", "TOKEN"} : to_host = <<Packet(t, 0)>>

(* between two commands at most the CLSE of the first is left *)
IdleInv ==
  pc = "idle" /\ state = "CONNECTED" /\ aligned =>
    /\ to_host = <<>>
    /\ link => /\ stream = 0
               /\ to_adbd = <<>> \/ \E x \in Channels : to_adbd = <<Packet("CLSE", x)>>

Asked ==
  /\ stream = 0
  /\ \/ to_adbd = <<Packet("OPEN", commands)>>
     \/ \E x \in Channels : to_adbd = <<Packet("CLSE", x), Packet("OPEN", commands)>>

Begun(n, open) ==
  /\ to_adbd = <<>> /\ sent = n
  /\ stream = IF open THEN commands ELSE 0
  /\ ready <=> n = 0

OpeningInv ==
  pc = "opening" /\ aligned =>
    /\ output = <<>>
    /\ \/ to_host = <<>> /\ (link => Asked)
       \/ to_host = <<Packet("CLSE", 0)>> /\ (link => stream = 0 /\ to_adbd = <<>>)
       \/ to_host = <<Packet("OKAY", commands)>> /\ (link => Begun(0, TRUE))
       \/ to_host = <<Packet("OKAY", commands), Packet("CLSE", commands)>>
            /\ (link => Begun(0, FALSE))
       \/ \E b \in BOOLEAN :
            to_host = <<Packet("OKAY", commands), Data(commands, 1, b)>>
              /\ (link => Begun(1, TRUE))

Waiting ==
  /\ stream = commands /\ sent = Len(output)
  /\ \/ ready /\ to_adbd = <<>>
     \/ ~ready /\ to_adbd = <<Packet("OKAY", commands)>>

OutputInv ==
  pc = "output" /\ aligned =>
    /\ remote_id = commands
    /\ \/ to_host = <<>> /\ (link => Waiting)
       \/ /\ to_host = <<Packet("CLSE", commands)>>
          /\ link => stream = 0 /\ sent = Len(output) /\ to_adbd = <<>>
       \/ /\ \E b \in BOOLEAN :
               to_host = <<Data(commands, Len(output) + 1, b)>>
          /\ link => /\ stream = commands /\ sent = Len(output) + 1
                     /\ ~ready /\ to_adbd = <<>>

IndInv ==
  /\ TypeOK /\ OutputOfItsCommand
  /\ ParkedInv /\ HandshakeInv /\ IdleInv /\ OpeningInv /\ OutputInv

-----------------------------------------------------------------------------
(* Receiving from, and sending into, the short sequences of the invariant. *)

LEMMA ShortSequences ==
  ASSUME NEW S, NEW x \in S, NEW y \in S
  PROVE  /\ Head(<<x>>) = x /\ Tail(<<x>>) = <<>> /\ <<x>> # <<>>
         /\ Head(<<x, y>>) = x /\ Tail(<<x, y>>) = <<y>> /\ <<x, y>> # <<>>
         /\ Append(<<>>, x) = <<x>> /\ Append(<<x>>, y) = <<x, y>>
<1>1. <<x>> \in Seq(S) /\ <<x, y>> \in Seq(S) /\ <<y>> \in Seq(S) /\ <<>> \in Seq(S)
  OBVIOUS
<1>2. /\ Len(<<x>>) = 1 /\ Len(<<x, y>>) = 2 /\ Len(<<>>) = 0
      /\ <<x>>[1] = x /\ <<x, y>>[1] = x /\ <<x, y>>[2] = y
  OBVIOUS
<1>3. Head(<<x>>) = x /\ Head(<<x, y>>) = x
  BY <1>1, <1>2
<1>4. Append(<<>>, x) = <<x>> /\ Append(<<x>>, y) = <<x, y>>
  <2>1. /\ Append(<<>>, x) \in Seq(S) /\ Len(Append(<<>>, x)) = 1 /\ Append(<<>>, x)[1] = x
        /\ Append(<<x>>, y) \in Seq(S) /\ Len(Append(<<x>>, y)) = 2
        /\ Append(<<x>>, y)[1] = x /\ Append(<<x>>, y)[2] = y
    BY <1>1, <1>2, AppendProperties
  <2>2. Append(<<>>, x) = <<x>>
    BY <2>1, <1>1, <1>2, SeqEqual, SMT
  <2>3. Append(<<x>>, y) = <<x, y>>
    <3> DEFINE s == Append(<<x>>, y)
               t == <<x, y>>
    <3>1. s \in Seq(S) /\ t \in Seq(S) /\ Len(s) = 2 /\ Len(t) = 2
      BY <2>1, <1>1, <1>2
    <3>2. s[1] = t[1] /\ s[2] = t[2]
      BY <2>1, <1>2
    <3> HIDE DEF s, t
    <3>3. \A i \in 1 .. Len(s) : s[i] = t[i]
      BY <3>1, <3>2
    <3>4. s = t
      BY <3>1, <3>3, SeqEqual
    <3> QED
      BY <3>4 DEF s, t
  <2> QED
    BY <2>2, <2>3
<1>5. Tail(<<x>>) = <<>>
  BY <1>1, <1>2, HeadTailProperties
<1>6. Tail(<<x, y>>) = <<y>>
  <2>1. Tail(<<x, y>>) \in Seq(S) /\ Len(Tail(<<x, y>>)) = 1 /\ Tail(<<x, y>>)[1] = y
    BY <1>1, <1>2, HeadTailProperties
  <2> QED
    BY <2>1
<1> QED
  BY <1>2, <1>3, <1>4, <1>5, <1>6

Wires == [type : {"CNXN", "TOKEN", "SIGNATURE", "RSAPUBLICKEY", "OPEN", "OKAY", "WRTE", "CLSE"},
          ch : Nat, n : Nat, big : BOOLEAN]

LEMMA PacketTypes ==
  /\ \A c \in Channels : \A t \in {"CNXN", "TOKEN", "OKAY", "CLSE"} : Packet(t, c) \in Packets
  /\ \A c \in Channels :
       \A t \in {"CNXN", "SIGNATURE", "RSAPUBLICKEY", "OPEN", "OKAY", "CLSE"} :
          Packet(t, c) \in Requests
  /\ \A c \in Channels, n \in 0 .. MaxPackets, b \in BOOLEAN :
       Data(c, n, b) \in Packets
BY DEF Packet, Data, Packets, Requests

LEMMA WireTypes ==
  /\ Packets \cup Requests \subseteq Wires
  /\ \A c \in Channels, n \in Nat, b \in BOOLEAN : Data(c, n, b) \in Wires
<1>1. ASSUME NEW p \in Packets  PROVE p \in Wires
  BY DEF Packets, Wires, Channels
<1>2. ASSUME NEW p \in Requests  PROVE p \in Wires
  <2>1. {0} \subseteq Nat /\ {FALSE} \subseteq BOOLEAN /\ Channels \subseteq Nat
    BY DEF Channels
  <2> QED
    BY <2>1 DEF Requests, Wires
<1>3. ASSUME NEW c \in Channels, NEW n \in Nat, NEW b \in BOOLEAN
      PROVE  Data(c, n, b) \in Wires
  BY DEF Data, Wires, Channels
<1> QED
  BY <1>1, <1>2, <1>3

(* what tells the packets of the invariant apart *)
LEMMA PacketFields ==
  ASSUME NEW t, NEW c, NEW n, NEW b
  PROVE  /\ Packet(t, c).type = t /\ Packet(t, c).ch = c
         /\ Data(c, n, b).type = "WRTE" /\ Data(c, n, b).big = b
BY DEF Packet, Data

LEMMA ReceiveTypes ==
  ASSUME TypeOK, NEW p, Receives(p)
  PROVE  p \in Packets /\ to_host' \in Seq(Packets) /\ aligned' = aligned
BY HeadTailProperties DEF TypeOK, Receives

LEMMA SendTypes ==
  ASSUME TypeOK, NEW c \in Channels,
         NEW t \in {"CNXN", "SIGNATURE", "RSAPUBLICKEY", "OPEN", "OKAY", "CLSE"}, Send(t, c)
  PROVE  to_adbd' \in Seq(Requests)
<1>1. Packet(t, c) \in Requests
  BY PacketTypes
<1> QED
  BY <1>1, AppendProperties DEF TypeOK, Send

LEMMA GetsTypes ==
  ASSUME TypeOK, NEW t, Gets(t)
  PROVE  Head(to_adbd) \in Requests /\ Head(to_adbd).ch \in Channels /\ to_adbd' \in Seq(Requests)
<1>1. to_adbd \in Seq(Requests) /\ to_adbd # <<>>
  BY DEF TypeOK, Gets
<1>2. Head(to_adbd) \in Requests /\ Tail(to_adbd) \in Seq(Requests)
  BY <1>1, HeadTailProperties
<1> QED
  BY <1>2 DEF Gets, Requests

LEMMA SaysTypes ==
  ASSUME TypeOK, NEW p \in Packets, Says(p)
  PROVE  to_host' \in Seq(Packets)
BY AppendProperties DEF TypeOK, Says

LEMMA ReadFailsTypes ==
  ASSUME TypeOK, ReadFails
  PROVE  aligned' \in BOOLEAN /\ to_host' \in Seq(Packets)
BY DEF TypeOK, ReadFails

LEMMA PacketSequences ==
  \A x, y \in Wires :
     /\ Head(<<x>>) = x /\ Tail(<<x>>) = <<>> /\ <<x>> # <<>>
     /\ Head(<<x, y>>) = x /\ Tail(<<x, y>>) = <<y>> /\ <<x, y>> # <<>>
     /\ Append(<<>>, x) = <<x>> /\ Append(<<x>>, y) = <<x, y>>
BY ShortSequences

-----------------------------------------------------------------------------
(* the host *)

LEMMA InitInd == Init => IndInv
<1> SUFFICES ASSUME Init  PROVE IndInv
  OBVIOUS
<1>1. 0 \in Channels /\ 0 \in 0 .. MaxPackets
  BY DEF Channels
<1>2. output \in Seq(Packets) /\ to_host \in Seq(Packets) /\ to_adbd \in Seq(Requests)
  BY EmptySeq DEF Init
<1>3. TypeOK
  BY <1>1, <1>2 DEF Init, TypeOK, InACommand
<1>4. OutputOfItsCommand
  BY DEF Init, OutputOfItsCommand
<1> QED
  BY <1>3, <1>4 DEF Init, IndInv, ParkedInv, HandshakeInv, IdleInv, OpeningInv, OutputInv

LEMMA ConnectInd == IndInv /\ Connect => IndInv'
<1> SUFFICES ASSUME IndInv, Connect  PROVE IndInv'
  OBVIOUS
<1>1. Packet("CNXN", 0) \in Requests
  BY PacketTypes DEF Channels
<1>2. TypeOK'
  BY <1>1 DEF IndInv, TypeOK, Connect, adbd
<1>3. HandshakeInv'
  BY DEF IndInv, ParkedInv, HandshakeInv, Connect, adbd
<1> QED
  BY <1>2, <1>3 DEF IndInv, Connect, OutputOfItsCommand, ParkedInv, IdleInv, OpeningInv, OutputInv

LEMMA ForgetInd == IndInv /\ Forget => IndInv'
<1> SUFFICES ASSUME IndInv, Forget  PROVE IndInv'
  OBVIOUS
<1>1. 0 \in Channels /\ 0 \in 0 .. MaxPackets
  BY DEF Channels
<1>2. output' \in Seq(Packets) /\ to_host' \in Seq(Packets) /\ to_adbd' \in Seq(Requests)
  BY EmptySeq DEF Forget
<1>3. TypeOK'
  BY <1>1, <1>2 DEF Forget, TypeOK, InACommand
<1>4. OutputOfItsCommand'
  BY DEF Forget, OutputOfItsCommand
<1> QED
  BY <1>3, <1>4 DEF Forget, IndInv, ParkedInv, HandshakeInv, IdleInv, OpeningInv, OutputInv

LEMMA ConnectedInd == IndInv /\ Connected => IndInv'
<1> SUFFICES ASSUME IndInv, Connected  PROVE IndInv'
  OBVIOUS
<1>1. PICK p \in Packets : p.type = "CNXN" /\ Receives(p)
  BY DEF Connected
<1>2. TypeOK'
  BY <1>1, ReceiveTypes DEF IndInv, TypeOK, Connected, InACommand, adbd
<1>3. PICK t \in {"CNXN", "TOKEN"} : to_adbd = <<>> /\ to_host = <<Packet(t, 0)>>
  BY <1>1 DEF IndInv, HandshakeInv, Connected, Receives
<1>4. Packet(t, 0) \in Packets
  BY PacketTypes DEF Channels
<1>5. to_host' = <<>>
  BY <1>1, <1>3, <1>4, WireTypes, PacketSequences DEF Receives
<1>6. to_adbd' = <<>> /\ stream' = 0 /\ output' = <<>>
  BY <1>3 DEF IndInv, HandshakeInv, Connected, adbd
<1> QED
  BY <1>2, <1>5, <1>6
  DEF IndInv, Connected, OutputOfItsCommand, ParkedInv, HandshakeInv, IdleInv, OpeningInv, OutputInv

LEMMA AnswerTokenInd == IndInv /\ AnswerToken => IndInv'
<1> SUFFICES ASSUME IndInv, AnswerToken  PROVE IndInv'
  OBVIOUS
<1>1. PICK p \in Packets : p.type = "TOKEN" /\ Receives(p)
  BY DEF AnswerToken
<1>2. PICK t \in {"SIGNATURE", "RSAPUBLICKEY"} : Send(t, 0)
  BY DEF AnswerToken
<1>3. Packet(t, 0) \in Requests /\ 0 \in Channels
  BY PacketTypes DEF Channels
<1>4. TypeOK'
  BY <1>1, <1>2, <1>3, ReceiveTypes, SendTypes DEF IndInv, TypeOK, AnswerToken, adbd
<1>5. PICK h \in Packets : to_host = <<h>> /\ to_adbd = <<>>
  BY <1>1, PacketTypes DEF IndInv, HandshakeInv, AnswerToken, Receives, Channels
<1>6. to_host' = <<>>
  BY <1>1, <1>5, WireTypes, PacketSequences DEF Receives
<1>7. to_adbd' \in {<<>>, <<Packet(t, 0)>>}
  BY <1>2, <1>3, <1>5, WireTypes, PacketSequences DEF Send
<1>8. HandshakeInv'
  BY <1>6, <1>7 DEF IndInv, HandshakeInv, AnswerToken, adbd
<1> QED
  BY <1>4, <1>8
  DEF IndInv, AnswerToken, OutputOfItsCommand, ParkedInv, IdleInv, OpeningInv, OutputInv

LEMMA ExecuteInd == IndInv /\ Execute => IndInv'
<1> SUFFICES ASSUME IndInv, Execute  PROVE IndInv'
  OBVIOUS
<1>1. commands' \in Channels /\ Send("OPEN", commands')
  BY DEF IndInv, TypeOK, Execute, Channels
<1>2. to_adbd' \in Seq(Requests)
  BY <1>1, SendTypes DEF IndInv
<1>3. TypeOK'
  BY <1>1, <1>2 DEF IndInv, TypeOK, Execute, InACommand, adbd
<1>4. OpeningInv'
  <2>1. CASE ~aligned \/ ~link
    BY <2>1 DEF IndInv, IdleInv, OpeningInv, Execute, adbd
  <2>2. CASE aligned /\ link
    <3>1. Packet("OPEN", commands') \in Requests
      BY <1>1, PacketTypes
    <3>2. to_adbd = <<>> => to_adbd' = <<Packet("OPEN", commands')>>
      BY <1>1, <2>2, <3>1, WireTypes, PacketSequences DEF Send
    <3>3. ASSUME NEW x \in Channels, to_adbd = <<Packet("CLSE", x)>>
          PROVE  to_adbd' = <<Packet("CLSE", x), Packet("OPEN", commands')>>
      BY <1>1, <2>2, <3>1, <3>3, PacketTypes, WireTypes, PacketSequences DEF Send
    <3>4. Asked'
      BY <2>2, <3>2, <3>3 DEF IndInv, IdleInv, Execute, Asked, adbd
    <3> QED
      BY <2>2, <3>4 DEF IndInv, IdleInv, OpeningInv, Execute
  <2> QED
    BY <2>1, <2>2 DEF IndInv, TypeOK
<1> QED
  BY <1>3, <1>4
  DEF IndInv, Execute, OutputOfItsCommand, ParkedInv, HandshakeInv, IdleInv, OutputInv

LEMMA OpenNotSentInd == IndInv /\ OpenNotSent => IndInv'
<1> SUFFICES ASSUME IndInv, OpenNotSent  PROVE IndInv'
  OBVIOUS
<1>1. TypeOK'
  BY DEF IndInv, TypeOK, OpenNotSent, streams, adbd
<1> QED
  BY <1>1
  DEF IndInv, OpenNotSent, OutputOfItsCommand, ParkedInv, HandshakeInv, IdleInv, OpeningInv,
      OutputInv, streams, adbd

LEMMA OpenedInd == IndInv /\ Opened => IndInv'
<1> SUFFICES ASSUME IndInv, Opened  PROVE IndInv'
  OBVIOUS
<1> DEFINE c == commands
           Okay == Packet("OKAY", c)
<1>1. PICK p \in Packets :
        /\ p.type # "CLSE" /\ Receives(p)
        /\ IF p.type = "OKAY"
           THEN pc' = "output" /\ state' = "SHELL_ACTIVE" /\ remote_id' = p.ch
           ELSE UNCHANGED <<pc, state, remote_id>>
  BY DEF Opened
<1>2. c \in Channels /\ output = <<>> /\ aligned /\ aligned' /\ pc = "opening"
  BY <1>1 DEF IndInv, TypeOK, OpeningInv, Opened, Receives
<1>3. /\ Okay \in Wires /\ Packet("CLSE", 0) \in Wires /\ Packet("CLSE", c) \in Wires
      /\ \A b \in BOOLEAN : Data(c, 1, b) \in Wires
  BY <1>2, PacketTypes, WireTypes DEF Channels
<1>4. /\ p = Okay
      /\ \/ to_host' = <<>> /\ (link => Begun(0, TRUE))
         \/ to_host' = <<Packet("CLSE", c)>> /\ (link => Begun(0, FALSE))
         \/ \E b \in BOOLEAN :
              to_host' = <<Data(c, 1, b)>> /\ (link => Begun(1, TRUE))
  <2>1. p = Head(to_host) /\ to_host' = Tail(to_host) /\ to_host # <<>>
    BY <1>1 DEF Receives
  <2>2. CASE to_host = <<Packet("CLSE", 0)>>
    BY <1>1, <1>3, <2>1, <2>2, PacketFields, PacketSequences
  <2>3. CASE to_host = <<Okay>> /\ (link => Begun(0, TRUE))
    BY <1>3, <2>1, <2>3, PacketSequences
  <2>4. CASE to_host = <<Okay, Packet("CLSE", c)>> /\ (link => Begun(0, FALSE))
    BY <1>3, <2>1, <2>4, PacketSequences
  <2>5. ASSUME NEW b \in BOOLEAN, to_host = <<Okay, Data(c, 1, b)>>, link => Begun(1, TRUE)
        PROVE  p = Okay /\ to_host' = <<Data(c, 1, b)>>
    BY <1>3, <2>1, <2>5, PacketSequences
  <2> HIDE DEF c, Okay
  <2> QED
    BY <1>2, <2>1, <2>2, <2>3, <2>4, <2>5 DEF IndInv, OpeningInv, c, Okay
<1>5. pc' = "output" /\ remote_id' = c
  BY <1>1, <1>4, PacketFields
<1>6. TypeOK'
  BY <1>1, <1>2, <1>5, ReceiveTypes DEF IndInv, TypeOK, Opened, InACommand, adbd
<1>7. OutputInv'
  <2>1. Len(output') = 0 /\ commands' = c /\ output' = <<>>
    BY <1>2 DEF Opened
  <2>2. UNCHANGED <<to_adbd, link, stream, sent, ready>>
    BY DEF Opened, adbd
  <2>3. CASE to_host' = <<>> /\ (link => Begun(0, TRUE))
    BY <2>1, <2>2, <2>3, <1>5 DEF OutputInv, Waiting, Begun
  <2>4. CASE to_host' = <<Packet("CLSE", c)>> /\ (link => Begun(0, FALSE))
    BY <2>1, <2>2, <2>4, <1>5 DEF OutputInv, Begun
  <2>5. ASSUME NEW b \in BOOLEAN, to_host' = <<Data(c, 1, b)>>,
               link => Begun(1, TRUE)
        PROVE  OutputInv'
    <3>1. to_host' = <<Data(commands', Len(output') + 1, b)>>
      BY <2>1, <2>5
    <3>2. link' => /\ stream' = commands' /\ sent' = Len(output') + 1
                   /\ ~ready' /\ to_adbd' = <<>>
      BY <2>1, <2>2, <2>5 DEF Begun
    <3> QED
      BY <3>1, <3>2, <2>1, <1>5 DEF OutputInv
  <2> QED
    BY <1>4, <2>3, <2>4, <2>5
<1>8. OutputOfItsCommand'
  BY <1>2 DEF Opened, OutputOfItsCommand
<1> QED
  BY <1>5, <1>6, <1>7, <1>8 DEF IndInv, ParkedInv, HandshakeInv, IdleInv, OpeningInv

LEMMA NotOpenedInd == IndInv /\ NotOpened => IndInv'
<1> SUFFICES ASSUME IndInv, NotOpened  PROVE IndInv'
  OBVIOUS
<1>1. aligned' \in BOOLEAN /\ to_host' \in Seq(Packets)
  BY ReadFailsTypes, ReceiveTypes DEF IndInv, TypeOK, NotOpened
<1>2. TypeOK'
  BY <1>1 DEF IndInv, TypeOK, NotOpened, adbd
<1> QED
  BY <1>2
  DEF IndInv, NotOpened, OutputOfItsCommand, ParkedInv, HandshakeInv, IdleInv, OpeningInv, OutputInv

(* In the output phase the next packet is the next piece of the output, or *)
(* the CLSE that ends it.                                                  *)
LEMMA NextOutput ==
  ASSUME IndInv, pc = "output", NEW p, Receives(p)
  PROVE  /\ remote_id = commands /\ commands \in Channels /\ to_host' = <<>>
         /\ \/ /\ p = Packet("CLSE", commands)
               /\ link => stream = 0 /\ sent = Len(output) /\ to_adbd = <<>>
            \/ /\ p = Data(commands, Len(output) + 1, FALSE)
               /\ link => /\ stream = commands /\ sent = Len(output) + 1
                          /\ ~ready /\ to_adbd = <<>>
<1> DEFINE Next1(b) == Data(commands, Len(output) + 1, b)
           Close1   == Packet("CLSE", commands)
<1>1. p = Head(to_host) /\ to_host' = Tail(to_host) /\ to_host # <<>> /\ ~p.big /\ aligned
  BY DEF Receives
<1>2. commands \in Channels /\ Len(output) \in Nat
  BY LenProperties DEF IndInv, TypeOK
<1>3. Close1 \in Wires /\ \A b \in BOOLEAN : Next1(b) \in Wires
  BY <1>2, PacketTypes, WireTypes
<1>4. ASSUME to_host = <<Close1>>
      PROVE  p = Close1 /\ to_host' = <<>>
  BY <1>1, <1>3, <1>4, PacketSequences
<1>5. ASSUME NEW b \in BOOLEAN, to_host = <<Next1(b)>>
      PROVE  p = Next1(FALSE) /\ to_host' = <<>>
  <2>1. p = Next1(b) /\ to_host' = <<>>
    BY <1>1, <1>3, <1>5, PacketSequences
  <2>2. ~b
    BY <1>1, <2>1, PacketFields
  <2> QED
    BY <2>1, <2>2
<1>6. remote_id = commands
  BY <1>1 DEF IndInv, OutputInv
<1> QED
  BY <1>1, <1>2, <1>4, <1>5, <1>6 DEF IndInv, OutputInv

LEMMA CollectInd == IndInv /\ Collect => IndInv'
<1> SUFFICES ASSUME IndInv, Collect  PROVE IndInv'
  OBVIOUS
<1>1. PICK p \in Packets :
        /\ p.type # "CLSE" /\ Receives(p)
        /\ IF p.type = "WRTE"
           THEN output' = Append(output, p) /\ Send("OKAY", remote_id) /\ UNCHANGED pc
           ELSE /\ output' = IF output = <<>> THEN <<>> ELSE Append(output, output[Len(output)])
                /\ pc' = IF output = <<>> /\ mode = "auto" THEN "idle" ELSE pc
                /\ UNCHANGED to_adbd
  BY DEF Collect
<1>2. pc = "output" /\ aligned /\ aligned' /\ UNCHANGED <<remote_id, commands, link, stream, sent, ready>>
  BY <1>1 DEF Collect, Receives, adbd
<1>3. /\ remote_id = commands /\ commands \in Channels /\ to_host' = <<>>
      /\ p = Data(commands, Len(output) + 1, FALSE)
      /\ link => /\ stream = commands /\ sent = Len(output) + 1
                 /\ ~ready /\ to_adbd = <<>>
  <2>1. p # Packet("CLSE", commands)
    BY <1>1, PacketFields
  <2>2. Receives(p)
    BY <1>1
  <2> QED
    BY <1>2, <2>1, <2>2, NextOutput
<1>4. output' = Append(output, p) /\ Send("OKAY", commands) /\ pc' = "output"
  <2>1. p.type = "WRTE"
    BY <1>3 DEF Data
  <2> QED
    BY <1>1, <1>2, <1>3, <2>1
<1>5. /\ output' \in Seq(Packets) /\ Len(output) \in Nat /\ Len(output') = Len(output) + 1
      /\ \A i \in 1 .. Len(output) : output'[i] = output[i]
      /\ output'[Len(output) + 1] = p
  BY <1>1, <1>4, AppendProperties, LenProperties DEF IndInv, TypeOK
<1>6. to_adbd' \in Seq(Requests)
  BY <1>3, <1>4, SendTypes DEF IndInv
<1>7. TypeOK'
  BY <1>1, <1>2, <1>4, <1>5, <1>6, ReceiveTypes DEF IndInv, TypeOK, Collect, InACommand, adbd
<1>8. OutputOfItsCommand'
  <2> SUFFICES ASSUME NEW i \in 1 .. Len(output')
               PROVE  output'[i] = Data(commands', i, FALSE)
    BY DEF OutputOfItsCommand
  <2>1. CASE i \in 1 .. Len(output)
    BY <1>2, <1>5, <2>1 DEF IndInv, OutputOfItsCommand
  <2>2. CASE i = Len(output) + 1
    BY <1>2, <1>3, <1>5, <2>2
  <2>3. i \in 1 .. Len(output) \/ i = Len(output) + 1
    BY <1>5
  <2> QED
    BY <2>1, <2>2, <2>3
<1>9. OutputInv'
  <2>1. Packet("OKAY", commands) \in Wires
    BY <1>3, PacketTypes, WireTypes
  <2>2. link => to_adbd' = <<Packet("OKAY", commands)>>
    BY <1>3, <1>4, <2>1, PacketSequences DEF Send
  <2>3. link' => Waiting'
    BY <1>2, <1>3, <1>5, <2>2 DEF Waiting
  <2> QED
    BY <1>2, <1>3, <2>3 DEF OutputInv
<1> QED
  BY <1>4, <1>7, <1>8, <1>9 DEF IndInv, ParkedInv, HandshakeInv, IdleInv, OpeningInv

LEMMA OutputEndsInd == IndInv /\ OutputEnds => IndInv'
<1> SUFFICES ASSUME IndInv, OutputEnds  PROVE IndInv'
  OBVIOUS
<1>1. PICK p \in Packets : p.type = "CLSE" /\ Receives(p)
  BY DEF OutputEnds
<1>2. /\ remote_id \in Channels /\ to_host' = <<>>
      /\ link => stream = 0 /\ to_adbd = <<>>
  <2>1. p # Data(commands, Len(output) + 1, FALSE)
    BY <1>1 DEF Data
  <2>2. Receives(p) /\ pc = "output"
    BY <1>1 DEF OutputEnds
  <2> QED
    BY <2>1, <2>2, NextOutput
<1>3. \/ Send("CLSE", remote_id)
      \/ UNCHANGED to_adbd
  BY DEF OutputEnds, Finish
<1>4. to_adbd' \in Seq(Requests)
  BY <1>2, <1>3, SendTypes DEF IndInv, TypeOK
<1>5. TypeOK'
  BY <1>1, <1>4, ReceiveTypes DEF IndInv, TypeOK, OutputEnds, Finish, adbd
<1>6. IdleInv'
  <2>1. Packet("CLSE", remote_id) \in Wires
    BY <1>2, PacketTypes, WireTypes
  <2>2. link => to_adbd' \in {<<>>, <<Packet("CLSE", remote_id)>>}
    BY <1>2, <1>3, <2>1, PacketSequences DEF Send
  <2> QED
    BY <1>2, <2>2 DEF IdleInv, OutputEnds, Finish, adbd
<1> QED
  BY <1>5, <1>6
  DEF IndInv, OutputEnds, Finish, OutputOfItsCommand, ParkedInv, HandshakeInv, OpeningInv, OutputInv

LEMMA OutputBrokenInd == IndInv /\ OutputBroken => IndInv'
<1> SUFFICES ASSUME IndInv, OutputBroken  PROVE IndInv'
  OBVIOUS
<1>1. aligned' \in BOOLEAN /\ to_host' \in Seq(Packets) /\ remote_id \in Channels
  BY ReadFailsTypes DEF IndInv, TypeOK, OutputBroken
<1>2. to_adbd' \in Seq(Requests)
  BY <1>1, SendTypes DEF IndInv, TypeOK, OutputBroken, Finish
<1>3. TypeOK'
  BY <1>1, <1>2 DEF IndInv, TypeOK, OutputBroken, Finish, adbd
<1>4. aligned' => to_host' = <<>> /\ ~link'
  BY DEF IndInv, TypeOK, OutputBroken, ReadFails, Finish
<1>5. IdleInv'
  BY <1>4 DEF IdleInv
<1> QED
  BY <1>3, <1>5
  DEF IndInv, OutputBroken, Finish, OutputOfItsCommand, ParkedInv, HandshakeInv, OpeningInv, OutputInv

-----------------------------------------------------------------------------
(* adbd *)

(* what adbd can read in each phase *)
LEMMA GetsPhase ==
  ASSUME IndInv, NEW t, Gets(t)
  PROVE  /\ pc # "none"
         /\ pc = "handshake" =>
              t \in {"CNXN", "SIGNATURE", "RSAPUBLICKEY"} /\ to_host = <<>> /\ to_adbd' = <<>>
         /\ pc = "idle" /\ state = "CONNECTED" /\ aligned => t = "CLSE" /\ to_adbd' = <<>>
         /\ pc = "opening" /\ aligned =>
              /\ to_host = <<>> /\ stream = 0
              /\ \/ t = "OPEN" /\ Head(to_adbd).ch = commands /\ to_adbd' = <<>>
                 \/ t = "CLSE" /\ to_adbd' = <<Packet("OPEN", commands)>>
         /\ pc = "output" /\ aligned =>
              /\ to_host = <<>> /\ Waiting /\ ~ready
              /\ t = "OKAY" /\ Head(to_adbd).ch = commands /\ to_adbd' = <<>>
<1>1. link /\ to_adbd # <<>> /\ Head(to_adbd).type = t /\ to_adbd' = Tail(to_adbd)
  BY DEF Gets
<1>2. commands \in Channels /\ 0 \in Channels
  BY DEF IndInv, TypeOK, Channels
<1>3. ASSUME NEW u \in {"CNXN", "SIGNATURE", "RSAPUBLICKEY", "OPEN", "OKAY", "CLSE"},
             NEW c \in Channels, to_adbd = <<Packet(u, c)>>
      PROVE  t = u /\ Head(to_adbd).ch = c /\ to_adbd' = <<>>
  <2>1. Packet(u, c) \in Wires
    BY PacketTypes, WireTypes
  <2>2. Head(to_adbd) = Packet(u, c) /\ to_adbd' = <<>>
    BY <1>1, <1>3, <2>1, PacketSequences
  <2> QED
    BY <1>1, <2>2 DEF Packet
<1>4. ASSUME NEW x \in Channels,
             to_adbd = <<Packet("CLSE", x), Packet("OPEN", commands)>>
      PROVE  t = "CLSE" /\ to_adbd' = <<Packet("OPEN", commands)>>
  <2>1. Packet("CLSE", x) \in Wires /\ Packet("OPEN", commands) \in Wires
    BY <1>2, PacketTypes, WireTypes
  <2>2. Head(to_adbd) = Packet("CLSE", x) /\ to_adbd' = <<Packet("OPEN", commands)>>
    BY <1>1, <1>4, <2>1, PacketSequences
  <2>3. Packet("CLSE", x).type = "CLSE"
    BY DEF Packet
  <2> QED
    BY <1>1, <2>2, <2>3
<1>5. pc # "none"
  BY <1>1 DEF IndInv, ParkedInv
<1>6. pc = "handshake" =>
        t \in {"CNXN", "SIGNATURE", "RSAPUBLICKEY"} /\ to_host = <<>> /\ to_adbd' = <<>>
  BY <1>1, <1>2, <1>3 DEF IndInv, HandshakeInv
<1>7. pc = "idle" /\ state = "CONNECTED" /\ aligned => t = "CLSE" /\ to_adbd' = <<>>
  BY <1>1, <1>3 DEF IndInv, IdleInv
<1>8. ASSUME pc = "opening", aligned
      PROVE  /\ to_host = <<>> /\ stream = 0
             /\ \/ t = "OPEN" /\ Head(to_adbd).ch = commands /\ to_adbd' = <<>>
                \/ t = "CLSE" /\ to_adbd' = <<Packet("OPEN", commands)>>
  <2>1. to_host = <<>> /\ Asked
    BY <1>1, <1>8 DEF IndInv, OpeningInv, Begun
  <2> QED
    BY <1>2, <1>3, <1>4, <2>1 DEF Asked
<1>9. ASSUME pc = "output", aligned
      PROVE  /\ to_host = <<>> /\ Waiting /\ ~ready
             /\ t = "OKAY" /\ Head(to_adbd).ch = commands /\ to_adbd' = <<>>
  <2>1. to_host = <<>> /\ Waiting
    BY <1>1, <1>9 DEF IndInv, OutputInv
  <2>2. ~ready /\ to_adbd = <<Packet("OKAY", commands)>>
    BY <1>1, <2>1 DEF Waiting
  <2>3. t = "OKAY" /\ Head(to_adbd).ch = commands /\ to_adbd' = <<>>
    BY <1>2, <1>3, <2>2
  <2> QED
    BY <2>1, <2>2, <2>3
<1> QED
  BY <1>5, <1>6, <1>7, <1>8, <1>9

LEMMA AnswerInd == IndInv /\ (Challenge \/ Welcome) => IndInv'
<1> SUFFICES ASSUME IndInv, Challenge \/ Welcome  PROVE IndInv'
  OBVIOUS
<1>1. PICK t \in {"CNXN", "SIGNATURE", "RSAPUBLICKEY"} : Gets(t)
  BY DEF Challenge, Welcome
<1>2. PICK u \in {"CNXN", "TOKEN"} : Says(Packet(u, 0))
  BY DEF Challenge, Welcome
<1>3. UNCHANGED <<pc, state, remote_id, mode, output, commands, key, aligned, link, stream, sent, ready>>
  BY <1>2 DEF Challenge, Welcome, Says, host, adbd
<1>4. Packet(u, 0) \in Packets
  BY PacketTypes DEF Channels
<1>5. TypeOK'
  BY <1>1, <1>2, <1>3, <1>4, GetsTypes, SaysTypes DEF IndInv, TypeOK
<1>6. ~(pc = "idle" /\ state = "CONNECTED" /\ aligned) /\ ~(pc = "opening" /\ aligned)
      /\ ~(pc = "output" /\ aligned) /\ pc # "none"
  BY <1>1, GetsPhase
<1>7. HandshakeInv'
  <2>1. pc = "handshake" => to_host' = <<Packet(u, 0)>> /\ to_adbd' = <<>>
    BY <1>1, <1>2, <1>4, GetsPhase, WireTypes, PacketSequences DEF Says
  <2> QED
    BY <1>3, <2>1 DEF IndInv, HandshakeInv
<1> QED
  BY <1>3, <1>5, <1>6, <1>7
  DEF IndInv, OutputOfItsCommand, ParkedInv, IdleInv, OpeningInv, OutputInv

LEMMA OpenChannelInd == IndInv /\ OpenChannel => IndInv'
<1> SUFFICES ASSUME IndInv, OpenChannel  PROVE IndInv'
  OBVIOUS
<1> DEFINE c == Head(to_adbd).ch
<1>1. Gets("OPEN") /\ Says(Packet("OKAY", c)) /\ stream' = c /\ sent' = 0 /\ ready' = TRUE
  BY DEF OpenChannel
<1>2. c \in Channels /\ to_adbd' \in Seq(Requests)
  BY <1>1, GetsTypes DEF IndInv
<1>3. Packet("OKAY", c) \in Packets
  BY <1>2, PacketTypes
<1>4. UNCHANGED <<pc, state, remote_id, mode, output, commands, key, aligned, link>>
  BY <1>1 DEF Says, host
<1>5. TypeOK'
  BY <1>1, <1>2, <1>3, <1>4, SaysTypes DEF IndInv, TypeOK
<1>6. ~(pc = "idle" /\ state = "CONNECTED" /\ aligned) /\ pc # "handshake"
      /\ ~(pc = "output" /\ aligned) /\ pc # "none"
  BY <1>1, GetsPhase
<1>7. ASSUME pc = "opening", aligned
      PROVE  to_host' = <<Packet("OKAY", commands)>> /\ Begun(0, TRUE)'
  <2>1. to_host = <<>> /\ c = commands /\ to_adbd' = <<>>
    BY <1>1, <1>7, GetsPhase
  <2>2. to_host' = <<Packet("OKAY", commands)>>
    BY <1>1, <1>3, <2>1, WireTypes, PacketSequences DEF Says
  <2> QED
    BY <1>1, <1>4, <2>1, <2>2 DEF Begun
<1>8. OpeningInv'
  BY <1>4, <1>7 DEF IndInv, OpeningInv
<1> QED
  BY <1>4, <1>5, <1>6, <1>8
  DEF IndInv, OutputOfItsCommand, ParkedInv, HandshakeInv, IdleInv, OutputInv

LEMMA RefuseChannelInd == IndInv /\ RefuseChannel => IndInv'
<1> SUFFICES ASSUME IndInv, RefuseChannel  PROVE IndInv'
  OBVIOUS
<1>1. Gets("OPEN") /\ Says(Packet("CLSE", 0))
  BY DEF RefuseChannel
<1>2. Packet("CLSE", 0) \in Packets
  BY PacketTypes DEF Channels
<1>3. UNCHANGED <<pc, state, remote_id, mode, output, commands, key, aligned, link, stream, sent, ready>>
  BY DEF RefuseChannel, Says, host, adbd
<1>4. TypeOK'
  BY <1>1, <1>2, <1>3, GetsTypes, SaysTypes DEF IndInv, TypeOK
<1>5. ~(pc = "idle" /\ state = "CONNECTED" /\ aligned) /\ pc # "handshake"
      /\ ~(pc = "output" /\ aligned) /\ pc # "none"
  BY <1>1, GetsPhase
<1>6. ASSUME pc = "opening", aligned
      PROVE  to_host' = <<Packet("CLSE", 0)>> /\ stream' = 0 /\ to_adbd' = <<>>
  <2>1. to_host = <<>> /\ stream = 0 /\ to_adbd' = <<>>
    BY <1>1, <1>6, GetsPhase
  <2>2. to_host' = <<Packet("CLSE", 0)>>
    BY <1>1, <1>2, <2>1, WireTypes, PacketSequences DEF Says
  <2> QED
    BY <1>3, <2>1, <2>2
<1>7. OpeningInv'
  BY <1>3, <1>6 DEF IndInv, OpeningInv
<1> QED
  BY <1>3, <1>4, <1>5, <1>7
  DEF IndInv, OutputOfItsCommand, ParkedInv, HandshakeInv, IdleInv, OutputInv

LEMMA TakeOkayInd == IndInv /\ TakeOkay => IndInv'
<1> SUFFICES ASSUME IndInv, TakeOkay  PROVE IndInv'
  OBVIOUS
<1>1. Gets("OKAY") /\ ready' = (ready \/ Head(to_adbd).ch = stream)
  BY DEF TakeOkay
<1>2. UNCHANGED <<pc, state, remote_id, mode, output, commands, key, to_host, aligned, link, stream, sent>>
  BY DEF TakeOkay, host
<1>3. ready' \in BOOLEAN
  BY <1>1 DEF IndInv, TypeOK
<1>4. TypeOK'
  BY <1>1, <1>2, <1>3, GetsTypes DEF IndInv, TypeOK
<1>5. ~(pc = "idle" /\ state = "CONNECTED" /\ aligned) /\ pc # "handshake"
      /\ ~(pc = "opening" /\ aligned) /\ pc # "none"
  BY <1>1, GetsPhase
<1>6. ASSUME pc = "output", aligned
      PROVE  to_host' = <<>> /\ Waiting'
  <2>1. to_host = <<>> /\ Waiting /\ Head(to_adbd).ch = commands /\ to_adbd' = <<>>
    BY <1>1, <1>6, GetsPhase
  <2>2. Head(to_adbd).ch = stream
    BY <2>1 DEF Waiting
  <2>3. ready'
    BY <1>1, <2>2
  <2> QED
    BY <1>2, <2>1, <2>3 DEF Waiting
<1>7. OutputInv'
  BY <1>2, <1>6 DEF IndInv, OutputInv
<1> QED
  BY <1>2, <1>4, <1>5, <1>7
  DEF IndInv, OutputOfItsCommand, ParkedInv, HandshakeInv, IdleInv, OpeningInv

LEMMA TakeCloseInd == IndInv /\ TakeClose => IndInv'
<1> SUFFICES ASSUME IndInv, TakeClose  PROVE IndInv'
  OBVIOUS
<1>1. Gets("CLSE") /\ stream' = IF Head(to_adbd).ch = stream THEN 0 ELSE stream
  BY DEF TakeClose
<1>2. UNCHANGED <<pc, state, remote_id, mode, output, commands, key, to_host, aligned, link, sent, ready>>
  BY DEF TakeClose, host
<1>3. stream' \in Channels /\ (stream = 0 => stream' = 0)
  BY <1>1 DEF IndInv, TypeOK, Channels
<1>4. TypeOK'
  BY <1>1, <1>2, <1>3, GetsTypes DEF IndInv, TypeOK
<1>5. pc # "handshake" /\ ~(pc = "output" /\ aligned) /\ pc # "none"
  BY <1>1, GetsPhase
<1>6. IdleInv'
  BY <1>1, <1>2, <1>3, GetsPhase DEF IndInv, IdleInv, Gets
<1>7. ASSUME pc = "opening", aligned
      PROVE  to_host' = <<>> /\ Asked'
  <2>1. to_host = <<>> /\ stream = 0 /\ to_adbd' = <<Packet("OPEN", commands)>>
    BY <1>1, <1>7, GetsPhase
  <2> QED
    BY <1>2, <1>3, <2>1 DEF Asked
<1>8. OpeningInv'
  BY <1>2, <1>7 DEF IndInv, OpeningInv
<1> QED
  BY <1>2, <1>4, <1>5, <1>6, <1>8
  DEF IndInv, OutputOfItsCommand, ParkedInv, HandshakeInv, OutputInv

(* adbd may write or close only in the phases of a command that it serves *)
LEMMA ServedPhase ==
  ASSUME IndInv, link, stream # 0, ready
  PROVE  /\ pc \notin {"none", "handshake"} /\ ~(pc = "idle" /\ state = "CONNECTED" /\ aligned)
         /\ pc = "opening" /\ aligned =>
              to_host = <<Packet("OKAY", commands)>> /\ Begun(0, TRUE)
         /\ pc = "output" /\ aligned => to_host = <<>> /\ Waiting /\ to_adbd = <<>>
<1>1. pc \notin {"none", "handshake"} /\ ~(pc = "idle" /\ state = "CONNECTED" /\ aligned)
  BY DEF IndInv, ParkedInv, HandshakeInv, IdleInv
<1>2. ASSUME pc = "opening", aligned
      PROVE  to_host = <<Packet("OKAY", commands)>> /\ Begun(0, TRUE)
  <2>1. ~Begun(1, TRUE)
    BY DEF Begun
  <2>2. ~Begun(0, FALSE) /\ ~Asked
    BY DEF Begun, Asked
  <2> QED
    BY <1>2, <2>1, <2>2 DEF IndInv, OpeningInv
<1>3. ASSUME pc = "output", aligned
      PROVE  to_host = <<>> /\ Waiting /\ to_adbd = <<>>
  <2>1. to_host = <<>> /\ Waiting
    BY <1>3 DEF IndInv, OutputInv
  <2> QED
    BY <2>1 DEF Waiting
<1> QED
  BY <1>1, <1>2, <1>3

LEMMA WriteInd == IndInv /\ Write => IndInv'
<1> SUFFICES ASSUME IndInv, Write  PROVE IndInv'
  OBVIOUS
<1>1. PICK b \in BOOLEAN : Says(Data(stream, sent + 1, b))
  BY DEF Write
<1>2. /\ link /\ stream # 0 /\ ready /\ sent' = sent + 1 /\ ~ready'
      /\ sent + 1 \in 0 .. MaxPackets /\ sent \in Nat /\ stream \in Channels
  BY DEF IndInv, TypeOK, Write
<1>3. UNCHANGED <<pc, state, remote_id, mode, output, commands, key, to_adbd, aligned, link, stream>>
  BY <1>1 DEF Write, Says, host
<1>4. Data(stream, sent + 1, b) \in Packets
  BY <1>2, PacketTypes
<1>5. TypeOK'
  BY <1>1, <1>2, <1>3, <1>4, SaysTypes DEF IndInv, TypeOK, Write
<1>6. /\ pc \notin {"none", "handshake"} /\ ~(pc = "idle" /\ state = "CONNECTED" /\ aligned)
      /\ pc = "opening" /\ aligned => to_host = <<Packet("OKAY", commands)>> /\ Begun(0, TRUE)
      /\ pc = "output" /\ aligned => to_host = <<>> /\ Waiting /\ to_adbd = <<>>
  BY <1>2, ServedPhase
<1>7. ASSUME pc = "opening", aligned
      PROVE  to_host' = <<Packet("OKAY", commands), Data(commands, 1, b)>> /\ Begun(1, TRUE)'
  <2>1. stream = commands /\ sent = 0 /\ to_adbd = <<>>
    BY <1>6, <1>7 DEF Begun
  <2>2. Packet("OKAY", commands) \in Wires
    BY <1>2, <2>1, PacketTypes, WireTypes
  <2>3. Says(Data(commands, 1, b)) /\ Data(commands, 1, b) \in Packets
    <3>1. sent + 1 = 1
      BY <2>1
    <3> QED
      BY <1>1, <1>4, <2>1, <3>1
  <2>4. to_host' = <<Packet("OKAY", commands), Data(commands, 1, b)>>
    BY <1>6, <1>7, <2>2, <2>3, WireTypes, PacketSequences DEF Says
  <2> QED
    BY <1>2, <1>3, <2>1, <2>4 DEF Begun
<1>8. ASSUME pc = "output", aligned
      PROVE  /\ to_host' = <<Data(commands, Len(output) + 1, b)>>
             /\ stream' = commands' /\ sent' = Len(output) + 1 /\ to_adbd' = <<>>
  <2>1. stream = commands /\ sent = Len(output)
    BY <1>6, <1>8 DEF Waiting
  <2>2. to_host' = <<Data(stream, sent + 1, b)>>
    BY <1>1, <1>4, <1>6, <1>8, WireTypes, PacketSequences DEF Says
  <2> QED
    BY <1>2, <1>3, <1>6, <1>8, <2>1, <2>2
<1>9. OpeningInv'
  BY <1>3, <1>7 DEF IndInv, OpeningInv
<1>10. OutputInv'
  BY <1>2, <1>3, <1>8 DEF IndInv, OutputInv
<1> QED
  BY <1>3, <1>5, <1>6, <1>9, <1>10
  DEF IndInv, OutputOfItsCommand, ParkedInv, HandshakeInv, IdleInv

LEMMA CloseChannelInd == IndInv /\ CloseChannel => IndInv'
<1> SUFFICES ASSUME IndInv, CloseChannel  PROVE IndInv'
  OBVIOUS
<1>1. link /\ stream # 0 /\ ready /\ Says(Packet("CLSE", stream)) /\ stream' = 0
  BY DEF CloseChannel
<1>2. UNCHANGED <<pc, state, remote_id, mode, output, commands, key, to_adbd, aligned, link, sent, ready>>
  BY DEF CloseChannel, Says, host
<1>3. Packet("CLSE", stream) \in Packets /\ 0 \in Channels
  BY PacketTypes DEF IndInv, TypeOK, Channels
<1>4. TypeOK'
  BY <1>1, <1>2, <1>3, SaysTypes DEF IndInv, TypeOK
<1>5. /\ pc \notin {"none", "handshake"} /\ ~(pc = "idle" /\ state = "CONNECTED" /\ aligned)
      /\ pc = "opening" /\ aligned => to_host = <<Packet("OKAY", commands)>> /\ Begun(0, TRUE)
      /\ pc = "output" /\ aligned => to_host = <<>> /\ Waiting /\ to_adbd = <<>>
  BY <1>1, ServedPhase
<1>6. ASSUME pc = "opening", aligned
      PROVE  /\ to_host' = <<Packet("OKAY", commands), Packet("CLSE", commands)>>
             /\ Begun(0, FALSE)'
  <2>1. stream = commands /\ sent = 0 /\ to_adbd = <<>> /\ stream \in Channels
    BY <1>5, <1>6 DEF Begun, IndInv, TypeOK
  <2>2. Packet("OKAY", commands) \in Wires
    BY <2>1, PacketTypes, WireTypes
  <2>3. to_host' = <<Packet("OKAY", commands), Packet("CLSE", commands)>>
    BY <1>1, <1>3, <1>5, <1>6, <2>1, <2>2, WireTypes, PacketSequences, ZenonT(40) DEF Says
  <2>4. ready'
    BY <1>1, <1>2
  <2> QED
    BY <1>1, <1>2, <2>1, <2>3, <2>4 DEF Begun
<1>7. ASSUME pc = "output", aligned
      PROVE  to_host' = <<Packet("CLSE", commands)>> /\ sent = Len(output) /\ to_adbd = <<>>
  <2>1. stream = commands /\ sent = Len(output)
    BY <1>5, <1>7 DEF Waiting
  <2>2. to_host' = <<Packet("CLSE", stream)>>
    BY <1>1, <1>3, <1>5, <1>7, WireTypes, PacketSequences DEF Says
  <2> QED
    BY <1>5, <1>7, <2>1, <2>2
<1>8. OpeningInv'
  BY <1>2, <1>6 DEF IndInv, OpeningInv
<1>9. OutputInv'
  BY <1>1, <1>2, <1>7 DEF IndInv, OutputInv
<1> QED
  BY <1>2, <1>4, <1>5, <1>8, <1>9
  DEF IndInv, OutputOfItsCommand, ParkedInv, HandshakeInv, IdleInv

LEMMA LinkDownInd == IndInv /\ LinkDown => IndInv'
<1> SUFFICES ASSUME IndInv, LinkDown  PROVE IndInv'
  OBVIOUS
<1>1. link' = FALSE /\ to_adbd' = <<>> /\ to_host' \in {to_host, <<>>} /\ pc # "none"
  BY DEF IndInv, ParkedInv, LinkDown
<1>2. UNCHANGED <<pc, state, remote_id, mode, output, commands, key, aligned, stream, sent, ready>>
  BY DEF LinkDown, host, adbd
<1>3. to_host' \in Seq(Packets) /\ to_adbd' \in Seq(Requests)
  BY <1>1, EmptySeq DEF IndInv, TypeOK
<1>4. TypeOK'
  BY <1>1, <1>2, <1>3 DEF IndInv, TypeOK
<1>5. HandshakeInv' /\ IdleInv'
  BY <1>1, <1>2 DEF IndInv, HandshakeInv, IdleInv
<1>6. OpeningInv'
  BY <1>1, <1>2 DEF IndInv, OpeningInv
<1>7. OutputInv'
  BY <1>1, <1>2 DEF IndInv, OutputInv
<1> QED
  BY <1>1, <1>2, <1>4, <1>5, <1>6, <1>7 DEF IndInv, OutputOfItsCommand, ParkedInv

-----------------------------------------------------------------------------

LEMMA StepInd == IndInv /\ [Next]_vars => IndInv'
<1> SUFFICES ASSUME IndInv, [Next]_vars  PROVE IndInv'
  OBVIOUS
<1>1. CASE Connect \/ Execute \/ OpenNotSent \/ Finalize
  BY <1>1, ConnectInd, ExecuteInd, OpenNotSentInd, ForgetInd DEF Finalize
<1>2. CASE HostStep
  BY <1>2, ConnectedInd, AnswerTokenInd, ForgetInd, OpenedInd, NotOpenedInd, CollectInd,
     OutputEndsInd, OutputBrokenInd
  DEF HostStep, HandshakeFails
<1>3. CASE Adbd
  BY <1>3, AnswerInd, OpenChannelInd, RefuseChannelInd, TakeOkayInd, TakeCloseInd, WriteInd,
     CloseChannelInd, LinkDownInd
  DEF Adbd, AdbdReads
<1>4. CASE UNCHANGED vars
  <2>1. UNCHANGED <<pc, state, remote_id, mode, output, commands, key, to_host, to_adbd, aligned,
                    link, stream, sent, ready>>
    BY <1>4 DEF vars, host, streams, adbd
  <2>2. TypeOK' /\ OutputOfItsCommand'
    BY <2>1, ZenonT(40) DEF IndInv, TypeOK, OutputOfItsCommand
  <2>3. ParkedInv' /\ HandshakeInv' /\ IdleInv'
    BY <2>1 DEF IndInv, ParkedInv, HandshakeInv, IdleInv
  <2>4. OpeningInv' /\ OutputInv'
    BY <2>1 DEF IndInv, OpeningInv, OutputInv, Asked, Begun, Waiting
  <2> QED
    BY <2>2, <2>3, <2>4 DEF IndInv
<1> QED
  BY <1>1, <1>2, <1>3, <1>4 DEF Next

LEMMA Inductive == Spec => []IndInv
BY InitInd, StepInd, PTL DEF Spec

(* The session and the packets under way keep their types. *)
THEOREM TypeCorrect == Spec => []TypeOK
<1>1. IndInv => TypeOK
  BY DEF IndInv
<1> QED
  BY <1>1, Inductive, PTL

(* adb_read_shell_data collects the output of the command that runs, from  *)
(* its first packet on, although adb_open_shell_channel gives every        *)
(* channel the local id 1: for any number of commands and of packets.      *)
THEOREM OutputIsOwn == Spec => []OutputOfItsCommand
<1>1. IndInv => OutputOfItsCommand
  BY DEF IndInv
<1> QED
  BY <1>1, Inductive, PTL

(* execute() leaves a session it calls connected with nothing to read,     *)
(* unless a failed read lost the packet boundaries.                        *)
THEOREM ConnectedIsClean == Spec => []ConnectedMeansClean
<1>1. IndInv => ConnectedMeansClean
  BY DEF IndInv, IdleInv, ConnectedMeansClean
<1> QED
  BY <1>1, Inductive, PTL

(* The end of the output is the CLSE behind its last packet: the loops of  *)
(* execute() and execute_adb_shell_cmd do not stop before it while the     *)
(* connection is sound.                                                    *)
THEOREM OutputIsWhole == Spec => WholeOutput
<1>1. IndInv /\ [Next]_vars =>
        [pc = "output" /\ pc' = "idle" /\ link /\ aligned'
           => stream = 0 /\ Len(output') = sent]_vars
  <2> SUFFICES ASSUME IndInv, Next, pc = "output", pc' = "idle", link, aligned'
               PROVE  stream = 0 /\ Len(output') = sent
    OBVIOUS
  <2>1. OutputEnds \/ OutputBroken \/ Collect
    BY DEF Next, Connect, Execute, OpenNotSent, Finalize, HostStep, Connected, AnswerToken,
           HandshakeFails, Opened, NotOpened, Adbd, AdbdReads, Challenge, Welcome, OpenChannel,
           RefuseChannel, TakeOkay, TakeClose, Write, CloseChannel, LinkDown, Says, host
  <2>2. CASE OutputEnds
    <3>1. PICK p \in Packets : p.type = "CLSE" /\ Receives(p)
      BY <2>2 DEF OutputEnds
    <3>2. p # Data(commands, Len(output) + 1, FALSE)
      BY <3>1 DEF Data
    <3>3. Receives(p)
      BY <3>1
    <3>4. \/ link => stream = 0 /\ sent = Len(output) /\ to_adbd = <<>>
          \/ p = Data(commands, Len(output) + 1, FALSE)
      BY <3>3, NextOutput
    <3> QED
      BY <2>2, <3>2, <3>4 DEF OutputEnds, Finish
  <2>3. CASE OutputBroken
    BY <2>3 DEF OutputBroken, ReadFails, IndInv, TypeOK
  <2>4. CASE Collect
    <3>1. PICK p \in Packets :
            /\ p.type # "CLSE" /\ Receives(p)
            /\ IF p.type = "WRTE" THEN pc' = pc
               ELSE pc' = IF output = <<>> /\ mode = "auto" THEN "idle" ELSE pc
      BY <2>4 DEF Collect
    <3>2. p # Packet("CLSE", commands)
      BY <3>1 DEF Packet
    <3>3. p = Data(commands, Len(output) + 1, FALSE)
      BY <3>1, <3>2, NextOutput
    <3> QED
      BY <3>1, <3>3 DEF Data
  <2> QED
    BY <2>1, <2>2, <2>3, <2>4
<1> QED
  BY <1>1, Inductive, PTL DEF Spec, WholeOutput
=============================================================================
