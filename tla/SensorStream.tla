---------------------------- MODULE SensorStream ----------------------------
(***************************************************************************)
(* One stream of sensor events, word by word: the daemon's                 *)
(* broadcast_sensor_event (sdk/src/sensors_daemon.c), the socket between,  *)
(* and the session of sdk/src/sensors_client.c with its listener thread,   *)
(* as sdk/src/quickjs_sensors_binding.c drives it.  Who is registered with *)
(* the daemon is the subject of SensorsDaemon.                             *)
(* A frame is a header of 5 words of 4 bytes and an event of 7.  The       *)
(* daemon writes each without waiting, whole or, if the socket is full,    *)
(* not at all; a read takes what is there, up to its length, across the    *)
(* boundaries of what was written.  A thread blocked in read keeps the     *)
(* connection open although another closes the descriptor.                 *)
(* A session that is stopped from its own callback is left out, and so is  *)
(* what the session loses whose descriptor a stopped listener still reads. *)
(***************************************************************************)
EXTENDS Integers, Sequences

CONSTANTS
  Room,       \* words the socket holds
  MaxFrames   \* bound: events of the sensor

ASSUME RoomAssumption   == Room \in Nat
ASSUME FramesAssumption == MaxFrames \in Nat

VARIABLES
  stop,         \* where the session's owner is
  is_running,
  fd,           \* what the session's descriptor number stands for
  listener,     \* where sensor_listener_thread is
  hand,         \* what its last read of a payload returned
  up,           \* the daemon runs
  registered,   \* it streams to this session
  half,         \* it is between the header and the payload of a frame
  asked,        \* the STOP request is on its way
  stream,       \* words not read by the listener
  frame,        \* frames begun
  written,      \* history: frames written whole
  lost,         \* history: headers whose payload was dropped
  delivered,    \* history: frames given to the callback
  garbled,      \* history: other things given to it
  followed,     \* history: headers of another session taken for its own
  foreign       \* history: other reads of somebody else's descriptor

owner      == <<stop, is_running, fd>>
thread     == <<listener, hand, followed, foreign>>
daemon     == <<up, registered, half, frame, written, lost>>
callbacks  == <<delivered, garbled>>
streamvars == <<owner, thread, daemon, asked, stream, callbacks>>

Frames == 1 .. MaxFrames

\* the words of a header and of an event; frame 0 is the answer to STOP
Header(k) == [i \in 1 .. 5 |-> <<"header", i, k>>]
Event(k)  == [i \in 1 .. 7 |-> <<"event", i, k>>]
Words     == {"header", "event"} \X (1 .. 7) \X (0 .. MaxFrames)

StreamTypeOK ==
  /\ stop \in {"idle", "starting", "streaming", "flagged", "sent", "closed", "returned", "failed",
              "killed"}
  /\ is_running \in BOOLEAN
  /\ fd \in {"open", "closed", "reused"}
  /\ listener \in {"none", "test", "header", "inHeader", "payload", "inPayload",
                   "callback", "stuck", "ended"}
  /\ hand \in Seq(Words)
  /\ up \in BOOLEAN /\ registered \in BOOLEAN /\ half \in BOOLEAN /\ asked \in BOOLEAN
  /\ stream \in Seq(Words) /\ Len(stream) <= Room
  /\ frame \in 0 .. MaxFrames
  /\ written \in SUBSET Frames
  /\ lost \in 0 .. MaxFrames
  /\ delivered \in SUBSET Frames
  /\ garbled \in 0 .. MaxFrames + 1
  /\ followed \in Nat /\ foreign \in Nat

StreamInit ==
  /\ stop = "idle" /\ is_running = FALSE /\ fd = "closed"
  /\ listener = "none" /\ hand = <<>> /\ followed = 0 /\ foreign = 0
  /\ up = TRUE /\ registered = FALSE /\ half = FALSE /\ asked = FALSE
  /\ stream = <<>> /\ frame = 0 /\ written = {} /\ lost = 0
  /\ delivered = {} /\ garbled = 0

-----------------------------------------------------------------------------
(* the daemon *)

\* nobody holds the other end: a write ends the daemon (SIGPIPE)
Deserted == fd # "open" /\ listener \notin {"inHeader", "inPayload"}

Dies == up' = FALSE /\ UNCHANGED stream

Fits(words) == Len(stream) + Len(words) <= Room

\* mutant: the payload is written although its header was dropped
BroadcastGoesOn ==
  /\ up /\ registered /\ ~half /\ frame < MaxFrames
  /\ frame' = frame + 1
  /\ half' = TRUE
  /\ stream' = IF Fits(Header(frame')) THEN stream \o Header(frame') ELSE stream
  /\ UNCHANGED <<owner, thread, up, registered, written, lost, asked, callbacks>>

BroadcastHeader ==
  /\ up /\ registered /\ ~half /\ frame < MaxFrames
  /\ frame' = frame + 1
  /\ \/ Deserted /\ Dies /\ UNCHANGED half
     \/ /\ ~Deserted /\ Fits(Header(frame'))
        /\ stream' = stream \o Header(frame')
        /\ half' = TRUE
        /\ UNCHANGED up
     \/ /\ ~Deserted /\ ~Fits(Header(frame'))
        /\ UNCHANGED <<up, stream, half>>
  /\ UNCHANGED <<owner, thread, registered, written, lost, asked, callbacks>>

BroadcastPayload ==
  /\ up /\ half
  /\ half' = FALSE
  /\ \/ Deserted /\ Dies /\ UNCHANGED <<written, lost>>
     \/ /\ ~Deserted /\ Fits(Event(frame))
        /\ stream' = stream \o Event(frame)
        /\ written' = written \cup {frame}
        /\ UNCHANGED <<up, lost>>
     \/ /\ ~Deserted /\ ~Fits(Event(frame))
        /\ lost' = lost + 1
        /\ UNCHANGED <<up, stream, written>>
  /\ UNCHANGED <<owner, thread, registered, frame, asked, callbacks>>

\* mutant: the request is carried out and not answered
HandleStopSilently ==
  /\ up /\ ~half /\ asked
  /\ asked' = FALSE
  /\ registered' = FALSE
  /\ UNCHANGED <<owner, thread, up, stream, half, frame, written, lost, callbacks>>

HandleStop ==
  /\ up /\ ~half /\ asked
  /\ asked' = FALSE
  /\ registered' = FALSE
  /\ \/ Deserted /\ Dies
     \/ /\ ~Deserted
        /\ stream' = IF Fits(Header(0)) THEN stream \o Header(0) ELSE stream
        /\ UNCHANGED up
  /\ UNCHANGED <<owner, thread, half, frame, written, lost, callbacks>>

\* the daemon is killed from outside
Crash ==
  /\ up
  /\ up' = FALSE
  /\ UNCHANGED <<owner, thread, registered, half, frame, written, lost, asked, stream, callbacks>>

-----------------------------------------------------------------------------
(* the session's owner *)

\* start_sensor_stream up to the acknowledgement, or its failure
StartSession ==
  /\ stop = "idle" /\ up
  /\ stop' = "starting"
  /\ fd' = "open"
  /\ is_running' = TRUE
  /\ registered' = TRUE
  /\ UNCHANGED <<thread, up, half, frame, written, lost, asked, stream, callbacks>>

StartListener ==
  /\ stop = "starting"
  /\ stop' = "streaming"
  /\ listener' = "test"
  /\ UNCHANGED <<is_running, fd, hand, followed, foreign, daemon, asked, stream, callbacks>>

\* pthread_create fails; the daemon goes on streaming
StartFails ==
  /\ stop = "starting"
  /\ stop' = "failed"
  /\ fd' = "closed"
  /\ UNCHANGED <<is_running, thread, daemon, asked, stream, callbacks>>

\* stop_sensor_stream, step by step
StopBegins ==
  /\ stop = "streaming"
  /\ stop' = "flagged"
  /\ is_running' = FALSE
  /\ UNCHANGED <<fd, thread, daemon, asked, stream, callbacks>>

\* a request to a daemon that is gone kills the process (SIGPIPE)
SendStop ==
  /\ stop = "flagged"
  /\ stop' = IF up THEN "sent" ELSE "killed"
  /\ asked' = up
  /\ UNCHANGED <<is_running, fd, thread, daemon, stream, callbacks>>

CloseSession ==
  /\ stop = "sent"
  /\ stop' = "closed"
  /\ fd' = "closed"
  /\ UNCHANGED <<is_running, thread, daemon, asked, stream, callbacks>>

Join ==
  /\ stop = "closed" /\ listener = "ended"
  /\ stop' = "returned"
  /\ UNCHANGED <<is_running, fd, thread, daemon, asked, stream, callbacks>>

\* another thread of the process opens something, which gets the number, or
\* closes it again
Reuse ==
  /\ stop = "closed"
  /\ fd' = IF fd = "closed" THEN "reused" ELSE "closed"
  /\ UNCHANGED <<stop, is_running, thread, daemon, asked, stream, callbacks>>

-----------------------------------------------------------------------------
(* sensor_listener_thread *)

Least(a, b) == IF a <= b THEN a ELSE b

\* what a read of n words takes from the stream, and what is left
Taken(n) == SubSeq(stream, 1, Least(n, Len(stream)))
Left(n)  == SubSeq(stream, Least(n, Len(stream)) + 1, Len(stream))

\* mutant: a loop that runs until the connection ends
TestForEver ==
  /\ listener = "test"
  /\ listener' = "header"
  /\ UNCHANGED <<owner, hand, followed, foreign, daemon, asked, stream, callbacks>>

Test ==
  /\ listener = "test"
  /\ listener' = IF is_running THEN "header" ELSE "ended"
  /\ UNCHANGED <<owner, hand, followed, foreign, daemon, asked, stream, callbacks>>

Enters(inside) ==
  /\ fd = "open"
  /\ listener' = inside
  /\ UNCHANGED <<hand, followed, foreign>>

\* the read of a header begins: on the connection, on a descriptor closed in
\* the meantime, or on what has taken its number, which may block for ever, end
\* the loop, return something that is no header or, if it is another session,
\* the header of a frame
EnterHeader ==
  /\ listener = "header"
  /\ \/ Enters("inHeader")
     \/ fd = "closed" /\ listener' = "ended" /\ UNCHANGED <<hand, followed, foreign>>
     \/ /\ fd = "reused"
        /\ listener' \in {"stuck", "ended", "test"}
        /\ foreign' = foreign + 1
        /\ UNCHANGED <<hand, followed>>
     \/ /\ fd = "reused"
        /\ listener' = "payload"
        /\ followed' = followed + 1
        /\ UNCHANGED <<hand, foreign>>
  /\ UNCHANGED <<owner, daemon, asked, stream, callbacks>>

\* mutant: the result of the read is not looked at
EnterPayloadBlindly ==
  /\ listener = "payload"
  /\ \/ Enters("inPayload")
     \/ fd # "open" /\ listener' = "callback" /\ hand' = <<>> /\ UNCHANGED <<followed, foreign>>
  /\ UNCHANGED <<owner, daemon, asked, stream, callbacks>>

\* an event of another session is none of its own: hand is empty
EnterPayload ==
  /\ listener = "payload"
  /\ \/ Enters("inPayload")
     \/ fd = "closed" /\ listener' = "test" /\ UNCHANGED <<hand, followed, foreign>>
     \/ /\ fd = "reused"
        /\ listener' \in {"stuck", "test", "callback"}
        /\ foreign' = foreign + 1
        /\ hand' = <<>>
        /\ UNCHANGED followed
  /\ UNCHANGED <<owner, daemon, asked, stream, callbacks>>

\* mutant: the signature is not looked at
IsLong(words) == Len(words) = 5

IsHeader(words) == \E k \in Frames : words = Header(k)

\* Whatever does not begin with the signature is passed over.  A header is
\* written whole, so one that begins with it is whole.
ReadHeader ==
  /\ listener = "inHeader"
  /\ \/ /\ stream # <<>>
        /\ listener' = IF IsHeader(Taken(5)) THEN "payload" ELSE "test"
        /\ stream' = Left(5)
     \/ /\ stream = <<>> /\ ~up
        /\ listener' = "ended"
        /\ UNCHANGED stream
  /\ UNCHANGED <<owner, hand, followed, foreign, daemon, asked, callbacks>>

\* one read of an event's length
ReadPayload ==
  /\ listener = "inPayload"
  /\ \/ /\ stream # <<>>
        /\ listener' = IF Len(stream) >= 7 THEN "callback" ELSE "test"
        /\ hand' = Taken(7)
        /\ stream' = Left(7)
     \/ /\ stream = <<>> /\ ~up
        /\ listener' = "test"
        /\ UNCHANGED <<hand, stream>>
  /\ UNCHANGED <<owner, followed, foreign, daemon, asked, callbacks>>

Callback ==
  /\ listener = "callback"
  /\ listener' = "test"
  /\ hand' = <<>>
  /\ LET whole == {k \in Frames : hand = Event(k)} IN
     /\ delivered' = delivered \cup whole
     /\ garbled' = IF whole = {} THEN garbled + 1 ELSE garbled
  /\ UNCHANGED <<owner, followed, foreign, daemon, asked, stream>>

-----------------------------------------------------------------------------
BroadcastFrame == BroadcastHeader \/ BroadcastPayload

ListenerStep ==
  Test \/ EnterHeader \/ EnterPayload \/ ReadHeader \/ ReadPayload \/ Callback

\* what follows of its own once a session is started or its stop has begun
OwnerStep == StartListener \/ StartFails \/ SendStop \/ CloseSession \/ Join

StreamNext ==
  \/ BroadcastFrame \/ HandleStop \/ Crash
  \/ StartSession \/ StopBegins \/ OwnerStep \/ Reuse
  \/ ListenerStep

StreamSpec == StreamInit /\ [][StreamNext]_streamvars

StreamFairSpec ==
  /\ StreamSpec
  /\ WF_streamvars(HandleStop) /\ WF_streamvars(BroadcastPayload)
  /\ WF_streamvars(OwnerStep) /\ WF_streamvars(ListenerStep)

-----------------------------------------------------------------------------
(* properties *)

\* The reader falls out of step when a payload is dropped behind its header,
\* and passes over what is no header until it is in step again: each loss makes
\* at most one garbled event.  What is read from a descriptor that has become
\* another's makes at most one more, an event of another session included.
GarbledNeedsLoss == garbled <= lost + foreign

\* As long as no payload was dropped, every frame written is delivered, in
\* order: those that are not yet stand, whole, at the end of the stream.
Waiting == {k \in Frames : hand = Event(k)
              \/ \E i \in 1 .. Len(stream) : stream[i] = <<"event", 7, k>>}

WholeWithoutLoss ==
  lost + foreign = 0 /\ fd = "open" =>
    /\ written = delivered \cup Waiting
    /\ \A k \in delivered, w \in Waiting : k < w

\* All told: the callback is given the events that were written, each at most
\* once, in order and without a gap until something is dropped, and something
\* else only for what was dropped or, once, for what was read from a descriptor
\* that had become another's.
Feed == INSTANCE SensorFeed
          WITH begun <- frame, sent <- written, dropped <- lost, strays <- foreign,
               received <- delivered, spoilt <- garbled

FeedSafe == Feed!Spec

\* Stopping clears the flag before it closes the descriptor: from whatever takes
\* the number the listener reads one header or one event at the most or, if that
\* is another session, a header and what follows it.
ForeignFrameOnce == followed <= 1 /\ foreign <= 1

\* A stop that has begun returns, although closing the descriptor does not wake
\* a listener that is blocked in read: the answer to STOP does.
StopReturns ==
  stop = "flagged" ~> stop \in {"returned", "killed"} \/ listener = "stuck"
=============================================================================
