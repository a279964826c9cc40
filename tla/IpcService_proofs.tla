-------------------------- MODULE IpcService_proofs --------------------------
(***************************************************************************)
(* Proofs about IpcService for any number of clients and any calls.        *)
(***************************************************************************)
EXTENDS IpcService, SequenceTheorems, TLAPS

USE ClientAssumption

Answers == Statuses \cup {"data"}

(* the status the daemon owes a client *)
Right(c) == IF call[c].command = "scan" THEN "ok" ELSE "unsupported"

Plain(c) == c \notin vanished /\ ~HasPayload(c) /\ call[c].buffer

(* Where a client stands, what it has sent and whether it was read.        *)
StageInv(c) ==
  /\ pc[c] = "idle" => /\ conn[c] = "none" /\ down[c] = <<>> /\ up[c] = Nothing
                       /\ done[c] = 0 /\ result[c] = "none"
  /\ c \in open <=> pc[c] \notin {"idle", "over"}
  /\ result[c] # "none" <=> pc[c] = "over"
  /\ pc[c] = "header" => up[c] = Nothing /\ done[c] = 0
  /\ pc[c] = "payload" => up[c].bytes = "none" /\ HasPayload(c)
  /\ pc[c] = "rest" => call[c].payload = "long"
  /\ up[c].bytes # "none" => HasPayload(c) /\ (up[c].header \/ done[c] = 1)
  /\ up[c].bytes = "long" => call[c].payload = "long"
  /\ pc[c] \in {"payload", "rest", "answer", "data"} => up[c].header \/ done[c] = 1
  /\ pc[c] = "data" => call[c].command = "scan" /\ done[c] = 1
  /\ call[c].command = "unserved" =>
       pc[c] \in {"idle", "over"} /\ conn[c] = "none" /\ done[c] = 0

(* The first answer on a connection is the one to the client's request,    *)
(* and it is there, or being written, once the request has been read.      *)
FirstAnswer(c) ==
  \/ serving = c /\ step \in {"payload", "reply"} /\ reply = Right(c) /\ down[c] = <<>>
  \/ down[c] # <<>> /\ Head(down[c]) = Right(c)

StreamInv(c) ==
  /\ done[c] = 0 => down[c] = <<>> /\ serving # c
  /\ done[c] = 1 => ~up[c].header
  /\ c \in events => serving # c /\ (c \in open => up[c] # Nothing)
  /\ done[c] = 1 /\ pc[c] \in {"payload", "rest", "answer"} => FirstAnswer(c)
  /\ alive /\ conn[c] = "closed" /\ c \in open =>
       pc[c] \in {"rest", "answer", "data"} /\ (pc[c] = "answer" => down[c] # <<>>)

(* The daemon finds a client that sends no payload and wants its data at   *)
(* the other end whenever it writes to it.                                 *)
PlainInv(c) ==
  alive /\ Plain(c) =>
    /\ done[c] = 0 /\ call[c].command # "unserved" => pc[c] \in {"idle", "header", "answer"}
    /\ conn[c] = "closed" => c \notin open
    /\ serving = c =>
         \/ step \in {"payload", "reply"} /\ pc[c] = "answer" /\ down[c] = <<>>
         \/ step = "data" /\ pc[c] = "answer" /\ down[c] = <<"ok">>
         \/ step = "data" /\ pc[c] = "data" /\ down[c] = <<>>

Outcome(c) ==
  /\ result[c] = "ok" => call[c].command = "scan" /\ done[c] = 1
  /\ result[c] = "unsupported" => IF call[c].command = "unserved"
                                    THEN done[c] = 0
                                    ELSE call[c].command = "other" /\ done[c] = 1
  /\ result[c] # "error"
  /\ result[c] = "failed" => ~alive \/ call[c].payload = "long"
  /\ result[c] = "killed" => ~alive \/ c \in vanished

ClientInv(c) == StageInv(c) /\ StreamInv(c) /\ PlainInv(c) /\ Outcome(c)

LoopInv ==
  /\ serving = NoClient <=> step = "wait"
  /\ serving \in Clients => alive /\ conn[serving] = "open"
  /\ step = "data" => reply = "ok"
  /\ \A c \in ready \cup events : conn[c] = "open"

IndInv == TypeOK /\ LoopInv /\ DaemonSurvives /\ \A c \in Clients : ClientInv(c)

-----------------------------------------------------------------------------
LEMMA AppendFacts ==
  ASSUME NEW S, NEW s \in Seq(S), NEW x \in S
  PROVE  /\ Append(s, x) \in Seq(S) /\ Append(s, x) # <<>>
         /\ s = <<>> => Append(s, x) = <<x>> /\ Head(Append(s, x)) = x
         /\ s # <<>> => Head(Append(s, x)) = Head(s)
<1>1. /\ Append(s, x) \in Seq(S) /\ Len(Append(s, x)) = Len(s) + 1
      /\ \A i \in 1 .. Len(s) : Append(s, x)[i] = s[i]
      /\ Append(s, x)[Len(s) + 1] = x /\ Append(s, x) # <<>>
  BY AppendProperties
<1>2. Head(Append(s, x)) = Append(s, x)[1]
  BY <1>1
<1>3. ASSUME s = <<>>  PROVE Append(s, x) = <<x>> /\ Head(Append(s, x)) = x
  BY <1>3
<1>4. ASSUME s # <<>>  PROVE Head(Append(s, x)) = Head(s)
  <2>1. 1 \in 1 .. Len(s) /\ Head(s) = s[1]
    BY <1>4, EmptySeq, LenProperties
  <2> QED
    BY <1>1, <1>2, <2>1
<1> QED
  BY <1>1, <1>3, <1>4

LEMMA TailFacts ==
  ASSUME NEW S, NEW s \in Seq(S), s # <<>>
  PROVE  /\ Head(s) \in S /\ Tail(s) \in Seq(S)
         /\ \A x : s = <<x>> => Head(s) = x /\ Tail(s) = <<>>
<1>1. Head(s) \in S /\ Tail(s) \in Seq(S) /\ Len(Tail(s)) = Len(s) - 1 /\ Head(s) = s[1]
  BY HeadTailProperties
<1>2. ASSUME NEW x, s = <<x>>  PROVE Head(s) = x /\ Tail(s) = <<>>
  <2>1. Len(s) = 1 /\ s[1] = x
    BY <1>2
  <2>2. Len(Tail(s)) = 0
    BY <1>1, <2>1
  <2> QED
    BY <1>1, <2>1, <2>2, EmptySeq
<1> QED
  BY <1>1, <1>2

(* A client whose part of the state is left alone. *)
LEMMA Elsewhere ==
  ASSUME NEW c, ClientInv(c),
         pc'[c] = pc[c], call'[c] = call[c], result'[c] = result[c],
         conn'[c] = conn[c], up'[c] = up[c], down'[c] = down[c], done'[c] = done[c],
         c \in open' <=> c \in open, c \in vanished' <=> c \in vanished,
         c \in events' => c \in events, alive' = alive,
         serving' = c <=> serving = c,
         serving = c => step' = step /\ reply' = reply
  PROVE  ClientInv(c)'
<1>1. StageInv(c)'
  BY DEF ClientInv, StageInv, HasPayload
<1>2. StreamInv(c)'
  BY DEF ClientInv, StreamInv, FirstAnswer, Right
<1>3. PlainInv(c)'
  BY DEF ClientInv, PlainInv, Plain, HasPayload
<1>4. Outcome(c)'
  BY DEF ClientInv, Outcome
<1> QED
  BY <1>1, <1>2, <1>3, <1>4 DEF ClientInv

LEMMA InitInd == Init => IndInv
<1> SUFFICES ASSUME Init  PROVE IndInv
  OBVIOUS
<1>1. TypeOK
  <2>1. down \in [Clients -> Seq(Statuses \cup {"data"})]
    <3>1. <<>> \in Seq(Statuses \cup {"data"})
      OBVIOUS
    <3> QED
      BY <3>1 DEF Init
  <2>2. up \in [Clients -> [header : BOOLEAN, bytes : Runs]]
    BY DEF Init, Nothing, Runs
  <2>3. /\ pc \in [Clients -> {"idle", "header", "payload", "rest", "answer", "data", "over"}]
        /\ result \in [Clients -> Statuses \cup {"none", "failed", "killed"}]
        /\ conn \in [Clients -> {"none", "pending", "open", "closed"}]
        /\ done \in [Clients -> 0 .. 1]
    BY DEF Init
  <2> QED
    BY <2>1, <2>2, <2>3 DEF Init, TypeOK, Statuses
<1>2. LoopInv /\ DaemonSurvives
  BY DEF Init, LoopInv, DaemonSurvives
<1>3. ASSUME NEW c \in Clients  PROVE ClientInv(c)
  BY DEF Init, ClientInv, StageInv, StreamInv, PlainInv, Outcome, Nothing
<1> QED
  BY <1>1, <1>2, <1>3 DEF IndInv

-----------------------------------------------------------------------------
(* the clients *)

(* What every step of a client leaves alone. *)
LEMMA ClientStepInd ==
  ASSUME IndInv, NEW c \in Clients, ClientInv(c)', TypeOK',
         UNCHANGED <<alive, call, events, daemon>>,
         ready' \subseteq ready \cup {c},
         c \in ready' \cup events' => conn'[c] = "open",
         conn[c] = "open" => conn'[c] = "open",
         vanished' \subseteq vanished \cup {c}, vanished \subseteq vanished',
         \A d \in Clients \ {c} :
           /\ pc'[d] = pc[d] /\ result'[d] = result[d] /\ conn'[d] = conn[d]
           /\ up'[d] = up[d] /\ down'[d] = down[d] /\ (d \in open' <=> d \in open)
  PROVE  IndInv'
<1>1. LoopInv'
  BY DEF IndInv, LoopInv, daemon, TypeOK
<1>2. DaemonSurvives'
  BY DEF IndInv, DaemonSurvives, HasPayload
<1>3. ASSUME NEW d \in Clients \ {c}  PROVE ClientInv(d)'
  BY <1>3, Elsewhere DEF IndInv, daemon
<1> QED
  BY <1>1, <1>2, <1>3 DEF IndInv

LEMMA UnservedInd ==
  ASSUME IndInv, NEW c \in Clients, Unserved(c)
  PROVE  IndInv'
<1>1. /\ ClientInv(c) /\ TypeOK /\ pc[c] = "idle" /\ call[c].command = "unserved"
      /\ UNCHANGED <<alive, call, open, vanished, conn, up, down, ready, events, daemon>>
  BY DEF Unserved, IndInv, epoll
<1>2. /\ pc'[c] = "over" /\ result'[c] = "unsupported"
      /\ \A d \in Clients \ {c} : pc'[d] = pc[d] /\ result'[d] = result[d]
  BY <1>1 DEF Unserved, TypeOK
<1>3. TypeOK'
  BY <1>1 DEF Unserved, TypeOK, Statuses, daemon
<1>4. /\ conn[c] = "none" /\ c \notin ready /\ c \notin events /\ serving # c /\ down[c] = <<>>
      /\ done[c] = 0 /\ c \notin open
  BY <1>1 DEF IndInv, LoopInv, ClientInv, StageInv
<1>5. StageInv(c)'
  BY <1>1, <1>2 DEF ClientInv, StageInv, HasPayload, daemon, Nothing
<1>6. StreamInv(c)' /\ PlainInv(c)' /\ Outcome(c)'
  BY <1>1, <1>2, <1>4 DEF ClientInv, StreamInv, PlainInv, Outcome, daemon
<1>7. ClientInv(c)'
  BY <1>5, <1>6 DEF ClientInv
<1> QED
  BY <1>1, <1>2, <1>3, <1>4, <1>7, ClientStepInd

LEMMA ConnectInd ==
  ASSUME IndInv, NEW c \in Clients, connect_to_daemon(c)
  PROVE  IndInv'
<1> USE DEF IndInv
<1>0. ClientInv(c) /\ TypeOK
  OBVIOUS
<1>1. UNCHANGED <<alive, call, up, down, ready, events, daemon, vanished>>
  BY DEF connect_to_daemon, epoll
<1>2. /\ \A d \in Clients \ {c} : /\ pc'[d] = pc[d] /\ result'[d] = result[d] /\ conn'[d] = conn[d]
                                  /\ d \in open' <=> d \in open
      /\ \/ /\ pc'[c] = "header" /\ conn'[c] = "pending" /\ c \in open' /\ result'[c] = result[c]
         \/ /\ ~alive /\ pc'[c] = "over" /\ result'[c] = "failed" /\ conn'[c] = conn[c]
            /\ c \notin open'
      /\ pc[c] = "idle" /\ call[c].command # "unserved"
  BY DEF connect_to_daemon, TypeOK, ClientInv, StageInv
<1>3. TypeOK'
  BY <1>1 DEF connect_to_daemon, TypeOK, daemon
<1>4. StageInv(c)'
  BY <1>1, <1>2 DEF ClientInv, StageInv, HasPayload, daemon, Nothing
<1>5. conn[c] = "none" /\ c \notin events /\ c \notin ready /\ serving # c /\ down[c] = <<>> /\ done[c] = 0
  BY <1>2 DEF ClientInv, StageInv, LoopInv
<1>6. StreamInv(c)' /\ PlainInv(c)' /\ Outcome(c)'
  BY <1>1, <1>2, <1>5 DEF ClientInv, StageInv, StreamInv, PlainInv, Outcome, daemon, Plain, HasPayload, Nothing
<1>7. ClientInv(c)'
  BY <1>4, <1>6 DEF ClientInv
<1> HIDE DEF IndInv
<1> QED
  BY <1>1, <1>2, <1>3, <1>5, <1>7, ClientStepInd

LEMMA FinishFacts ==
  ASSUME IndInv, NEW c \in Clients, NEW r, Finish(c, r)
  PROVE  /\ pc'[c] = "over" /\ result'[c] = r /\ c \notin open'
         /\ ready' \subseteq ready \cup {c}
         /\ c \in ready' => conn[c] = "open"
         /\ \A d \in Clients \ {c} : pc'[d] = pc[d] /\ result'[d] = result[d] /\ (d \in open' <=> d \in open)
BY DEF Finish, Hangup, IndInv, TypeOK, LoopInv

LEMMA FinishType ==
  ASSUME IndInv, NEW c \in Clients, NEW r \in Statuses \cup {"failed", "killed"}, Finish(c, r)
  PROVE  /\ pc' \in [Clients -> {"idle", "header", "payload", "rest", "answer", "data", "over"}]
         /\ result' \in [Clients -> Statuses \cup {"none", "failed", "killed"}]
         /\ open' \in SUBSET Clients /\ ready' \in SUBSET Clients
BY DEF Finish, Hangup, IndInv, TypeOK

(* A write to a connection the daemon has closed while it was alive is the *)
(* second piece of a long payload.                                         *)
LEMMA WriteFails ==
  ASSUME IndInv, NEW c \in Clients, conn[c] = "closed", NEW r \in {"killed", "failed"},
         pc[c] \in (IF r = "killed" THEN {"header", "payload"} ELSE {"rest"}),
         Finish(c, r), UNCHANGED <<alive, call, conn, up, down, events, daemon, vanished>>
  PROVE  IndInv'
<1>1. TypeOK'
  BY FinishType DEF IndInv, TypeOK, daemon
<1>2. /\ pc'[c] = "over" /\ result'[c] = r /\ c \notin open'
      /\ ready' \subseteq ready \cup {c} /\ (c \in ready' => conn[c] = "open")
      /\ \A d \in Clients \ {c} : pc'[d] = pc[d] /\ result'[d] = result[d] /\ (d \in open' <=> d \in open)
  BY FinishFacts
<1>3. ClientInv(c)
  BY DEF IndInv
<1>4. StageInv(c)' /\ Outcome(c)'
  BY <1>2, <1>3 DEF ClientInv, StageInv, StreamInv, Outcome, HasPayload, daemon
<1>5. StreamInv(c)'
  BY <1>2, <1>3 DEF ClientInv, StreamInv, daemon
<1>6. PlainInv(c)'
  BY <1>2, <1>3 DEF ClientInv, StageInv, StreamInv, PlainInv, Plain, HasPayload, daemon
<1>7. c \in events => conn[c] = "open"
  BY DEF IndInv, LoopInv
<1> QED
  BY <1>1, <1>2, <1>4, <1>5, <1>6, <1>7, ClientStepInd DEF ClientInv

(* A write that the daemon will see. *)
LEMMA WriteGoes ==
  ASSUME IndInv, NEW c \in Clients, NEW s \in [header : BOOLEAN, bytes : Runs],
         NEW next \in {"payload", "rest", "answer"},
         pc[c] \in {"header", "payload", "rest"}, conn[c] # "closed",
         up' = [up EXCEPT ![c] = s], pc' = [pc EXCEPT ![c] = next],
         ready' = IF conn[c] = "open" THEN ready \cup {c} ELSE ready,
         UNCHANGED <<alive, call, conn, down, events, daemon, vanished, result, open>>,
         s # Nothing, pc[c] # "header" => s.header = up[c].header,
         pc[c] = "header" => s.header,
         s.bytes # "none" => HasPayload(c), s.bytes = "long" => call[c].payload = "long",
         next = "payload" => s.bytes = "none" /\ HasPayload(c),
         next = "rest" => call[c].payload = "long"
  PROVE  IndInv'
<1>1. TypeOK'
  BY DEF IndInv, TypeOK, daemon
<1>2. pc'[c] = next /\ up'[c] = s /\ \A d \in Clients \ {c} : pc'[d] = pc[d] /\ up'[d] = up[d]
  BY DEF IndInv, TypeOK
<1>3. ClientInv(c)
  BY DEF IndInv
<1>4. StageInv(c)'
  BY <1>2, <1>3 DEF ClientInv, StageInv, HasPayload, daemon
<1>5. StreamInv(c)'
  BY <1>2, <1>3 DEF ClientInv, StageInv, StreamInv, FirstAnswer, Right, daemon
<1>6. PlainInv(c)' /\ Outcome(c)'
  BY <1>2, <1>3 DEF ClientInv, StageInv, PlainInv, Plain, HasPayload, Outcome, daemon
<1>7. c \in ready' \cup events' => conn'[c] = "open"
  BY DEF IndInv, LoopInv
<1> QED
  BY <1>1, <1>2, <1>4, <1>5, <1>6, <1>7, ClientStepInd DEF ClientInv

LEMMA SendInd ==
  ASSUME IndInv, NEW c \in Clients, SendHeader(c) \/ SendPayload(c) \/ SendRest(c)
  PROVE  IndInv'
<1>1. /\ up[c] \in [header : BOOLEAN, bytes : Runs] /\ call[c] \in Calls /\ StageInv(c)
  BY DEF IndInv, TypeOK, ClientInv
<1>2. CASE SendHeader(c)
  <2>1. PICK next \in {"payload", "answer"} :
          /\ Write(c, [up[c] EXCEPT !.header = TRUE], next, "killed")
          /\ next = "payload" => HasPayload(c)
    BY <1>2 DEF SendHeader
  <2>2. /\ pc[c] = "header" /\ up[c] = Nothing /\ UNCHANGED <<alive, call, conn, down, events, daemon, vanished>>
    BY <1>1, <1>2 DEF SendHeader, StageInv
  <2>3. CASE conn[c] = "closed"
    BY <2>1, <2>2, <2>3, WriteFails DEF Write
  <2>4. CASE conn[c] # "closed"
    <3> DEFINE s == [up[c] EXCEPT !.header = TRUE]
    <3>1. s \in [header : BOOLEAN, bytes : Runs] /\ s.header /\ s.bytes = "none" /\ s # Nothing
      <4>1. s \in [header : BOOLEAN, bytes : Runs] /\ s.header = TRUE /\ s.bytes = up[c].bytes
        BY <1>1
      <4>2. up[c].bytes = "none"
        BY <2>2 DEF Nothing
      <4> HIDE DEF s
      <4> QED
        BY <4>1, <4>2 DEF Nothing
    <3>2. /\ up' = [up EXCEPT ![c] = s] /\ pc' = [pc EXCEPT ![c] = next]
          /\ ready' = (IF conn[c] = "open" THEN ready \cup {c} ELSE ready)
          /\ UNCHANGED <<result, open>>
      BY <2>1, <2>4 DEF Write
    <3> HIDE DEF s
    <3> QED
      BY <2>1, <2>2, <2>4, <3>1, <3>2, WriteGoes
  <2> QED
    BY <2>3, <2>4
<1>3. CASE SendPayload(c)
  <2>1. PICK next \in {"rest", "answer"} :
          /\ Write(c, [up[c] EXCEPT !.bytes = call[c].payload], next, "killed")
          /\ next = "rest" => call[c].payload = "long"
    BY <1>3 DEF SendPayload
  <2>2. /\ pc[c] = "payload" /\ up[c].bytes = "none" /\ HasPayload(c)
        /\ UNCHANGED <<alive, call, conn, down, events, daemon, vanished>>
    BY <1>1, <1>3 DEF SendPayload, StageInv
  <2>3. CASE conn[c] = "closed"
    BY <2>1, <2>2, <2>3, WriteFails DEF Write
  <2>4. CASE conn[c] # "closed"
    <3> DEFINE s == [up[c] EXCEPT !.bytes = call[c].payload]
    <3>1. /\ s \in [header : BOOLEAN, bytes : Runs] /\ s.header = up[c].header
          /\ s.bytes = call[c].payload /\ s # Nothing
      BY <1>1, <2>2 DEF HasPayload, Runs, Nothing
    <3>2. /\ up' = [up EXCEPT ![c] = s] /\ pc' = [pc EXCEPT ![c] = next]
          /\ ready' = (IF conn[c] = "open" THEN ready \cup {c} ELSE ready)
          /\ UNCHANGED <<result, open>>
      BY <2>1, <2>4 DEF Write
    <3> HIDE DEF s
    <3> QED
      BY <2>1, <2>2, <2>4, <3>1, <3>2, WriteGoes
  <2> QED
    BY <2>3, <2>4
<1>4. CASE SendRest(c)
  <2>1. PICK r \in {"short", "long"} : Write(c, [up[c] EXCEPT !.bytes = r], "answer", "failed")
    BY <1>4 DEF SendRest, Joined
  <2>2. /\ pc[c] = "rest" /\ call[c].payload = "long" /\ HasPayload(c)
        /\ UNCHANGED <<alive, call, conn, down, events, daemon, vanished>>
    BY <1>1, <1>4 DEF SendRest, StageInv, HasPayload
  <2>3. CASE conn[c] = "closed"
    BY <2>1, <2>2, <2>3, WriteFails DEF Write
  <2>4. CASE conn[c] # "closed"
    <3> DEFINE s == [up[c] EXCEPT !.bytes = r]
    <3>1. /\ s \in [header : BOOLEAN, bytes : Runs] /\ s.header = up[c].header
          /\ s.bytes = r /\ s # Nothing
      BY <1>1 DEF Runs, Nothing
    <3>2. /\ up' = [up EXCEPT ![c] = s] /\ pc' = [pc EXCEPT ![c] = "answer"]
          /\ ready' = (IF conn[c] = "open" THEN ready \cup {c} ELSE ready)
          /\ UNCHANGED <<result, open>>
      BY <2>1, <2>4 DEF Write
    <3> HIDE DEF s
    <3> QED
      BY <2>2, <2>4, <3>1, <3>2, WriteGoes
  <2> QED
    BY <2>3, <2>4
<1> QED
  BY <1>2, <1>3, <1>4

(* Steps in which a call ends: with an answer, without, or from outside.   *)
LEMMA EndInd ==
  ASSUME IndInv, NEW c \in Clients, NEW r \in Statuses \cup {"failed", "killed"},
         Finish(c, r), c \in open, TypeOK',
         UNCHANGED <<alive, call, conn, up, events, daemon>>,
         \A d \in Clients \ {c} : down'[d] = down[d],
         done[c] = 0 => down'[c] = <<>>,
         vanished' \subseteq vanished \cup {c}, vanished \subseteq vanished',
         Outcome(c)', PlainInv(c)'
  PROVE  IndInv'
<1>1. /\ pc'[c] = "over" /\ result'[c] = r /\ c \notin open'
      /\ ready' \subseteq ready \cup {c} /\ (c \in ready' => conn[c] = "open")
      /\ \A d \in Clients \ {c} : pc'[d] = pc[d] /\ result'[d] = result[d] /\ (d \in open' <=> d \in open)
  BY FinishFacts
<1>2. ClientInv(c)
  BY DEF IndInv
<1>3. StageInv(c)' /\ StreamInv(c)'
  BY <1>1, <1>2 DEF ClientInv, StageInv, StreamInv, HasPayload, daemon, Statuses
<1>4. c \in events => conn[c] = "open"
  BY DEF IndInv, LoopInv
<1> QED
  BY <1>1, <1>3, <1>4, ClientStepInd DEF ClientInv

LEMMA ReadAnswerInd ==
  ASSUME IndInv, NEW c \in Clients, ReadAnswer(c)
  PROVE  IndInv'
<1>1. /\ pc[c] = "answer" /\ c \in open /\ ClientInv(c) /\ TypeOK
      /\ UNCHANGED <<alive, call, conn, up, events, daemon, vanished>>
      /\ down[c] \in Seq(Answers)
  BY DEF ReadAnswer, IndInv, ClientInv, StageInv, TypeOK, Answers
<1>2. CASE down[c] # <<>> /\ down' = [down EXCEPT ![c] = Tail(@)]
  <2>1. /\ Tail(down[c]) \in Seq(Answers)
        /\ \A x : down[c] = <<x>> => Head(down[c]) = x /\ Tail(down[c]) = <<>>
    BY <1>1, <1>2, TailFacts
  <2>2. down'[c] = Tail(down[c]) /\ \A d \in Clients \ {c} : down'[d] = down[d]
    BY <1>1, <1>2 DEF TypeOK
  <2>3. down' \in [Clients -> Seq(Statuses \cup {"data"})]
    BY <1>1, <1>2, <2>1 DEF TypeOK, Answers
  <2>4. done[c] = 1 /\ Head(down[c]) = Right(c)
    BY <1>1, <1>2 DEF ClientInv, StreamInv, FirstAnswer, TypeOK
  <2>5. serving = c /\ alive /\ Plain(c) => step = "data" /\ down[c] = <<"ok">>
    BY <1>1, <1>2 DEF ClientInv, PlainInv
  <2>6. CASE DataWanted(c)
    <3>1. /\ pc' = [pc EXCEPT ![c] = "data"] /\ UNCHANGED <<result, open, ready>>
      BY <1>1, <1>2, <2>6 DEF ReadAnswer
    <3>2. TypeOK'
      BY <1>1, <2>3, <3>1 DEF TypeOK, daemon
    <3>3. pc'[c] = "data" /\ \A d \in Clients \ {c} : pc'[d] = pc[d]
      BY <1>1, <3>1 DEF TypeOK
    <3>4. call[c].command = "scan"
      BY <2>4, <2>6 DEF DataWanted, Right
    <3>5. StageInv(c)' /\ StreamInv(c)' /\ Outcome(c)'
      BY <1>1, <2>4, <3>1, <3>3, <3>4 DEF ClientInv, StageInv, StreamInv, Outcome, HasPayload, daemon
    <3>6. PlainInv(c)'
      BY <1>1, <2>1, <2>2, <2>4, <2>5, <3>1, <3>3 DEF ClientInv, PlainInv, Plain, HasPayload, daemon
    <3>7. c \in ready \cup events => conn[c] = "open"
      BY DEF IndInv, LoopInv
    <3> QED
      BY <1>1, <2>2, <3>1, <3>2, <3>3, <3>5, <3>6, <3>7, ClientStepInd DEF ClientInv
  <2>7. CASE ~DataWanted(c)
    <3>1. Finish(c, Right(c)) /\ Right(c) \in Statuses
      BY <1>1, <1>2, <2>4, <2>7 DEF ReadAnswer, Right, Statuses
    <3>2. TypeOK'
      BY <1>1, <2>3, <3>1, FinishType DEF TypeOK, daemon
    <3>3. pc'[c] = "over" /\ result'[c] = Right(c) /\ c \notin open'
      BY <3>1, FinishFacts
    <3>4. Outcome(c)'
      BY <1>1, <2>4, <3>3 DEF Outcome, Right, daemon, TypeOK, Calls, ClientInv, StageInv
    <3>5. PlainInv(c)'
      BY <1>1, <2>1, <2>4, <2>5, <2>7, <3>3 DEF ClientInv, PlainInv, Plain, HasPayload, daemon, DataWanted
    <3> QED
      BY <1>1, <2>2, <2>4, <3>1, <3>2, <3>4, <3>5, EndInd
  <2> QED
    BY <2>6, <2>7
<1>3. CASE down[c] = <<>> /\ conn[c] = "closed" /\ Finish(c, "failed") /\ UNCHANGED down
  <2>1. ~alive
    BY <1>1, <1>3 DEF ClientInv, StreamInv
  <2>2. TypeOK'
    BY <1>1, <1>3, FinishType DEF TypeOK, daemon
  <2>3. result'[c] = "failed"
    BY <1>3, FinishFacts
  <2>4. Outcome(c)' /\ PlainInv(c)'
    BY <1>1, <2>1, <2>3 DEF Outcome, PlainInv
  <2> QED
    BY <1>1, <1>3, <2>2, <2>4, EndInd
<1> QED
  BY <1>2, <1>3 DEF ReadAnswer

LEMMA ReadDataInd ==
  ASSUME IndInv, NEW c \in Clients, ReadData(c)
  PROVE  IndInv'
<1>1. /\ pc[c] = "data" /\ c \in open /\ ClientInv(c) /\ TypeOK
      /\ UNCHANGED <<alive, call, conn, up, events, daemon, vanished>>
      /\ Finish(c, "ok") /\ done[c] = 1 /\ call[c].command = "scan"
  BY DEF ReadData, IndInv, ClientInv, StageInv
<1>2. down' \in [Clients -> Seq(Answers)] /\ \A d \in Clients \ {c} : down'[d] = down[d]
  <2>1. down[c] \in Seq(Answers)
    BY <1>1 DEF TypeOK, Answers
  <2>2. CASE down[c] # <<>> /\ down' = [down EXCEPT ![c] = Tail(@)]
    <3>1. Tail(down[c]) \in Seq(Answers)
      BY <2>1, <2>2, TailFacts
    <3> QED
      BY <1>1, <2>2, <3>1 DEF TypeOK, Answers
  <2> QED
    BY <1>1, <2>2 DEF ReadData, TypeOK, Answers
<1>3. TypeOK'
  BY <1>1, <1>2, FinishType DEF TypeOK, Statuses, Answers, daemon
<1>4. pc'[c] = "over" /\ result'[c] = "ok" /\ c \notin open'
  BY <1>1, FinishFacts
<1>5. Outcome(c)'
  BY <1>1, <1>4 DEF Outcome, daemon
<1>6. ~(serving = c /\ alive /\ Plain(c))
  BY <1>1 DEF ReadData, ClientInv, PlainInv, IndInv, LoopInv
<1>7. PlainInv(c)'
  BY <1>1, <1>4, <1>6 DEF PlainInv, Plain, HasPayload, daemon
<1> QED
  BY <1>1, <1>2, <1>3, <1>5, <1>7, EndInd DEF Statuses

LEMMA VanishInd ==
  ASSUME IndInv, NEW c \in Clients, Vanish(c)
  PROVE  IndInv'
<1>1. /\ c \in open /\ ClientInv(c) /\ TypeOK /\ Finish(c, "killed")
      /\ UNCHANGED <<alive, call, conn, up, down, events, daemon>>
      /\ vanished' = vanished \cup {c}
  BY DEF Vanish, IndInv
<1>2. TypeOK'
  BY <1>1, FinishType DEF TypeOK, daemon
<1>3. result'[c] = "killed"
  BY <1>1, FinishFacts
<1>4. Outcome(c)' /\ PlainInv(c)'
  BY <1>1, <1>3 DEF Outcome, PlainInv, Plain
<1> QED
  BY <1>1, <1>2, <1>4, EndInd DEF ClientInv, StreamInv

-----------------------------------------------------------------------------
(* the daemon *)

LEMMA AcceptInd ==
  ASSUME IndInv, NEW c \in Clients, Accept(c)
  PROVE  IndInv'
<1>1. /\ ClientInv(c) /\ TypeOK /\ conn[c] = "pending"
      /\ conn' = [conn EXCEPT ![c] = "open"] /\ ready' \subseteq ready \cup {c}
      /\ UNCHANGED <<alive, client, up, down, events, daemon>>
  BY DEF Accept, IndInv
<1>2. TypeOK'
  BY <1>1 DEF TypeOK, client, daemon
<1>3. conn'[c] = "open" /\ \A d \in Clients \ {c} : conn'[d] = conn[d]
  BY <1>1 DEF TypeOK
<1>4. ClientInv(c)'
  BY <1>1, <1>3 DEF ClientInv, StageInv, StreamInv, FirstAnswer, Right, PlainInv, Plain, HasPayload,
                   Outcome, client, daemon
<1> QED
  BY <1>1, <1>2, <1>3, <1>4, ClientStepInd DEF client

LEMMA WaitInd == IndInv /\ Wait => IndInv'
<1> SUFFICES ASSUME IndInv, Wait  PROVE IndInv'
  OBVIOUS
<1>1. /\ TypeOK /\ UNCHANGED <<alive, client, conn, up, down, daemon>>
      /\ events' = {c \in ready : Readable(c)} /\ ready' = {} /\ serving = NoClient
  BY DEF Wait, IndInv, LoopInv
<1>2. TypeOK'
  BY <1>1 DEF TypeOK, client, daemon
<1>3. LoopInv' /\ DaemonSurvives'
  BY <1>1 DEF IndInv, LoopInv, DaemonSurvives, HasPayload, client, daemon
<1>4. ASSUME NEW c \in Clients  PROVE ClientInv(c)'
  <2>1. ClientInv(c)
    BY DEF IndInv
  <2>2. c \in events' => serving' # c /\ (c \in open' => up'[c] # Nothing)
    BY <1>1 DEF Readable, client, daemon
  <2>3. StageInv(c)' /\ PlainInv(c)' /\ Outcome(c)'
    BY <1>1, <2>1 DEF ClientInv, StageInv, PlainInv, Plain, HasPayload, Outcome, client, daemon
  <2>4. StreamInv(c)'
    BY <1>1, <2>1, <2>2 DEF ClientInv, StreamInv, FirstAnswer, Right, client, daemon
  <2> QED
    BY <2>3, <2>4 DEF ClientInv
<1> QED
  BY <1>2, <1>3, <1>4 DEF IndInv

(* What a step of the loop that touches one connection leaves alone.       *)
LEMMA LoopStepInd ==
  ASSUME IndInv, NEW c \in Clients, ClientInv(c)', TypeOK', LoopInv',
         UNCHANGED <<alive, client>>, events' \subseteq events,
         serving \in {c, NoClient}, serving' \in {c, NoClient},
         \A d \in Clients \ {c} :
           conn'[d] = conn[d] /\ up'[d] = up[d] /\ down'[d] = down[d] /\ done'[d] = done[d]
  PROVE  IndInv'
<1>1. DaemonSurvives'
  BY DEF IndInv, DaemonSurvives, HasPayload, client
<1>2. ASSUME NEW d \in Clients \ {c}  PROVE ClientInv(d)'
  BY <1>2, Elsewhere DEF IndInv, client
<1> QED
  BY <1>1, <1>2 DEF IndInv

LEMMA ReadHeaderInd ==
  ASSUME IndInv, NEW c \in Clients, ReadHeader(c)
  PROVE  IndInv'
<1>1. /\ ClientInv(c) /\ TypeOK /\ alive /\ c \in events /\ conn[c] = "open" /\ serving = NoClient
      /\ step = "wait" /\ events' = events \ {c} /\ UNCHANGED <<alive, client, down>>
      /\ up[c] \in [header : BOOLEAN, bytes : Runs]
      /\ c \in open => up[c] # Nothing
  BY DEF ReadHeader, IndInv, LoopInv, TypeOK, ClientInv, StreamInv
<1>2. CASE ~up[c].header /\ up[c].bytes # "long" /\ CloseConnection(c) /\ up' = [up EXCEPT ![c] = Nothing]
           /\ UNCHANGED daemon
  <2>1. /\ conn' = [conn EXCEPT ![c] = "closed"] /\ ready' = ready \ {c}
        /\ conn'[c] = "closed" /\ up'[c] = Nothing
        /\ \A d \in Clients \ {c} : conn'[d] = conn[d] /\ up'[d] = up[d]
    BY <1>1, <1>2 DEF CloseConnection, TypeOK
  <2>2. TypeOK'
    BY <1>1, <1>2, <2>1 DEF TypeOK, client, daemon, Nothing, Runs
  <2>3. LoopInv'
    BY <1>1, <1>2, <2>1 DEF IndInv, LoopInv, daemon, TypeOK
  <2>4. c \in open => up[c].bytes = "short" /\ done[c] = 1 /\ pc[c] \in {"rest", "answer", "data"}
    <3>1. c \in open => up[c].bytes # "none"
      BY <1>1, <1>2 DEF Nothing
    <3> QED
      BY <1>1, <1>2, <3>1 DEF ClientInv, StageInv, Runs, TypeOK
  <2>5. StageInv(c)'
    BY <1>1, <1>2, <2>1, <2>4 DEF ClientInv, StageInv, HasPayload, Nothing, client, daemon
  <2>6. StreamInv(c)'
    BY <1>1, <1>2, <2>1, <2>4 DEF ClientInv, StreamInv, FirstAnswer, Right, Nothing, client, daemon
  <2>7. PlainInv(c)' /\ Outcome(c)'
    BY <1>1, <1>2, <2>1, <2>4 DEF ClientInv, StageInv, PlainInv, Plain, HasPayload, Outcome, client, daemon
  <2> QED
    BY <1>1, <1>2, <2>1, <2>2, <2>3, <2>5, <2>6, <2>7, LoopStepInd DEF ClientInv, daemon
<1>3. CASE /\ up[c].header
           /\ up' = [up EXCEPT ![c].header = FALSE]
           /\ Begin(c, IF call[c].payload = "none" THEN "reply" ELSE "payload",
                    IF call[c].command = "scan" THEN "ok" ELSE "unsupported")
           /\ done' = [done EXCEPT ![c] = @ + 1]
           /\ UNCHANGED <<conn, ready>>
  <2>1. done[c] = 0 /\ down[c] = <<>>
    BY <1>1, <1>3 DEF ClientInv, StreamInv, TypeOK
  <2>2. /\ up'[c].header = FALSE /\ up'[c].bytes = up[c].bytes
        /\ done'[c] = 1
        /\ \A d \in Clients \ {c} : up'[d] = up[d] /\ done'[d] = done[d]
        /\ serving' = c /\ step' \in {"payload", "reply"} /\ reply' = Right(c)
    BY <1>1, <1>3, <2>1 DEF TypeOK, Begin, Right
  <2>3. TypeOK'
    <3>1. up' \in [Clients -> [header : BOOLEAN, bytes : Runs]]
      BY <1>1, <1>3 DEF TypeOK
    <3>2. done' \in [Clients -> 0 .. 1]
      BY <1>1, <1>3, <2>1 DEF TypeOK
    <3> QED
      BY <1>1, <1>3, <2>2, <3>1, <3>2 DEF TypeOK, client, Statuses, Right
  <2>4. LoopInv'
    BY <1>1, <1>3, <2>2 DEF IndInv, LoopInv, TypeOK
  <2>5. pc[c] \notin {"idle", "header", "data"}
    BY <1>1, <1>3, <2>1 DEF ClientInv, StageInv, Nothing
  <2>6. StageInv(c)'
    BY <1>1, <1>3, <2>2, <2>5 DEF ClientInv, StageInv, HasPayload, client
  <2>7. StreamInv(c)'
    BY <1>1, <1>3, <2>1, <2>2 DEF ClientInv, StreamInv, FirstAnswer, Right, client
  <2>8. PlainInv(c)'
    BY <1>1, <1>3, <2>1, <2>2, <2>5 DEF ClientInv, StageInv, PlainInv, Plain, HasPayload, client
  <2>9. Outcome(c)'
    BY <1>1, <2>2 DEF ClientInv, StageInv, Outcome, client
  <2> QED
    BY <1>1, <1>3, <2>2, <2>3, <2>4, <2>6, <2>7, <2>8, <2>9, LoopStepInd DEF ClientInv
<1>4. CASE /\ ~up[c].header /\ up[c].bytes = "long"
           /\ \E r \in Remains("long") : up' = [up EXCEPT ![c].bytes = r]
           /\ \E next \in {"stray", "reply"}, status \in Statuses : Begin(c, next, status)
           /\ UNCHANGED <<conn, ready, done>>
  <2>1. PICK r \in Runs : up' = [up EXCEPT ![c].bytes = r]
    BY <1>4 DEF Remains, Runs
  <2>2. /\ up'[c].header = FALSE /\ up'[c].bytes = r
        /\ \A d \in Clients \ {c} : up'[d] = up[d]
        /\ serving' = c /\ step' \in {"stray", "reply"} /\ reply' \in Statuses
    BY <1>1, <1>4, <2>1 DEF TypeOK, Begin
  <2>3. TypeOK'
    BY <1>1, <1>4, <2>1, <2>2 DEF TypeOK, client, Statuses
  <2>4. LoopInv'
    BY <1>1, <1>4, <2>2 DEF IndInv, LoopInv, TypeOK
  <2>5. done[c] = 1 /\ HasPayload(c) /\ call[c].payload = "long" /\ pc[c] \notin {"idle", "header", "payload"}
    BY <1>1, <1>4 DEF ClientInv, StageInv, Nothing
  <2>6. StageInv(c)'
    BY <1>1, <1>4, <2>2, <2>5 DEF ClientInv, StageInv, HasPayload, client
  <2>7. pc[c] \in {"payload", "rest", "answer"} => down[c] # <<>> /\ Head(down[c]) = Right(c)
    BY <1>1, <2>5 DEF ClientInv, StreamInv, FirstAnswer
  <2>8. StreamInv(c)'
    BY <1>1, <1>4, <2>2, <2>5, <2>7 DEF ClientInv, StreamInv, FirstAnswer, Right, client
  <2>9. PlainInv(c)' /\ Outcome(c)'
    BY <1>1, <1>4, <2>5 DEF ClientInv, PlainInv, Plain, HasPayload, Outcome, client
  <2> QED
    BY <1>1, <1>4, <2>2, <2>3, <2>4, <2>6, <2>8, <2>9, LoopStepInd DEF ClientInv
<1> QED
  BY <1>2, <1>3, <1>4 DEF ReadHeader

LEMMA ReadPayloadInd == IndInv /\ ReadPayload => IndInv'
<1> SUFFICES ASSUME IndInv, ReadPayload  PROVE IndInv'
  OBVIOUS
<1>0. step \in {"payload", "stray"} /\ serving \in Clients
  BY DEF ReadPayload, IndInv, LoopInv, TypeOK
<1>1. PICK c \in Clients : c = serving /\ step \in {"payload", "stray"}
  BY <1>0
<1>2. /\ ClientInv(c) /\ TypeOK /\ c \in Clients /\ step' = "reply"
      /\ UNCHANGED <<alive, client, conn, down, ready, events, serving, reply, done>>
  BY <1>1 DEF ReadPayload, IndInv, epoll
<1>3. PICK r \in Runs : /\ up' = [up EXCEPT ![c].bytes = r]
                        /\ r # "none" => r = up[c].bytes \/ up[c].bytes = "long"
  BY <1>1, <1>2 DEF ReadPayload, Remains, Runs, TypeOK
<1>4. /\ up'[c].header = up[c].header /\ up'[c].bytes = r
      /\ \A d \in Clients \ {c} : up'[d] = up[d]
  BY <1>2, <1>3 DEF TypeOK
<1>5. TypeOK'
  <2>1. up' \in [Clients -> [header : BOOLEAN, bytes : Runs]]
    <3>1. up[c] \in [header : BOOLEAN, bytes : Runs]
      BY <1>2 DEF TypeOK
    <3>2. [up[c] EXCEPT !.bytes = r] \in [header : BOOLEAN, bytes : Runs]
      BY <3>1
    <3>3. up' = [up EXCEPT ![c] = [up[c] EXCEPT !.bytes = r]]
      BY <1>3
    <3> QED
      BY <1>2, <3>2, <3>3 DEF TypeOK
  <2> QED
    BY <1>2, <2>1 DEF TypeOK, client
<1>6. LoopInv'
  BY <1>1, <1>2 DEF IndInv, LoopInv, TypeOK
<1>7. c \notin events /\ done[c] = 1 /\ ~up[c].header
  BY <1>1, <1>2 DEF ClientInv, StreamInv, TypeOK
<1>8. StageInv(c)'
  BY <1>2, <1>3, <1>4, <1>7 DEF ClientInv, StageInv, HasPayload, client, Nothing
<1>9. StreamInv(c)'
  BY <1>1, <1>2, <1>4, <1>7 DEF ClientInv, StreamInv, FirstAnswer, Right, client
<1>10. PlainInv(c)' /\ Outcome(c)'
  BY <1>1, <1>2, <1>3, <1>4 DEF ClientInv, StageInv, PlainInv, Plain, HasPayload, Outcome, client
<1> QED
  BY <1>1, <1>2, <1>4, <1>5, <1>6, <1>8, <1>9, <1>10, LoopStepInd DEF ClientInv

(* SIGPIPE: the connection whose client is gone is not a plain client's.   *)
LEMMA KilledInd ==
  ASSUME IndInv, step \in {"reply", "data"}, serving \in Clients, serving \notin open, Killed,
         UNCHANGED <<client, up, down, reply, done>>
  PROVE  IndInv'
<1>1. TypeOK /\ TypeOK'
  BY DEF IndInv, TypeOK, Killed, client
<1>2. LoopInv'
  BY DEF Killed, LoopInv
<1>3. alive /\ ClientInv(serving)
  BY DEF IndInv, LoopInv
<1>4. ~Plain(serving)
  BY <1>3 DEF ClientInv, StageInv, PlainInv
<1>5. DaemonSurvives'
  BY <1>1, <1>4 DEF DaemonSurvives, Plain, HasPayload, client
<1>6. ASSUME NEW c \in Clients  PROVE ClientInv(c)'
  <2>1. ClientInv(c) /\ ~alive' /\ events' = {} /\ serving' = NoClient
    BY DEF IndInv, Killed
  <2>2. conn'[c] = IF conn[c] = "none" THEN "none" ELSE "closed"
    BY DEF Killed
  <2>3. StageInv(c)'
    BY <2>1, <2>2 DEF ClientInv, StageInv, HasPayload, client
  <2>4. done[c] = 1 /\ pc[c] \in {"payload", "rest", "answer"} => down[c] # <<>> /\ Head(down[c]) = Right(c)
    <3>1. serving = c => pc[c] \notin {"payload", "rest", "answer"}
      BY <1>3, <2>1 DEF ClientInv, StageInv
    <3> QED
      BY <2>1, <3>1 DEF ClientInv, StreamInv, FirstAnswer
  <2>5. StreamInv(c)'
    BY <2>1, <2>4 DEF ClientInv, StreamInv, FirstAnswer, Right, client
  <2>6. PlainInv(c)' /\ Outcome(c)'
    BY <2>1 DEF ClientInv, PlainInv, Outcome, client
  <2> QED
    BY <2>3, <2>5, <2>6 DEF ClientInv
<1> QED
  BY <1>1, <1>2, <1>5, <1>6 DEF IndInv

LEMMA WriteInd == IndInv /\ (WriteHeader \/ WriteData) => IndInv'
<1> SUFFICES ASSUME IndInv, WriteHeader \/ WriteData  PROVE IndInv'
  OBVIOUS
<1>0. serving \in Clients /\ step \in {"reply", "data"}
  BY DEF WriteHeader, WriteData, IndInv, LoopInv, TypeOK
<1>1. PICK c \in Clients : c = serving /\ step \in {"reply", "data"}
  BY <1>0
<1>2. ClientInv(c) /\ TypeOK /\ c \in Clients /\ down[c] \in Seq(Answers)
      /\ UNCHANGED <<client, up, reply, done>>
  BY <1>1 DEF WriteHeader, WriteData, IndInv, TypeOK, Answers
<1>3. CASE serving \notin open
  BY <1>1, <1>2, <1>3, KilledInd DEF WriteHeader, WriteData
<1>4. CASE WriteHeader /\ serving \in open
  <2>1. /\ down' = [down EXCEPT ![c] = Append(@, reply)] /\ UNCHANGED <<alive, conn, ready, events>>
        /\ step = "reply" /\ reply \in Answers
        /\ step' = IF reply = "ok" THEN "data" ELSE "wait"
        /\ serving' = IF reply = "ok" THEN serving ELSE NoClient
    BY <1>1, <1>2, <1>4 DEF WriteHeader, epoll, TypeOK, Answers
  <2>2. /\ Append(down[c], reply) \in Seq(Answers) /\ Append(down[c], reply) # <<>>
        /\ down[c] = <<>> => Append(down[c], reply) = <<reply>> /\ Head(Append(down[c], reply)) = reply
        /\ down[c] # <<>> => Head(Append(down[c], reply)) = Head(down[c])
    BY <1>2, <2>1, AppendFacts
  <2>3. down'[c] = Append(down[c], reply) /\ \A d \in Clients \ {c} : down'[d] = down[d]
    BY <1>2, <2>1 DEF TypeOK
  <2>4. TypeOK'
    <3>1. down' \in [Clients -> Seq(Statuses \cup {"data"})]
      BY <1>2, <2>1, <2>2 DEF TypeOK, Answers
    <3> QED
      BY <1>2, <2>1, <3>1 DEF TypeOK, client
  <2>5. LoopInv'
    BY <1>1, <1>2, <2>1 DEF IndInv, LoopInv, TypeOK
  <2>6. done[c] = 1 /\ c \notin events
    BY <1>1, <1>2 DEF ClientInv, StreamInv, TypeOK
  <2>7. StageInv(c)'
    BY <1>2, <2>1, <2>6 DEF ClientInv, StageInv, HasPayload, client
  <2>8. done[c] = 1 /\ pc[c] \in {"payload", "rest", "answer"} => Head(down'[c]) = Right(c)
    BY <1>2, <2>1, <2>2, <2>3 DEF ClientInv, StreamInv, FirstAnswer
  <2>9. StreamInv(c)'
    BY <1>2, <2>1, <2>2, <2>3, <2>6, <2>8 DEF ClientInv, StreamInv, FirstAnswer, Right, client
  <2>10. PlainInv(c)'
    BY <1>1, <1>2, <2>1, <2>2, <2>3, <2>6 DEF ClientInv, PlainInv, Plain, HasPayload, client
  <2>11. Outcome(c)'
    BY <1>2, <2>1 DEF ClientInv, Outcome, client
  <2> QED
    BY <1>1, <1>2, <2>1, <2>3, <2>4, <2>5, <2>7, <2>9, <2>10, <2>11, LoopStepInd DEF ClientInv
<1>5. CASE WriteData /\ serving \in open
  <2>1. /\ down' = [down EXCEPT ![c] = Append(@, "data")] /\ UNCHANGED <<alive, conn, ready, events>>
        /\ step = "data" /\ step' = "wait" /\ serving' = NoClient /\ "data" \in Answers
    BY <1>1, <1>2, <1>5 DEF WriteData, epoll, Answers
  <2>2. /\ Append(down[c], "data") \in Seq(Answers) /\ Append(down[c], "data") # <<>>
        /\ down[c] # <<>> => Head(Append(down[c], "data")) = Head(down[c])
    BY <1>2, <2>1, AppendFacts
  <2>3. down'[c] = Append(down[c], "data") /\ \A d \in Clients \ {c} : down'[d] = down[d]
    BY <1>2, <2>1 DEF TypeOK
  <2>4. TypeOK'
    <3>1. down' \in [Clients -> Seq(Statuses \cup {"data"})]
      BY <1>2, <2>1, <2>2 DEF TypeOK, Answers
    <3> QED
      BY <1>2, <2>1, <3>1 DEF TypeOK, client
  <2>5. LoopInv'
    BY <1>1, <1>2, <2>1 DEF IndInv, LoopInv, TypeOK
  <2>6. done[c] = 1 /\ c \notin events
    BY <1>1, <1>2 DEF ClientInv, StreamInv, TypeOK
  <2>7. StageInv(c)'
    BY <1>2, <2>1, <2>6 DEF ClientInv, StageInv, HasPayload, client
  <2>8. done[c] = 1 /\ pc[c] \in {"payload", "rest", "answer"} => Head(down'[c]) = Right(c)
    BY <1>2, <2>1, <2>2, <2>3 DEF ClientInv, StreamInv, FirstAnswer
  <2>9. StreamInv(c)'
    BY <1>2, <2>1, <2>2, <2>3, <2>6, <2>8 DEF ClientInv, StreamInv, FirstAnswer, Right, client
  <2>10. PlainInv(c)'
    BY <1>1, <1>2, <2>1, <2>6 DEF ClientInv, PlainInv, Plain, HasPayload, client
  <2>11. Outcome(c)'
    BY <1>2, <2>1 DEF ClientInv, Outcome, client
  <2> QED
    BY <1>1, <1>2, <2>1, <2>3, <2>4, <2>5, <2>7, <2>9, <2>10, <2>11, LoopStepInd DEF ClientInv
<1> QED
  BY <1>3, <1>4, <1>5

LEMMA NextInd == IndInv /\ [Next]_vars => IndInv'
<1> SUFFICES ASSUME IndInv, [Next]_vars  PROVE IndInv'
  OBVIOUS
<1>1. CASE UNCHANGED vars
  <2>1. TypeOK' /\ LoopInv' /\ DaemonSurvives'
    BY <1>1 DEF IndInv, TypeOK, LoopInv, DaemonSurvives, HasPayload, vars, client, epoll, daemon
  <2>2. ASSUME NEW c \in Clients  PROVE ClientInv(c)'
    BY <1>1, Elsewhere DEF IndInv, vars, client, epoll, daemon
  <2> QED
    BY <2>1, <2>2 DEF IndInv
<1> QED
  BY <1>1, UnservedInd, ConnectInd, SendInd, ReadAnswerInd, ReadDataInd, VanishInd, AcceptInd, ReadHeaderInd,
     WaitInd, ReadPayloadInd, WriteInd
  DEF Next, ClientSteps, DaemonSteps

LEMMA Inductive == Spec => []IndInv
  BY InitInd, NextInd, PTL DEF Spec

-----------------------------------------------------------------------------
(* Every variable keeps its type; no request is carried out twice.         *)
THEOREM TypeCorrect == Spec => []TypeOK
<1>1. IndInv => TypeOK
  BY DEF IndInv
<1> QED
  BY <1>1, Inductive, PTL

(* Whatever the others send, and whoever of them dies, a caller gets the   *)
(* answer to its own request.                                              *)
THEOREM AnswersCorrect == Spec => []AnswersFit
<1>1. IndInv => AnswersFit
  BY DEF IndInv, ClientInv, Outcome, AnswersFit
<1> QED
  BY <1>1, Inductive, PTL

(* No number of calls without a payload that wait for their data ends the  *)
(* daemon.                                                                 *)
THEOREM SurvivalCorrect == Spec => []DaemonSurvives
<1>1. IndInv => DaemonSurvives
  BY DEF IndInv
<1> QED
  BY <1>1, Inductive, PTL
-----------------------------------------------------------------------------
(* nobody waits in vain *)

(* A request that was not read, and a hangup that was not seen, is an edge  *)
(* that was not handled.                                                    *)
EdgeInv(c) ==
  alive /\ conn[c] = "open" /\ (up[c].header \/ c \notin open) => c \in ready \cup events \/ serving = c

(* The data of a success comes behind its status.                          *)
FollowInv(c) ==
  alive /\ conn[c] = "open" =>
    /\ pc[c] = "data" /\ down[c] = <<>> => serving = c /\ step = "data"
    /\ c \in open /\ pc[c] # "data" /\ down[c] # <<>> /\ Head(down[c]) = "ok" =>
         Tail(down[c]) # <<>> \/ (serving = c /\ step = "data")

(* No request is read before its connection is accepted.                    *)
NewInv(c) == alive /\ conn[c] \in {"none", "pending"} => done[c] = 0

CallerInv(c) == EdgeInv(c) /\ FollowInv(c) /\ NewInv(c)

WaitInv == \A c \in Clients : CallerInv(c)

LEMMA AppendTail ==
  ASSUME NEW S, NEW s \in Seq(S), NEW x \in S, s # <<>>
  PROVE  Tail(Append(s, x)) # <<>>
<1>1. /\ Append(s, x) \in Seq(S) /\ Len(Append(s, x)) = Len(s) + 1 /\ Append(s, x) # <<>>
      /\ Len(s) \in Nat /\ Len(s) # 0
  BY AppendProperties, EmptySeq, LenProperties
<1>2. Len(Tail(Append(s, x))) = Len(s)
  BY <1>1, HeadTailProperties
<1> QED
  BY <1>1, <1>2

(* A step that leaves a client and its connection alone, but for an edge. *)
LEMMA WaitElsewhere ==
  ASSUME NEW c, CallerInv(c), alive' => alive,
         pc'[c] = pc[c], conn'[c] = conn[c], up'[c] = up[c], down'[c] = down[c],
         done'[c] = done[c], c \in open' <=> c \in open, c \in ready \cup events => c \in ready' \cup events',
         serving = c => serving' = c /\ step' = step
  PROVE  CallerInv(c)'
BY DEF CallerInv, EdgeInv, FollowInv, NewInv

LEMMA WaitClient ==
  ASSUME IndInv, WaitInv, NEW c \in Clients,
         Unserved(c) \/ connect_to_daemon(c) \/ ClientSteps(c) \/ Vanish(c)
  PROVE  WaitInv'
<1>1. /\ UNCHANGED <<alive, serving, step, events, done>> /\ ready \subseteq ready'
      /\ \A d \in Clients \ {c} : /\ pc'[d] = pc[d] /\ conn'[d] = conn[d] /\ up'[d] = up[d]
                                  /\ down'[d] = down[d] /\ (d \in open' <=> d \in open)
  <2>1. CASE Unserved(c) \/ connect_to_daemon(c)
    BY <2>1 DEF Unserved, connect_to_daemon, daemon, epoll, IndInv, TypeOK
  <2>2. CASE SendHeader(c) \/ SendPayload(c) \/ SendRest(c)
    BY <2>2 DEF SendHeader, SendPayload, SendRest, Write, Finish, Hangup, daemon, IndInv, TypeOK
  <2>3. CASE ReadAnswer(c) \/ ReadData(c) \/ Vanish(c)
    BY <2>3 DEF ReadAnswer, ReadData, Vanish, Finish, Hangup, daemon, IndInv, TypeOK
  <2> QED
    BY <2>1, <2>2, <2>3 DEF ClientSteps
<1>2. ASSUME NEW d \in Clients \ {c}  PROVE CallerInv(d)'
  BY <1>1, <1>2, WaitElsewhere DEF WaitInv
<1>3. /\ CallerInv(c) /\ ClientInv(c) /\ down[c] \in Seq(Answers) /\ TypeOK
  BY DEF IndInv, WaitInv, TypeOK, Answers
<1> SUFFICES CallerInv(c)'
  BY <1>2 DEF WaitInv
<1>4. CASE connect_to_daemon(c)
  <2>1. done'[c] = 0 /\ (conn'[c] = "open" => FALSE)
    BY <1>3, <1>4 DEF connect_to_daemon, ClientInv, StageInv, TypeOK, daemon
  <2> QED
    BY <2>1 DEF CallerInv, EdgeInv, FollowInv, NewInv
<1>8. CASE Unserved(c)
  <2>1. conn'[c] = "none" /\ done'[c] = 0
    BY <1>3, <1>8 DEF Unserved, ClientInv, StageInv, daemon
  <2> QED
    BY <2>1 DEF CallerInv, EdgeInv, FollowInv, NewInv
<1>5. CASE UNCHANGED conn /\ \E r : Finish(c, r)
  <2>1. pc'[c] = "over" /\ c \notin open' /\ (conn[c] = "open" => c \in ready')
    BY <1>3, <1>5 DEF Finish, Hangup, TypeOK
  <2> QED
    BY <1>1, <1>3, <1>5, <2>1 DEF CallerInv, EdgeInv, FollowInv, NewInv
<1>6. CASE SendHeader(c) \/ SendPayload(c) \/ SendRest(c)
  <2>1. PICK s, r : \E next \in {"payload", "rest", "answer"} : Write(c, s, next, r)
    BY <1>6 DEF SendHeader, SendPayload, SendRest
  <2>2. pc[c] \in {"header", "payload", "rest"} /\ UNCHANGED <<conn, down>>
    BY <1>6 DEF SendHeader, SendPayload, SendRest
  <2>3. CASE Finish(c, r)
    BY <1>5, <2>2, <2>3
  <2>4. CASE /\ \E next \in {"payload", "rest", "answer"} : pc' = [pc EXCEPT ![c] = next]
             /\ UNCHANGED open /\ ready' = IF conn[c] = "open" THEN ready \cup {c} ELSE ready
    <3>1. pc'[c] \in {"payload", "rest", "answer"} /\ (conn[c] = "open" => c \in ready')
      BY <1>3, <2>4 DEF TypeOK
    <3>2. EdgeInv(c)' /\ NewInv(c)'
      BY <1>1, <1>3, <2>2, <3>1 DEF CallerInv, EdgeInv, NewInv
    <3>3. FollowInv(c)'
      BY <1>1, <1>3, <2>2, <2>4, <3>1 DEF CallerInv, FollowInv
    <3> QED
      BY <3>2, <3>3 DEF CallerInv
  <2> QED
    BY <2>1, <2>3, <2>4 DEF Write
<1>7. CASE ReadAnswer(c) \/ ReadData(c) \/ Vanish(c)
  <2>1. UNCHANGED <<conn, up>>
    BY <1>7 DEF ReadAnswer, ReadData, Vanish
  <2>2. CASE ~\E r : Finish(c, r)
    <3>1. /\ pc[c] = "answer" /\ DataWanted(c) /\ down[c] # <<>> /\ UNCHANGED <<open, ready>>
          /\ down' = [down EXCEPT ![c] = Tail(@)] /\ pc' = [pc EXCEPT ![c] = "data"]
      BY <1>7, <2>2 DEF ReadAnswer, ReadData, Vanish
    <3>2. pc'[c] = "data" /\ down'[c] = Tail(down[c]) /\ Head(down[c]) = "ok" /\ c \in open
      BY <1>3, <3>1 DEF DataWanted, ClientInv, StageInv, TypeOK
    <3>3. EdgeInv(c)' /\ NewInv(c)'
      BY <1>1, <1>3, <2>1, <3>1 DEF CallerInv, EdgeInv, NewInv
    <3>4. FollowInv(c)'
      BY <1>1, <1>3, <2>1, <3>1, <3>2 DEF CallerInv, FollowInv
    <3> QED
      BY <3>3, <3>4 DEF CallerInv
  <2> QED
    BY <1>5, <2>1, <2>2
<1> QED
  BY <1>4, <1>6, <1>7, <1>8 DEF ClientSteps

LEMMA WaitReadHeader ==
  ASSUME IndInv, WaitInv, NEW c \in Clients, ReadHeader(c)
  PROVE  WaitInv'
<1>1. /\ serving = NoClient /\ c \in events /\ events' = events \ {c} /\ UNCHANGED <<alive, pc, open, down>>
      /\ CallerInv(c) /\ conn[c] = "open"
  BY DEF ReadHeader, IndInv, LoopInv, WaitInv, client
<1>2. /\ \A d \in Clients \ {c} : up'[d] = up[d] /\ conn'[d] = conn[d] /\ done'[d] = done[d]
      /\ ready \ {c} \subseteq ready'
  BY DEF ReadHeader, CloseConnection, Begin, daemon, IndInv, TypeOK
<1>3. ASSUME NEW d \in Clients \ {c}  PROVE CallerInv(d)'
  BY <1>1, <1>2, <1>3, WaitElsewhere DEF WaitInv
<1>4. conn'[c] = "closed" \/ (serving' = c /\ UNCHANGED conn)
  BY DEF ReadHeader, CloseConnection, Begin, IndInv, TypeOK
<1>5. CallerInv(c)'
  BY <1>1, <1>4 DEF CallerInv, EdgeInv, FollowInv, NewInv
<1> QED
  BY <1>3, <1>5 DEF WaitInv

LEMMA WaitWrite ==
  ASSUME IndInv, WaitInv, WriteHeader \/ WriteData
  PROVE  WaitInv'
<1>1. serving \in Clients /\ TypeOK /\ UNCHANGED <<pc, open, up, done>>
  BY DEF WriteHeader, WriteData, IndInv, LoopInv, TypeOK, client
<1>2. CASE serving \notin open
  <2>1. ~alive'
    BY <1>2 DEF WriteHeader, WriteData, Killed
  <2> QED
    BY <2>1 DEF WaitInv, CallerInv, EdgeInv, FollowInv, NewInv
<1>3. CASE serving \in open
  <2>1. PICK x \in Answers : /\ down' = [down EXCEPT ![serving] = Append(@, x)]
                             /\ x = "ok" => step' = "data" /\ serving' = serving
    BY <1>1, <1>3 DEF WriteHeader, WriteData, TypeOK, Answers
  <2>2. UNCHANGED <<alive, conn, ready, events>>
    BY <1>3 DEF WriteHeader, WriteData, epoll
  <2>3. ASSUME NEW d \in Clients \ {serving}  PROVE CallerInv(d)'
    <3>1. down'[d] = down[d]
      BY <1>1, <2>1 DEF TypeOK
    <3> QED
      BY <1>1, <2>2, <2>3, <3>1, WaitElsewhere DEF WaitInv
  <2>4. PICK c \in Clients : c = serving
    BY <1>1
  <2>5. ClientInv(c) /\ CallerInv(c) /\ down[c] \in Seq(Answers)
    BY <1>1, <2>4 DEF IndInv, WaitInv, TypeOK, Answers
  <2>6. /\ down'[c] = Append(down[c], x) /\ Append(down[c], x) # <<>>
        /\ down[c] = <<>> => Head(Append(down[c], x)) = x
        /\ down[c] # <<>> => Tail(Append(down[c], x)) # <<>>
    BY <1>1, <2>1, <2>4, <2>5, AppendFacts, AppendTail DEF TypeOK
  <2>7. ~up[c].header
    BY <2>4, <2>5 DEF ClientInv, StreamInv, IndInv, TypeOK
  <2>8. EdgeInv(c)'
    BY <1>1, <1>3, <2>4, <2>7 DEF EdgeInv
  <2>9. FollowInv(c)'
    BY <1>1, <2>1, <2>4, <2>6 DEF FollowInv
  <2>10. NewInv(c)'
    BY <1>1, <2>2, <2>5 DEF CallerInv, NewInv
  <2> QED
    BY <2>3, <2>4, <2>8, <2>9, <2>10 DEF WaitInv, CallerInv
<1> QED
  BY <1>2, <1>3

LEMMA WaitStep == IndInv /\ WaitInv /\ [Next]_vars => WaitInv'
<1> SUFFICES ASSUME IndInv, WaitInv, [Next]_vars  PROVE WaitInv'
  OBVIOUS
<1>1. CASE UNCHANGED vars
  BY <1>1, WaitElsewhere DEF WaitInv, vars, client, epoll, daemon
<1>2. CASE \E c \in Clients : Unserved(c) \/ connect_to_daemon(c) \/ ClientSteps(c) \/ Vanish(c)
  BY <1>2, WaitClient
<1>3. ASSUME NEW c \in Clients, Accept(c)  PROVE WaitInv'
  <2>1. /\ UNCHANGED <<alive, pc, open, up, down, events, serving, step, done>> /\ ready \subseteq ready'
        /\ conn[c] = "pending" /\ \A d \in Clients \ {c} : conn'[d] = conn[d]
        /\ Readable(c) => c \in ready'
    BY <1>3 DEF Accept, client, daemon, IndInv, TypeOK
  <2>2. ASSUME NEW d \in Clients \ {c}  PROVE CallerInv(d)'
    BY <2>1, <2>2, WaitElsewhere DEF WaitInv
  <2>3. EdgeInv(c)'
    BY <2>1 DEF EdgeInv, Readable, Nothing
  <2>4. pc[c] # "data" /\ down[c] = <<>>
    <3>1. ClientInv(c) /\ serving # c
      BY <2>1 DEF IndInv, LoopInv
    <3>2. done[c] = 0
      BY <1>3, <2>1 DEF Accept, WaitInv, CallerInv, NewInv
    <3> QED
      BY <3>1, <3>2 DEF ClientInv, StageInv, StreamInv
  <2>5. FollowInv(c)'
    BY <2>1, <2>4 DEF FollowInv
  <2>6. NewInv(c)'
    BY <1>3, <2>1 DEF NewInv, Accept, IndInv, TypeOK
  <2> QED
    BY <2>2, <2>3, <2>5, <2>6 DEF WaitInv, CallerInv
<1>4. CASE Wait
  <2>1. /\ UNCHANGED <<alive, pc, open, conn, up, down, serving, step, done>>
        /\ events = {} /\ events' = {d \in ready : Readable(d)}
    BY <1>4 DEF Wait, client, daemon
  <2>2. ASSUME NEW d \in Clients  PROVE CallerInv(d)'
    BY <2>1 DEF CallerInv, EdgeInv, FollowInv, NewInv, Readable, Nothing, WaitInv
  <2> QED
    BY <2>2 DEF WaitInv
<1>5. CASE ReadPayload
  <2>1. /\ UNCHANGED <<alive, pc, open, conn, down, ready, events, serving, done>>
        /\ step \in {"payload", "stray"} /\ \A d \in Clients : up'[d].header = up[d].header
    <3>1. PICK r : up' = [up EXCEPT ![serving].bytes = r]
      BY <1>5 DEF ReadPayload
    <3>2. \A d \in Clients : up'[d].header = up[d].header
      BY <3>1 DEF IndInv, TypeOK
    <3> QED
      BY <1>5, <3>2 DEF ReadPayload, client, epoll
  <2> QED
    BY <2>1 DEF WaitInv, CallerInv, EdgeInv, FollowInv, NewInv
<1>6. CASE WriteHeader \/ WriteData
  BY <1>6, WaitWrite
<1>7. CASE \E c \in Clients : ReadHeader(c)
  BY <1>7, WaitReadHeader
<1> QED
  BY <1>1, <1>2, <1>3, <1>4, <1>5, <1>6, <1>7 DEF Next, DaemonSteps

(* No edge is lost: as long as the daemon lives, a caller that waits for its *)
(* answer has been noticed, and so has a connection whose caller is gone     *)
(* (sdk/src/service_daemon.c).                                               *)
THEOREM WaitersNoticed == Spec => []NobodyForgotten
<1>1. Init => WaitInv
  BY DEF Init, WaitInv, CallerInv, EdgeInv, FollowInv, NewInv
<1>2. IndInv /\ WaitInv => NobodyForgotten
  <2> SUFFICES ASSUME IndInv, WaitInv, alive, NEW c \in Clients, conn[c] = "open",
                      c \notin open \/ (pc[c] \in {"answer", "data"} /\ down[c] = <<>>)
               PROVE  Noticed(c)
    BY DEF NobodyForgotten
  <2>1. EdgeInv(c) /\ FollowInv(c) /\ ClientInv(c) /\ TypeOK
    BY DEF IndInv, WaitInv, CallerInv
  <2>2. up[c].header \/ c \notin open => Noticed(c)
    BY <2>1 DEF EdgeInv, Noticed, Readable, Nothing
  <2>3. CASE pc[c] = "answer" /\ down[c] = <<>>
    BY <2>1, <2>2, <2>3 DEF ClientInv, StageInv, StreamInv, FirstAnswer, Noticed
  <2>4. CASE pc[c] = "data" /\ down[c] = <<>>
    BY <2>1, <2>4 DEF FollowInv, Noticed
  <2> QED
    BY <2>2, <2>3, <2>4
<1> QED
  BY <1>1, <1>2, WaitStep, Inductive, PTL DEF Spec
=============================================================================
