------------------------- MODULE SharedState_proofs -------------------------
(***************************************************************************)
(* Proofs about the two protocols that share state without a lock:         *)
(* ShmTelemetry, for any set of readers and of fields, and WorkerThread,   *)
(* for any callers and any number of starts.                               *)
(***************************************************************************)
EXTENDS ShmTelemetry, WorkerThread, FiniteSetTheorems, TLAPS

-----------------------------------------------------------------------------
(* ShmTelemetry *)

USE FieldsAssumption, UnreadAssumption, SeqModAssumption, PollsAssumption, BoundAssumption

(* The payload is that of the last publication except for the fields       *)
(* already stored for the next one.                                        *)
DataInv ==
  /\ \A f \in Fields : data[f] = IF f \in stored THEN published + 1 ELSE published
  /\ daemon = "select" => stored = {}
  /\ daemon = "publish" => stored = Fields
  /\ daemon \in {"update", "writing", "publish"} => published < MaxSamples

ReaderInv ==
  \A r \in Readers :
    /\ client[r] # "done" => polls[r] > 0
    /\ client[r] # "read" => got[r] = Nothing
    /\ since[r] <= published
    /\ \A f \in Fields : got[r][f] # Unread => got[r][f] >= since[r]

(* With the flag clear only stores that overtook it are half visible, and  *)
(* that stays so when the daemon dies.                                     *)
FlagInv ==
  /\ ~is_writing /\ ~overtaken => stored \in {{}, Fields}
  /\ daemon = "writing" => is_writing
  /\ daemon \in {"select", "update", "publish"} => ~is_writing
  /\ daemon \in {"select", "writing", "publish"} => ~overtaken
  /\ daemon = "update" /\ ~overtaken => stored = {}

(* A reader that is undisturbed since its test reads what is in the region. *)
QuietInv ==
  \A r \in Readers : quiet[r] =>
    /\ ~is_writing /\ ~overtaken
    /\ \A f \in Fields : got[r][f] # Unread => got[r][f] = data[f]

IndInv == TypeOK /\ DataInv /\ FlagInv /\ ReaderInv /\ QuietInv

LEMMA InitInd == Init => IndInv
<1> SUFFICES ASSUME Init  PROVE IndInv
  OBVIOUS
<1>1. TypeOK
  <2>1. got \in [Readers -> [Fields -> Values \cup {Unread}]]
    BY DEF Init, Nothing
  <2>2. last_seq \in [Readers -> SeqNumbers] /\ current_seq \in [Readers -> SeqNumbers]
    BY DEF Init, SeqNumbers
  <2>3. polls \in [Readers -> 0 .. Polls] /\ since \in [Readers -> Values] /\ data \in [Fields -> Values]
    BY DEF Init, Values
  <2>4. /\ quiet \in [Readers -> BOOLEAN] /\ stored \in SUBSET Fields /\ overtaken \in BOOLEAN
        /\ client \in [Readers -> {"out", "connected", "poll", "check", "read", "done", "killed"}]
    BY DEF Init
  <2>5. daemon = "select" /\ published \in Values
    BY DEF Init, Values
  <2>6. is_writing \in BOOLEAN
    BY DEF Init
  <2> QED
    BY <2>1, <2>2, <2>3, <2>4, <2>5, <2>6 DEF TypeOK
<1>2. DataInv /\ FlagInv /\ ReaderInv /\ QuietInv
  BY DEF Init, DataInv, FlagInv, ReaderInv, QuietInv, Nothing
<1> QED
  BY <1>1, <1>2 DEF IndInv

(* Steps that leave the region and the readers' progress alone. *)
LEMMA ControlStep ==
  ASSUME IndInv, UNCHANGED <<region, locals, quiet>>, TypeOK',
         \A r \in Readers : client'[r] # "done" => client[r] # "done",
         \A r \in Readers : client'[r] # "read" => client[r] # "read",
         daemon' = "select" => daemon = "select",
         daemon' \in {"update", "writing", "publish"} =>
           daemon = daemon' \/ (daemon = "select" /\ published < MaxSamples),
         daemon' = "writing" => daemon = "writing",
         daemon' = "publish" => daemon = "publish"
  PROVE  IndInv'
<1>1. DataInv'
  BY DEF IndInv, DataInv, region
<1>3. FlagInv'
  <2>1. /\ UNCHANGED <<is_writing, stored, overtaken>>
        /\ daemon' \in {"select", "writing", "publish"} => daemon \in {"select", "writing", "publish"}
        /\ daemon' = "writing" => daemon = "writing"
        /\ daemon' \in {"select", "update", "publish"} => daemon \in {"select", "update", "publish"}
        /\ daemon' = "update" => daemon = "update" \/ daemon = "select"
    BY DEF region
  <2> QED
    BY <2>1 DEF IndInv, DataInv, FlagInv
<1>2. ReaderInv' /\ QuietInv'
  BY DEF IndInv, ReaderInv, QuietInv, region, locals
<1> QED
  BY <1>1, <1>2, <1>3 DEF IndInv

LEMMA SelectInd == IndInv /\ SelectTimesOut => IndInv'
<1> SUFFICES ASSUME IndInv, SelectTimesOut  PROVE IndInv'
  OBVIOUS
<1>1. TypeOK'
  BY DEF IndInv, TypeOK, SelectTimesOut, AfterSelect, region, locals
<1> QED
  BY <1>1, ControlStep DEF SelectTimesOut, AfterSelect

LEMMA ServeInd ==
  ASSUME IndInv, NEW r \in Readers, Serve(r) \/ ServeKilled(r)
  PROVE  IndInv'
<1>1. TypeOK'
  BY DEF IndInv, TypeOK, Serve, ServeKilled, Move, AfterSelect, region, locals
<1> QED
  BY <1>1, ControlStep DEF Serve, ServeKilled, Move, AfterSelect, IndInv, TypeOK

LEMMA BeginInd == IndInv /\ BeginWrite => IndInv'
<1> SUFFICES ASSUME IndInv, BeginWrite  PROVE IndInv'
  OBVIOUS
<1>1. TypeOK'
  BY DEF IndInv, TypeOK, BeginWrite, locals
<1>2. DataInv' /\ FlagInv'
  BY DEF IndInv, DataInv, FlagInv, BeginWrite
<1>3. ReaderInv' /\ QuietInv'
  BY DEF IndInv, ReaderInv, QuietInv, BeginWrite, locals
<1> QED
  BY <1>1, <1>2, <1>3 DEF IndInv

LEMMA StoreInd ==
  ASSUME IndInv, NEW f \in Fields, StoreField(f)
  PROVE  IndInv'
<1>1. TypeOK'
  BY DEF IndInv, TypeOK, DataInv, StoreField, Values, locals
<1>2. DataInv' /\ FlagInv'
  BY DEF IndInv, TypeOK, DataInv, FlagInv, StoreField
<1>3. ReaderInv' /\ QuietInv'
  BY DEF IndInv, TypeOK, FlagInv, ReaderInv, QuietInv, StoreField, locals
<1> QED
  BY <1>1, <1>2, <1>3 DEF IndInv

LEMMA EndInd == IndInv /\ EndWrite => IndInv'
<1> SUFFICES ASSUME IndInv, EndWrite  PROVE IndInv'
  OBVIOUS
<1>1. TypeOK'
  BY DEF IndInv, TypeOK, EndWrite, locals
<1>2. DataInv' /\ FlagInv'
  BY DEF IndInv, DataInv, FlagInv, EndWrite
<1>3. ReaderInv' /\ QuietInv'
  BY DEF IndInv, ReaderInv, QuietInv, EndWrite, locals
<1> QED
  BY <1>1, <1>2, <1>3 DEF IndInv

LEMMA PublishInd == IndInv /\ PublishSeq => IndInv'
<1> SUFFICES ASSUME IndInv, PublishSeq  PROVE IndInv'
  OBVIOUS
<1>1. TypeOK'
  BY DEF IndInv, TypeOK, DataInv, PublishSeq, Values, locals
<1>2. DataInv' /\ FlagInv'
  BY DEF IndInv, TypeOK, DataInv, FlagInv, PublishSeq, Values
<1>3. ReaderInv'
  BY DEF IndInv, TypeOK, ReaderInv, PublishSeq, Values, locals
<1>4. QuietInv'
  BY DEF IndInv, QuietInv, PublishSeq, locals
<1> QED
  BY <1>1, <1>2, <1>3, <1>4 DEF IndInv

LEMMA CrashInd == IndInv /\ Crash => IndInv'
<1> SUFFICES ASSUME IndInv, Crash  PROVE IndInv'
  OBVIOUS
<1>1. TypeOK'
  BY DEF IndInv, TypeOK, Crash, region, locals
<1> QED
  BY <1>1, ControlStep DEF Crash

LEMMA ArriveInd ==
  ASSUME IndInv, NEW r \in Readers, Connect(r) \/ Killed(r) \/ Disconnected(r)
  PROVE  IndInv'
<1>1. TypeOK'
  BY DEF IndInv, TypeOK, Connect, Killed, Disconnected, Move, region, locals
<1>2. PICK to \in {"connected", "done", "killed"} :
        Move(r, to) /\ client[r] \in {"out", "connected"}
          /\ UNCHANGED <<daemon, region, locals, quiet>>
  BY DEF Connect, Killed, Disconnected
<1>3. /\ \A s \in Readers : client'[s] # "done" => client[s] # "done"
      /\ \A s \in Readers : client'[s] # "read" => client[s] # "read"
  BY <1>2 DEF Move, IndInv, TypeOK
<1>4. UNCHANGED <<region, locals, quiet>> /\ daemon' = daemon
  BY <1>2
<1>5. /\ daemon' = "select" => daemon = "select"
      /\ daemon' \in {"update", "writing", "publish"} =>
           daemon = daemon' \/ (daemon = "select" /\ published < MaxSamples)
      /\ daemon' = "writing" => daemon = "writing"
      /\ daemon' = "publish" => daemon = "publish"
  BY <1>4
<1> QED
  BY <1>1, <1>3, <1>4, <1>5, ControlStep

LEMMA LoadSeqInd ==
  ASSUME IndInv, NEW r \in Readers, LoadSeq(r)
  PROVE  IndInv'
<1>1. seq_number \in SeqNumbers
  BY DEF seq_number, SeqNumbers, IndInv, TypeOK, Values
<1>2. TypeOK'
  BY <1>1 DEF IndInv, TypeOK, LoadSeq, Move, region
<1>3. DataInv' /\ FlagInv' /\ QuietInv'
  BY DEF IndInv, DataInv, FlagInv, QuietInv, LoadSeq, region
<1>4. ReaderInv'
  <2>1. got[r] = Nothing
    BY DEF IndInv, ReaderInv, LoadSeq
  <2> QED
    BY <2>1 DEF IndInv, TypeOK, ReaderInv, LoadSeq, Move, region, Nothing, Values
<1> QED
  BY <1>2, <1>3, <1>4 DEF IndInv

LEMMA TestFlagInd ==
  ASSUME IndInv, NEW r \in Readers, TestFlag(r)
  PROVE  IndInv'
<1>1. TypeOK'
  <2>1. CASE is_writing
    BY <2>1 DEF IndInv, TypeOK, TestFlag, Move, region, locals
  <2>2. CASE ~is_writing
    <3>1. quiet' \in [Readers -> BOOLEAN]
      BY <2>2 DEF IndInv, TypeOK, TestFlag
    <3> QED
      BY <2>2, <3>1 DEF IndInv, TypeOK, TestFlag, Move, region, locals
  <2> QED
    BY <2>1, <2>2
<1>2. DataInv' /\ FlagInv'
  BY DEF IndInv, DataInv, FlagInv, TestFlag, region
<1>3. ReaderInv'
  BY DEF IndInv, TypeOK, ReaderInv, TestFlag, Move, region, locals
<1>4. QuietInv'
  <2>1. got[r] = Nothing
    BY DEF IndInv, ReaderInv, TestFlag
  <2> QED
    BY <2>1 DEF IndInv, TypeOK, QuietInv, TestFlag, region, locals, Nothing
<1> QED
  BY <1>1, <1>2, <1>3, <1>4 DEF IndInv

LEMMA ReadInd ==
  ASSUME IndInv, NEW r \in Readers, NEW f \in Fields, ReadField(r, f)
  PROVE  IndInv'
<1>1. TypeOK'
  BY DEF IndInv, TypeOK, ReadField, region
<1>2. DataInv' /\ FlagInv'
  BY DEF IndInv, DataInv, FlagInv, ReadField, region
<1>3. data[f] >= since[r]
  BY DEF IndInv, TypeOK, DataInv, ReaderInv, Values
<1>4. ReaderInv'
  BY <1>3 DEF IndInv, TypeOK, ReaderInv, ReadField, region
<1>5. QuietInv'
  BY DEF IndInv, TypeOK, QuietInv, ReadField, region
<1> QED
  BY <1>1, <1>2, <1>4, <1>5 DEF IndInv

LEMMA ReportInd ==
  ASSUME IndInv, NEW r \in Readers, Report(r)
  PROVE  IndInv'
<1>1. polls[r] > 0
  BY DEF IndInv, ReaderInv, Report, Parsed
<1>2. TypeOK'
  BY <1>1 DEF IndInv, TypeOK, Report, Move, Nothing, region
<1>3. DataInv' /\ FlagInv'
  BY DEF IndInv, DataInv, FlagInv, Report, region
<1>4. ReaderInv'
  BY <1>1 DEF IndInv, TypeOK, ReaderInv, Report, Move, Nothing, region
<1>5. QuietInv'
  BY DEF IndInv, TypeOK, QuietInv, Report, Nothing, region
<1> QED
  BY <1>2, <1>3, <1>4, <1>5 DEF IndInv

LEMMA NextInd == IndInv /\ [Next]_vars => IndInv'
<1> SUFFICES ASSUME IndInv, [Next]_vars  PROVE IndInv'
  OBVIOUS
<1>1. CASE DaemonStep
  BY <1>1, SelectInd, ServeInd, BeginInd, StoreInd, EndInd, PublishInd DEF DaemonStep, Publish
<1>2. CASE Crash
  BY <1>2, CrashInd
<1>3. CASE \E r \in Readers : Connect(r) \/ Killed(r) \/ ClientStep(r)
  BY <1>3, ArriveInd, LoadSeqInd, TestFlagInd, ReadInd, ReportInd DEF ClientStep
<1>4. CASE UNCHANGED vars
  <2>1. TypeOK' /\ DataInv' /\ FlagInv'
    BY <1>4 DEF IndInv, TypeOK, DataInv, FlagInv, vars, region, locals
  <2>2. ReaderInv' /\ QuietInv'
    BY <1>4 DEF IndInv, ReaderInv, QuietInv, vars, region, locals
  <2> QED
    BY <2>1, <2>2 DEF IndInv
<1> QED
  BY <1>1, <1>2, <1>3, <1>4 DEF Next

LEMMA Inductive == Spec => []IndInv
  BY InitInd, NextInd, PTL DEF Spec

(* Every variable keeps its type; no reader counts below zero. *)
THEOREM TypeCorrect == Spec => []TypeOK
<1>1. IndInv => TypeOK
  BY DEF IndInv
<1> QED
  BY <1>1, Inductive, PTL

(* What a client parses under a sequence number is never older than that   *)
(* publication, whatever the daemon stores meanwhile.                      *)
THEOREM FreshCorrect == Spec => []FreshRead
<1>1. IndInv => FreshRead
  BY DEF IndInv, ReaderInv, FreshRead
<1> QED
  BY <1>1, Inductive, PTL

(* A reader that saw the flag clear has the fields of one publication      *)
(* unless the next one began to show before it had read the last of them.  *)
THEOREM OverlapCorrect == Spec => []TornOnlyByOverlap
<1>1. ASSUME IndInv, NEW r \in Readers, Parsed(r), quiet[r],
             NEW f \in Fields, NEW g \in Fields
      PROVE  got[r][f] = got[r][g]
  <2>1. got[r][f] = data[f] /\ got[r][g] = data[g]
    BY <1>1 DEF IndInv, QuietInv, Parsed
  <2>2. stored = {} \/ stored = Fields
    BY <1>1 DEF IndInv, QuietInv, FlagInv
  <2> QED
    BY <1>1, <2>1, <2>2 DEF IndInv, DataInv
<1>2. IndInv => TornOnlyByOverlap
  BY <1>1 DEF TornOnlyByOverlap
<1> QED
  BY <1>2, Inductive, PTL

-----------------------------------------------------------------------------
(* WorkerThread *)

USE StartsAssumption, CallersAssumption

(* Calls are made one at a time, by threads of the application. *)
OneCall ==
  /\ \A a, b \in Agents : pc[a] # "idle" /\ pc[b] # "idle" => a = b
  /\ \A w \in Workers : pc[w] = "idle"

(* The worker named in the statics is the only one there can be, and nobody *)
(* has joined it.                                                           *)
ThreadCurrent == thread \in Workers \ joined /\ Alive \subseteq {thread}

Starting(a) ==
  /\ serial[a] = starts /\ starts \in Starts
  /\ worker[starts] = "none"
  /\ Alive = {}

(* What is known at each place of a call. *)
Phase ==
  \A a \in Agents :
    /\ pc[a] \in {"config", "callback", "data", "flag"} => ~running /\ Starting(a)
    /\ pc[a] = "create" => running /\ Starting(a)
    /\ pc[a] = "clear" => running /\ ThreadCurrent
    /\ pc[a] = "join" => ~running /\ ThreadCurrent

(* What is known between calls. *)
Rest ==
  (\A a \in Agents : pc[a] = "idle") => IF running THEN ThreadCurrent ELSE Alive = {}

Past ==
  /\ \A w \in Workers : w > starts => worker[w] = "none"
  /\ \A w \in joined : worker[w] = "ended"

(* What a start has stored before it creates its worker. *)
Stored ==
  \A a \in Agents :
    /\ pc[a] \in {"data", "flag", "create"} => callback = serial[a]
    /\ pc[a] \in {"flag", "create"} => user_data = serial[a]
    /\ module = "audio" /\ pc[a] \in {"callback", "data", "flag", "create"} => config = serial[a]

(* What a worker finds in the statics and has taken from them. *)
Registration ==
  \A w \in Alive :
    /\ callback = w /\ user_data = w
    /\ InCallback(w) => given[w] = <<w, w>>
    /\ module = "audio" => config = w /\ (worker[w] # "entry" => size[w] = w)

CalmInv == OneCall /\ Phase /\ Rest /\ Past /\ Stored /\ Registration

WorkerInv == WorkerTypeOK /\ (Calm => CalmInv)

LEMMA WorkerTypeInit == WorkerInit => WorkerTypeOK
<1> SUFFICES ASSUME WorkerInit  PROVE WorkerTypeOK
  OBVIOUS
<1>1. 0 \in 0 .. MaxStarts /\ <<0, 0>> \in (0 .. MaxStarts) \X (0 .. MaxStarts)
  OBVIOUS
<1>2. /\ given \in [Workers -> (0 .. MaxStarts) \X (0 .. MaxStarts)]
      /\ size \in [Workers -> 0 .. MaxStarts]
      /\ serial \in [Agents -> 0 .. MaxStarts]
  BY <1>1 DEF WorkerInit
<1>3. /\ pc \in [Agents -> {"idle", "config", "callback", "data", "flag", "create", "clear", "join"}]
      /\ worker \in [Workers -> {"none", "entry", "test", "sleep", "call", "second", "ended"}]
  BY DEF WorkerInit
<1> QED
  BY <1>1, <1>2, <1>3 DEF WorkerInit, WorkerTypeOK

LEMMA WorkerTypeStep == WorkerTypeOK /\ [WorkerNext]_workervars => WorkerTypeOK'
<1> SUFFICES ASSUME WorkerTypeOK, [WorkerNext]_workervars  PROVE WorkerTypeOK'
  OBVIOUS
<1> USE DEF WorkerTypeOK, statics, loop, history
<1>1. CASE UNCHANGED workervars
  BY <1>1 DEF workervars
<1>2. ASSUME NEW a \in Agents, LocationStart(a) \/ AudioStart(a) \/ InputStart(a)
      PROVE  WorkerTypeOK'
  <2>1. PICK first \in {"config", "callback"} : BeginStart(a, first)
    BY <1>2 DEF LocationStart, AudioStart, InputStart
  <2>2. starts' \in 0 .. MaxStarts /\ starts' = starts + 1
    BY <2>1 DEF BeginStart
  <2> QED
    BY <2>1, <2>2 DEF BeginStart, Enter
<1>3. ASSUME NEW a \in Agents, BeginStop(a)
      PROVE  WorkerTypeOK'
  BY <1>3 DEF BeginStop, Enter
<1>4. ASSUME NEW a \in Agents, CallSteps(a)
      PROVE  WorkerTypeOK'
  <2>1. CASE SetConfig(a)
    BY <2>1 DEF SetConfig, Go
  <2>2. CASE SetCallback(a)
    BY <2>2 DEF SetCallback, Go
  <2>3. CASE SetUserData(a)
    BY <2>3 DEF SetUserData, Go
  <2>4. CASE SetRunning(a)
    BY <2>4 DEF SetRunning, Go
  <2>5. CASE Create(a)
    <3>1. worker' \in [Workers -> {"none", "entry", "test", "sleep", "call", "second", "ended"}]
      BY <2>5 DEF Create
    <3>2. serial' \in [Agents -> 0 .. MaxStarts]
      BY <2>5 DEF Create
    <3>3. thread' \in 0 .. MaxStarts
      BY <2>5 DEF Create
    <3>4. running' \in BOOLEAN
      <4>1. running' = running \/ running' = FALSE
        BY <2>5 DEF Create
      <4> QED
        BY <4>1
    <3> QED
      BY <2>5, <3>1, <3>2, <3>3, <3>4 DEF Create, Go
  <2>6. CASE ClearRunning(a)
    BY <2>6 DEF ClearRunning, Go
  <2>7. CASE Join(a)
    BY <2>7 DEF Join, Go
  <2> QED
    BY <1>4, <2>1, <2>2, <2>3, <2>4, <2>5, <2>6, <2>7 DEF CallSteps
<1>5. ASSUME NEW w \in Workers, WorkerSteps(w)
      PROVE  WorkerTypeOK'
  <2>1. CASE AudioEntry(w)
    BY <2>1 DEF AudioEntry, Step
  <2>2. CASE Test(w)
    BY <2>2 DEF Test, Step
  <2>3. CASE AudioCall(w) \/ InputCall(w) \/ LocationCall(w) \/ NmeaCall(w)
    <3>1. PICK here \in {"sleep", "call"}, there \in {"call", "second"} : Call(w, here, there)
      BY <2>3 DEF AudioCall, InputCall, LocationCall, NmeaCall
    <3>2. <<callback, user_data>> \in (0 .. MaxStarts) \X (0 .. MaxStarts)
      OBVIOUS
    <3>3. given' \in [Workers -> (0 .. MaxStarts) \X (0 .. MaxStarts)]
      BY <3>1, <3>2 DEF Call
    <3>4. worker' \in [Workers -> {"none", "entry", "test", "sleep", "call", "second", "ended"}]
      BY <3>1 DEF Call, Step
    <3> QED
      BY <3>1, <3>3, <3>4 DEF Call
  <2>4. CASE Return(w)
    BY <2>4 DEF Return, Step
  <2> QED
    BY <1>5, <2>1, <2>2, <2>3, <2>4 DEF WorkerSteps
<1> QED
  BY <1>1, <1>2, <1>3, <1>4, <1>5 DEF WorkerNext

LEMMA CalmInit == WorkerInit => CalmInv
BY DEF WorkerInit, CalmInv, OneCall, Phase, Rest, Past, Stored, Registration, Alive, Agents

(* Who has been overlapped or has stopped itself stays so. *)
LEMMA CalmBefore == [WorkerNext]_workervars /\ Calm' => Calm
<1> SUFFICES ASSUME [WorkerNext]_workervars, ~overlap', ~inside'  PROVE ~overlap /\ ~inside
  BY DEF Calm
<1> USE DEF history
<1>1. CASE UNCHANGED workervars
  BY <1>1 DEF workervars
<1>2. ASSUME NEW a \in Agents, LocationStart(a) \/ AudioStart(a) \/ InputStart(a) \/ BeginStop(a)
      PROVE  ~overlap /\ ~inside
  <2>1. PICK where : Enter(a, where)
    BY <1>2 DEF LocationStart, AudioStart, InputStart, BeginStart, BeginStop
  <2>2. ~overlap
    BY <2>1 DEF Enter
  <2>3. inside' = inside \/ inside' = (inside \/ a \in Workers)
    BY <1>2 DEF LocationStart, AudioStart, InputStart, BeginStart, BeginStop
  <2>4. ~inside
    BY <2>3
  <2> QED
    BY <2>2, <2>4
<1>3. ASSUME NEW a \in Agents, CallSteps(a)
      PROVE  ~overlap /\ ~inside
  BY <1>3 DEF CallSteps, SetConfig, SetCallback, SetUserData, SetRunning, Create, ClearRunning, Join
<1>4. ASSUME NEW w \in Workers, WorkerSteps(w)
      PROVE  ~overlap /\ ~inside
  BY <1>4 DEF WorkerSteps, AudioEntry, Test, AudioCall, InputCall, LocationCall, NmeaCall, Call, Return
<1> QED
  BY <1>1, <1>2, <1>3, <1>4 DEF WorkerNext

(* A call made in a calm state finds nobody in another. *)
LEMMA EnterAlone ==
  ASSUME WorkerTypeOK, CalmInv, Calm', NEW a \in Agents, NEW where \in {"config", "callback", "clear"},
         Enter(a, where)
  PROVE  /\ \A b \in Agents : pc[b] = "idle"
         /\ \A b \in Agents : pc'[b] = IF b = a THEN where ELSE "idle"
         /\ IF running THEN ThreadCurrent ELSE Alive = {}
<1>1. \A b \in Agents : pc[b] = "idle"
  BY DEF Calm, Enter
<1>2. \A b \in Agents : pc'[b] = IF b = a THEN where ELSE "idle"
  BY <1>1 DEF Enter, WorkerTypeOK
<1> QED
  BY <1>1, <1>2 DEF CalmInv, Rest

LEMMA BeginStartCalm ==
  ASSUME WorkerTypeOK, CalmInv, Calm', NEW a \in Agents, NEW first \in {"config", "callback"},
         first = "callback" => module # "audio", BeginStart(a, first)
  PROVE  CalmInv'
<1> USE DEF WorkerTypeOK, BeginStart, statics, loop
<1>1. /\ \A b \in Agents : pc[b] = "idle"
      /\ \A b \in Agents : pc'[b] = IF b = a THEN first ELSE "idle"
      /\ Alive = {}
  BY EnterAlone
<1>2. Alive' = {} /\ UNCHANGED <<worker, running, joined>>
  BY <1>1 DEF Alive
<1>3. a \in Callers
  BY <1>1 DEF Enter, CanCall, InCallback, Alive, Agents
<1>4. OneCall'
  BY <1>1, <1>3 DEF OneCall, Agents, Workers, Starts
<1>5. starts' = starts + 1 /\ starts' \in Starts /\ serial'[a] = starts'
  BY DEF Starts
<1>6. worker'[starts'] = "none" /\ \A w \in Workers : w > starts' => worker'[w] = "none"
  BY <1>2, <1>5 DEF CalmInv, Past, Workers
<1>7. Phase'
  BY <1>1, <1>2, <1>5, <1>6 DEF Phase, Starting
<1>8. Rest'
  BY <1>1 DEF Rest
<1>9. Past'
  BY <1>2, <1>6 DEF CalmInv, Past
<1>10. Stored'
  BY <1>1 DEF Stored
<1>11. Registration'
  BY <1>2 DEF Registration
<1> QED
  BY <1>4, <1>7, <1>8, <1>9, <1>10, <1>11 DEF CalmInv

LEMMA BeginStopCalm ==
  ASSUME WorkerTypeOK, CalmInv, Calm', NEW a \in Agents, BeginStop(a)
  PROVE  CalmInv'
<1> USE DEF WorkerTypeOK, BeginStop, statics, loop
<1>1. /\ \A b \in Agents : pc[b] = "idle"
      /\ \A b \in Agents : pc'[b] = IF b = a THEN "clear" ELSE "idle"
      /\ ThreadCurrent
  BY EnterAlone
<1>2. a \notin Workers
  BY DEF Calm
<1>3. Alive' = Alive
  BY DEF Alive
<1>4. OneCall'
  BY <1>1, <1>2 DEF OneCall, Agents
<1>5. Phase' /\ Rest'
  BY <1>1, <1>3 DEF Phase, Rest, ThreadCurrent
<1>6. Past' /\ Stored'
  BY <1>1 DEF CalmInv, Past, Stored
<1>7. Registration'
  BY <1>3 DEF CalmInv, Registration, InCallback
<1> QED
  BY <1>4, <1>5, <1>6, <1>7 DEF CalmInv

(* Whoever goes on inside a call is the only one in a call. *)
LEMMA GoAlone ==
  ASSUME WorkerTypeOK, CalmInv, NEW a \in Agents, NEW here, NEW there, here # "idle", Go(a, here, there)
  PROVE  /\ a \notin Workers /\ pc[a] = here
         /\ \A b \in Agents : pc'[b] = IF b = a THEN there ELSE "idle"
         /\ OneCall'
<1>1. a \notin Workers /\ pc[a] = here
  BY DEF CalmInv, OneCall, Go
<1>2. \A b \in Agents : b # a => pc[b] = "idle"
  BY <1>1 DEF CalmInv, OneCall
<1>3. \A b \in Agents : pc'[b] = IF b = a THEN there ELSE "idle"
  BY <1>2 DEF Go, WorkerTypeOK
<1>4. OneCall'
  BY <1>1, <1>3 DEF OneCall, Agents
<1> QED
  BY <1>1, <1>3, <1>4

(* The assignments of a start, before the worker exists. *)
LEMMA StartStepCalm ==
  ASSUME WorkerTypeOK, CalmInv, NEW a \in Agents,
         SetConfig(a) \/ SetCallback(a) \/ SetUserData(a) \/ SetRunning(a)
  PROVE  CalmInv'
<1>1. PICK here \in {"config", "callback", "data", "flag"}, there \in {"callback", "data", "flag", "create"} :
        /\ Go(a, here, there)
        /\ there = "create" <=> here = "flag"
  BY DEF SetConfig, SetCallback, SetUserData, SetRunning
<1>2. /\ pc[a] = here
      /\ \A b \in Agents : pc'[b] = IF b = a THEN there ELSE "idle"
      /\ OneCall'
  BY <1>1, GoAlone
<1>3. ~running /\ Starting(a)
  BY <1>2 DEF CalmInv, Phase
<1>4. /\ UNCHANGED <<module, starts, serial, worker, joined>>
      /\ running' = IF here = "flag" THEN TRUE ELSE running
  BY <1>2 DEF SetConfig, SetCallback, SetUserData, SetRunning, loop, Go
<1>5. Alive' = {} /\ Starting(a)'
  BY <1>3, <1>4 DEF Alive, Starting
<1>6. Phase'
  BY <1>1, <1>2, <1>3, <1>4, <1>5 DEF Phase
<1>7. Rest'
  BY <1>1, <1>2 DEF Rest
<1>8. Past'
  BY <1>4 DEF CalmInv, Past
<1>9. Stored'
  <2>1. \A b \in Agents : b # a => pc'[b] = "idle"
    BY <1>2
  <2>2. CASE SetConfig(a)
    BY <1>2, <2>1, <2>2 DEF CalmInv, Stored, SetConfig, Go
  <2>3. CASE SetCallback(a)
    BY <1>2, <2>1, <2>3 DEF CalmInv, Stored, SetCallback, Go
  <2>4. CASE SetUserData(a)
    BY <1>2, <2>1, <2>4 DEF CalmInv, Stored, SetUserData, Go
  <2>5. CASE SetRunning(a)
    BY <1>2, <2>1, <2>5 DEF CalmInv, Stored, SetRunning, Go
  <2> QED
    BY <2>2, <2>3, <2>4, <2>5
<1>10. Registration'
  BY <1>5 DEF Registration
<1> QED
  BY <1>2, <1>6, <1>7, <1>8, <1>9, <1>10 DEF CalmInv

(* The worker created is the one of the start that is current. *)
LEMMA CreateCalm ==
  ASSUME WorkerTypeOK, CalmInv, NEW a \in Agents, Create(a)
  PROVE  CalmInv'
<1>1. /\ pc[a] = "create"
      /\ \A b \in Agents : pc'[b] = "idle"
      /\ OneCall'
  BY GoAlone DEF Create
<1>2. running /\ Starting(a) /\ serial[a] \in Workers
  BY <1>1 DEF CalmInv, Phase, Starting, Workers
<1>3. /\ callback = serial[a] /\ user_data = serial[a]
      /\ module = "audio" => config = serial[a]
  BY <1>1 DEF CalmInv, Stored
<1>4. UNCHANGED <<module, starts, config, callback, user_data, size, given, joined>>
  BY DEF Create
<1>5. Phase' /\ Stored'
  BY <1>1 DEF Phase, Stored
<1>6. CASE UNCHANGED <<thread, worker>> /\ running' = FALSE
  <2>1. Alive' = {}
    BY <1>2, <1>6 DEF Alive, Starting
  <2>2. Rest' /\ Registration'
    BY <1>6, <2>1 DEF Rest, Registration
  <2>3. Past'
    BY <1>4, <1>6 DEF CalmInv, Past
  <2> QED
    BY <1>1, <1>5, <2>2, <2>3 DEF CalmInv
<1>7. CASE /\ thread' = serial[a] /\ UNCHANGED running
           /\ worker' = [worker EXCEPT ![serial[a]] = IF module = "audio" THEN "entry" ELSE "test"]
  <2>1. \A w \in Workers : worker'[w] = IF w # serial[a] THEN worker[w]
                                        ELSE IF module = "audio" THEN "entry" ELSE "test"
    BY <1>7 DEF WorkerTypeOK
  <2>2. Alive' = {serial[a]}
    BY <1>2, <2>1 DEF Alive, Starting
  <2>3. serial[a] \notin joined
    BY <1>2 DEF CalmInv, Past, Starting
  <2>4. Rest'
    BY <1>2, <1>4, <1>7, <2>2, <2>3 DEF Rest, ThreadCurrent
  <2>5. Past'
    <3>1. \A w \in Workers : w > starts => worker'[w] = "none"
      <4> SUFFICES ASSUME NEW w \in Workers, w > starts  PROVE worker'[w] = "none"
        OBVIOUS
      <4>1. w # serial[a]
        BY <1>2 DEF Starting, Workers, Starts
      <4>2. worker[w] = "none"
        BY DEF CalmInv, Past
      <4> QED
        BY <2>1, <4>1, <4>2
    <3>2. \A w \in joined : worker'[w] = "ended"
      BY <2>1, <2>3 DEF CalmInv, Past, WorkerTypeOK
    <3> QED
      BY <1>4, <3>1, <3>2 DEF Past
  <2>6. Registration'
    BY <1>2, <1>3, <1>4, <2>1, <2>2 DEF Registration, InCallback
  <2> QED
    BY <1>1, <1>5, <2>4, <2>5, <2>6 DEF CalmInv
<1> QED
  BY <1>6, <1>7 DEF Create

LEMMA ClearCalm ==
  ASSUME WorkerTypeOK, CalmInv, NEW a \in Agents, ClearRunning(a)
  PROVE  CalmInv'
<1>1. /\ pc[a] = "clear"
      /\ \A b \in Agents : pc'[b] = IF b = a THEN "join" ELSE "idle"
      /\ OneCall'
  BY GoAlone DEF ClearRunning
<1>2. ThreadCurrent /\ ~running'
  BY <1>1 DEF CalmInv, Phase, ClearRunning
<1>3. /\ UNCHANGED <<module, starts, config, callback, user_data, thread, worker, size, given, joined>>
      /\ Alive' = Alive
  BY DEF ClearRunning, loop, Alive
<1>4. Phase' /\ Rest' /\ Stored'
  BY <1>1, <1>2, <1>3 DEF Phase, Rest, Stored, ThreadCurrent
<1>5. Past' /\ Registration'
  BY <1>3 DEF CalmInv, Past, Registration, InCallback
<1> QED
  BY <1>1, <1>4, <1>5 DEF CalmInv

(* join waits for the only worker that can be alive. *)
LEMMA JoinCalm ==
  ASSUME WorkerTypeOK, CalmInv, NEW a \in Agents, Join(a)
  PROVE  CalmInv'
<1>1. /\ pc[a] = "join" /\ a \notin Workers
      /\ \A b \in Agents : pc'[b] = "idle"
      /\ OneCall'
  BY GoAlone DEF Join
<1>2. ~running /\ ThreadCurrent
  BY <1>1 DEF CalmInv, Phase
<1>3. worker[thread] = "ended"
  BY <1>1, <1>2 DEF Join, ThreadCurrent
<1>4. Alive = {}
  BY <1>2, <1>3 DEF Alive, ThreadCurrent
<1>5. /\ UNCHANGED <<module, starts, running, worker>>
      /\ joined' = joined \cup {thread}
  BY <1>1, <1>2 DEF Join, statics, loop, ThreadCurrent
<1>6. Alive' = {}
  BY <1>4, <1>5 DEF Alive
<1>7. Phase' /\ Stored' /\ Rest' /\ Registration'
  BY <1>1, <1>2, <1>5, <1>6 DEF Phase, Stored, Rest, Registration
<1>8. Past'
  BY <1>3, <1>5 DEF CalmInv, Past
<1> QED
  BY <1>1, <1>7, <1>8 DEF CalmInv

(* A worker that is alive stays alone, whatever it does. *)
LEMMA AliveStep ==
  ASSUME WorkerTypeOK, CalmInv, NEW w \in Alive, NEW place, worker' = [worker EXCEPT ![w] = place],
         place # "none", UNCHANGED <<module, starts, statics, pc, serial, joined>>
  PROVE  OneCall' /\ Phase' /\ Rest' /\ Past' /\ Stored'
<1>1. w \in Workers /\ \A v \in Workers : worker'[v] = IF v = w THEN place ELSE worker[v]
  BY DEF Alive, WorkerTypeOK
<1>2. Alive' \subseteq Alive
  BY <1>1 DEF Alive
<1>3. ThreadCurrent => ThreadCurrent'
  BY <1>2 DEF ThreadCurrent, statics
<1>4. \A a \in Agents : Starting(a) => FALSE
  BY DEF Starting
<1>5. OneCall' /\ Stored'
  BY DEF CalmInv, OneCall, Stored, statics
<1>6. Phase'
  BY <1>3, <1>4 DEF CalmInv, Phase, statics
<1>7. Rest'
  BY <1>2, <1>3 DEF CalmInv, Rest, statics
<1>8. Past'
  BY <1>1 DEF CalmInv, Past, Alive, WorkerTypeOK
<1> QED
  BY <1>5, <1>6, <1>7, <1>8

LEMMA WorkerStepCalm ==
  ASSUME WorkerTypeOK, CalmInv, NEW w \in Workers, WorkerSteps(w)
  PROVE  CalmInv'
<1>1. /\ w \in Alive /\ UNCHANGED <<module, starts, statics, pc, serial, joined>>
      /\ \E place : worker' = [worker EXCEPT ![w] = place] /\ place # "none"
  BY DEF WorkerSteps, AudioEntry, Test, AudioCall, InputCall, LocationCall, NmeaCall, Call, Return, Step,
         Alive
<1>2. OneCall' /\ Phase' /\ Rest' /\ Past' /\ Stored'
  BY <1>1, AliveStep
<1>3. callback = w /\ user_data = w /\ (module = "audio" => config = w)
  BY <1>1 DEF CalmInv, Registration
<1>4. Alive' \subseteq {w}
  <2>1. Alive \subseteq {w}
    BY <1>1 DEF CalmInv, Registration
  <2> QED
    BY <1>1, <2>1 DEF Alive, WorkerTypeOK
<1>5. ASSUME InCallback(w)'
      PROVE  given'[w] = <<w, w>>
  <2>1. CASE AudioCall(w) \/ InputCall(w) \/ LocationCall(w) \/ NmeaCall(w)
    BY <1>3, <2>1 DEF AudioCall, InputCall, LocationCall, NmeaCall, Call, WorkerTypeOK
  <2>2. CASE AudioEntry(w) \/ Test(w) \/ Return(w)
    BY <1>5, <2>2 DEF AudioEntry, Test, Return, Step, InCallback, WorkerTypeOK
  <2> QED
    BY <2>1, <2>2 DEF WorkerSteps
<1>6. ASSUME module = "audio", w \in Alive', worker'[w] # "entry"
      PROVE  size'[w] = w
  <2>1. CASE AudioEntry(w)
    BY <1>3, <1>6, <2>1 DEF AudioEntry, WorkerTypeOK
  <2>2. CASE ~ AudioEntry(w)
    <3>1. UNCHANGED size /\ worker[w] # "entry"
      BY <2>2 DEF WorkerSteps, Test, AudioCall, InputCall, LocationCall, NmeaCall, Call, Return, Step
    <3> QED
      BY <1>1, <1>6, <3>1 DEF CalmInv, Registration
  <2> QED
    BY <2>1, <2>2
<1>7. Registration'
  BY <1>1, <1>3, <1>4, <1>5, <1>6 DEF Registration, statics
<1> QED
  BY <1>2, <1>7 DEF CalmInv

LEMMA WorkerInductive == WorkerInv /\ [WorkerNext]_workervars => WorkerInv'
<1> SUFFICES ASSUME WorkerInv, [WorkerNext]_workervars, Calm'  PROVE CalmInv'
  BY WorkerTypeStep DEF WorkerInv
<1>1. WorkerTypeOK /\ CalmInv
  BY CalmBefore DEF WorkerInv
<1>2. CASE UNCHANGED workervars
  BY <1>1, <1>2 DEF workervars, statics, loop, CalmInv, OneCall, Phase, Starting, Rest, Past, Stored,
                    Registration, ThreadCurrent, Alive, InCallback
<1>3. ASSUME NEW a \in Agents, LocationStart(a) \/ AudioStart(a) \/ InputStart(a)
      PROVE  CalmInv'
  <2>1. PICK first \in {"config", "callback"} :
          BeginStart(a, first) /\ (first = "callback" => module # "audio")
    BY <1>3 DEF LocationStart, AudioStart, InputStart
  <2> QED
    BY <1>1, <2>1, BeginStartCalm
<1>4. ASSUME NEW a \in Agents, BeginStop(a)
      PROVE  CalmInv'
  BY <1>1, <1>4, BeginStopCalm
<1>5. ASSUME NEW a \in Agents, CallSteps(a)
      PROVE  CalmInv'
  BY <1>1, <1>5, StartStepCalm, CreateCalm, ClearCalm, JoinCalm DEF CallSteps
<1>6. ASSUME NEW w \in Workers, WorkerSteps(w)
      PROVE  CalmInv'
  BY <1>1, <1>6, WorkerStepCalm
<1> QED
  BY <1>2, <1>3, <1>4, <1>5, <1>6 DEF WorkerNext

LEMMA WorkerInvariant == WorkerSpec => []WorkerInv
<1>1. WorkerInit => WorkerInv
  BY WorkerTypeInit, CalmInit DEF WorkerInv
<1> QED
  BY <1>1, WorkerInductive, PTL DEF WorkerSpec

\* Every reachable state of the worker modules is well typed.
THEOREM WorkerTypeCorrect == WorkerSpec => []WorkerTypeOK
<1>1. WorkerInv => WorkerTypeOK
  BY DEF WorkerInv
<1> QED
  BY <1>1, WorkerInvariant, PTL

\* As long as calls come one after the other and no callback stops its own
\* module there is at most one worker, none once stop has returned, and a stop
\* names a thread that exists and that nobody has joined.
THEOREM OneWorkerCorrect == WorkerSpec => []OneWorker
<1>1. ASSUME WorkerInv  PROVE OneWorker
  <2> SUFFICES ASSUME Calm  PROVE
        /\ Cardinality(Alive) <= 1
        /\ (~running /\ \A a \in Agents : pc[a] = "idle") => Alive = {}
        /\ \A a \in Agents : pc[a] \in {"clear", "join"} => thread \in Workers \ joined
    BY DEF OneWorker
  <2>1. CalmInv
    BY <1>1 DEF WorkerInv
  <2>2. Alive \subseteq {callback}
    BY <2>1 DEF CalmInv, Registration
  <2>3. Cardinality(Alive) <= 1
    <3>1. IsFiniteSet({callback}) /\ Cardinality({callback}) = 1
      BY FS_Singleton
    <3>2. IsFiniteSet(Alive) /\ Cardinality(Alive) <= Cardinality({callback})
      BY <2>2, <3>1, FS_Subset
    <3> QED
      BY <3>1, <3>2
  <2>4. (~running /\ \A a \in Agents : pc[a] = "idle") => Alive = {}
    BY <2>1 DEF CalmInv, Rest
  <2>5. \A a \in Agents : pc[a] \in {"clear", "join"} => thread \in Workers \ joined
    BY <2>1 DEF CalmInv, Phase, ThreadCurrent
  <2> QED
    BY <2>3, <2>4, <2>5
<1> QED
  BY <1>1, WorkerInvariant, PTL

\* As long as calls come one after the other and no callback stops its own
\* module, a callback is called with the user data registered with it, by the
\* worker created for them, with a buffer of the size that goes with them.
THEOREM RegistrationCorrect == WorkerSpec => []OwnRegistration
<1>1. ASSUME WorkerInv  PROVE OwnRegistration
  BY <1>1 DEF WorkerInv, CalmInv, Registration, OwnRegistration, Alive, InCallback
<1> QED
  BY <1>1, WorkerInvariant, PTL
=============================================================================
