---------------------------- MODULE WorkerThread ----------------------------
(***************************************************************************)
(* The three modules that run a callback on a thread of their own:         *)
(* sdk/src/location.c, audio.c (capture) and input.c.  Each keeps a flag,  *)
(* a callback with its user data and the identity of one thread, in        *)
(* statics that no lock protects.  start sets them and creates the thread; *)
(* stop clears the flag and joins it.                                      *)
(* Any thread may call, and so may the callback.  The three differ in what *)
(* is copied first (audio) and in how many callbacks a round makes         *)
(* (location).  Accesses are sequentially consistent: the flag is volatile *)
(* and the rest is written before it.                                      *)
(***************************************************************************)
EXTENDS Integers, FiniteSets

CONSTANTS
  Callers,    \* threads of the application
  MaxStarts   \* bound: accepted calls of start

ASSUME StartsAssumption  == MaxStarts \in Nat \ {0}
ASSUME CallersAssumption == Callers \cap (1 .. MaxStarts) = {}

\* An accepted start has a number, and so does the worker it creates.
Starts  == 1 .. MaxStarts
Workers == Starts
Agents  == Callers \cup Workers

VARIABLES
  module,      \* which of the three
  starts,      \* accepted starts
  running,     \* g_running, g_capture_running, g_input_running
  config,      \* g_audio_config, by the start it belongs to (0: none)
  callback,    \* g_loc_cb and g_nmea_cb, g_capture_cb, g_input_cb
  user_data,
  thread,      \* g_loc_thread, g_capture_thread, g_input_thread
  pc,          \* where each agent is in start or stop
  serial,      \* the number of the start each agent is in
  worker,      \* where each worker is in its loop
  size,        \* the configuration the worker's buffer was allocated for
  given,       \* the callback and user data of the call in progress
  joined,
  overlap,     \* history: a call was made while another was in progress
  inside       \* history: the callback stopped its own module

statics == <<running, config, callback, user_data, thread>>
loop    == <<worker, size, given>>
history == <<overlap, inside>>
workervars    == <<module, starts, statics, pc, serial, loop, joined, history>>

WorkerTypeOK ==
  /\ module \in {"location", "audio", "input"}
  /\ starts \in 0 .. MaxStarts
  /\ running \in BOOLEAN
  /\ config \in 0 .. MaxStarts
  /\ callback \in 0 .. MaxStarts
  /\ user_data \in 0 .. MaxStarts
  /\ thread \in 0 .. MaxStarts
  /\ pc \in [Agents -> {"idle", "config", "callback", "data", "flag", "create", "clear", "join"}]
  /\ serial \in [Agents -> 0 .. MaxStarts]
  /\ worker \in [Workers -> {"none", "entry", "test", "sleep", "call", "second", "ended"}]
  /\ size \in [Workers -> 0 .. MaxStarts]
  /\ given \in [Workers -> (0 .. MaxStarts) \X (0 .. MaxStarts)]
  /\ joined \in SUBSET Workers
  /\ overlap \in BOOLEAN
  /\ inside \in BOOLEAN

WorkerInit ==
  /\ module \in {"location", "audio", "input"}
  /\ starts = 0
  /\ running = FALSE
  /\ config = 0 /\ callback = 0 /\ user_data = 0 /\ thread = 0
  /\ pc = [a \in Agents |-> "idle"]
  /\ serial = [a \in Agents |-> 0]
  /\ worker = [w \in Workers |-> "none"]
  /\ size = [w \in Workers |-> 0]
  /\ given = [w \in Workers |-> <<0, 0>>]
  /\ joined = {}
  /\ overlap = FALSE /\ inside = FALSE

-----------------------------------------------------------------------------
(* start and stop *)

InCallback(w) == worker[w] \in {"call", "second"}

\* who can make a call: a thread of the application, or a worker's callback
CanCall(a) == pc[a] = "idle" /\ (a \in Workers => InCallback(a))

Enter(a, where) ==
  /\ CanCall(a)
  /\ pc' = [pc EXCEPT ![a] = where]
  /\ overlap' = (overlap \/ \E b \in Agents : pc[b] # "idle")

Go(a, here, there) == pc[a] = here /\ pc' = [pc EXCEPT ![a] = there]

\* a start that finds the flag set returns at once and is left out
BeginStart(a, first) ==
  /\ ~running /\ starts < MaxStarts
  /\ Enter(a, first)
  /\ starts' = starts + 1
  /\ serial' = [serial EXCEPT ![a] = starts + 1]
  /\ UNCHANGED <<module, statics, loop, joined, inside>>

LocationStart(a) == module = "location" /\ BeginStart(a, "callback")

AudioStart(a) == module = "audio" /\ BeginStart(a, "config")

InputStart(a) == module = "input" /\ BeginStart(a, "callback")

\* audio copies its configuration first
SetConfig(a) ==
  /\ Go(a, "config", "callback")
  /\ config' = serial[a]
  /\ UNCHANGED <<module, starts, running, callback, user_data, thread, serial, loop, joined, history>>

SetCallback(a) ==
  /\ Go(a, "callback", "data")
  /\ callback' = serial[a]
  /\ UNCHANGED <<module, starts, running, config, user_data, thread, serial, loop, joined, history>>

\* mutant: the user data of the last start is kept
KeepUserData(a) ==
  /\ Go(a, "data", "flag")
  /\ UNCHANGED <<module, starts, statics, serial, loop, joined, history>>

SetUserData(a) ==
  /\ Go(a, "data", "flag")
  /\ user_data' = serial[a]
  /\ UNCHANGED <<module, starts, running, config, callback, thread, serial, loop, joined, history>>

SetRunning(a) ==
  /\ Go(a, "flag", "create")
  /\ running' = TRUE
  /\ UNCHANGED <<module, starts, config, callback, user_data, thread, serial, loop, joined, history>>

\* pthread_create, which can fail
Create(a) ==
  /\ Go(a, "create", "idle")
  /\ \/ /\ thread' = serial[a]
        /\ worker' = [worker EXCEPT ![serial[a]] = IF module = "audio" THEN "entry" ELSE "test"]
        /\ UNCHANGED running
     \/ /\ running' = FALSE
        /\ UNCHANGED <<thread, worker>>
  /\ serial' = [serial EXCEPT ![a] = 0]
  /\ UNCHANGED <<module, starts, config, callback, user_data, size, given, joined, history>>

\* a stop that finds the flag clear returns at once and is left out
BeginStop(a) ==
  /\ running
  /\ Enter(a, "clear")
  /\ inside' = (inside \/ a \in Workers)
  /\ UNCHANGED <<module, starts, statics, serial, loop, joined>>

\* mutant: the flag is left set
JoinOnly(a) ==
  /\ Go(a, "clear", "join")
  /\ UNCHANGED <<module, starts, statics, serial, loop, joined, history>>

ClearRunning(a) ==
  /\ Go(a, "clear", "join")
  /\ running' = FALSE
  /\ UNCHANGED <<module, starts, config, callback, user_data, thread, serial, loop, joined, history>>

\* mutant: the worker is told to end and not waited for
NoJoin(a) ==
  /\ Go(a, "join", "idle")
  /\ joined' = joined \cup ({thread} \cap Workers)
  /\ UNCHANGED <<module, starts, statics, serial, loop, history>>

\* The thread that is current now, which need not be the one the flag was
\* cleared for.  A thread that joins itself is refused (EDEADLK), which is not
\* looked at.  Joining a thread twice has no meaning; here it is refused too.
Join(a) ==
  /\ Go(a, "join", "idle")
  /\ thread \in Workers \ (joined \cup {a}) => worker[thread] = "ended"
  /\ joined' = joined \cup (({thread} \cap Workers) \ {a})
  /\ UNCHANGED <<module, starts, statics, serial, loop, history>>

-----------------------------------------------------------------------------
(* the workers *)

Step(w, here, there) == worker[w] = here /\ worker' = [worker EXCEPT ![w] = there]

\* audio_capture_worker allocates its buffer for the current configuration
AudioEntry(w) ==
  /\ Step(w, "entry", "test")
  /\ size' = [size EXCEPT ![w] = config]
  /\ UNCHANGED <<module, starts, statics, pc, serial, given, joined, history>>

Test(w) ==
  /\ Step(w, "test", IF running THEN "sleep" ELSE "ended")
  /\ UNCHANGED <<module, starts, statics, pc, serial, size, given, joined, history>>

Call(w, here, there) ==
  /\ Step(w, here, there)
  /\ given' = [given EXCEPT ![w] = <<callback, user_data>>]
  /\ UNCHANGED <<module, starts, statics, pc, serial, size, joined, history>>

AudioCall(w) == module = "audio" /\ Call(w, "sleep", "call")

InputCall(w) == module = "input" /\ Call(w, "sleep", "call")

LocationCall(w) == module = "location" /\ Call(w, "sleep", "call")

\* the NMEA callback follows the position callback without another test
NmeaCall(w) ==
  /\ module = "location" /\ pc[w] = "idle"
  /\ Call(w, "call", "second")

Return(w) ==
  /\ pc[w] = "idle"
  /\ IF module = "location" THEN Step(w, "second", "test") ELSE Step(w, "call", "test")
  /\ given' = [given EXCEPT ![w] = <<0, 0>>]
  /\ UNCHANGED <<module, starts, statics, pc, serial, size, joined, history>>

-----------------------------------------------------------------------------
\* the steps of a call once it has been made
CallSteps(a) ==
  \/ SetConfig(a) \/ SetCallback(a) \/ SetUserData(a) \/ SetRunning(a) \/ Create(a)
  \/ ClearRunning(a) \/ Join(a)

WorkerSteps(w) ==
  \/ AudioEntry(w) \/ Test(w) \/ AudioCall(w) \/ InputCall(w) \/ LocationCall(w)
  \/ NmeaCall(w) \/ Return(w)

WorkerNext ==
  \/ \E a \in Agents : LocationStart(a) \/ AudioStart(a) \/ InputStart(a) \/ BeginStop(a)
  \/ \E a \in Agents : CallSteps(a)
  \/ \E w \in Workers : WorkerSteps(w)

WorkerSpec == WorkerInit /\ [][WorkerNext]_workervars

\* Every thread goes on inside a call and every worker in its loop: callbacks
\* return.  Nobody has to start or stop anything.
WorkerFairSpec ==
  /\ WorkerSpec
  /\ \A a \in Agents : WF_workervars(CallSteps(a))
  /\ \A w \in Workers : WF_workervars(WorkerSteps(w))

-----------------------------------------------------------------------------
(* properties *)

Alive == {w \in Workers : worker[w] \notin {"none", "ended"}}

\* Calls came one after the other and none of them stopped the module from its
\* own callback.
Calm == ~overlap /\ ~inside

\* Then there is one worker at a time, and none when the module is stopped: once
\* stop has returned no callback runs or will run.  A stop names a thread that
\* exists and that nobody has joined.
OneWorker ==
  Calm =>
    /\ Cardinality(Alive) <= 1
    /\ (~running /\ \A a \in Agents : pc[a] = "idle") => Alive = {}
    /\ \A a \in Agents : pc[a] \in {"clear", "join"} => thread \in Workers \ joined

\* Then a callback is called with the user data registered with it, by the
\* thread created for them, with a buffer of the size that goes with them.
OwnRegistration ==
  Calm => \A w \in Workers : InCallback(w) =>
            /\ given[w] = <<w, w>>
            /\ module = "audio" => size[w] = w

\* Then stop returns, whatever the worker was doing.
StopCompletes ==
  \A a \in Agents : (pc[a] = "join" /\ Calm) ~> (pc[a] = "idle" \/ ~Calm)
=============================================================================
