---------------------------- MODULE ShmTelemetry ----------------------------
(***************************************************************************)
(* Shared-memory telemetry: sdk/src/shm_daemon.c publishes samples in a    *)
(* SharedStateBuffer and hands its descriptor to clients that connect;     *)
(* each client (sdk/src/shm_client.c) maps it and polls.  A sample number  *)
(* stands for the values of one publication.  seq_number and is_writing    *)
(* are atomics; the payload is plain memory, so the fields of a sample     *)
(* become visible in any order, and on ARM64 also before the flag store    *)
(* that precedes them in the program (a release store does not hold back   *)
(* later stores), but never after the flag store that follows them.        *)
(* The region of a restarted daemon is a new one: this is the life of one. *)
(***************************************************************************)
EXTENDS Integers, FiniteSets

CONSTANTS
  Readers,     \* client processes
  Fields,      \* payload fields: timestamp_ns, accelerometer, ...
  Unread,      \* the value of a field not read yet
  SeqMod,      \* 2^32: seq_number is a uint32_t
  Polls,       \* samples a client reads before it leaves
  MaxSamples   \* bound: publications

ASSUME FieldsAssumption == Fields # {}
ASSUME UnreadAssumption == Unread \notin Nat
ASSUME SeqModAssumption == SeqMod \in Nat /\ SeqMod > 1
ASSUME PollsAssumption  == Polls \in Nat \ {0}
ASSUME BoundAssumption  == MaxSamples \in Nat

VARIABLES
  daemon,      \* where the loop of the daemon stands
  published,   \* publications so far; seq_number is its residue
  is_writing,
  data,        \* for each field the sample its value belongs to
  stored,      \* the fields of the next sample that are visible already
  overtaken,   \* history: some of them were before the flag of that sample
  client,      \* where each client stands
  current_seq, last_seq, polls,   \* the locals of each client
  since,       \* history: published when current_seq was loaded
  got,         \* what it has read of the sample it parses
  quiet        \* history: no publication began to show since it saw the flag clear

region == <<published, is_writing, data, stored, overtaken>>
locals == <<current_seq, last_seq, polls, since, got>>
vars   == <<daemon, region, client, locals, quiet>>

Values == 0 .. MaxSamples
SeqNumbers == 0 .. SeqMod - 1

TypeOK ==
  /\ daemon \in {"select", "update", "writing", "publish", "dead"}
  /\ published \in Values
  /\ is_writing \in BOOLEAN
  /\ data \in [Fields -> Values]
  /\ stored \in SUBSET Fields
  /\ overtaken \in BOOLEAN
  /\ client \in [Readers -> {"out", "connected", "poll", "check", "read", "done", "killed"}]
  /\ current_seq \in [Readers -> SeqNumbers]
  /\ last_seq \in [Readers -> SeqNumbers]
  /\ polls \in [Readers -> 0 .. Polls]
  /\ since \in [Readers -> Values]
  /\ got \in [Readers -> [Fields -> Values \cup {Unread}]]
  /\ quiet \in [Readers -> BOOLEAN]

seq_number == published % SeqMod
Nothing == [f \in Fields |-> Unread]

Init ==
  /\ daemon = "select"
  /\ published = 0 /\ is_writing = FALSE
  /\ data = [f \in Fields |-> 0] /\ stored = {} /\ overtaken = FALSE
  /\ client = [r \in Readers |-> "out"]
  /\ current_seq = [r \in Readers |-> 0]
  /\ last_seq = [r \in Readers |-> SeqMod - 1]   \* 0xFFFFFFFF
  /\ polls = [r \in Readers |-> Polls]
  /\ since = [r \in Readers |-> 0]
  /\ got = [r \in Readers |-> Nothing]
  /\ quiet = [r \in Readers |-> FALSE]

-----------------------------------------------------------------------------
(* the loop of the daemon *)

Move(r, to) == client' = [client EXCEPT ![r] = to]

(* at the bound the daemon goes on serving but measures no more *)
AfterSelect == IF published < MaxSamples THEN "update" ELSE "select"

SelectTimesOut ==
  /\ daemon = "select"
  /\ daemon' = AfterSelect
  /\ UNCHANGED <<region, client, locals, quiet>>

(* mutant: the connection is neither served nor closed *)
ServeForgets(r) ==
  /\ daemon = "select" /\ client[r] = "connected"
  /\ daemon' = AfterSelect
  /\ UNCHANGED <<region, client, locals, quiet>>

(* accept, send_fd, close: the client gets the descriptor, or the end of   *)
(* the stream when sendmsg fails                                           *)
Serve(r) ==
  /\ daemon = "select" /\ client[r] = "connected"
  /\ daemon' = AfterSelect
  /\ \E to \in {"poll", "done"} : Move(r, to)
  /\ UNCHANGED <<region, locals, quiet>>

(* The connection of a client that was killed is accepted all the same;    *)
(* sendmsg without MSG_NOSIGNAL then raises SIGPIPE, which nothing handles. *)
ServeKilled(r) ==
  /\ daemon = "select" /\ client[r] = "killed"
  /\ daemon' = "dead"
  /\ UNCHANGED <<region, client, locals, quiet>>

(* mutant: the sequence number is stored ahead of the payload *)
BeginWritePublishes ==
  /\ daemon = "update"
  /\ is_writing' = TRUE
  /\ published' = published + 1
  /\ overtaken' = FALSE
  /\ quiet' = [r \in Readers |-> FALSE]
  /\ daemon' = "writing"
  /\ UNCHANGED <<data, stored, client, locals>>

BeginWrite ==
  /\ daemon = "update"
  /\ is_writing' = TRUE
  /\ overtaken' = FALSE
  /\ quiet' = [r \in Readers |-> FALSE]
  /\ daemon' = "writing"
  /\ UNCHANGED <<published, data, stored, client, locals>>

StoreField(f) ==
  /\ daemon \in {"update", "writing"}
  /\ f \notin stored
  /\ data' = [data EXCEPT ![f] = published + 1]
  /\ stored' = stored \cup {f}
  /\ overtaken' = (overtaken \/ daemon = "update")
  /\ quiet' = [r \in Readers |-> quiet[r] /\ daemon # "update"]
  /\ UNCHANGED <<daemon, published, is_writing, client, locals>>

EndWrite ==
  /\ daemon = "writing"
  /\ stored = Fields
  /\ is_writing' = FALSE
  /\ daemon' = "publish"
  /\ UNCHANGED <<published, data, stored, overtaken, client, locals, quiet>>

PublishSeq ==
  /\ daemon = "publish"
  /\ published' = published + 1
  /\ stored' = {}
  /\ daemon' = "select"
  /\ UNCHANGED <<is_writing, data, overtaken, client, locals, quiet>>

Crash ==
  /\ daemon # "dead"
  /\ daemon' = "dead"
  /\ UNCHANGED <<region, client, locals, quiet>>

Publish == BeginWrite \/ (\E f \in Fields : StoreField(f)) \/ EndWrite \/ PublishSeq

DaemonStep ==
  \/ SelectTimesOut \/ Publish
  \/ \E r \in Readers : Serve(r) \/ ServeKilled(r)

-----------------------------------------------------------------------------
(* a client *)

Connect(r) ==
  /\ client[r] = "out" /\ daemon # "dead"
  /\ Move(r, "connected")
  /\ UNCHANGED <<daemon, region, locals, quiet>>

(* receive_fd returns -1 when the daemon has died *)
Disconnected(r) ==
  /\ client[r] = "connected" /\ daemon = "dead"
  /\ Move(r, "done")
  /\ UNCHANGED <<daemon, region, locals, quiet>>

Killed(r) ==
  /\ client[r] = "connected"
  /\ Move(r, "killed")
  /\ UNCHANGED <<daemon, region, locals, quiet>>

LoadSeq(r) ==
  /\ client[r] = "poll"
  /\ seq_number # last_seq[r]
  /\ current_seq' = [current_seq EXCEPT ![r] = seq_number]
  /\ since' = [since EXCEPT ![r] = published]
  /\ Move(r, "check")
  /\ UNCHANGED <<daemon, region, last_seq, polls, got, quiet>>

(* mutant: a new sequence number is taken for a finished publication *)
TestFlagIgnored(r) ==
  /\ client[r] = "check"
  /\ Move(r, "read")
  /\ quiet' = [quiet EXCEPT ![r] = ~overtaken]
  /\ UNCHANGED <<daemon, region, locals>>

TestFlag(r) ==
  /\ client[r] = "check"
  /\ IF is_writing
     THEN Move(r, "poll") /\ UNCHANGED quiet
     ELSE Move(r, "read") /\ quiet' = [quiet EXCEPT ![r] = ~overtaken]
  /\ UNCHANGED <<daemon, region, locals>>

ReadField(r, f) ==
  /\ client[r] = "read"
  /\ got[r][f] = Unread
  /\ got' = [got EXCEPT ![r][f] = data[f]]
  /\ UNCHANGED <<daemon, region, client, current_seq, last_seq, polls, since, quiet>>

Parsed(r) == client[r] = "read" /\ \A f \in Fields : got[r][f] # Unread

Report(r) ==
  /\ Parsed(r)
  /\ last_seq' = [last_seq EXCEPT ![r] = current_seq[r]]
  /\ polls' = [polls EXCEPT ![r] = @ - 1]
  /\ Move(r, IF polls[r] = 1 THEN "done" ELSE "poll")
  /\ got' = [got EXCEPT ![r] = Nothing]
  /\ quiet' = [quiet EXCEPT ![r] = FALSE]
  /\ UNCHANGED <<daemon, region, current_seq, since>>

ClientStep(r) ==
  \/ Disconnected(r) \/ LoadSeq(r) \/ TestFlag(r)
  \/ (\E f \in Fields : ReadField(r, f)) \/ Report(r)

Next ==
  \/ DaemonStep \/ Crash
  \/ \E r \in Readers : Connect(r) \/ Killed(r) \/ ClientStep(r)

Spec == Init /\ [][Next]_vars

(* The daemon and a client that runs keep running.  The daemon accepts in  *)
(* the order of connection, so a connection is not passed over for ever.   *)
FairSpec ==
  /\ Spec
  /\ WF_vars(DaemonStep)
  /\ \A r \in Readers : SF_vars(Serve(r)) /\ WF_vars(ClientStep(r))

-----------------------------------------------------------------------------
(* What a client reads under a sequence number is never older than the     *)
(* publication of that number: the number is stored after the payload.     *)
FreshRead ==
  \A r \in Readers : client[r] = "read" =>
    \A f \in Fields : got[r][f] # Unread => got[r][f] >= since[r]

(* A client tests the flag once, before it reads (201).  If it saw the     *)
(* flag clear and the next publication had not begun to show when it read  *)
(* the last field, it has the fields of one publication: what was going on *)
(* when it tested cannot tear its sample, whatever it finished meanwhile.  *)
TornOnlyByOverlap ==
  \A r \in Readers : Parsed(r) /\ quiet[r] =>
    \A f, g \in Fields : got[r][f] = got[r][g]

(* A client that connects is not left waiting in recvmsg for ever: it gets *)
(* the descriptor, or it learns that there is none.                        *)
ConnectionAnswered ==
  \A r \in Readers : client[r] = "connected" ~> client[r] # "connected"
=============================================================================
