---------------------------- MODULE MC_IpcService ----------------------------
(* One caller with any arguments that make a difference: a buffer does only   *)
(* where a success can follow, a payload only where there is a connection.    *)
(* The other's call is a plain scan, or a request with a payload that does    *)
(* not wait for data.                                                         *)
EXTENDS IpcService

CONSTANTS c1, c2

Plain  == [command |-> "scan", payload |-> "none", buffer |-> TRUE]
Sender == [command |-> "other", payload |-> "short", buffer |-> FALSE]

Distinct ==
  {call1 \in Calls :
     /\ call1.command # "scan" => call1.buffer
     /\ call1.command = "unserved" => call1.payload = "none"}

MCClients   == {c1, c2}
MCArguments == [c \in MCClients |-> IF c = c1 THEN Distinct ELSE {Plain, Sender}]
=============================================================================
