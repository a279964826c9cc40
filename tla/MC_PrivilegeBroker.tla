------------------------- MODULE MC_PrivilegeBroker -------------------------
(* Calls of every kind: answered by the broker, refused, forwarded, with a *)
(* response buffer that is missing, small or as large as the protocol's.   *)
EXTENDS PrivilegeBroker

MCFull == 5

Bt(command, room) ==
  [op |-> "dispatch", cap |-> "bt", command |-> command, uid2000 |-> TRUE, data |-> FALSE, room |-> room]

MCRequests ==
  { Bt("start", 0), Bt("get", 1), Bt("stop", MCFull),
    [Bt("start", 0) EXCEPT !.data = TRUE],
    [Bt("get", 1) EXCEPT !.cap = "wifi"],
    [Bt("other", 1) EXCEPT !.op = "backend"] }
=============================================================================
