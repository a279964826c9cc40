----------------------------- MODULE SensorFeed -----------------------------
(***************************************************************************)
(* What a sensor stream promises the callback of its session: each event   *)
(* that the daemon wrote at most once, in order and, as long as nothing    *)
(* was dropped, without a gap.  Something else than an event comes only in *)
(* exchange for one that was dropped or, once, from a descriptor that had  *)
(* become somebody else's, which may be another session with events of its *)
(* own.  SensorStream implements this specification.                       *)
(***************************************************************************)
EXTENDS Naturals

VARIABLES
  begun,      \* events of the sensor, numbered in order
  sent,       \* those that the daemon wrote
  dropped,    \* how many it gave up between header and payload
  strays,     \* events, or what is taken for one, read from somebody else
  received,   \* events the callback was given
  spoilt      \* other things it was given

feedvars == <<begun, sent, dropped, strays, received, spoilt>>

Init ==
  /\ begun = 0 /\ sent = {} /\ dropped = 0
  /\ strays = 0 /\ received = {} /\ spoilt = 0

Begin ==
  /\ begun' = begun + 1
  /\ UNCHANGED <<sent, dropped, strays, received, spoilt>>

Send ==
  /\ begun > 0 /\ begun \notin sent
  /\ sent' = sent \cup {begun}
  /\ UNCHANGED <<begun, dropped, strays, received, spoilt>>

Drop ==
  /\ dropped < begun /\ begun \notin sent
  /\ dropped' = dropped + 1
  /\ UNCHANGED <<begun, sent, strays, received, spoilt>>

Stray ==
  /\ strays = 0
  /\ strays' = 1
  /\ UNCHANGED <<begun, sent, dropped, received, spoilt>>

Receive(k) ==
  /\ k \in sent
  /\ \A d \in received : d < k
  /\ dropped = 0 => \A j \in sent : j < k => j \in received
  /\ received' = received \cup {k}
  /\ UNCHANGED <<begun, sent, dropped, strays, spoilt>>

Spoil ==
  /\ spoilt < dropped + strays
  /\ spoilt' = spoilt + 1
  /\ UNCHANGED <<begun, sent, dropped, strays, received>>

Next ==
  \/ Begin \/ Send \/ Drop \/ Stray \/ Spoil
  \/ \E k \in sent : Receive(k)

Spec == Init /\ [][Next]_feedvars
=============================================================================
