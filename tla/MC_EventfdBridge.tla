-------------------------- MODULE MC_EventfdBridge --------------------------
(* Model-checking instances of EventfdBridge; the cfg files give the sets. *)
EXTENDS EventfdBridge
=============================================================================
