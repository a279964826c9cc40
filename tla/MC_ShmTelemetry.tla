-------------------------- MODULE MC_ShmTelemetry --------------------------
(* Model-checking instance of ShmTelemetry. *)
EXTENDS ShmTelemetry
=============================================================================
