-------------------------- MODULE MC_SensorsDaemon --------------------------
(* Model-checking instance of SensorsDaemon: clients are interchangeable   *)
(* for its safety properties.                                              *)
EXTENDS SensorsDaemon, TLC

Interchangeable == Permutations(Clients)
=============================================================================
