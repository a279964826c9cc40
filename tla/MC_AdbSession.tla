--------------------------- MODULE MC_AdbSession ---------------------------
(* Model-checking instance of AdbSession. *)
EXTENDS AdbSession
=============================================================================
