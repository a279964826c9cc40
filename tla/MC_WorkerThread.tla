--------------------------- MODULE MC_WorkerThread ---------------------------
(* Model-checking instance of WorkerThread.                                *)
EXTENDS WorkerThread
=============================================================================
