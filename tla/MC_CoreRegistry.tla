-------------------------- MODULE MC_CoreRegistry --------------------------
(* Model-checking instance of CoreRegistry: threads and modules are        *)
(* interchangeable.                                                        *)
EXTENDS CoreRegistry, TLC

Interchangeable == Permutations(Threads) \cup Permutations(Modules)
=============================================================================
