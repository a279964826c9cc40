---------------------------- MODULE CoreRegistry ----------------------------
(***************************************************************************)
(* The module registry of sdk/src/android_core.c: one NaclContext whose    *)
(* table of shared libraries is guarded by a mutex.  Threads load, unload  *)
(* and look up symbols concurrently; each entry pairs a dlopen handle with *)
(* an is_loaded flag.  libdl, which counts the references to each library, *)
(* is outside the repository and is modelled by the counter refs.          *)
(***************************************************************************)
EXTENDS Naturals

CONSTANTS
  Threads,
  Modules,    \* NACL_MODULE_BLUETOOTH ... NACL_MODULE_SYSTEM
  Core,       \* NACL_MODULE_CORE: this library, always loaded
  None,       \* no owner of the mutex; no symbol
  MaxRefs     \* bound: references libdl grants to one library

ASSUME CoreAssumption    == Core \notin Modules
ASSUME NoneAssumption    == None \notin Threads \cup Modules \cup {Core}
ASSUME MaxRefsAssumption == MaxRefs \in Nat \ {0}

All == Modules \cup {Core}

VARIABLES
  alive,      \* the context has not been freed
  owner,      \* the thread that holds ctx->mutex
  handle,     \* modules[m].handle: "null", "lib", or "default" for the core
  loaded,     \* modules[m].is_loaded
  refs,       \* libdl: open references to the library of m
  lastError,  \* what last_error speaks of: None, a module, or a symbol
  pc,         \* where each thread stands
  mod,        \* the module_type its call names
  found,      \* the module whose symbol its last get_symbol returned
  overtaken   \* history: threads whose module was unloaded under their get_symbol

table == <<handle, loaded, refs>>
vars  == <<alive, owner, table, lastError, pc, mod, found, overtaken>>

Unlocked == {"idle", "load_lock", "get_lock", "autoload_lock", "relock",
             "unload_lock", "shutdown_lock", "free"}
Critical == {"load", "load_mark", "autoload", "autoload_mark", "get", "resolve",
             "unload", "unload_mark", "shutdown"}
ShuttingDown == {"shutdown_lock", "shutdown", "free"}

TypeOK ==
  /\ alive \in BOOLEAN
  /\ owner \in Threads \cup {None}
  /\ handle \in [All -> {"null", "lib", "default"}]
  /\ loaded \in [All -> BOOLEAN]
  /\ refs \in [Modules -> 0 .. MaxRefs]
  /\ lastError \in {"none", "load", "symbol", "user"}
  /\ pc \in [Threads -> Unlocked \cup Critical]
  /\ mod \in [Threads -> All]
  /\ found \in [Threads -> All \cup {None}]
  /\ overtaken \in SUBSET Threads

(* nacl_core_initialize: the core entry is marked as loaded *)
Init ==
  /\ alive = TRUE /\ owner = None
  /\ handle = [m \in All |-> IF m = Core THEN "default" ELSE "null"]
  /\ loaded = [m \in All |-> m = Core]
  /\ refs = [m \in Modules |-> 0]
  /\ lastError = "none"
  /\ pc = [t \in Threads |-> "idle"]
  /\ mod = [t \in Threads |-> Core]
  /\ found = [t \in Threads |-> None]
  /\ overtaken = {}

-----------------------------------------------------------------------------
Goto(t, to) == pc' = [pc EXCEPT ![t] = to]

Acquire(t, from, to) ==
  /\ pc[t] = from
  /\ owner = None
  /\ owner' = t
  /\ Goto(t, to)
  /\ UNCHANGED <<alive, table, lastError, mod, found, overtaken>>

Release(t, to) == owner' = None /\ Goto(t, to)

(* The context is freed by the finalizer of the one JavaScript object that *)
(* holds it, so a call neither starts nor runs during a shutdown.          *)
Enter(t, to, m) ==
  /\ alive /\ pc[t] = "idle"
  /\ \A u \in Threads : pc[u] \notin ShuttingDown
  /\ Goto(t, to)
  /\ mod' = [mod EXCEPT ![t] = m]
  /\ found' = [found EXCEPT ![t] = None]
  /\ overtaken' = overtaken \ {t}
  /\ UNCHANGED <<alive, owner, table, lastError>>

Call(t) ==
  \/ \E m \in All : Enter(t, "load_lock", m) \/ Enter(t, "get_lock", m)
  \/ \E m \in Modules : Enter(t, "unload_lock", m)  \* the core is refused
  \/ /\ \A u \in Threads : pc[u] = "idle"
     /\ Enter(t, "shutdown_lock", Core)

(* nacl_core_set_error, lock to unlock *)
SetError(t) ==
  /\ alive /\ pc[t] = "idle" /\ owner = None
  /\ \A u \in Threads : pc[u] \notin ShuttingDown
  /\ lastError' = "user"
  /\ UNCHANGED <<alive, owner, table, pc, mod, found, overtaken>>

-----------------------------------------------------------------------------
(* nacl_core_load_module, on its own account or from nacl_core_get_symbol  *)
(* ("auto"), which then takes the mutex again or returns NULL.             *)

Body(auto)    == IF auto THEN "autoload" ELSE "load"
Mark(auto)    == IF auto THEN "autoload_mark" ELSE "load_mark"
Success(auto) == IF auto THEN "relock" ELSE "idle"

AlreadyLoaded(t, auto) ==
  /\ pc[t] = Body(auto)
  /\ loaded[mod[t]]
  /\ Release(t, Success(auto))
  /\ UNCHANGED <<alive, table, lastError, mod, found, overtaken>>

DlopenSucceeds(t, auto) ==
  /\ pc[t] = Body(auto)
  /\ ~loaded[mod[t]]
  /\ refs[mod[t]] < MaxRefs
  /\ refs' = [refs EXCEPT ![mod[t]] = @ + 1]
  /\ handle' = [handle EXCEPT ![mod[t]] = "lib"]
  /\ Goto(t, Mark(auto))
  /\ UNCHANGED <<alive, owner, loaded, lastError, mod, found, overtaken>>

DlopenFails(t, auto) ==
  /\ pc[t] = Body(auto)
  /\ ~loaded[mod[t]]
  /\ lastError' = "load"
  /\ Release(t, "idle")
  /\ UNCHANGED <<alive, table, mod, found, overtaken>>

MarkLoaded(t, auto) ==
  /\ pc[t] = Mark(auto)
  /\ loaded' = [loaded EXCEPT ![mod[t]] = TRUE]
  /\ Release(t, Success(auto))
  /\ UNCHANGED <<alive, handle, refs, lastError, mod, found, overtaken>>

Load(t) ==
  \/ Acquire(t, "load_lock", "load")
  \/ Acquire(t, "autoload_lock", "autoload")
  \/ \E auto \in BOOLEAN :
       \/ AlreadyLoaded(t, auto) \/ DlopenSucceeds(t, auto)
       \/ DlopenFails(t, auto) \/ MarkLoaded(t, auto)

-----------------------------------------------------------------------------
(* nacl_core_unload_module *)

AlreadyUnloaded(t) ==
  /\ pc[t] = "unload"
  /\ ~loaded[mod[t]]
  /\ Release(t, "idle")
  /\ UNCHANGED <<alive, table, lastError, mod, found, overtaken>>

CloseHandle(t) ==
  /\ pc[t] = "unload"
  /\ loaded[mod[t]]
  /\ IF handle[mod[t]] = "lib"
     THEN /\ refs' = [refs EXCEPT ![mod[t]] = @ - 1]
          /\ handle' = [handle EXCEPT ![mod[t]] = "null"]
     ELSE UNCHANGED <<refs, handle>>
  /\ overtaken' = overtaken \cup {u \in Threads : pc[u] = "relock" /\ mod[u] = mod[t]}
  /\ Goto(t, "unload_mark")
  /\ UNCHANGED <<alive, owner, loaded, lastError, mod, found>>

(* mutant: the flag is not reset *)
MarkUnloadedForgets(t) ==
  /\ pc[t] = "unload_mark"
  /\ Release(t, "idle")
  /\ UNCHANGED <<alive, table, lastError, mod, found, overtaken>>

MarkUnloaded(t) ==
  /\ pc[t] = "unload_mark"
  /\ loaded' = [loaded EXCEPT ![mod[t]] = FALSE]
  /\ Release(t, "idle")
  /\ UNCHANGED <<alive, handle, refs, lastError, mod, found, overtaken>>

Unload(t) ==
  \/ Acquire(t, "unload_lock", "unload")
  \/ AlreadyUnloaded(t) \/ CloseHandle(t) \/ MarkUnloaded(t)

-----------------------------------------------------------------------------
(* nacl_core_get_symbol *)

(* mutant: the entry is not looked at *)
EntryUnseen(t) ==
  /\ pc[t] = "get"
  /\ Goto(t, "resolve")
  /\ UNCHANGED <<alive, owner, table, lastError, mod, found, overtaken>>

EntryLoaded(t) ==
  /\ pc[t] = "get"
  /\ loaded[mod[t]]
  /\ Goto(t, "resolve")
  /\ UNCHANGED <<alive, owner, table, lastError, mod, found, overtaken>>

(* "Attempt automatic load": the mutex is given up for it *)
EntryMissing(t) ==
  /\ pc[t] = "get"
  /\ ~loaded[mod[t]]
  /\ Release(t, "autoload_lock")
  /\ UNCHANGED <<alive, table, lastError, mod, found, overtaken>>

(* dlsym on a library handle searches that library; on RTLD_DEFAULT, which *)
(* is what NULL means to it, the libraries that are open in the process.   *)
Providers(m) ==
  IF handle[m] = "lib" THEN {m} ELSE {Core} \cup {n \in Modules : refs[n] > 0}

Dlsym(t) ==
  /\ pc[t] = "resolve"
  /\ \/ /\ \E m \in Providers(mod[t]) : found' = [found EXCEPT ![t] = m]
        /\ UNCHANGED lastError
     \/ lastError' = "symbol" /\ UNCHANGED found
  /\ Release(t, "idle")
  /\ UNCHANGED <<alive, table, mod, overtaken>>

GetSymbol(t) ==
  \/ Acquire(t, "get_lock", "get")
  \/ Acquire(t, "relock", "resolve")
  \/ EntryLoaded(t) \/ EntryMissing(t) \/ Dlsym(t)

-----------------------------------------------------------------------------
(* nacl_core_shutdown *)

CloseOne(t, m) ==
  /\ pc[t] = "shutdown"
  /\ loaded[m] /\ handle[m] = "lib"
  /\ refs' = [refs EXCEPT ![m] = @ - 1]
  /\ handle' = [handle EXCEPT ![m] = "null"]
  /\ loaded' = [loaded EXCEPT ![m] = FALSE]
  /\ UNCHANGED <<alive, owner, lastError, pc, mod, found, overtaken>>

(* mutant: the loop leaves one entry out *)
AllButOneClosed(t) ==
  /\ pc[t] = "shutdown"
  /\ \E n \in Modules : \A m \in Modules \ {n} : ~(loaded[m] /\ handle[m] = "lib")
  /\ Release(t, "free")
  /\ UNCHANGED <<alive, table, lastError, mod, found, overtaken>>

AllClosed(t) ==
  /\ pc[t] = "shutdown"
  /\ \A m \in Modules : ~(loaded[m] /\ handle[m] = "lib")
  /\ Release(t, "free")
  /\ UNCHANGED <<alive, table, lastError, mod, found, overtaken>>

FreeContext(t) ==
  /\ pc[t] = "free"
  /\ alive' = FALSE
  /\ Goto(t, "idle")
  /\ UNCHANGED <<owner, table, lastError, mod, found, overtaken>>

Shutdown(t) ==
  \/ Acquire(t, "shutdown_lock", "shutdown")
  \/ \E m \in Modules : CloseOne(t, m)
  \/ AllClosed(t) \/ FreeContext(t)

Next ==
  \E t \in Threads :
    \/ Call(t) \/ SetError(t)
    \/ Load(t) \/ Unload(t) \/ GetSymbol(t) \/ Shutdown(t)

Spec == Init /\ [][Next]_vars

-----------------------------------------------------------------------------
(* Every path of every function gives the mutex back exactly when it       *)
(* leaves its critical section, the error returns included.                *)
MutexBalanced == \A t \in Threads : owner = t <=> pc[t] \in Critical

(* libdl holds one reference for each module with a handle and none        *)
(* otherwise: no interleaving opens a library twice or closes it twice.    *)
OneReference ==
  \A m \in Modules : refs[m] = IF handle[m] = "lib" THEN 1 ELSE 0

(* Whenever the mutex is free, is_loaded tells whether there is a handle.  *)
FlagMatchesHandle ==
  owner = None => \A m \in Modules : loaded[m] <=> handle[m] = "lib"

(* The table tells the truth about what is loaded, and no return path      *)
(* leaves the mutex that guards it locked.                                 *)
TableConsistent == MutexBalanced /\ OneReference /\ FlagMatchesHandle

(* A freed context has left no library open. *)
ShutdownReleases == ~alive => \A m \in Modules : refs[m] = 0

(* A symbol that get_symbol returns is its own module's, unless another    *)
(* thread unloaded the module between the automatic load and the lookup:   *)
(* the entry is not tested again, and NULL is RTLD_DEFAULT to dlsym.       *)
SymbolOfItsModule ==
  \A t \in Threads :
    mod[t] \in Modules /\ found[t] # None /\ t \notin overtaken => found[t] = mod[t]
=============================================================================
