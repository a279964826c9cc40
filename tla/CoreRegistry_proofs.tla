------------------------ MODULE CoreRegistry_proofs ------------------------
(***************************************************************************)
(* Proofs about CoreRegistry for any set of threads and of modules.        *)
(***************************************************************************)
EXTENDS CoreRegistry, TLAPS

USE CoreAssumption, NoneAssumption, MaxRefsAssumption DEF All

Loading == {"load_mark", "autoload_mark"}

ConsistentAt(m) == loaded[m] <=> handle[m] = "lib"

(* An entry is inconsistent only while a thread stands between the store   *)
(* to its handle and the store to its flag.                                *)
TableInv ==
  \A m \in Modules :
    \/ ConsistentAt(m)
    \/ \E t \in Threads : pc[t] \in Loading \cup {"unload_mark"} /\ mod[t] = m

ThreadInv ==
  \A t \in Threads :
    /\ pc[t] \in Loading => mod[t] \in Modules /\ handle[mod[t]] = "lib"
    /\ pc[t] = "unload_mark" => handle[mod[t]] # "lib"
    /\ pc[t] \in {"unload_lock", "unload", "unload_mark"} => mod[t] \in Modules

CoreInv == loaded[Core] /\ handle[Core] = "default"

(* Nobody else is inside a call during a shutdown, and nothing is open     *)
(* once its loop is over.                                                  *)
QuietInv ==
  /\ \A t \in Threads : pc[t] \in ShuttingDown =>
       \A u \in Threads \ {t} : pc[u] = "idle"
  /\ \A t \in Threads : pc[t] = "free" => \A m \in Modules : handle[m] # "lib"
  /\ ~alive => /\ \A t \in Threads : pc[t] = "idle"
               /\ \A m \in Modules : handle[m] # "lib"

IndInv ==
  /\ TypeOK /\ MutexBalanced /\ OneReference
  /\ TableInv /\ ThreadInv /\ CoreInv /\ QuietInv

LEMMA InitInd == Init => IndInv
<1> SUFFICES ASSUME Init  PROVE IndInv
  OBVIOUS
<1>1. TypeOK /\ MutexBalanced
  BY DEF Init, TypeOK, MutexBalanced, Unlocked, Critical
<1>2. OneReference /\ TableInv /\ CoreInv
  BY DEF Init, OneReference, TableInv, ConsistentAt, CoreInv
<1>3. ThreadInv /\ QuietInv
  BY DEF Init, ThreadInv, QuietInv, Loading, ShuttingDown
<1> QED
  BY <1>1, <1>2, <1>3 DEF IndInv

(* At most one thread is inside a critical section. *)
LEMMA Exclusive ==
  ASSUME IndInv, NEW t \in Threads, NEW u \in Threads,
         pc[t] \in Critical, pc[u] \in Critical
  PROVE  t = u
  BY DEF IndInv, MutexBalanced

(* Steps that leave the table alone: what they must respect. *)
LEMMA TableUntouched ==
  ASSUME IndInv, UNCHANGED table,
         NEW t \in Threads, NEW to \in Unlocked \cup Critical, Goto(t, to),
         to \notin Loading \cup {"unload_mark"},
         pc[t] \notin Loading \cup {"unload_mark"},
         \A u \in Threads \ {t} : mod'[u] = mod[u]
  PROVE  OneReference' /\ TableInv' /\ CoreInv'
<1>1. OneReference' /\ CoreInv'
  BY DEF IndInv, table, OneReference, CoreInv
<1>2. \A u \in Threads : pc[u] \in Loading \cup {"unload_mark"}
                           => u # t /\ pc'[u] = pc[u] /\ mod'[u] = mod[u]
  BY DEF Goto, IndInv, TypeOK
<1>3. TableInv'
  BY <1>2 DEF IndInv, table, TableInv, ConsistentAt
<1> QED
  BY <1>1, <1>3

(* Taking the mutex, or giving it back, without touching the table. *)
AcquirePairs ==
  {<<"load_lock", "load">>, <<"autoload_lock", "autoload">>,
   <<"unload_lock", "unload">>, <<"get_lock", "get">>,
   <<"relock", "resolve">>, <<"shutdown_lock", "shutdown">>}

LEMMA AcquireInd ==
  ASSUME IndInv, NEW t \in Threads,
         NEW from, NEW to, <<from, to>> \in AcquirePairs, Acquire(t, from, to)
  PROVE  IndInv'
<1> USE DEF Acquire, Goto, Unlocked, Critical, Loading, ShuttingDown, table,
            AcquirePairs
<1>1. TypeOK' /\ MutexBalanced'
  BY DEF IndInv, TypeOK, MutexBalanced
<1>2. OneReference' /\ TableInv' /\ CoreInv'
  BY TableUntouched DEF IndInv
<1>3. ThreadInv'
  BY DEF IndInv, TypeOK, ThreadInv
<1>4. QuietInv'
  BY DEF IndInv, TypeOK, QuietInv
<1> QED
  BY <1>1, <1>2, <1>3, <1>4 DEF IndInv

ReleasePairs ==
  {<<"load", "idle">>, <<"autoload", "relock">>, <<"autoload", "idle">>,
   <<"unload", "idle">>, <<"get", "autoload_lock">>, <<"resolve", "idle">>}

LEMMA ReleaseInd ==
  ASSUME IndInv, TypeOK', NEW t \in Threads,
         NEW from, NEW to, <<from, to>> \in ReleasePairs,
         pc[t] = from, Release(t, to), UNCHANGED <<alive, table, mod>>
  PROVE  IndInv'
<1> USE DEF Release, Goto, Unlocked, Critical, Loading, ShuttingDown, table,
            ReleasePairs
<1>1. MutexBalanced'
  BY DEF IndInv, TypeOK, MutexBalanced
<1>2. OneReference' /\ TableInv' /\ CoreInv'
  BY TableUntouched DEF IndInv
<1>3. ThreadInv'
  BY DEF IndInv, TypeOK, ThreadInv
<1>4. QuietInv'
  BY DEF IndInv, TypeOK, QuietInv
<1> QED
  BY <1>1, <1>2, <1>3, <1>4 DEF IndInv

LEMMA EnterInd ==
  ASSUME IndInv, NEW t \in Threads, NEW m \in All,
         NEW to \in {"load_lock", "get_lock", "unload_lock", "shutdown_lock"},
         to = "unload_lock" => m \in Modules,
         to = "shutdown_lock" => \A u \in Threads : pc[u] = "idle",
         Enter(t, to, m)
  PROVE  IndInv'
<1> USE DEF Enter, Goto, Unlocked, Critical, Loading, ShuttingDown, table
<1>1. TypeOK' /\ MutexBalanced'
  BY DEF IndInv, TypeOK, MutexBalanced
<1>2. OneReference' /\ TableInv' /\ CoreInv'
  BY TableUntouched DEF IndInv, TypeOK
<1>3. ThreadInv'
  BY DEF IndInv, TypeOK, ThreadInv
<1>4. QuietInv'
  BY DEF IndInv, TypeOK, QuietInv
<1> QED
  BY <1>1, <1>2, <1>3, <1>4 DEF IndInv

-----------------------------------------------------------------------------
(* The steps that change the table. *)

LEMMA DlopenInd ==
  ASSUME IndInv, NEW t \in Threads, NEW auto \in BOOLEAN,
         DlopenSucceeds(t, auto)
  PROVE  IndInv'
<1> USE DEF DlopenSucceeds, Goto, Body, Mark, Unlocked, Critical, Loading,
            ShuttingDown
<1>1. mod[t] \in Modules /\ pc[t] \in Critical
  BY DEF IndInv, TypeOK, CoreInv
<1>2. \A u \in Threads \ {t} : pc[u] \notin Critical
  BY <1>1, Exclusive
<1>3. TypeOK'
  BY <1>1 DEF IndInv, TypeOK
<1>4. MutexBalanced'
  BY DEF IndInv, TypeOK, MutexBalanced
<1>5. handle[mod[t]] # "lib"
  BY <1>1, <1>2 DEF IndInv, TableInv, ConsistentAt
<1>6. OneReference'
  BY <1>1, <1>5 DEF IndInv, TypeOK, OneReference
<1>7. TableInv'
  <2> SUFFICES ASSUME NEW m \in Modules
               PROVE  \/ ConsistentAt(m)'
                      \/ \E u \in Threads :
                           pc'[u] \in Loading \cup {"unload_mark"} /\ mod'[u] = m
    BY DEF TableInv
  <2>1. CASE m = mod[t]
    BY <2>1 DEF IndInv, TypeOK
  <2>2. CASE m # mod[t]
    BY <2>2, <1>1, <1>2 DEF IndInv, TypeOK, TableInv, ConsistentAt
  <2> QED
    BY <2>1, <2>2
<1>8. ThreadInv' /\ CoreInv'
  BY <1>1, <1>2 DEF IndInv, TypeOK, ThreadInv, CoreInv
<1>9. QuietInv'
  BY <1>1 DEF IndInv, TypeOK, QuietInv
<1> QED
  BY <1>3, <1>4, <1>6, <1>7, <1>8, <1>9 DEF IndInv

LEMMA CloseHandleInd ==
  ASSUME IndInv, NEW t \in Threads, CloseHandle(t)
  PROVE  IndInv'
<1> USE DEF CloseHandle, Goto, Unlocked, Critical, Loading, ShuttingDown
<1>1. mod[t] \in Modules /\ pc[t] \in Critical
  BY DEF IndInv, ThreadInv
<1>2. \A u \in Threads \ {t} : pc[u] \notin Critical
  BY <1>1, Exclusive
<1>3. handle[mod[t]] = "lib" /\ refs[mod[t]] = 1
  BY <1>1, <1>2 DEF IndInv, TableInv, ConsistentAt, OneReference
<1>4. TypeOK'
  BY <1>1, <1>3 DEF IndInv, TypeOK
<1>5. MutexBalanced'
  BY DEF IndInv, TypeOK, MutexBalanced
<1>6. OneReference'
  BY <1>1, <1>3 DEF IndInv, TypeOK, OneReference
<1>7. TableInv'
  <2> SUFFICES ASSUME NEW m \in Modules
               PROVE  \/ ConsistentAt(m)'
                      \/ \E u \in Threads :
                           pc'[u] \in Loading \cup {"unload_mark"} /\ mod'[u] = m
    BY DEF TableInv
  <2>1. CASE m = mod[t]
    BY <2>1 DEF IndInv, TypeOK
  <2>2. CASE m # mod[t]
    BY <2>2, <1>1, <1>2, <1>3 DEF IndInv, TypeOK, TableInv, ConsistentAt
  <2> QED
    BY <2>1, <2>2
<1>8. ThreadInv' /\ CoreInv'
  BY <1>1, <1>2, <1>3 DEF IndInv, TypeOK, ThreadInv, CoreInv
<1>9. QuietInv'
  BY <1>1, <1>3 DEF IndInv, TypeOK, QuietInv
<1> QED
  BY <1>4, <1>5, <1>6, <1>7, <1>8, <1>9 DEF IndInv

LEMMA MarkInd ==
  ASSUME IndInv, NEW t \in Threads,
         \/ MarkUnloaded(t)
         \/ \E auto \in BOOLEAN : MarkLoaded(t, auto)
  PROVE  IndInv'
<1> USE DEF MarkLoaded, MarkUnloaded, Release, Goto, Mark, Success, Unlocked,
            Critical, Loading, ShuttingDown
<1>1. /\ mod[t] \in Modules /\ pc[t] \in Critical
      /\ UNCHANGED <<alive, handle, refs, lastError, mod, found>>
  BY DEF IndInv, ThreadInv
<1>2. \A u \in Threads \ {t} : pc[u] \notin Critical
  BY <1>1, Exclusive
<1> PICK to \in {"idle", "relock"}, flag \in BOOLEAN :
      /\ pc' = [pc EXCEPT ![t] = to] /\ owner' = None
      /\ loaded' = [loaded EXCEPT ![mod[t]] = flag]
  OBVIOUS
<1>3. TypeOK' /\ MutexBalanced'
  <2>1. TypeOK'
    BY <1>1 DEF IndInv, TypeOK
  <2>2. MutexBalanced'
    BY <1>1, <1>2 DEF IndInv, TypeOK, MutexBalanced
  <2> QED
    BY <2>1, <2>2
<1>4. OneReference'
  BY <1>1 DEF IndInv, OneReference
<1>5. TableInv'
  <2> SUFFICES ASSUME NEW m \in Modules
               PROVE  ConsistentAt(m)'
    BY DEF TableInv
  <2>1. CASE m = mod[t]
    BY <2>1, <1>1 DEF IndInv, TypeOK, ThreadInv, ConsistentAt
  <2>2. CASE m # mod[t]
    BY <2>2, <1>1, <1>2 DEF IndInv, TypeOK, TableInv, ConsistentAt
  <2> QED
    BY <2>1, <2>2
<1>6. ThreadInv' /\ CoreInv'
  BY <1>1, <1>2 DEF IndInv, TypeOK, ThreadInv, CoreInv
<1>7. QuietInv'
  BY <1>1 DEF IndInv, TypeOK, QuietInv
<1> QED
  BY <1>3, <1>4, <1>5, <1>6, <1>7 DEF IndInv

LEMMA CloseOneInd ==
  ASSUME IndInv, NEW t \in Threads, NEW m \in Modules, CloseOne(t, m)
  PROVE  IndInv'
<1> USE DEF CloseOne, Unlocked, Critical, Loading, ShuttingDown
<1>1. \A u \in Threads \ {t} : pc[u] = "idle"
  BY DEF IndInv, QuietInv
<1>2. refs[m] = 1
  BY DEF IndInv, OneReference
<1>3. TypeOK' /\ MutexBalanced'
  BY <1>2 DEF IndInv, TypeOK, MutexBalanced
<1>4. OneReference'
  BY <1>2 DEF IndInv, TypeOK, OneReference
<1>5. TableInv'
  BY <1>1 DEF IndInv, TypeOK, TableInv, ConsistentAt
<1>6. ThreadInv' /\ CoreInv' /\ QuietInv'
  BY <1>1 DEF IndInv, TypeOK, ThreadInv, CoreInv, QuietInv
<1> QED
  BY <1>3, <1>4, <1>5, <1>6 DEF IndInv

LEMMA AllClosedInd ==
  ASSUME IndInv, NEW t \in Threads, AllClosed(t)
  PROVE  IndInv'
<1> USE DEF AllClosed, Release, Goto, Unlocked, Critical, Loading, ShuttingDown,
            table
<1>1. \A u \in Threads \ {t} : pc[u] = "idle"
  BY DEF IndInv, QuietInv
<1>2. TypeOK' /\ MutexBalanced'
  BY DEF IndInv, TypeOK, MutexBalanced
<1>3. OneReference' /\ TableInv' /\ CoreInv'
  BY TableUntouched DEF IndInv
<1>4. ThreadInv'
  BY DEF IndInv, TypeOK, ThreadInv
<1>5. \A m \in Modules : handle[m] # "lib"
  BY <1>1 DEF IndInv, TableInv, ConsistentAt
<1>6. QuietInv'
  BY <1>1, <1>5 DEF IndInv, TypeOK, QuietInv
<1> QED
  BY <1>2, <1>3, <1>4, <1>6 DEF IndInv

-----------------------------------------------------------------------------
LEMMA NextInd == IndInv /\ [Next]_vars => IndInv'
<1> SUFFICES ASSUME IndInv, [Next]_vars  PROVE IndInv'
  OBVIOUS
<1>1. ASSUME NEW t \in Threads, Call(t)
      PROVE  IndInv'
  BY <1>1, EnterInd DEF Call
<1>2. ASSUME NEW t \in Threads, SetError(t)
      PROVE  IndInv'
  BY <1>2 DEF SetError, table, IndInv, TypeOK, MutexBalanced, OneReference,
              TableInv, ConsistentAt, ThreadInv, CoreInv, QuietInv
<1>3. ASSUME NEW t \in Threads, Load(t)
      PROVE  IndInv'
  <2>1. CASE Acquire(t, "load_lock", "load")
             \/ Acquire(t, "autoload_lock", "autoload")
    BY <2>1, AcquireInd DEF AcquirePairs
  <2>2. ASSUME NEW auto \in BOOLEAN,
               AlreadyLoaded(t, auto) \/ DlopenFails(t, auto)
        PROVE  IndInv'
    <3>1. PICK from, to : /\ <<from, to>> \in ReleasePairs
                          /\ pc[t] = from /\ Release(t, to)
      BY <2>2 DEF AlreadyLoaded, DlopenFails, Body, Success, ReleasePairs
    <3>2. TypeOK' /\ UNCHANGED <<alive, table, mod>>
      BY <2>2 DEF AlreadyLoaded, DlopenFails, Release, Goto, Success, table,
                  IndInv, TypeOK, Unlocked, Critical
    <3> QED
      BY <3>1, <3>2, ReleaseInd
  <2>3. ASSUME NEW auto \in BOOLEAN,
               DlopenSucceeds(t, auto) \/ MarkLoaded(t, auto)
        PROVE  IndInv'
    BY <2>3, DlopenInd, MarkInd
  <2> QED
    BY <1>3, <2>1, <2>2, <2>3 DEF Load
<1>4. ASSUME NEW t \in Threads, Unload(t)
      PROVE  IndInv'
  <2>1. CASE Acquire(t, "unload_lock", "unload")
    BY <2>1, AcquireInd DEF AcquirePairs
  <2>2. CASE AlreadyUnloaded(t)
    <3>1. TypeOK'
      BY <2>2 DEF AlreadyUnloaded, Release, Goto, table, IndInv, TypeOK,
                  Unlocked
    <3> QED
      BY <2>2, <3>1, ReleaseInd DEF AlreadyUnloaded, ReleasePairs
  <2> QED
    BY <1>4, <2>1, <2>2, CloseHandleInd, MarkInd DEF Unload
<1>5. ASSUME NEW t \in Threads, GetSymbol(t)
      PROVE  IndInv'
  <2>1. CASE Acquire(t, "get_lock", "get") \/ Acquire(t, "relock", "resolve")
    BY <2>1, AcquireInd DEF AcquirePairs
  <2>2. CASE EntryMissing(t)
    <3>1. TypeOK'
      BY <2>2 DEF EntryMissing, Release, Goto, table, IndInv, TypeOK, Unlocked
    <3> QED
      BY <2>2, <3>1, ReleaseInd DEF EntryMissing, ReleasePairs
  <2>3. CASE Dlsym(t)
    <3>1. \A m \in Providers(mod[t]) : m \in All
      BY DEF Providers, IndInv, TypeOK
    <3>2. found' \in [Threads -> All \cup {None}]
      BY <2>3, <3>1 DEF Dlsym, IndInv, TypeOK
    <3>3. TypeOK'
      BY <2>3, <3>2 DEF Dlsym, Release, Goto, table, IndInv, TypeOK, Unlocked
    <3> QED
      BY <2>3, <3>3, ReleaseInd DEF Dlsym, ReleasePairs
  <2>4. CASE EntryLoaded(t)
    <3> USE <2>4 DEF EntryLoaded, Goto, table, Unlocked, Critical, Loading,
                     ShuttingDown
    <3>1. TypeOK' /\ MutexBalanced'
      BY DEF IndInv, TypeOK, MutexBalanced
    <3>2. OneReference' /\ TableInv' /\ CoreInv'
      BY TableUntouched DEF IndInv
    <3>3. ThreadInv' /\ QuietInv'
      BY DEF IndInv, TypeOK, ThreadInv, QuietInv
    <3> QED
      BY <3>1, <3>2, <3>3 DEF IndInv
  <2> QED
    BY <1>5, <2>1, <2>2, <2>3, <2>4 DEF GetSymbol
<1>6. ASSUME NEW t \in Threads, Shutdown(t)
      PROVE  IndInv'
  <2>1. CASE Acquire(t, "shutdown_lock", "shutdown")
    BY <2>1, AcquireInd DEF AcquirePairs
  <2>2. CASE FreeContext(t)
    <3> USE <2>2 DEF FreeContext, Goto, table, Unlocked, Critical, Loading,
                     ShuttingDown
    <3>1. TypeOK' /\ MutexBalanced'
      BY DEF IndInv, TypeOK, MutexBalanced
    <3>2. OneReference' /\ TableInv' /\ CoreInv'
      BY TableUntouched DEF IndInv
    <3>3. ThreadInv' /\ QuietInv'
      BY DEF IndInv, TypeOK, ThreadInv, QuietInv
    <3> QED
      BY <3>1, <3>2, <3>3 DEF IndInv
  <2> QED
    BY <1>6, <2>1, <2>2, CloseOneInd, AllClosedInd DEF Shutdown
<1>7. CASE UNCHANGED vars
  BY <1>7 DEF vars, table, IndInv, TypeOK, MutexBalanced, OneReference,
              TableInv, ConsistentAt, ThreadInv, CoreInv, QuietInv
<1> QED
  BY <1>1, <1>2, <1>3, <1>4, <1>5, <1>6, <1>7 DEF Next

LEMMA Invariance == Spec => []IndInv
  BY InitInd, NextInd, PTL DEF Spec

(* Every variable of the registry keeps its type, the reference counts of  *)
(* libdl included.                                                         *)
THEOREM TypeCorrect == Spec => []TypeOK
<1>1. IndInv => TypeOK
  BY DEF IndInv
<1> QED
  BY <1>1, Invariance, PTL

(* The mutex of the context is held exactly inside the critical sections,  *)
(* on every return path of every function.                                 *)
THEOREM MutexCorrect == Spec => []MutexBalanced
<1>1. IndInv => MutexBalanced
  BY DEF IndInv
<1> QED
  BY <1>1, Invariance, PTL

(* No interleaving of load, unload, get_symbol and shutdown opens a        *)
(* library twice or closes it twice.                                       *)
THEOREM ReferenceCorrect == Spec => []OneReference
<1>1. IndInv => OneReference
  BY DEF IndInv
<1> QED
  BY <1>1, Invariance, PTL

(* While nobody holds the mutex, is_loaded and the handle agree.           *)
THEOREM FlagCorrect == Spec => []FlagMatchesHandle
<1>1. IndInv => FlagMatchesHandle
  <2> SUFFICES ASSUME IndInv, owner = None, NEW m \in Modules
               PROVE  ConsistentAt(m)
    BY DEF FlagMatchesHandle, ConsistentAt
  <2>1. \A t \in Threads : pc[t] \notin Loading \cup {"unload_mark"}
    BY DEF IndInv, MutexBalanced, Critical, Loading
  <2> QED
    BY <2>1 DEF IndInv, TableInv
<1> QED
  BY <1>1, Invariance, PTL

(* nacl_core_shutdown leaves no library open.                              *)
THEOREM ShutdownCorrect == Spec => []ShutdownReleases
<1>1. IndInv => ShutdownReleases
  BY DEF IndInv, ShutdownReleases, QuietInv, OneReference
<1> QED
  BY <1>1, Invariance, PTL

(* The three together.                                                     *)
THEOREM TableCorrect == Spec => []TableConsistent
<1>1. MutexBalanced /\ OneReference /\ FlagMatchesHandle => TableConsistent
  BY DEF TableConsistent
<1> QED
  BY <1>1, MutexCorrect, ReferenceCorrect, FlagCorrect, PTL
-----------------------------------------------------------------------------
(* From its second locking of the mutex on, a get_symbol that nobody       *)
(* overtook finds the library handle that its automatic load left behind.  *)
SymbolInv ==
  \A t \in Threads : mod[t] \in Modules /\ t \notin overtaken =>
    /\ pc[t] \in {"relock", "resolve"} => handle[mod[t]] = "lib"
    /\ found[t] \in {None, mod[t]}

(* With the mutex, and not between the two stores, the flag is right. *)
LEMMA HolderConsistent ==
  ASSUME IndInv, NEW t \in Threads, pc[t] \in Critical \ (Loading \cup {"unload_mark"}),
         NEW m \in Modules
  PROVE  ConsistentAt(m)
<1>1. \A u \in Threads : pc[u] \notin Loading \cup {"unload_mark"}
  BY Exclusive DEF Loading, Critical
<1> QED
  BY <1>1 DEF IndInv, TableInv

(* A step of one thread that leaves the handles alone. *)
LEMMA SymbolStep ==
  ASSUME IndInv, SymbolInv, UNCHANGED <<handle, mod, overtaken>>,
         NEW t \in Threads, \A u \in Threads \ {t} : pc'[u] = pc[u] /\ found'[u] = found[u],
         mod[t] \in Modules /\ t \notin overtaken =>
           /\ pc'[t] \in {"relock", "resolve"} => handle[mod[t]] = "lib"
           /\ found'[t] \in {None, mod[t]}
  PROVE  SymbolInv'
BY DEF SymbolInv

LEMMA SymbolKept == IndInv /\ SymbolInv /\ [Next]_vars => SymbolInv'
<1> SUFFICES ASSUME IndInv, SymbolInv, [Next]_vars  PROVE SymbolInv'
  OBVIOUS
<1>0. TypeOK
  BY DEF IndInv
<1>1. ASSUME NEW t \in Threads, NEW from, NEW to, <<from, to>> \in AcquirePairs, Acquire(t, from, to)
      PROVE  SymbolInv'
  BY <1>0, <1>1, SymbolStep DEF Acquire, AcquirePairs, Goto, table, TypeOK, SymbolInv
<1>2. ASSUME NEW t \in Threads, Call(t)  PROVE SymbolInv'
  <2>1. PICK m \in All, to \in {"load_lock", "get_lock", "unload_lock", "shutdown_lock"} : Enter(t, to, m)
    BY <1>2 DEF Call
  <2>2. /\ handle' = handle /\ overtaken' = overtaken \ {t}
        /\ \A u \in Threads \ {t} : pc'[u] = pc[u] /\ mod'[u] = mod[u] /\ found'[u] = found[u]
        /\ pc'[t] \notin {"relock", "resolve"} /\ found'[t] = None
    BY <1>0, <2>1 DEF Enter, Goto, table, TypeOK
  <2> QED
    BY <2>2 DEF SymbolInv
<1>3. ASSUME NEW t \in Threads, SetError(t)  PROVE SymbolInv'
  BY <1>3 DEF SetError, table, SymbolInv
<1>4. ASSUME NEW t \in Threads, NEW auto \in BOOLEAN, AlreadyLoaded(t, auto)  PROVE SymbolInv'
  <2>1. mod[t] \in Modules => handle[mod[t]] = "lib"
    BY <1>4, HolderConsistent DEF AlreadyLoaded, Body, Critical, Loading, ConsistentAt
  <2> QED
    BY <1>0, <1>4, <2>1, SymbolStep DEF AlreadyLoaded, Release, Goto, table, TypeOK, SymbolInv
<1>5. ASSUME NEW t \in Threads, NEW auto \in BOOLEAN, DlopenSucceeds(t, auto)  PROVE SymbolInv'
  <2>1. /\ UNCHANGED <<mod, found, overtaken>> /\ mod[t] \in All
        /\ \A m \in Modules : handle'[m] = "lib" \/ handle'[m] = handle[m]
        /\ \A u \in Threads : pc'[u] \in {"relock", "resolve"} => pc'[u] = pc[u]
    BY <1>0, <1>5 DEF DlopenSucceeds, Goto, Mark, TypeOK
  <2> QED
    BY <2>1 DEF SymbolInv
<1>6. ASSUME NEW t \in Threads, NEW auto \in BOOLEAN, DlopenFails(t, auto)  PROVE SymbolInv'
  BY <1>0, <1>6, SymbolStep DEF DlopenFails, Release, Goto, table, TypeOK, SymbolInv
<1>7. ASSUME NEW t \in Threads, NEW auto \in BOOLEAN, MarkLoaded(t, auto)  PROVE SymbolInv'
  <2>1. handle[mod[t]] = "lib"
    BY <1>7 DEF MarkLoaded, Mark, IndInv, ThreadInv, Loading
  <2> QED
    BY <1>0, <1>7, <2>1, SymbolStep DEF MarkLoaded, Release, Goto, TypeOK, SymbolInv
<1>8. ASSUME NEW t \in Threads, AlreadyUnloaded(t) \/ MarkUnloaded(t)  PROVE SymbolInv'
  BY <1>0, <1>8, SymbolStep DEF AlreadyUnloaded, MarkUnloaded, Release, Goto, table, TypeOK, SymbolInv
<1>9. ASSUME NEW t \in Threads, CloseHandle(t)  PROVE SymbolInv'
  <2>1. /\ UNCHANGED <<mod, found>>
        /\ overtaken' = overtaken \cup {u \in Threads : pc[u] = "relock" /\ mod[u] = mod[t]}
        /\ mod[t] \in Modules /\ pc[t] = "unload" /\ pc' = [pc EXCEPT ![t] = "unload_mark"]
        /\ \A m \in Modules \ {mod[t]} : handle'[m] = handle[m]
    BY <1>0, <1>9 DEF CloseHandle, Goto, IndInv, ThreadInv, TypeOK
  <2>2. \A u \in Threads : pc'[u] \in {"relock", "resolve"} => pc'[u] = pc[u]
    BY <1>0, <2>1 DEF TypeOK
  <2>3. \A u \in Threads : pc[u] # "resolve"
    BY <2>1, Exclusive DEF Critical
  <2> QED
    BY <2>1, <2>2, <2>3 DEF SymbolInv
<1>10. ASSUME NEW t \in Threads, EntryLoaded(t)  PROVE SymbolInv'
  <2>1. mod[t] \in Modules => handle[mod[t]] = "lib"
    BY <1>10, HolderConsistent DEF EntryLoaded, Critical, Loading, ConsistentAt
  <2> QED
    BY <1>0, <1>10, <2>1, SymbolStep DEF EntryLoaded, Goto, table, TypeOK, SymbolInv
<1>11. ASSUME NEW t \in Threads, EntryMissing(t)  PROVE SymbolInv'
  BY <1>0, <1>11, SymbolStep DEF EntryMissing, Release, Goto, table, TypeOK, SymbolInv
<1>12. ASSUME NEW t \in Threads, Dlsym(t)  PROVE SymbolInv'
  <2>1. /\ UNCHANGED <<handle, mod, overtaken>> /\ pc[t] = "resolve" /\ pc' = [pc EXCEPT ![t] = "idle"]
        /\ (\E m \in Providers(mod[t]) : found' = [found EXCEPT ![t] = m]) \/ UNCHANGED found
    BY <1>12 DEF Dlsym, Release, Goto, table
  <2>2. mod[t] \in Modules /\ t \notin overtaken => Providers(mod[t]) = {mod[t]}
    BY <2>1 DEF SymbolInv, Providers
  <2>3. mod[t] \in Modules /\ t \notin overtaken => found'[t] \in {None, mod[t]}
    BY <1>0, <2>1, <2>2 DEF SymbolInv, TypeOK
  <2>4. pc'[t] = "idle" /\ \A u \in Threads \ {t} : pc'[u] = pc[u] /\ found'[u] = found[u]
    BY <1>0, <2>1 DEF TypeOK
  <2> QED
    BY <2>1, <2>3, <2>4, SymbolStep
<1>13. ASSUME NEW t \in Threads, NEW m \in Modules, CloseOne(t, m)  PROVE SymbolInv'
  <2>1. \A u \in Threads : pc[u] \notin {"relock", "resolve"}
    BY <1>13 DEF CloseOne, IndInv, QuietInv, ShuttingDown
  <2> QED
    BY <1>13, <2>1 DEF CloseOne, SymbolInv
<1>14. ASSUME NEW t \in Threads, AllClosed(t) \/ FreeContext(t)  PROVE SymbolInv'
  BY <1>0, <1>14, SymbolStep DEF AllClosed, FreeContext, Release, Goto, table, TypeOK, SymbolInv
<1>15. CASE UNCHANGED vars
  BY <1>15 DEF vars, table, SymbolInv
<1>16. /\ <<"load_lock", "load">> \in AcquirePairs /\ <<"autoload_lock", "autoload">> \in AcquirePairs
       /\ <<"unload_lock", "unload">> \in AcquirePairs /\ <<"get_lock", "get">> \in AcquirePairs
       /\ <<"relock", "resolve">> \in AcquirePairs /\ <<"shutdown_lock", "shutdown">> \in AcquirePairs
  BY DEF AcquirePairs
<1> QED
  BY <1>1, <1>2, <1>3, <1>4, <1>5, <1>6, <1>7, <1>8, <1>9, <1>10, <1>11, <1>12, <1>13, <1>14, <1>15, <1>16
  DEF Next, Load, Unload, GetSymbol, Shutdown

(* nacl_core_get_symbol gives up the mutex for its automatic load and does *)
(* not test the entry again.  Whatever the threads do in the gap, only an  *)
(* unload of the same module can make it return another library's symbol.  *)
THEOREM SymbolCorrect == Spec => []SymbolOfItsModule
<1>1. Init => SymbolInv
  BY DEF Init, SymbolInv
<1>2. SymbolInv => SymbolOfItsModule
  BY DEF SymbolInv, SymbolOfItsModule
<1> QED
  BY <1>1, <1>2, SymbolKept, Invariance, PTL DEF Spec
=============================================================================
