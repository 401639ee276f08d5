-------------------------- MODULE BlockCacheProofs --------------------------
(***************************************************************************)
(* The cache of compiled blocks, for every number of loaders, processes    *)
(* and directories.                                                        *)
(*                                                                         *)
(* That a process is serialized rests on its registry: whatever lock a     *)
(* loader of the process refers to is the one the registry names, so a     *)
(* loader that asks while another refers to a lock is given the same one.  *)
(* That one rebuild is enough rests on who may still change a library once *)
(* it has been renamed into its place: nobody of the loaders makes it      *)
(* worse, whichever process they belong to.                                *)
(***************************************************************************)
EXTENDS BlockCache, TLAPS

\* The registry of a process names the lock its loaders refer to.
RegistryNamesTheLock ==
    \A l \in Loaders : lock[l] # NoLock => registry[ProcessOf[l]] = lock[l]

\* Unless somebody else damages one, a library that was rebuilt can be used,
\* and nobody gives up on any.
RebuiltIsGood ==
    damages = 0 => \A l \in Loaders : /\ stage[l] = "reloading" => library[RootOf[l]] = "good"
                                      /\ stage[l] # "unusable"

CacheInv == TypeOK /\ RegistryNamesTheLock /\ Serialized /\ RebuiltIsGood

\* The libraries as they are, or one of them as good as new.
LibraryStep == \A r \in Roots : library[r] = "good" => library'[r] = "good"

LEMMA InitCache == Init => CacheInv
BY CacheAssumption
DEF Init, CacheInv, TypeOK, RegistryNamesTheLock, Serialized, RebuiltIsGood, Critical, Ends

\* A loader that refers to no lock is not between the check and the end.
LEMMA CriticalHolds ==
    ASSUME TypeOK, NEW l \in Loaders, stage[l] \in Critical
    PROVE  lock[l] # NoLock
BY DEF TypeOK, Critical, Ends

LEMMA TypeStep ==
    ASSUME TypeOK, [Next]_vars
    PROVE  TypeOK'
<1> USE CacheAssumption DEF TypeOK, Critical, Ends
<1>1. ASSUME NEW l \in Loaders, Ask(l) PROVE TypeOK'
    <2> DEFINE k == IF registry[ProcessOf[l]] # NoLock /\ Alive(registry[ProcessOf[l]])
                    THEN registry[ProcessOf[l]] ELSE l
    <2>1. k \in Loaders
        BY DEF Alive
    <2>2. /\ lock' = [lock EXCEPT ![l] = k]
          /\ registry' = [registry EXCEPT ![ProcessOf[l]] = k]
          /\ stage[l] = "asking" /\ stage' = [stage EXCEPT ![l] = "locking"]
          /\ UNCHANGED <<library, damages>>
        BY <1>1 DEF Ask, Goto
    <2> HIDE DEF k
    <2> QED
        BY <2>1, <2>2
<1>2. ASSUME NEW l \in Loaders, Lock(l) PROVE TypeOK'
    BY <1>2 DEF Lock, Goto
<1>3. ASSUME NEW l \in Loaders, Check(l) PROVE TypeOK'
    BY <1>3 DEF Check, Goto
<1>4. ASSUME NEW l \in Loaders, Rename(l) PROVE TypeOK'
    BY <1>4 DEF Rename, Goto
<1>5. ASSUME NEW l \in Loaders, FailToBuild(l) \/ StopRustc(l) PROVE TypeOK'
    BY <1>5 DEF FailToBuild, StopRustc, Leave, Compiling
<1>6. ASSUME NEW l \in Loaders, Load(l) \/ GiveUp(l) PROVE TypeOK'
    BY <1>6 DEF Load, GiveUp, Leave
<1>7. ASSUME NEW l \in Loaders, Repair(l) PROVE TypeOK'
    BY <1>7 DEF Repair, Goto
<1>8. ASSUME NEW p \in Processes, Crash(p) PROVE TypeOK'
    BY <1>8 DEF Crash
<1>9. ASSUME NEW r \in Roots, Damage(r) PROVE TypeOK'
    BY <1>9 DEF Damage
<1>10. CASE UNCHANGED vars
    BY <1>10 DEF vars
<1> QED
    BY <1>1, <1>2, <1>3, <1>4, <1>5, <1>6, <1>7, <1>8, <1>9, <1>10 DEF Next, Loader

\* A loader that asks while another of its process refers to a lock is given
\* that lock; when none does, there is nobody to disagree with.
LEMMA RegistryStep ==
    ASSUME TypeOK, RegistryNamesTheLock, [Next]_vars
    PROVE  RegistryNamesTheLock'
<1> USE CacheAssumption DEF TypeOK, RegistryNamesTheLock
<1>1. ASSUME NEW l \in Loaders, Ask(l) PROVE RegistryNamesTheLock'
    <2> DEFINE p == ProcessOf[l]
               k == IF registry[p] # NoLock /\ Alive(registry[p]) THEN registry[p] ELSE l
    <2>1. lock' = [lock EXCEPT ![l] = k] /\ registry' = [registry EXCEPT ![p] = k]
        BY <1>1 DEF Ask
    <2>2. ASSUME NEW m \in Loaders, m # l, ProcessOf[m] = p, lock[m] # NoLock
          PROVE  k = lock[m]
        BY <2>2 DEF Alive
    <2> HIDE DEF k
    <2> QED
        BY <2>1, <2>2
<1>2. ASSUME NEW p \in Processes, Crash(p) PROVE RegistryNamesTheLock'
    BY <1>2 DEF Crash
<1>3. ASSUME NEW l \in Loaders, Lock(l) \/ Check(l) \/ Rename(l) \/ Repair(l)
      PROVE  RegistryNamesTheLock'
    BY <1>3 DEF Lock, Check, Rename, Repair
<1>4. ASSUME NEW l \in Loaders, FailToBuild(l) \/ StopRustc(l) \/ Load(l) \/ GiveUp(l)
      PROVE  RegistryNamesTheLock'
    BY <1>4 DEF FailToBuild, StopRustc, Load, GiveUp, Leave
<1>5. CASE (\E r \in Roots : Damage(r)) \/ UNCHANGED vars
    BY <1>5 DEF Damage, vars
<1> QED
    BY <1>1, <1>2, <1>3, <1>4, <1>5 DEF Next, Loader

\* Only Lock brings a loader between the check and the end, and its guard asks
\* everybody who refers to the same lock.
LEMMA SerializedStep ==
    ASSUME TypeOK, RegistryNamesTheLock, Serialized, [Next]_vars
    PROVE  Serialized'
<1> USE CacheAssumption DEF Serialized
<1>1. ASSUME NEW l \in Loaders, Lock(l) PROVE Serialized'
    <2>1. ASSUME NEW m \in Loaders, m # l, ProcessOf[m] = ProcessOf[l]
          PROVE  stage[m] \notin Critical
        <3>1. SUFFICES ASSUME stage[m] \in Critical PROVE FALSE
            OBVIOUS
        <3>2. lock[m] # NoLock /\ lock[l] # NoLock
            BY <1>1, <3>1, CriticalHolds DEF Lock, Goto, TypeOK, Ends
        <3>3. lock[m] = lock[l]
            BY <2>1, <3>2 DEF RegistryNamesTheLock
        <3> QED
            BY <1>1, <3>1, <3>3 DEF Lock
    <2> QED
        BY <1>1, <2>1 DEF Lock, Goto, TypeOK
<1>2. ASSUME NEW l \in Loaders, stage[l] \in Critical,
             \A m \in Loaders \ {l} : stage'[m] = stage[m]
      PROVE  Serialized'
    BY <1>2
<1>3. ASSUME NEW l \in Loaders, Check(l) \/ Rename(l) \/ Repair(l)
      PROVE  Serialized'
    BY <1>2, <1>3 DEF Check, Rename, Repair, Goto, Critical, TypeOK
<1>4. ASSUME NEW l \in Loaders, FailToBuild(l) \/ StopRustc(l) \/ Load(l) \/ GiveUp(l)
      PROVE  Serialized'
    BY <1>2, <1>4 DEF FailToBuild, StopRustc, Load, GiveUp, Leave, Compiling, Critical, TypeOK
<1>5. ASSUME NEW l \in Loaders, Ask(l) PROVE Serialized'
    BY <1>5 DEF Ask, Goto, Critical, TypeOK
<1>6. ASSUME NEW p \in Processes, Crash(p) PROVE Serialized'
    BY <1>6 DEF Crash, Critical, TypeOK
<1>7. CASE (\E r \in Roots : Damage(r)) \/ UNCHANGED vars
    BY <1>7 DEF Damage, vars
<1> QED
    BY <1>1, <1>3, <1>4, <1>5, <1>6, <1>7 DEF Next, Loader

\* Loaders leave libraries alone or make them good, and others count.
LEMMA LibrariesStep ==
    ASSUME TypeOK, [Next]_vars
    PROVE  (LibraryStep /\ damages' = damages) \/ damages' = damages + 1
<1> USE DEF TypeOK, LibraryStep
<1>1. ASSUME NEW l \in Loaders, Rename(l) PROVE LibraryStep /\ damages' = damages
    BY <1>1 DEF Rename
<1>2. ASSUME NEW r \in Roots, Damage(r) PROVE damages' = damages + 1
    BY <1>2 DEF Damage
<1>3. CASE UNCHANGED <<library, damages>>
    BY <1>3
<1> QED
    BY <1>1, <1>2, <1>3
    DEF Next, Loader, Ask, Lock, Check, FailToBuild, StopRustc, Load, Repair, GiveUp, Crash, vars

LEMMA RebuiltStep ==
    ASSUME TypeOK, RebuiltIsGood, [Next]_vars
    PROVE  RebuiltIsGood'
<1> SUFFICES ASSUME damages' = 0
             PROVE  \A m \in Loaders : /\ stage'[m] = "reloading" => library'[RootOf[m]] = "good"
                                       /\ stage'[m] # "unusable"
    BY DEF RebuiltIsGood
<1>1. damages = 0 /\ LibraryStep
    BY LibrariesStep DEF TypeOK
<1>2. \A m \in Loaders : /\ stage[m] = "reloading" => library[RootOf[m]] = "good"
                         /\ stage[m] # "unusable"
    BY <1>1 DEF RebuiltIsGood
<1> USE <1>1, <1>2, CacheAssumption DEF TypeOK, LibraryStep
<1> DEFINE Settled == \A m \in Loaders : /\ stage'[m] = "reloading" => library'[RootOf[m]] = "good"
                                         /\ stage'[m] # "unusable"
<1>3. ASSUME NEW l \in Loaders, Rename(l) PROVE Settled
    BY <1>3 DEF Rename, Goto
<1>4. ASSUME NEW l \in Loaders, Ask(l) \/ Lock(l) \/ Check(l) \/ Repair(l) PROVE Settled
    BY <1>4 DEF Ask, Lock, Check, Repair, Goto
<1>5. ASSUME NEW l \in Loaders, FailToBuild(l) \/ StopRustc(l) \/ Load(l) PROVE Settled
    BY <1>5 DEF FailToBuild, StopRustc, Load, Leave
<1>6. ASSUME NEW l \in Loaders, GiveUp(l) PROVE Settled
    BY <1>6 DEF GiveUp
<1>7. ASSUME NEW p \in Processes, Crash(p) PROVE Settled
    BY <1>7 DEF Crash
<1>8. ASSUME NEW r \in Roots, Damage(r) PROVE Settled
    BY <1>8 DEF Damage
<1>9. CASE UNCHANGED vars
    BY <1>9 DEF vars
<1> QED
    BY <1>3, <1>4, <1>5, <1>6, <1>7, <1>8, <1>9 DEF Next, Loader

\* The invariant everything else is read off from.
LEMMA CacheInvariant == Spec => []CacheInv
<1>1. CacheInv /\ [Next]_vars => CacheInv'
    BY TypeStep, RegistryStep, SerializedStep, RebuiltStep DEF CacheInv
<1> QED
    BY <1>1, InitCache, PTL DEF Spec

-----------------------------------------------------------------------------
\* Every value stays in its range, and a loader refers to a lock exactly while
\* it waits for one or works under it.
THEOREM CacheTypes == Spec => []TypeOK
BY CacheInvariant, PTL DEF CacheInv

\* "Serialize the cache check, compilation and publication for this digest":
\* however locks come and go with the loaders that refer to them, two loaders
\* of one process are never at it together.  (native_calls.rs block_compile_lock)
THEOREM CacheSerializes == Spec => []Serialized
BY CacheInvariant, PTL DEF CacheInv

\* All the loaders of a process that refer to a lock refer to one.
THEOREM CacheLocks == Spec => []OneLockPerProcess
<1>1. CacheInv => OneLockPerProcess
    BY CacheAssumption DEF CacheInv, RegistryNamesTheLock, OneLockPerProcess
<1> QED
    BY <1>1, CacheInvariant, PTL

\* One rebuild is enough: a loader gives up on a library only if somebody else
\* damaged one, even while other processes rename theirs over it.
THEOREM CacheRepairs == Spec => []RepairIsEnough
<1>1. CacheInv => RepairIsEnough
    BY DEF CacheInv, RebuiltIsGood, RepairIsEnough, TypeOK
<1> QED
    BY <1>1, CacheInvariant, PTL

\* A cancelled, failed or crashed build leaves a usable library usable.
THEOREM CacheKeepsLibraries == Spec => GoodStaysGood
<1>1. CacheInv /\ [Next]_vars
        => [\A r \in Roots : library[r] = "good" /\ library'[r] # "good" => damages' = damages + 1]_vars
    BY LibrariesStep DEF CacheInv, LibraryStep
<1> QED
    BY <1>1, CacheInvariant, PTL DEF Spec, GoodStaysGood
=============================================================================
