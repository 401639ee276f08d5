----------------------------- MODULE BlockCache -----------------------------
(***************************************************************************)
(* The cache of compiled blocks, for one digest: load_block, compile_block *)
(* and the registry of locks that serializes them within a process.        *)
(*                                                                         *)
(* A loader asks the registry for the digest's lock, takes it, and under   *)
(* it looks for the library, builds it if there is none, opens it, and     *)
(* rebuilds it once if it cannot be used.  The registry holds locks        *)
(* weakly: a lock lives as long as a loader refers to it, and a later      *)
(* loader makes another.  Processes share a directory and no lock.  rustc  *)
(* writes beside the library and the result is renamed over it.            *)
(*                                                                         *)
(* A lock is named after the loader that made it.  Somebody else may       *)
(* damage a library in a cache; MaxDamages bounds how often.               *)
(***************************************************************************)
EXTENDS Naturals, FiniteSets

CONSTANTS Loaders,     \* calls of load_block
          Processes, ProcessOf,
          Roots, RootOf,   \* the cache directory each loader is given
          NoLock,
          MaxDamages

ASSUME CacheAssumption == /\ ProcessOf \in [Loaders -> Processes]
                          /\ RootOf \in [Loaders -> Roots]
                          /\ NoLock \notin Loaders
                          /\ MaxDamages \in Nat

VARIABLES library,    \* each root: "missing", "damaged" or "good"
          registry,   \* each process: the lock its registry names, dead or alive
          lock,       \* the lock each loader refers to
          stage,      \* where each loader stands
          damages     \* how many libraries were damaged so far

vars == <<library, registry, lock, stage, damages>>

Critical == {"checking", "building", "loading", "rebuilding", "reloading"}

Compiling == {"building", "rebuilding"}

Init == /\ library \in [Roots -> {"missing", "damaged", "good"}]
        /\ registry = [p \in Processes |-> NoLock]
        /\ lock = [l \in Loaders |-> NoLock]
        /\ stage = [l \in Loaders |-> "asking"]
        /\ damages = 0

Goto(l, from, to) == /\ stage[l] = from
                     /\ stage' = [stage EXCEPT ![l] = to]

\* The strong count of a lock is not zero.
Alive(k) == \E l \in Loaders : lock[l] = k

\* Mutant of Ask: a lock that is alive is not found again.
AskForNew(l) ==
    LET p == ProcessOf[l] IN
    /\ Goto(l, "asking", "locking")
    /\ lock' = [lock EXCEPT ![l] = l]
    /\ registry' = [registry EXCEPT ![p] = l]
    /\ UNCHANGED <<library, damages>>

\* block_compile_lock: the digest's lock if anybody still refers to it, or a
\* new one.
Ask(l) ==
    LET p == ProcessOf[l]
        k == IF registry[p] # NoLock /\ Alive(registry[p]) THEN registry[p] ELSE l
    IN /\ Goto(l, "asking", "locking")
       /\ lock' = [lock EXCEPT ![l] = k]
       /\ registry' = [registry EXCEPT ![p] = k]
       /\ UNCHANGED <<library, damages>>

Lock(l) == /\ \A m \in Loaders : lock[m] = lock[l] => stage[m] \notin Critical
           /\ Goto(l, "locking", "checking")
           /\ UNCHANGED <<library, registry, lock, damages>>

\* The library is there, or it has to be built.
Check(l) == /\ Goto(l, "checking", IF library[RootOf[l]] = "missing"
                                   THEN "building" ELSE "loading")
            /\ UNCHANGED <<library, registry, lock, damages>>

\* rustc succeeds, and its output is renamed over the library.
Rename(l) ==
    /\ Goto(l, "building", "loading") \/ Goto(l, "rebuilding", "reloading")
    /\ library' = [library EXCEPT ![RootOf[l]] = "good"]
    /\ UNCHANGED <<registry, lock, damages>>

\* The loader returns: its guard and its lock are dropped.
Leave(l, outcome) == /\ stage' = [stage EXCEPT ![l] = outcome]
                     /\ lock' = [lock EXCEPT ![l] = NoLock]

\* The block does not compile, or a file operation fails.
FailToBuild(l) == /\ stage[l] \in Compiling
                  /\ Leave(l, "refused")
                  /\ UNCHANGED <<library, registry, damages>>

\* Mutant of StopRustc: rustc was writing into the library itself.
StopRustcInPlace(l) == /\ stage[l] \in Compiling
                       /\ Leave(l, "stopped")
                       /\ library' = [library EXCEPT ![RootOf[l]] = "damaged"]
                       /\ UNCHANGED <<registry, damages>>

\* The loader finds its build cancelled while rustc runs, and kills it; the
\* evaluation it builds for may end or be refused at any time.
StopRustc(l) == /\ stage[l] \in Compiling
                /\ Leave(l, "stopped")
                /\ UNCHANGED <<library, registry, damages>>

\* load_library accepts the library, with every export it needs.
Load(l) == /\ stage[l] \in {"loading", "reloading"}
           /\ library[RootOf[l]] = "good"
           /\ Leave(l, "loaded")
           /\ UNCHANGED <<library, registry, damages>>

\* Mutant of Repair: the file is opened once more as it is.
RepairByReload(l) == /\ library[RootOf[l]] # "good"
                     /\ Goto(l, "loading", "reloading")
                     /\ UNCHANGED <<library, registry, lock, damages>>

\* Mutant of Repair: the loader starts over, and finds the file again.
RepairByRetry(l) == /\ library[RootOf[l]] # "good"
                    /\ Goto(l, "loading", "locking")
                    /\ UNCHANGED <<library, registry, lock, damages>>

\* It does not: one rebuild is tried, and no more.
Repair(l) == /\ library[RootOf[l]] # "good"
             /\ Goto(l, "loading", "rebuilding")
             /\ UNCHANGED <<library, registry, lock, damages>>

GiveUp(l) == /\ stage[l] = "reloading"
             /\ library[RootOf[l]] # "good"
             /\ Leave(l, "unusable")
             /\ UNCHANGED <<library, registry, damages>>
-----------------------------------------------------------------------------
\* A process ends where it stands: its loaders, its registry and its locks go
\* with it, and what rustc wrote so far stays beside the library.
Crash(p) ==
    /\ stage' = [l \in Loaders |-> IF ProcessOf[l] = p THEN "gone" ELSE stage[l]]
    /\ lock' = [l \in Loaders |-> IF ProcessOf[l] = p THEN NoLock ELSE lock[l]]
    /\ registry' = [registry EXCEPT ![p] = NoLock]
    /\ UNCHANGED <<library, damages>>

Damage(r) == /\ damages < MaxDamages
             /\ damages' = damages + 1
             /\ library' = [library EXCEPT ![r] = "damaged"]
             /\ UNCHANGED <<registry, lock, stage>>

Loader(l) == \/ Ask(l) \/ Lock(l) \/ Check(l) \/ Rename(l) \/ FailToBuild(l)
             \/ StopRustc(l) \/ Load(l) \/ Repair(l) \/ GiveUp(l)

Next == \/ \E l \in Loaders : Loader(l)
        \/ \E p \in Processes : Crash(p)
        \/ \E r \in Roots : Damage(r)

\* rustc ends, and a loader goes on when nobody holds its lock.
Fairness == \A l \in Loaders : WF_vars(Loader(l))

Spec == Init /\ [][Next]_vars /\ Fairness
-----------------------------------------------------------------------------
Ends == {"loaded", "refused", "stopped", "unusable", "gone"}

TypeOK == /\ library \in [Roots -> {"missing", "damaged", "good"}]
          /\ registry \in [Processes -> Loaders \cup {NoLock}]
          /\ lock \in [Loaders -> Loaders \cup {NoLock}]
          /\ stage \in [Loaders -> {"asking", "locking"} \cup Critical \cup Ends]
          /\ damages \in 0..MaxDamages
          /\ \A l \in Loaders : lock[l] = NoLock <=> stage[l] \in {"asking"} \cup Ends

\* "Serialize the cache check, compilation and publication for this digest":
\* two loaders of a process are never between them at once, although locks
\* come and go.
Serialized == \A l, m \in Loaders :
    /\ l # m
    /\ ProcessOf[l] = ProcessOf[m]
    /\ stage[l] \in Critical
    => stage[m] \notin Critical

\* The loaders of a process that refer to a lock refer to the same one.
OneLockPerProcess == \A l, m \in Loaders :
    /\ ProcessOf[l] = ProcessOf[m]
    /\ lock[l] # NoLock
    /\ lock[m] # NoLock
    => lock[l] = lock[m]

\* A library that can be used stays so, whatever is cancelled, fails or
\* crashes: only somebody else damages it.
GoodStaysGood ==
    [][\A r \in Roots : library[r] = "good" /\ library'[r] # "good"
                        => damages' = damages + 1]_vars

\* A loader gives up on a library only if somebody else damaged it meanwhile.
RepairIsEnough == (\E l \in Loaders : stage[l] = "unusable") => damages > 0

\* Every loader returns, behind whatever builds of others.
EveryLoaderReturns == \A l \in Loaders : <>(stage[l] \in Ends)
=============================================================================
