----------------------------- MODULE Accounting -----------------------------
(***************************************************************************)
(* The bytes an evaluation holds, as its threads charge them.  A thread    *)
(* that is tagged with the evaluation's counter gathers what it allocates  *)
(* and frees by itself, and adds it to the counter once that comes to      *)
(* FlushBytes, or when its tag is dropped.  Adding, comparing with the     *)
(* peak and raising the peak are three accesses to shared memory, and      *)
(* other threads come in between.                                          *)
(*                                                                         *)
(* A module that extends this one gives a thread its allocations in        *)
(* `charges`; the thread goes on when it is Settled again.                 *)
(***************************************************************************)
EXTENDS Integers, Sequences, SequencesExt, FiniteSetsExt

CONSTANTS Threads,
          FlushBytes,   \* FLUSH_BYTES
          NoBytes       \* no value of the counter is under consideration

ASSUME AccountingAssumption == FlushBytes \in Nat \ {0} /\ NoBytes \notin Int

VARIABLES tagged,     \* the threads whose COUNTER is set
          pending,    \* PENDING of each thread
          charges,    \* what each thread has allocated (or freed) since
          current, peak,   \* the evaluation's MemoryCounter
          added,      \* the counter as each thread's fetch_add left it
          higher,     \* the value each thread has found to be above the peak
          highest     \* history: the highest value the counter has had

memory == <<tagged, pending, charges, current, peak, added, higher, highest>>

Settled(t) == charges[t] = << >> /\ added[t] = NoBytes /\ higher[t] = NoBytes

\* A thread that is not tagged yet may have allocated something of its own.
AccountingInit(first) ==
    /\ tagged = first
    /\ \E own \in 0 .. FlushBytes - 1 :
         pending = [t \in Threads |-> IF t \in first THEN 0 ELSE own]
    /\ charges = [t \in Threads |-> << >>]
    /\ current = 0 /\ peak = 0 /\ highest = 0
    /\ added = [t \in Threads |-> NoBytes]
    /\ higher = [t \in Threads |-> NoBytes]

\* flush_pending, up to MemoryCounter::apply's fetch_add: what the thread
\* gathered goes to its counter, if it has one.
FlushPending(t, total) ==
    /\ pending' = [pending EXCEPT ![t] = 0]
    /\ IF t \in tagged
       THEN /\ current' = current + total
            /\ added' = [added EXCEPT ![t] = current + total]
            /\ highest' = Max({highest, current + total})
       ELSE UNCHANGED <<current, added, highest>>

\* Mutant of Tag: what the thread allocated before is charged as well.
TagKeepingPending(t) ==
    /\ tagged' = tagged \cup {t}
    /\ UNCHANGED <<pending, charges, current, peak, added, higher, highest>>

\* MemoryTag::new: what the thread gathered for nobody is forgotten.
Tag(t) == /\ tagged' = tagged \cup {t}
          /\ pending' = [pending EXCEPT ![t] = 0]
          /\ UNCHANGED <<charges, current, peak, added, higher, highest>>

\* Dropping a MemoryTag: the rest is charged before the counter is let go.
Untag(t) == /\ FlushPending(t, pending[t])
            /\ tagged' = tagged \ {t}
            /\ UNCHANGED <<charges, peak, higher>>

\* account: one allocation, or one deallocation as a negative number.
Account(t) ==
    LET total == pending[t] + Head(charges[t]) IN
    /\ charges[t] # << >> /\ added[t] = NoBytes /\ higher[t] = NoBytes
    /\ charges' = [charges EXCEPT ![t] = Tail(@)]
    /\ IF total >= FlushBytes \/ -total >= FlushBytes
       THEN FlushPending(t, total)
       ELSE /\ pending' = [pending EXCEPT ![t] = total]
            /\ UNCHANGED <<current, added, highest>>
    /\ UNCHANGED <<tagged, peak, higher>>

\* apply goes on: is the value above the peak, as the peak stands now?
ComparePeak(t) ==
    /\ added[t] # NoBytes
    /\ added' = [added EXCEPT ![t] = NoBytes]
    /\ higher' = [higher EXCEPT ![t] = IF added[t] > peak THEN added[t] ELSE NoBytes]
    /\ UNCHANGED <<tagged, pending, charges, current, peak, highest>>

\* Mutant of RaisePeak: a store.
StorePeak(t) ==
    /\ higher[t] # NoBytes
    /\ peak' = higher[t]
    /\ higher' = [higher EXCEPT ![t] = NoBytes]
    /\ UNCHANGED <<tagged, pending, charges, current, added, highest>>

\* apply ends: fetch_max, for the peak may have risen meanwhile.
RaisePeak(t) ==
    /\ higher[t] # NoBytes
    /\ peak' = Max({peak, higher[t]})
    /\ higher' = [higher EXCEPT ![t] = NoBytes]
    /\ UNCHANGED <<tagged, pending, charges, current, added, highest>>
=============================================================================
