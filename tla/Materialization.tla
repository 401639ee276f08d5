-------------------------- MODULE Materialization --------------------------
(***************************************************************************)
(* From the rows of an evaluation's inputs to its settled relations.  The  *)
(* workers feed their shares of every input, the dataflow moves the rows   *)
(* about, each worker captures what reaches it, and publishes a sorted     *)
(* batch per head once nothing is under way.  Helper threads then claim    *)
(* the heads one by one, merge a head's batches, count its rows against    *)
(* the tuple ceiling, and put them where the coordinator collects them.    *)
(* All of these threads charge what they allocate to the evaluation.       *)
(*                                                                         *)
(* The program here is one rule per head that copies its input, of which   *)
(* the rows are 1 .. InputLen[h].  The dataflow is external: it takes a    *)
(* row to any worker, and may derive a row and retract it again, in two    *)
(* updates that may reach two workers; MaxRetractions bounds how often.    *)
(* An update, an entry of a batch and a settled row each hold one byte.    *)
(***************************************************************************)
EXTENDS Accounting, Feeding

CONSTANTS Helpers,      \* the threads of parallel_map, of which there is one
          Heads,        \* the number of heads, which are in order
          InputLen,
          MaxRetractions,
          TupleLimit    \* Limits::tuples

HeadSet == 1 .. Heads

ASSUME MaterializationAssumption ==
    /\ Threads = Workers \cup Helpers
    /\ Workers \cap Helpers = {}
    /\ IsFiniteSet(Helpers) /\ Helpers # {}
    /\ Heads \in Nat
    /\ InputLen \in [HeadSet -> Nat]
    /\ MaxRetractions \in Nat /\ TupleLimit \in Nat

VARIABLES
    fed,        \* the workers that have fed their shares
    moving,     \* the updates under way in the dataflow
    retractions,
    buffer,     \* each worker's WorkerCapture of each head
    flushed,    \* how many of its captures each worker has flushed
    batches,    \* MaterializedUpdates of each head
    next,       \* the index the next helper claims
    stage,      \* where each helper stands
    claimed,    \* the index each helper holds
    rows,       \* the rows each helper has merged
    tuples, fault,   \* the budget
    results     \* the slots the coordinator collects, empty ones << >>

dataflow == <<fed, moving, retractions, buffer, flushed>>
settling == <<batches, next, stage, claimed, rows, tuples, fault, results>>
vars == <<memory, dataflow, settling>>

Init == /\ AccountingInit(Workers)
        /\ fed = {} /\ moving = {} /\ retractions = 0
        /\ buffer = [w \in Workers |-> [h \in HeadSet |-> << >>]]
        /\ flushed = [w \in Workers |-> 0]
        /\ batches = [h \in HeadSet |-> << >>]
        /\ next = 1
        /\ stage = [t \in Helpers |-> "starting"]
        /\ claimed = [t \in Helpers |-> 0]
        /\ rows = [t \in Helpers |-> << >>]
        /\ tuples = 0 /\ fault = FALSE
        /\ results = [h \in HeadSet |-> << >>]

Sizes(n) == IF n = 0 THEN << >> ELSE <<n>>

\* A thread allocates and frees, in this order.
Charge(t, allocated, freed) ==
    /\ charges' = [charges EXCEPT ![t] = Sizes(allocated) \o Sizes(-freed)]
    /\ UNCHANGED <<tagged, pending, current, peak, added, higher, highest>>

TotalLen(seqs) == SumFunction([i \in DOMAIN seqs |-> Len(seqs[i])])
-----------------------------------------------------------------------------
(* Feeding and capturing *)

\* Updates of one row that are under way together are told apart by the
\* retraction they are from, if any.
Update(h, r, weight, of) == [head |-> h, row |-> r, weight |-> weight, of |-> of]

\* build_and_feed: the worker's share of every input, and the inputs close.
Feed(w) ==
    /\ w \notin fed
    /\ fed' = fed \cup {w}
    /\ moving' = moving \cup UNION {{Update(h, j + 1, 1, 0) : j \in Share(w, InputLen[h])} :
                                      h \in HeadSet}
    /\ UNCHANGED <<memory, retractions, buffer, flushed, settling>>

\* The dataflow derives a row that turns out not to hold.
Retract(h) ==
    /\ moving # {}
    /\ retractions < MaxRetractions
    /\ retractions' = retractions + 1
    /\ moving' = moving \cup {Update(h, 0, 1, retractions'), Update(h, 0, -1, retractions')}
    /\ UNCHANGED <<memory, fed, buffer, flushed, settling>>

\* capture: the update stays on the worker it reaches.
Arrive(w, u) ==
    /\ u \in moving /\ w \in fed /\ Settled(w)
    /\ moving' = moving \ {u}
    /\ buffer' = [buffer EXCEPT ![w][u.head] = Append(@, <<u.row, u.weight>>)]
    /\ Charge(w, 1, 0)
    /\ UNCHANGED <<fed, retractions, flushed, settling>>

\* The probe is done.
Complete == fed = Workers /\ moving = {}

Weight(updates, r) ==
    SumFunction([i \in DOMAIN updates |-> IF updates[i][1] = r THEN updates[i][2] ELSE 0])

\* The member of a set of numbers that has i - 1 before it.
Nth(set, i) == CHOOSE n \in set : Cardinality({m \in set : m < n}) = i - 1

\* The rows sorted, each once, without those whose updates cancel.
AsBatch(updates) ==
    LET held == {r \in {u[1] : u \in Range(updates)} : Weight(updates, r) # 0}
    IN [i \in 1 .. Cardinality(held) |-> <<Nth(held, i), Weight(updates, Nth(held, i))>>]

\* WorkerCapture::flush of the worker's next capture.  Nothing is pushed for
\* an empty batch.
Flush(w) ==
    LET h == flushed[w] + 1
        batch == AsBatch(buffer[w][h])
    IN /\ Complete /\ flushed[w] < Heads /\ Settled(w)
       /\ flushed' = [flushed EXCEPT ![w] = h]
       /\ buffer' = [buffer EXCEPT ![w][h] = << >>]
       /\ batches' = IF batch = << >> THEN batches
                     ELSE [batches EXCEPT ![h] = Append(@, batch)]
       /\ Charge(w, Len(batch), Len(buffer[w][h]))
       /\ UNCHANGED <<fed, moving, retractions, next, stage, claimed, rows,
                      tuples, fault, results>>

\* Every worker has reported; the coordinator starts to settle.
AllReported == \A w \in Workers : flushed[w] = Heads
-----------------------------------------------------------------------------
(* Merging *)

\* Mutant of MergeStep: of an equal pair one weight is kept.
MergeStepLeft(left, right, s) ==
    LET l == left[s.i]
        r == right[s.j]
        Take(i, j, entry) == [i |-> i, j |-> j, merged |-> Append(s.merged, entry)]
    IN IF s.i > Len(left) \/ s.j > Len(right) THEN s
       ELSE IF l[1] < r[1] THEN Take(s.i + 1, s.j, l)
       ELSE IF l[1] > r[1] THEN Take(s.i, s.j + 1, r)
       ELSE Take(s.i + 1, s.j + 1, l)

\* One turn of the loop in merge_batches: the batches are at positions i and
\* j.  The weights of a row both hold are added, and it is dropped when they
\* cancel.
MergeStep(left, right, s) ==
    LET l == left[s.i]
        r == right[s.j]
        Take(i, j, entries) == [i |-> i, j |-> j, merged |-> s.merged \o entries]
    IN IF s.i > Len(left) \/ s.j > Len(right) THEN s
       ELSE IF l[1] < r[1] THEN Take(s.i + 1, s.j, <<l>>)
       ELSE IF l[1] > r[1] THEN Take(s.i, s.j + 1, <<r>>)
       ELSE Take(s.i + 1, s.j + 1,
                 IF l[2] + r[2] # 0 THEN << <<l[1], l[2] + r[2]>> >> ELSE << >>)

\* The loop after k turns; it has ended after Len(left) + Len(right).
Merging(left, right) ==
    LET loop[k \in Nat] == IF k = 0 THEN [i |-> 1, j |-> 1, merged |-> << >>]
                           ELSE MergeStep(left, right, loop[k - 1])
    IN loop

\* merge_batches: two sorted batches as one.
MergeBatches(left, right) ==
    LET end == Merging(left, right)[Len(left) + Len(right)]
    IN end.merged \o SubSeq(left, end.i, Len(left)) \o SubSeq(right, end.j, Len(right))

\* One pass of consolidate over the batches: neighbours in pairs, and the
\* last one by itself if their number is odd.
MergePairs(bs) ==
    [i \in 1 .. (Len(bs) + 1) \div 2 |->
       IF 2 * i <= Len(bs) THEN MergeBatches(bs[2 * i - 1], bs[2 * i])
       ELSE bs[2 * i - 1]]

\* The batches after k passes; a pass over one batch leaves it as it is.
Passes(bs) ==
    LET pass[k \in Nat] == IF k = 0 THEN bs ELSE MergePairs(pass[k - 1])
    IN pass

\* The rows of positive weight among the first k of a batch.
Kept(batch) ==
    LET kept[k \in Nat] ==
            IF k = 0 THEN << >>
            ELSE IF batch[k][2] > 0 THEN Append(kept[k - 1], batch[k][1])
            ELSE kept[k - 1]
    IN kept

\* consolidate: passes until one batch is left, of which the rows of positive
\* weight are the relation.
Consolidate(bs) ==
    IF bs = << >> THEN << >>
    ELSE LET batch == Passes(bs)[Len(bs)][1] IN Kept(batch)[Len(batch)]
-----------------------------------------------------------------------------
(* The helpers of parallel_map *)

Goto(t, from, to) == /\ stage[t] = from /\ Settled(t)
                     /\ stage' = [stage EXCEPT ![t] = to]

Start(t) == /\ AllReported
            /\ Goto(t, "starting", "claiming")
            /\ Tag(t)
            /\ UNCHANGED <<dataflow, batches, next, claimed, rows, tuples, fault, results>>

\* next.fetch_add: an index of its own, or none is left.
Claim(t) ==
    /\ Goto(t, "claiming", IF next > Heads THEN "leaving" ELSE "merging")
    /\ next' = next + 1
    /\ claimed' = [claimed EXCEPT ![t] = next]
    /\ UNCHANGED <<memory, dataflow, batches, rows, tuples, fault, results>>

\* The batches are taken and merged.
Merge(t) ==
    LET h == claimed[t]
        merged == Consolidate(batches[h])
    IN /\ Goto(t, "merging", "counting")
       /\ batches' = [batches EXCEPT ![h] = << >>]
       /\ rows' = [rows EXCEPT ![t] = merged]
       /\ Charge(t, Len(merged), TotalLen(batches[h]))
       /\ UNCHANGED <<dataflow, next, claimed, tuples, fault, results>>

\* Mutant of NoteTuples: fetch_add returns what was there before.
NoteTuplesBefore(t) ==
    /\ Goto(t, "counting", "storing")
    /\ tuples' = tuples + Len(rows[t])
    /\ fault' = (fault \/ tuples > TupleLimit)
    /\ UNCHANGED <<memory, dataflow, batches, next, claimed, rows, results>>

\* Budget::note_tuples.
NoteTuples(t) ==
    /\ Goto(t, "counting", "storing")
    /\ tuples' = tuples + Len(rows[t])
    /\ fault' = (fault \/ tuples + Len(rows[t]) > TupleLimit)
    /\ UNCHANGED <<memory, dataflow, batches, next, claimed, rows, results>>

Store(t) == /\ Goto(t, "storing", "claiming")
            /\ results' = [results EXCEPT ![claimed[t]] = <<rows[t]>>]
            /\ rows' = [rows EXCEPT ![t] = << >>]
            /\ UNCHANGED <<memory, dataflow, batches, next, claimed, tuples, fault>>

Leave(t) == /\ Goto(t, "leaving", "gone")
            /\ Untag(t)
            /\ UNCHANGED <<dataflow, batches, next, claimed, rows, tuples, fault, results>>

\* The scope of the helpers has ended.
Joined == \A t \in Helpers : stage[t] = "gone" /\ Settled(t)

\* The worker set is dropped, and the worker's tag with its thread.
EndWorker(w) == /\ Joined /\ w \in tagged /\ Settled(w)
                /\ Untag(w)
                /\ UNCHANGED <<dataflow, settling>>

AllEnded == Joined /\ \A w \in Workers : w \notin tagged /\ Settled(w)

Memory(t) == /\ Account(t) \/ ComparePeak(t) \/ RaisePeak(t)
             /\ UNCHANGED <<dataflow, settling>>

Next == \/ \E w \in Workers : \/ Feed(w) \/ Flush(w) \/ EndWorker(w)
                              \/ \E u \in moving : Arrive(w, u)
        \/ \E h \in HeadSet : Retract(h)
        \/ \E t \in Helpers : \/ Start(t) \/ Claim(t) \/ Merge(t)
                              \/ NoteTuples(t) \/ Store(t) \/ Leave(t)
        \/ \E t \in Threads : Memory(t)
        \/ AllEnded /\ UNCHANGED vars

Spec == Init /\ [][Next]_vars
-----------------------------------------------------------------------------
(* However the workers share the rows of an input, wherever the dataflow   *)
(* takes them, in whichever order batches are published and whoever merges *)
(* them: when the helpers are joined every head has settled as exactly its *)
(* rows, sorted and each once, and the rows it had retracted are gone.     *)
SettledAsASet ==
    Joined => \A h \in HeadSet : results[h] = << [i \in 1 .. InputLen[h] |-> i] >>

(* The rows of all heads together, which helpers count concurrently, are   *)
(* held against the tuple ceiling: when the helpers are joined the         *)
(* evaluation has a fault exactly if the heads hold more than TupleLimit.  *)
CeilingIsNoticed ==
    Joined => (fault <=> TotalLen([h \in HeadSet |-> results[h][1]]) > TupleLimit)

(* What the evaluation's threads hold is on its counter, except for what   *)
(* tagged threads have still to add: buffers, batches and rows, wherever   *)
(* they were allocated and whoever frees them.                             *)
BytesAreCharged ==
    LET Unaccounted(t) == (IF t \in tagged THEN pending[t] ELSE 0) + SumFunction(charges[t])
    IN current + SumFunction([t \in Threads |-> Unaccounted(t)])
         = SumFunction([w \in Workers |-> TotalLen(buffer[w])])
           + SumFunction([h \in HeadSet |-> TotalLen(batches[h])])
           + SumFunction([h \in HeadSet |-> TotalLen(results[h])])
           + TotalLen(rows)

(* When all threads have ended, the peak the evaluation reports is the     *)
(* highest value its counter ever had, although they raise it without a    *)
(* lock.                                                                   *)
PeakIsTheHighest == AllEnded => peak = highest
=============================================================================
