---------------------------- MODULE LoadingProofs ----------------------------
(***************************************************************************)
(* The symbol table, for every set of texts and every digest, however many *)
(* texts meet in one id, and the loading of a file, for every file and any *)
(* number of readers, whatever anybody else interns in the table.          *)
(*                                                                         *)
(* What strengthens the properties of the table is the bookkeeping of a    *)
(* call: one that is under way has a text and no answer.  With it, every   *)
(* step either leaves the table alone or fills a free id.                  *)
(*                                                                         *)
(* A file is shared exactly among the threads that read it, wherever the   *)
(* ranges are cut (ReadExactlyOnce).  Where a line ends is a least         *)
(* element; that there is one follows from the well-foundedness of the     *)
(* natural numbers (Least).                                                *)
(*                                                                         *)
(* What a reader does with the symbol table is a call of it, so what holds *)
(* of the table holds behind the readers.  The invariant then says what    *)
(* each of them has read: the rows it has are those of the records of its  *)
(* segment behind it, their texts are in the table to stay, and what is in *)
(* the table has come from the file or from a call elsewhere, so that a    *)
(* line refused for a collision has one.                                   *)
(***************************************************************************)
EXTENDS Loading, TLAPS, FiniteSetTheorems, SequenceTheorems, WellFoundedInduction
-----------------------------------------------------------------------------
(* The symbol table *)

CallsInOrder ==
    \A c \in Calls :
        /\ pc[c] = "idle" <=> argument[c] = NoText
        /\ pc[c] # "returned" => answer[c] = "none"

SymbolInv == /\ TypeOK
             /\ CallsInOrder
             /\ OneTextPerAnswer
             /\ RefusedOnlyOnCollision
             /\ PointersStayValid

\* What any step may do to the table: nothing, or fill a free id.
Grows == \A id \in Ids : texts[id] # NoText => texts'[id] = texts[id]

LEMMA InitSymbols == Init => SymbolInv
BY SymbolAssumption
DEF Init, SymbolInv, TypeOK, CallsInOrder, OneTextPerAnswer,
    RefusedOnlyOnCollision, PointersStayValid

\* The id of a call under way is one of Ids, and what it finds there is a
\* text or nothing.
LEMMA LookIsTyped ==
    ASSUME SymbolInv, NEW c \in Calls, pc[c] \in {"reading", "inserting"}
    PROVE  /\ argument[c] \in Texts
           /\ SymbolId(argument[c]) \in Ids
           /\ texts[SymbolId(argument[c])] \in Texts \cup {NoText}
BY SymbolAssumption DEF SymbolInv, TypeOK, CallsInOrder

\* The table keeps its type and its calls their order.
LEMMA TypeStep ==
    ASSUME SymbolInv, [Next]_vars
    PROVE  TypeOK' /\ CallsInOrder'
<1> USE SymbolAssumption DEF SymbolInv, TypeOK, CallsInOrder
<1>1. ASSUME NEW c \in Calls, NEW text \in Texts, Call(c, text)
      PROVE  TypeOK' /\ CallsInOrder'
    BY <1>1 DEF Call
<1>2. ASSUME NEW c \in Calls, LookUp(c)
      PROVE  TypeOK' /\ CallsInOrder'
    BY <1>2 DEF LookUp, Judge, Return
<1>3. ASSUME NEW c \in Calls, Insert(c)
      PROVE  TypeOK' /\ CallsInOrder'
    <2>1. SymbolId(argument[c]) \in Ids /\ argument[c] \in Texts
        BY <1>3, LookIsTyped DEF Insert
    <2> QED
        BY <1>3, <2>1 DEF Insert, Judge, Return
<1>4. ASSUME NEW r \in Readers, NEW id \in Ids, ResolveRaw(r, id)
      PROVE  TypeOK' /\ CallsInOrder'
    BY <1>4 DEF ResolveRaw
<1>5. CASE UNCHANGED vars
    BY <1>5 DEF vars
<1> QED
    BY <1>1, <1>2, <1>3, <1>4, <1>5 DEF Next

\* Only an insertion writes the table, and only where it is free.
LEMMA TableStep ==
    ASSUME SymbolInv, [Next]_vars
    PROVE  Grows
<1> USE DEF Grows, SymbolInv, TypeOK
<1>1. ASSUME NEW c \in Calls, Insert(c) PROVE Grows
    BY <1>1, LookIsTyped DEF Insert
<1>2. CASE UNCHANGED texts
    BY <1>2
<1> QED
    BY <1>1, <1>2 DEF Next, vars, Call, LookUp, ResolveRaw

\* A judgement is about a text the table holds, and keeps holding.
LEMMA AnswersStep ==
    ASSUME SymbolInv, [Next]_vars
    PROVE  OneTextPerAnswer' /\ RefusedOnlyOnCollision'
<1> SUFFICES ASSUME NEW c \in Calls
             PROVE  /\ answer'[c] = "ok" => texts'[SymbolId(argument'[c])] = argument'[c]
                    /\ answer'[c] = "collision" =>
                         texts'[SymbolId(argument'[c])] \notin {NoText, argument'[c]}
    BY DEF OneTextPerAnswer, RefusedOnlyOnCollision
<1>1. Grows
    BY TableStep
<1>2. CASE answer'[c] = answer[c]
    <2> SUFFICES ASSUME answer[c] # "none"
                 PROVE  /\ argument'[c] = argument[c] /\ argument[c] \in Texts
                        /\ texts[SymbolId(argument[c])] # NoText
        BY <1>1, <1>2, SymbolAssumption
        DEF SymbolInv, OneTextPerAnswer, RefusedOnlyOnCollision, Grows, TypeOK
    <2>1. pc[c] = "returned" /\ argument[c] \in Texts
        BY DEF SymbolInv, CallsInOrder, TypeOK
    <2>2. argument'[c] = argument[c]
        BY <2>1 DEF Next, vars, Call, LookUp, Insert, ResolveRaw, SymbolInv, TypeOK
    <2>3. texts[SymbolId(argument[c])] # NoText
        BY <2>1, SymbolAssumption
        DEF SymbolInv, OneTextPerAnswer, RefusedOnlyOnCollision, TypeOK
    <2> QED
        BY <2>1, <2>2, <2>3
<1>3. CASE answer'[c] # answer[c]
    <2>1. LookUp(c) \/ Insert(c)
        BY <1>3 DEF Next, vars, Call, LookUp, Insert, Judge, Return, ResolveRaw,
                    SymbolInv, TypeOK
    <2>2. /\ argument[c] \in Texts
          /\ SymbolId(argument[c]) \in Ids
        BY <2>1, LookIsTyped DEF LookUp, Insert
    <2>3. CASE LookUp(c)
        BY <1>3, <2>2, <2>3, SymbolAssumption
        DEF LookUp, Judge, Return, SymbolInv, TypeOK
    <2>4. CASE Insert(c)
        BY <1>3, <2>2, <2>4, SymbolAssumption
        DEF Insert, Judge, Return, SymbolInv, TypeOK
    <2> QED
        BY <2>1, <2>3, <2>4
<1> QED
    BY <1>2, <1>3

\* A pointer designates a text that stays.
LEMMA PointersStep ==
    ASSUME SymbolInv, [Next]_vars
    PROVE  PointersStayValid'
<1> SUFFICES ASSUME NEW r \in Readers, pointer'[r] # NoPointer
             PROVE  texts'[pointer'[r].id] = pointer'[r].text
    BY DEF PointersStayValid, NoPointer
<1>1. Grows
    BY TableStep
<1>2. CASE pointer'[r] = pointer[r]
    <2>1. pointer[r] \in [id : Ids, text : Texts]
        BY <1>2 DEF SymbolInv, TypeOK
    <2> QED
        BY <1>1, <1>2, <2>1, SymbolAssumption
        DEF SymbolInv, PointersStayValid, Grows
<1>3. CASE pointer'[r] # pointer[r]
    <2>1. PICK id \in Ids : ResolveRaw(r, id)
        BY <1>3 DEF Next, vars, Call, LookUp, Insert, ResolveRaw, SymbolInv, TypeOK
    <2> QED
        BY <2>1 DEF ResolveRaw, SymbolInv, TypeOK
<1> QED
    BY <1>2, <1>3

LEMMA NextSymbols == SymbolInv /\ [Next]_vars => SymbolInv'
BY TypeStep, AnswersStep, PointersStep DEF SymbolInv

LEMMA SymbolsInvariant == Spec => []SymbolInv
BY InitSymbols, NextSymbols, PTL DEF Spec
-----------------------------------------------------------------------------
\* Two texts never get one id, and a text is refused only for another text.
THEOREM SymbolAnswers ==
    Spec => [](TypeOK /\ OneTextPerAnswer /\ RefusedOnlyOnCollision)
<1>1. SymbolInv => TypeOK /\ OneTextPerAnswer /\ RefusedOnlyOnCollision
    BY DEF SymbolInv
<1> QED
    BY <1>1, SymbolsInvariant, PTL

\* A pointer that resolve_raw gave out stays good after any interning.
THEOREM SymbolPointers == Spec => []PointersStayValid
<1>1. SymbolInv => PointersStayValid
    BY DEF SymbolInv
<1> QED
    BY <1>1, SymbolsInvariant, PTL

\* No step takes an id away from its text.
THEOREM SymbolsOnlyGrow == Spec => OnlyGrows
<1>1. SymbolInv /\ [Next]_vars =>
        [\A id \in Ids : texts[id] # NoText => texts'[id] = texts[id]]_vars
    BY TableStep DEF Grows
<1> QED
    BY <1>1, SymbolsInvariant, PTL DEF Spec, OnlyGrows
-----------------------------------------------------------------------------
\* Every step of the table is a step of the atomic one, or a stutter: the
\* look under the write lock is where the call takes effect, unless the look
\* under the read lock already found the id taken.
LEMMA StepImplements ==
    SymbolInv /\ [Next]_vars => [Atomic!Next]_(Atomic!vars)
<1> SUFFICES ASSUME SymbolInv, Next
             PROVE  Atomic!Next \/ UNCHANGED Atomic!vars
    BY DEF vars, Atomic!vars
<1>1. ASSUME NEW c \in Calls, NEW text \in Texts, Call(c, text)
      PROVE  Atomic!Call(c, text)
    BY <1>1 DEF Call, Atomic!Call, SymbolInv, CallsInOrder
<1>2. ASSUME NEW c \in Calls, pc[c] \in {"reading", "inserting"}, UNCHANGED argument,
             Judge(c, texts[SymbolId(argument[c])]), UNCHANGED texts
      PROVE  Atomic!Intern(c)
    <2>1. /\ argument[c] # NoText
          /\ SymbolId(argument[c]) \in Ids
          /\ answer[c] = "none"
        BY <1>2, LookIsTyped, SymbolAssumption DEF SymbolInv, CallsInOrder
    <2>2. texts = [texts EXCEPT ![SymbolId(argument[c])] = texts[SymbolId(argument[c])]]
        BY DEF SymbolInv, TypeOK
    <2> QED
        BY <1>2, <2>1, <2>2 DEF Judge, Return, Atomic!Intern
<1>3. ASSUME NEW c \in Calls, LookUp(c)
      PROVE  Atomic!Intern(c) \/ UNCHANGED Atomic!vars
    BY <1>2, <1>3 DEF LookUp, Atomic!vars
<1>4. ASSUME NEW c \in Calls, Insert(c)
      PROVE  Atomic!Intern(c)
    <2>1. /\ argument[c] # NoText
          /\ answer[c] = "none"
        BY <1>4, LookIsTyped, SymbolAssumption DEF SymbolInv, CallsInOrder, Insert
    <2>2. CASE Judge(c, texts[SymbolId(argument[c])]) /\ UNCHANGED texts
        BY <1>2, <1>4, <2>2 DEF Insert
    <2>3. CASE ~ (Judge(c, texts[SymbolId(argument[c])]) /\ UNCHANGED texts)
        BY <1>4, <2>1, <2>3 DEF Insert, Return, Atomic!Intern
    <2> QED
        BY <2>2, <2>3
<1>5. ASSUME NEW r \in Readers, NEW id \in Ids, ResolveRaw(r, id)
      PROVE  UNCHANGED Atomic!vars
    BY <1>5 DEF ResolveRaw, Atomic!vars
<1> QED
    BY <1>1, <1>3, <1>4, <1>5 DEF Next, Atomic!Next

\* Looking twice under two locks is as good as interning in one step.
THEOREM SymbolTableIsAtomic == Spec => AtomicSpec
<1>1. Init => Atomic!Init
    BY DEF Init, Atomic!Init
<1> QED
    BY <1>1, StepImplements, SymbolsInvariant, PTL DEF Spec, AtomicSpec, Atomic!Spec
-----------------------------------------------------------------------------
(* What readers have read *)

\* Lines of a wrong width.
Misshapen == {p \in Records : ~ WellFormed(Line(file, p))}

\* The row of a record, and that its texts are in the table.
RowOf(p) == [k \in DOMAIN Record(p) |-> SymbolId(Record(p)[k])]

Holds(p) == \A x \in Range(Record(p)) : texts[SymbolId(x)] = x

\* The calls of the readers are for cells of the file, and what is in the
\* table is from the file or from elsewhere.
Origins ==
    /\ \A c \in Calls \ Others : argument[c] # NoText =>
          \E w \in Workers, p \in Records : \E k \in DOMAIN Record(p) :
             c = <<w, p, k>> /\ argument[c] = Record(p)[k]
    /\ \A id \in Ids : texts[id] # NoText =>
          /\ SymbolId(texts[id]) = id
          /\ texts[id] \in FileTexts \cup TakenElsewhere

\* The records a reader has read.
Behind(w) == {p \in Records : p \in Segment(file, w) /\ p < at[w]}

\* A reader in a line has read some of its cells; between lines it has none.
CellsRead(w) ==
    LET inLine == at[w] < SegmentEnd(file, w) /\ ~ Blank(Current(w)) IN
    /\ inLine => /\ Len(row[w]) <= Len(Record(at[w]))
                 /\ \A k \in DOMAIN row[w] : /\ row[w][k] = SymbolId(Record(at[w])[k])
                                             /\ texts[row[w][k]] = Record(at[w])[k]
    /\ ~ inLine => row[w] = << >>

\* Its rows are those of the records behind it, all of which it could read.
LinesRead(w) ==
    /\ SegmentStart(file, w) <= at[w]
    /\ at[w] < SegmentEnd(file, w) => at[w] \in Lines(file)
    /\ rows[w] = {RowOf(p) : p \in Behind(w)}
    /\ \A p \in Behind(w) : p \notin Misshapen /\ Holds(p)

HasRead(w) ==
    /\ reader[w] = "starting" => row[w] = << >> /\ rows[w] = {}
    /\ reader[w] # "starting" => LinesRead(w) /\ CellsRead(w)
    /\ reader[w] = "done" => at[w] >= SegmentEnd(file, w)
    /\ reader[w] = "refused" =>
          at[w] < SegmentEnd(file, w) /\ at[w] \in Misshapen \cup Colliding

Answers ==
    /\ loaded.status = "rows" =>
          /\ loaded.rows = {RowOf(p) : p \in Records}
          /\ \A p \in Records : p \notin Misshapen /\ Holds(p)
    /\ loaded.status = "refused" =>
          /\ loaded.line \in Misshapen \cup Colliding
          /\ \A p \in Misshapen : loaded.line <= p

LoadingTypes ==
    /\ file \in Files
    /\ reader \in [Workers -> {"starting", "reading", "done", "refused"}]
    /\ at \in [Workers -> Nat]
    /\ row \in [Workers -> Seq(Ids)]
    /\ rows \in [Workers -> SUBSET Seq(Ids)]
    /\ loaded.status \in {"loading", "rows", "refused"}

LoadingInv == /\ SymbolInv
              /\ LoadingTypes
              /\ Origins
              /\ \A w \in Workers : HasRead(w)
              /\ Answers
-----------------------------------------------------------------------------
(* The segments of a file *)

LessThan == {pair \in Nat \X Nat : pair[1] < pair[2]}

LEMMA Least ==
    ASSUME NEW T \in SUBSET Nat, T # {}
    PROVE  Min(T) \in T /\ \A m \in T : Min(T) <= m
<1>1. LessThan = OpToRel(<, Nat)
  BY DEF LessThan, OpToRel
<1>2. IsWellFoundedOn(LessThan, Nat)
  BY <1>1, NatLessThanWellFounded
<1>3. PICK n \in T : \A m \in T : ~ (<<m, n>> \in LessThan)
  BY <1>2, WFMin
<1>4. ASSUME NEW m \in T
      PROVE  n <= m
  <2>1. m \in Nat /\ n \in Nat
    OBVIOUS
  <2>2. ~ (m < n)
    BY <1>3, <2>1 DEF LessThan
  <2> QED
    BY <2>1, <2>2
<1> QED
  BY <1>4 DEF Min

(* The position behind the next newline, or the end of the file.           *)
LEMMA AfterLineIs ==
    ASSUME NEW f, Len(f) \in Nat, NEW p \in 0 .. Len(f)
    PROVE  /\ AfterLine(f, p) \in p .. Len(f)
           /\ AfterLine(f, p) = Len(f) \/ AfterLine(f, p) - 1 \in Breaks(f)
           /\ \A b \in Breaks(f) : p <= b => AfterLine(f, p) <= b + 1
<1> DEFINE T == {b + 1 : b \in {q \in Breaks(f) : p <= q}} \cup {Len(f)}
<1>1. T \in SUBSET Nat /\ T # {}
  BY DEF Breaks, Positions
<1>2. Min(T) \in T /\ \A m \in T : Min(T) <= m
  BY <1>1, Least
<1>3. Min(T) = AfterLine(f, p)
  BY DEF AfterLine
<1>4. \A b \in Breaks(f) : b \in 0 .. Len(f) - 1
  BY DEF Breaks, Positions
<1>5. \A b \in Breaks(f) : p <= b => b + 1 \in T
  OBVIOUS
<1>6. Min(T) = Len(f) \/ \E b \in Breaks(f) : p <= b /\ Min(T) = b + 1
  BY <1>2
<1> HIDE DEF T
<1> QED
  BY <1>2, <1>3, <1>4, <1>5, <1>6

(* The first line that starts at p or later starts at p, or behind p and   *)
(* behind no newline in between.                                           *)
LEMMA FromLineIs ==
    ASSUME NEW f, Len(f) \in Nat, NEW p \in 0 .. Len(f)
    PROVE  /\ FromLine(f, p) \in p .. Len(f)
           /\ FromLine(f, p) \in {0, Len(f)} \/ FromLine(f, p) - 1 \in Breaks(f)
<1>1. CASE p = 0 \/ p - 1 \in Breaks(f)
  BY <1>1 DEF FromLine
<1>2. CASE ~ (p = 0 \/ p - 1 \in Breaks(f))
  BY <1>2, AfterLineIs DEF FromLine
<1> QED
  BY <1>1, <1>2

(* A line that starts at q or later starts at p or later, if p <= q; and   *)
(* if none starts between them the first is the same.                      *)
LEMMA FromLineGrows ==
    ASSUME NEW f, Len(f) \in Nat, NEW p \in 0 .. Len(f), NEW q \in 0 .. Len(f),
           p <= q
    PROVE  /\ FromLine(f, p) <= FromLine(f, q)
           /\ q <= FromLine(f, p) => FromLine(f, p) = FromLine(f, q)
<1> DEFINE lp == FromLine(f, p)
           lq == FromLine(f, q)
<1>1. lp \in p .. Len(f) /\ lq \in q .. Len(f)
  BY FromLineIs
<1>2. CASE p = q
  BY <1>1, <1>2
<1>3. CASE p < q
  <2>1. lq = Len(f) \/ lq - 1 \in Breaks(f)
    BY <1>1, <1>3, FromLineIs
  <2>2. lp <= lq
    <3>1. CASE p = 0 \/ p - 1 \in Breaks(f)
      BY <1>1, <1>3, <3>1 DEF FromLine
    <3>2. CASE ~ (p = 0 \/ p - 1 \in Breaks(f))
      <4>1. lp = AfterLine(f, p)
        BY <3>2 DEF FromLine
      <4>2. p <= lq - 1 /\ (lq - 1) + 1 = lq
        BY <1>1, <1>3
      <4>3. lq - 1 \in Breaks(f) => lp <= (lq - 1) + 1
        BY <4>1, <4>2, AfterLineIs
      <4> QED
        BY <1>1, <2>1, <4>2, <4>3
    <3> QED
      BY <3>1, <3>2
  <2>3. ASSUME q <= lp
        PROVE  lq <= lp
    <3>1. lp = Len(f) \/ lp - 1 \in Breaks(f)
      BY <1>1, <1>3, <2>3, FromLineIs
    <3>2. CASE q = 0 \/ q - 1 \in Breaks(f)
      BY <1>1, <2>3, <3>2 DEF FromLine
    <3>3. CASE ~ (q = 0 \/ q - 1 \in Breaks(f))
      <4>1. lq = AfterLine(f, q)
        BY <3>3 DEF FromLine
      <4>2. lp - 1 \in Breaks(f) => q <= lp - 1
        BY <1>1, <2>3, <3>3
      <4> QED
        BY <1>1, <3>1, <4>1, <4>2, AfterLineIs
    <3> QED
      BY <3>2, <3>3
  <2> QED
    BY <1>1, <2>2, <2>3
<1> QED
  BY <1>1, <1>2, <1>3

(* The ranges lie in the file one behind the other.                        *)
LEMMA RangesAreOrdered ==
    ASSUME NEW f, Len(f) \in Nat, NEW v \in 0 .. Peers, NEW w \in 0 .. Peers, v <= w
    PROVE  /\ RangeStart(f, v) \in 0 .. Len(f)
           /\ RangeStart(f, v) <= RangeStart(f, w)
<1> DEFINE c == Len(f) \div Peers
<1>1. Peers \in Nat /\ Peers > 0
  BY PeersAssumption
<1>2. c \in Nat /\ Peers * c <= Len(f)
  BY <1>1, Z3
<1> HIDE DEF c
<1>3. \A x, y \in Nat : x <= y => x * c <= y * c
  <2> SUFFICES ASSUME NEW x \in Nat, NEW y \in Nat, x <= y
               PROVE  x * c <= y * c
    OBVIOUS
  <2>1. y * c = x * c + (y - x) * c
    BY <1>2, Z3
  <2>2. (y - x) * c \in Nat /\ x * c \in Nat
    BY <1>2, Z3
  <2> QED
    BY <2>1, <2>2
<1>4. \A x \in Nat : x <= Peers => x * c \in 0 .. Len(f)
  BY <1>1, <1>2, <1>3
<1>5. \A x \in 0 .. Peers : RangeStart(f, x) = IF x = Peers THEN Len(f) ELSE x * c
  BY DEF RangeStart, c
<1> QED
  BY <1>1, <1>3, <1>4, <1>5

(* Each reader goes on where the one before it stops.                      *)
LEMMA SegmentsMeet ==
    ASSUME NEW f, Len(f) \in Nat, NEW w \in Workers
    PROVE  /\ SegmentStart(f, w) = FromLine(f, RangeStart(f, w))
           /\ SegmentEnd(f, w) = FromLine(f, RangeStart(f, w + 1))
<1> DEFINE s == RangeStart(f, w)
           e == RangeStart(f, w + 1)
<1>1. s \in 0 .. Len(f) /\ e \in 0 .. Len(f) /\ s <= e
  BY RangesAreOrdered, PeersAssumption DEF Workers
<1>2. CASE FromLine(f, s) >= e
  <2>1. FromLine(f, s) = FromLine(f, e)
    BY <1>1, <1>2, FromLineGrows, FromLineIs
  <2> QED
    BY <1>2, <2>1 DEF SegmentStart, SegmentEnd
<1>3. CASE ~ (FromLine(f, s) >= e)
  <2>1. e # 0
    BY <1>1, <1>3, FromLineIs
  <2> QED
    BY <1>3, <2>1 DEF SegmentStart, SegmentEnd, FromLine
<1> QED
  BY <1>2, <1>3 DEF SegmentStart

(* "Concatenating partitions in worker order reproduces the serial         *)
(* reader": each byte of a file is taken by exactly one reader, bytes that *)
(* come later in the file by the same or a later one, and all bytes of a   *)
(* line by the same, wherever the ranges are cut.                          *)
THEOREM ReadExactlyOnce ==
    ASSUME NEW f, Len(f) \in Nat
    PROVE  /\ \A p \in Positions(f) :
                \E w \in Workers : \A v \in Workers : p \in Segment(f, v) <=> v = w
           /\ \A w \in Workers : \A p \in Segment(f, w) :
                p \notin Breaks(f) /\ p + 1 \in Positions(f) => p + 1 \in Segment(f, w)
           /\ \A v, w \in Workers : \A p \in Segment(f, v), q \in Segment(f, w) :
                v < w => p < q
<1> DEFINE Cut(w) == FromLine(f, RangeStart(f, w))
<1>1. Peers \in Nat /\ Peers > 0 /\ Workers = 0 .. Peers - 1
  BY PeersAssumption DEF Workers
<1>2. \A w \in 0 .. Peers : /\ Cut(w) \in 0 .. Len(f)
                            /\ Cut(w) \in {0, Len(f)} \/ Cut(w) - 1 \in Breaks(f)
  BY FromLineIs, RangesAreOrdered
<1>3. \A v, w \in 0 .. Peers : v <= w => Cut(v) <= Cut(w)
  BY FromLineGrows, RangesAreOrdered
<1>4. Cut(0) = 0 /\ Cut(Peers) = Len(f)
  <2>1. RangeStart(f, 0) = 0
    BY <1>1 DEF RangeStart
  <2>2. RangeStart(f, Peers) = Len(f)
    BY DEF RangeStart
  <2>3. FromLine(f, Len(f)) = Len(f)
    BY FromLineIs
  <2> QED
    BY <2>1, <2>2, <2>3 DEF FromLine
<1>5. \A w \in Workers : Segment(f, w) = Cut(w) .. Cut(w + 1) - 1
  BY SegmentsMeet DEF Segment
<1> HIDE DEF Cut
<1>6. ASSUME NEW p \in Positions(f)
      PROVE  \E w \in Workers : \A v \in Workers : p \in Segment(f, v) <=> v = w
  <2> DEFINE T == {w \in Workers : p < Cut(w + 1)}
  <2>1. p \in Nat /\ p < Len(f)
    BY DEF Positions
  <2>2. Peers - 1 \in T
    BY <1>1, <1>4, <2>1
  <2>3. T \in SUBSET Nat /\ T # {}
    <3>1. T \subseteq Workers /\ Workers \subseteq Nat
      BY <1>1
    <3> QED
      BY <2>2, <3>1
  <2>4. PICK w \in T : \A v \in T : w <= v
    BY <2>3, Least
  <2>5. w \in Workers /\ p < Cut(w + 1)
    OBVIOUS
  <2>6. Cut(w) <= p
    <3>1. CASE w = 0
      BY <1>4, <2>1, <3>1
    <3>2. CASE w # 0
      <4>1. w - 1 \in Workers /\ (w - 1) + 1 = w
        BY <1>1, <2>5, <3>2
      <4>2. w - 1 \notin T
        BY <1>1, <2>4, <2>5
      <4>3. ~ (p < Cut(w))
        BY <4>1, <4>2
      <4> QED
        BY <1>1, <1>2, <2>1, <2>5, <4>3
    <3> QED
      BY <3>1, <3>2
  <2> HIDE DEF T
  <2>7. ASSUME NEW v \in Workers
        PROVE  p \in Segment(f, v) <=> v = w
    <3>1. p \in Segment(f, v) <=> Cut(v) <= p /\ p < Cut(v + 1)
      BY <1>1, <1>2, <1>5, <2>1
    <3>2. CASE v < w
      <4>1. Cut(v + 1) <= Cut(w)
        BY <1>1, <1>3, <2>5, <3>2
      <4> QED
        BY <1>1, <1>2, <2>1, <2>5, <2>6, <3>1, <3>2, <4>1
    <3>3. CASE w < v
      <4>1. Cut(w + 1) <= Cut(v)
        BY <1>1, <1>3, <2>5, <3>3
      <4> QED
        BY <1>1, <1>2, <2>1, <2>5, <3>1, <3>3, <4>1
    <3>4. CASE v = w
      BY <2>5, <2>6, <3>1, <3>4
    <3> QED
      BY <1>1, <2>5, <3>2, <3>3, <3>4
  <2> QED
    BY <2>5, <2>7
<1>7. ASSUME NEW w \in Workers, NEW p \in Segment(f, w),
             p \notin Breaks(f), p + 1 \in Positions(f)
      PROVE  p + 1 \in Segment(f, w)
  <2>1. w + 1 \in 0 .. Peers /\ w \in 0 .. Peers
    BY <1>1
  <2>2. p \in Nat /\ Cut(w) <= p /\ p < Cut(w + 1) /\ Cut(w) \in Nat /\ Cut(w + 1) \in Nat
    BY <1>2, <1>5, <2>1
  <2>3. p + 1 # Cut(w + 1)
    BY <1>2, <1>7, <2>1, <2>2 DEF Positions
  <2> QED
    BY <1>5, <2>2, <2>3
<1>8. ASSUME NEW v \in Workers, NEW w \in Workers, NEW p \in Segment(f, v),
             NEW q \in Segment(f, w), v < w
      PROVE  p < q
  <2>1. Cut(v + 1) <= Cut(w)
    BY <1>1, <1>3, <1>8
  <2>2. Cut(v) \in Nat /\ Cut(v + 1) \in Nat /\ Cut(w) \in Nat /\ Cut(w + 1) \in Nat
    BY <1>1, <1>2
  <2> QED
    BY <1>5, <2>1, <2>2
<1> QED
  BY <1>6, <1>7, <1>8
-----------------------------------------------------------------------------
(* The lines of a file *)

LEMMA FilesAre ==
    ASSUME NEW f \in Files
    PROVE  /\ f \in Seq(Range(f))
           /\ Len(f) \in Nat /\ DOMAIN f = 1 .. Len(f)
<1>1. f \in Seq(Range(f))
    BY LoadingAssumption
<1> QED
    BY <1>1

\* The newline behind p, or the end of the file.
LEMMA LineEndIs ==
    ASSUME NEW f \in Files, NEW p \in 0 .. Len(f)
    PROVE  /\ LineEnd(f, p) \in p .. Len(f)
           /\ LineEnd(f, p) = Len(f) \/ LineEnd(f, p) \in Breaks(f)
           /\ \A b \in Breaks(f) : p <= b => LineEnd(f, p) <= b
<1> DEFINE T == {b \in Breaks(f) : p <= b} \cup {Len(f)}
<1>1. Len(f) \in Nat
    BY FilesAre
<1>2. \A b \in Breaks(f) : b \in 0 .. Len(f) - 1
    BY DEF Breaks, Positions
<1>3. T \in SUBSET Nat /\ T # {}
    BY <1>1, <1>2
<1>4. Min(T) \in T /\ \A m \in T : Min(T) <= m
    BY <1>3, Least
<1>5. LineEnd(f, p) = Min(T)
    BY DEF LineEnd
<1>6. Min(T) = Len(f) \/ (Min(T) \in Breaks(f) /\ p <= Min(T))
    BY <1>4
<1>7. \A b \in Breaks(f) : p <= b => Min(T) <= b
    BY <1>4
<1> HIDE DEF T
<1> QED
    BY <1>1, <1>2, <1>5, <1>6, <1>7

\* Behind a line comes the next one, or the end of the segment.
LEMMA NextLineIs ==
    ASSUME NEW f \in Files, NEW p \in Lines(f), NEW w \in Workers, p < SegmentEnd(f, w)
    PROVE  /\ LineEnd(f, p) + 1 \in Nat /\ p < LineEnd(f, p) + 1
           /\ LineEnd(f, p) + 1 < SegmentEnd(f, w) => LineEnd(f, p) + 1 \in Lines(f)
           /\ \A q \in Lines(f) : q < LineEnd(f, p) + 1 => q <= p
<1>1. Len(f) \in Nat
    BY FilesAre
<1>2. p \in 0 .. Len(f)
    BY <1>1 DEF Lines, Positions
<1>3. SegmentEnd(f, w) \in 0 .. Len(f)
    <2>1. w + 1 \in 0 .. Peers
        BY PeersAssumption DEF Workers
    <2>2. RangeStart(f, w + 1) \in 0 .. Len(f)
        BY <1>1, <2>1, RangesAreOrdered, PeersAssumption
    <2> QED
        BY <1>1, <2>2, SegmentsMeet, FromLineIs
<1>4. LineEnd(f, p) + 1 \in Nat /\ p < LineEnd(f, p) + 1
    BY <1>1, <1>2, LineEndIs
<1>5. ASSUME LineEnd(f, p) + 1 < SegmentEnd(f, w)
      PROVE  LineEnd(f, p) + 1 \in Lines(f)
    <2>1. LineEnd(f, p) \in Breaks(f)
        BY <1>1, <1>2, <1>3, <1>4, <1>5, LineEndIs
    <2>2. (LineEnd(f, p) + 1) - 1 = LineEnd(f, p)
        BY <1>4, <1>2, LineEndIs
    <2>3. LineEnd(f, p) + 1 \in Positions(f)
        BY <1>1, <1>3, <1>4, <1>5 DEF Positions
    <2> QED
        BY <2>1, <2>2, <2>3 DEF Lines
<1>6. ASSUME NEW q \in Lines(f), q < LineEnd(f, p) + 1, ~ (q <= p)
      PROVE  FALSE
    <2>1. q \in Nat /\ p \in Nat /\ q # 0
        BY <1>1, <1>2, <1>6 DEF Lines, Positions
    <2>2. q - 1 \in Breaks(f) /\ p <= q - 1
        BY <1>6, <2>1 DEF Lines
    <2>3. LineEnd(f, p) <= q - 1
        BY <1>2, <2>2, LineEndIs
    <2> QED
        BY <1>2, <1>6, <2>1, <2>3, LineEndIs
<1> QED
    BY <1>4, <1>5, <1>6

\* A segment that is not empty starts with a line.
LEMMA FirstLineIs ==
    ASSUME NEW f \in Files, NEW w \in Workers
    PROVE  /\ SegmentStart(f, w) \in Nat /\ SegmentEnd(f, w) \in Nat
           /\ SegmentEnd(f, w) <= Len(f)
           /\ SegmentStart(f, w) < SegmentEnd(f, w) => SegmentStart(f, w) \in Lines(f)
<1>1. Len(f) \in Nat
    BY FilesAre
<1>2. w \in 0 .. Peers /\ w + 1 \in 0 .. Peers
    BY PeersAssumption DEF Workers
<1>3. RangeStart(f, w) \in 0 .. Len(f) /\ RangeStart(f, w + 1) \in 0 .. Len(f)
    BY <1>1, <1>2, RangesAreOrdered
<1>4. /\ SegmentStart(f, w) \in 0 .. Len(f) /\ SegmentEnd(f, w) \in 0 .. Len(f)
      /\ SegmentStart(f, w) \in {0, Len(f)} \/ SegmentStart(f, w) - 1 \in Breaks(f)
    BY <1>1, <1>3, SegmentsMeet, FromLineIs
<1> QED
    BY <1>1, <1>4 DEF Lines, Positions

\* Every line starts in one segment.
LEMMA LinesAreShared ==
    ASSUME NEW f \in Files, NEW p \in Lines(f)
    PROVE  \E w \in Workers : p \in Segment(f, w)
<1>1. Len(f) \in Nat
    BY FilesAre
<1>2. p \in Positions(f)
    BY DEF Lines
<1> QED
    BY <1>1, <1>2, ReadExactlyOnce

LEMMA LinesAre ==
    ASSUME NEW f \in Files, NEW p \in Lines(f)
    PROVE  /\ Len(Cells(Line(f, p))) \in Nat
           /\ DOMAIN Cells(Line(f, p)) = 1 .. Len(Cells(Line(f, p)))
           /\ Width(Line(f, p)) \in Nat
           /\ Width(Line(f, p)) <= Arity
           /\ Width(Line(f, p)) <= Len(Cells(Line(f, p)))
<1> DEFINE S == Range(f)
           bytes == SubSeq(f, p + 1, LineEnd(f, p))
           line == Line(f, p)
           cuts == {i \in DOMAIN line : line[i] = Delimiter}
<1>1. f \in Seq(S) /\ Len(f) \in Nat /\ p \in 0 .. Len(f)
    BY FilesAre DEF Lines, Positions
<1>2. LineEnd(f, p) \in p .. Len(f)
    BY <1>1, LineEndIs
<1> HIDE DEF S
<1>3. bytes \in Seq(S)
    <2>1. \A i \in p + 1 .. LineEnd(f, p) : f[i] \in S
        BY <1>1, <1>2
    <2>2. p + 1 \in Int /\ LineEnd(f, p) \in Int
        BY <1>1, <1>2
    <2> QED
        BY <2>1, <2>2, SubSeqProperties
<1>4. line = bytes \/ line = SubSeq(bytes, 1, Len(bytes) - 1)
    BY DEF Line, Front
<1> HIDE DEF bytes, line
<1>5. line \in Seq(S)
    <2>1. Len(bytes) \in Nat /\ \A i \in 1 .. Len(bytes) - 1 : bytes[i] \in S
        BY <1>3
    <2>2. SubSeq(bytes, 1, Len(bytes) - 1) \in Seq(S)
        BY <2>1, SubSeqProperties
    <2> QED
        BY <1>3, <1>4, <2>2
<1>6. Len(line) \in Nat /\ DOMAIN line = 1 .. Len(line)
    BY <1>5
<1>7. cuts \in SUBSET (1 .. Len(line)) /\ IsFiniteSet(1 .. Len(line))
    BY <1>6, FS_Interval
<1>8. Cardinality(cuts) + 1 \in Nat
    BY <1>7, FS_Subset, FS_CardinalityType
<1>9. DOMAIN Cells(line) = 1 .. Cardinality(cuts) + 1
    BY DEF Cells
<1>10. Len(Cells(line)) \in Nat /\ DOMAIN Cells(line) = 1 .. Len(Cells(line))
    BY <1>8, <1>9
<1>11. {Arity, Len(Cells(line))} \in SUBSET Nat /\ {Arity, Len(Cells(line))} # {}
    BY <1>10, LoadingAssumption
<1>12. /\ Width(line) \in {Arity, Len(Cells(line))}
       /\ \A m \in {Arity, Len(Cells(line))} : Width(line) <= m
    BY <1>11, Least DEF Width
<1> QED
    BY <1>10, <1>11, <1>12 DEF line

\* A record is as many texts as the line is read for, and each of them names
\* a call of every reader.
LEMMA RecordsAre ==
    ASSUME file \in Files, NEW p \in Lines(file)
    PROVE  /\ Len(Record(p)) = Width(Line(file, p))
           /\ DOMAIN Record(p) = 1 .. Width(Line(file, p))
           /\ Record(p) \in Seq(Texts)
           /\ \A k \in DOMAIN Record(p) :
                 /\ Record(p)[k] = Cells(Line(file, p))[k]
                 /\ Record(p)[k] \in Texts
                 /\ \A w \in Workers : <<w, p, k>> \in Calls \ Others
<1> DEFINE cells == Cells(Line(file, p))
           n == Width(Line(file, p))
<1>1. /\ Len(cells) \in Nat /\ DOMAIN cells = 1 .. Len(cells)
      /\ n \in Nat /\ n <= Arity /\ n <= Len(cells)
    BY LinesAre
<1>2. /\ Range(cells) \subseteq Texts /\ Arity \in Nat
      /\ Workers \X {p} \X (1 .. Arity) \subseteq Calls \ Others
    BY LoadingAssumption
<1>3. Record(p) = SubSeq(cells, 1, n)
    BY DEF Record
<1> HIDE DEF cells, n
<1>4. \A k \in 1 .. n : cells[k] \in Texts /\ k \in 1 .. Arity
    BY <1>1, <1>2 DEF Range
<1>5. /\ Record(p) \in Seq(Texts)
      /\ Len(Record(p)) = IF 1 <= n THEN n - 1 + 1 ELSE 0
      /\ \A k \in 1 .. n - 1 + 1 : Record(p)[k] = cells[1 + k - 1]
    BY <1>1, <1>3, <1>4, SubSeqProperties
<1>6. Len(Record(p)) = n /\ n - 1 + 1 = n /\ \A k \in 1 .. n : 1 + k - 1 = k
    BY <1>1, <1>5
<1>7. DOMAIN Record(p) = 1 .. n
    BY <1>5, <1>6
<1>8. \A k \in 1 .. n : Record(p)[k] = cells[k]
    BY <1>5, <1>6
<1>9. \A k \in 1 .. n : \A w \in Workers : <<w, p, k>> \in Calls \ Others
    BY <1>2, <1>4
<1> QED
    BY <1>4, <1>5, <1>6, <1>7, <1>8, <1>9 DEF cells, n
-----------------------------------------------------------------------------
(* The readers and the symbol table *)

LEMMA SameFile ==
    ASSUME UNCHANGED file
    PROVE  /\ Records' = Records
           /\ \A p : Record(p)' = Record(p) /\ RowOf(p)' = RowOf(p)
           /\ Misshapen' = Misshapen /\ FileTexts' = FileTexts
<1>1. Records' = Records
    BY DEF Records
<1>2. \A p : Record(p)' = Record(p)
    BY DEF Record
<1>3. \A p : RowOf(p)' = RowOf(p)
    BY <1>2 DEF RowOf
<1>4. Misshapen' = Misshapen
    BY <1>1 DEF Misshapen
<1>5. FileTexts' = FileTexts
    BY <1>1, <1>2 DEF FileTexts
<1> QED
    BY <1>1, <1>2, <1>3, <1>4, <1>5

\* A reader that has a cell to read is in a record.
LEMMA InARecord ==
    ASSUME LoadingInv, NEW w \in Workers, ReadsOn(w)
    PROVE  /\ at[w] \in Lines(file) /\ at[w] \in Nat
           /\ at[w] \in Segment(file, w)
           /\ ~ Blank(Current(w)) => at[w] \in Records
           /\ HasCell(w) => /\ at[w] \in Records
                            /\ Len(row[w]) + 1 \in DOMAIN Record(at[w])
                            /\ Pending(w) = <<w, at[w], Len(row[w]) + 1>>
                            /\ Pending(w) \in Calls \ Others
                            /\ Cells(Current(w))[Len(row[w]) + 1] = Record(at[w])[Len(row[w]) + 1]
                            /\ Record(at[w])[Len(row[w]) + 1] \in Texts
<1>1. file \in Files /\ at[w] \in Nat /\ Len(row[w]) \in Nat
    BY DEF LoadingInv, LoadingTypes
<1>2. at[w] \in Lines(file) /\ SegmentStart(file, w) <= at[w] /\ at[w] < SegmentEnd(file, w)
    BY DEF ReadsOn, LoadingInv, HasRead, LinesRead
<1>3. at[w] \in Segment(file, w)
    BY <1>1, <1>2, FirstLineIs DEF Segment
<1>4. ~ Blank(Current(w)) => at[w] \in Records
    BY <1>2 DEF Current, Records
<1>5. ASSUME HasCell(w)
      PROVE  /\ at[w] \in Records
             /\ Len(row[w]) + 1 \in DOMAIN Record(at[w])
             /\ Pending(w) \in Calls \ Others
             /\ Cells(Current(w))[Len(row[w]) + 1] = Record(at[w])[Len(row[w]) + 1]
             /\ Record(at[w])[Len(row[w]) + 1] \in Texts
    <2>1. at[w] \in Records /\ Len(row[w]) < Width(Line(file, at[w]))
        BY <1>4, <1>5 DEF HasCell, Current
    <2>2. Len(row[w]) + 1 \in 1 .. Width(Line(file, at[w]))
        BY <1>1, <1>2, <2>1, LinesAre
    <2>3. Len(row[w]) + 1 \in DOMAIN Record(at[w])
        BY <1>1, <1>2, <2>2, RecordsAre
    <2> QED
        BY <1>1, <1>2, <2>1, <2>3, RecordsAre DEF Pending, Current
<1> QED
    BY <1>1, <1>2, <1>3, <1>4, <1>5 DEF Pending

\* What a reader does at the table is a call of it.
LEMMA LoadingStepsAreCalls ==
    ASSUME LoadingInv, [LoadingNext]_loadingVars
    PROVE  [Next]_vars
<1>1. ASSUME NEW w \in Workers, InternCell(w)
      PROVE  Next
    BY <1>1, InARecord DEF InternCell, Next
<1>2. ASSUME NEW w \in Workers, LookUpCell(w)
      PROVE  Next
    BY <1>2, InARecord DEF LookUpCell, Next
<1>3. ASSUME NEW w \in Workers,
             Open(w) \/ SkipBlank(w) \/ TakeCell(w) \/ EndLine(w) \/ RefuseLine(w) \/ FinishReading(w)
      PROVE  UNCHANGED vars
    BY <1>3 DEF Open, SkipBlank, TakeCell, EndLine, RefuseLine, FinishReading
<1>4. CASE RefuseFirst \/ MergeRows \/ UNCHANGED loadingVars
    BY <1>4 DEF RefuseFirst, MergeRows, loadingVars
<1>5. CASE Elsewhere
    BY <1>5, LoadingAssumption DEF Elsewhere, Next
<1> QED
    BY <1>1, <1>2, <1>3, <1>4, <1>5 DEF LoadingNext

LEMMA TableKeeps ==
    ASSUME LoadingInv, [LoadingNext]_loadingVars
    PROVE  SymbolInv' /\ Grows
<1>1. SymbolInv /\ [Next]_vars
    BY LoadingStepsAreCalls DEF LoadingInv
<1> QED
    BY <1>1, NextSymbols, TableStep

LEMMA FileStays ==
    ASSUME [LoadingNext]_loadingVars
    PROVE  file' = file
BY DEF LoadingNext, loadingVars, reading, Open, SkipBlank, InternCell, LookUpCell, TakeCell, EndLine,
       RefuseLine, FinishReading, RefuseFirst, MergeRows, Elsewhere

\* A call that has its answer keeps it.
LEMMA AnsweredStays ==
    ASSUME SymbolInv, [Next]_vars, NEW c \in Calls, answer[c] # "none"
    PROVE  answer'[c] = answer[c] /\ argument'[c] = argument[c]
<1>1. pc[c] = "returned"
    BY DEF SymbolInv, CallsInOrder
<1> QED
    BY <1>1 DEF Next, vars, Call, LookUp, Insert, Judge, Return, ResolveRaw, SymbolInv, TypeOK

\* What has been interned elsewhere, and so what collides, only becomes more.
LEMMA CollidingGrows ==
    ASSUME LoadingInv, [LoadingNext]_loadingVars
    PROVE  TakenElsewhere \subseteq TakenElsewhere' /\ Colliding \subseteq Colliding'
<1>1. SymbolInv /\ [Next]_vars
    BY LoadingStepsAreCalls DEF LoadingInv
<1>2. ASSUME NEW c \in Others, answer[c] = "ok"
      PROVE  argument[c] \in TakenElsewhere'
    <2>1. answer'[c] = "ok" /\ argument'[c] = argument[c]
        BY <1>1, <1>2, AnsweredStays, LoadingAssumption
    <2> QED
        BY <2>1 DEF TakenElsewhere
<1>3. TakenElsewhere \subseteq TakenElsewhere'
    BY <1>2 DEF TakenElsewhere
<1>4. Records' = Records /\ FileTexts' = FileTexts /\ \A p : Record(p)' = Record(p)
    BY FileStays, SameFile
<1> QED
    BY <1>3, <1>4 DEF Colliding

\* What is in the table came there with a call.
LEMMA WrittenByCalls ==
    ASSUME SymbolInv, NEW c \in Calls, LookUp(c) \/ Insert(c)
    PROVE  /\ argument' = argument
           /\ \/ texts' = texts
              \/ /\ SymbolId(argument[c]) \in Ids /\ argument[c] \in Texts
                 /\ texts' = [texts EXCEPT ![SymbolId(argument[c])] = argument[c]]
                 /\ answer'[c] = "ok"
<1>1. CASE LookUp(c)
    BY <1>1 DEF LookUp
<1>2. CASE Insert(c)
    <2>1. SymbolId(argument[c]) \in Ids /\ argument[c] \in Texts
        BY <1>2, LookIsTyped DEF Insert
    <2> QED
        BY <1>2, <2>1 DEF Insert, Return, SymbolInv, TypeOK
<1> QED
    BY <1>1, <1>2

LEMMA OriginsKeep ==
    ASSUME LoadingInv, [LoadingNext]_loadingVars
    PROVE  Origins'
<1>1. /\ Records' = Records /\ \A p : Record(p)' = Record(p)
      /\ FileTexts' = FileTexts /\ TakenElsewhere \subseteq TakenElsewhere'
    BY FileStays, SameFile, CollidingGrows
<1>2. SymbolInv /\ Origins /\ TypeOK
    BY DEF LoadingInv, SymbolInv
<1>3. CASE UNCHANGED <<texts, argument>>
    BY <1>1, <1>2, <1>3 DEF Origins
<1>4. ASSUME NEW w \in Workers, InternCell(w)
      PROVE  Origins'
    <2> DEFINE c == <<w, at[w], Len(row[w]) + 1>>
               text == Record(at[w])[Len(row[w]) + 1]
    <2>1. /\ at[w] \in Records /\ Len(row[w]) + 1 \in DOMAIN Record(at[w])
          /\ c \in Calls /\ text \in Texts
          /\ argument' = [argument EXCEPT ![c] = text] /\ UNCHANGED texts
        BY <1>4, InARecord DEF InternCell, Call
    <2>2. argument \in [Calls -> Texts \cup {NoText}]
        BY <1>2 DEF TypeOK
    <2>3. ASSUME NEW d \in Calls \ Others, argument'[d] # NoText
          PROVE  \E v \in Workers, p \in Records : \E k \in DOMAIN Record(p) :
                    d = <<v, p, k>> /\ argument'[d] = Record(p)[k]
        <3>1. CASE d = c
            BY <2>1, <2>2, <3>1
        <3>2. CASE d # c
            <4>1. argument'[d] = argument[d]
                BY <2>1, <2>2, <3>2
            <4> QED
                BY <1>2, <2>3, <4>1 DEF Origins
        <3> QED
            BY <3>1, <3>2
    <2> QED
        BY <1>1, <1>2, <2>1, <2>3 DEF Origins
<1>5. ASSUME NEW c \in Others, NEW text \in OtherTexts, Call(c, text)
      PROVE  Origins'
    <2>1. texts' = texts /\ \A d \in Calls \ Others : argument'[d] = argument[d]
        BY <1>2, <1>5 DEF Call, TypeOK
    <2> QED
        BY <1>1, <1>2, <2>1 DEF Origins
<1>6. ASSUME NEW c \in Calls, LookUp(c) \/ Insert(c)
      PROVE  Origins'
    <2>1. /\ argument' = argument
          /\ \/ texts' = texts
             \/ /\ SymbolId(argument[c]) \in Ids /\ argument[c] \in Texts
                /\ texts' = [texts EXCEPT ![SymbolId(argument[c])] = argument[c]]
                /\ answer'[c] = "ok"
        BY <1>2, <1>6, WrittenByCalls
    <2>2. ASSUME NEW id \in Ids, texts'[id] # NoText
          PROVE  /\ SymbolId(texts'[id]) = id
                 /\ texts'[id] \in FileTexts \cup TakenElsewhere'
        <3>1. CASE texts'[id] = texts[id]
            BY <1>1, <1>2, <2>2, <3>1 DEF Origins
        <3>2. CASE texts'[id] # texts[id]
            <4>1. /\ id = SymbolId(argument[c]) /\ texts'[id] = argument[c]
                  /\ argument[c] \in Texts /\ answer'[c] = "ok" /\ argument'[c] = argument[c]
                BY <1>2, <2>1, <3>2 DEF TypeOK
            <4>2. CASE c \in Others
                BY <4>1, <4>2 DEF TakenElsewhere
            <4>3. CASE c \notin Others
                <5>1. argument[c] # NoText
                    BY <4>1, SymbolAssumption
                <5>2. PICK p \in Records : \E k \in DOMAIN Record(p) : argument[c] = Record(p)[k]
                    BY <1>2, <4>3, <5>1 DEF Origins
                <5>3. argument[c] \in FileTexts
                    BY <5>2 DEF FileTexts, Range
                <5> QED
                    BY <4>1, <5>3
            <4> QED
                BY <4>2, <4>3
        <3> QED
            BY <3>1, <3>2
    <2> QED
        BY <1>1, <1>2, <2>1, <2>2 DEF Origins
<1>7. ASSUME NEW w \in Workers, LookUpCell(w)
      PROVE  Origins'
    BY <1>6, <1>7, InARecord DEF LookUpCell
<1>8. CASE Elsewhere
    <2>1. CASE \E r \in Readers, id \in Ids : ResolveRaw(r, id)
        BY <1>3, <2>1 DEF ResolveRaw
    <2> QED
        BY <1>5, <1>6, <1>8, <2>1, LoadingAssumption DEF Elsewhere
<1> QED
    BY <1>3, <1>4, <1>7, <1>8 DEF LoadingNext, loadingVars, vars, Open, SkipBlank, TakeCell, EndLine,
                                  RefuseLine, FinishReading, RefuseFirst, MergeRows
-----------------------------------------------------------------------------
(* The readers *)

\* A call that has an answer was for the cell its name says.
LEMMA AnsweredCell ==
    ASSUME LoadingInv, NEW w \in Workers, ReadsOn(w), HasCell(w), answer[Pending(w)] # "none"
    PROVE  argument[Pending(w)] = Record(at[w])[Len(row[w]) + 1]
<1>1. Pending(w) = <<w, at[w], Len(row[w]) + 1>> /\ Pending(w) \in Calls \ Others
    BY InARecord
<1>2. argument[Pending(w)] # NoText
    BY <1>1 DEF LoadingInv, SymbolInv, CallsInOrder
<1>3. PICK v \in Workers, p \in Records : \E k \in DOMAIN Record(p) :
         Pending(w) = <<v, p, k>> /\ argument[Pending(w)] = Record(p)[k]
    BY <1>1, <1>2 DEF LoadingInv, Origins
<1> QED
    BY <1>1, <1>3

LEMMA LoadingTypesKeep ==
    ASSUME LoadingInv, [LoadingNext]_loadingVars
    PROVE  LoadingTypes'
<1>1. LoadingTypes
    BY DEF LoadingInv
<1>2. ASSUME NEW w \in Workers, Open(w)
      PROVE  LoadingTypes'
    BY <1>1, <1>2, FirstLineIs DEF Open, LoadingTypes
<1>3. ASSUME NEW w \in Workers, SkipBlank(w)
      PROVE  LoadingTypes'
    <2>1. LineEnd(file, at[w]) + 1 \in Nat
        BY <1>1, <1>3, InARecord, NextLineIs DEF SkipBlank, ReadsOn, LoadingTypes
    <2> QED
        BY <1>1, <1>3, <2>1 DEF SkipBlank, NextLine, LoadingTypes
<1>4. ASSUME NEW w \in Workers, InternCell(w) \/ LookUpCell(w)
      PROVE  LoadingTypes'
    BY <1>1, <1>4 DEF InternCell, LookUpCell, reading, LoadingTypes
<1>5. ASSUME NEW w \in Workers, TakeCell(w)
      PROVE  LoadingTypes'
    <2>1. argument[Pending(w)] = Record(at[w])[Len(row[w]) + 1]
        BY <1>5, AnsweredCell DEF TakeCell
    <2>2. argument[Pending(w)] \in Texts
        BY <1>5, <2>1, InARecord DEF TakeCell
    <2>3. SymbolId(argument[Pending(w)]) \in Ids
        BY <2>2, SymbolAssumption
    <2>4. row' \in [Workers -> Seq(Ids)]
        BY <1>1, <1>5, <2>3 DEF TakeCell, LoadingTypes
    <2> QED
        BY <1>1, <1>5, <2>4 DEF TakeCell, LoadingTypes
<1>6. ASSUME NEW w \in Workers, EndLine(w)
      PROVE  LoadingTypes'
    <2>1. LineEnd(file, at[w]) + 1 \in Nat
        BY <1>1, <1>6, InARecord, NextLineIs DEF EndLine, ReadsOn, LoadingTypes
    <2>2. at' \in [Workers -> Nat]
        BY <1>1, <1>6, <2>1 DEF EndLine, NextLine, LoadingTypes
    <2>3. row' \in [Workers -> Seq(Ids)] /\ rows' \in [Workers -> SUBSET Seq(Ids)]
        BY <1>1, <1>6 DEF EndLine, LoadingTypes
    <2> QED
        BY <1>1, <1>6, <2>2, <2>3 DEF EndLine, LoadingTypes
<1>7. ASSUME NEW w \in Workers, RefuseLine(w) \/ FinishReading(w)
      PROVE  LoadingTypes'
    BY <1>1, <1>7 DEF RefuseLine, FinishReading, LoadingTypes
<1>8. CASE RefuseFirst \/ MergeRows
    BY <1>1, <1>8 DEF RefuseFirst, MergeRows, Loaded, reading, LoadingTypes
<1>9. CASE Elsewhere \/ UNCHANGED loadingVars
    BY <1>1, <1>9 DEF Elsewhere, loadingVars, reading, LoadingTypes
<1> QED
    BY <1>2, <1>3, <1>4, <1>5, <1>6, <1>7, <1>8, <1>9 DEF LoadingNext

\* The table only grows, so what it holds of a record it goes on to hold.
LEMMA HoldsStays ==
    ASSUME LoadingInv, Grows, UNCHANGED file, NEW p \in Records, Holds(p)
    PROVE  Holds(p)'
<1>1. Record(p)' = Record(p)
    BY SameFile
<1>2. ASSUME NEW x \in Range(Record(p))
      PROVE  texts'[SymbolId(x)] = x
    <2>1. PICK k \in DOMAIN Record(p) : x = Record(p)[k]
        BY DEF Range
    <2>2. p \in Lines(file) /\ file \in Files
        BY DEF Records, LoadingInv, LoadingTypes
    <2>3. x \in Texts
        BY <2>1, <2>2, RecordsAre
    <2>4. SymbolId(x) \in Ids /\ x # NoText /\ texts[SymbolId(x)] = x
        BY <2>3, SymbolAssumption DEF Holds
    <2> QED
        BY <2>4 DEF Grows
<1> QED
    BY <1>1, <1>2 DEF Holds

\* A reader that does nothing has read what it had, whatever the others add to
\* the table.
LEMMA IdleReaderKeeps ==
    ASSUME LoadingInv, Grows, UNCHANGED file, Colliding \subseteq Colliding', NEW v \in Workers,
           reader'[v] = reader[v], at'[v] = at[v], row'[v] = row[v], rows'[v] = rows[v]
    PROVE  HasRead(v)'
<1>1. /\ Records' = Records
      /\ \A p : Record(p)' = Record(p) /\ RowOf(p)' = RowOf(p)
      /\ Misshapen' = Misshapen
    BY SameFile
<1>2. HasRead(v) /\ SymbolInv /\ file \in Files /\ row[v] \in Seq(Ids)
    BY DEF LoadingInv, LoadingTypes
<1>3. Behind(v)' = Behind(v)
    BY <1>1 DEF Behind
<1>4. LinesRead(v) => LinesRead(v)'
    <2> SUFFICES ASSUME LinesRead(v) PROVE LinesRead(v)'
        OBVIOUS
    <2>1. \A p \in Behind(v) : p \in Records
        BY DEF Behind
    <2>2. \A p \in Behind(v) : p \notin Misshapen /\ Holds(p)'
        BY <2>1, HoldsStays DEF LinesRead
    <2> QED
        BY <1>1, <1>3, <2>2 DEF LinesRead
<1>5. ASSUME LinesRead(v), CellsRead(v) PROVE CellsRead(v)'
    <2>1. ASSUME at[v] < SegmentEnd(file, v), ~ Blank(Current(v)), NEW k \in DOMAIN row[v]
          PROVE  texts'[row[v][k]] = texts[row[v][k]]
        <3>1. /\ Len(row[v]) <= Len(Record(at[v]))
              /\ texts[row[v][k]] = Record(at[v])[k]
            BY <1>5, <2>1 DEF CellsRead
        <3>2. at[v] \in Lines(file)
            BY <1>5, <2>1 DEF LinesRead
        <3>3. k \in DOMAIN Record(at[v])
            BY <1>2, <3>1, <3>2, RecordsAre, LinesAre
        <3>4. Record(at[v])[k] \in Texts /\ row[v][k] \in Ids
            BY <1>2, <3>2, <3>3, RecordsAre
        <3> QED
            BY <3>1, <3>4, SymbolAssumption DEF Grows
    <2> QED
        BY <1>1, <1>5, <2>1 DEF CellsRead, Current
<1> QED
    BY <1>1, <1>2, <1>4, <1>5 DEF HasRead

\* Going on to the next line leaves the record behind, if the line is one.
LEMMA LineIsBehind ==
    ASSUME LoadingInv, UNCHANGED file, NEW w \in Workers, ReadsOn(w),
           at'[w] = LineEnd(file, at[w]) + 1
    PROVE  /\ Behind(w)' = Behind(w) \cup (IF Blank(Current(w)) THEN {} ELSE {at[w]})
           /\ at'[w] \in Nat /\ SegmentStart(file, w) <= at'[w]
           /\ at'[w] < SegmentEnd(file, w) => at'[w] \in Lines(file)
<1>1. /\ at[w] \in Lines(file) /\ at[w] \in Nat /\ at[w] \in Segment(file, w)
      /\ at[w] < SegmentEnd(file, w) /\ file \in Files
    BY InARecord DEF ReadsOn, LoadingInv, LoadingTypes
<1>2. /\ at'[w] \in Nat /\ at[w] < at'[w]
      /\ at'[w] < SegmentEnd(file, w) => at'[w] \in Lines(file)
      /\ \A q \in Lines(file) : q < at'[w] => q <= at[w]
    BY <1>1, NextLineIs
<1>3. SegmentStart(file, w) \in Nat /\ SegmentStart(file, w) <= at[w]
    BY <1>1, FirstLineIs DEF ReadsOn, LoadingInv, HasRead, LinesRead
<1>4. Records' = Records
    BY SameFile
<1>5. \A p \in Records : p \in Lines(file) /\ p \in Nat
    BY FilesAre, <1>1 DEF Records, Lines, Positions
<1>6. at[w] \in Records <=> ~ Blank(Current(w))
    BY <1>1 DEF Records, Current
<1>7. \A p \in Records : p < at'[w] <=> p < at[w] \/ p = at[w]
    BY <1>1, <1>2, <1>5
<1>8. Behind(w)' = {p \in Records : p \in Segment(file, w) /\ p < at'[w]}
    BY <1>4 DEF Behind
<1> QED
    BY <1>1, <1>2, <1>3, <1>6, <1>7, <1>8 DEF Behind

LEMMA OpenKeeps ==
    ASSUME LoadingInv, NEW w \in Workers, Open(w)
    PROVE  HasRead(w)'
<1>1. /\ file' = file /\ reader'[w] = "reading" /\ at'[w] = SegmentStart(file, w)
      /\ row'[w] = << >> /\ rows'[w] = {}
    BY DEF Open, LoadingInv, LoadingTypes, HasRead
<1>2. /\ at'[w] \in Nat
      /\ at'[w] < SegmentEnd(file, w) => at'[w] \in Lines(file)
    BY <1>1, FirstLineIs DEF LoadingInv, LoadingTypes
<1>3. Behind(w)' = {}
    <2>1. \A p \in Segment(file, w) : ~ (p < SegmentStart(file, w))
        BY FirstLineIs DEF Segment, LoadingInv, LoadingTypes
    <2> QED
        BY <1>1, <2>1 DEF Behind
<1>4. LinesRead(w)'
    BY <1>1, <1>2, <1>3 DEF LinesRead
<1>5. CellsRead(w)'
    <2>1. Len(row'[w]) = 0 /\ DOMAIN row'[w] = {}
        BY <1>1
    <2>2. ASSUME at'[w] < SegmentEnd(file, w)
          PROVE  0 <= Len(Record(at'[w]))
        BY <1>2, <2>2, RecordsAre, LinesAre DEF LoadingInv, LoadingTypes
    <2>3. \A p : Record(p)' = Record(p)
        BY <1>1, SameFile
    <2> QED
        BY <1>1, <2>1, <2>2, <2>3 DEF CellsRead
<1> QED
    BY <1>1, <1>4, <1>5 DEF HasRead

LEMMA SkipBlankKeeps ==
    ASSUME LoadingInv, NEW w \in Workers, SkipBlank(w)
    PROVE  HasRead(w)'
<1>1. /\ file' = file /\ reader'[w] = "reading" /\ reader[w] = "reading"
      /\ row' = row /\ rows' = rows /\ texts' = texts
      /\ at'[w] = LineEnd(file, at[w]) + 1 /\ ReadsOn(w) /\ Blank(Current(w))
    BY DEF SkipBlank, NextLine, ReadsOn, vars, LoadingInv, LoadingTypes
<1>2. /\ Behind(w)' = Behind(w)
      /\ at'[w] \in Nat /\ SegmentStart(file, w) <= at'[w]
      /\ at'[w] < SegmentEnd(file, w) => at'[w] \in Lines(file)
    BY <1>1, LineIsBehind
<1>3. /\ \A p : Record(p)' = Record(p) /\ RowOf(p)' = RowOf(p)
      /\ Misshapen' = Misshapen
    BY <1>1, SameFile
<1>4. LinesRead(w) /\ row[w] = << >>
    BY <1>1 DEF LoadingInv, HasRead, CellsRead, ReadsOn
<1>5. LinesRead(w)'
    BY <1>1, <1>2, <1>3, <1>4 DEF LinesRead, Holds
<1>6. CellsRead(w)'
    <2>1. Len(row'[w]) = 0 /\ DOMAIN row'[w] = {} /\ row'[w] = << >>
        BY <1>1, <1>4
    <2>2. ASSUME at'[w] < SegmentEnd(file, w)
          PROVE  0 <= Len(Record(at'[w]))
        BY <1>2, <2>2, RecordsAre, LinesAre DEF LoadingInv, LoadingTypes
    <2> QED
        BY <1>1, <1>3, <2>1, <2>2 DEF CellsRead
<1> QED
    BY <1>1, <1>5, <1>6 DEF HasRead

LEMMA TakeCellKeeps ==
    ASSUME LoadingInv, NEW w \in Workers, TakeCell(w)
    PROVE  HasRead(w)'
<1> DEFINE p == at[w]
           k == Len(row[w]) + 1
           id == SymbolId(Record(p)[k])
<1>1. /\ file' = file /\ reader' = reader /\ reader[w] = "reading" /\ at' = at
      /\ rows' = rows /\ texts' = texts
      /\ row'[w] = Append(row[w], SymbolId(argument[Pending(w)]))
      /\ ReadsOn(w) /\ HasCell(w) /\ answer[Pending(w)] = "ok"
    BY DEF TakeCell, ReadsOn, vars, LoadingInv, LoadingTypes
<1>2. argument[Pending(w)] = Record(p)[k]
    BY <1>1, AnsweredCell
<1>3. /\ p \in Records /\ p \in Lines(file) /\ k \in DOMAIN Record(p)
      /\ Pending(w) \in Calls \ Others /\ Record(p)[k] \in Texts
    BY <1>1, InARecord
<1>4. texts[id] = Record(p)[k] /\ id \in Ids
    BY <1>1, <1>2, <1>3, SymbolAssumption DEF LoadingInv, SymbolInv, OneTextPerAnswer
<1>5. /\ \A q : Record(q)' = Record(q) /\ RowOf(q)' = RowOf(q)
      /\ Misshapen' = Misshapen /\ Records' = Records
    BY <1>1, SameFile
<1>6. LinesRead(w)'
    <2>1. Behind(w)' = Behind(w)
        BY <1>1, <1>5 DEF Behind
    <2> QED
        BY <1>1, <1>5, <2>1 DEF LinesRead, Holds, LoadingInv, HasRead
<1>7. row[w] \in Seq(Ids) /\ Len(row[w]) \in Nat /\ DOMAIN row[w] = 1 .. Len(row[w])
    BY DEF LoadingInv, LoadingTypes
<1>8. DOMAIN Record(p) = 1 .. Len(Record(p)) /\ Len(Record(p)) \in Nat
    BY <1>3, RecordsAre, LinesAre DEF LoadingInv, LoadingTypes
<1>9. CellsRead(w)'
    <2>1. /\ p < SegmentEnd(file, w) /\ ~ Blank(Current(w))
          /\ Len(row[w]) <= Len(Record(p))
          /\ \A j \in DOMAIN row[w] : /\ row[w][j] = SymbolId(Record(p)[j])
                                      /\ texts[row[w][j]] = Record(p)[j]
        BY <1>1 DEF ReadsOn, HasCell, LoadingInv, HasRead, CellsRead
    <2>2. /\ row'[w] = Append(row[w], id) /\ Len(row'[w]) = k /\ DOMAIN row'[w] = 1 .. k
          /\ \A j \in 1 .. k : row'[w][j] = IF j = k THEN id ELSE row[w][j]
        BY <1>1, <1>2, <1>4, <1>7
    <2>3. k <= Len(Record(p))
        BY <1>3, <1>8
    <2>4. ASSUME NEW j \in 1 .. k
          PROVE  row'[w][j] = SymbolId(Record(p)[j]) /\ texts[row'[w][j]] = Record(p)[j]
        <3>1. CASE j = k
            BY <1>4, <2>2, <3>1
        <3>2. CASE j # k
            BY <1>7, <2>1, <2>2, <3>2
        <3> QED
            BY <3>1, <3>2
    <2> HIDE DEF k, id
    <2>5. at'[w] = p /\ Record(at[w])' = Record(p)
        BY <1>1, <1>5
    <2> QED
        BY <1>1, <1>5, <2>1, <2>2, <2>3, <2>4, <2>5 DEF CellsRead, Current
<1> QED
    BY <1>1, <1>6, <1>9 DEF HasRead

LEMMA EndLineKeeps ==
    ASSUME LoadingInv, NEW w \in Workers, EndLine(w)
    PROVE  HasRead(w)'
<1> DEFINE p == at[w]
<1>1. /\ file' = file /\ reader' = reader /\ reader[w] = "reading"
      /\ rows'[w] = rows[w] \cup {row[w]} /\ row'[w] = << >> /\ texts' = texts
      /\ at'[w] = LineEnd(file, p) + 1
      /\ ReadsOn(w) /\ ~ HasCell(w) /\ ~ Blank(Current(w)) /\ WellFormed(Current(w))
    BY DEF EndLine, NextLine, ReadsOn, vars, LoadingInv, LoadingTypes
<1>2. /\ Behind(w)' = Behind(w) \cup {p}
      /\ at'[w] \in Nat /\ SegmentStart(file, w) <= at'[w]
      /\ at'[w] < SegmentEnd(file, w) => at'[w] \in Lines(file)
    BY <1>1, LineIsBehind
<1>3. /\ \A q : Record(q)' = Record(q) /\ RowOf(q)' = RowOf(q)
      /\ Misshapen' = Misshapen
    BY <1>1, SameFile
<1>4. p \in Records /\ p \in Lines(file) /\ file \in Files
    BY <1>1, InARecord DEF LoadingInv, LoadingTypes
<1>5. /\ Len(row[w]) <= Len(Record(p))
      /\ \A k \in DOMAIN row[w] : /\ row[w][k] = SymbolId(Record(p)[k])
                                  /\ texts[row[w][k]] = Record(p)[k]
    BY <1>1 DEF ReadsOn, LoadingInv, HasRead, CellsRead
<1>6. row[w] \in Seq(Ids) /\ Len(row[w]) \in Nat /\ DOMAIN row[w] = 1 .. Len(row[w])
    BY DEF LoadingInv, LoadingTypes
<1>7. DOMAIN row[w] = DOMAIN Record(p)
    <2>1. /\ Len(Record(p)) = Width(Current(w)) /\ DOMAIN Record(p) = 1 .. Width(Current(w))
          /\ Width(Current(w)) \in Nat
        BY <1>4, RecordsAre, LinesAre DEF Current
    <2>2. ~ (Len(row[w]) < Width(Current(w)))
        BY <1>1 DEF HasCell
    <2>3. Len(row[w]) = Width(Current(w))
        BY <1>5, <1>6, <2>1, <2>2
    <2> QED
        BY <1>6, <2>1, <2>3
<1>8. row[w] = RowOf(p)
    BY <1>5, <1>6, <1>7 DEF RowOf
<1>9. p \notin Misshapen /\ Holds(p)
    BY <1>1, <1>5, <1>7 DEF Misshapen, Current, Holds, Range
<1>10. LinesRead(w)'
    <2>1. LinesRead(w)
        BY <1>1 DEF LoadingInv, HasRead
    <2>2. rows'[w] = {RowOf(q) : q \in Behind(w) \cup {p}}
        BY <1>1, <1>8, <2>1 DEF LinesRead
    <2>3. \A q \in Behind(w) \cup {p} : q \notin Misshapen /\ Holds(q)
        BY <1>9, <2>1 DEF LinesRead
    <2>4. \A q : Holds(q)' = Holds(q)
        BY <1>1, <1>3 DEF Holds
    <2>5. rows'[w] = {RowOf(q)' : q \in Behind(w)'}
        BY <1>2, <1>3, <2>2
    <2> QED
        BY <1>1, <1>2, <1>3, <2>3, <2>4, <2>5 DEF LinesRead
<1>11. CellsRead(w)'
    <2>1. Len(row'[w]) = 0 /\ DOMAIN row'[w] = {} /\ row'[w] = << >>
        BY <1>1
    <2>2. ASSUME at'[w] < SegmentEnd(file, w)
          PROVE  0 <= Len(Record(at'[w]))
        BY <1>2, <1>4, <2>2, RecordsAre, LinesAre
    <2> QED
        BY <1>1, <1>3, <2>1, <2>2 DEF CellsRead
<1> QED
    BY <1>1, <1>10, <1>11 DEF HasRead

\* A reader refuses a line for its width, or because another text, of the file
\* or from elsewhere, has the id of one of its texts.
LEMMA RefuseLineKeeps ==
    ASSUME LoadingInv, NEW w \in Workers, RefuseLine(w)
    PROVE  HasRead(w)'
<1> DEFINE p == at[w]
<1>1. /\ file' = file /\ reader'[w] = "refused" /\ reader[w] = "reading" /\ at' = at
      /\ row' = row /\ rows' = rows /\ texts' = texts /\ ReadsOn(w)
    BY DEF RefuseLine, ReadsOn, vars, LoadingInv, LoadingTypes
<1>2. p \in Misshapen \cup Colliding
    <2>1. CASE HasCell(w) /\ answer[Pending(w)] = "collision"
        <3> DEFINE c == Pending(w)
                   k == Len(row[w]) + 1
                   x == Record(p)[k]
                   y == texts[SymbolId(x)]
        <3>1. /\ p \in Records /\ k \in DOMAIN Record(p) /\ c \in Calls /\ x \in Texts
            BY <1>1, <2>1, InARecord
        <3>2. argument[c] = x
            BY <1>1, <2>1, AnsweredCell
        <3>3. y # NoText /\ y # x /\ SymbolId(x) \in Ids
            BY <2>1, <3>1, <3>2, SymbolAssumption
               DEF LoadingInv, SymbolInv, RefusedOnlyOnCollision
        <3>4. SymbolId(y) = SymbolId(x) /\ y \in FileTexts \cup TakenElsewhere
            BY <3>3 DEF LoadingInv, Origins
        <3>5. x \in Range(Record(p))
            BY <3>1 DEF Range
        <3> QED
            BY <3>1, <3>3, <3>4, <3>5 DEF Colliding
    <2>2. CASE ~ HasCell(w) /\ ~ Blank(Current(w)) /\ ~ WellFormed(Current(w))
        BY <1>1, <2>2, InARecord DEF Misshapen, Current
    <2> QED
        BY <2>1, <2>2 DEF RefuseLine
<1>3. /\ Misshapen' = Misshapen /\ Records' = Records
      /\ \A q : Record(q)' = Record(q) /\ RowOf(q)' = RowOf(q)
      /\ Colliding \subseteq Colliding'
    <2>1. LoadingNext
        BY DEF LoadingNext
    <2> QED
        BY <1>1, <2>1, SameFile, CollidingGrows
<1>4. LinesRead(w)'
    <2>1. Behind(w)' = Behind(w)
        BY <1>1, <1>3 DEF Behind
    <2> QED
        BY <1>1, <1>3, <2>1 DEF LinesRead, Holds, LoadingInv, HasRead
<1>5. CellsRead(w)'
    BY <1>1, <1>3 DEF CellsRead, Current, LoadingInv, HasRead
<1> QED
    BY <1>1, <1>2, <1>3, <1>4, <1>5 DEF HasRead, ReadsOn

LEMMA FinishReadingKeeps ==
    ASSUME LoadingInv, NEW w \in Workers, FinishReading(w)
    PROVE  HasRead(w)'
<1>1. /\ file' = file /\ reader'[w] = "done" /\ reader[w] = "reading" /\ at' = at
      /\ row' = row /\ rows' = rows /\ texts' = texts /\ at[w] >= SegmentEnd(file, w)
    BY DEF FinishReading, vars, LoadingInv, LoadingTypes
<1>2. /\ Misshapen' = Misshapen /\ Records' = Records
      /\ \A q : Record(q)' = Record(q) /\ RowOf(q)' = RowOf(q)
    BY <1>1, SameFile
<1>3. LinesRead(w)'
    <2>1. Behind(w)' = Behind(w)
        BY <1>1, <1>2 DEF Behind
    <2> QED
        BY <1>1, <1>2, <2>1 DEF LinesRead, Holds, LoadingInv, HasRead
<1>4. CellsRead(w)'
    BY <1>1, <1>2 DEF CellsRead, Current, LoadingInv, HasRead
<1> QED
    BY <1>1, <1>3, <1>4 DEF HasRead

\* What the others do leaves a reader where it is.
LEMMA OthersAreIdle ==
    ASSUME LoadingInv, NEW w \in Workers, NEW v \in Workers, v # w,
           \/ Open(w) \/ SkipBlank(w) \/ InternCell(w) \/ LookUpCell(w)
           \/ TakeCell(w) \/ EndLine(w) \/ RefuseLine(w) \/ FinishReading(w)
    PROVE  reader'[v] = reader[v] /\ at'[v] = at[v] /\ row'[v] = row[v] /\ rows'[v] = rows[v]
BY DEF LoadingInv, LoadingTypes, Open, SkipBlank, InternCell, LookUpCell, TakeCell, EndLine,
       RefuseLine, FinishReading, NextLine, reading

LEMMA HasReadKeeps ==
    ASSUME LoadingInv, [LoadingNext]_loadingVars, NEW v \in Workers
    PROVE  HasRead(v)'
<1>1. Grows /\ file' = file /\ Colliding \subseteq Colliding'
    BY TableKeeps, FileStays, CollidingGrows
<1>2. CASE UNCHANGED reading
    <2>1. reader'[v] = reader[v] /\ at'[v] = at[v] /\ row'[v] = row[v] /\ rows'[v] = rows[v]
        BY <1>2 DEF reading
    <2> QED
        BY <1>1, <2>1, IdleReaderKeeps
<1>3. ASSUME NEW w \in Workers,
             \/ Open(w) \/ SkipBlank(w) \/ InternCell(w) \/ LookUpCell(w)
             \/ TakeCell(w) \/ EndLine(w) \/ RefuseLine(w) \/ FinishReading(w)
      PROVE  HasRead(v)'
    <2>1. CASE v # w
        <3>1. reader'[v] = reader[v] /\ at'[v] = at[v] /\ row'[v] = row[v] /\ rows'[v] = rows[v]
            BY <1>3, <2>1, OthersAreIdle
        <3> QED
            BY <1>1, <3>1, IdleReaderKeeps
    <2>2. CASE v = w
        <3>1. CASE InternCell(w) \/ LookUpCell(w)
            BY <1>2, <3>1 DEF InternCell, LookUpCell
        <3>2. CASE Open(w)
            BY <2>2, <3>2, OpenKeeps
        <3>3. CASE SkipBlank(w)
            BY <2>2, <3>3, SkipBlankKeeps
        <3>4. CASE TakeCell(w)
            BY <2>2, <3>4, TakeCellKeeps
        <3>5. CASE EndLine(w)
            BY <2>2, <3>5, EndLineKeeps
        <3>6. CASE RefuseLine(w)
            BY <2>2, <3>6, RefuseLineKeeps
        <3>7. CASE FinishReading(w)
            BY <2>2, <3>7, FinishReadingKeeps
        <3> QED
            BY <1>3, <3>1, <3>2, <3>3, <3>4, <3>5, <3>6, <3>7
    <2> QED
        BY <2>1, <2>2
<1> QED
    BY <1>2, <1>3 DEF LoadingNext, loadingVars, RefuseFirst, MergeRows, Elsewhere
-----------------------------------------------------------------------------
(* The answer *)

\* Readers that are all done have read every record.
LEMMA MergedRows ==
    ASSUME LoadingInv, MergeRows
    PROVE  /\ loaded'.rows = {RowOf(p) : p \in Records}
           /\ \A p \in Records : p \notin Misshapen /\ Holds(p)
<1>1. \A w \in Workers : reader[w] = "done" /\ LinesRead(w) /\ at[w] >= SegmentEnd(file, w)
    BY DEF MergeRows, AllRead, Refusing, LoadingInv, HasRead
<1>2. loaded'.rows = UNION {rows[w] : w \in Workers}
    BY DEF MergeRows, Loaded
<1>3. ASSUME NEW p \in Records
      PROVE  \E w \in Workers : p \in Behind(w)
    <2>1. file \in Files /\ p \in Lines(file)
        BY DEF Records, LoadingInv, LoadingTypes
    <2>2. PICK w \in Workers : p \in Segment(file, w)
        BY <2>1, LinesAreShared
    <2>3. at[w] \in Nat /\ at[w] >= SegmentEnd(file, w)
        BY <1>1 DEF LoadingInv, LoadingTypes
    <2>4. SegmentEnd(file, w) \in Nat /\ SegmentStart(file, w) \in Nat
        BY <2>1, FirstLineIs
    <2>5. p < at[w]
        BY <2>2, <2>3, <2>4 DEF Segment
    <2> QED
        BY <2>2, <2>5 DEF Behind
<1>4. \A w \in Workers : /\ rows[w] = {RowOf(p) : p \in Behind(w)}
                         /\ Behind(w) \subseteq Records
                         /\ \A p \in Behind(w) : p \notin Misshapen /\ Holds(p)
    BY <1>1 DEF LinesRead, Behind
<1>5. UNION {rows[w] : w \in Workers} = {RowOf(p) : p \in Records}
    <2>1. ASSUME NEW r \in UNION {rows[w] : w \in Workers}
          PROVE  r \in {RowOf(p) : p \in Records}
        BY <1>4
    <2>2. ASSUME NEW p \in Records
          PROVE  RowOf(p) \in UNION {rows[w] : w \in Workers}
        BY <1>3, <1>4
    <2> QED
        BY <2>1, <2>2
<1> QED
    BY <1>2, <1>3, <1>4, <1>5

\* The first reader that refuses has refused a line before every one of a
\* wrong width: such a line is in its segment, or in a later one.
LEMMA FirstRefusal ==
    ASSUME LoadingInv, RefuseFirst
    PROVE  /\ loaded'.line \in Misshapen \cup Colliding
           /\ \A p \in Misshapen : loaded'.line <= p
<1> DEFINE m == Min(Refusing)
<1>1. Refusing \in SUBSET Nat /\ Refusing # {}
    BY PeersAssumption DEF RefuseFirst, Refusing, Workers
<1>2. m \in Refusing /\ \A v \in Refusing : m <= v
    BY <1>1, Least
<1>3. loaded'.line = at[m]
    BY DEF RefuseFirst, Loaded
<1> HIDE DEF m
<1>4. /\ m \in Workers /\ m \in Nat /\ reader[m] = "refused" /\ at[m] \in Nat
      /\ file \in Files
    BY <1>1, <1>2 DEF Refusing, LoadingInv, LoadingTypes
<1>5. /\ at[m] < SegmentEnd(file, m) /\ at[m] \in Misshapen \cup Colliding
      /\ SegmentStart(file, m) <= at[m]
    BY <1>4 DEF LoadingInv, HasRead, LinesRead
<1>6. at[m] \in Segment(file, m)
    BY <1>4, <1>5, FirstLineIs DEF Segment
<1>7. ASSUME NEW p \in Misshapen
      PROVE  at[m] <= p
    <2>1. p \in Records /\ p \in Lines(file) /\ p \in Nat
        BY <1>4, FilesAre DEF Misshapen, Records, Lines, Positions
    <2>2. PICK v \in Workers : p \in Segment(file, v)
        BY <1>4, <2>1, LinesAreShared
    <2>3. at[v] \in Nat /\ LinesRead(v) /\ reader[v] \in {"done", "refused"}
        BY DEF RefuseFirst, AllRead, LoadingInv, LoadingTypes, HasRead
    <2>4. at[v] <= p
        BY <2>1, <2>2, <2>3 DEF LinesRead, Behind
    <2>5. v \in Refusing
        <3>1. p < SegmentEnd(file, v)
            BY <1>4, <2>2, FirstLineIs DEF Segment
        <3>2. reader[v] = "done" => at[v] >= SegmentEnd(file, v)
            BY DEF LoadingInv, HasRead
        <3> QED
            BY <1>4, <2>1, <2>3, <2>4, <3>1, <3>2, FirstLineIs DEF Refusing
    <2>6. v \in Nat /\ m <= v
        BY <1>1, <1>2, <2>5
    <2>7. CASE v = m
        BY <2>4, <2>7
    <2>8. CASE m < v
        <3>1. at[m] < p
            BY <1>4, <1>6, <2>2, <2>8, FilesAre, ReadExactlyOnce
        <3> QED
            BY <1>4, <2>1, <3>1
    <2> QED
        BY <1>4, <2>6, <2>7, <2>8
<1> QED
    BY <1>3, <1>5, <1>7

LEMMA AnswersKeep ==
    ASSUME LoadingInv, [LoadingNext]_loadingVars
    PROVE  Answers'
<1>1. Grows /\ file' = file
    BY TableKeeps, FileStays
<1>2. /\ Records' = Records /\ Misshapen' = Misshapen /\ Colliding \subseteq Colliding'
      /\ \A p : RowOf(p)' = RowOf(p)
    BY <1>1, SameFile, CollidingGrows
<1>3. \A p \in Records : Holds(p) => Holds(p)'
    BY <1>1, HoldsStays
<1>4. CASE loaded' = loaded
    BY <1>2, <1>3, <1>4 DEF LoadingInv, Answers
<1>5. CASE MergeRows
    <2>1. loaded'.status = "rows"
        BY <1>5 DEF MergeRows, Loaded
    <2>2. /\ loaded'.rows = {RowOf(p) : p \in Records}
          /\ \A p \in Records : p \notin Misshapen /\ Holds(p)
        BY <1>5, MergedRows
    <2> QED
        BY <1>2, <1>3, <2>1, <2>2 DEF Answers
<1>6. CASE RefuseFirst
    <2>1. loaded'.status = "refused"
        BY <1>6 DEF RefuseFirst, Loaded
    <2>2. /\ loaded'.line \in Misshapen \cup Colliding
          /\ \A p \in Misshapen : loaded'.line <= p
        BY <1>6, FirstRefusal
    <2> QED
        BY <1>2, <2>1, <2>2 DEF Answers
<1> QED
    BY <1>4, <1>5, <1>6 DEF LoadingNext, loadingVars, reading, Open, SkipBlank, InternCell,
                            LookUpCell, TakeCell, EndLine, RefuseLine, FinishReading, Elsewhere

LEMMA LoadingStarts == LoadingInit => LoadingInv
<1> SUFFICES ASSUME LoadingInit
             PROVE  LoadingInv
    OBVIOUS
<1>1. SymbolInv
    BY InitSymbols DEF LoadingInit
<1>2. LoadingTypes
    BY DEF LoadingInit, LoadingTypes, Loaded
<1>3. Origins
    BY DEF LoadingInit, Init, Origins
<1>4. \A w \in Workers : HasRead(w)
    BY DEF LoadingInit, HasRead
<1>5. Answers
    BY DEF LoadingInit, Loaded, Answers
<1> QED
    BY <1>1, <1>2, <1>3, <1>4, <1>5 DEF LoadingInv

\* What is known of the readers, the table and the answer holds in every
\* state of a loading.
THEOREM LoadingIsInductive == LoadingSpec => []LoadingInv
<1>1. LoadingInv /\ [LoadingNext]_loadingVars => LoadingInv'
    BY TableKeeps, LoadingTypesKeep, OriginsKeep, HasReadKeeps, AnswersKeep DEF LoadingInv
<1> QED
    BY <1>1, LoadingStarts, PTL DEF LoadingSpec

\* The relation read back through the symbol table is the file, whatever the
\* readers, the ranges and the other users of the table do.
THEOREM TheRelationIsTheFile == LoadingSpec => []RelationIsTheFile
<1>1. LoadingInv => RelationIsTheFile
    <2> SUFFICES ASSUME LoadingInv, loaded.status = "rows"
                 PROVE  {[k \in DOMAIN r |-> texts[r[k]]] : r \in loaded.rows}
                            = {Record(p) : p \in Records}
        BY DEF RelationIsTheFile
    <2>1. loaded.rows = {RowOf(p) : p \in Records} /\ \A p \in Records : Holds(p)
        BY DEF LoadingInv, Answers
    <2>2. ASSUME NEW p \in Records
          PROVE  [k \in DOMAIN RowOf(p) |-> texts[RowOf(p)[k]]] = Record(p)
        <3>1. DOMAIN RowOf(p) = DOMAIN Record(p)
            BY DEF RowOf
        <3>2. \A k \in DOMAIN Record(p) : texts[RowOf(p)[k]] = Record(p)[k]
            BY <2>1 DEF RowOf, Holds, Range
        <3>3. Record(p) \in Seq(Texts)
            BY RecordsAre DEF LoadingInv, LoadingTypes, Records
        <3> QED
            BY <3>1, <3>2, <3>3
    <2> QED
        BY <2>1, <2>2
<1> QED
    BY <1>1, LoadingIsInductive, PTL

\* A file is refused only for a width or for a text that collides, with another
\* one of the file or with one interned elsewhere, and exactly if there is one.
THEOREM RefusalsHaveAReason == LoadingSpec => []RefusedForAReason
<1>1. LoadingInv => RefusedForAReason
    <2> SUFFICES ASSUME LoadingInv, loaded.status # "loading"
                 PROVE  /\ loaded.status = "refused" <=> Misshapen \cup Colliding # {}
                        /\ loaded.status = "refused" =>
                              /\ loaded.line \in Misshapen \cup Colliding
                              /\ \A p \in Misshapen : loaded.line <= p
        BY DEF RefusedForAReason, Misshapen
    <2>1. loaded.status \in {"rows", "refused"} /\ Answers
        BY DEF LoadingInv, LoadingTypes
    <2>2. CASE loaded.status = "refused"
        BY <2>1, <2>2 DEF Answers
    <2>3. CASE loaded.status = "rows"
        <3>1. \A p \in Records : p \notin Misshapen /\ Holds(p)
            BY <2>1, <2>3 DEF Answers
        <3>2. Misshapen = {}
            BY <3>1 DEF Misshapen
        <3>3. Colliding = {}
            <4> SUFFICES ASSUME NEW p \in Records, NEW x \in Range(Record(p)),
                                NEW y \in FileTexts \cup TakenElsewhere,
                                x # y, SymbolId(x) = SymbolId(y)
                         PROVE  FALSE
                BY DEF Colliding
            <4>1. texts[SymbolId(x)] = x
                BY <3>1 DEF Holds
            <4>2. texts[SymbolId(y)] = y
                <5>1. CASE y \in FileTexts
                    BY <3>1, <5>1 DEF FileTexts, Holds
                <5>2. CASE y \in TakenElsewhere
                    BY <5>2, LoadingAssumption
                    DEF TakenElsewhere, LoadingInv, SymbolInv, OneTextPerAnswer
                <5> QED
                    BY <5>1, <5>2
            <4> QED
                BY <4>1, <4>2
        <3> QED
            BY <2>3, <3>2, <3>3
    <2> QED
        BY <2>1, <2>2, <2>3
<1> QED
    BY <1>1, LoadingIsInductive, PTL

\* A pointer into the table stays good while files are loaded.
THEOREM LoadingKeepsPointers == LoadingSpec => []PointersStayValid
<1>1. LoadingInv => PointersStayValid
    BY DEF LoadingInv, SymbolInv
<1> QED
    BY <1>1, LoadingIsInductive, PTL

\* The table under the readers is the atomic one.
THEOREM LoadingIsAtomic == LoadingSpec => AtomicSpec
<1>1. LoadingInit => Atomic!Init
    BY DEF LoadingInit, Init, Atomic!Init
<1>2. LoadingInv /\ [LoadingNext]_loadingVars => [Atomic!Next]_(Atomic!vars)
    BY LoadingStepsAreCalls, StepImplements DEF LoadingInv
<1> QED
    BY <1>1, <1>2, LoadingIsInductive, PTL DEF LoadingSpec, AtomicSpec, Atomic!Spec
=============================================================================
