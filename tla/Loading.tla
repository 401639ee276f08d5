------------------------------ MODULE Loading ------------------------------
(***************************************************************************)
(* One input file is read by several threads into a relation, while the    *)
(* rest of the engine uses the same symbol table: other files, the symbols *)
(* of rules, rows of requests and embedded functions intern in it, before  *)
(* and meanwhile, in this evaluation and in others.  Each reader takes the *)
(* lines of its segment in order, interns their cells in the symbol table, *)
(* and stops at the first line it refuses.  The thread that waits joins    *)
(* all of them, also after a refusal, and answers with the refusal of the  *)
(* first reader that has one, or with the rows of all.                     *)
(*                                                                         *)
(* Columns hold symbols; a line is refused for its width or for a          *)
(* collision of symbols.  That a number is refused is like a width.  A     *)
(* reader's calls of intern are named by where their cells are: the        *)
(* reader, the line and the column.                                        *)
(***************************************************************************)
EXTENDS Reading, SymbolTable, SequencesExt

CONSTANTS CarriageReturn, Delimiter,
          Arity,
          Files,         \* the files there may be
          Others,        \* calls of intern for anything but this file
          OtherTexts     \* what they may be made with

VARIABLES file,
          reader,    \* where each reader stands
          at,        \* the position of its line
          row,       \* the cells it has read of the line
          rows,      \* its rows
          loaded     \* what the waiting thread answers

reading == <<reader, at, row, rows>>
loadingVars == <<file, reading, loaded, vars>>

Loaded(status, relation, line) == [status |-> status, rows |-> relation, line |-> line]
-----------------------------------------------------------------------------
(* The lines of a file *)

\* Where lines start.
Lines(f) == {p \in Positions(f) : p = 0 \/ p - 1 \in Breaks(f)}

\* Where the line at p ends: at its newline, or at the end of the file.
LineEnd(f, p) == Min({b \in Breaks(f) : p <= b} \cup {Len(f)})

\* The line at p, without a carriage return at its end.
Line(f, p) ==
    LET bytes == SubSeq(f, p + 1, LineEnd(f, p))
    IN IF bytes # << >> /\ Last(bytes) = CarriageReturn THEN Front(bytes) ELSE bytes

\* line.split(delimiter): one cell more than there are delimiters.
Cells(line) ==
    LET cuts == {i \in DOMAIN line : line[i] = Delimiter}
        ends == SetToSortSeq(cuts \cup {Len(line) + 1}, <)
    IN [k \in 1 .. Cardinality(cuts) + 1 |->
          SubSeq(line, IF k = 1 THEN 1 ELSE ends[k - 1] + 1, ends[k] - 1)]

WellFormed(line) == Arity = 0 \/ Len(Cells(line)) = Arity

\* How many cells of a line are read.
Width(line) == Min({Arity, Len(Cells(line))})

Blank(line) == Arity > 0 /\ line = << >>

\* Every cell is a text, and every place of a cell names a call of its own.
ASSUME LoadingAssumption ==
    /\ Arity \in Nat
    /\ Others \subseteq Calls
    /\ OtherTexts \subseteq Texts
    /\ \A f \in Files :
          /\ f \in Seq(Range(f))
          /\ \A p \in Lines(f) : /\ Range(Cells(Line(f, p))) \subseteq Texts
                                /\ Workers \X {p} \X (1 .. Arity) \subseteq Calls \ Others
-----------------------------------------------------------------------------
(* A reader *)

Current(w) == Line(file, at[w])

ReadsOn(w) == reader[w] = "reading" /\ at[w] < SegmentEnd(file, w)

\* The cell it has to read next, and the call that interns it.
Pending(w) == <<w, at[w], Len(row[w]) + 1>>

HasCell(w) == ~ Blank(Current(w)) /\ Len(row[w]) < Width(Current(w))

Open(w) == /\ reader[w] = "starting"
           /\ reader' = [reader EXCEPT ![w] = "reading"]
           /\ at' = [at EXCEPT ![w] = SegmentStart(file, w)]
           /\ UNCHANGED <<file, row, rows, loaded, vars>>

NextLine(w) == at' = [at EXCEPT ![w] = LineEnd(file, at[w]) + 1]

SkipBlank(w) == /\ ReadsOn(w)
                /\ Blank(Current(w))
                /\ NextLine(w)
                /\ UNCHANGED <<file, reader, row, rows, loaded, vars>>

\* A cell is interned before the width of its line is known.
InternCell(w) == /\ ReadsOn(w) /\ HasCell(w)
                 /\ Call(Pending(w), Cells(Current(w))[Len(row[w]) + 1])
                 /\ UNCHANGED <<file, reading, loaded>>

LookUpCell(w) == /\ ReadsOn(w) /\ HasCell(w)
                 /\ LookUp(Pending(w)) \/ Insert(Pending(w))
                 /\ UNCHANGED <<file, reading, loaded>>

TakeCell(w) == /\ ReadsOn(w) /\ HasCell(w)
               /\ answer[Pending(w)] = "ok"
               /\ row' = [row EXCEPT ![w] = Append(@, SymbolId(argument[Pending(w)]))]
               /\ UNCHANGED <<file, reader, at, rows, loaded, vars>>

EndLine(w) == /\ ReadsOn(w) /\ ~ HasCell(w) /\ ~ Blank(Current(w))
              /\ WellFormed(Current(w))
              /\ rows' = [rows EXCEPT ![w] = @ \cup {row[w]}]
              /\ row' = [row EXCEPT ![w] = << >>]
              /\ NextLine(w)
              /\ UNCHANGED <<file, reader, loaded, vars>>

\* Two texts under one id, or too few or too many cells.
RefuseLine(w) == /\ ReadsOn(w)
                 /\ \/ HasCell(w) /\ answer[Pending(w)] = "collision"
                    \/ ~ HasCell(w) /\ ~ Blank(Current(w)) /\ ~ WellFormed(Current(w))
                 /\ reader' = [reader EXCEPT ![w] = "refused"]
                 /\ UNCHANGED <<file, at, row, rows, loaded, vars>>

FinishReading(w) == /\ reader[w] = "reading"
                    /\ at[w] >= SegmentEnd(file, w)
                    /\ reader' = [reader EXCEPT ![w] = "done"]
                    /\ UNCHANGED <<file, at, row, rows, loaded, vars>>
-----------------------------------------------------------------------------
Refusing == {w \in Workers : reader[w] = "refused"}

AllRead == /\ loaded.status = "loading"
           /\ \A w \in Workers : reader[w] \in {"done", "refused"}

\* Mutant of Refuse: the last refusal.
RefuseLast == /\ AllRead /\ Refusing # {}
              /\ loaded' = Loaded("refused", {}, at[Max(Refusing)])
              /\ UNCHANGED <<file, reading, vars>>

\* The results are collected in the order of the ranges, up to a refusal.
RefuseFirst == /\ AllRead /\ Refusing # {}
               /\ loaded' = Loaded("refused", {}, at[Min(Refusing)])
               /\ UNCHANGED <<file, reading, vars>>

\* The sorted rows of all readers are merged, each once.
MergeRows == /\ AllRead /\ Refusing = {}
             /\ loaded' = Loaded("rows", UNION {rows[w] : w \in Workers}, 0)
             /\ UNCHANGED <<file, reading, vars>>
-----------------------------------------------------------------------------
LoadingInit == /\ Init
               /\ file \in Files
               /\ reader = [w \in Workers |-> "starting"]
               /\ at = [w \in Workers |-> 0]
               /\ row = [w \in Workers |-> << >>]
               /\ rows = [w \in Workers |-> {}]
               /\ loaded = Loaded("loading", {}, 0)

\* The others intern their texts, and embedded functions take pointers.
Elsewhere == /\ \/ \E c \in Others : \/ \E text \in OtherTexts : Call(c, text)
                                     \/ LookUp(c) \/ Insert(c)
                \/ \E r \in Readers, id \in Ids : ResolveRaw(r, id)
             /\ UNCHANGED <<file, reading, loaded>>

LoadingNext ==
    \/ \E w \in Workers : \/ Open(w) \/ SkipBlank(w) \/ InternCell(w) \/ LookUpCell(w)
                          \/ TakeCell(w) \/ EndLine(w) \/ RefuseLine(w) \/ FinishReading(w)
    \/ RefuseFirst \/ MergeRows
    \/ Elsewhere
    \/ loaded.status # "loading" /\ UNCHANGED loadingVars

LoadingSpec == LoadingInit /\ [][LoadingNext]_loadingVars
-----------------------------------------------------------------------------
Records == {p \in Lines(file) : ~ Blank(Line(file, p))}

Record(p) == SubSeq(Cells(Line(file, p)), 1, Width(Line(file, p)))

\* "Concatenating partitions in worker order reproduces the serial reader",
\* and ids stand for what they were made from: however many readers there
\* are, wherever the ranges are cut and however their interning interleaves,
\* the relation read back through the symbol table is the file's lines.
RelationIsTheFile ==
    loaded.status = "rows" =>
        {[k \in DOMAIN r |-> texts[r[k]]] : r \in loaded.rows} = {Record(p) : p \in Records}

\* The texts of the file, and those that have their id from elsewhere.
FileTexts == UNION {Range(Record(p)) : p \in Records}

TakenElsewhere == {argument[c] : c \in {o \in Others : answer[o] = "ok"}}

\* The lines with a text whose id another text has or may take first.
Colliding == {p \in Records : \E x \in Range(Record(p)), y \in FileTexts \cup TakenElsewhere :
                                 x # y /\ SymbolId(x) = SymbolId(y)}

\* A file is never refused for how it was cut up, or for how its readers and
\* the rest of the engine came to the symbol table: it is refused exactly if a
\* line has the wrong width or holds a text that collides, with another text
\* of the file or with one interned elsewhere, and at such a line, none behind
\* the first of a wrong width, which a single reader would refuse.
RefusedForAReason ==
    loaded.status # "loading" =>
        LET misshapen == {p \in Records : ~ WellFormed(Line(file, p))}
        IN /\ loaded.status = "refused" <=> misshapen \cup Colliding # {}
           /\ loaded.status = "refused" =>
                /\ loaded.line \in misshapen \cup Colliding
                /\ \A p \in misshapen : loaded.line <= p
=============================================================================
