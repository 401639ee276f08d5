----------------------------- MODULE MCLoading -----------------------------
(* Three readers over every file of up to four bytes and cells of up to    *)
(* two, so that ranges end before, in and behind a newline and a line      *)
(* crosses several of them; a call from elsewhere that interns a before,   *)
(* between or after theirs; and a function that holds a pointer.  The      *)
(* texts a and b collide, in a file and with the one from elsewhere.       *)
EXTENDS Loading

CONSTANTS a, b, newline, return, comma

MaxLength == 4

\* A carriage return elsewhere is a byte like a or b.
AtLineEnds(f) == \A i \in DOMAIN f : f[i] = return => i = Len(f) \/ f[i + 1] = newline

MCTexts == UNION {[1 .. n -> {a, b}] : n \in 0 .. 2}

\* Lines are longer than two bytes if they have a delimiter.
ShortCells(f) == \A p \in Lines(f) : \A x \in Range(Cells(Line(f, p))) : Len(x) <= 2

MCFiles == {f \in UNION {[1 .. n -> {a, b, newline, return, comma}] : n \in 0 .. MaxLength} :
              AtLineEnds(f) /\ ShortCells(f)}

MCIds == 0 .. 5

\* a and b have one id, every other text has an id of its own.
MCSymbolId(text) ==
    IF Len(text) = 2
    THEN 2 + (IF text[1] = a THEN 0 ELSE 1) + (IF text[2] = a THEN 0 ELSE 2)
    ELSE Len(text)

MCOthers == {<<Peers, 0, 1>>}

MCOtherTexts == {<<a>>}

MCCalls == (0 .. Peers - 1) \X (0 .. MaxLength - 1) \X (1 .. Arity) \cup MCOthers
=============================================================================
