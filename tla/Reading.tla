------------------------------ MODULE Reading ------------------------------
(***************************************************************************)
(* Which bytes of an input file each reader takes.  The file is cut into   *)
(* ranges of one size, wherever that falls, and a line belongs to the      *)
(* range its first byte is in: a reader skips the rest of a line that      *)
(* began before its range, and reads on to the end of the line that        *)
(* crosses the end of it (byte_range_reader).                              *)
(*                                                                         *)
(* A file is a sequence of bytes; positions in it count from 0.            *)
(***************************************************************************)
EXTENDS Feeding, Sequences, FiniteSetsExt

CONSTANT Newline

Positions(file) == 0 .. Len(file) - 1

Breaks(file) == {p \in Positions(file) : file[p + 1] = Newline}

\* skip_until, read_until: the position behind the first newline from p on.
AfterLine(file, p) == Min({b + 1 : b \in {q \in Breaks(file) : p <= q}} \cup {Len(file)})

\* Reader w's range starts at RangeStart(file, w) and ends where the next
\* one's starts, the last one's at the end of the file.
RangeStart(file, w) == IF w = Peers THEN Len(file) ELSE w * (Len(file) \div Peers)

\* Mutant of FromLine: the byte before the range is not looked at.
FromLineAlways(file, p) == IF p = 0 THEN p ELSE AfterLine(file, p)

\* The first line that starts at p or later starts here.
FromLine(file, p) == IF p = 0 \/ p - 1 \in Breaks(file) THEN p ELSE AfterLine(file, p)

SegmentStart(file, w) == FromLine(file, RangeStart(file, w))

\* The range in one read, then the rest of its last line, if it has any.
SegmentEnd(file, w) ==
    LET end == RangeStart(file, w + 1) IN
    IF SegmentStart(file, w) >= end THEN SegmentStart(file, w)
    ELSE IF end - 1 \in Breaks(file) THEN end ELSE AfterLine(file, end)

\* The bytes reader w takes.
Segment(file, w) == SegmentStart(file, w) .. SegmentEnd(file, w) - 1
=============================================================================
