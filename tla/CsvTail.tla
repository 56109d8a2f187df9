------------------------------ MODULE CsvTail ------------------------------
(***************************************************************************)
(* The CSV file of one symbol as the append-only downloaders see it, and   *)
(* CsvData::lastValidRecord (src/src/csv_data.cpp), which every one of     *)
(* them calls before it appends.                                           *)
(*                                                                         *)
(* A file is a sequence of lines, of which only the last may lack its      *)
(* newline.  A line is the header, a row that parses (of one slot, the     *)
(* index of a candle), or junk that does not parse.                        *)
(***************************************************************************)
EXTENDS Integers, Sequences

Line == [kind : {"header", "row", "junk"}, slot : Int]
File == [lines : Seq(Line), open : BOOLEAN]

Header == [kind |-> "header", slot |-> -1]
Junk == [kind |-> "junk", slot |-> -1]
Row(s) == [kind |-> "row", slot |-> s]

NoFile == [lines |-> <<>>, open |-> FALSE]

\* Mutant: an unterminated last line counts.
TerminatedOrNot(f, i) == i <= Len(f.lines)

\* A line that ends in a newline.
Terminated(f, i) == i < Len(f.lines) \/ ~f.open

\* isValidRecord, on the terminated lines only.
Records(f) == {i \in 1 .. Len(f.lines) : f.lines[i].kind = "row" /\ Terminated(f, i)}

Found(f) == Records(f) # {}
LastRecord(f) == CHOOSE i \in Records(f) : \A j \in Records(f) : j <= i

\* TailCheck::timestamp.
TailSlot(f, fallback) == IF Found(f) THEN f.lines[LastRecord(f)].slot ELSE fallback

\* Mutant: the file is cut before the last valid record.
KeptShort(f) ==
  IF Found(f) THEN LastRecord(f) - 1 ELSE IF f.lines = <<>> THEN 0 ELSE 1

\* The lines lastValidRecord keeps: up to the last valid record or, when there
\* is none, the first line, whatever it is and terminated or not.
Kept(f) ==
  IF Found(f) THEN LastRecord(f) ELSE IF f.lines = <<>> THEN 0 ELSE 1

\* The file after resize_file.
Repaired(f) ==
  [lines |-> SubSeq(f.lines, 1, Kept(f)),
   open  |-> f.open /\ Kept(f) = Len(f.lines)]

\* std::ios::app: whatever is written continues an unterminated last line, and
\* what that gives parses neither as a header nor as a row.
AppendLine(f, line) ==
  [lines |-> IF f.open THEN [f.lines EXCEPT ![Len(f.lines)] = Junk]
                       ELSE Append(f.lines, line),
   open  |-> FALSE]

\* The same for a write that stops inside the line: before its end, so that it
\* does not parse, or just before the newline.
AppendTorn(f, line) ==
  IF f.open
  THEN {[lines |-> [f.lines EXCEPT ![Len(f.lines)] = Junk], open |-> TRUE]}
  ELSE {[lines |-> Append(f.lines, l), open |-> TRUE] : l \in {Junk, line}}

\* The slots stored in the file.
Stored(f) == {f.lines[i].slot : i \in Records(f)}

\* The first line is the whole header (or there is no line yet).
Headed(f) ==
  f.lines # <<>> => f.lines[1].kind = "header" /\ Terminated(f, 1)
=============================================================================
