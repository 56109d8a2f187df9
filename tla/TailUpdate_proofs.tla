-------------------------- MODULE TailUpdate_proofs --------------------------
(***************************************************************************)
(* For every venue history, floor, page size, number of attempts and       *)
(* faults: the rows of an append-only file are ascending and without a     *)
(* hole below the last one, its candles have closed as far as the local    *)
(* clock can tell, and no step loses one.                                  *)
(*                                                                         *)
(* First what the operators of CsvTail do to a file of the shape the       *)
(* downloaders give it, then the invariant of the worker.                  *)
(***************************************************************************)
EXTENDS TailUpdate, FiniteSetTheorems, SequenceTheorems, TLAPS

\* Rows from the second line on, in ascending order, and perhaps a last line
\* that was cut short.
Shape(f) ==
  /\ f \in File
  /\ f.open => f.lines # <<>>
  /\ f.lines # <<>> => f.lines[1].kind # "row"
  /\ \A i \in 2 .. Len(f.lines) : Terminated(f, i) => f.lines[i].kind = "row"
  /\ \A i, j \in 2 .. Len(f.lines) :
       i < j /\ Terminated(f, j) => f.lines[i].slot < f.lines[j].slot

\* The last terminated line.
LastWhole(f) == IF f.open THEN Len(f.lines) - 1 ELSE Len(f.lines)

\* Shape says that the records are the terminated lines after the first.
LEMMA ShapeRecords ==
  ASSUME NEW f, Shape(f)
  PROVE  Records(f) = 2 .. LastWhole(f)
<1>1. Len(f.lines) \in Nat /\ f.open \in BOOLEAN
  BY DEF Shape, File
<1>2. ASSUME NEW i \in Records(f) PROVE i \in 2 .. LastWhole(f)
  BY <1>1, <1>2 DEF Records, Terminated, LastWhole, Shape
<1>3. ASSUME NEW i \in 2 .. LastWhole(f) PROVE i \in Records(f)
  BY <1>1, <1>3 DEF Records, Terminated, LastWhole, Shape
<1> QED
  BY <1>2, <1>3

\* A file without terminated rows stores nothing.
LEMMA NoRecords ==
  ASSUME NEW f, Shape(f), LastWhole(f) < 2
  PROVE  Records(f) = {} /\ Stored(f) = {} /\ ~Found(f)
<1>1. LastWhole(f) \in Int
  BY DEF LastWhole, Shape, File
<1>2. Records(f) = {}
  BY <1>1, ShapeRecords
<1> QED
  BY <1>2 DEF Stored, Found

\* When a record is found, LastRecord is the last terminated line.
LEMMA LastRecordIs ==
  ASSUME NEW f, Shape(f)
  PROVE  /\ Found(f) <=> 2 <= LastWhole(f)
         /\ Found(f) => LastRecord(f) = LastWhole(f)
<1>1. Len(f.lines) \in Nat /\ LastWhole(f) \in Int
  BY DEF Shape, File, LastWhole
<1>2. Found(f) <=> 2 <= LastWhole(f)
  BY <1>1, ShapeRecords DEF Found
<1>3. ASSUME Found(f) PROVE LastRecord(f) = LastWhole(f)
  <2>1. LastWhole(f) \in Records(f) /\ \A j \in Records(f) : j <= LastWhole(f)
    BY <1>1, <1>2, <1>3, ShapeRecords
  <2>2. LastRecord(f) \in Records(f) /\ \A j \in Records(f) : j <= LastRecord(f)
    BY <2>1 DEF LastRecord
  <2> QED
    BY <1>1, <2>1, <2>2, ShapeRecords
<1> QED
  BY <1>2, <1>3

\* TailCheck::timestamp is the greatest stored slot or, if none is, the
\* fallback.
LEMMA TailSlotIs ==
  ASSUME NEW f, NEW d, Shape(f)
  PROVE  /\ Found(f) => TailSlot(f, d) \in Stored(f)
         /\ \A s \in Stored(f) : s <= TailSlot(f, d)
         /\ ~Found(f) => TailSlot(f, d) = d /\ Stored(f) = {}
         /\ Stored(f) \subseteq Int
<1>1. Len(f.lines) \in Nat /\ LastWhole(f) \in Int /\ LastWhole(f) <= Len(f.lines)
  BY DEF Shape, File, LastWhole
<1>2. \A i \in 1 .. Len(f.lines) : f.lines[i].slot \in Int
  <2>1. f.lines \in Seq(Line)
    BY DEF Shape, File
  <2>2. \A i \in 1 .. Len(f.lines) : f.lines[i] \in Line
    BY <2>1
  <2> QED
    BY <2>2 DEF Line
<1>3. Stored(f) \subseteq Int
  BY <1>2 DEF Stored, Records
<1>4. ~Found(f) => TailSlot(f, d) = d /\ Stored(f) = {}
  BY DEF Found, TailSlot, Stored
<1>5. ASSUME Found(f)
      PROVE  /\ TailSlot(f, d) \in Stored(f)
             /\ \A s \in Stored(f) : s <= TailSlot(f, d)
  <2>1. LastRecord(f) = LastWhole(f) /\ 2 <= LastWhole(f)
    BY <1>5, LastRecordIs
  <2>2. TailSlot(f, d) = f.lines[LastWhole(f)].slot
    BY <1>5, <2>1 DEF TailSlot
  <2>3. TailSlot(f, d) \in Stored(f)
    BY <1>1, <2>1, <2>2, ShapeRecords DEF Stored
  <2>4. ASSUME NEW i \in Records(f) PROVE f.lines[i].slot <= TailSlot(f, d)
    <3>1. i \in 2 .. LastWhole(f)
      BY ShapeRecords
    <3>2. CASE i = LastWhole(f)
      BY <1>1, <1>2, <2>1, <2>2, <3>2
    <3>3. CASE i < LastWhole(f)
      <4>1. Terminated(f, LastWhole(f))
        BY <1>1 DEF Terminated, LastWhole, Shape, File
      <4>2. i \in 2 .. Len(f.lines) /\ LastWhole(f) \in 2 .. Len(f.lines)
        BY <1>1, <2>1, <3>1
      <4> QED
        BY <1>2, <2>2, <3>3, <4>1, <4>2 DEF Shape
    <3> QED
      BY <1>1, <3>1, <3>2, <3>3
  <2> QED
    BY <2>3, <2>4 DEF Stored
<1> QED
  BY <1>3, <1>4, <1>5

\* lastValidRecord keeps every record, and leaves an unterminated line only
\* where it is the whole file.
LEMMA RepairedIs ==
  ASSUME NEW f, Shape(f)
  PROVE  /\ Shape(Repaired(f))
         /\ Stored(Repaired(f)) = Stored(f)
         /\ Repaired(f).open => Len(Repaired(f).lines) = 1
         /\ Found(Repaired(f)) <=> Found(f)
         /\ Headed(Repaired(f)) <=> Headed(f)
<1> SUFFICES ASSUME NEW g, g = Repaired(f)
             PROVE  /\ Shape(g)
                    /\ Stored(g) = Stored(f)
                    /\ g.open => Len(g.lines) = 1
                    /\ Found(g) <=> Found(f)
                    /\ Headed(g) <=> Headed(f)
  OBVIOUS
<1>1. f.lines \in Seq(Line) /\ Len(f.lines) \in Nat /\ f.open \in BOOLEAN
  BY DEF Shape, File
<1>2. CASE Found(f)
  <2>1. Kept(f) = LastWhole(f) /\ 2 <= LastWhole(f) /\ LastWhole(f) <= Len(f.lines)
    BY <1>1, <1>2, LastRecordIs DEF Kept, LastWhole
  <2>2. g.lines = SubSeq(f.lines, 1, LastWhole(f)) /\ ~g.open
    <3>1. (f.open /\ Kept(f) = Len(f.lines)) = FALSE
      BY <1>1, <2>1 DEF LastWhole
    <3>2. g = [lines |-> SubSeq(f.lines, 1, LastWhole(f)), open |-> FALSE]
      BY <2>1, <3>1, Zenon DEF Repaired
    <3>3. ASSUME NEW ls PROVE LET r == [lines |-> ls, open |-> FALSE]
                              IN  r.lines = ls /\ ~r.open
      OBVIOUS
    <3> QED
      BY <3>2, <3>3, Zenon
  <2>3. /\ g.lines \in Seq(Line) /\ Len(g.lines) = LastWhole(f)
        /\ \A i \in 1 .. LastWhole(f) : g.lines[i] = f.lines[i]
    <3>2. LastWhole(f) \in Int
      BY <1>1 DEF LastWhole
    <3>1. \A i \in 1 .. LastWhole(f) : f.lines[i] \in Line
      BY <1>1, <2>1, <3>2, ElementOfSeq
    <3>3. /\ SubSeq(f.lines, 1, LastWhole(f)) \in Seq(Line)
          /\ Len(SubSeq(f.lines, 1, LastWhole(f))) = LastWhole(f) - 1 + 1
          /\ \A i \in 1 .. LastWhole(f) - 1 + 1 :
               SubSeq(f.lines, 1, LastWhole(f))[i] = f.lines[1 + i - 1]
      BY <2>1, <3>1, <3>2, SubSeqProperties
    <3> QED
      BY <2>1, <2>2, <3>2, <3>3
  <2>4. \A i \in 1 .. LastWhole(f) : Terminated(f, i)
    BY <1>1, <2>1 DEF Terminated, LastWhole
  <2>5. g \in File
    BY <2>2, <2>3 DEF Repaired, File
  <2>6. Shape(g)
    <3>1. LastWhole(f) \in Int
      BY <1>1 DEF LastWhole
    <3>2. g.lines # <<>> /\ g.lines[1].kind # "row"
      BY <1>1, <2>1, <2>3, <3>1 DEF Shape
    <3>3. \A i \in 2 .. Len(g.lines) : g.lines[i].kind = "row"
      BY <1>1, <2>1, <2>3, <2>4, <3>1 DEF Shape
    <3>4. \A i, j \in 2 .. Len(g.lines) :
            i < j => g.lines[i].slot < g.lines[j].slot
      BY <1>1, <2>1, <2>3, <2>4, <3>1 DEF Shape
    <3> QED
      BY <2>2, <2>5, <3>2, <3>3, <3>4 DEF Shape
  <2>7. Records(g) = Records(f)
    BY <2>2, <2>3, <2>6, ShapeRecords DEF LastWhole
  <2>8. Stored(g) = Stored(f)
    BY <2>1, <2>3, <2>7, ShapeRecords DEF Stored
  <2>9. Headed(g) <=> Headed(f)
    BY <1>1, <2>1, <2>2, <2>3 DEF Headed, Terminated, LastWhole
  <2> QED
    BY <2>2, <2>6, <2>7, <2>8, <2>9 DEF Found
<1>3. CASE ~Found(f) /\ f.lines = <<>>
  <2>1. g.lines = <<>> /\ ~g.open
    BY <1>1, <1>3 DEF Repaired, Kept, Shape
  <2>2. g \in File /\ Shape(g)
    BY <1>3, <2>1 DEF Repaired, File, Shape, Terminated
  <2>3. Records(g) = {} /\ Records(f) = {}
    BY <1>3, <2>1 DEF Records
  <2> QED
    BY <1>3, <2>1, <2>2, <2>3 DEF Found, Stored, Headed
<1>4. CASE ~Found(f) /\ f.lines # <<>>
  <2>1. Kept(f) = 1 /\ 1 <= Len(f.lines)
    BY <1>1, <1>4 DEF Kept
  <2>2. g.lines = SubSeq(f.lines, 1, 1) /\ g.open = (f.open /\ Len(f.lines) = 1)
    BY <1>1, <2>1 DEF Repaired
  <2>3. g.lines \in Seq(Line) /\ Len(g.lines) = 1 /\ g.lines[1] = f.lines[1]
    BY <1>1, <2>1, <2>2
  <2>4. g \in File
    BY <1>1, <2>2, <2>3 DEF Repaired, File
  <2>5. Shape(g)
    BY <1>4, <2>3, <2>4 DEF Shape
  <2>6. Records(g) = {} /\ Records(f) = {}
    <3>1. LastWhole(g) < 2
      BY <2>3, <2>4 DEF LastWhole, File
    <3> QED
      BY <1>4, <2>5, <3>1, NoRecords DEF Found
  <2>7. Headed(g) <=> Headed(f)
    <3>1. Terminated(g, 1) <=> ~g.open
      BY <2>3 DEF Terminated
    <3>2. Terminated(f, 1) <=> ~(f.open /\ Len(f.lines) = 1)
      <4>1. ASSUME NEW n \in Nat, 1 <= n, n # 1 PROVE 1 < n
        BY <4>1
      <4>2. ASSUME NEW n \in Nat, n = 1 PROVE ~(1 < n)
        BY <4>2
      <4>3. Len(f.lines) # 1 => 1 < Len(f.lines)
        BY <1>1, <2>1, <4>1
      <4>4. Len(f.lines) = 1 => ~(1 < Len(f.lines))
        BY <1>1, <4>2
      <4> QED
        BY <4>3, <4>4, Zenon DEF Terminated
    <3>3. Terminated(g, 1) <=> Terminated(f, 1)
      BY <2>2, <3>1, <3>2
    <3> QED
      BY <1>4, <2>3, <3>3 DEF Headed
  <2> QED
    BY <2>3, <2>5, <2>6, <2>7 DEF Found, Stored
<1> QED
  BY <1>2, <1>3, <1>4

\* A row appended to a file whose only unterminated line may be the first.
LEMMA AppendRowIs ==
  ASSUME NEW f, NEW s \in Int, Shape(f), f.lines # <<>>,
         f.open => Len(f.lines) = 1,
         \A t \in Stored(f) : t < s
  PROVE  LET g == AppendLine(f, Row(s)) IN
         /\ Shape(g)
         /\ g.lines # <<>> /\ ~g.open
         /\ Stored(f) \subseteq Stored(g) /\ Stored(g) \subseteq Stored(f) \cup {s}
         /\ Headed(g) => Headed(f) /\ Stored(g) = Stored(f) \cup {s}
<1> SUFFICES ASSUME NEW g, g = AppendLine(f, Row(s))
             PROVE  /\ Shape(g)
                    /\ g.lines # <<>> /\ ~g.open
                    /\ Stored(f) \subseteq Stored(g) /\ Stored(g) \subseteq Stored(f) \cup {s}
                    /\ Headed(g) => Headed(f) /\ Stored(g) = Stored(f) \cup {s}
  OBVIOUS
<1>1. f.lines \in Seq(Line) /\ Len(f.lines) \in Nat \ {0} /\ f.open \in BOOLEAN
  BY DEF Shape, File
<1>2. Row(s) \in Line /\ Junk \in Line
  BY DEF Row, Junk, Line
<1>3. CASE f.open
  <2>1. Len(f.lines) = 1
    BY <1>3
  <2>2. g.lines = [f.lines EXCEPT ![1] = Junk] /\ ~g.open
    BY <1>3, <2>1 DEF AppendLine
  <2>3. g.lines \in Seq(Line) /\ Len(g.lines) = 1 /\ g.lines[1] = Junk
    BY <1>1, <1>2, <2>1, <2>2
  <2>4. g \in File
    BY <2>2, <2>3 DEF AppendLine, File
  <2>5. Shape(g)
    BY <2>2, <2>3, <2>4 DEF Shape, Junk
  <2>6. Stored(g) = {} /\ Stored(f) = {}
    <3>1. LastWhole(g) < 2 /\ LastWhole(f) < 2
      BY <1>3, <2>1, <2>2, <2>3 DEF LastWhole
    <3> QED
      BY <2>5, <3>1, NoRecords
  <2>7. ~Headed(g)
    BY <2>3 DEF Headed, Junk
  <2> QED
    BY <2>2, <2>3, <2>5, <2>6, <2>7
<1>4. CASE ~f.open
  <2>1. g.lines = Append(f.lines, Row(s)) /\ ~g.open
    BY <1>4 DEF AppendLine
  <2>2. /\ g.lines \in Seq(Line) /\ Len(g.lines) = Len(f.lines) + 1
        /\ g.lines[Len(f.lines) + 1] = Row(s)
        /\ \A i \in 1 .. Len(f.lines) : g.lines[i] = f.lines[i]
    BY <1>1, <1>2, <2>1
  <2>3. g \in File
    BY <2>1, <2>2 DEF AppendLine, File
  <2>4. \A i \in 1 .. Len(f.lines) : Terminated(f, i)
    BY <1>4 DEF Terminated
  <2>5. \A i \in 2 .. Len(f.lines) : f.lines[i].slot \in Stored(f)
    BY <1>1, <1>4, ShapeRecords DEF Stored, LastWhole
  <2>6. \A i \in 2 .. Len(g.lines) : g.lines[i].kind = "row"
    <3> SUFFICES ASSUME NEW i \in 2 .. Len(g.lines) PROVE g.lines[i].kind = "row"
      OBVIOUS
    <3>1. CASE i = Len(f.lines) + 1
      BY <2>2, <3>1 DEF Row
    <3>2. CASE i \in 2 .. Len(f.lines)
      BY <2>2, <2>4, <3>2 DEF Shape
    <3> QED
      BY <1>1, <2>2, <3>1, <3>2
  <2>7. ASSUME NEW i \in 2 .. Len(g.lines), NEW j \in 2 .. Len(g.lines), i < j
        PROVE  g.lines[i].slot < g.lines[j].slot
    <3>1. i \in 2 .. Len(f.lines) /\ g.lines[i] = f.lines[i]
      BY <1>1, <2>2, <2>7
    <3>2. CASE j = Len(f.lines) + 1
      BY <2>2, <2>5, <3>1, <3>2 DEF Row
    <3>3. CASE j \in 2 .. Len(f.lines)
      <4>1. g.lines[j] = f.lines[j] /\ Terminated(f, j)
        BY <1>1, <2>2, <2>4, <3>3
      <4> QED
        BY <2>7, <3>1, <3>3, <4>1 DEF Shape
    <3> QED
      BY <1>1, <2>2, <3>2, <3>3
  <2>8. g.lines # <<>> /\ g.lines[1].kind # "row"
    BY <1>1, <2>2 DEF Shape
  <2>9. Shape(g)
    BY <2>1, <2>3, <2>6, <2>7, <2>8 DEF Shape
  <2>10. Records(f) = 2 .. Len(f.lines) /\ Records(g) = 2 .. Len(f.lines) + 1
    BY <1>1, <1>4, <2>1, <2>2, <2>9, ShapeRecords DEF LastWhole
  <2>11. Stored(g) = Stored(f) \cup {s}
    <3>1. ASSUME NEW x \in Stored(g) PROVE x \in Stored(f) \cup {s}
      <4>1. PICK i \in 2 .. Len(f.lines) + 1 : x = g.lines[i].slot
        BY <2>10 DEF Stored
      <4>2. CASE i = Len(f.lines) + 1
        BY <2>2, <4>1, <4>2 DEF Row
      <4>3. CASE i \in 2 .. Len(f.lines)
        <5>1. g.lines[i] = f.lines[i]
          BY <1>1, <2>2, <4>3
        <5> QED
          BY <2>5, <4>1, <4>3, <5>1
      <4> QED
        BY <1>1, <4>1, <4>2, <4>3
    <3>2. s \in Stored(g)
      BY <1>1, <2>2, <2>10 DEF Stored, Row
    <3>3. ASSUME NEW x \in Stored(f) PROVE x \in Stored(g)
      <4>1. PICK i \in 2 .. Len(f.lines) : x = f.lines[i].slot
        BY <2>10 DEF Stored
      <4>2. i \in Records(g) /\ g.lines[i] = f.lines[i]
        BY <1>1, <2>2, <2>10
      <4> QED
        BY <4>1, <4>2 DEF Stored
    <3> QED
      BY <3>1, <3>2, <3>3
  <2>12. Headed(g) => Headed(f)
    BY <1>1, <1>4, <2>1, <2>2 DEF Headed, Terminated
  <2> QED
    BY <2>1, <2>8, <2>9, <2>11, <2>12
<1> QED
  BY <1>1, <1>3, <1>4

\* The header of a new file.
LEMMA AppendHeaderIs ==
  ASSUME NEW f, Shape(f), f.lines = <<>>
  PROVE  LET g == AppendLine(f, Header) IN
         /\ Shape(g) /\ ~g.open
         /\ Stored(f) = {} /\ Stored(g) = {} /\ ~Found(f) /\ ~Found(g)
<1> SUFFICES ASSUME NEW g, g = AppendLine(f, Header)
             PROVE  /\ Shape(g) /\ ~g.open
                    /\ Stored(f) = {} /\ Stored(g) = {} /\ ~Found(f) /\ ~Found(g)
  OBVIOUS
<1>1. ~f.open
  BY DEF Shape, File
<1>2. g.lines = <<Header>> /\ ~g.open
  BY <1>1 DEF AppendLine
<1>3. Header \in Line
  BY DEF Header, Line
<1>4. g.lines \in Seq(Line) /\ Len(g.lines) = 1 /\ g.lines[1] = Header
  BY <1>2, <1>3
<1>5. g \in File
  BY <1>2, <1>4 DEF AppendLine, File
<1>6. Shape(g)
  BY <1>2, <1>4, <1>5 DEF Shape, Header
<1>7. LastWhole(g) < 2 /\ LastWhole(f) < 2
  BY <1>1, <1>2, <1>4 DEF LastWhole
<1> QED
  BY <1>2, <1>6, <1>7, NoRecords

\* A write that stops inside a line stores nothing and costs nothing.
LEMMA AppendTornIs ==
  ASSUME NEW f, NEW line \in Line, NEW g \in AppendTorn(f, line), Shape(f),
         f.open => Len(f.lines) = 1,
         f.lines = <<>> => line.kind # "row"
  PROVE  /\ Shape(g)
         /\ Stored(g) = Stored(f)
         /\ Headed(g) => Headed(f)
<1>1. f.lines \in Seq(Line) /\ Len(f.lines) \in Nat /\ f.open \in BOOLEAN
  BY DEF Shape, File
<1>2. Junk \in Line /\ Junk.kind # "row"
  BY DEF Junk, Line
<1>3. CASE f.open
  <2>1. Len(f.lines) = 1
    BY <1>3
  <2>2. g = [lines |-> [f.lines EXCEPT ![Len(f.lines)] = Junk], open |-> TRUE]
    BY <1>3 DEF AppendTorn
  <2>3. g.lines = [f.lines EXCEPT ![1] = Junk] /\ g.open /\ g \in File
    <3>1. [f.lines EXCEPT ![1] = Junk] \in Seq(Line)
      <4>1. 1 \in 1 .. Len(f.lines)
        BY <2>1
      <4> QED
        BY <1>1, <1>2, <4>1, ExceptSeq, Zenon
    <3>2. g = [lines |-> [f.lines EXCEPT ![1] = Junk], open |-> TRUE]
      BY <2>1, <2>2
    <3>3. g.lines = [f.lines EXCEPT ![1] = Junk] /\ g.open
      BY <3>2
    <3> QED
      BY <3>1, <3>2, <3>3 DEF File
  <2>4. g.lines \in Seq(Line) /\ Len(g.lines) = 1 /\ g.lines[1] = Junk
    BY <1>1, <1>2, <2>1, <2>3
  <2>5. Shape(g)
    BY <1>2, <2>3, <2>4 DEF Shape
  <2>6. Stored(g) = {} /\ Stored(f) = {}
    <3>1. LastWhole(g) < 2 /\ LastWhole(f) < 2
      BY <1>3, <2>1, <2>3, <2>4 DEF LastWhole
    <3> QED
      BY <2>5, <3>1, NoRecords
  <2>7. ~Headed(g)
    BY <2>4 DEF Headed, Junk
  <2> QED
    BY <2>5, <2>6, <2>7
<1>4. CASE ~f.open
  <2>1. PICK l \in {Junk, line} : g = [lines |-> Append(f.lines, l), open |-> TRUE]
    BY <1>4 DEF AppendTorn
  <2>2. g.lines = Append(f.lines, l) /\ g.open /\ l \in Line
    BY <1>2, <2>1
  <2>3. /\ g.lines \in Seq(Line) /\ Len(g.lines) = Len(f.lines) + 1
        /\ g.lines[Len(f.lines) + 1] = l
        /\ \A i \in 1 .. Len(f.lines) : g.lines[i] = f.lines[i]
    BY <1>1, <2>2
  <2>4. g \in File
    BY <2>1, <2>2, <2>3 DEF File
  <2>5. \A i \in 1 .. Len(g.lines) : Terminated(g, i) <=> i \in 1 .. Len(f.lines)
    BY <1>1, <2>2, <2>3 DEF Terminated
  <2>6. \A i \in 1 .. Len(f.lines) : Terminated(f, i)
    BY <1>4 DEF Terminated
  <2>7. g.lines # <<>> /\ g.lines[1].kind # "row"
    <3>1. CASE f.lines = <<>>
      BY <1>2, <2>1, <2>2, <2>3, <3>1
    <3>2. CASE f.lines # <<>>
      BY <1>1, <2>3, <3>2 DEF Shape
    <3> QED
      BY <3>1, <3>2
  <2>8. \A i \in 2 .. Len(g.lines) : Terminated(g, i) => g.lines[i].kind = "row"
    BY <1>1, <2>3, <2>5, <2>6 DEF Shape
  <2>9. \A i, j \in 2 .. Len(g.lines) :
          i < j /\ Terminated(g, j) => g.lines[i].slot < g.lines[j].slot
    <3> SUFFICES ASSUME NEW i \in 2 .. Len(g.lines), NEW j \in 2 .. Len(g.lines),
                        i < j, Terminated(g, j)
                 PROVE  g.lines[i].slot < g.lines[j].slot
      OBVIOUS
    <3>1. i \in 2 .. Len(f.lines) /\ j \in 2 .. Len(f.lines)
      BY <1>1, <2>3, <2>5
    <3>2. g.lines[i] = f.lines[i] /\ g.lines[j] = f.lines[j] /\ Terminated(f, j)
      BY <1>1, <2>3, <2>6, <3>1
    <3> QED
      BY <3>1, <3>2 DEF Shape
  <2>10. Shape(g)
    BY <2>4, <2>7, <2>8, <2>9 DEF Shape
  <2>11. Records(g) = 2 .. Len(f.lines) /\ Records(f) = 2 .. Len(f.lines)
    BY <1>1, <1>4, <2>2, <2>3, <2>10, ShapeRecords DEF LastWhole
  <2>12. Stored(g) = Stored(f)
    <3>1. \A i \in 2 .. Len(f.lines) : g.lines[i].slot = f.lines[i].slot
      BY <1>1, <2>3
    <3> QED
      BY <2>11, <3>1, Zenon DEF Stored
  <2>13. Headed(g) => Headed(f)
    BY <1>1, <1>4, <2>2, <2>3 DEF Headed, Terminated
  <2> QED
    BY <2>10, <2>12, <2>13
<1> QED
  BY <1>1, <1>3, <1>4

-----------------------------------------------------------------------------
USE DEF Slots

\* The first part of the invariant: what is in the file, what is about to be
\* written to it, and what the worker remembers of it.
Final(s) == Closes(s) <= now + Ahead - Margin

AllClosed ==
    /\ StoredSlots \subseteq Candles
    /\ \A s \in StoredSlots \cup pending \cup held : Final(s)
    /\ end <= now + Ahead - Margin

\* A worker past the inspection writes to a clean file, above what is there.
Above ==
    /\ pc \in {"fetch", "write"} /\ csv.open => Len(csv.lines) = 1
    /\ pc = "write" => \A s \in StoredSlots, p \in pending : s < p
    /\ pc # "write" => pending = {}

\* The tail kept in memory is never behind the file.
Remembered ==
    /\ client = "binance" /\ pc \in {"fetch", "write"} =>
         tail < from /\ \A s \in StoredSlots \cup pending : s <= tail
    /\ client = "seeded" => Closes(ArchiveEnd) <= now
    /\ client = "seeded" /\ pc = "fetch" /\ from <= Horizon =>
         from = tail + 1 /\ \A s \in StoredSlots : s <= tail

UnderTrade ==
    client = "delisted" =>
        \A s \in StoredSlots \cup pending : \E t \in Busy : s <= t /\ Opens(t) <= now

Inv == TypeOK /\ Shape(csv) /\ AllClosed /\ Above /\ Remembered /\ UnderTrade

\* The second part, as long as the header is whole: what is below the next
\* request is stored, about to be written or held back.
Promised(s) ==
    /\ s \in Candles /\ Floor <= s
    /\ client = "seeded" => ArchiveEnd < s

Contiguous ==
    \A s \in Candles :
        Promised(s) /\ (\E t \in StoredSlots : s < t) => s \in StoredSlots

PendingContiguous ==
    pc = "write" =>
        \A s \in Candles :
            Promised(s) /\ (\E p \in pending : s < p)
                => s \in StoredSlots \cup pending

Covered ==
    /\ pc \in {"fetch", "write"}
    /\ ~(client = "seeded" /\ (pc = "write" \/ Horizon < from))
    => \A s \in Candles :
           /\ Promised(s) /\ s < from
           /\ client = "binance" => Closes(s) <= end
           => s \in StoredSlots \cup pending \cup held

NothingHeld ==
    client # "delisted" /\ pc \in {"fetch", "write"} => held = {}

HInv ==
    /\ NothingHeld
    /\ Headed(csv) => Contiguous /\ PendingContiguous /\ Covered

\* The constants are numbers and sets of numbers.
LEMMA ConstantTypes ==
    /\ Horizon \in Nat /\ Floor \in Nat /\ ArchiveEnd \in Int /\ Window \in Nat
    /\ Candles \subseteq Slots /\ Candles \subseteq Nat /\ Busy \subseteq Candles
    /\ NoTail \in Int /\ NoTail < Floor
BY HorizonAssumption, FloorAssumption, ArchiveAssumption, CandlesAssumption
   DEF NoTail

\* A page holds candles of the answer.
LEMMA PageIs ==
    /\ Page \subseteq Answer /\ Answer \subseteq Candles
    /\ \A s \in Page :
         /\ from <= s
         /\ Opens(s) <= now
         /\ client = "seeded" => Closes(s) <= now
         /\ client \in {"paged", "delisted"} => Closes(s) <= end
<1>1. client \in {"paged", "delisted"} => client # "binance" /\ client # "seeded"
  OBVIOUS
<1> QED
  BY <1>1 DEF Page, Answer

\* Later candles open later.
LEMMA OpensLater ==
    ASSUME NEW s \in Int, NEW t \in Int, s <= t
    PROVE  /\ Opens(s) \in Int /\ Opens(t) \in Int
           /\ Opens(s) <= Opens(t)
           /\ Closes(s) \in Int /\ Closes(t) \in Int /\ Closes(s) <= Closes(t)
           /\ s < t => Closes(s) <= Opens(t)
<1>1. \A a, b \in Int : a <= b => a * Span <= b * Span
  BY SpanAssumption
<1>2. \A a \in Int : a * Span \in Int
  BY SpanAssumption
<1>3. s + 1 \in Int /\ t + 1 \in Int /\ s + 1 <= t + 1 /\ (s < t => s + 1 <= t)
  OBVIOUS
<1> QED
  BY <1>1, <1>2, <1>3 DEF Opens, Closes

\* What a request brings and its filter leaves closes before the end asked for.
LEMMA PageFinal ==
    ASSUME TypeOK, AllClosed, NEW s \in Page,
           client = "binance" => Closes(s) <= end
    PROVE  Final(s)
<1>1. now \in Int /\ end \in Int /\ Ahead \in Nat /\ Margin \in Int
  BY ConstantTypes, ClockAssumption DEF TypeOK, Margin
<1>2. s \in Int /\ Closes(s) \in Int
  BY PageIs, ConstantTypes, OpensLater
<1>3. client = "seeded" => Margin = 0
  BY DEF Margin
<1>4. CASE client = "seeded"
  <2>1. Closes(s) <= now
    BY <1>4, PageIs
  <2>2. Margin = 0
    BY <1>3, <1>4
  <2> QED
    BY <1>1, <1>2, <2>1, <2>2 DEF Final
<1>5. CASE client # "seeded"
  <2>1. Closes(s) <= end
    BY <1>5, PageIs, ClientsAssumption DEF TypeOK
  <2>2. end <= now + Ahead - Margin
    BY DEF AllClosed
  <2> QED
    BY <1>1, <1>2, <2>1, <2>2 DEF Final
<1> QED
  BY <1>4, <1>5

\* A page leaves out nothing below its last candle.
LEMMA PageSegment ==
    ASSUME TypeOK, NEW p \in Page, NEW s \in Candles, from <= s, s < p,
           client = "seeded" => ArchiveEnd < s
    PROVE  s \in Page
<1>1. p \in Answer /\ p \in Candles /\ s \in Nat /\ p \in Nat
  BY PageIs, ConstantTypes
<1>2. now \in Int /\ end \in Int /\ now <= Horizon
  BY ConstantTypes DEF TypeOK
<1>6. /\ Opens(s) \in Int /\ Opens(p) \in Int /\ Opens(s) <= Opens(p)
      /\ Closes(s) \in Int /\ Closes(p) \in Int /\ Closes(s) <= Closes(p)
  BY <1>1, OpensLater
<1>7. Opens(s) <= now
  BY <1>1, <1>2, <1>6 DEF Answer
<1>3. s \in Answer
  <2>1. CASE client = "binance"
    BY <1>1, <1>2, <1>6, <1>7, <2>1 DEF Answer
  <2>2. CASE client = "seeded"
    <3>1. now - Window <= Opens(s)
      <4>1. Closes(ArchiveEnd) <= Opens(s) /\ Closes(ArchiveEnd) \in Int
        BY <1>1, <2>2, ConstantTypes, OpensLater
      <4> QED
        BY <1>1, <1>2, <1>6, <4>1, ConstantTypes, ArchiveAssumption
    <3>2. Closes(s) <= now
      <4>1. Closes(p) <= now
        BY <1>1, <2>2 DEF Answer
      <4> QED
        BY <1>2, <1>6, <4>1
    <3> QED
      BY <1>1, <1>7, <2>2, <3>1, <3>2 DEF Answer
  <2>3. CASE client # "binance" /\ client # "seeded"
    <3>1. Closes(p) <= end
      BY <1>1, <2>3 DEF Answer
    <3> QED
      BY <1>1, <1>2, <1>6, <1>7, <2>3, <3>1 DEF Answer
  <2> QED
    BY <2>1, <2>2, <2>3
<1>4. CASE client = "seeded"
  BY <1>3, <1>4 DEF Page
<1>5. CASE client # "seeded"
  <2> DEFINE Below(x) == {t \in Answer : t < x}
  <2>1. IsFiniteSet(0 .. Horizon)
    <3>1. 0 \in Int /\ Horizon \in Int
      BY ConstantTypes
    <3> QED
      BY <3>1, FS_Interval, Zenon
  <2>2. Below(s) \subseteq Below(p) /\ Below(p) \subseteq 0 .. Horizon
    <3>1. Answer \subseteq 0 .. Horizon
      BY ConstantTypes, PageIs
    <3>2. ASSUME NEW t \in Answer, t < s PROVE t < p
      BY <1>1, <3>1, <3>2
    <3> QED
      BY <3>1, <3>2
  <2>3. IsFiniteSet(Below(p)) /\ IsFiniteSet(Below(s))
    BY <2>1, <2>2, FS_Subset
  <2>4. Cardinality(Below(s)) <= Cardinality(Below(p))
    BY <2>2, <2>3, FS_Subset
  <2>5. Cardinality(Below(s)) \in Nat /\ Cardinality(Below(p)) \in Nat
    BY <2>3, FS_CardinalityType
  <2>6. Cardinality(Below(p)) < PageSize
    BY <1>5 DEF Page
  <2>7. Cardinality(Below(s)) < PageSize
    BY <2>4, <2>5, <2>6, PageAssumption
  <2> QED
    BY <1>3, <1>5, <2>7 DEF Page
<1> QED
  BY <1>4, <1>5

\* The end read from the local clock.
LEMMA ClockReadIs ==
    ASSUME TypeOK, ClockRead
    PROVE  end' \in Int /\ end' <= now + Ahead - Margin
<1>1. now \in Int /\ Margin \in Int /\ Ahead \in Int /\ Behind \in Int
  BY ConstantTypes, ClockAssumption DEF TypeOK, Margin
<1>2. PICK skew \in -Behind .. Ahead : end' = EndAt(now + skew)
  BY DEF ClockRead
<1>3. skew \in Int /\ skew <= Ahead
  BY <1>1
<1>4. end' = now + skew - Margin
  BY <1>1, <1>2, <1>3 DEF EndAt
<1> QED
  BY <1>1, <1>3, <1>4

\* What a file of the right shape stores is a set of numbers below its tail.
LEMMA TailType ==
    ASSUME Shape(csv)
    PROVE  /\ TailSlot(csv, NoTail) \in Int /\ StoredSlots \subseteq Int
           /\ \A s \in StoredSlots : s <= TailSlot(csv, NoTail)
           /\ ~Found(csv) => TailSlot(csv, NoTail) = NoTail /\ StoredSlots = {}
           /\ Found(csv) => TailSlot(csv, NoTail) \in StoredSlots
<1>1. NoTail \in Int
  BY ConstantTypes
<1> QED
  BY <1>1, TailSlotIs DEF StoredSlots

\* The steps that do not write a row.
Quiet ==
    \/ Tick \/ StartRun \/ InspectTail \/ InspectFresh
    \/ Fetch \/ FetchEnd \/ Retry
    \/ WriteHeader \/ Interrupted \/ TornWrite

\* They leave the stored rows alone.
LEMMA QuietFile ==
    ASSUME Inv, Quiet
    PROVE  /\ Shape(csv') /\ Stored(csv') = Stored(csv)
           /\ Headed(csv') => Headed(csv)
           /\ pc' \in {"fetch", "write"} /\ csv'.open => Len(csv'.lines) = 1
<1>1. Shape(csv) /\ Above /\ TypeOK
  BY DEF Inv
<1>2. CASE csv' = Repaired(csv)
  BY <1>1, <1>2, RepairedIs
<1>3. CASE csv' = csv /\ (pc' \in {"fetch", "write"} => pc \in {"fetch", "write"})
  BY <1>1, <1>3 DEF Above
<1>4. CASE WriteHeader
  <2>1. csv.lines = <<>> /\ csv' = AppendLine(csv, Header)
    BY <1>4 DEF WriteHeader
  <2>2. Headed(csv)
    BY <2>1 DEF Headed
  <2> QED
    BY <1>1, <2>1, <2>2, AppendHeaderIs
<1>5. CASE TornWrite
  <2>1. PICK line \in {Header} \cup {Row(s) : s \in pending} :
          NextLine(line) /\ csv' \in AppendTorn(csv, line)
    BY <1>5 DEF TornWrite
  <2>2. line \in Line
    <3>1. \A s \in pending : s \in Int
      BY <1>1, ConstantTypes DEF TypeOK
    <3> QED
      BY <2>1, <3>1 DEF Header, Row, Line
  <2>3. csv.lines = <<>> => line.kind # "row"
    BY <2>1 DEF NextLine, Header
  <2>4. csv.open => Len(csv.lines) = 1
    BY <1>1, <1>5 DEF Above, TornWrite
  <2>5. Shape(csv') /\ Stored(csv') = Stored(csv) /\ (Headed(csv') => Headed(csv))
    BY <1>1, <2>1, <2>2, <2>3, <2>4, AppendTornIs
  <2> QED
    BY <1>5, <2>5 DEF TornWrite
<1>6. CASE Tick \/ FetchEnd \/ FetchBinance \/ FetchHeld \/ FetchSeeded
  BY <1>3, <1>6
     DEF Tick, FetchEnd, FetchBinance, FetchHeld, FetchSeeded
<1>7. CASE StartRun \/ Retry \/ Interrupted
  BY <1>3, <1>7 DEF StartRun, Retry, Interrupted
<1>8. CASE InspectTail \/ InspectFresh \/ FetchPaged \/ FetchDelisted
  BY <1>2, <1>8 DEF InspectTail, InspectFresh, Inspect, FetchPaged, FetchDelisted
<1> QED
  BY <1>4, <1>5, <1>6, <1>7, <1>8 DEF Quiet, Fetch

\* WriteRow stores the first pending slot, or glues it to a torn header.
LEMMA RowFile ==
    ASSUME Inv, WriteRow
    PROVE  /\ Shape(csv') /\ ~csv'.open
           /\ \E s \in pending :
                /\ IsFirst(s, pending) /\ pending' = pending \ {s}
                /\ Stored(csv) \subseteq Stored(csv')
                /\ Stored(csv') \subseteq Stored(csv) \cup {s}
                /\ Headed(csv') => Headed(csv) /\ Stored(csv') = Stored(csv) \cup {s}
<1>1. Shape(csv) /\ Above /\ TypeOK
  BY DEF Inv
<1>2. PICK s \in pending :
        IsFirst(s, pending) /\ csv' = AppendLine(csv, Row(s)) /\ pending' = pending \ {s}
  BY DEF WriteRow
<1>3. pc = "write" /\ csv.lines # <<>>
  BY DEF WriteRow
<1>4. s \in Int /\ \A t \in Stored(csv) : t < s
  <2>1. s \in Candles /\ Candles \subseteq Nat
    BY <1>1, ConstantTypes DEF TypeOK
  <2>2. \A t \in Stored(csv) : t < s
    BY <1>1, <1>2, <1>3 DEF Above, StoredSlots
  <2> QED
    BY <2>1, <2>2
<1>5. csv.open => Len(csv.lines) = 1
  BY <1>1, <1>3 DEF Above
<1>6. /\ Shape(csv') /\ ~csv'.open
      /\ Stored(csv) \subseteq Stored(csv')
      /\ Stored(csv') \subseteq Stored(csv) \cup {s}
      /\ Headed(csv') => Headed(csv) /\ Stored(csv') = Stored(csv) \cup {s}
  BY <1>1, <1>2, <1>3, <1>4, <1>5, AppendRowIs
<1> QED
  BY <1>2, <1>6

-----------------------------------------------------------------------------
LEMMA TypeStep ==
    ASSUME Inv, Next
    PROVE  TypeOK'
<1>1. TypeOK /\ Shape(csv)
  BY DEF Inv
<1>2. csv' \in File
  BY QuietFile, RowFile DEF Next, Quiet, Shape
<1>3. NoTail \in Int /\ TailSlot(csv, NoTail) \in Int
  BY <1>1, ConstantTypes, TailType
<1>4. Page \subseteq Candles /\ Candles \subseteq Int
  BY PageIs, ConstantTypes
<1>5. CASE Tick
  BY <1>1, <1>2, <1>5, ConstantTypes DEF TypeOK, Tick, memory
<1>6. CASE StartRun
  <2>2. end' \in Int
    BY <1>1, <1>6, ClockReadIs DEF TypeOK, StartRun
  <2> QED
    BY <1>1, <1>2, <1>6, <2>2, AttemptsAssumption DEF TypeOK, StartRun, world
<1>7. CASE InspectTail
  <2>1. end' \in Int
    BY <1>1, <1>7, ClockReadIs DEF TypeOK, InspectTail
  <2> QED
    BY <1>1, <1>2, <1>3, <1>7, <2>1 DEF TypeOK, InspectTail, Inspect, world
<1>8. CASE InspectFresh
  BY <1>1, <1>2, <1>3, <1>8 DEF TypeOK, InspectFresh, Inspect, world, Archive
<1>9. CASE Fetch
  <2>1. Continue => from' \in Int
    BY <1>4 DEF Continue
  <2>2. CASE FetchBinance
    BY <1>1, <1>2, <1>4, <2>1, <2>2
       DEF TypeOK, FetchBinance, Queue, NotYetStored, IsLast, world
  <2>3. CASE FetchPaged
    BY <1>1, <1>2, <1>3, <1>4, <2>1, <2>3
       DEF TypeOK, FetchPaged, Queue, NotYetStored, world
  <2>4. CASE FetchHeld
    BY <1>1, <1>2, <1>4, <2>1, <2>4 DEF TypeOK, FetchHeld, world
  <2>5. CASE FetchDelisted
    BY <1>1, <1>2, <1>3, <1>4, <2>1, <2>5
       DEF TypeOK, FetchDelisted, Queue, NotYetStored, Released, world
  <2>6. CASE FetchSeeded
    <3>1. pending' \subseteq Candles /\ pc' \in {"fetch", "write"}
      BY <1>4, <2>6 DEF FetchSeeded, Queue, NotYetStored
    <3>2. from' \in Int
      BY <2>6, ConstantTypes DEF FetchSeeded
    <3> QED
      BY <1>1, <1>2, <2>6, <3>1, <3>2 DEF TypeOK, FetchSeeded, world
  <2> QED
    BY <1>9, <2>2, <2>3, <2>4, <2>5, <2>6 DEF Fetch
<1>10. CASE FetchEnd
  BY <1>1, <1>2, <1>10 DEF TypeOK, FetchEnd, world, memory
<1>11. CASE Retry
  BY <1>1, <1>2, <1>11, AttemptsAssumption, FaultsAssumption DEF TypeOK, Retry
<1>12. CASE WriteHeader
  BY <1>1, <1>2, <1>12 DEF TypeOK, WriteHeader, world, memory
<1>13. CASE WriteRow
  BY <1>1, <1>2, <1>13 DEF TypeOK, WriteRow, world
<1>14. CASE Interrupted \/ TornWrite
  BY <1>1, <1>2, <1>14, FaultsAssumption DEF TypeOK, Interrupted, TornWrite
<1> QED
  BY <1>5, <1>6, <1>7, <1>8, <1>9, <1>10, <1>11, <1>12, <1>13, <1>14 DEF Next

\* The first part of the invariant: the steps that fetch.
LEMMA FetchStep ==
    ASSUME Inv, Fetch
    PROVE  AllClosed' /\ Above' /\ Remembered' /\ UnderTrade'
<1>1. TypeOK /\ Shape(csv) /\ AllClosed /\ Above /\ Remembered /\ UnderTrade
  BY DEF Inv
<1>2. /\ Stored(csv') = Stored(csv)
      /\ pc' \in {"fetch", "write"} /\ csv'.open => Len(csv'.lines) = 1
  BY QuietFile DEF Quiet
<1>3. /\ pc = "fetch" /\ pc' \in {"fetch", "write"} /\ pending = {}
      /\ UNCHANGED <<world, attempt, end>>
  BY <1>1 DEF Above, Fetch, FetchBinance, FetchPaged, FetchHeld, FetchDelisted,
              FetchSeeded, Queue
<1>4. /\ Page \subseteq Candles
      /\ \A s \in Page : from <= s /\ Opens(s) <= now
      /\ client # "binance" => \A s \in Page : Final(s)
  BY <1>1, PageIs, PageFinal
<1>5. Candles \subseteq Int /\ from \in Int /\ tail \in Int /\ end \in Int /\ now \in Int
  BY <1>1, ConstantTypes DEF TypeOK
<1>6. TailSlot(csv, NoTail) \in Int /\ \A s \in Stored(csv) : s <= TailSlot(csv, NoTail)
  BY <1>1, TailType DEF StoredSlots
<1>7. Stored(csv) \subseteq Candles /\ \A s \in Stored(csv) \cup held : Final(s)
  BY <1>1 DEF AllClosed, StoredSlots
<1>8. held \subseteq Candles
  BY <1>1 DEF TypeOK
\* What is above the tail is above every stored row.
<1>9. ASSUME NEW x \in Int, NEW P, \A s \in Stored(csv) : s <= x,
              \A p \in P : p \in Int /\ x < p
       PROVE  \A s \in Stored(csv), p \in P : s < p
  <2> SUFFICES ASSUME NEW s \in Stored(csv), NEW p \in P PROVE s < p
    OBVIOUS
  <2>1. s \in Int /\ s <= x /\ p \in Int /\ x < p
    BY <1>5, <1>7, <1>9
  <2> QED
    BY <2>1
\* What is fetched is closed and above what is stored.
<1>10. ASSUME \A s \in pending' \cup held' : Final(s),
             pc' # "write" => pending' = {},
             \A s \in Stored(csv), p \in pending' : s < p
      PROVE  AllClosed' /\ Above'
  <2>1. \A s : Final(s)' <=> Final(s)
    BY <1>3 DEF Final, Margin, world
  <2>2. (end <= now + Ahead - Margin)'
    BY <1>1, <1>3 DEF AllClosed, Margin, world
  <2> QED
    BY <1>2, <1>3, <1>7, <1>10, <2>1, <2>2 DEF AllClosed, Above, StoredSlots, world
<1>11. CASE FetchBinance
  <2> DEFINE complete == NotYetStored({s \in Page : Closes(s) <= end}, tail)
  <2>1. /\ client = "binance" /\ Queue(complete) /\ held' = held
        /\ IF complete = {} THEN tail' = tail ELSE IsLast(tail', complete)
    BY <1>11 DEF FetchBinance
  <2>2. /\ pending' = complete /\ (pc' # "write" => pending' = {})
    BY <2>1 DEF Queue
  <2>3. PICK last \in Page : IsLast(last, Page) /\ from' = last + 1
    BY <1>11 DEF FetchBinance, Continue
  <2>4. tail < from /\ \A s \in Stored(csv) : s <= tail
    BY <1>1, <1>3, <2>1 DEF Remembered, StoredSlots
  <2>5. \A s \in complete : s \in Page /\ s \in Int /\ Closes(s) <= end /\ tail < s
    BY <1>4, <1>5 DEF NotYetStored
  <2>6. \A s \in complete : Final(s)
    <3> HIDE DEF complete
    <3> QED
      BY <1>1, <2>5, PageFinal
  <2>7. \A s \in Stored(csv), p \in complete : s < p
    <3> SUFFICES ASSUME NEW s \in Stored(csv), NEW p \in complete PROVE s < p
      OBVIOUS
    <3> HIDE DEF complete
    <3>1. s \in Int /\ s <= tail /\ p \in Int /\ tail < p
      BY <1>5, <1>7, <2>4, <2>5
    <3> QED
      BY <1>5, <3>1
  <2> HIDE DEF complete
  <2>8. AllClosed' /\ Above'
    BY <1>7, <1>10, <2>1, <2>2, <2>6, <2>7
  <2>9. tail' < from' /\ \A s \in Stored(csv) \cup complete : s <= tail'
    <3>1. last \in Int /\ from <= last /\ \A s \in complete : s <= last
      BY <1>4, <1>5, <2>3, <2>5 DEF IsLast
    <3>2. CASE complete = {}
      BY <1>5, <2>1, <2>3, <2>4, <3>1, <3>2
    <3>3. CASE complete # {}
      <4>1. tail' \in complete /\ \A s \in complete : s <= tail'
        BY <2>1, <3>3 DEF IsLast
      <4>2. tail' \in Int /\ tail < tail' /\ tail' <= last
        BY <2>5, <3>1, <4>1
      <4>3. tail' < from'
        BY <2>3, <3>1, <4>2
      <4>4. \A s \in Stored(csv) : s <= tail'
        <5> SUFFICES ASSUME NEW s \in Stored(csv) PROVE s <= tail'
          OBVIOUS
        <5>1. s \in Int /\ s <= tail
          BY <1>5, <1>7, <2>4
        <5> QED
          BY <1>5, <4>2, <5>1
      <4> QED
        BY <4>1, <4>3, <4>4
    <3> QED
      BY <3>2, <3>3
  <2>10. Remembered'
    BY <1>2, <1>3, <2>1, <2>2, <2>4, <2>9 DEF Remembered, StoredSlots, world
  <2>11. UnderTrade'
    BY <1>3, <2>1 DEF UnderTrade, world
  <2> QED
    BY <2>8, <2>10, <2>11
<1>12. CASE FetchPaged
  <2>1. /\ client = "paged" /\ tail' = TailSlot(csv, NoTail) /\ held' = held
        /\ Queue(NotYetStored(Page, tail'))
    BY <1>12 DEF FetchPaged
  <2>2. pending' = NotYetStored(Page, tail') /\ (pc' # "write" => pending' = {})
    BY <2>1 DEF Queue
  <2>3. \A p \in pending' : p \in Page /\ p \in Int /\ tail' < p
    BY <1>4, <1>5, <2>2 DEF NotYetStored
  <2>4. \A s \in Stored(csv), p \in pending' : s < p
    BY <1>6, <1>9, <2>1, <2>3
  <2>5. AllClosed' /\ Above'
    BY <1>4, <1>7, <1>10, <2>1, <2>2, <2>3, <2>4
  <2> QED
    BY <1>3, <2>1, <2>5 DEF Remembered, UnderTrade, world
<1>13. CASE FetchHeld
  <2>1. /\ client = "delisted" /\ held' = held \cup Page
        /\ UNCHANGED <<pending, csv, pc>>
    BY <1>13 DEF FetchHeld
  <2>2. AllClosed' /\ Above'
    BY <1>3, <1>4, <1>7, <1>10, <2>1
  <2>3. UnderTrade'
    BY <1>1, <1>3, <2>1 DEF UnderTrade, StoredSlots, world
  <2> QED
    BY <1>3, <2>1, <2>2, <2>3 DEF Remembered, world
<1>14. CASE FetchDelisted
  <2> DEFINE bars == held \cup Page
  <2>1. /\ client = "delisted" /\ tail' = TailSlot(csv, NoTail)
        /\ held' = bars \ Released(bars)
        /\ Queue(NotYetStored(Released(bars), tail'))
    BY <1>14 DEF FetchDelisted
  <2>2. /\ pending' = NotYetStored(Released(bars), tail')
        /\ pc' # "write" => pending' = {}
    BY <2>1 DEF Queue
  <2>3. \A p \in pending' : p \in bars /\ p \in Int /\ tail' < p
                            /\ \E t \in Page \cap Busy : p <= t
    BY <1>4, <1>5, <1>8, <2>2 DEF NotYetStored, Released
  <2>4. \A s \in Stored(csv), p \in pending' : s < p
    BY <1>6, <1>9, <2>1, <2>3
  <2>5. \A s \in bars : Final(s)
    BY <1>4, <1>7, <2>1
  <2>6. AllClosed' /\ Above'
    BY <1>10, <2>1, <2>2, <2>3, <2>4, <2>5
  <2>7. UnderTrade'
    <3>1. \A p \in pending' : \E t \in Busy : p <= t /\ Opens(t) <= now
      BY <1>4, <2>1, <2>3
    <3>2. \A s \in Stored(csv) : \E t \in Busy : s <= t /\ Opens(t) <= now
      BY <1>1, <2>1 DEF UnderTrade, StoredSlots
    <3> QED
      BY <1>2, <1>3, <3>1, <3>2 DEF UnderTrade, StoredSlots, world
  <2> QED
    BY <1>3, <2>1, <2>6, <2>7 DEF Remembered, world
<1>15. CASE FetchSeeded
  <2>1. /\ client = "seeded" /\ Page # {} /\ from' = Horizon + 1 /\ held' = held
        /\ Queue(NotYetStored(Page, tail))
    BY <1>15 DEF FetchSeeded
  <2>2. pending' = NotYetStored(Page, tail) /\ (pc' # "write" => pending' = {})
    BY <2>1 DEF Queue
  <2>3. \A p \in pending' : p \in Page /\ p \in Int /\ tail < p
    BY <1>4, <1>5, <2>2 DEF NotYetStored
  <2>4. from <= Horizon
    <3>1. PICK s \in Page : from <= s /\ s \in Candles
      BY <1>4, <2>1
    <3>2. s \in 0 .. Horizon
      BY <3>1, ConstantTypes
    <3> QED
      BY <1>5, <3>1, <3>2, ConstantTypes
  <2>5. \A s \in Stored(csv) : s <= tail
    BY <1>1, <1>3, <2>1, <2>4 DEF Remembered, StoredSlots
  <2>6. \A s \in Stored(csv), p \in pending' : s < p
    BY <1>5, <1>9, <2>3, <2>5
  <2>7. AllClosed' /\ Above'
    BY <1>4, <1>7, <1>10, <2>1, <2>2, <2>3, <2>6
  <2>8. Remembered'
    <3>1. ~(from' <= Horizon)
      BY <2>1, ConstantTypes
    <3> QED
      BY <1>1, <1>3, <2>1, <3>1 DEF Remembered, world
  <2> QED
    BY <1>3, <2>1, <2>7, <2>8 DEF UnderTrade, world
<1> QED
  BY <1>11, <1>12, <1>13, <1>14, <1>15 DEF Fetch

\* The first part of the invariant: the other steps.
LEMMA OtherStep ==
    ASSUME Inv, Next, ~Fetch
    PROVE  AllClosed' /\ Above' /\ Remembered' /\ UnderTrade'
<1>1. TypeOK /\ Shape(csv) /\ AllClosed /\ Above /\ Remembered /\ UnderTrade
  BY DEF Inv
<1>2. /\ Candles \subseteq Int /\ from \in Int /\ tail \in Int /\ end \in Int
      /\ now \in Int /\ ArchiveEnd \in Int /\ Horizon \in Int
  BY <1>1, ConstantTypes DEF TypeOK
<1>3. Stored(csv) \subseteq Candles /\ \A s \in Stored(csv) \cup pending \cup held : Final(s)
  BY <1>1 DEF AllClosed, StoredSlots
<1>4. pending \subseteq Candles /\ held \subseteq Candles
  BY <1>1 DEF TypeOK
\* The steps after which the worker has neither a page nor a place in a file.
<1>5. ASSUME Stored(csv') = Stored(csv), UNCHANGED <<client, now>>,
             pc' \in {"idle", "inspect"}, pending' = {}, held' \subseteq held,
             end' <= now + Ahead - Margin
      PROVE  AllClosed' /\ Above' /\ Remembered' /\ UnderTrade'
  <2>3. Margin' = Margin /\ \A s : Final(s)' <=> Final(s)
    BY <1>5 DEF Final, Margin
  <2>1. AllClosed' /\ Above'
    BY <1>3, <1>5, <2>3 DEF AllClosed, Above, StoredSlots
  <2>2. Remembered' /\ UnderTrade'
    BY <1>1, <1>5 DEF Remembered, UnderTrade, StoredSlots
  <2> QED
    BY <2>1, <2>2
<1>6. CASE Tick
  <2>1. /\ now' = now + 1 /\ now \in Int
        /\ UNCHANGED <<client, csv, pc, end, from, tail, held, pending>>
    BY <1>2, <1>6 DEF Tick, memory
  <2>7. Margin' = Margin /\ Margin \in Int /\ Ahead \in Int
    BY <2>1, ClockAssumption DEF Margin
  <2>2. \A s \in Candles : /\ Final(s) => Final(s)'
                           /\ Opens(s) <= now => Opens(s) <= now'
    <3> SUFFICES ASSUME NEW s \in Candles
                 PROVE  /\ Final(s) => Final(s)'
                        /\ Opens(s) <= now => Opens(s) <= now'
      OBVIOUS
    <3>1. Opens(s) \in Int /\ Closes(s) \in Int
      BY <1>2, OpensLater
    <3>2. Final(s)' <=> Closes(s) <= now' + Ahead - Margin
      BY <2>7 DEF Final, Closes, Opens
    <3> QED
      BY <2>1, <2>7, <3>1, <3>2 DEF Final
  <2>8. end' <= now' + Ahead - Margin'
    BY <1>1, <1>2, <2>1, <2>7 DEF AllClosed
  <2>3. AllClosed'
    BY <1>3, <1>4, <2>1, <2>2, <2>8 DEF AllClosed, StoredSlots
  <2>4. Above'
    BY <1>1, <2>1 DEF Above, StoredSlots
  <2>5. Remembered'
    <3>1. Closes(ArchiveEnd) \in Int
      BY <1>2, OpensLater
    <3>2. Closes(ArchiveEnd) <= now => Closes(ArchiveEnd) <= now'
      BY <2>1, <3>1
    <3> QED
      BY <1>1, <1>2, <2>1, <3>2 DEF Remembered, StoredSlots, Closes, Opens
  <2>6. UnderTrade'
    <3>1. \A t \in Busy : t \in Candles
      BY ConstantTypes
    <3> QED
      BY <1>1, <2>1, <2>2, <3>1 DEF UnderTrade, StoredSlots
  <2> QED
    BY <2>3, <2>4, <2>5, <2>6
<1>7. CASE StartRun
  <2>1. ClockRead \/ end' = end
    BY <1>7 DEF StartRun
  <2>2. end' <= now + Ahead - Margin
    BY <1>1, <2>1, ClockReadIs DEF AllClosed
  <2>3. pending = {}
    BY <1>1, <1>7 DEF Above, StartRun
  <2> QED
    BY <1>5, <1>7, <2>2, <2>3 DEF StartRun, world
<1>8. CASE InspectTail \/ InspectFresh
  <2>1. /\ Stored(csv') = Stored(csv) /\ pc \in {"inspect", "reinspect"}
        /\ pc' \in {"fetch", "write"}
        /\ csv'.open => Len(csv'.lines) = 1
    BY <1>8, QuietFile DEF Quiet, InspectTail, InspectFresh
  <2>2. /\ UNCHANGED world /\ held' = {}
        /\ tail' = TailSlot(csv, NoTail)
        /\ from' = IF client = "paged" /\ Found(csv) THEN tail' ELSE tail' + 1
    BY <1>8 DEF InspectTail, InspectFresh, Inspect
  <2>3. tail' \in Int /\ \A s \in Stored(csv) : s <= tail'
    BY <1>1, <2>2, TailType DEF StoredSlots
  <2>7. Margin' = Margin /\ \A s : Final(s)' <=> Final(s)
    BY <2>2 DEF Final, Margin, world
  <2>8. end' <= now' + Ahead - Margin'
    <3>1. ClockRead \/ end' = end
      BY <1>8 DEF InspectTail, InspectFresh
    <3> QED
      BY <1>1, <2>2, <2>7, <3>1, ClockReadIs DEF AllClosed, world
  <2>4. client # "paged" => tail' < from' /\ from' = tail' + 1
    BY <2>2, <2>3
  <2>5. CASE InspectTail
    <3>1. pending' = {} /\ pc' = "fetch"
      BY <1>1, <2>1, <2>5 DEF InspectTail, Above
    <3>2. AllClosed' /\ Above'
      BY <1>3, <2>1, <2>2, <2>7, <2>8, <3>1 DEF AllClosed, Above, StoredSlots, world
    <3>3. Remembered'
      BY <1>1, <2>1, <2>2, <2>3, <2>4, <3>1 DEF Remembered, StoredSlots, world
    <3>4. UnderTrade'
      BY <1>1, <2>1, <2>2, <3>1 DEF UnderTrade, StoredSlots, world
    <3> QED
      BY <3>2, <3>3, <3>4
  <2>6. CASE InspectFresh
    <3>1. client = "seeded" /\ pending' = Archive /\ pc' = "write" /\ ~Found(csv)
      BY <2>6 DEF InspectFresh
    <3>2. Stored(csv) = {}
      BY <1>1, <3>1, TailType DEF StoredSlots
    <3>3. \A s \in Archive : Final(s)
      <4> SUFFICES ASSUME NEW s \in Archive PROVE Final(s)
        OBVIOUS
      <4>1. Closes(ArchiveEnd) <= now /\ Margin = 0
        BY <1>1, <3>1 DEF Remembered, Margin
      <4>2. Closes(s) \in Int /\ Closes(ArchiveEnd) \in Int /\ Closes(s) <= Closes(ArchiveEnd)
        BY <1>2, OpensLater DEF Archive
      <4> QED
        BY <1>2, <4>1, <4>2, ClockAssumption DEF Final
    <3>4. AllClosed' /\ Above'
      BY <1>3, <2>1, <2>2, <2>7, <2>8, <3>1, <3>2, <3>3 DEF AllClosed, Above, StoredSlots, world
    <3>5. Remembered'
      BY <1>1, <2>1, <2>2, <3>1 DEF Remembered, world
    <3>6. UnderTrade'
      BY <2>2, <3>1 DEF UnderTrade, world
    <3> QED
      BY <3>4, <3>5, <3>6
  <2> QED
    BY <1>8, <2>5, <2>6
<1>9. CASE FetchEnd \/ Retry
  <2>1. Stored(csv') = Stored(csv)
    BY <1>9, QuietFile DEF Quiet
  <2>2. /\ pc = "fetch" /\ pc' \in {"idle", "inspect"}
        /\ UNCHANGED <<client, now, end, held, pending>>
    BY <1>9 DEF FetchEnd, Retry, world, memory
  <2>3. pending = {} /\ end <= now + Ahead - Margin
    BY <1>1, <2>2 DEF Above, AllClosed
  <2> QED
    BY <1>5, <2>1, <2>2, <2>3
<1>10. CASE Interrupted \/ TornWrite
  <2>1. Stored(csv') = Stored(csv)
    BY <1>10, QuietFile DEF Quiet
  <2> QED
    BY <1>1, <1>5, <1>10, <2>1 DEF Interrupted, TornWrite, AllClosed
<1>11. CASE WriteHeader
  <2>1. /\ Stored(csv') = Stored(csv)
        /\ pc' \in {"fetch", "write"} /\ csv'.open => Len(csv'.lines) = 1
    BY <1>11, QuietFile DEF Quiet
  <2>2. pc = "write" /\ UNCHANGED <<client, now, end, from, tail, held, pending, pc>>
    BY <1>11 DEF WriteHeader, world, memory
  <2>3. AllClosed' /\ Above'
    BY <1>1, <2>1, <2>2 DEF AllClosed, Above, StoredSlots, Final, Margin
  <2>4. Remembered' /\ UnderTrade'
    BY <1>1, <2>1, <2>2 DEF Remembered, UnderTrade, StoredSlots
  <2> QED
    BY <2>3, <2>4
<1>12. CASE WriteRow
  <2>1. PICK s \in pending :
          /\ IsFirst(s, pending) /\ pending' = pending \ {s}
          /\ Stored(csv) \subseteq Stored(csv')
          /\ Stored(csv') \subseteq Stored(csv) \cup {s}
    BY <1>12, RowFile
  <2>2. /\ pc = "write" /\ UNCHANGED <<client, now, end, from, tail, held>>
        /\ pc' = IF pending' # {} THEN "write"
                 ELSE IF client = "seeded" /\ from <= Horizon THEN "reinspect"
                 ELSE "fetch"
    BY <1>12 DEF WriteRow, world
  <2>3. ~csv'.open
    BY <1>12, RowFile
  <2>4. Stored(csv') \cup pending' \subseteq Stored(csv) \cup pending
    BY <2>1
  <2>5. AllClosed'
    <3>1. Margin' = Margin /\ \A t : Final(t)' <=> Final(t)
      BY <2>2 DEF Final, Margin
    <3> QED
      BY <1>1, <1>3, <1>4, <2>2, <2>4, <3>1 DEF AllClosed, StoredSlots
  <2>6. Above'
    <3>1. \A p \in pending' : s < p
      BY <1>2, <1>4, <2>1 DEF IsFirst
    <3>2. \A t \in Stored(csv), p \in pending' : t < p
      BY <1>1, <2>1, <2>2 DEF Above, StoredSlots
    <3>3. \A t \in Stored(csv'), p \in pending' : t < p
      BY <2>1, <3>1, <3>2
    <3> QED
      BY <2>2, <2>3, <3>3 DEF Above, StoredSlots
  <2>7. Remembered'
    BY <1>1, <2>2, <2>4 DEF Remembered, StoredSlots
  <2>8. UnderTrade'
    BY <1>1, <2>2, <2>4 DEF UnderTrade, StoredSlots
  <2> QED
    BY <2>5, <2>6, <2>7, <2>8
<1> QED
  BY <1>6, <1>7, <1>8, <1>9, <1>10, <1>11, <1>12 DEF Next

LEMMA InvInit ==
    ASSUME Init
    PROVE  Inv
<1>1. csv = NoFile /\ csv.lines = <<>> /\ csv.open = FALSE /\ csv \in File
  BY DEF Init, NoFile, File
<1>2. Shape(csv)
  BY <1>1 DEF Shape
<1>3. Stored(csv) = {}
  BY <1>1 DEF Stored, Records
<1>4. TypeOK
  BY <1>1, ConstantTypes, AttemptsAssumption, FaultsAssumption DEF Init, TypeOK
<1>5. end <= now + Ahead - Margin
  <2>1. now \in Nat /\ Ahead \in Nat /\ Margin \in {0, 1} /\ end = -1
    BY <1>4, ConstantTypes, ClockAssumption DEF Init, Margin, TypeOK
  <2> QED
    BY <2>1
<1>6. AllClosed /\ Above /\ Remembered /\ UnderTrade
  BY <1>3, <1>5 DEF Init, AllClosed, Above, Remembered, UnderTrade, StoredSlots
<1> QED
  BY <1>2, <1>4, <1>6 DEF Inv

LEMMA InvStep ==
    ASSUME Inv, [Next]_vars
    PROVE  Inv'
<1>1. CASE Next
  <2>1. TypeOK'
    BY <1>1, TypeStep
  <2>2. Shape(csv')
    BY <1>1, QuietFile, RowFile DEF Next, Quiet
  <2>3. AllClosed' /\ Above' /\ Remembered' /\ UnderTrade'
    BY <1>1, FetchStep, OtherStep
  <2> QED
    BY <2>1, <2>2, <2>3 DEF Inv
<1>2. CASE UNCHANGED vars
  BY <1>2 DEF vars, world, memory, Inv, TypeOK, AllClosed, Above, Remembered,
              UnderTrade, StoredSlots, Final, Margin
<1> QED
  BY <1>1, <1>2

\* The invariant of a file that is appended to holds in every state.
THEOREM SpecInv == Spec => []Inv
<1>1. Init => Inv
  BY InvInit
<1>2. Inv /\ [Next]_vars => Inv'
  BY InvStep
<1> QED
  BY <1>1, <1>2, PTL DEF Spec

-----------------------------------------------------------------------------
\* Below the tail of a contiguous file nothing that was promised is missing.
LEMMA BelowTail ==
    ASSUME TypeOK, Shape(csv), Contiguous, NEW s \in Candles, Promised(s),
           s <= TailSlot(csv, NoTail)
    PROVE  s \in StoredSlots
<1>1. Floor <= s /\ s \in Int /\ Floor \in Int /\ NoTail \in Int /\ NoTail < Floor
  BY ConstantTypes DEF Promised
<1>2. CASE Found(csv)
  <2>1. /\ TailSlot(csv, NoTail) \in StoredSlots
        /\ TailSlot(csv, NoTail) \in Int
    BY <1>2, TailType
  <2>2. CASE s = TailSlot(csv, NoTail)
    BY <2>1, <2>2
  <2>3. CASE s < TailSlot(csv, NoTail)
    BY <2>1, <2>3 DEF Contiguous
  <2> QED
    BY <1>1, <2>1, <2>2, <2>3
<1>3. CASE ~Found(csv)
  <2>1. TailSlot(csv, NoTail) = NoTail
    BY <1>3, TailType
  <2> QED
    BY <1>1, <2>1
<1> QED
  BY <1>2, <1>3

\* A fetch leaves no hole: below the next request everything promised is
\* stored, in the page, or held.
LEMMA FetchCovers ==
    ASSUME Inv, HInv, Headed(csv), pc = "fetch", Page # {},
           NEW p \in Page, NEW s \in Candles, s <= p, Promised(s),
           client = "binance" => Closes(s) <= end
    PROVE  \/ s \in StoredSlots
           \/ s \in held /\ client = "delisted"
           \/ s \in Page /\ from <= s
<1>1. TypeOK /\ Contiguous /\ Covered /\ NothingHeld /\ pending = {}
  BY DEF Inv, HInv, Above
<1>2. /\ s \in Int /\ p \in Int /\ from \in Int /\ Horizon \in Int
      /\ p \in Candles /\ Candles \subseteq Slots /\ from <= p
  BY <1>1, PageIs, ConstantTypes DEF TypeOK
<1>3. CASE s < from
  <2>1. ~(Horizon < from)
    BY <1>2
  <2>2. s \in StoredSlots \cup pending \cup held
    BY <1>1, <1>3, <2>1 DEF Covered
  <2>3. client # "delisted" => held = {}
    BY <1>1 DEF NothingHeld
  <2> QED
    BY <1>1, <2>2, <2>3
<1>4. CASE from <= s /\ s < p
  BY <1>1, <1>4, PageSegment DEF Promised
<1>5. CASE s = p
  BY <1>2, <1>5
<1> QED
  BY <1>2, <1>3, <1>4, <1>5

\* The second part of the invariant: the steps that fetch.
LEMMA FetchContiguous ==
    ASSUME Inv, HInv, Fetch
    PROVE  HInv'
<1>1. /\ TypeOK /\ Shape(csv) /\ Remembered /\ NothingHeld /\ pending = {}
      /\ pc = "fetch" /\ pc' \in {"fetch", "write"}
      /\ UNCHANGED <<client, now, end>>
  BY DEF Inv, HInv, Above, Fetch, FetchBinance, FetchPaged, FetchHeld,
         FetchDelisted, FetchSeeded, Queue, world
<1>2. Stored(csv') = Stored(csv) /\ (Headed(csv') => Headed(csv))
  BY QuietFile DEF Quiet
<1>3. NothingHeld'
  <2>1. client # "delisted" => held' = held
    BY DEF Fetch, FetchBinance, FetchPaged, FetchHeld, FetchDelisted, FetchSeeded
  <2> QED
    BY <1>1, <2>1 DEF NothingHeld
<1>4. /\ Candles \subseteq Int /\ from \in Int /\ tail \in Int /\ end \in Int
      /\ TailSlot(csv, NoTail) \in Int /\ Page \subseteq Candles
      /\ \A s \in Page : from <= s
  BY <1>1, ConstantTypes, PageIs, TailType DEF TypeOK
<1>5. ASSUME Headed(csv')
      PROVE  Contiguous' /\ PendingContiguous' /\ Covered'
  <2>1. Headed(csv) /\ Contiguous /\ Page # {}
    BY <1>2, <1>5 DEF HInv, Fetch, FetchBinance, FetchPaged, FetchHeld,
                      FetchDelisted, FetchSeeded, Continue
  <2>2. Contiguous'
    BY <1>1, <1>2, <2>1 DEF Contiguous, Promised, StoredSlots
  <2>3. \A s \in Candles : Promised(s)' <=> Promised(s)
    BY <1>1 DEF Promised
\* It is enough to look at what was promised below a candle of the page.
  <2>4. ASSUME \A p \in pending' : p \in Candles /\
                 \A s \in Candles :
                   s < p /\ Promised(s) => s \in Stored(csv) \cup pending'
        PROVE  PendingContiguous'
    BY <1>2, <2>3, <2>4 DEF PendingContiguous, StoredSlots
  <2>5. ASSUME NEW last \in Page, from' = last + 1,
               \A s \in Candles :
                 s <= last /\ Promised(s) /\ (client = "binance" => Closes(s) <= end)
                   => s \in Stored(csv) \cup pending' \cup held'
        PROVE  Covered'
    <3> SUFFICES ASSUME NEW s \in Candles, Promised(s)', s < from',
                        client' = "binance" => Closes(s) <= end'
                 PROVE  s \in (StoredSlots \cup pending \cup held)'
      BY DEF Covered
    <3>1. s <= last
      BY <1>4, <2>5
    <3> QED
      BY <1>1, <1>2, <2>3, <2>5, <3>1 DEF StoredSlots
  <2>6. CASE FetchBinance
    <3> DEFINE complete == NotYetStored({s \in Page : Closes(s) <= end}, tail)
    <3>1. /\ client = "binance" /\ pending' = complete /\ held' = held
          /\ tail < from
      BY <1>1, <2>6 DEF FetchBinance, Queue, Remembered
    <3>2. PICK last \in Page : IsLast(last, Page) /\ from' = last + 1
      BY <2>6 DEF FetchBinance, Continue
    <3>3. ASSUME NEW q \in Page, NEW s \in Candles, s <= q, Promised(s), Closes(s) <= end
          PROVE  s \in Stored(csv) \cup complete
      <4>1. s \in StoredSlots \/ (s \in Page /\ from <= s)
        BY <1>1, <2>1, <3>1, <3>3, FetchCovers
      <4>2. s \in Int /\ (from <= s => tail < s)
        BY <1>4, <3>1
      <4> QED
        BY <3>3, <4>1, <4>2 DEF NotYetStored, StoredSlots
    <3>4. \A q \in complete : q \in Page /\ q \in Candles /\ Closes(q) <= end
      BY <1>4 DEF NotYetStored
    <3> HIDE DEF complete
    <3>5. PendingContiguous'
      <4>1. ASSUME NEW q \in complete, NEW s \in Candles, s < q, Promised(s)
            PROVE  s \in Stored(csv) \cup complete
        <5>1. /\ q \in Page /\ q \in Int /\ s \in Int /\ end \in Int
              /\ s < q /\ Closes(q) <= end
          BY <1>4, <3>4, <4>1
        <5>2. s <= q /\ Closes(s) <= end
          <6>1. s <= q /\ Closes(s) \in Int /\ Closes(q) \in Int /\ Closes(s) <= Closes(q)
            BY <5>1, OpensLater
          <6> QED
            BY <5>1, <6>1
        <5> QED
          BY <3>3, <4>1, <5>1, <5>2
      <4> QED
        BY <2>4, <3>1, <3>4, <4>1
    <3>6. Covered'
      BY <2>5, <3>1, <3>2, <3>3
    <3> QED
      BY <2>2, <3>5, <3>6
  <2>7. CASE FetchPaged
    <3>1. /\ client = "paged" /\ pending' = NotYetStored(Page, tail') /\ held' = held
          /\ tail' = TailSlot(csv, NoTail)
      BY <2>7 DEF FetchPaged, Queue
    <3>2. PICK last \in Page : IsLast(last, Page) /\ from' = last + 1
      BY <2>7 DEF FetchPaged, Continue
    <3>3. ASSUME NEW q \in Page, NEW s \in Candles, s <= q, Promised(s)
          PROVE  s \in Stored(csv) \cup pending'
      <4>1. s \in StoredSlots \/ s \in Page
        BY <1>1, <2>1, <3>1, <3>3, FetchCovers
      <4>2. s <= tail' => s \in StoredSlots
        BY <1>1, <2>1, <3>1, <3>3, BelowTail
      <4>3. s <= tail' \/ tail' < s
        BY <1>4, <3>1
      <4> QED
        BY <3>1, <4>1, <4>2, <4>3 DEF NotYetStored, StoredSlots
    <3>4. \A q \in pending' : q \in Page /\ q \in Candles /\ q \in Int
      BY <1>4, <3>1 DEF NotYetStored
    <3>5. PendingContiguous'
      <4>1. ASSUME NEW q \in pending', NEW s \in Candles, s < q, Promised(s)
            PROVE  s \in Stored(csv) \cup pending'
        <5>1. q \in Page /\ s <= q
          BY <1>4, <3>4, <4>1
        <5> QED
          BY <3>3, <4>1, <5>1
      <4> QED
        BY <2>4, <3>4, <4>1
    <3>6. Covered'
      BY <2>5, <3>2, <3>3
    <3> QED
      BY <2>2, <3>5, <3>6
  <2>8. CASE FetchHeld
    <3>1. client = "delisted" /\ held' = held \cup Page /\ pending' = {} /\ pc' = "fetch"
      BY <1>1, <2>8 DEF FetchHeld
    <3>2. PICK last \in Page : IsLast(last, Page) /\ from' = last + 1
      BY <2>8 DEF FetchHeld, Continue
    <3>3. PendingContiguous'
      BY <3>1 DEF PendingContiguous
    <3>4. ASSUME NEW s \in Candles, s <= last, Promised(s)
          PROVE  s \in Stored(csv) \cup pending' \cup held'
      <4>1. s \in StoredSlots \/ s \in held \/ s \in Page
        BY <1>1, <2>1, <3>1, <3>2, <3>4, FetchCovers
      <4> QED
        BY <3>1, <4>1 DEF StoredSlots
    <3>5. Covered'
      BY <2>5, <3>2, <3>4
    <3> QED
      BY <2>2, <3>3, <3>5
  <2>9. CASE FetchDelisted
    <3> DEFINE bars == held \cup Page
    <3>1. /\ client = "delisted" /\ held' = bars \ Released(bars)
          /\ pending' = NotYetStored(Released(bars), tail')
          /\ tail' = TailSlot(csv, NoTail)
      BY <2>9 DEF FetchDelisted, Queue
    <3>2. PICK last \in Page : IsLast(last, Page) /\ from' = last + 1
      BY <2>9 DEF FetchDelisted, Continue
    <3>3. ASSUME NEW q \in Page, NEW s \in Candles, s <= q, Promised(s)
          PROVE  s \in Stored(csv) \cup bars
      <4>1. s \in StoredSlots \/ s \in held \/ s \in Page
        BY <1>1, <2>1, <3>1, <3>3, FetchCovers
      <4> QED
        BY <4>1 DEF StoredSlots
    <3>4. ASSUME NEW s \in Candles, Promised(s), s \in Released(bars)
          PROVE  s \in Stored(csv) \cup pending'
      <4>1. s <= tail' => s \in StoredSlots
        BY <1>1, <2>1, <3>1, <3>4, BelowTail
      <4>2. s <= tail' \/ tail' < s
        BY <1>4, <3>1
      <4> QED
        BY <3>1, <3>4, <4>1, <4>2 DEF NotYetStored, StoredSlots
    <3>5. bars \subseteq Candles
      BY <1>1, <1>4 DEF TypeOK
    <3>6. \A q \in pending' : q \in Candles /\ q \in Int
                              /\ \E t \in Page \cap Busy : q <= t
      BY <1>4, <3>1, <3>5 DEF NotYetStored, Released
    <3>7. PendingContiguous'
      <4>1. ASSUME NEW q \in pending', NEW s \in Candles, s < q, Promised(s)
            PROVE  s \in Stored(csv) \cup pending'
        <5>1. PICK t \in Page \cap Busy : q <= t
          BY <3>6
        <5>2. s <= t
          BY <1>4, <3>6, <4>1, <5>1
        <5>3. s \in Stored(csv) \/ s \in bars
          BY <3>3, <4>1, <5>1, <5>2
        <5>4. s \in bars => s \in Released(bars)
          BY <5>1, <5>2 DEF Released
        <5> QED
          BY <3>4, <4>1, <5>3, <5>4
      <4> QED
        BY <2>4, <3>6, <4>1
    <3>8. ASSUME NEW s \in Candles, s <= last, Promised(s)
          PROVE  s \in Stored(csv) \cup pending' \cup held'
      <4>1. s \in Stored(csv) \/ s \in bars
        BY <3>2, <3>3, <3>8
      <4> QED
        BY <3>1, <3>4, <3>8, <4>1
    <3> HIDE DEF bars
    <3>9. Covered'
      BY <2>5, <3>2, <3>8
    <3> QED
      BY <2>2, <3>7, <3>9
  <2>10. CASE FetchSeeded
    <3>1. client = "seeded" /\ from' = Horizon + 1 /\ pending' = NotYetStored(Page, tail)
      BY <2>10 DEF FetchSeeded, Queue
    <3>2. ~(Horizon + 1 <= Horizon) /\ Horizon < Horizon + 1
      BY ConstantTypes
    <3>3. Covered'
      BY <1>1, <3>1, <3>2 DEF Covered
    <3>4. from <= Horizon
      <4>1. PICK s \in Page : from <= s
        BY <1>4, <2>1
      <4> QED
        BY <1>4, <4>1, ConstantTypes
    <3>5. from = tail + 1
      BY <1>1, <3>1, <3>4 DEF Remembered
    <3>6. ASSUME NEW q \in pending', NEW s \in Candles, s < q, Promised(s)
          PROVE  s \in Stored(csv) \cup pending'
      <4>1. q \in Page /\ s <= q
        BY <1>4, <3>1, <3>6 DEF NotYetStored
      <4>2. s \in StoredSlots \/ (s \in Page /\ from <= s)
        BY <1>1, <2>1, <3>1, <3>6, <4>1, FetchCovers
      <4>3. from <= s => tail < s
        BY <1>4, <3>5
      <4> QED
        BY <3>1, <4>2, <4>3 DEF NotYetStored, StoredSlots
    <3>7. \A q \in pending' : q \in Candles
      BY <1>4, <3>1 DEF NotYetStored
    <3>8. PendingContiguous'
      BY <2>4, <3>6, <3>7
    <3> QED
      BY <2>2, <3>3, <3>8
  <2> QED
    BY <2>6, <2>7, <2>8, <2>9, <2>10 DEF Fetch
<1> QED
  BY <1>3, <1>5 DEF HInv

\* The second part of the invariant: the other steps.
LEMMA OtherContiguous ==
    ASSUME Inv, HInv, Next, ~Fetch
    PROVE  HInv'
<1>1. TypeOK /\ Shape(csv) /\ Above /\ NothingHeld
  BY DEF Inv, HInv
<1>2. Candles \subseteq Int /\ Floor \in Int
  BY ConstantTypes
<1>3. ASSUME UNCHANGED client, pc' \in {"idle", "inspect"},
             Stored(csv') = Stored(csv), Headed(csv') => Headed(csv)
      PROVE  HInv'
  <2>1. NothingHeld'
    BY <1>3 DEF NothingHeld
  <2>2. PendingContiguous' /\ Covered'
    BY <1>3 DEF PendingContiguous, Covered
  <2>3. Headed(csv') => Contiguous'
    BY <1>3 DEF HInv, Contiguous, Promised, StoredSlots
  <2> QED
    BY <2>1, <2>2, <2>3 DEF HInv
<1>4. CASE Tick \/ WriteHeader
  <2>1. /\ UNCHANGED <<client, pc, end, from, held, pending>>
        /\ Stored(csv') = Stored(csv) /\ (Headed(csv') => Headed(csv))
    BY <1>4, QuietFile DEF Quiet, Tick, WriteHeader, world, memory
  <2>2. NothingHeld'
    BY <1>1, <2>1 DEF NothingHeld
  <2>3. Headed(csv') => Contiguous'
    BY <2>1 DEF HInv, Contiguous, Promised, StoredSlots
  <2>4. Headed(csv') => PendingContiguous'
    BY <2>1 DEF HInv, PendingContiguous, Promised, StoredSlots
  <2>5. Headed(csv') => Covered'
    BY <2>1 DEF HInv, Covered, Promised, StoredSlots
  <2> QED
    BY <2>2, <2>3, <2>4, <2>5 DEF HInv
<1>5. CASE InspectTail \/ InspectFresh
  <2>1. Stored(csv') = Stored(csv) /\ (Headed(csv') => Headed(csv))
    BY <1>5, QuietFile DEF Quiet
  <2>2. /\ client' = client /\ held' = {}
        /\ tail' = TailSlot(csv, NoTail)
        /\ from' = IF client = "paged" /\ Found(csv) THEN tail' ELSE tail' + 1
    BY <1>5 DEF InspectTail, InspectFresh, Inspect, world
  <2>3. NothingHeld'
    BY <2>2 DEF NothingHeld
  <2>4. Headed(csv') => Contiguous'
    BY <2>1, <2>2 DEF HInv, Contiguous, Promised, StoredSlots
  <2>5. Headed(csv') => PendingContiguous'
    <3>1. CASE InspectTail
      BY <3>1 DEF InspectTail, PendingContiguous
    <3>2. CASE InspectFresh
      <4>1. /\ client' = "seeded" /\ ArchiveEnd \in Int
            /\ \A p \in pending' : p \in Int /\ p <= ArchiveEnd
        BY <1>2, <3>2, ConstantTypes DEF InspectFresh, Archive, world
      <4>2. ASSUME NEW s \in Candles, Promised(s)', NEW p \in pending', s < p
            PROVE  FALSE
        <5>1. s \in Int /\ ArchiveEnd < s
          BY <1>2, <4>1, <4>2 DEF Promised
        <5> QED
          BY <4>1, <4>2, <5>1
      <4> QED
        BY <4>2 DEF PendingContiguous
    <3> QED
      BY <1>5, <3>1, <3>2
  <2>6. Headed(csv') => Covered'
    <3>1. CASE InspectTail
      <4> SUFFICES ASSUME Headed(csv'), NEW s \in Candles, Promised(s)', s < from'
                   PROVE  s \in StoredSlots'
        BY DEF Covered
      <4>1. Contiguous /\ Promised(s)
        BY <2>1, <2>2 DEF HInv, Promised
      <4>2. TailSlot(csv, NoTail) \in Int /\ s \in Int
        BY <1>1, <1>2, TailType
      <4>3. s <= TailSlot(csv, NoTail)
        BY <2>2, <4>2
      <4>4. s \in StoredSlots
        BY <1>1, <4>1, <4>3, BelowTail
      <4> QED
        BY <2>1, <4>4 DEF StoredSlots
    <3>2. CASE InspectFresh
      BY <2>2, <3>2 DEF InspectFresh, Covered
    <3> QED
      BY <1>5, <3>1, <3>2
  <2> QED
    BY <2>3, <2>4, <2>5, <2>6 DEF HInv
<1>6. CASE StartRun \/ FetchEnd \/ Retry \/ Interrupted \/ TornWrite
  <2>1. Stored(csv') = Stored(csv) /\ (Headed(csv') => Headed(csv))
    BY <1>6, QuietFile DEF Quiet
  <2>2. client' = client /\ pc' \in {"idle", "inspect"}
    BY <1>6 DEF StartRun, FetchEnd, Retry, Interrupted, TornWrite, world
  <2> QED
    BY <1>3, <2>1, <2>2
<1>7. CASE WriteRow
  <2>1. PICK r \in pending :
          /\ IsFirst(r, pending) /\ pending' = pending \ {r}
          /\ Headed(csv') => Headed(csv) /\ Stored(csv') = Stored(csv) \cup {r}
    BY <1>7, RowFile
  <2>2. /\ pc = "write" /\ UNCHANGED <<client, end, from, held>>
        /\ pc' = IF pending' # {} THEN "write"
                 ELSE IF client = "seeded" /\ from <= Horizon THEN "reinspect"
                 ELSE "fetch"
    BY <1>7 DEF WriteRow, world
  <2>3. NothingHeld'
    BY <1>1, <2>2 DEF NothingHeld
  <2>4. ASSUME Headed(csv') PROVE Contiguous' /\ PendingContiguous' /\ Covered'
    <3>1. Contiguous /\ PendingContiguous /\ Covered
      BY <2>1, <2>4 DEF HInv
    <3>2. Stored(csv') = Stored(csv) \cup {r}
      BY <2>1, <2>4
    <3>3. \A s \in Candles : Promised(s)' <=> Promised(s)
      BY <2>2 DEF Promised
    <3>4. Contiguous'
      <4> SUFFICES ASSUME NEW s \in Candles, Promised(s), NEW t \in Stored(csv'), s < t
                   PROVE  s \in Stored(csv')
        BY <3>3 DEF Contiguous, StoredSlots
      <4>1. CASE t \in Stored(csv)
        BY <3>1, <3>2, <4>1 DEF Contiguous, StoredSlots
      <4>2. CASE t = r
        <5>1. s \in Stored(csv) \cup pending
          BY <2>2, <3>1, <4>2 DEF PendingContiguous, StoredSlots
        <5>2. s \notin pending
          <6>1. \A p \in pending : r <= p
            BY <2>1 DEF IsFirst
          <6>2. r \in Int /\ s \in Int
            BY <1>1, <1>2 DEF TypeOK
          <6>3. ~(r <= s)
            BY <4>2, <6>2
          <6> QED
            BY <6>1, <6>3
        <5> QED
          BY <3>2, <5>1, <5>2
      <4> QED
        BY <3>2, <4>1, <4>2
    <3>5. Stored(csv') \cup pending' = Stored(csv) \cup pending
      BY <2>1, <3>2
    <3>6. PendingContiguous'
      BY <2>1, <2>2, <3>1, <3>3, <3>5 DEF PendingContiguous, StoredSlots
    <3>7. Covered'
      <4>1. CASE client = "seeded"
        <5>1. from <= Horizon \/ Horizon < from
          BY <1>1, ConstantTypes DEF TypeOK
        <5> QED
          BY <2>2, <4>1, <5>1 DEF Covered
      <4>2. CASE client # "seeded"
        <5>1. \A s \in Candles :
                Promised(s) /\ s < from /\ (client = "binance" => Closes(s) <= end)
                  => s \in Stored(csv) \cup pending \cup held
          BY <2>2, <3>1, <4>2 DEF Covered, StoredSlots
        <5> QED
          BY <2>2, <3>3, <3>5, <5>1 DEF Covered, StoredSlots
      <4> QED
        BY <4>1, <4>2
    <3> QED
      BY <3>4, <3>6, <3>7
  <2> QED
    BY <2>3, <2>4 DEF HInv
<1> QED
  BY <1>4, <1>5, <1>6, <1>7 DEF Next

\* So does the invariant of what its history variables say.
THEOREM SpecHInv == Spec => []HInv
<1>1. Init => HInv
  <2> SUFFICES ASSUME Init PROVE HInv
    OBVIOUS
  <2>1. Stored(csv) = {} /\ pc = "idle"
    BY DEF Init, NoFile, Stored, Records
  <2> QED
    BY <2>1 DEF HInv, NothingHeld, Contiguous, PendingContiguous, Covered, StoredSlots
<1>2. Inv /\ HInv /\ [Next]_vars => HInv'
  <2> SUFFICES ASSUME Inv, HInv, [Next]_vars PROVE HInv'
    OBVIOUS
  <2>1. CASE Next
    BY <2>1, FetchContiguous, OtherContiguous
  <2>2. CASE UNCHANGED vars
    BY <2>2 DEF vars, world, memory, HInv, NothingHeld, Contiguous,
                PendingContiguous, Covered, Promised, StoredSlots
  <2> QED
    BY <2>1, <2>2
<1> QED
  BY <1>1, <1>2, SpecInv, PTL DEF Spec

-----------------------------------------------------------------------------
\* Every variable keeps its type.
THEOREM TypeCorrect == Spec => []TypeOK
<1>1. Inv => TypeOK
  BY DEF Inv
<1> QED
  BY <1>1, SpecInv, PTL

\* The rows are strictly ascending, whatever was torn, retried or asked twice
\* (shouldPersistTimestamp, lastValidRecord).
THEOREM RowsAscend == Spec => []Ascending
<1>1. Inv => Ascending
  <2> SUFFICES ASSUME Inv, NEW i \in Records(csv), NEW j \in Records(csv), i < j
               PROVE  csv.lines[i].slot < csv.lines[j].slot
    BY DEF Ascending
  <2>1. Shape(csv)
    BY DEF Inv
  <2>2. i \in 2 .. LastWhole(csv) /\ j \in 2 .. LastWhole(csv)
    BY <2>1, ShapeRecords
  <2>3. LastWhole(csv) <= Len(csv.lines) /\ LastWhole(csv) \in Int /\ Len(csv.lines) \in Int
    BY <2>1 DEF LastWhole, Shape, File
  <2>4. i \in 2 .. Len(csv.lines) /\ j \in 2 .. Len(csv.lines) /\ Terminated(csv, j)
    BY <2>2, <2>3 DEF Records
  <2> QED
    BY <2>1, <2>4 DEF Shape
<1> QED
  BY <1>1, SpecInv, PTL

\* However long the candles are, one is stored before it has closed by no more
\* than the local clock is ahead of the venue's, and for Binance by a minute
\* less (binance_spot_downloader.cpp:194).
THEOREM StoresClosed == Spec => []OnlyClosed
<1>1. Inv => OnlyClosed
  BY DEF Inv, AllClosed, Final, OnlyClosed
<1> QED
  BY <1>1, SpecInv, PTL

\* A delisted contract's file never gains a flat bar that no trade follows
\* (kraken_downloader.cpp, heldZero).
THEOREM FlatBarsHeld == Spec => []EndsAtTrade
<1>1. Inv => EndsAtTrade
  BY DEF Inv, UnderTrade, EndsAtTrade
<1> QED
  BY <1>1, SpecInv, PTL

\* Under a whole header no candle the venue served is missing below the last
\* stored one.
THEOREM NothingMissing == Spec => []NoHole
<1>1. HInv => NoHole
  BY DEF HInv, NoHole, Contiguous, Promised
<1> QED
  BY <1>1, SpecHInv, PTL

\* No step of a run, a crash or a repair costs a stored row.
THEOREM NoRowLost == Spec => RowsKept
<1>1. Inv /\ [Next]_vars => [StoredSlots \subseteq Stored(csv')]_vars
  <2> SUFFICES ASSUME Inv, Next PROVE StoredSlots \subseteq Stored(csv')
    OBVIOUS
  <2> QED
    BY QuietFile, RowFile DEF Next, Quiet, StoredSlots
<1> QED
  BY <1>1, SpecInv, PTL DEF Spec, RowsKept
=============================================================================
