--------------------------- MODULE MCCandleFiles ---------------------------
(* CandleFiles for TLC: the source files it starts from. *)
EXTENDS CandleFiles

CONSTANTS Longest, LastSlot

Odd(s) == [slot |-> s, kind |-> "odd"]

Damaged ==
    {Blind} \cup [slot : 0 .. LastSlot, kind : {"torn", "nan"}]

\* All files of whole rows up to a length, in any order and with repetitions,
\* those with their first line damaged, two with a row ahead of its time, three
\* with a line without a timestamp behind a row, and some with rows that a repair
\* keeps and the aggregator does not believe: in place, out of place, last,
\* and repeating a row.
Files ==
    LET whole == UNION {[1 .. n -> {WholeLine(s) : s \in 0 .. LastSlot}] :
                            n \in 0 .. Longest}
    IN  whole \cup {[f EXCEPT ![1] = d] : f \in whole \ {<<>>}, d \in Damaged}
              \cup {<<WholeLine(2), WholeLine(0), WholeLine(1)>>,
                    <<WholeLine(0), WholeLine(2), WholeLine(1)>>,
                    <<WholeLine(0), WholeLine(1), Blind>>,
                    <<WholeLine(0), Blind, WholeLine(1)>>,
                    <<WholeLine(1), Blind, WholeLine(2)>>,
                    <<WholeLine(0), Misaligned(0), WholeLine(1)>>,
                    <<WholeLine(0), WholeLine(1), Misaligned(0)>>,
                    <<WholeLine(0), WholeLine(1), Misaligned(1)>>,
                    <<Misaligned(2), WholeLine(0), WholeLine(1)>>,
                    <<WholeLine(0), Misaligned(9)>>,
                    <<WholeLine(0), Odd(1)>>,
                    <<Odd(0), WholeLine(0), WholeLine(1)>>,
                    <<WholeLine(0), WholeLine(1), Odd(0)>>}
=============================================================================
