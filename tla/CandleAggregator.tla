-------------------------- MODULE CandleAggregator --------------------------
(***************************************************************************)
(* What aggregateFile (src/src/candle_aggregator.cpp) makes of one source  *)
(* CSV: the rows it keeps, the buckets it may publish, and the test an old *)
(* target must pass before it is replaced.  The command line always        *)
(* rebuilds the target (main.cpp:346), so appending to it is not modelled. *)
(*                                                                         *)
(* A line of the source is                                                 *)
(*   whole       all fields, the venue's numbers,                          *)
(*   wrong       all fields, the last number cut short but still a number, *)
(*   odd         all fields, a number that --repair takes for one and this *)
(*               program does not: beyond a double, or hexadecimal,        *)
(*   nan         all fields, one of them not a number,                     *)
(*   torn        fields missing, the timestamp readable,                   *)
(*   misaligned  all fields, a timestamp that no bar has: between two of   *)
(*               them, or too far ahead,                                   *)
(*   blind       no usable timestamp.                                      *)
(* The last two have a slot below all others.                              *)
(* Time is counted in source bars; a bar of the target is the set of the   *)
(* rows it was folded from.                                                *)
(***************************************************************************)
EXTENDS NumberSets, SequencesExt

CONSTANT BucketBars        \* target minutes per source minutes

ASSUME BucketAssumption == BucketBars \in Nat \ {0, 1}

Wide == {"whole", "wrong", "odd", "nan"}
Numeric == {"whole", "wrong"}

\* bucketStartForTimestamp, in buckets.
BucketOf(slot) == slot \div BucketBars
BucketSlots(b) == b * BucketBars .. (b + 1) * BucketBars - 1
BucketEnd(b) == (b + 1) * BucketBars

\* sourceTimestampIsSafe: not more than a bucket ahead of the clock.
Safe(slot, now) == 0 <= slot /\ slot <= now + BucketBars

\* The first pass: the lines that compete for the ordering, and in which order.
Competing(lines, now) ==
    {i \in DOMAIN lines : lines[i].kind \in Wide /\ Safe(lines[i].slot, now)}

Candidates(lines, now) == InOrder(Competing(lines, now))

-----------------------------------------------------------------------------
(* selectLongestIncreasingTimestamps *)

\* Mutant: upper_bound, so that equal timestamps follow each other.
Position_UpperBound(times, tails, i) ==
    Cardinality({k \in DOMAIN tails : times[tails[k]] <= times[i]}) + 1

\* lower_bound among the last elements of the shortest-tailed subsequences.
Position(times, tails, i) ==
    Cardinality({k \in DOMAIN tails : times[tails[k]] < times[i]}) + 1

Extend(times, scan, i) ==
    LET pos == Position(times, scan.tails, i)
    IN  [tails  |-> IF pos > Len(scan.tails) THEN Append(scan.tails, i)
                                             ELSE [scan.tails EXCEPT ![pos] = i],
         before |-> Append(scan.before, IF pos = 1 THEN 0 ELSE scan.tails[pos - 1])]

\* tailIndices and predecessors after the first n timestamps; 0 is NONE.  The
\* one scan is the element of a set, which TLC evaluates once for each step.
Scans(times) ==
    LET scans[n \in 0 .. Len(times)] ==
            IF n = 0 THEN {[tails |-> <<>>, before |-> <<>>]}
                     ELSE {Extend(times, scan, n) : scan \in scans[n - 1]}
    IN  scans

Patience(times) == Scans(times)[Len(times)]

\* From each index of times back along its predecessors.
Chains(before) ==
    LET chain[i \in 0 .. Len(before)] ==
            IF i = 0 THEN {} ELSE {i} \cup chain[before[i]]
    IN  chain

\* The indices on the predecessor chain of the last tail.
Chain(scan) ==
    IF scan.tails = <<>> THEN {} ELSE Chains(scan.before)[Last(scan.tails)]

Keep(times) == UNION {Chain(scan) : scan \in Patience(times)}

\* Reference: the increasing subsequences that no other one exceeds in length.
Increasing(times, S) == \A i, j \in S : i < j => times[i] < times[j]
LongestIncreasing(times) ==
    LET all == {S \in SUBSET DOMAIN times : Increasing(times, S)}
    IN  {S \in all : \A T \in all : Cardinality(T) <= Cardinality(S)}

-----------------------------------------------------------------------------
(* The second pass, over the same lines: kept is a set of line numbers. *)

\* The buckets of the candidates that were not kept.
Rejected(lines, kept, now) ==
    {BucketOf(lines[i].slot) : i \in Competing(lines, now) \ kept}

\* locateExplicitRowTimestamp on lines with fields missing.
TornBuckets(lines, now) ==
    {BucketOf(lines[i].slot) :
        i \in {j \in DOMAIN lines : /\ lines[j].kind = "torn"
                                    /\ Safe(lines[j].slot, now)}}

\* Lines that neither compete nor say where they belong.
Stray(lines, now) ==
    {j \in DOMAIN lines : lines[j].kind = "blind" \/ ~ Safe(lines[j].slot, now)}

\* locateMalformedRow: such a line counts as the slot after the row kept last
\* before it.
LocatedBuckets(lines, kept, now) ==
    {BucketOf(lines[k].slot + 1) :
        k \in {k \in kept : /\ Safe(lines[k].slot + 1, now)
                            /\ \E j \in Stray(lines, now) :
                                  k < j /\ \A m \in kept : m <= k \/ j < m}}

\* unsafeBucketStarts, as marked while reading.
Marked(lines, kept, now) ==
    Rejected(lines, kept, now) \cup TornBuckets(lines, now)
        \cup LocatedBuckets(lines, kept, now)

\* observedKeptBucketStarts, and the rows each of them was fed.
Observed(lines, kept) == {BucketOf(lines[i].slot) : i \in kept}
RowsOf(lines, kept, b) == {lines[i] : i \in {k \in kept : BucketOf(lines[k].slot) = b}}

\* The buckets emit() is called for: the last one only when it had ended
\* before the source was last written.
Emitted(lines, kept, captured) ==
    {b \in Observed(lines, kept) :
        BucketEnd(b) <= captured \/ \E later \in Observed(lines, kept) : b < later}

Complete(rows, b) == {row.slot : row \in rows} = BucketSlots(b)
Valid(rows) == \A row \in rows : row.kind \in Numeric

\* outputBucketStarts: emit() writes a bar for these buckets.
Rendered(lines, kept, now, captured, partial) ==
    {b \in Emitted(lines, kept, captured) \ Marked(lines, kept, now) :
        LET rows == RowsOf(lines, kept, b)
        IN  Valid(rows) /\ (partial \/ Complete(rows, b))}

\* incompleteBucketStarts.
Incomplete(lines, kept, now, captured) ==
    Marked(lines, kept, now) \cup
        {b \in Emitted(lines, kept, captured) :
            ~ (Valid(RowsOf(lines, kept, b)) /\ Complete(RowsOf(lines, kept, b), b))}

\* The new content of the target.
Bars(lines, kept, now, captured, partial) ==
    [b \in Rendered(lines, kept, now, captured, partial) |-> RowsOf(lines, kept, b)]

\* Mutant: an old bar may go when its bucket is incomplete, seen or not.
MayReplace_Unseen(old, lines, kept, now, captured, partial) ==
    \A b \in DOMAIN old : \/ b \in Rendered(lines, kept, now, captured, partial)
                          \/ b \in Incomplete(lines, kept, now, captured)

\* The rewrite proof: every old bar is rendered again, or its bucket was seen
\* with a kept row and found incomplete.
MayReplace(old, lines, kept, now, captured, partial) ==
    \A b \in DOMAIN old :
        \/ b \in Rendered(lines, kept, now, captured, partial)
        \/ b \in Observed(lines, kept) \cap Incomplete(lines, kept, now, captured)

\* The target after a run that read these lines twice: the bars, unless no row
\* was valid, nothing may be published, or an old bar would be discarded.
Rebuilt(old, lines, kept, now, captured, partial) ==
    IF /\ \E i \in kept : lines[i].kind \in Numeric
       /\ Rendered(lines, kept, now, captured, partial) # {}
       /\ MayReplace(old, lines, kept, now, captured, partial)
    THEN Bars(lines, kept, now, captured, partial)
    ELSE old
=============================================================================
