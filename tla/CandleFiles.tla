---------------------------- MODULE CandleFiles ----------------------------
(***************************************************************************)
(* The files of one symbol between the commands that share them: an        *)
(* append-only download writes the source CSV, --repair rewrites it        *)
(* (src/src/csv_verifier.cpp), and -g folds it into a target CSV           *)
(* (src/src/candle_aggregator.cpp).                                        *)
(*                                                                         *)
(* The run lock is keyed by exchange and directory (run_lock.h:42).  A     *)
(* download and a repair must name the exchange and exclude each other.    *)
(* README.md:401 aggregates OKX data without -e, which takes the lock of   *)
(* the default exchange: an aggregation may run beside either of them.     *)
(* When it does name the exchange, fewer interleavings are left.           *)
(***************************************************************************)
EXTENDS CandleAggregator

CONSTANTS
    Horizon,         \* the clock stops here, in source bars
    FirstClock,
    OldFiles,        \* source files as earlier versions may have left them
    OldTargets,      \* buckets the target may hold at first
    MaxDownloads,    \* bound on the downloads
    MaxFaults        \* bound on the killed downloads

WholeLine(s) == [slot |-> s, kind |-> "whole"]
Blind == [slot |-> -1, kind |-> "blind"]

\* A row with a timestamp between those of slots s and s + 1.  One that is on the
\* minute but too far ahead to be believed fares like it.
Misaligned(s) == [slot |-> -1, kind |-> "misaligned", after |-> s]

Line == [slot : Int, kind : {"whole", "wrong", "odd", "nan", "torn"}]
          \cup {Blind} \cup [slot : {-1}, kind : {"misaligned"}, after : Nat]

\* No bar of an old file is ahead of the clock: a download writes closed
\* candles only.
ASSUME FilesAssumption ==
    /\ FirstClock \in Nat /\ Horizon \in Nat /\ FirstClock <= Horizon
    /\ \A lines \in OldFiles :
          /\ lines \in Seq(Line)
          /\ \A i \in DOMAIN lines : lines[i].slot <= FirstClock
    /\ OldTargets \subseteq Nat
    /\ MaxDownloads \in Nat /\ MaxFaults \in Nat

VARIABLES
    now,             \* the candle of slot s has closed when s < now
    source,          \* the lines of the source, the last one perhaps cut short
    stamp,           \* its modification: a version, and the clock at the time
    target,          \* the target: a bar for some buckets
    locked,          \* a download holds the run lock
    toWrite,         \* what a download still has to append
    agg,             \* the aggregation under way
    partial,         \* --allow_partial_aggregation
    downloads, faults

vars == <<now, source, stamp, target, locked, toWrite, agg,
          partial, downloads, faults>>

Idle == [pc |-> "idle"]

\* source and stamp after a write.
Touch(new) ==
    /\ source' = new
    /\ stamp' = [version |-> stamp.version + 1, at |-> now]

Init ==
    /\ now = FirstClock
    /\ source \in [lines : OldFiles, open : {FALSE}]
    /\ stamp = [version |-> 0, at |-> FirstClock]
    /\ \E old \in SUBSET OldTargets :
          target = [b \in old |-> {WholeLine(s) : s \in BucketSlots(b)}]
    /\ locked = FALSE
    /\ toWrite = <<>>
    /\ agg = Idle
    /\ partial \in BOOLEAN
    /\ downloads = 0 /\ faults = 0

Tick ==
    /\ now < Horizon
    /\ now' = now + 1
    /\ UNCHANGED <<source, stamp, target, locked, toWrite, agg,
                   partial, downloads, faults>>

-----------------------------------------------------------------------------
(* The download, reduced to what it does to the source *)

\* CsvData::lastValidRecord: the last line that ends in a newline and has all
\* fields and a timestamp, any timestamp; the numbers are not looked at.
TailLine ==
    LET valid == {i \in DOMAIN source.lines :
                    /\ source.lines[i].kind \in Wide \cup {"misaligned"}
                    /\ i < Len(source.lines) \/ ~source.open}
    IN  IF valid = {} THEN 0 ELSE Max(valid)

\* The first slot after a row.
SlotAfter(line) == IF line.kind = "misaligned" THEN line.after + 1 ELSE line.slot + 1

\* The tail repair, and the rows the venue then has for the file.
Resume ==
    /\ ~locked /\ downloads < MaxDownloads
    /\ downloads' = downloads + 1
    /\ locked' = TRUE
    /\ LET next == IF TailLine = 0 THEN 0 ELSE SlotAfter(source.lines[TailLine])
       IN  toWrite' = [k \in 1 .. IF next < now THEN now - next ELSE 0 |->
                          WholeLine(next + k - 1)]
    /\ IF TailLine < Len(source.lines)
       THEN Touch([lines |-> SubSeq(source.lines, 1, TailLine), open |-> FALSE])
       ELSE UNCHANGED <<source, stamp>>
    /\ UNCHANGED <<now, target, agg, partial, faults>>

\* The forms a row may have when the file ends inside it.
CutShort(row) ==
    {Blind} \cup [slot : {row.slot}, kind : {"torn", "nan", "wrong", "whole"}]

\* A buffer is flushed that ends inside a row.
Flush ==
    /\ locked /\ ~source.open
    /\ \E n \in DOMAIN toWrite : \E cut \in CutShort(toWrite[n]) :
          /\ Touch([lines |-> source.lines \o SubSeq(toWrite, 1, n - 1) \o <<cut>>,
                    open |-> TRUE])
          /\ toWrite' = SubSeq(toWrite, n, Len(toWrite))
    /\ UNCHANGED <<now, target, locked, agg, partial, downloads, faults>>

\* The rest is written and the command ends.
Finish ==
    /\ locked
    /\ locked' = FALSE /\ toWrite' = <<>>
    /\ IF toWrite = <<>>
       THEN UNCHANGED <<source, stamp>>
       ELSE Touch([lines |-> (IF source.open THEN Front(source.lines) ELSE source.lines)
                                \o toWrite,
                   open |-> FALSE])
    /\ UNCHANGED <<now, target, agg, partial, downloads, faults>>

-----------------------------------------------------------------------------
(* verifyFile with --repair *)

\* The rows that parse here: all fields, any timestamp, and numbers that may be
\* more than the aggregator takes.
Parsed == Numeric \cup {"odd", "misaligned"}

\* The time of a row, in half slots: a misaligned one lies between two bars.
Time(line) == IF line.kind = "misaligned" THEN 2 * line.after + 1 ELSE 2 * line.slot

\* The lines that parse, without those that repeat an earlier time.
Firsts(lines) ==
    {i \in DOMAIN lines :
        /\ lines[i].kind \in Parsed
        /\ \A j \in 1 .. i - 1 :
              lines[j].kind \in Parsed => Time(lines[j]) # Time(lines[i])}

\* What a repair writes: those lines, sorted.  getline takes a last line
\* without its newline like any other.
Canonical(lines) ==
    LET sorted == InOrder({Time(lines[i]) : i \in Firsts(lines)})
    IN  [k \in DOMAIN sorted |->
            lines[CHOOSE i \in Firsts(lines) : Time(lines[i]) = sorted[k]]]

\* Mutant: a file that is only out of order counts as sound.
NeedsRepair_OrderIgnored(lines) ==
    \/ \E i \in DOMAIN lines : lines[i].kind \notin Parsed
    \/ \E i \in DOMAIN lines : \E j \in 1 .. i - 1 : Time(lines[j]) = Time(lines[i])

\* malformed, duplicates and outOfOrder, of which needsRepair makes a verdict.
NeedsRepair(lines) ==
    \/ \E i \in DOMAIN lines : lines[i].kind \notin Parsed
    \/ \E i \in DOMAIN lines : \E j \in 1 .. i - 1 : Time(lines[j]) >= Time(lines[i])

\* A file without valid rows fails; one that needs no repair is left alone.
\* The rewritten file replaces it in one rename.
Repair ==
    /\ ~locked
    /\ NeedsRepair(source.lines) /\ Firsts(source.lines) # {}
    /\ \E repaired \in {Canonical(source.lines)} :
          Touch([lines |-> repaired, open |-> FALSE])
    /\ UNCHANGED <<now, target, locked, toWrite, agg, partial,
                   downloads, faults>>

-----------------------------------------------------------------------------
(* aggregateFile *)

Times(lines, at) ==
    LET candidates == Candidates(lines, at)
    IN  [k \in DOMAIN candidates |-> lines[candidates[k]].slot]

\* The source is opened and its size and time are noted, in one step: a rename
\* between the two, after which the old lines would be read under the new
\* size and time, is left out.  seen is kept for the properties only.
Open ==
    /\ agg.pc = "idle"
    /\ agg' = [pc |-> "first", at |-> now, stamp |-> stamp, seen |-> source.lines]
    /\ UNCHANGED <<now, source, stamp, target, locked, toWrite, partial,
                   downloads, faults>>

FirstPass ==
    /\ agg.pc = "first"
    /\ agg' = [pc |-> "second", at |-> agg.at, stamp |-> agg.stamp, seen |-> agg.seen,
               times |-> Times(source.lines, agg.at)]
    /\ UNCHANGED <<now, source, stamp, target, locked, toWrite, partial,
                   downloads, faults>>

\* The rows the first pass chose, found again by counting the candidates.  It
\* also marked buckets from what it read, which is the same unless the recheck
\* finds a change.
SecondPass ==
    /\ agg.pc = "second"
    /\ IF Times(source.lines, agg.at) # agg.times
       THEN agg' = Idle
       ELSE \E kept \in {{Candidates(source.lines, agg.at)[k] : k \in Keep(agg.times)}} :
                agg' = [pc |-> "recheck", stamp |-> agg.stamp, seen |-> agg.seen,
                        bars |-> Rebuilt(target, source.lines, kept, agg.at,
                                         agg.stamp.at, partial)]
    /\ UNCHANGED <<now, source, stamp, target, locked, toWrite, partial,
                   downloads, faults>>

\* Mutant: the recheck is left out.
Commit_Unchecked ==
    /\ agg.pc = "recheck"
    /\ target' = agg.bars
    /\ agg' = Idle
    /\ UNCHANGED <<now, source, stamp, locked, toWrite, partial, downloads, faults>>

\* Size and time are read again; the target is replaced in one rename.
Commit ==
    /\ agg.pc = "recheck"
    /\ target' = IF stamp = agg.stamp THEN agg.bars ELSE target
    /\ agg' = Idle
    /\ UNCHANGED <<now, source, stamp, locked, toWrite, partial, downloads, faults>>

-----------------------------------------------------------------------------
\* The download is killed; the lock goes with the process.  Killing a repair
\* or an aggregation leaves source and target alone (AtomicFile.tla).
Die ==
    /\ locked /\ faults < MaxFaults
    /\ faults' = faults + 1
    /\ locked' = FALSE /\ toWrite' = <<>>
    /\ UNCHANGED <<now, source, stamp, target, agg, partial, downloads>>

Next ==
    \/ Tick
    \/ Resume \/ Flush \/ Finish
    \/ Repair
    \/ Open \/ FirstPass \/ SecondPass \/ Commit
    \/ Die

Spec == Init /\ [][Next]_vars

\* Commands that started go on, and both local commands are run again and
\* again; once downloads are over nothing keeps --repair from the lock.  The
\* last two lines are WF_vars(Repair) and WF_vars(SecondPass): a repair is
\* possible in exactly the states they exclude and leaves them, as the pass
\* does, and TLC is spared evaluating both steps in ENABLED.
FairSpec ==
    /\ Spec
    /\ WF_vars(Tick) /\ WF_vars(Finish)
    /\ WF_vars(Open) /\ WF_vars(FirstPass) /\ WF_vars(Commit)
    /\ []<>(locked \/ ~NeedsRepair(source.lines) \/ Firsts(source.lines) = {})
    /\ []<>(agg.pc # "second")

-----------------------------------------------------------------------------
TypeOK ==
    /\ now \in FirstClock .. Horizon
    /\ source.lines \in Seq(Line) /\ source.open \in BOOLEAN
    /\ stamp.version \in Nat /\ stamp.at \in FirstClock .. now
    /\ \A b \in DOMAIN target : target[b] \subseteq Line
    /\ locked \in BOOLEAN
    /\ toWrite \in Seq(Line)
    /\ agg.pc \in {"idle", "first", "second", "recheck"}
    /\ partial \in BOOLEAN
    /\ downloads \in 0 .. MaxDownloads /\ faults \in 0 .. MaxFaults

\* The lines of a file that say they belong to bucket b.
LinesOf(lines, b) == {i \in DOMAIN lines : lines[i].slot \in BucketSlots(b)}

\* A bar of bucket b is made of all the lines of its bucket; they are numbers,
\* in order, one for each minute unless partial bars are allowed, and the bucket
\* had ended when the file was written.
BarReflects(bar, lines, b, written) ==
    LET own == LinesOf(lines, b)
    IN  /\ bar = {lines[i] : i \in own}
        /\ \A i \in own : lines[i].kind \in Numeric
        /\ \A i, j \in own : i < j => lines[i].slot < lines[j].slot
        /\ partial \/ Cardinality(own) = BucketBars
        /\ BucketEnd(b) <= written

\* README.md:404 and :431: a bar that a command puts into the target reflects
\* one state of the source, the one the command opened, whoever wrote to the
\* file meanwhile; none of its rows is missing unless
\* --allow_partial_aggregation says so, and it had ended when that state was
\* written (candle_aggregator.cpp:1063).
BarsReflectSource ==
    [][ target' # target =>
          \A b \in DOMAIN target' :
              BarReflects(target'[b], agg.seen, b, agg.stamp.at) ]_vars

\* Line i breaks the order together with a row that has a timestamp.
OutOfOrder(lines, i) ==
    \E j \in DOMAIN lines :
       /\ lines[j].kind \in Wide /\ 0 <= lines[j].slot
       /\ \/ i < j /\ lines[i].slot >= lines[j].slot
          \/ j < i /\ lines[j].slot >= lines[i].slot

\* A line without a timestamp stands where bucket b could have had a row: after
\* a row and before any other row of which the order is sound.
DamageAt(lines, b) ==
    \E k, j \in DOMAIN lines :
       /\ k < j /\ lines[j].slot < 0
       /\ lines[k].kind \in Wide /\ lines[k].slot + 1 \in BucketSlots(b)
       /\ \A m \in k + 1 .. j - 1 : \/ lines[m].kind \notin Wide
                                    \/ lines[m].slot < 0
                                    \/ OutOfOrder(lines, m)

\* Bucket b has a row, and something is wrong with it: a row missing, repeated,
\* out of order or not a number, or a line that could have been one of its rows.
Defective(lines, b) ==
    LET own == LinesOf(lines, b)
    IN  /\ \E i \in own : lines[i].kind \in Wide
        /\ \/ {lines[i].slot : i \in own} # BucketSlots(b)
           \/ \E i \in own : lines[i].kind \notin Numeric \/ OutOfOrder(lines, i)
           \/ DamageAt(lines, b)

\* README.md:424: a bar goes away only when the source still has a row of its
\* bucket and the bucket is defective there: a lost prefix, a lost tail or a
\* stray timestamp never deletes bars in bulk.
OldBarsSurvive ==
    [][ \A b \in DOMAIN target \ DOMAIN target' : Defective(agg.seen, b) ]_vars

\* candle_aggregator.cpp: "A single forward outlier must not advance prevTs and
\* make a long suffix appear out-of-order": no larger set of rows could have
\* been kept, whatever order and repetitions the file has.
LongestKept ==
    agg.pc = "second" => Keep(agg.times) \in LongestIncreasing(agg.times)

\* A row that a repair keeps and the aggregator does not believe: a number of
\* the bucket is odd, or a misaligned row stands where the bucket has a slot.
Tainted(lines, b) ==
    \E line \in ToSet(lines) :
       \/ line.kind = "odd" /\ line.slot \in BucketSlots(b)
       \/ line.kind = "misaligned" /\ line.after + 1 \in BucketSlots(b)

\* README.md:420, "a later repair of the source can insert a previously missing
\* bucket": once no download runs any more, every bucket of which the source
\* has a row for each minute gets its bar, in whatever order the rows are, how
\* often they are repeated, and whatever lines a repair removes stand between
\* them.  Left out are the buckets that rows a repair keeps taint, which no
\* command ever heals, and a target with a bar of a bucket the source knows
\* nothing of, which is never replaced.
RepairedSourcePublished ==
    \A b \in 0 .. BucketOf(Horizon) :
      (/\ downloads = MaxDownloads /\ ~locked /\ now = Horizon
       /\ \A s \in BucketSlots(b) : \E line \in ToSet(source.lines) :
            line.slot = s /\ line.kind \in Numeric
       /\ ~Tainted(source.lines, b)
       /\ \A old \in DOMAIN target : \E line \in ToSet(source.lines) :
            line.slot \in BucketSlots(old) /\ line.kind \in Numeric)
      ~> b \in DOMAIN target
=============================================================================
