----------------------------- MODULE OkxUpdate -----------------------------
(***************************************************************************)
(* One OKX file over any number of downloader runs: the worker lambdas of  *)
(* OKXDownloader::updateMarketData and updateFundingRateData.  A run lists *)
(* the bulk archive (monthly files of complete months, daily files of the  *)
(* running one), fills the stretches without candle files by folding the   *)
(* trade archive (OkxTradesAggregator), appends file after file, and takes *)
(* the last hours from REST.  Nothing is ever inserted before the tail.    *)
(*                                                                         *)
(* A slot is a minute of which Day make a day and Month make a month; the  *)
(* span the code gives a monthly file is longer than a month.              *)
(***************************************************************************)
EXTENDS Integers, FiniteSetsExt

CONSTANTS
    Horizon,      \* the last slot of the model
    Day, Month,   \* slots per day and per month
    MonthlySpan,  \* MONTHLY_FILE_SPAN_MS
    Lag,          \* slots from the end of a period to its file
    Venues,       \* what the venue has of the instrument, several cases
    Floors,       \* where a fresh file may begin: archive floor or --since
    FirstClock,   \* the slot that is open at the start
    MaxFaults,    \* bound on killed runs
    MaxEdits,     \* bound on -d
    None

Slot == 0 .. Horizon

ASSUME CalendarAssumption ==
    /\ Horizon \in Nat
    /\ Day \in Nat \ {0}
    /\ \E n \in 1 .. Month : Month = n * Day
    /\ MonthlySpan \in Month + 1 .. 2 * Month
    /\ Lag \in Nat
ASSUME VenuesAssumption ==
    Venues \subseteq [funding : BOOLEAN, archived : SUBSET Slot, traded : SUBSET Slot,
                      rest : SUBSET Slot, depth : Nat]
\* README.md:457-458: REST serves candles back to the listing date and funding
\* rates for about three months, so what it serves reaches back further than
\* the archive lags behind, and has the recent rows of the archive.  The archive
\* has candles of the months that are recent at the start or come later: those
\* it lacks are long past (okx_downloader.cpp:834-838).
ASSUME RestAssumption ==
    \A v \in Venues : \A u \in v.rest :
      /\ v.depth >= Month + Lag
      /\ \A t \in v.archived : t < u /\ u < t + Month + Lag => t \in v.rest
      /\ LET month == u - (u % Month)
         IN  FirstClock < month + 2 * Month + Lag =>
               v.archived \cap (month .. month + Month - 1) # {}
ASSUME FloorsAssumption == Floors \subseteq Slot /\ FirstClock \in Slot
ASSUME BoundAssumption == MaxFaults \in Nat /\ MaxEdits \in Nat

VARIABLES
    rows,     \* on disk: the slots stored in the CSV
    flat,     \* those of them that were filled in as minutes without a trade
    pc,       \* "idle", "files" or "rest"
    run,      \* from, now and since of the run, or None
    plan,     \* archiveFiles: the entries still to do
    fold,     \* the OkxTradesAggregator of the active stretch, or None
    venue,    \* a member of Venues: what the venue will have by Horizon
    clock,    \* the slot that is open now
    healed,   \* requests have stopped failing for good
    faults, edits,
    since,    \* history: the floor the file was begun at, or None
    cutShort  \* history: a run ended inside a stretch, or REST rows passed one

file == <<rows, flat>>
memory == <<pc, run, plan, fold>>
world == <<venue, clock, healed, faults, edits>>
vars == <<file, memory, world, since, cutShort>>

Never == Horizon + MonthlySpan

Entry == [date : Slot, span : Nat, trades : BOOLEAN, from : Nat, until : Nat]
Fold == [from : Nat, until : Nat, last : Int, close : BOOLEAN, pending : Slot \cup {None}]

ASSUME NoneAssumption == None \notin Slot \cup Fold \cup [from : Slot, now : Slot]

TypeOK ==
    /\ rows \subseteq Slot /\ flat \subseteq rows
    /\ pc \in {"idle", "files", "rest"}
    /\ run \in [from : Slot, now : Slot] \cup {None}
    /\ plan \subseteq Entry
    /\ fold \in Fold \cup {None}
    /\ venue \in Venues /\ clock \in Slot
    /\ healed \in BOOLEAN /\ cutShort \in BOOLEAN
    /\ faults \in 0 .. MaxFaults /\ edits \in 0 .. MaxEdits
    /\ since \in Slot \cup {None}

Init ==
    /\ rows = {} /\ flat = {}
    /\ pc = "idle" /\ run = None /\ plan = {} /\ fold = None
    /\ venue \in Venues /\ clock = FirstClock /\ healed = FALSE
    /\ faults = 0 /\ edits = 0
    /\ since = None /\ cutShort = FALSE

-----------------------------------------------------------------------------
(* The venue (okx-cpp-api and the bulk archive, not in this repository) *)

MonthStart(t) == t - (t % Month)

\* A file exists when its period is over, was published, and holds a row.
Published(archive, date, period) ==
    /\ date % period = 0
    /\ date + period + Lag <= clock
    /\ archive \cap (date .. date + period - 1) # {}

RestRows(now) == {t \in venue.rest : t >= now - venue.depth /\ t < now}

-----------------------------------------------------------------------------
(* The plan of a run *)

\* listArchiveFiles: the files whose period starts in the window, which begins
\* at the start of the period that begin lies in (archiveWindowStart).
Listed(archive, period, begin, end) ==
    {d \in Slot : begin - (begin % period) <= d /\ d < end /\ Published(archive, d, period)}

\* The files of complete months and those of the running month, with the span
\* each is taken to cover.
Files(archive, begin, end, cutoff) ==
    {<<d, MonthlySpan>> : d \in Listed(archive, Month, begin, Min({end, cutoff}))}
      \cup {<<d, Day>> : d \in Listed(archive, Day, Max({begin, cutoff}), end)}

CandleFiles(from, now) ==
    IF venue.funding
    THEN {<<d, MonthlySpan>> : d \in Listed(venue.archived, Month, from, MonthStart(now))}
    ELSE Files(venue.archived, from, now, MonthStart(now))

\* The rows of a file: monthly below the cutoff, daily from it on.
Rows(archive, date, now) ==
    archive \cap (date .. date + (IF date < MonthStart(now) THEN Month ELSE Day) - 1)

\* Mutant: the cursor moves before the gap in front of a file is looked at.
Cursor_AfterFile(candles, date, from) ==
    Max({from} \cup {f[1] + f[2] : f \in {g \in candles : g[1] <= date}})

\* How far the files before this date are taken to reach.
Cursor(candles, date, from) ==
    Max({from} \cup {f[1] + f[2] : f \in {g \in candles : g[1] < date}})

\* addGap: the trade files that overlap a stretch of a day or more.
TradeEntries(lo, hi, until, now) ==
    IF hi - lo < Day THEN {}
    ELSE {[date |-> f[1], span |-> f[2], trades |-> TRUE, from |-> lo, until |-> until] :
            f \in {g \in Files(venue.traded, lo, hi, MonthStart(now)) :
                     g[1] + g[2] > lo /\ g[1] < hi}}

\* The stretch before a candle file ends at the first row of that file.
StretchBefore(date, candles, from, now) ==
    LET cursor == Cursor(candles, date, from)
        handOver == Min(Rows(venue.archived, date, now))
    IN  IF date - cursor >= Day THEN TradeEntries(cursor, handOver, handOver, now) ELSE {}

\* Without candle files the whole range is one stretch with an open end.
Stretches(from, now) ==
    LET candles == CandleFiles(from, now)
    IN  IF venue.funding THEN {}
        ELSE IF candles = {} THEN TradeEntries(from, now, Never, now)
        ELSE UNION {StretchBefore(f[1], candles, from, now) : f \in candles}

Plan(from, now) ==
    Stretches(from, now) \cup
    {[date |-> f[1], span |-> f[2], trades |-> FALSE, from |-> 0, until |-> 0] :
        f \in CandleFiles(from, now)}

\* stable_sort by date: a candle file comes before a trade file of its date.
Precedes(d, e) == d.date < e.date \/ (d.date = e.date /\ ~d.trades /\ e.trades)

-----------------------------------------------------------------------------
(* The rows of a stretch (OkxTradesAggregator) *)

Goto(label) == pc' = label /\ UNCHANGED run

\* resume: fold from the tail, with the close stored there if there is one.
Resumed(e, last) ==
    [from |-> e.from, until |-> e.until, last |-> last, close |-> rows # {}, pending |-> None]

\* The minutes with trades a fold has in hand once it has read some more.
InHand(f, trades) ==
    {t \in trades : t > f.last} \cup (IF f.pending = None THEN {} ELSE {f.pending})

\* The slots filled in below hi: after the stored close, or the first trade.
FlatBelow(f, hand, hi) ==
    IF f.close THEN (f.last + 1 .. hi - 1) \ hand
    ELSE IF hand = {} THEN {}
    ELSE (Min(hand) .. hi - 1) \ hand

\* feed: every minute but the last is closed; the last one stays in progress.
Fed(f, hand) ==
    IF hand = {} THEN f
    ELSE [f EXCEPT !.pending = Max(hand),
                   !.close = @ \/ Cardinality(hand) > 1,
                   !.last = IF f.close \/ Cardinality(hand) > 1 THEN Max(hand) - 1 ELSE @]

FeedBars(f, hand) ==
    IF hand = {} THEN [bars |-> {}, filled |-> {}]
    ELSE [bars |-> hand \ {Max(hand)}, filled |-> FlatBelow(f, hand, Max(hand))]

\* Mutant: an open end is filled up to the time of the run.
FinishBars_ToNow(f) ==
    [bars |-> InHand(f, {}), filled |-> FlatBelow(f, InHand(f, {}), Min({f.until, run.now}))]

\* finish: the minute in progress, and flat bars up to the end of the stretch;
\* none beyond the last trade when the end is open.
FinishBars(f) ==
    [bars |-> InHand(f, {}),
     filled |-> IF f.until = Never THEN {} ELSE FlatBelow(f, InHand(f, {}), f.until)]

-----------------------------------------------------------------------------
(* The file *)

\* lastSavedTimestamp; a fresh file begins with the row at the floor.
LastSaved == IF rows = {} THEN run.from ELSE Max(rows)
New(ts) == {t \in ts : t > LastSaved \/ (rows = {} /\ t = LastSaved)}

\* persist: append what lies behind the tail, oldest first and up to hi.
AppendUpTo(new, hi) ==
    /\ rows' = rows \cup {t \in New(new.bars \cup new.filled) : t <= hi}
    /\ flat' = flat \cup {t \in New(new.filled) : t <= hi}
    /\ since' = IF since = None /\ rows' # {} THEN run.from ELSE since

Persist(new) == AppendUpTo(new, Horizon)

-----------------------------------------------------------------------------
(* The worker *)

Finish == pc' = "idle" /\ run' = None /\ plan' = {} /\ fold' = None

StartRun ==
    /\ pc = "idle"
    /\ \E floor \in Floors :
         LET from == IF rows = {} THEN floor ELSE Max(rows)
         IN  run' = [from |-> from, now |-> clock] /\ plan' = Plan(from, clock)
    /\ pc' = "files"
    /\ UNCHANGED <<file, fold, world, since, cutShort>>

\* Mutant: an entry that began before the tail counts as done.
Covered_ByStart(e) == e.date < LastSaved

\* "fully covered by what is already stored"
Covered(e) == e.date + e.span <= LastSaved

\* The entry the loop is at.
Current(e) ==
    /\ pc = "files" /\ e \in plan
    /\ \A d \in plan \ {e} : Precedes(e, d)

SkipEntry(e) ==
    /\ Current(e) /\ Covered(e)
    /\ plan' = plan \ {e}
    /\ UNCHANGED <<file, pc, run, fold, world, since, cutShort>>

Clipped(f, closed) ==
    LET clip(ts) == {t \in ts : f.from <= t /\ t < f.until}
    IN  [bars |-> clip(closed.bars), filled |-> clip(closed.filled)]

\* The active stretch ends in front of a candle file, of another stretch, and
\* behind the last entry.
Ends ==
    /\ pc = "files" /\ fold # None
    /\ \A e \in plan : Current(e) => ~Covered(e) /\ ~(e.trades /\ e.from = fold.from)

\* finishSegment
StretchEnds ==
    /\ Ends
    /\ Persist(Clipped(fold, FinishBars(fold)))
    /\ fold' = None
    /\ UNCHANGED <<pc, run, plan, world, cutShort>>

Folds(e) ==
    /\ Current(e) /\ ~Covered(e) /\ e.trades
    /\ fold # None => fold.from = e.from

Active(e) == IF fold = None THEN Resumed(e, LastSaved) ELSE fold
HandAt(e) == InHand(Active(e), Rows(venue.traded, e.date, run.now))

FoldTrades(e) ==
    /\ Folds(e)
    /\ Persist(Clipped(Active(e), FeedBars(Active(e), HandAt(e))))
    /\ fold' = Fed(Active(e), HandAt(e))
    /\ plan' = plan \ {e}
    /\ UNCHANGED <<pc, run, world, cutShort>>

Takes(e) == Current(e) /\ ~Covered(e) /\ ~e.trades /\ fold = None

CandlesAt(e) == [bars |-> Rows(venue.archived, e.date, run.now), filled |-> {}]

AppendCandles(e) ==
    /\ Takes(e)
    /\ Persist(CandlesAt(e))
    /\ plan' = plan \ {e}
    /\ UNCHANGED <<pc, run, fold, world, cutShort>>

FilesDone ==
    /\ pc = "files" /\ plan = {} /\ fold = None
    /\ Goto("rest")
    /\ UNCHANGED <<file, plan, fold, world, since, cutShort>>

\* Mutant: the bounds of the request are exchanged.
Recent_Swapped == [bars |-> {t \in RestRows(run.now) : t <= LastSaved}, filled |-> {}]

Recent == [bars |-> {t \in RestRows(run.now) : t >= LastSaved}, filled |-> {}]

\* The rows of REST begin behind trades that were not folded.
RestPasses ==
    /\ pc = "rest"
    /\ \E t \in venue.traded, u \in New(Recent.bars) :
         LastSaved < t /\ t < u /\ t \notin Recent.bars

\* REST from the tail to now; a delisted instrument is refused (51001) and
\* keeps what it has.
AppendRest ==
    /\ pc = "rest"
    /\ Persist(Recent)
    /\ cutShort' = (cutShort \/ RestPasses)
    /\ Finish
    /\ UNCHANGED world

Worker ==
    \/ StartRun \/ StretchEnds \/ FilesDone \/ AppendRest
    \/ \E e \in plan : SkipEntry(e) \/ FoldTrades(e) \/ AppendCandles(e)

-----------------------------------------------------------------------------
(* What the worker does not decide *)

\* A stretch is being folded or is still to be folded.
InStretch == fold # None \/ \E e \in plan : e.trades

\* withRetry or the listing gives up, or a row cannot be parsed.
RunFails ==
    /\ pc # "idle" /\ ~healed
    /\ cutShort' = (cutShort \/ InStretch)
    /\ Finish
    /\ UNCHANGED <<file, world, since>>

\* What the worker is appending.
InFlight ==
    (IF Ends THEN {Clipped(fold, FinishBars(fold))} ELSE {})
      \cup {Clipped(Active(e), FeedBars(Active(e), HandAt(e))) : e \in {d \in plan : Folds(d)}}
      \cup {CandlesAt(e) : e \in {d \in plan : Takes(d)}}
      \cup (IF pc = "rest" THEN {Recent} ELSE {})

\* The process is killed, or the disk fills, in the middle of an append: its
\* oldest rows are stored (CsvTail removes a torn one).
CutAppend ==
    /\ faults < MaxFaults /\ faults' = faults + 1
    /\ \E new \in InFlight, hi \in Slot : AppendUpTo(new, hi)
    /\ cutShort' = (cutShort \/ InStretch \/ RestPasses)
    /\ Finish
    /\ UNCHANGED <<venue, clock, healed, edits>>

\* -d: the file of an instrument that is no longer listed goes.
DeleteCsv ==
    /\ pc = "idle" /\ venue.rest = {} /\ edits < MaxEdits
    /\ edits' = edits + 1
    /\ rows' = {} /\ flat' = {} /\ since' = None /\ cutShort' = FALSE
    /\ UNCHANGED <<memory, venue, clock, healed, faults>>

Tick ==
    /\ clock < Horizon /\ clock' = clock + 1
    /\ UNCHANGED <<file, memory, venue, healed, faults, edits, since, cutShort>>

Heal ==
    /\ ~healed /\ healed' = TRUE
    /\ UNCHANGED <<file, memory, venue, clock, faults, edits, since, cutShort>>

-----------------------------------------------------------------------------

Next ==
    \/ Worker
    \/ RunFails \/ CutAppend \/ DeleteCsv \/ Tick \/ Heal

Spec == Init /\ [][Next]_vars

\* Runs are repeated for ever, requests end and some day succeed, time passes.
FairSpec == Spec /\ WF_vars(Worker) /\ WF_vars(Tick) /\ WF_vars(Heal)

-----------------------------------------------------------------------------
(* Safety *)

\* Nothing is inserted before the tail, so a candle file passed over would be
\* lost: every row the candle or funding archive has between the floor of the
\* file and its tail is stored, whatever is folded, cut, failed or taken from
\* REST before the file of the period is published
\* (okx_downloader.cpp:111-114).
NoArchivedRowSkipped ==
    rows # {} => \A t \in venue.archived : since <= t /\ t <= Max(rows) => t \in rows

\* The archive has nothing in the month of t and the one before, and at least a
\* day of that month lies behind the floor: a shorter stretch is not folded.
Foldable(t, floor) ==
    /\ floor < t /\ floor + Day <= MonthStart(t) + Month
    /\ venue.archived \cap (MonthStart(t) - Month .. MonthStart(t) + Month - 1) = {}

\* A month without candle files, in front of the archive or behind another such
\* month, comes from the trades minute by minute
\* (okx_downloader.cpp:834-843), as long as no run ended inside a stretch, whose
\* rest is not returned to when it is shorter than a day, and REST rows did not
\* pass the stretch before a candle file behind it was published.
StretchFolded ==
    ~cutShort /\ rows # {} /\ ~venue.funding =>
      \A t \in venue.traded :
        Foldable(t, since) /\ t < Max(rows) => t \in rows \ flat

\* "do not fill flat bars beyond [the last trade] (a delisted contract would
\* otherwise gain years of them)": behind every flat bar the venue has a trade
\* or a candle (okx_downloader.cpp:919).
FlatBarsBounded ==
    \A t \in flat : \E u \in venue.traded \cup venue.archived : u > t

\* "Folding the trades into minutes reproduces the candles exactly"
\* (okx_downloader.cpp:839): a minute with a trade is never stored as a flat one.
FoldReproducesCandles == flat \cap venue.traded = {}

-----------------------------------------------------------------------------
(* Liveness *)

\* The newest row a file can get by the end of the model.
Newest ==
    LET published == {t \in venue.archived : Published(venue.archived, MonthStart(t), Month)
                                          \/ Published(venue.archived, t - (t % Day), Day)}
    IN  Max({0} \cup RestRows(Horizon) \cup published)

\* Once requests succeed and time has stopped, some later run stores the newest
\* row: no stretch, failed run or cut append keeps the tail from moving on.
TailCatchesUp ==
    (healed /\ clock = Horizon) ~> (Newest = 0 \/ Newest \in rows)

=============================================================================
