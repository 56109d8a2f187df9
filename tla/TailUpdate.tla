----------------------------- MODULE TailUpdate -----------------------------
(***************************************************************************)
(* The append-only download of one symbol over many runs: a worker reads   *)
(* where its CSV file ends, asks the venue for what follows and appends    *)
(* it, page by page.  Nothing but the file survives a run.                 *)
(*                                                                         *)
(* The downloaders that work this way differ in what they re-read and what *)
(* they retry.  `client` says which one this behaviour is about:           *)
(*   binance   BinanceCommon::downloadCandlesToCSVFile: one attempt, the   *)
(*             tail kept in memory, the page filtered by an end that lies  *)
(*             a minute before the local clock                             *)
(*   paged     Bybit, Hyperliquid, Lighter: the tail is read again before  *)
(*             every attempt and every page; the end is the local clock,   *)
(*             read once, and the client library drops what closes later   *)
(*   delisted  Kraken Futures, delisted contract: as paged, but the clock  *)
(*             is read for every attempt, and a run of zero-volume bars is *)
(*             held back until a traded bar follows                        *)
(*   seeded    Kraken Futures funding: an empty file is first filled from  *)
(*             the venue's archive, then one answer is appended            *)
(*                                                                         *)
(* Clocks count minutes, and a candle lasts Span of them: slot s is open   *)
(* from minute s * Span to minute (s + 1) * Span.  The venue's clock is    *)
(* the time; the local one may be off.                                     *)
(***************************************************************************)
EXTENDS CsvTail, FiniteSets

CONSTANTS
    Horizon,      \* the clock stops here, in minutes
    Span,         \* the minutes of a candle
    Behind,       \* how far the local clock may lie behind the venue's,
    Ahead,        \* and how far ahead of it
    Candles,      \* the slots the venue has a candle for
    Busy,         \* those of them with a trade
    Floor,        \* the start of a download that finds no row (--since)
    PageSize,     \* the most candles in one answer
    Attempts,     \* maxRetries
    ArchiveEnd,   \* the last slot of the archive
    Window,       \* how far back the unpaginated endpoint answers, in minutes
    Clients,      \* the downloaders checked
    MaxFaults     \* failed requests, failed writes and crashes, together

Slots == 0 .. Horizon

Opens(s) == s * Span
Closes(s) == Opens(s + 1)

ASSUME HorizonAssumption == Horizon \in Nat
ASSUME SpanAssumption == Span \in Nat \ {0}
ASSUME ClockAssumption == Behind \in Nat /\ Ahead \in Nat
ASSUME CandlesAssumption == Candles \subseteq Slots /\ Busy \subseteq Candles
ASSUME FloorAssumption == Floor \in Nat
ASSUME PageAssumption == PageSize \in Nat \ {0}
ASSUME AttemptsAssumption == Attempts \in Nat \ {0}
ASSUME FaultsAssumption == MaxFaults \in Nat
ASSUME ClientsAssumption == Clients \subseteq {"binance", "paged", "delisted", "seeded"}
\* The runs are frequent enough for the endpoint to reach back to the archive.
ASSUME ArchiveAssumption ==
    /\ ArchiveEnd \in Int /\ Window \in Nat
    /\ Horizon - Window <= Closes(ArchiveEnd)

VARIABLES
    client,
    csv,        \* the file (see CsvTail)
    now,        \* the venue's clock
    pc,         \* where the worker is; "idle" between runs
    attempt,
    end,        \* the end of the range asked for
    from,       \* the least slot not asked for yet
    tail,       \* the last slot known to be in the file, Floor - 1 for none
    held,       \* zero-volume bars held back
    pending,    \* what is left to append of the page in hand
    faults

world == <<client, now, faults>>
memory == <<attempt, end, from, tail, held, pending>>
vars == <<world, memory, csv, pc>>

NoTail == Floor - 1

\* What the venue and the client library hand out.  The venue has candles that
\* are still open.  Binance selects by open time; the libraries of the others
\* leave out what closes after the end asked for, by which clock that end was
\* chosen or not; a funding rate is there when its period is over.
Answer ==
    {s \in Candles :
        /\ from <= s /\ Opens(s) <= now
        /\ CASE client = "binance" -> Opens(s) <= end
             [] client = "seeded"  -> Closes(s) <= now /\ now - Window <= Opens(s)
             [] OTHER              -> Closes(s) <= end}

\* The first PageSize of a set of slots; the endpoint without pages gives all.
Page ==
    IF client = "seeded" THEN Answer
    ELSE {s \in Answer : Cardinality({t \in Answer : t < s}) < PageSize}

IsLast(s, S) == s \in S /\ \A t \in S : t <= s
IsFirst(s, S) == s \in S /\ \A t \in S : s <= t

Archive == {s \in Candles : Floor <= s /\ s <= ArchiveEnd}

\* Mutant: a stored tail is inclusive.
NotYetStored_Inclusive(rows, last) == {s \in rows : last <= s}

\* shouldPersistTimestamp.
NotYetStored(rows, last) == {s \in rows : last < s}

\* Mutant: every bar is as good as a traded one.
Released_All(bars) == bars

\* The bars a traded one in the page makes worth storing.
Released(bars) == {s \in bars : \E t \in Page \cap Busy : s <= t}

\* Mutant: no margin for a minute that is still open.
EndAt_Now(clock) == clock

\* The minute Binance leaves out, however long the candle.
Margin == IF client = "binance" THEN 1 ELSE 0

\* The end of the range asked for at a local time.
EndAt(clock) == clock - Margin

\* The worker reads the local clock.
ClockRead == \E skew \in -Behind .. Ahead : end' = EndAt(now + skew)

\* Mutant: the next page starts with the last candle of this one.
Continue_AtLast == \E last \in Page : IsLast(last, Page) /\ from' = last

\* The next page starts after the last candle of this one.
Continue == \E last \in Page : IsLast(last, Page) /\ from' = last + 1

TypeOK ==
    /\ client \in Clients
    /\ csv \in File
    /\ now \in 0 .. Horizon
    /\ pc \in {"idle", "inspect", "reinspect", "fetch", "write"}
    /\ attempt \in 1 .. Attempts
    /\ end \in Int /\ from \in Int /\ tail \in Int
    /\ held \subseteq Candles /\ pending \subseteq Candles
    /\ faults \in 0 .. MaxFaults

Init ==
    /\ client \in Clients
    /\ csv = NoFile
    /\ now \in {n \in 0 .. Horizon : client = "seeded" => Closes(ArchiveEnd) <= n}
    /\ pc = "idle" /\ attempt = 1
    /\ end = -1 /\ from = 0 /\ tail = NoTail
    /\ held = {} /\ pending = {} /\ faults = 0
-----------------------------------------------------------------------------
Tick ==
    /\ now < Horizon
    /\ now' = now + 1
    /\ UNCHANGED <<client, faults, memory, csv, pc>>

StartRun ==
    /\ pc = "idle"
    /\ pc' = "inspect" /\ attempt' = 1
    /\ IF client \in {"binance", "paged"} THEN ClockRead ELSE end' = end
    /\ UNCHANGED <<world, from, tail, held, pending, csv>>

\* checkSymbolCSVFile, and where the first request starts: Bybit, Hyperliquid
\* and Lighter ask for the stored tail once more.
Inspect ==
    /\ csv' = Repaired(csv)
    /\ tail' = TailSlot(csv, NoTail)
    /\ from' = IF client = "paged" /\ Found(csv) THEN tail' ELSE tail' + 1
    /\ held' = {}

\* A seeded file is read once more before the venue is asked.
InspectTail ==
    /\ \/ pc = "inspect" /\ (client = "seeded" => Found(csv) \/ Archive = {})
       \/ pc = "reinspect"
    /\ Inspect
    /\ IF client = "delisted" THEN ClockRead ELSE end' = end
    /\ pc' = "fetch"
    /\ UNCHANGED <<world, attempt, pending>>

\* A funding file without a row is seeded from the archive.
InspectFresh ==
    /\ pc = "inspect"
    /\ client = "seeded" /\ ~Found(csv) /\ Archive # {}
    /\ Inspect
    /\ pending' = Archive
    /\ pc' = "write"
    /\ UNCHANGED <<world, attempt, end>>

Queue(rows) ==
    /\ pending' = rows
    /\ pc' = IF rows = {} THEN "fetch" ELSE "write"

\* A page of Binance candles: those that close after the end are not stored.
FetchBinance ==
    /\ pc = "fetch" /\ client = "binance"
    /\ Opens(from) <= end /\ Continue
    /\ LET complete == NotYetStored({s \in Page : Closes(s) <= end}, tail)
       IN  /\ Queue(complete)
           /\ IF complete = {} THEN tail' = tail ELSE IsLast(tail', complete)
    /\ UNCHANGED <<world, attempt, end, held, csv>>

\* The page callback of Bybit, Hyperliquid and Lighter.
FetchPaged ==
    /\ pc = "fetch" /\ client = "paged"
    /\ Continue
    /\ csv' = Repaired(csv)
    /\ tail' = TailSlot(csv, NoTail)
    /\ Queue(NotYetStored(Page, tail'))
    /\ UNCHANGED <<world, attempt, end, held>>

\* The page callback of Kraken Futures for a delisted contract.
FetchHeld ==
    /\ pc = "fetch" /\ client = "delisted"
    /\ Continue /\ Page \cap Busy = {}
    /\ held' = held \cup Page
    /\ UNCHANGED <<world, attempt, end, tail, pending, csv, pc>>

FetchDelisted ==
    /\ pc = "fetch" /\ client = "delisted"
    /\ Continue /\ Page \cap Busy # {}
    /\ csv' = Repaired(csv)
    /\ tail' = TailSlot(csv, NoTail)
    /\ LET bars == held \cup Page
       IN  /\ held' = bars \ Released(bars)
           /\ Queue(NotYetStored(Released(bars), tail'))
    /\ UNCHANGED <<world, attempt, end>>

\* The endpoint that answers everything it has at once.
FetchSeeded ==
    /\ pc = "fetch" /\ client = "seeded"
    /\ Page # {}
    /\ from' = Horizon + 1
    /\ Queue(NotYetStored(Page, tail))
    /\ UNCHANGED <<world, attempt, end, tail, held, csv>>

FetchEnd ==
    /\ pc = "fetch"
    /\ Page = {} \/ (client = "binance" /\ end < Opens(from))
    /\ pc' = "idle"
    /\ UNCHANGED <<world, memory, csv>>

\* A transient fault of a request: Binance has no attempt left to make.
Retry ==
    /\ pc = "fetch" /\ client # "binance"
    /\ attempt < Attempts /\ faults < MaxFaults
    /\ faults' = faults + 1
    /\ attempt' = attempt + 1
    /\ pc' = "inspect"
    /\ UNCHANGED <<client, now, end, from, tail, held, pending, csv>>
-----------------------------------------------------------------------------
\* What is written next: a file of no bytes gets its header first.
NextLine(line) ==
    IF csv.lines = <<>> THEN line = Header
    ELSE \E s \in pending : IsFirst(s, pending) /\ line = Row(s)

WriteHeader ==
    /\ pc = "write" /\ csv.lines = <<>>
    /\ csv' = AppendLine(csv, Header)
    /\ UNCHANGED <<world, memory, pc>>

WriteRow ==
    /\ pc = "write" /\ csv.lines # <<>>
    /\ \E s \in pending :
         /\ IsFirst(s, pending)
         /\ csv' = AppendLine(csv, Row(s))
         /\ pending' = pending \ {s}
    /\ pc' = IF pending' # {} THEN "write"
             ELSE IF client = "seeded" /\ from <= Horizon THEN "reinspect"
             ELSE "fetch"
    /\ UNCHANGED <<world, attempt, end, from, tail, held>>

\* The process dies, or a request fails for good.
Interrupted ==
    /\ pc # "idle" /\ faults < MaxFaults
    /\ faults' = faults + 1
    /\ pc' = "idle" /\ pending' = {} /\ held' = {}
    /\ UNCHANGED <<client, now, attempt, end, from, tail, csv>>

\* The process dies inside a write, or the disk is full and the worker throws.
TornWrite ==
    /\ pc = "write" /\ faults < MaxFaults
    /\ faults' = faults + 1
    /\ \E line \in {Header} \cup {Row(s) : s \in pending} :
         NextLine(line) /\ csv' \in AppendTorn(csv, line)
    /\ pc' = "idle" /\ pending' = {} /\ held' = {}
    /\ UNCHANGED <<client, now, attempt, end, from, tail>>

Fetch == FetchBinance \/ FetchPaged \/ FetchHeld \/ FetchDelisted \/ FetchSeeded

Next ==
    \/ Tick
    \/ StartRun \/ InspectTail \/ InspectFresh
    \/ Fetch \/ FetchEnd \/ Retry
    \/ WriteHeader \/ WriteRow
    \/ Interrupted \/ TornWrite

Spec == Init /\ [][Next]_vars

\* The tool is started again and again, and a run takes its steps.
Fairness ==
    WF_vars(StartRun \/ InspectTail \/ InspectFresh \/ Fetch \/ FetchEnd
            \/ WriteHeader \/ WriteRow)

FairSpec == Spec /\ Fairness
-----------------------------------------------------------------------------
StoredSlots == Stored(csv)

\* The rows of the file are strictly ascending whatever was torn, retried or
\* asked for twice (shouldPersistTimestamp, downloadCandlesToCSVFile).
Ascending ==
    \A i, j \in Records(csv) : i < j => csv.lines[i].slot < csv.lines[j].slot

\* No candle the venue served is missing below the last stored one, provided
\* the header was not torn; in a seeded file this is promised above the
\* archive only (see NoGapAfterSeed).
NoHole ==
    Headed(csv) =>
        \A s \in Candles :
            /\ Floor <= s
            /\ client = "seeded" => ArchiveEnd < s
            /\ \E t \in StoredSlots : s < t
            => s \in StoredSlots

\* "Do not download the last minute - it is not complete yet"
\* (binance_spot_downloader.cpp:193).  A stored candle had closed by the local
\* clock: it closes before the venue's clock by no more than the local one may
\* be ahead, and for Binance a minute less: a clock that is at most a minute
\* fast lets it store final candles only, whatever their length.  The end may
\* have been read long before the page is asked for.
OnlyClosed == \A s \in StoredSlots : Closes(s) <= now + Ahead - Margin

\* The file of a delisted contract never gains a zero-volume bar that is not
\* followed by a trade (kraken_downloader.cpp, heldZero).
EndsAtTrade ==
    client = "delisted" =>
        \A s \in StoredSlots : \E t \in Busy : s <= t /\ Opens(t) <= now

\* Repairing a tail never costs a row that was stored (csv_data.cpp).
RowsKept == [][StoredSlots \subseteq Stored(csv')]_vars

\* Every candle the venue serves is in the end stored: the local clock may be
\* behind, and Binance leaves out a minute more; rows lost to a torn header or a
\* torn seed are excepted.
Settled(s) == Closes(s) <= now - Behind - Margin

Due(s) ==
    /\ Floor <= s
    /\ Settled(s)
    /\ client = "seeded" => ArchiveEnd < s
    /\ client = "delisted" => \E t \in Busy : s <= t /\ Settled(t)

TailCatchesUp ==
    \A s \in Candles : Due(s) ~> (s \in StoredSlots \/ ~Headed(csv))

\* "The archive ends inside the REST window, so the REST rows below continue
\* it without a gap" (kraken_downloader.cpp:499).
NoGapAfterSeed ==
    client = "seeded" /\ Headed(csv) =>
        \A s \in Candles :
            Floor <= s /\ (\E t \in StoredSlots : s < t) => s \in StoredSlots

\* "the next append starts on a clean newline boundary" (csv_data.h:46).
CleanBoundary == pc = "write" => ~csv.open
=============================================================================
