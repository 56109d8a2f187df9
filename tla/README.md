# Verification of crypto-data-downloader

TLA+ models of the parts of the downloader whose correctness depends on what happens *between* steps: crashes and restarts, several processes and threads, torn writes, retries, and files that an operator changes between runs. TLC checks the models on small instances; TLAPS proves the central safety properties for every value of the constants.

The program is a command-line tool that keeps a tree of CSV files, one per symbol and timeframe, up to date with what an exchange publishes. It runs to completion, is started again (typically from a timer), and remembers nothing but its files. What is hard about it is therefore not one run but a *sequence* of runs, each of which may be cut at any point.

## 1. Inventory

### Components, their state and their operations

| Component (source) | State | Operations | Interacts with |
|---|---|---|---|
| Command line and orchestration (`src/main.cpp`) | options; the run lock | parse, take the lock, then exactly one of download, convert, aggregate, verify/repair; exit code | everything |
| Run lock (`run_lock.h`) | one lock file per exchange and canonical data directory, in `/tmp` | constructor, destructor | advisory lock |
| Advisory file lock (`advisory_file_lock.h`) | descriptor, kernel `flock`, `contended_` | `acquire`, `release`, destruction, process death | file system, other processes |
| Atomic file writer (`atomic_file.h`) | `<target>.writing`, `ownsTemporary_`, optional sibling lock | construct, write, `commit`, destroy | advisory lock, file system |
| Worker pool (`future_utils.h`) | semaphore, futures, list of symbols | deduplicate, drop unsafe names, `launchBounded`, `retryTransient`, `waitAllOrThrow` | every downloader |
| MEXC Spot candles (`mexc_spot_downloader.cpp`, `mexc_staging.h`) | `<S>.csv`, `<S>.csv.prefix.pending`, `temp_<S>/` with staged rows and manifest, `<S>.csv.committed` | recover, repair the tail, reconcile `--since`, probe the missing prefix, download, stage, commit, delete (`-d`) | atomic writer, REST client, operators |
| MEXC Futures candles and funding (`mexc_futures_downloader.cpp`, `mexc_funding_*.h`) | as Spot; funding pages and a merged CSV | as Spot; scan pages, merge | atomic writer, REST client |
| CSV tail inspection (`csv_data.cpp`, `download_resume.h`) | the last lines of a CSV | `lastValidRecord` (truncates), `shouldPersistTimestamp`, `requestStartTimestamp` | all append-only downloaders |
| Binance, Bybit, Hyperliquid, Lighter, Kraken (`*_downloader.cpp`, `binance_common.cpp`) | `<S>.csv`; Kraken also an in-memory hold of flat bars, the trade fold and the funding archive | inspect, request, filter, append, retry | CSV tail, worker pool, REST client |
| OKX (`okx_downloader.cpp`, `okx_trades_aggregator.h`) | `<S>.csv`, archive files | archive days, stretches folded from trade archives, REST | CSV tail, worker pool |
| Candle aggregator (`candle_aggregator.cpp`) | one source and one target CSV | two passes: filter rows, fold bars, replace the target | atomic writer |
| CSV verifier (`csv_verifier.cpp`) | one CSV | find duplicates and gaps, rewrite | atomic writer |
| T6 conversion | one binary file per symbol | read CSV, write records newest first | atomic writer |
| Text helpers (`csv_format.h`, `since_parser.h`, `history_floor.h`, `transient_error.h`) | none | formatting, parsing, classification | all |
| REST clients | external libraries | pages of candles, rates and trades | venues |

### Which behaviours are hard, and what makes a component correct

* **MEXC Spot.** A first download may stop above the requested start. The published suffix then has a *prefix marker* beside it, and later runs scan backwards below it, one window per run. Every update goes through a staging directory with a manifest; a crash may fall between marker, rows, manifest, published CSV and clean-up, and the run that finds the leftovers has another `--since`, or a CSV that an operator has edited. Correct means: a published suffix whose prefix is owed keeps its marker; no hole appears that no venue answer covered; recovery never splices stale rows; no open candle is stored; and in the end the prefix and the tail do arrive.
* **Append-only downloaders.** The resume point is read from a file whose last line may be torn. Retries start over from the file; a Binance run trusts its memory instead. Correct means: ascending rows, no hole below the last row, no candle that the local clock did not take for closed, no row lost by a repair, and progress.
* **Locks.** `flock` belongs to an inode, the path is only a name for it. Correct means: mutual exclusion over every interleaving of system calls, no lock that outlives its owner, and "already running" only if another run is running.
* **MEXC Futures.** The same files as Spot, another way to the prefix: every run probes all of it at once, and when something older is there the whole history is loaded again and the file is replaced by the union of both, which is refused when a stored value differs. The marker must survive all of this, and a rebuild must not lose a row.
* **MEXC funding.** Pages come newest first and shift when a rate is settled between two requests; a venue under load hides pages. The file is only replaced by a merge that contains it. Correct means: no stored rate is lost or doubled, no rate is skipped by a scan that thinks it is complete, and a gap left by an outage is filled by a later run.
* **OKX.** Four sources with different publication delays feed one append-only file: monthly and daily candle archives, trade archives that are folded into minutes where candles are missing, and REST. Nothing is ever inserted before the tail, so whatever is passed over is lost. Correct means: no archived candle is passed over, a stretch without candles comes from the trades, and flat minutes never outrun the last trade.
* **Aggregation and repair.** The aggregator reads a file that another command may be writing, decides which rows to believe, and replaces a target of which it may know only a part. Correct means: every published bar is a whole bucket of one state of the source, bars leave only for damage that was seen, and what a repair restores is published.
* **Atomic writer.** Readers see a whole image, old or new, whatever dies; a writer never removes what another one is writing.
* **Worker pool.** The bound on workers holds and no slot is lost through failing launches and failing workers; nothing is left running when a command ends; every failure is told; every command ends.

The full list of hazards, each at its line and with the properties aimed at it, is in `PROJECT.json` under `hazards`; those without a property have a note that says why.

## 2. Modules

```
CandleHistory            what a reader of a candle file is promised
  ^ implemented by
MexcStaging  <-  MexcSpotUpdate        MEXC Spot worker over many runs
    ^
MexcFuturesUpdate        MEXC Futures candle worker over many runs
  v implements
RebuiltHistory           CandleHistory with a step that rebuilds the prefix

MexcFunding              MEXC Futures funding worker over many runs
OkxUpdate                OKX worker over many runs

Mutex                    a try-lock that dies with its owner
  ^ implemented by                        ^ used as the guard of
AdvisoryFileLock                        AtomicFile
                                          v implements
                                        AtomicReplace   what a reader of the target is promised

WorkerPool               the workers of one command: launch, retry, collect
DownloadCommand          commands over one directory: choose symbols, remove delisted files
CsvTail      <-  TailUpdate            append-only worker over many runs

CandleAggregator  <-  CandleFiles      download, repair and aggregation
                                       of one symbol's files
```

`NumberSets` has what the modules need of finite sets of numbers (their members in order, the elements of a list at some places). The proofs are in eight modules:

| Module | What it proves about |
|---|---|
| `NumberSets_proofs` | first and last members, induction over the numbers, ranks and order in a set; no module of the system |
| `MexcSpotUpdate_proofs` | `MexcStaging`, `MexcSpotUpdate`, `CandleHistory` |
| `MexcFutures_proofs` | `MexcFuturesUpdate`, `RebuiltHistory`, `MexcFunding` |
| `AtomicFile_proofs` | `AdvisoryFileLock`, `Mutex`, `AtomicFile`, `AtomicReplace` |
| `Commands_proofs` | `WorkerPool`, `DownloadCommand` |
| `TailUpdate_proofs` | `CsvTail`, `TailUpdate` |
| `CandleFiles_proofs` | `CandleAggregator`, `CandleFiles` |
| `OkxUpdate_proofs` | `OkxUpdate` |

Each model that TLC checks has an `MCX` module that defines the constants of its configurations. `MCMexcFutures` also composes `MexcFuturesUpdate` and `MexcFunding`: a command is about candles or about funding rates (`-t`), the two share neither files nor requests, and each behaviour follows one of them. `MCWorkerPool` puts `WorkerPool` and `DownloadCommand` side by side in the same way: the second uses of the first only that a worker delivers or throws, in any order, and that all are collected before the command goes on, which `NoResultLost` and `EndedAlone` check. Definitions commented "Mutant" are never used by a specification: they are the plausible mistakes with which the runs are tested (`PROJECT.json`, `mutants`).

### MexcStaging, MexcSpotUpdate, CandleHistory

Time is a line of *slots*, one per candle; slot `clock` is the one still open on the venue's server. `csv` is the set of stored slots, `marker` the prefix marker, `staging` the directory with its manifest. `pc` walks through the worker lambda of `updateMarketData`, and every place where the code touches the disk is an action of its own, so `Crash` between any two of them leaves the state a killed process would leave. `MexcStaging` holds the decisions of `mexc_staging.h` as operators: what validates, what may be committed, which window the scan asks for, how the cursor moves, what `--since` does to a marker. The history variables `owed`, `answered` and `openEnded` record facts the files do not show: which floor a published suffix still owes, which slots a durably recorded venue answer covered, and whether the staged walk was provisional.

The venue answers with any subset of what it holds until it is `healed`, and may overshoot by one candle. Operators archive, restore or delete files between runs; `-d` removes the three files of a delisted symbol one by one.

Abstracted: candle values and formats; requested starts that do not lie on the grid; bytes of a torn staging file (it is "not whole"); a `committed.csv` that is only partly written (it never becomes visible). `MaxFaults` bounds crashes and failed file operations, `MaxEdits` operator edits and deletions.

`CandleHistory` is the reader's view: rows grow at the two ends only, at the lower end only while the "incomplete" flag is up, rows and flag change together, and trimming keeps a contiguous part.

### MexcFuturesUpdate, RebuiltHistory

The same files, clock, faults and history variables as `MexcSpotUpdate`, with the decisions of `MexcStaging` it shares, and `pc` walking through the worker lambda of the Futures `updateMarketData`. Its marker is of version 1 and has a start but no cursor. `ProbeEmpty` and `ProbeFound` are the two outcomes of the probe; a found prefix turns the run into a rebuild (`walk.rebuild`), which downloads from the requested start and publishes through `Replace`, the merge of `replaceCsv` with its value check. `revised` is the set of stored slots for which the venue now has other values (`Revise`): the merge then refuses (`ReplaceRefused`). A walk may end below the last completed candle or above its start; `Extends`, `Covered` and `Bounds` decide what may be staged and whether the walk was provisional.

`RebuiltHistory` adds one step to `CandleHistory`: while the flag is up a step may fill holes and extend both ends, and keeps every row.

### MexcFunding

A rate is a pair of the number of its settlement and whether the venue had corrected it. A scan asks page by page, newest first; `scan` is the worker's memory, with the metadata of its first page. `Settle` lands a settlement between two requests, which shifts the pages; `OnPage` and `Shown` say what the venue may answer until it is `whole`: any part of its list, with metadata that agrees (an answer whose metadata does not agree is `PageRejected`). `PagesShifted` starts over (`MaxRescans` times), `PageRejected` and `PagesOverlap` give up, `EmptyFirstPage` retries `MaxAttempts` times, `MergeRates` replaces the file in one step (see AtomicFile), `MergeRefused` is the conflict check. `scan.honest` is a history field: all answers of this scan were complete.

### OkxUpdate

A slot is a minute, with calendars of a few slots to a day and a month; the span the code gives a monthly file is longer than a month and shorter than two, as in the code (`CalendarAssumption`). `StartRun` lists the archives as they are published at that moment (`Published`: a file appears `Lag` after its period) and makes the plan: candle files, and for each stretch of at least a day without one (`StretchBefore`, `Cursor`) the trade files in it. `Current` is the loop in the order of `stable_sort`; `SkipEntry`, `FoldTrades`, `AppendCandles` and `StretchEnds` are its branches, `Fed`, `FeedBars` and `FinishBars` the aggregator (`OkxTradesAggregator`), `AppendRest` the REST part. Every append goes through `New`, the filter against the tail, and may be cut after any row (`CutAppend`). The funding worker is the same loop without daily files and trades (`venue.funding`).

`flat` marks the rows that were filled in as minutes without a trade. `cutShort` records that a run ended inside a stretch, or that REST rows passed one.

Abstracted: candle values, the contract value, download and parsing of an archive file (a failure is `RunFails`). The publication delay is the same for all files, which is an assumption on the venue. So is `RestAssumption`: what REST serves at all reaches back further than the archive lags behind and includes the recent rows of the archive (README.md:457-458 of the repository: candles back to the listing date, funding rates for about three months; a delisted instrument is served nothing); and the archive lacks only months that were long past at the start (`okx_downloader.cpp:834-838`), so that REST rows do not lie in a month the archive will never have while the next one is still to be published.

### CandleAggregator, CandleFiles

`CandleAggregator` is the pure part of `aggregateFile`: which lines compete (`Competing`), which are kept (`Keep`, the predecessor chain of `selectLongestIncreasingTimestamps` with its binary search), which buckets are torn, stray or incomplete, what is emitted, and whether the old target may be replaced (`MayReplace`). A line is a slot and a kind: whole, a wrong number (cut short, still a number), an odd number (one for `--repair`, not for the aggregator: beyond a double, or hexadecimal), not a number, torn, misaligned (a timestamp that no bar has, or too far ahead) or without a timestamp. A bar is the set of lines it was folded from. The program always passes `rewrite`, so append mode is not modelled.

`CandleFiles` puts it among the commands that share the files of one symbol: an append-only download (its tail repair, buffered flushes that may end inside a row, death), `Repair` (`verifyFile` with `--repair`) and an aggregation in four steps, opening, first pass, second pass and recheck. Download and repair exclude each other through the run lock. The aggregation excludes neither: the lock is keyed by exchange, and README.md:401-402 of the repository aggregates OKX data without `-e`. `stamp` is the size and modification time the aggregator compares, `agg.seen` (for the properties only) the file as it was opened. `OldBarsSurvive` is stated with `Defective`, what can be wrong with a bucket in the file (a row missing, repeated, out of order or not a number, or a line that could have been one of its rows), and not with what the aggregator takes to be wrong. The repair and the aggregator do not agree on what a row is: `Parsed` are the lines that `verifyFile` keeps and sorts by `Time`, odd and misaligned ones among them, `Wide` those that compete in the aggregator, and of these `Numeric` those it believes. `RepairedSourcePublished` therefore leaves out the buckets that are `Tainted` by a row the repair keeps. Opening the source and reading its size and time are one step; a rename between the two, by which the old lines would be read under the new size and time and pass the recheck, is left out, and so are sums that leave the range of a double. `FilesAssumption` says that no bar of an old file is ahead of the clock, as no downloader stores a candle that has not begun (a misaligned row may be); the properties are about what runs make of such files.

### AdvisoryFileLock, Mutex

One action per system call of `acquire` and `release` (POSIX build): `open`, `fstat`, `flock`, unlock, `close`, and the death of a process at any of them. `name` is the inode that the path names, `desc` what a process has open, `locker` the kernel's table. Its definitions have names of their own (`LockNext`, `OpenLockFile`, `Proceed`), because the proofs take it together with `AtomicFile`. The refinement maps the owner of the kernel lock, as seen by the class, to `holder` of `Mutex`. The Windows branch is not modelled.

### AtomicFile, AtomicReplace

One action per step of a writer's life: enter, open, each write, flush and close, rename, removal of the sibling, release; each can fail where the code handles failure, and the process can die anywhere. `content` records for every inode and position whose bytes are there, so a mixture of two writers would be visible. `Locking` selects the mode of the constructor. All production users pass `Locking::None` and run under the run lock; the sibling mode is only used in tests. `locking` is a variable chosen at the start, so one run covers both.

### WorkerPool

The command thread prepares the list, launches one worker per symbol behind the semaphore and collects the futures; workers run, retry transient faults while holding their slot, give it back inside their thread (`Unlock`, the destructor of `SlotGuard`), and end (`Leave`). Launches and callbacks can fail. `Unwound` is the destructor of the futures on the exception path, which joins what was launched. A list that loses its last name is refused; one that is empty to begin with, because `-d` has work for all of it, launches nothing.

### DownloadCommand

A symbol has a status at the venue (`trading`, `stopped`, `absent`) and perhaps a CSV file. A command gets `-s` (`asked`; none stands for all) and `-d` (`removal`), reads the listing once (`seen`) and chooses what to update and what to remove (`Chosen`, one `...Choice` per downloader, built from `Universe`, `ByFile`, `ByName` and `ByKnownName`, the forms they have in common). Then each worker delivers or throws, and may have written either way; `CollectAll` is `waitAllOrThrow`, and only behind it `Remove` takes the files one by one. The listing may change (`Relist`, `MaxChanges` times) and the process may die at any point. Lighter's choice is that of Hyperliquid, Kraken's serves Futures and Spot, the funding commands of the others choose as their candle commands do (Bybit's as the one for Futures candles). `Packed` is the set of symbols of which the OKX directory has a compressed file, `Archived` that of Kraken's funding archive.

Abstracted: T6 files, which follow their CSV, names that cannot be file names (`WorkerPool`), and what a worker writes.

### CsvTail, TailUpdate

`CsvTail` models a CSV as a sequence of lines of which only the last may lack its newline, and `CsvData::lastValidRecord` as `Records`, `Kept` and `Repaired`: the file is cut after the last *terminated* valid record or, when there is none, after its first line, which is kept whatever it is. Appending continues an unterminated line, and what comes of that is junk.

`TailUpdate` is the worker of one symbol over many runs. The variable `client`, chosen at the start and never changed, says which downloader it is:

| `client` | Code | What distinguishes it |
|---|---|---|
| `binance` | `downloadCandlesToCSVFile` | one attempt; the tail is kept in memory; the end lies a minute before the local clock whatever the bar size (`Margin`), and candles that close after it are filtered out |
| `paged` | Bybit, Hyperliquid, Lighter candles | the end is the local clock; the tail is read again before every attempt and every page; the stored tail is asked for once more |
| `delisted` | Kraken Futures candles | as `paged`, after the tail, with the clock read for every attempt; a run of flat bars is held until a traded bar follows (with `Busy = Candles` this is a live contract) |
| `seeded` | Kraken Futures funding | a file without a row is seeded from the archive, then one unpaginated answer is appended |

A slot is one candle. Clocks count minutes, a candle lasts `Span` of them, and the venue's clock is the time: candle `s` is open from `Opens(s)` to `Closes(s)`. The local clock may be up to `Behind` minutes behind and `Ahead` minutes ahead at each reading (`ClockRead`). The venue also answers with the candle that is still open; what keeps it out of the file is an end taken from the local clock and nothing else: Binance filters the page itself, for the others the client library drops what closes after the end asked for. `TornWrite` stops inside a line, or between a line and its newline, because the process dies or the disk is full (the worker then throws and the run ends); `Interrupted` is a death or a failure elsewhere; `Retry` is a transient fault of a request. `MaxFaults` bounds the three together.

Abstracted: the growing read window of `lastValidRecord` (it finds the same line); the retention start of Hyperliquid and the listing date of Lighter (a fixed `Floor`); which messages are transient. That a client library drops what closes after the end asked for is known from a comment about Bybit's (`bybit_downloader.cpp:451`: "the pop_back condition in getHistoricalPrices"), assumed for the other venues and marked external. The end of a delisted symbol, its delivery date, is not modelled. `ArchiveAssumption` says the funding endpoint still reaches back to the end of the archive when a run asks, which is what the repository's README requires of the user ("keep collecting", README.md:60).

## 3. Runs

| Run | Question | Instance | States |
|---|---|---|---|
| `spot_safety` | Do CSV, marker and staging stay consistent through crashes, edits, deletions and a lossy venue? | 6 slots with a gap, pages of 2, floors 1 and 3, 2 faults, 2 edits | 811 k |
| `spot_progress` | Do prefix and tail arrive in the end? | late listing, a gap longer than a page, 1 fault, 1 edit | 6.3 k |
| `mexc_futures` | Do marker and rows stay consistent through rebuilds, and rates through shifting pages; do prefix and gaps arrive? | candles: 5 slots with a gap, floor 2, pages of 1, 2 faults, 1 edit or revision; rates: 4 settlements, pages of 2, 2 rescans, 2 attempts, 1 fault, 1 edit | 165 k |
| `advisory_lock` | No stale lock, honest contention, refinement of `Mutex` | 3 processes, 2 inodes | 549 |
| `atomic_file` | Atomic replacement in both locking modes, siblings kept under the run lock | 2 processes, 4 inodes, images of 1 and 2 writes | 192 k |
| `worker_pool` | Bound, nothing left running, no result lost, termination; does a removal hit only what may go, and does what is delisted stay maintained? | 5 lists with repetitions, an unsafe name and none, 2 slots, 3 attempts; nine downloaders, 2 symbols, 2 changes of the listing | 361 k |
| `tail_update` | Ascending, closed by the local clock, no hole, no loss, progress, for all four clients | 5 candles of 3 minutes around a gap, 17 minutes, a clock 1 minute behind to 2 ahead, pages of 2, 2 attempts, 2 faults | 98.0 k |
| `okx_update` | Is no archived row passed over, do stretches come from trades, do flat bars end, does the tail arrive? | 15 slots, 2 to a day, 4 to a month; five instruments; 1 fault, 1 deletion | 76.2 k |
| `candle_files` | Are bars whole buckets of one state of the source, old bars safe, repaired ones published? | 5 slots, buckets of 2; all sources of up to 2 rows in any order with a damaged first line, two with an outlier, eight with misaligned or odd rows; 1 download, 1 death | 317 k |
| `tail_seed_doc` | Do REST rows continue the archive without a gap, as commented? | client `seeded`, 1 fault | violated |
| `tail_header_doc` | Does the next append start on a clean boundary, as commented? | client `binance`, 1 fault | violated |
| `okx_fold_doc` | Does folding the trades reproduce the candles, as commented? | as `okx_update` | violated |

**Why the bounds are enough to be interesting.** In `spot_safety` two faults allow a crash while cleaning up after a crash, two edits a restore after a deletion; six slots hold a gap, two pages and a candle that closes during the run. In `spot_progress` one fault and one edit suffice to leave each kind of leftover a later run has to get past: stale staging, a manifest that was not yet published, a provisional marker; the combinations of two are left to the safety run. In `mexc_futures` the file begins above the venue's first candle with a gap between, so a rebuild both prepends and fills; two faults reach a crash while the leftovers of another are recovered; four settlements on pages of two give a scan of two pages and a settlement between them. In `okx_update` the five instruments are the cases the code's comments name: an archive that begins inside a month, none at all, a halt of two months, a live and a funding instrument; the horizon leaves three complete months. In `candle_files` one download writes up to four rows in up to four flushes while an aggregation and a repair run, and an outlier needs three rows. In `tail_update` six slots leave room for three pages, a gap at slot 3 and flat bars between trades; a candle of three minutes is longer than Binance's margin, and a clock two minutes ahead is past that margin too, so candles that are still open do get stored by three of the clients; two faults reach a torn write followed by an interrupted repair. Three processes on the lock are needed for owner, waiter and newcomer. The worker pool has more jobs than slots and more attempts than one. Of the two symbols of the commands one is in the universe and one outside it, and two changes let a symbol stop and vanish, or vanish and come back, between and during commands; symbols do not influence each other except through the one failure that ends a command. The proofs (section 5) drop these bounds for the safety properties they cover.

**Deadlock** is checked everywhere except in `worker_pool`, whose pool of one command ends.

### Disagreements the runs show

1. `tail_seed_doc`: a funding seed cut short leaves a record, so the archive is never read again and the REST rows follow a permanent hole. The comment at `kraken_downloader.cpp:499` says they continue without a gap.
2. `tail_header_doc`: a header without its newline is kept by the repair. The next append sees a file that is not empty, writes no header and glues its first row to the fragment. `csv_data.h:45` says the next append starts on a clean newline boundary. `NoHole` and `TailCatchesUp` are therefore stated for files whose header is whole, and `RowsKept` for all files.
3. `okx_fold_doc`: the candle file of the month in which the archive begins and the trade file of that month have the same date, and the stable sort leaves the candle file in front. The stretch is closed with flat bars up to the first candle before the month's trades are folded; the trades are then behind the tail. `okx_downloader.cpp:839` says the fold reproduces the candles exactly, and 889-891 that the hand-over keeps 1-19 August 2023 from being left missing. `StretchFolded` is therefore stated for months without candles in them or behind them.

### Facts met while modelling that no run is spent on

* A Spot page that began at the requested start makes the worker remove the marker even when its oldest row lies above that start (`mexc_spot_downloader.cpp:637`); README.md:182 of the repository and the comment at 596 say that scanning continues below the new first row. The comment at `mexc_futures_downloader.cpp:608` says the same of the Futures marker ("until stored data actually reaches the requested start"), which a complete walk removes as well.
* If the sibling cannot be opened, the writer gives its lock back but keeps `ownsTemporary_`; its destructor may remove `<target>.writing` of another writer, which `atomic_file.h:51` excludes. Only in the locking mode that tests use; `KeptUnderRunLock` is the statement for production.
* A torn last row whose number still parses is read by the aggregator and by `--repair`, which gives it a newline and so makes it permanent (`csv_verifier.cpp:160`).
* A corrected value at a stored Futures candle makes the rebuild refuse in every run; the prefix then never arrives. A fresh file whose first row lies above the requested start is refused likewise without a marker (`mexc_staging.h:299`).
* OKX: a run that ends inside a stretch with less than a day of it left never returns to it (`okx_downloader.cpp:912`), REST rows may pass the stretch in front of a file that is published later (1072), and the span of a monthly file (32 days) reaches beyond a month (916). `cutShort` excludes the first two from `StretchFolded`. A stretch that is shorter than a day from the start, because `--since` lies in the last day before a candle file, is not folded either (`Foldable`).
* A repair sets a new modification time, so the aggregator counts a bucket as ended that was still running when its bars were loaded; the bars it lacks make it incomplete, so it is not published (`candle_aggregator.cpp:1076`).
* With `-d` both MEXC downloaders delete the files of symbols that trade but lie outside the set they update, pairs without USDT and tokenised stocks, for instance after they were downloaded with `-s` (`mexc_spot_downloader.cpp:404-417` and `423-433`, `mexc_futures_downloader.cpp:424-432` and `444-447`); `main.cpp:120` describes the option as deleting delisted symbols. `RemovalJustified` exempts these symbols.
* With `-d` Kraken's funding command updates contracts only the archive still has and removes the same files at its end, the archive being consulted behind the selection (`kraken_downloader.cpp:703-719`); by `kraken_downloader.h:24` such contracts are left out when `-d` is given. Exempted likewise.

* `--repair` keeps every row with all fields, an integer of at most 19 digits as timestamp and finite `long double` numbers (`csv_verifier.cpp:33-54`); the aggregator wants timestamps on the minute and doubles (`candle_aggregator.cpp:127-173`, `446-454`). A file with rows at 0, 30000 and 60000 needs no repair, and its bucket is never published; sorting a misaligned row to its place can taint a bucket that was published before, whose bar then goes. No command heals either (`Tainted`).
* `launchBounded` is described as a bound on the number of live OS threads (`future_utils.h:45-46`). The slot goes back in a destructor inside the worker's thread, so the next one may start while the old thread has yet to make its future ready and end: threads that are ending come on top of the bound. `WorkersBounded` counts the workers that hold a slot.
* The margin with which Binance leaves out the open candle is a minute whatever the bar size (`binance_spot_downloader.cpp:194`, `binance_futures_downloader.cpp:277`), and Bybit, Hyperliquid, Lighter and Kraken have none. A local clock that is more than a minute ahead of the venue's, for these four one that is ahead at all, therefore lets a candle be stored before it has closed; it is never corrected, because later runs skip stored times. `OnlyClosed` is stated with the two clocks for this reason; it is tight, a minute less is violated.

## 4. Fairness

* `MexcSpotUpdate`: weak fairness of the worker as a whole, of a started deletion, of the clock and of the venue's recovery. The tool is run from a timer again and again, and a started run takes its next step; crashes and edits are bounded, so they end. No fairness is assumed of any single outcome of a step.
* `DownloadCommand`: none; it has safety properties only.
* `WorkerPool`: weak fairness of the command thread and of each worker thread. Threads are scheduled, and the REST clients have timeouts, so a worker's request ends.
* `MexcFuturesUpdate`, `MexcFunding`: as Spot; the worker as a whole, the clock or the settlements, and the venue's recovery. Outcomes of a request, rescans, crashes and edits are not fair.
* `OkxUpdate`: the worker as a whole, the clock, and the end of failing requests.
* `CandleFiles`: the clock, the end of a started download, the steps of a started aggregation, and that both local commands are run again and again. The fairness of `SecondPass` and `Repair` is written out as "`pc` leaves `second` again and again" and "again and again the lock is taken or there is nothing to repair", the meaning of `WF` for actions that are enabled in exactly the other states and always change what they speak of. Downloads, flushes and deaths are not fair. `RepairedSourcePublished` speaks of the time when the bounded downloads are over.
* `TailUpdate`: weak fairness of the disjunction of the worker's steps, `StartRun` included. Retries and faults are not part of it.

The lock and the atomic writer have safety and refinement properties only.

## 5. What is proved

TLAPS checks eight proof modules to the last leaf. The assumptions are the named `ASSUME`s of the modules, each evaluated by TLC in the passing runs. Every safety property, action property and refinement that a passing run checks is a theorem, for every value of the constants within the assumptions.

**NumberSets_proofs** has what the others share. Sets of numbers have a first and a last member, because the naturals are well founded; `Induction` and `StrongInduction` are stated for sets (`S \subseteq Nat` that contains its successors is `Nat`), which makes induction usable without an operator as parameter; `RankGrows` and `InOrderFits` describe a set read in order.

**MexcSpotUpdate_proofs** (`MexcStaging`, `MexcSpotUpdate`): `TypeCorrectness`, `SuffixMarked`, `HolesAnswered`, `ClosedOnly`, `FloorRespected`, and `HistoryImplemented`, that the worker with crashes, deletions and operators implements `CandleHistory`; for every time line, page size, venue history, set of floors and number of faults. None of the safety properties is inductive. `IInv` adds what the worker's memory holds at each `pc` (`MemoryFits`, `PageFits`, `WalkFits`), what may be staged (`NoStaging`, `StagedFirstFits`), that a reconciled marker lies at or above the floor, and the strong form of the hole property: everything between first and last row, and everything from a live cursor up to the rows, was answered (`HullAnswered`, `CursorAnswered`). `CursorAnswered` is the heart of it: it is why merging a page at the cursor closes the distance to the first row. The lemmas `CommittableContinues`, `PublishKeepsRows`, `TrimKeepsRows` and `MergeKeepsRows` say what the disk-changing steps do; `ProbeWindowFits` bounds the scan's windows.

**MexcFutures_proofs**, candles: `TypeCorrectness`, `SuffixMarked`, `HolesAnswered`, and `HistoryImplemented` against `RebuiltHistory`. `WalkExtends` says how a walk lies to the file it was made for: a rebuild begins below all of it and reaches its end, any other walk continues it or starts where the marker says. `StagedIsWalk` ties the directory to the walk, `ScannedOwesNothing` says that a walk over its whole range has nothing left to owe, and `OwedIsMarked` is the strong form of the marker property: the marker names exactly the floor that is owed, and no row reaches it.

Funding rates: `FundingTypes`, `NothingSkipped`, `RatesStay`, for any number of settlements, page size, cutoff, attempts, rescans and faults. `RatesStay` rests on the merge containing the file and on neither the file nor the answer having two rates for one settlement (`OneEach`). `NothingSkipped` needs to know what the pages read so far cover: `ReadFits` says that every row read lies at or above the oldest row of the last page, so that the next page cannot return one of them; `PagesCovered` says that, as long as every answer was complete, the pages read are exactly the newest `(page - 1) * RatesPerPage` settlements of the snapshot, with every one from the cutoff on kept. The lemma `CompletePage` says that a page of a complete answer is the stretch below them.

**AtomicFile_proofs**, the lock: `Exclusion`, `NothingStale`, `ContentionReal`, `MutexImplemented`, for any number of processes. The strengthening is `OneFile`: every open descriptor has the inode the path names. It is preserved because the path is never unlinked, which is what the comment at the release says and what the comment warns of.

The writer: `TypeCorrectness`, `RunLockSuffices` (`KeptUnderRunLock`), `NothingLeftBehind`, `ReplacementAtomic`, in both modes. Only the lock's holder is between opening and renaming the sibling (`HeldInside`), so the inode it writes is named by nothing else (`WritingFits`) and is a whole image when it is renamed (`ClosedFits`).

**Commands_proofs**, the pool: `SlotsHold`, `CommandLeavesNothing`, `PoolTypes` and `NothingLost`, for any lists, slots and attempts. `SlotsInv` counts permits, the workers that hold one (`Holding`) and the launcher together, and knows that collected futures are done. `DeliveryInv` adds which jobs, tasks and outcomes there are (`JobsFit`, `WorkersFit`, `ResultsFit`); `JobsCover` shows that cleaning the list drops repetitions and unsafe names and nothing else, so a result that is missing at the end would have to be a worker that was never collected.

The commands: `CommandTypes`, `RemovalsJustified`, `NothingDropsOut`, for any symbols, universe, archives and number of listing changes, and each downloader. The listing moves on while a command runs, so the properties cannot be read off the state of the venue; the invariant ties the command to the listing it has *read* instead. `WaveFits` says that what is being updated, what was updated or failed, and what is still to be removed all stem from one choice (`ChoiceSound`, proved per downloader, gives what such a choice may contain), `OkxFits` that for OKX nothing on disk is missing from it, `IdleFits` that an ended command has forgotten everything. That workers may create files but no step other than `Remove` takes one is in the steps of `RemovalsJustified`.

**TailUpdate_proofs**: `TypeCorrect`, `RowsAscend`, `StoresClosed`, `FlatBarsHeld`, `NothingMissing`, `NoRowLost`, for every venue history, floor, page size and number of attempts and faults. The first group of lemmas says what `CsvTail`'s operators do to a file of `Shape` (rows from the second line on, ascending, perhaps one torn last line): `RepairedIs`, `AppendRowIs`, `AppendHeaderIs`, `AppendTornIs`. `Inv` then relates the file to the worker: at most the header is unterminated when it writes, what is pending lies above what is stored, the tail kept in memory is never behind the file (`Remembered`), and the end asked for, and with it every pending or stored candle (`Final`), lies within what the two clocks allow. `HInv` carries the absence of holes: as long as the header is whole, everything promised below the next request is stored, pending or held (`Covered`), and both the stored and the pending rows are downward closed in what was promised (`Contiguous`, `PendingContiguous`). `PageSegment` shows that a page leaves out nothing below its last candle; for the unpaginated endpoint this is where `ArchiveAssumption` is needed.

**CandleFiles_proofs**: `LongestIsKept`, `BarsReflect`, `OldBarsStay` and `TypeCorrectness`, for every source, width of a bar, clock and number of downloads and faults. The first part is about the pure algorithm. `ScanFits` describes what the patience scan of `selectLongestIncreasingTimestamps` holds after `n` lines: `level[i]` is the length of the longest increasing subsequence that ends at `i`, and `tails` the smallest last members; it is kept by each line (`ExtendFits`, with `PositionFits` for the binary search) and holds at the end by induction (`PatienceFits`). `ChainFits` does the same for the predecessor chain, and `KeepFits` is the result: what `Keep` returns is in order, and no set of competing lines in order is larger. The second part goes from kept rows to bars: a bucket that gets a bar had all its lines kept (`RenderedIs`), one that was seen and is left out is `Defective` in the file (`IncompleteIs`). The third part is the interleaving. `AggFits` says that as long as the version of the file is the one that was opened, so are its lines, which is what makes the recheck pin the bars to one state of the source; `RecheckFits` carries what may be put in place until then.

**OkxUpdate_proofs**: `TypeCorrectness`, `ArchiveIsStored`, `FlatBarsEnd` and `StretchesFolded`, for every calendar, publication lag, instrument, floor and number of faults. The first invariant is about the archive. A run lists it once, so a row is *settled* when the file of its period was there at the start of the run (`Settled`); `PlanHolds` says that what is settled and still behind the tail is in the plan. A batch is `Sound` when it passes no row of the archive that it does not have: a stretch is, because it is handed over at the first row of a file that is still planned (`HandOver`), and REST is, because it reaches back further than the archive lags behind. `FoldFits` keeps the same for the aggregator while a stretch is open.

The second invariant (`SInv`) is about the stretches, and much more of the code takes part in it. `TradesPlanned`: every minute of a stretch behind the tail is in progress or in a trade file of the plan. `EntriesApart` and `FoldApart`: stretches follow one another and trade files come in order, so that folding one file never goes behind another. `FoldCaughtUp`: what the aggregator closed is stored as far as it lies in its stretch. `DaysWhole`: between runs the tail never stands inside the last day of a month of a stretch, because the rest would be shorter than a day and never be planned again; a stretch that ends at a candle file ends with its last minute (`StretchEndsFull`), an open one with the last trade of a day whose file was read (`OpenEnd`), and a REST row in a month without candles means that the month was long past (`RecentTail`). Together they show that every append is `Complete`, so the trades up to the tail are stored.

The proof showed two things the model had to say. `StretchFolded` was at first stated without the condition that a day of the month lies behind the floor (`Foldable`): a stretch shorter than a day is not folded, also with `--since` in the last day of a month. `RestAssumption` says that an instrument whose recent months have REST rows has candles in the archive for them; the code's comment on what the archive lacks (`okx_downloader.cpp:834-838`) is about months that are long past.

## 6. What is only model-checked

* All liveness: `PrefixRecovered` and `TailCatchesUp` (wherever stated), `GapsFilled`, `RepairedSourcePublished`, `CommandEnds`. Liveness under fairness is out of reach of the prover used.
* The three violations of section 3, which are counterexamples and not theorems.
* The refinement theorems prove the safety part of the abstract specifications, which state no fairness.

## 7. Plan

Order of the plan, by importance; 1 to 7 exist.

1. `MexcStaging`, `MexcSpotUpdate`, `CandleHistory`: modelled, checked, proved.
2. `AdvisoryFileLock`, `Mutex`, `AtomicFile`, `AtomicReplace`: modelled, checked, proved.
3. `WorkerPool`, `DownloadCommand`: modelled, checked, proved.
4. `CsvTail`, `TailUpdate`: modelled, checked, proved.
5. `MexcFuturesUpdate`, `RebuiltHistory`, `MexcFunding`: modelled, checked, proved.
6. `OkxUpdate`: modelled, checked, proved.
7. `CandleAggregator`, `CandleFiles`: modelled, checked, proved.
8. Kraken's spot fold and Lighter's listing probe as further clients of `TailUpdate`; funding files of the paged venues.
9. An abstract specification of `TailUpdate`, what a reader of an append-only file is promised, and the proof that the worker implements it.

## 8. What is not modelled, and why

Whether a listing is complete: with `-d` every downloader takes the venue at its word, and a listing that is empty or cut deletes the files of what it leaves out; there is nothing in the code a model could check it against. Append mode of the aggregator is never selected by the command line. The loops of aggregator and verifier over a directory run independent files. Gap reports and the salvage of a legacy extra field do not change which rows are kept.

Text formatting and parsing, option parsing, logging and HTTP are left out: stateless, unit tested, or pure I/O. T6 conversion is `AtomicFile` with a record layout the models do not look at. Power loss with reordered disk writes is below the file system semantics assumed here, in which a process may die but the kernel keeps its writes (`commit` does not `fsync`). A `/tmp` cleaner that unlinks a held lock file is outside the program. `exchangeSymbolSet` of the Binance worker is captured by reference and destroyed before the futures on an exception path; destruction order within a frame is below the level of `WorkerPool`. Kraken symbols that live in the funding archive only, for which the venue is not asked, are a `seeded` worker that stops after the archive.
