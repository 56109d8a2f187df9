--------------------------- MODULE MexcSpotUpdate ---------------------------
(***************************************************************************)
(* One MEXC Spot symbol across any number of downloader runs: the worker   *)
(* lambda of MEXCSpotDownloader::updateMarketData step by step, the files  *)
(* it leaves behind when it is killed between two steps, and the run that  *)
(* finds them.                                                             *)
(*                                                                         *)
(* RunLock keeps a second downloader away from the same tree, so at most   *)
(* one worker of the symbol runs and what it has read of its own files     *)
(* stays true; operators touch the files between runs only.                *)
(***************************************************************************)
EXTENDS MexcStaging

CONSTANTS
    Traded,       \* the slots the venue has a candle for
    Floors,       \* the slots a run may be given with --since
    FirstClock,   \* the slot that is open at the start
    MaxFaults,    \* bound on crashes and failed file operations
    MaxEdits,     \* bound on what operators and -d do to the files
    ScanReaches   \* TRUE: RequestedRangeScanned implies a row at the start

ASSUME TradedAssumption == Traded \subseteq Slot
ASSUME FloorsAssumption == Floors \subseteq Slot
ASSUME ClockAssumption == FirstClock \in Slot \ {0}
ASSUME BoundAssumption == MaxFaults \in Nat /\ MaxEdits \in Nat
ASSUME ScanAssumption == ScanReaches \in BOOLEAN

VARIABLES
    csv,        \* on disk: the slots stored in <SYMBOL>.csv
    marker,     \* on disk: <SYMBOL>.csv.prefix.pending, or None
    staging,    \* on disk: temp_<SYMBOL>/, or None
    pc,         \* where the worker is; "idle" between runs
    run,        \* what the worker fixed when it started
    page,       \* older candles the prefix scan got
    walk,       \* newer candles the download got
    clock,      \* the slot the venue's server time lies in
    healed,     \* the venue has stopped omitting candles for good
    faults, edits,
    owed,       \* history: floor of the published suffix's missing prefix
    answered,   \* history: slots a durably recorded venue answer covered
    openEnded   \* history: the staged rows came from a provisional walk

disk == <<csv, marker, staging>>
memory == <<pc, run, page, walk>>
world == <<clock, healed, faults, edits>>
history == <<owed, answered, openEnded>>
vars == <<disk, memory, world, history>>

Run == [floor : Slot, explicit : BOOLEAN, live : BOOLEAN, last : Slot]
Page == [start : Slot, end : Slot, rows : SUBSET Slot]
Walk == [start : Slot, rows : SUBSET Slot, scanned : BOOLEAN, fresh : BOOLEAN]

Deleting == {"deleteMarker", "deleteStaging"}
Working == {"recover", "tidyRecovered", "tail", "floor", "prefix", "stagePage",
            "mergePage", "tidyPage", "resolve", "range", "stage", "mark",
            "manifest", "commit", "tidy", "retire"}

TypeOK ==
    /\ csv \subseteq Slot
    /\ marker \in Marker \cup {None}
    /\ staging \in Staging \cup {None}
    /\ pc \in {"idle"} \cup Deleting \cup Working
    /\ run \in Run \cup {None}
    /\ page \in Page \cup {None}
    /\ walk \in Walk \cup {None}
    /\ clock \in Slot \ {0}
    /\ healed \in BOOLEAN
    /\ faults \in 0 .. MaxFaults
    /\ edits \in 0 .. MaxEdits
    /\ owed \in Slot \cup {None}
    /\ answered \subseteq Slot
    /\ openEnded \in BOOLEAN

\* Files older versions left behind may end with the then open candle.
Init ==
    /\ \E lo, hi \in Slot : csv = {t \in Traded : lo <= t /\ t <= hi /\ t <= FirstClock}
    /\ marker = None /\ staging = None
    /\ pc = "idle" /\ run = None /\ page = None /\ walk = None
    /\ clock = FirstClock /\ healed = FALSE /\ faults = 0 /\ edits = 0
    /\ owed = None /\ openEnded = FALSE
    /\ answered = IF csv = {} THEN {} ELSE Min(csv) .. Max(csv)

-----------------------------------------------------------------------------
(* The venue (mexc-cpp-api, not in this repository) *)

\* An answer for [lo, hi): what has traded by now, less what an outage omits.
Answers(lo, hi) ==
    LET held == {t \in Traded : lo <= t /\ t < hi /\ t <= clock}
    IN  IF healed THEN {held} ELSE SUBSET held

\* A faulty venue may add the candle right after the requested range.
Overshoot == IF healed THEN 0 ELSE 1

-----------------------------------------------------------------------------
(* Steps shared by several places of the worker *)

Goto(next) == pc' = next /\ UNCHANGED run

Finish == /\ pc' = "idle" /\ run' = None /\ page' = None /\ walk' = None

\* A history variable forgets what the CSV no longer holds.
Forget(kept, hi) ==
    /\ owed' = IF kept = {} THEN None ELSE owed
    /\ answered' = IF kept = {} THEN {} ELSE {t \in answered : t <= hi}

\* mexc_staging::commit, the rename that publishes a staged transaction
Publish ==
    LET man == staging.man IN
    /\ csv' = csv \cup staging.rows
    /\ answered' = answered \cup (man.start .. man.last)
    /\ owed' = IF man.hasBase THEN owed
               ELSE IF openEnded /\ man.start < man.first THEN man.start ELSE None
    /\ UNCHANGED <<marker, staging, openEnded>>

\* mexc_staging::discard
Discard == staging' = None /\ UNCHANGED <<csv, marker>>

-----------------------------------------------------------------------------
(* A run begins: recover, repair the tail, reconcile the marker *)

StartRun ==
    /\ pc = "idle"
    /\ \E explicit, live \in BOOLEAN, floor \in Slot :
         /\ IF explicit THEN floor \in Floors ELSE floor = 0
         /\ run' = [floor |-> floor, explicit |-> explicit, live |-> live,
                    last |-> clock - 1]
    /\ pc' = "recover"
    /\ UNCHANGED <<disk, page, walk, world, history>>

RecoverNothing ==
    /\ pc = "recover" /\ staging = None
    /\ Goto("tail")
    /\ UNCHANGED <<disk, page, walk, world, history>>

RecoverDiscard ==
    /\ pc = "recover" /\ staging # None
    /\ Discardable(staging, csv, run.floor)
    /\ Discard
    /\ Goto("tail")
    /\ UNCHANGED <<page, walk, world, history>>

RecoverCommit ==
    /\ pc = "recover" /\ staging # None
    /\ ~Discardable(staging, csv, run.floor)
    /\ Committable(staging, csv, marker)
    /\ Publish
    /\ Goto("tidyRecovered")
    /\ UNCHANGED <<page, walk, world>>

\* "Could not recover complete staging": the worker fails, the files stay.
RecoverRefused ==
    /\ pc = "recover" /\ staging # None
    /\ ~Discardable(staging, csv, run.floor)
    /\ ~Committable(staging, csv, marker)
    /\ Finish
    /\ UNCHANGED <<disk, world, history>>

TidyRecovered ==
    /\ pc = "tidyRecovered"
    /\ Discard
    /\ Goto("tail")
    /\ UNCHANGED <<page, walk, world, history>>

\* truncateAfter drops the candle an older version stored while it was open.
RepairTail ==
    /\ pc = "tail"
    /\ csv' = {t \in csv : t <= run.last}
    /\ Forget(csv', run.last)
    /\ Goto("floor")
    /\ UNCHANGED <<marker, staging, page, walk, world, openEnded>>

ReconcileFloor ==
    /\ pc = "floor"
    /\ IF run.explicit /\ marker # None
       THEN /\ marker' = ReconciledMarker(marker, csv, run.floor)
            /\ owed' = IF owed = None \/ marker' = None THEN None ELSE marker'.start
       ELSE UNCHANGED <<marker, owed>>
    /\ Goto("prefix")
    /\ UNCHANGED <<csv, staging, page, walk, world, answered, openEnded>>

-----------------------------------------------------------------------------
(* The backward scan of an unresolved prefix, one page per run *)

NoPrefix ==
    /\ pc = "prefix" /\ (marker = None \/ csv = {})
    /\ Goto("range")
    /\ UNCHANGED <<disk, page, walk, world, history>>

PrefixReached ==
    /\ pc = "prefix" /\ marker # None /\ csv # {}
    /\ ReachesDown(csv, marker.start)
    /\ marker' = None
    /\ Goto("range")
    /\ UNCHANGED <<csv, staging, page, walk, world, history>>

Unresolved == marker # None /\ csv # {} /\ ~ReachesDown(csv, marker.start)

ProbeEmpty ==
    /\ pc = "prefix" /\ Unresolved
    /\ LET window == ProbeWindow(marker, csv) IN
         /\ {} \in Answers(window.start, window.end)
         /\ marker' = AdvanceProbe(marker, window)
         /\ answered' = answered \cup (window.start .. window.end - 1)
    /\ Goto("range")
    /\ UNCHANGED <<csv, staging, page, walk, world, owed, openEnded>>

ProbePage ==
    /\ pc = "prefix" /\ Unresolved
    /\ LET window == ProbeWindow(marker, csv) IN
         \E rows \in Answers(window.start, window.end) \ {{}} :
           page' = [start |-> window.start, end |-> window.end, rows |-> rows]
    /\ Goto("stagePage")
    /\ UNCHANGED <<disk, walk, world, history>>

\* The old directory is discarded and the page written, without a manifest.
StagePage ==
    /\ pc = "stagePage"
    /\ staging' = [man |-> None, rows |-> page.rows, whole |-> TRUE]
    /\ Goto("mergePage")
    /\ UNCHANGED <<csv, marker, page, walk, world, history>>

\* replaceCsv: the union of the page and every stored row.
MergePage ==
    /\ pc = "mergePage"
    /\ ReplacesPrefix(page.rows, marker.start, marker)
    /\ csv' = csv \cup page.rows
    /\ answered' = answered \cup (page.start .. page.end - 1)
    /\ owed' = IF page.start = marker.start THEN None ELSE owed
    /\ Goto("tidyPage")
    /\ UNCHANGED <<marker, staging, page, walk, world, openEnded>>

TidyPage ==
    /\ pc = "tidyPage"
    /\ Discard
    /\ Goto("resolve")
    /\ UNCHANGED <<page, walk, world, history>>

\* The page that begins at the requested start retires the marker.
ResolvePrefix ==
    /\ pc = "resolve"
    /\ marker' = IF page.start = marker.start THEN None
                 ELSE [marker EXCEPT !.cursor = 0]
    /\ page' = None
    /\ Goto("range")
    /\ UNCHANGED <<csv, staging, walk, world, history>>

-----------------------------------------------------------------------------
(* The download after the tail *)

From == IF csv = {}
        THEN IF marker # None THEN marker.start ELSE run.floor
        ELSE Max(csv) + 1

\* Up to date, or --since is newer than every closed candle, or the range is
\* invalid: the worker ends without touching a file.
NothingToFetch ==
    /\ pc = "range" /\ From > run.last
    /\ Finish
    /\ UNCHANGED <<disk, world, history>>

\* What may bound the download: a symbol that is no longer listed is bounded
\* by the newest candle of a probe instead of by the clock.
AuthoritativeLasts ==
    IF run.live THEN {run.last}
    ELSE {Max(probe) : probe \in Answers(From, run.last + 1 + Overshoot) \ {{}}}

\* Mutant: the guard against candles beyond the closed range is dropped.
Acceptable_AnyEnd(rows, last) == rows # {}

Acceptable(rows, last) == rows # {} /\ Max(rows) <= last /\ Max(rows) <= run.last

\* The end of the queried range is exclusive; a venue that ignores it is
\* caught by the guard on the newest candle.
Fetch ==
    /\ pc = "range" /\ From <= run.last
    /\ \E last \in AuthoritativeLasts :
       \E rows \in Answers(From, last + 1 + Overshoot), scanned \in BOOLEAN :
         /\ Acceptable(rows, last)
         /\ ScanReaches /\ scanned => Min(rows) = From
         /\ walk' = [start |-> From, rows |-> rows, scanned |-> scanned,
                     fresh |-> csv = {}]
    /\ Goto("stage")
    /\ UNCHANGED <<disk, page, world, history>>

\* No probe answer, no candles, an unknown symbol or a candle out of range.
FetchRefused ==
    /\ pc = "range" /\ From <= run.last
    /\ \/ ~run.live /\ {} \in Answers(From, run.last + 1 + Overshoot)
       \/ \E last \in AuthoritativeLasts :
          \E rows \in Answers(From, last + 1 + Overshoot) : ~Acceptable(rows, last)
    /\ Finish
    /\ UNCHANGED <<disk, world, history>>

StageWalk ==
    /\ pc = "stage"
    /\ staging' = [man |-> None, rows |-> walk.rows, whole |-> TRUE]
    /\ Goto("mark")
    /\ UNCHANGED <<csv, marker, page, walk, world, history>>

\* Mutant: an append that ended provisionally marks the file too.
MarkProvisional_AlsoAppends ==
    /\ pc = "mark"
    /\ marker' = IF marker = None /\ ~walk.scanned
                 THEN [start |-> walk.start, cursor |-> 0]
                 ELSE marker
    /\ Goto("manifest")
    /\ UNCHANGED <<csv, staging, page, walk, world, history>>

\* The marker of a provisional first download is durable before its manifest.
MarkProvisional ==
    /\ pc = "mark"
    /\ marker' = IF marker = None /\ walk.fresh /\ ~walk.scanned
                 THEN [start |-> walk.start, cursor |-> 0]
                 ELSE marker
    /\ Goto("manifest")
    /\ UNCHANGED <<csv, staging, page, walk, world, history>>

WriteManifest ==
    /\ pc = "manifest"
    /\ staging' = [staging EXCEPT !.man =
                     [hasBase |-> ~walk.fresh, base |-> TailStamp(csv, run.floor),
                      start |-> walk.start,
                      first |-> Min(walk.rows), last |-> Max(walk.rows)]]
    /\ openEnded' = ~walk.scanned
    /\ Goto("commit")
    /\ UNCHANGED <<csv, marker, page, walk, world, owed, answered>>

Commit ==
    /\ pc = "commit" /\ Committable(staging, csv, marker)
    /\ Publish
    /\ Goto("tidy")
    /\ UNCHANGED <<page, walk, world>>

CommitRefused ==
    /\ pc = "commit" /\ ~Committable(staging, csv, marker)
    /\ Finish
    /\ UNCHANGED <<disk, world, history>>

Tidy ==
    /\ pc = "tidy"
    /\ Discard
    /\ Goto("retire")
    /\ UNCHANGED <<page, walk, world, history>>

\* A first download that scanned the whole requested range owes nothing.
RetireMarker ==
    /\ pc = "retire"
    /\ marker' = IF marker # None /\ walk.fresh /\ walk.scanned
                    /\ walk.start = marker.start
                 THEN None ELSE marker
    /\ Finish
    /\ UNCHANGED <<csv, staging, world, history>>

-----------------------------------------------------------------------------
(* -d on a symbol that is no longer listed: three removals, in this order *)

DeleteCsv ==
    /\ pc = "idle" /\ edits < MaxEdits
    /\ edits' = edits + 1
    /\ csv' = {} /\ owed' = None /\ answered' = {}
    /\ pc' = "deleteMarker"
    /\ UNCHANGED <<marker, staging, run, page, walk, clock, healed, faults, openEnded>>

DeleteMarker ==
    /\ pc = "deleteMarker"
    /\ marker' = None
    /\ Goto("deleteStaging")
    /\ UNCHANGED <<csv, staging, page, walk, world, history>>

DeleteStaging ==
    /\ pc = "deleteStaging"
    /\ Discard
    /\ Finish
    /\ UNCHANGED <<world, history>>

-----------------------------------------------------------------------------
(* What the worker does not decide *)

\* SIGKILL, power loss or an exception: what is in memory is gone.
Crash ==
    /\ pc # "idle" /\ faults < MaxFaults
    /\ faults' = faults + 1
    /\ Finish
    /\ UNCHANGED <<disk, clock, healed, edits, history>>

Removing == {"recover", "tidyRecovered", "stagePage", "tidyPage", "stage", "tidy",
             "deleteStaging"}

\* The same inside remove_all or between two batch writes: some files of the
\* directory are left, the manifest among them or not.
CrashInStaging ==
    /\ pc \in Removing /\ faults < MaxFaults
    /\ pc = "recover" => staging # None /\ Discardable(staging, csv, run.floor)
    /\ faults' = faults + 1
    /\ \E man \in {None} \cup (IF staging = None THEN {} ELSE {staging.man}) :
         staging' = [man |-> man, rows |-> {}, whole |-> FALSE]
    /\ Finish
    /\ UNCHANGED <<csv, marker, clock, healed, edits, history>>

\* Between runs an operator archives the front of the file or restores an
\* older copy of it: a contiguous part of the rows remains.
OperatorEdit ==
    /\ pc = "idle" /\ edits < MaxEdits
    /\ edits' = edits + 1
    /\ \E lo, hi \in Slot :
         /\ csv' = {t \in csv : lo <= t /\ t <= hi}
         /\ Forget(csv', hi)
    /\ UNCHANGED <<marker, staging, memory, clock, healed, faults, openEnded>>

Tick ==
    /\ clock < Horizon
    /\ clock' = clock + 1
    /\ UNCHANGED <<disk, memory, healed, faults, edits, history>>

Heal ==
    /\ ~healed /\ healed' = TRUE
    /\ UNCHANGED <<disk, memory, clock, faults, edits, history>>

-----------------------------------------------------------------------------

Worker ==
    \/ StartRun
    \/ RecoverNothing \/ RecoverDiscard \/ RecoverCommit \/ RecoverRefused
    \/ TidyRecovered \/ RepairTail \/ ReconcileFloor
    \/ NoPrefix \/ PrefixReached \/ ProbeEmpty \/ ProbePage
    \/ StagePage \/ MergePage \/ TidyPage \/ ResolvePrefix
    \/ NothingToFetch \/ Fetch \/ FetchRefused
    \/ StageWalk \/ MarkProvisional \/ WriteManifest
    \/ Commit \/ CommitRefused \/ Tidy \/ RetireMarker

Next ==
    \/ Worker
    \/ DeleteCsv \/ DeleteMarker \/ DeleteStaging
    \/ Crash \/ CrashInStaging \/ OperatorEdit \/ Tick \/ Heal

Spec == Init /\ [][Next]_vars

\* Runs are repeated for ever, each worker step ends, outages end and time
\* passes; crashes and edits are bounded.
FairSpec ==
    /\ Spec
    /\ WF_vars(Worker) /\ WF_vars(DeleteMarker) /\ WF_vars(DeleteStaging)
    /\ WF_vars(Tick) /\ WF_vars(Heal)

-----------------------------------------------------------------------------
(* Safety *)

\* While rows older than a published suffix are still owed, the marker that
\* makes later runs look for them is on disk and names their floor: no crash
\* between marker, manifest, CSV and clean-up makes the prefix permanent
\* (mexc_spot_downloader.cpp:814, mexc_staging.h:299).
SuffixKeepsMarker ==
    owed # None => marker # None /\ marker.start = owed

\* A slot missing between two stored rows was covered by a venue answer that
\* was durably recorded: an interrupted run, a stale transaction or the scan
\* cursor never splices a fragment over slots nobody asked for.
NoUnansweredHole ==
    \A t \in Slot :
      (\E a, c \in csv : a < t /\ t < c) => t \in csv \cup answered

\* From the tail repair on, a run's file holds no candle that was still open
\* when the run read the server time.
OnlyClosedCandles ==
    pc \in Working \ {"recover", "tidyRecovered", "tail"} =>
      \A t \in csv : t <= run.last

\* A run with --since adds no row older than its floor in front of the file or
\* to an empty one, whatever marker, cursor or staging an earlier run left.
NothingRestoredBelowFloor ==
    [][ run # None /\ run.explicit =>
          \A new \in csv' \ csv :
            new >= run.floor \/ \E old \in csv : old < new ]_vars

\* The file and its marker implement the history a reader is promised.
History == INSTANCE CandleHistory
             WITH rows <- csv, incomplete <- (csv # {} /\ marker # None)
ImplementsHistory == History!Spec

-----------------------------------------------------------------------------
(* Liveness *)

\* Once the venue answers in full, the oldest candle a marked suffix misses is
\* fetched by some later run: the scan cursor neither stalls on an empty page
\* nor skips past what is there.
PrefixRecovered ==
    \A t \in Traded :
      (healed /\ Unresolved /\ t = Min({u \in Traded : u >= marker.start}))
        ~> t \in csv

\* Once the venue answers in full and time has stopped, the newest closed
\* candle gets into the file: no leftover of a crash blocks later runs.
TailCatchesUp ==
    \A t \in Traded :
      (healed /\ clock = Horizon /\ t = Max({u \in Traded : u < Horizon}))
        ~> t \in csv

=============================================================================
