------------------------- MODULE MexcFuturesUpdate -------------------------
(***************************************************************************)
(* One MEXC Futures contract across any number of downloader runs: the     *)
(* worker lambda of MEXCFuturesDownloader::updateMarketData.  It shares    *)
(* the staging directory and the prefix marker with Spot (MexcStaging) but *)
(* not the backward scan: it probes the whole missing prefix at once and,  *)
(* when anything older is there, downloads the entire history again and    *)
(* replaces the file with the union of both.                               *)
(***************************************************************************)
EXTENDS MexcStaging

CONSTANTS
    Traded,       \* the slots the venue has a candle for
    Floors,       \* the slots a run may be given with --since
    FirstClock,   \* the slot that is open at the start
    MaxFaults,    \* bound on crashes
    MaxEdits      \* bound on operator edits, -d and revised venue values

ASSUME TradedAssumption == Traded \subseteq Slot
ASSUME FloorsAssumption == Floors \subseteq Slot
ASSUME ClockAssumption == FirstClock \in Slot \ {0}
ASSUME BoundAssumption == MaxFaults \in Nat /\ MaxEdits \in Nat

VARIABLES
    csv,        \* on disk: the slots stored in <SYMBOL>.csv
    marker,     \* on disk: the slot the missing prefix starts at, or None
    staging,    \* on disk: temp_<SYMBOL>/, or None
    pc,         \* where the worker is; "idle" between runs
    run,        \* what the worker fixed when it started
    walk,       \* what the download got
    clock,      \* the slot the venue's server time lies in
    healed,     \* the venue has stopped omitting candles for good
    revised,    \* stored slots the venue now has other values for
    faults, edits,
    owed,       \* history: floor of the published suffix's missing prefix
    answered,   \* history: slots a durably recorded venue answer covered
    openEnded   \* history: the staged rows came from a provisional walk

disk == <<csv, marker, staging>>
memory == <<pc, run, walk>>
world == <<clock, healed, revised, faults, edits>>
history == <<owed, answered, openEnded>>
vars == <<disk, memory, world, history>>

Run == [floor : Slot, explicit : BOOLEAN, live : BOOLEAN, last : Slot]
Walk == [start : Slot, rows : SUBSET Slot, scanned : BOOLEAN, rebuild : BOOLEAN]

\* baseTimestamp of a rebuild: below every floor, so never a stored tail.
Epoch == 0 - 1

Deleting == {"deleteMarker", "deleteStaging"}
Working == {"recover", "tidyRecovered", "tail", "floor", "prefix", "extend",
            "rebuild", "stage", "mark", "manifest", "commit", "tidy", "retire"}

\* The Futures marker is of version 1: it has a start and no cursor.
FuturesManifest == [hasBase : BOOLEAN, base : Slot \cup {Epoch}, start : Slot,
                    first : Slot, last : Slot]
FuturesStaging == [man : FuturesManifest \cup {None}, rows : SUBSET Slot,
                   whole : BOOLEAN]

TypeOK ==
    /\ csv \subseteq Slot
    /\ marker \in Marker \cup {None}
    /\ staging \in FuturesStaging \cup {None}
    /\ pc \in {"idle"} \cup Deleting \cup Working
    /\ run \in Run \cup {None}
    /\ walk \in Walk \cup {None}
    /\ clock \in Slot \ {0}
    /\ healed \in BOOLEAN
    /\ revised \subseteq Slot
    /\ faults \in 0 .. MaxFaults
    /\ edits \in 0 .. MaxEdits
    /\ owed \in Slot \cup {None}
    /\ answered \subseteq Slot
    /\ openEnded \in BOOLEAN

\* A first run, or a contiguous file of an older version, which may end with
\* the candle that was open then.
Init ==
    /\ \E lo, hi \in Slot : csv = {t \in Traded : lo <= t /\ t <= hi /\ t <= FirstClock}
    /\ marker = None /\ staging = None
    /\ pc = "idle" /\ run = None /\ walk = None
    /\ clock = FirstClock /\ healed = FALSE /\ revised = {}
    /\ faults = 0 /\ edits = 0
    /\ owed = None /\ openEnded = FALSE
    /\ answered = IF csv = {} THEN {} ELSE Min(csv) .. Max(csv)

-----------------------------------------------------------------------------
(* The venue (mexc-cpp-api, not in this repository) *)

\* An answer for lo .. hi: what has traded by now, less what an outage omits.
Answers(lo, hi) ==
    LET held == {t \in Traded : lo <= t /\ t <= hi /\ t <= clock}
    IN  IF healed THEN {held} ELSE SUBSET held

\* A faulty venue may add the candle right after the requested range.
Overshoot == IF healed THEN 0 ELSE 1

-----------------------------------------------------------------------------
(* Steps shared by several places of the worker *)

Goto(next) == pc' = next /\ UNCHANGED run

Finish == pc' = "idle" /\ run' = None /\ walk' = None

Discard == staging' = None /\ UNCHANGED <<csv, marker>>

\* A history variable forgets what the CSV no longer holds.
Forget(kept, hi) ==
    /\ owed' = IF kept = {} THEN None ELSE owed
    /\ answered' = IF kept = {} THEN {} ELSE {t \in answered : t <= hi}

\* What a published transaction knows about: a provisional first download
\* knows nothing below its first row.
Covered(man) ==
    (IF openEnded /\ ~man.hasBase THEN man.first ELSE man.start) .. man.last

\* commit: the rename that appends the staged rows to the CSV they extend
Publish ==
    LET man == staging.man IN
    /\ csv' = csv \cup staging.rows
    /\ answered' = answered \cup Covered(man)
    /\ owed' = IF man.hasBase THEN owed
               ELSE IF openEnded /\ man.start < man.first THEN man.start ELSE None
    /\ UNCHANGED <<marker, staging, openEnded>>

-----------------------------------------------------------------------------
(* A run begins: recover, repair the tail, reconcile the marker *)

StartRun ==
    /\ pc = "idle"
    /\ \E explicit, live \in BOOLEAN, floor \in Slot :
         /\ IF explicit THEN floor \in Floors ELSE floor = 0
         /\ run' = [floor |-> floor, explicit |-> explicit, live |-> live,
                    last |-> clock - 1]
    /\ pc' = "recover"
    /\ UNCHANGED <<disk, walk, world, history>>

RecoverNothing ==
    /\ pc = "recover" /\ staging = None
    /\ Goto("tail")
    /\ UNCHANGED <<disk, walk, world, history>>

RecoverDiscard ==
    /\ pc = "recover" /\ staging # None
    /\ Discardable(staging, csv, run.floor)
    /\ Discard
    /\ Goto("tail")
    /\ UNCHANGED <<walk, world, history>>

RecoverCommit ==
    /\ pc = "recover" /\ staging # None
    /\ ~Discardable(staging, csv, run.floor)
    /\ Committable(staging, csv, marker)
    /\ Publish
    /\ Goto("tidyRecovered")
    /\ UNCHANGED <<walk, world>>

\* "Could not recover complete staging": the worker fails, the files stay.
RecoverRefused ==
    /\ pc = "recover" /\ staging # None
    /\ ~Discardable(staging, csv, run.floor)
    /\ ~Committable(staging, csv, marker)
    /\ Finish
    /\ UNCHANGED <<disk, world, history>>

TidyRecovered ==
    /\ pc = "tidyRecovered"
    /\ Discard
    /\ Goto("tail")
    /\ UNCHANGED <<walk, world, history>>

\* truncateAfter drops the candle an older version stored while it was open.
RepairTail ==
    /\ pc = "tail"
    /\ csv' = {t \in csv : t <= run.last}
    /\ Forget(csv', run.last)
    /\ Goto("floor")
    /\ UNCHANGED <<marker, staging, walk, world, openEnded>>

ReconcileFloor ==
    /\ pc = "floor"
    /\ IF run.explicit /\ marker # None
       THEN /\ marker' = ReconciledMarker(marker, csv, run.floor)
            /\ owed' = IF owed = None \/ marker' = None THEN None ELSE marker'.start
       ELSE UNCHANGED <<marker, owed>>
    /\ Goto("prefix")
    /\ UNCHANGED <<csv, staging, walk, world, answered, openEnded>>

-----------------------------------------------------------------------------
(* The unresolved prefix: probe it as a whole *)

NoPrefix ==
    /\ pc = "prefix" /\ (marker = None \/ csv = {})
    /\ Goto("extend")
    /\ UNCHANGED <<disk, walk, world, history>>

PrefixReached ==
    /\ pc = "prefix" /\ marker # None /\ csv # {}
    /\ ReachesDown(csv, marker.start)
    /\ marker' = None
    /\ Goto("extend")
    /\ UNCHANGED <<csv, staging, walk, world, history>>

Unresolved == marker # None /\ csv # {} /\ ~ReachesDown(csv, marker.start)

ProbeAnswers == Answers(marker.start, Min(csv) - 1 + Overshoot)

\* Mutant: a repeated empty answer counts as the listing boundary.
ProbeEmpty_Retires ==
    /\ pc = "prefix" /\ Unresolved
    /\ {} \in ProbeAnswers
    /\ marker' = None
    /\ Goto("extend")
    /\ UNCHANGED <<csv, staging, walk, world, history>>

\* "A repeated empty answer is not proof of a listing boundary."
ProbeEmpty ==
    /\ pc = "prefix" /\ Unresolved
    /\ {} \in ProbeAnswers
    /\ Goto("extend")
    /\ UNCHANGED <<disk, walk, world, history>>

\* Mutant: an answer that is not empty leads to the tail as well.
ProbeFound_Ignored ==
    /\ pc = "prefix" /\ Unresolved
    /\ ProbeAnswers # {{}}
    /\ Goto("extend")
    /\ UNCHANGED <<disk, walk, world, history>>

ProbeFound ==
    /\ pc = "prefix" /\ Unresolved
    /\ ProbeAnswers # {{}}
    /\ Goto("rebuild")
    /\ UNCHANGED <<disk, walk, world, history>>

-----------------------------------------------------------------------------
(* The download *)

From == IF csv = {}
        THEN IF marker # None THEN marker.start ELSE run.floor
        ELSE Max(csv) + 1

\* Up to date, or --since is newer than every closed candle, or the range is
\* invalid: the worker ends without touching a file.
NothingToFetch ==
    /\ pc = "extend" /\ From > run.last
    /\ Finish
    /\ UNCHANGED <<disk, world, history>>

\* decideDelistedProbe: a contract that is not active is bounded by the newest
\* candle of a probe, a rebuild of one by the tail it has.
Bounds == IF run.live THEN {run.last}
          ELSE IF pc = "rebuild" THEN {Max(csv)}
          ELSE {Max(probe) : probe \in Answers(From, run.last + Overshoot) \ {{}}}

Fetching == pc = "rebuild" \/ (pc = "extend" /\ From <= run.last)

Start == IF pc = "rebuild" THEN marker.start ELSE From

\* Mutant: a rebuild need not reach the rows it is merged with.
Extends_Short(rows) ==
    /\ rows # {} /\ Max(rows) <= run.last
    /\ pc = "rebuild" => Min(rows) < Min(csv)

\* No open candle; a rebuild begins below the stored rows and reaches their end.
Extends(rows) ==
    /\ rows # {} /\ Max(rows) <= run.last
    /\ pc = "rebuild" => Min(rows) < Min(csv) /\ Max(rows) >= Max(csv)

\* The query runs one period past the bound; what is outside is erased.
Fetch ==
    /\ Fetching
    /\ \E bound \in Bounds : \E rows \in Answers(Start, bound), scanned \in BOOLEAN :
         /\ Extends(rows)
         /\ walk' = [start |-> Start, rows |-> rows, scanned |-> scanned,
                     rebuild |-> pc = "rebuild"]
    /\ Goto("stage")
    /\ UNCHANGED <<disk, world, history>>

\* No probe answer, no candles, or candles the guards reject: the worker ends
\* or fails, and leaves its files as they are.
FetchRefused ==
    /\ Fetching
    /\ \/ ~run.live /\ pc = "extend" /\ {} \in Answers(From, run.last + Overshoot)
       \/ \E bound \in Bounds : \E rows \in Answers(Start, bound) : ~Extends(rows)
    /\ Finish
    /\ UNCHANGED <<disk, world, history>>

StageWalk ==
    /\ pc = "stage"
    /\ staging' = [man |-> None, rows |-> walk.rows, whole |-> TRUE]
    /\ Goto("mark")
    /\ UNCHANGED <<csv, marker, walk, world, history>>

\* The marker of a provisional first download is durable before its manifest.
MarkProvisional ==
    /\ pc = "mark"
    /\ marker' = IF marker = None /\ csv = {} /\ ~walk.scanned
                 THEN [start |-> walk.start, cursor |-> 0]
                 ELSE marker
    /\ Goto("manifest")
    /\ UNCHANGED <<csv, staging, walk, world, history>>

\* A rebuild is staged as if there were no file.
WriteManifest ==
    /\ pc = "manifest"
    /\ staging' = [staging EXCEPT !.man =
                     [hasBase |-> ~walk.rebuild /\ csv # {},
                      base |-> IF walk.rebuild THEN Epoch ELSE TailStamp(csv, run.floor),
                      start |-> walk.start,
                      first |-> Min(walk.rows), last |-> Max(walk.rows)]]
    /\ openEnded' = ~walk.scanned
    /\ Goto("commit")
    /\ UNCHANGED <<csv, marker, walk, world, owed, answered>>

Commit ==
    /\ pc = "commit" /\ ~walk.rebuild
    /\ Committable(staging, csv, marker)
    /\ Publish
    /\ Goto("tidy")
    /\ UNCHANGED <<walk, world>>

CommitRefused ==
    /\ pc = "commit" /\ ~walk.rebuild
    /\ ~Committable(staging, csv, marker)
    /\ Finish
    /\ UNCHANGED <<disk, world, history>>

\* The union keeps every stored row and fails on one with other values.
Conflict == walk.rows \cap csv \cap revised # {}

\* Mutant: the downloaded rows take the place of the stored ones.
Replace_Overwrites ==
    /\ pc = "commit" /\ walk.rebuild
    /\ ReplacesPrefix(walk.rows, walk.start, marker) /\ ~Conflict
    /\ csv' = walk.rows
    /\ answered' = answered \cup Covered(staging.man)
    /\ owed' = IF walk.scanned \/ ReachesDown(walk.rows, walk.start) THEN None ELSE owed
    /\ Goto("tidy")
    /\ UNCHANGED <<marker, staging, walk, world, openEnded>>

\* replaceCsv
Replace ==
    /\ pc = "commit" /\ walk.rebuild
    /\ ReplacesPrefix(walk.rows, walk.start, marker) /\ ~Conflict
    /\ csv' = csv \cup walk.rows
    /\ answered' = answered \cup Covered(staging.man)
    /\ owed' = IF walk.scanned \/ ReachesDown(walk.rows, walk.start) THEN None ELSE owed
    /\ Goto("tidy")
    /\ UNCHANGED <<marker, staging, walk, world, openEnded>>

ReplaceRefused ==
    /\ pc = "commit" /\ walk.rebuild /\ Conflict
    /\ Finish
    /\ UNCHANGED <<disk, world, history>>

Tidy ==
    /\ pc = "tidy"
    /\ Discard
    /\ Goto("retire")
    /\ UNCHANGED <<walk, world, history>>

\* A download that scanned the whole range from the marked start owes nothing.
RetireMarker ==
    /\ pc = "retire"
    /\ marker' = IF marker # None /\ walk.scanned /\ walk.start = marker.start
                 THEN None ELSE marker
    /\ Finish
    /\ UNCHANGED <<csv, staging, world, history>>

-----------------------------------------------------------------------------
(* -d on a contract that is not active: three removals, in this order *)

DeleteCsv ==
    /\ pc = "idle" /\ edits < MaxEdits
    /\ edits' = edits + 1
    /\ csv' = {} /\ owed' = None /\ answered' = {} /\ revised' = {}
    /\ pc' = "deleteMarker"
    /\ UNCHANGED <<marker, staging, run, walk, clock, healed, faults, openEnded>>

DeleteMarker ==
    /\ pc = "deleteMarker"
    /\ marker' = None
    /\ Goto("deleteStaging")
    /\ UNCHANGED <<csv, staging, walk, world, history>>

DeleteStaging ==
    /\ pc = "deleteStaging"
    /\ Discard
    /\ Finish
    /\ UNCHANGED <<world, history>>

-----------------------------------------------------------------------------
(* What the worker does not decide *)

\* SIGKILL, power loss or an exception: what is in memory is gone.
Crash ==
    /\ pc # "idle" /\ faults < MaxFaults
    /\ faults' = faults + 1
    /\ Finish
    /\ UNCHANGED <<disk, clock, healed, revised, edits, history>>

Removing == {"recover", "tidyRecovered", "stage", "tidy", "deleteStaging"}

\* The same inside remove_all or between two batch writes: some files of the
\* directory are left, the manifest among them or not.
CrashInStaging ==
    /\ pc \in Removing /\ faults < MaxFaults
    /\ pc = "recover" => staging # None /\ Discardable(staging, csv, run.floor)
    /\ faults' = faults + 1
    /\ \E man \in {None} \cup (IF staging = None THEN {} ELSE {staging.man}) :
         staging' = [man |-> man, rows |-> {}, whole |-> FALSE]
    /\ Finish
    /\ UNCHANGED <<csv, marker, clock, healed, revised, edits, history>>

\* Between runs an operator archives the front of the file or restores an
\* older copy of it: a contiguous part of the rows remains.
OperatorEdit ==
    /\ pc = "idle" /\ edits < MaxEdits
    /\ edits' = edits + 1
    /\ \E lo, hi \in Slot :
         /\ csv' = {t \in csv : lo <= t /\ t <= hi}
         /\ Forget(csv', hi)
    /\ revised' = revised \cap csv'
    /\ UNCHANGED <<marker, staging, memory, clock, healed, faults, openEnded>>

\* The venue corrects a candle that is already stored.
Revise ==
    /\ edits < MaxEdits /\ edits' = edits + 1
    /\ \E t \in csv : revised' = revised \cup {t}
    /\ UNCHANGED <<disk, memory, clock, healed, faults, history>>

Tick ==
    /\ clock < Horizon
    /\ clock' = clock + 1
    /\ UNCHANGED <<disk, memory, healed, revised, faults, edits, history>>

Heal ==
    /\ ~healed /\ healed' = TRUE
    /\ UNCHANGED <<disk, memory, clock, revised, faults, edits, history>>

-----------------------------------------------------------------------------

Worker ==
    \/ StartRun
    \/ RecoverNothing \/ RecoverDiscard \/ RecoverCommit \/ RecoverRefused
    \/ TidyRecovered \/ RepairTail \/ ReconcileFloor
    \/ NoPrefix \/ PrefixReached \/ ProbeEmpty \/ ProbeFound
    \/ NothingToFetch \/ Fetch \/ FetchRefused
    \/ StageWalk \/ MarkProvisional \/ WriteManifest
    \/ Commit \/ CommitRefused \/ Replace \/ ReplaceRefused
    \/ Tidy \/ RetireMarker

Next ==
    \/ Worker
    \/ DeleteCsv \/ DeleteMarker \/ DeleteStaging
    \/ Crash \/ CrashInStaging \/ OperatorEdit \/ Revise \/ Tick \/ Heal

Spec == Init /\ [][Next]_vars

\* Runs are repeated for ever, each worker step ends, outages end and time
\* passes; crashes and edits are bounded.
FairSpec ==
    /\ Spec
    /\ WF_vars(Worker) /\ WF_vars(DeleteMarker) /\ WF_vars(DeleteStaging)
    /\ WF_vars(Tick) /\ WF_vars(Heal)

-----------------------------------------------------------------------------
(* Safety *)

\* While rows older than a published suffix are still owed, the marker that
\* makes later runs look for them is on disk and names their floor: neither a
\* crash between marker, manifest, union and clean-up nor any number of empty
\* probe answers makes the prefix permanent (mexc_futures_downloader.cpp:608).
SuffixKeepsMarker ==
    owed # None => marker # None /\ marker.start = owed

\* A slot missing between two stored rows was covered by a venue answer that
\* was durably recorded: neither an interrupted rebuild nor a stale manifest
\* splices rows over slots nobody asked for.
NoUnansweredHole ==
    \A t \in Slot :
      (\E a, c \in csv : a < t /\ t < c) => t \in csv \cup answered

\* The file and its marker implement the history a reader is promised, in which
\* a rebuild may fill holes and extend both ends but loses no row.
History == INSTANCE RebuiltHistory
             WITH rows <- csv, incomplete <- (csv # {} /\ marker # None)
ImplementsHistory == History!RebuiltSpec

-----------------------------------------------------------------------------
(* Liveness *)

\* A user starts a run that shall not look below t.
FlooredAbove(t) == run # None /\ run.explicit /\ run.floor > t

\* Once the venue answers in full, the oldest candle a marked suffix misses is
\* fetched by some later run, unless the file is removed, a user asks for less,
\* or the venue contradicts a stored candle, which stops the union for good.
PrefixRecovered ==
    \A t \in Traded :
      (healed /\ pc = "idle" /\ Unresolved /\ t = Min({u \in Traded : u >= marker.start}))
        ~> (t \in csv \/ csv = {} \/ revised # {} \/ FlooredAbove(t))

\* Once the venue answers in full and time has stopped, a file that exists gets
\* the newest closed candle: no marker, leftover or rebuild blocks later runs
\* (again unless a stored candle is contradicted).
TailCatchesUp ==
    LET newest == Max({u \in Traded : u < Horizon})
    IN  (healed /\ clock = Horizon /\ csv # {})
          ~> (newest \in csv \/ csv = {} \/ revised # {})

=============================================================================
