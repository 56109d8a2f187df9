---------------------------- MODULE MexcStaging ----------------------------
(***************************************************************************)
(* The decisions of src/mexc_staging.h about the three things MEXC keeps   *)
(* on disk for one symbol: the CSV, the unresolved-prefix marker beside it *)
(* (<SYMBOL>.csv.prefix.pending) and the staging directory temp_<SYMBOL>.  *)
(*                                                                         *)
(* A candle is named by its slot: slot n is the n-th period of the symbol's *)
(* own grid, so aligned timestamps are the numbers 0 .. Horizon and        *)
(* nextTimestamp is + 1.  A file of candles is the set of its slots: every  *)
(* writer keeps files strictly increasing, so the order carries nothing.   *)
(***************************************************************************)
EXTENDS Integers, FiniteSetsExt

CONSTANTS
    Horizon,        \* the last slot of the modelled time line
    PageIntervals,  \* intervals in one page of the backward prefix scan
    None            \* "no marker", "no staging directory", "no manifest"

ASSUME HorizonAssumption == Horizon \in Nat
ASSUME PageAssumption == PageIntervals \in Nat \ {0}

Slot == 0 .. Horizon

\* A marker's cursor is nextProbeEnd; 0 is "start again below the first row".
Marker == [start : Slot, cursor : Slot]

\* expectedEnd is validated to equal lastTimestamp, so one field stands for both.
Manifest == [hasBase : BOOLEAN, base : Slot, start : Slot, first : Slot, last : Slot]

\* `whole` is false while a batch file is missing or torn: an interrupted
\* write or an interrupted removal of the directory.
Staging == [man : Manifest \cup {None}, rows : SUBSET Slot, whole : BOOLEAN]

ASSUME NoneAssumption == None \notin Marker \cup Manifest \cup Staging

-----------------------------------------------------------------------------
(* The CSV as its readers see it *)

\* checkSymbolCSVFile: the last stored candle, or the floor of a fresh download.
TailStamp(csv, floor) == IF csv = {} THEN floor ELSE Max(csv)

\* The first row lies at or below `floor`.
ReachesDown(csv, floor) == \E t \in csv : t <= floor

-----------------------------------------------------------------------------
(* Staged transactions *)

Validates(staged) ==
    LET man == staged.man IN
    /\ staged.whole
    /\ staged.rows # {}
    /\ Min(staged.rows) = man.first
    /\ Max(staged.rows) = man.last
    /\ man.start <= man.first
    /\ man.hasBase => man.start = man.base + 1

\* The CSV is still the one the transaction was staged on.
OnItsBase(man, csv) ==
    /\ man.hasBase <=> csv # {}
    /\ csv # {} => man.base = Max(csv)

\* Mutant: the publication check is dropped.
MarkerAllows_Unchecked(man, marker) == TRUE

\* requirePrefixMarkerForPublication
MarkerAllows(man, marker) ==
    \/ man.hasBase
    \/ man.first <= man.start
    \/ marker # None /\ marker.start = man.start

Committable(staged, csv, marker) ==
    /\ staged # None
    /\ staged.man # None
    /\ Validates(staged)
    /\ MarkerAllows(staged.man, marker)
    /\ OnItsBase(staged.man, csv)

\* recoverAndMergeTempFiles: what a run does with a directory it finds.
AlreadyCommitted(man, csv) == csv # {} /\ Max(csv) = man.last

Stale(man, csv, floor) ==
    \/ (csv # {}) # man.hasBase
    \/ TailStamp(csv, floor) # man.base

\* Mutant: a transaction staged on another tail is kept.
Discardable_KeepsStale(staged, csv, floor) ==
    staged.man # None =>
      AlreadyCommitted(staged.man, csv) \/ ~Validates(staged)

Discardable(staged, csv, floor) ==
    staged.man # None =>
      \/ AlreadyCommitted(staged.man, csv)
      \/ Stale(staged.man, csv, floor)
      \/ ~Validates(staged)

-----------------------------------------------------------------------------
(* The unresolved prefix *)

\* Mutant: the end is taken for inclusive, as the futures bounds are.
ProbeWindow_InclusiveEnd(marker, csv) ==
    LET first == Min(csv)
        end == (IF marker.cursor <= marker.start \/ marker.cursor > first
                THEN first ELSE marker.cursor) - 1
    IN  [start |-> Max({marker.start, end - PageIntervals}), end |-> end]

\* The window [start, end) the next backward page asks for.  A cursor that is
\* spent, or that lies above the first row, restarts at the first row.
ProbeWindow(marker, csv) ==
    LET first == Min(csv)
        end == IF marker.cursor <= marker.start \/ marker.cursor > first
               THEN first ELSE marker.cursor
    IN  [start |-> Max({marker.start, end - PageIntervals}), end |-> end]

\* Mutant: every run asks for the same page again.
AdvanceProbe_Stays(marker, window) == [marker EXCEPT !.cursor = 0]

AdvanceProbe(marker, window) == [marker EXCEPT !.cursor = window.start]

ReplacesPrefix(page, start, marker) ==
    /\ page # {}
    /\ start <= Min(page)
    /\ marker # None /\ marker.start = start

\* Mutant: the marker keeps the start of the run that wrote it.
ReconciledMarker_KeepsStart(marker, csv, floor) ==
    IF csv = {} \/ ReachesDown(csv, floor) THEN None ELSE marker

\* reconcilePrefixForExplicitFloor: the marker a run with --since continues with.
ReconciledMarker(marker, csv, floor) ==
    IF csv = {} \/ ReachesDown(csv, floor)
    THEN None
    ELSE IF marker.start = floor THEN marker ELSE [start |-> floor, cursor |-> 0]

=============================================================================
