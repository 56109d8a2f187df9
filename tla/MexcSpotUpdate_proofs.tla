----------------------- MODULE MexcSpotUpdate_proofs -----------------------
(***************************************************************************)
(* Proofs about MexcSpotUpdate for every time line, page size, venue, set  *)
(* of floors and bound on faults: its type invariant, its four safety      *)
(* properties and that it implements CandleHistory.                        *)
(***************************************************************************)
EXTENDS MexcSpotUpdate, NumberSets_proofs

-----------------------------------------------------------------------------
(* First and last rows *)

\* Every non-empty set of slots has a first element: what the first row of a
\* CSV or of a staged batch (mexc_staging.h, CsvTail) is.
LEMMA FirstSlot ==
    ASSUME NEW S \in SUBSET Slot, S # {}
    PROVE  Min(S) \in S /\ \A y \in S : Min(S) <= y
<1>1. S \in SUBSET Nat
    BY HorizonAssumption DEF Slot
<1> QED
    BY <1>1, FirstOf

\* And a last one: the tail of a CSV.
LEMMA LastSlot ==
    ASSUME NEW S \in SUBSET Slot, S # {}
    PROVE  Max(S) \in S /\ \A y \in S : y <= Max(S)
<1>1. Horizon \in Nat /\ S \in SUBSET (0 .. Horizon)
    BY HorizonAssumption DEF Slot
<1> QED
    BY <1>1, LastOf

\* A bound on the last row bounds every row.
LEMMA LastWithin ==
    ASSUME NEW S \in SUBSET Slot, S # {}, NEW hi \in Slot, Max(S) <= hi
    PROVE  \A r \in S : r <= hi
<1>1. Max(S) \in S /\ \A r \in S : r <= Max(S)
    BY LastSlot
<1>2. S \subseteq Int /\ hi \in Int
    BY HorizonAssumption DEF Slot
<1>3. Max(S) \in Int
    BY <1>1, <1>2
<1> HIDE DEF Slot
<1> QED
    BY <1>1, <1>2, <1>3

-----------------------------------------------------------------------------
(* The backward scan *)

\* prefixProbeWindow asks for a non-empty window that starts at or above the
\* requested start, lies below the first row and ends there or at a live cursor.
LEMMA ProbeWindowFits ==
    ASSUME NEW mark \in Marker, NEW stored \in SUBSET Slot, stored # {},
           ~ReachesDown(stored, mark.start)
    PROVE  LET window == ProbeWindow(mark, stored) IN
           /\ window.start \in Slot /\ window.end \in Slot
           /\ mark.start <= window.start /\ window.start < window.end
           /\ \A c \in stored : window.end <= c
           /\ window.end \in stored
                \/ (mark.start < mark.cursor /\ mark.cursor = window.end)
<1> DEFINE first == Min(stored)
           end == IF mark.cursor <= mark.start \/ mark.cursor > first
                  THEN first ELSE mark.cursor
           start == Max({mark.start, end - PageIntervals})
<1>1. first \in stored /\ \A y \in stored : first <= y
    BY FirstSlot
<1>2. mark.start \in Slot /\ mark.cursor \in Slot /\ first \in Slot
    BY <1>1 DEF Marker
<1>3. mark.start < first
    BY <1>1, <1>2, HorizonAssumption DEF ReachesDown, Slot
<1>4. /\ end \in Slot /\ mark.start < end
      /\ end <= first
      /\ end \in stored \/ (mark.start < mark.cursor /\ mark.cursor = end)
    BY <1>1, <1>2, <1>3, HorizonAssumption DEF Slot
<1> HIDE DEF end
<1>5. mark.start \in Int /\ end - PageIntervals \in Int
    BY <1>2, <1>4, PageAssumption, HorizonAssumption DEF Slot
<1>6. /\ start \in {mark.start, end - PageIntervals}
      /\ mark.start <= start
    BY <1>5, MaxOfTwo
<1> HIDE DEF start
<1>7. start \in Slot /\ start < end
    BY <1>2, <1>4, <1>5, <1>6, PageAssumption, HorizonAssumption DEF Slot
<1>8. \A c \in stored : end <= c
    BY <1>1, <1>2, <1>4, HorizonAssumption DEF Slot
<1>9. ProbeWindow(mark, stored) = [start |-> start, end |-> end]
    BY DEF ProbeWindow, start, end
<1> HIDE DEF first
<1> QED
    BY <1>4, <1>6, <1>7, <1>8, <1>9

-----------------------------------------------------------------------------
(* The inductive invariant, in named parts *)

Paging == {"stagePage", "mergePage", "tidyPage", "resolve"}
Downloading == {"stage", "mark", "manifest", "commit", "tidy", "retire"}
Repaired == Working \ {"recover", "tidyRecovered", "tail"}
Reconciled == {"prefix", "range"} \cup Paging

\* What the worker holds in memory at each step; only --since sets a floor.
MemoryFits ==
    /\ pc \in Working => run \in Run /\ (~run.explicit => run.floor = 0)
    /\ pc \in Paging => page \in Page
    /\ pc \in Downloading => walk \in Walk
    /\ pc \in Deleting => csv = {}

\* The directory exists only between its creation and the next discard.
NoStaging ==
    pc \in {"tail", "floor", "prefix", "range", "stagePage", "resolve", "stage", "retire"}
      => staging = None

\* A staged first download starts at or above the floor it was staged with,
\* and a marker found beside it is its own.
StagedFirstFits ==
    staging # None /\ staging.man # None /\ ~staging.man.hasBase =>
      /\ staging.man.base <= staging.man.start
      /\ marker # None => marker.start = staging.man.start

\* After reconciliation no marker asks for rows below the run's floor.
MarkerAboveFloor ==
    pc \in Reconciled /\ marker # None => run.floor <= marker.start

\* A page lies between the requested start and the first row, and ends at the
\* first row or at the live cursor.
PageFits ==
    /\ pc \in Paging => marker # None /\ csv # {}
    /\ pc \in {"stagePage", "mergePage"} =>
         /\ marker.start <= page.start
         /\ \A r \in page.rows : page.start <= r /\ r < page.end
         /\ \A c \in csv : page.end <= c
         /\ page.end \in csv \/ (marker.start < marker.cursor /\ marker.cursor = page.end)
    /\ pc \in {"tidyPage", "resolve"} /\ page.start = marker.start => owed = None

\* A walk continues the file it was asked for, and its directory is its own.
WalkFits ==
    /\ pc \in {"stage", "mark", "manifest", "commit"} =>
         /\ walk.rows # {}
         /\ \A r \in walk.rows : walk.start <= r /\ r <= run.last
         /\ walk.fresh <=> csv = {}
         /\ csv # {} => walk.start = Max(csv) + 1
         /\ csv = {} => run.floor <= walk.start
         /\ csv = {} /\ marker # None => marker.start = walk.start
    /\ pc \in {"mark", "manifest"} =>
         staging = [man |-> None, rows |-> walk.rows, whole |-> TRUE]
    /\ pc = "commit" =>
         /\ staging # None /\ staging.man # None /\ staging.rows = walk.rows
         /\ staging.man.hasBase = ~walk.fresh
         /\ staging.man.start = walk.start
         /\ openEnded = ~walk.scanned
    /\ pc \in {"tidy", "retire"} /\ walk.fresh /\ walk.scanned => owed = None

\* While a prefix is owed, the marker names it and no row reaches its floor.
OwedIsMarked ==
    owed # None =>
      /\ csv # {}
      /\ marker # None /\ marker.start = owed
      /\ ~ReachesDown(csv, owed)

\* Everything from the first to the last row was answered, and so was
\* everything from a live cursor up to the rows.
HullAnswered ==
    \A t \in Slot : (\E a, c \in csv : a <= t /\ t <= c) => t \in answered

CursorAnswered ==
    marker # None /\ marker.start < marker.cursor =>
      \A t \in Slot : marker.cursor <= t /\ (\E c \in csv : t <= c) => t \in answered

IInv ==
    /\ TypeOK
    /\ MemoryFits /\ NoStaging /\ StagedFirstFits
    /\ MarkerAboveFloor /\ PageFits /\ WalkFits
    /\ OwedIsMarked /\ OnlyClosedCandles
    /\ HullAnswered /\ CursorAnswered

-----------------------------------------------------------------------------
(* Lemmas about the steps that change the rows *)

\* A staged transaction that may be committed continues the file it is
\* committed to: its rows lie between its start and its end, and the start
\* follows the last stored row.
LEMMA CommittableContinues ==
    ASSUME TypeOK, Committable(staging, csv, marker)
    PROVE  /\ staging \in Staging /\ staging.man \in Manifest
           /\ staging.rows # {} /\ staging.rows \in SUBSET Slot
           /\ staging.man.start <= staging.man.first
           /\ \A r \in staging.rows :
                staging.man.start <= r /\ staging.man.first <= r /\ r <= staging.man.last
           /\ staging.man.hasBase <=> csv # {}
           /\ csv # {} => /\ Max(csv) \in csv /\ \A c \in csv : c <= Max(csv)
                          /\ staging.man.start = Max(csv) + 1
           /\ csv = {} /\ staging.man.start < staging.man.first =>
                marker # None /\ marker.start = staging.man.start
<1>1. staging \in Staging /\ staging.man \in Manifest
    BY DEF TypeOK, Committable, Staging
<1>2. staging.rows \in SUBSET Slot /\ staging.rows # {}
    BY <1>1 DEF Committable, Validates, Staging
<1>3. /\ \A r \in staging.rows : staging.man.first <= r
      /\ \A r \in staging.rows : r <= staging.man.last
    BY <1>2, FirstSlot, LastSlot DEF Committable, Validates
<1>4. staging.man.start <= staging.man.first
    BY DEF Committable, Validates
<1>5. staging.man.start \in Int /\ staging.man.first \in Int /\ staging.rows \subseteq Int
    BY <1>1, <1>2, HorizonAssumption DEF Manifest, Slot
<1>6. \A r \in staging.rows : staging.man.start <= r
    BY <1>3, <1>4, <1>5
<1>7. staging.man.hasBase <=> csv # {}
    BY DEF Committable, OnItsBase
<1>8. csv # {} => Max(csv) \in csv /\ \A c \in csv : c <= Max(csv)
    BY LastSlot DEF TypeOK
<1>9. csv # {} => staging.man.start = Max(csv) + 1
    BY <1>7 DEF Committable, OnItsBase, Validates
<1>10. csv = {} /\ staging.man.start < staging.man.first =>
         marker # None /\ marker.start = staging.man.start
    BY <1>5, <1>7 DEF Committable, MarkerAllows
<1> QED
    BY <1>1, <1>2, <1>3, <1>4, <1>6, <1>7, <1>8, <1>9, <1>10

\* Publishing a transaction keeps what is known about the rows: the hull is
\* answered, what lies above a live cursor is, and an owed prefix is marked.
LEMMA PublishKeepsRows ==
    ASSUME IInv, Committable(staging, csv, marker), Publish
    PROVE  /\ csv' \subseteq Slot /\ answered' \subseteq Slot
           /\ owed' \in Slot \cup {None}
           /\ OwedIsMarked' /\ HullAnswered' /\ CursorAnswered'
<1> USE HorizonAssumption DEF IInv
<1> DEFINE man == staging.man
           rows == staging.rows
<1>1. /\ staging # None /\ man # None /\ man \in Manifest
      /\ rows # {} /\ rows \in SUBSET Slot
      /\ man.start <= man.first
      /\ \A r \in rows : man.start <= r /\ man.first <= r /\ r <= man.last
      /\ man.hasBase <=> csv # {}
      /\ csv # {} => /\ Max(csv) \in csv /\ \A c \in csv : c <= Max(csv)
                     /\ man.start = Max(csv) + 1
      /\ csv = {} /\ man.start < man.first => marker # None /\ marker.start = man.start
    BY CommittableContinues DEF Committable
<1>2. /\ csv' = csv \cup rows /\ marker' = marker
      /\ answered' = answered \cup (man.start .. man.last)
      /\ owed' = IF man.hasBase THEN owed
                 ELSE IF openEnded /\ man.start < man.first THEN man.start ELSE None
    BY DEF Publish
<1>3. csv \in SUBSET Slot /\ answered \in SUBSET Slot
    BY DEF TypeOK
<1>4. man.start \in Slot /\ man.first \in Slot /\ man.last \in Slot
    BY <1>1 DEF Manifest
<1>5. csv' \subseteq Slot /\ answered' \subseteq Slot
  <2>1. man.start .. man.last \subseteq Slot
      BY <1>4 DEF Slot
  <2> QED
      BY <1>1, <1>2, <1>3, <2>1
<1>6. owed' \in Slot \cup {None}
    BY <1>2, <1>4 DEF TypeOK
<1>7. CASE csv = {}
  <2>1. csv' = rows
      BY <1>2, <1>7
  <2>2. HullAnswered'
      BY <1>1, <1>2, <1>4, <2>1 DEF HullAnswered, Slot
  <2>3. marker # None => marker.start = man.start
      BY <1>1, <1>7 DEF StagedFirstFits
  <2>4. CursorAnswered'
      BY <1>1, <1>2, <1>4, <2>1, <2>3 DEF CursorAnswered, Slot, TypeOK, Marker
  <2>5. OwedIsMarked'
    <3>1. CASE openEnded /\ man.start < man.first
        BY <1>1, <1>2, <1>4, <1>7, <2>1, <3>1 DEF OwedIsMarked, ReachesDown, Slot
    <3>2. CASE ~(openEnded /\ man.start < man.first)
        BY <1>1, <1>2, <1>7, <3>2 DEF OwedIsMarked
    <3> QED
        BY <3>1, <3>2
  <2> QED
      BY <1>5, <1>6, <2>2, <2>4, <2>5
<1>8. CASE csv # {}
  <2>1. owed' = owed
      BY <1>1, <1>2, <1>8
  <2>2. \A t \in Slot : ~(t <= Max(csv)) /\ (\E c \in csv' : t <= c) =>
                          t \in man.start .. man.last
      BY <1>1, <1>2, <1>3, <1>4, <1>8 DEF Slot
  <2>3. HullAnswered'
    <3>1. SUFFICES ASSUME NEW t \in Slot, NEW a \in csv', NEW c \in csv', a <= t, t <= c
                   PROVE  t \in answered'
        BY DEF HullAnswered
    <3>2. CASE t <= Max(csv)
      <4>1. a \in csv
          BY <1>1, <1>2, <1>3, <1>4, <1>8, <3>1, <3>2 DEF Slot
      <4> QED
          BY <1>1, <1>2, <1>8, <3>1, <3>2, <4>1 DEF HullAnswered
    <3>3. CASE ~(t <= Max(csv))
        BY <1>2, <2>2, <3>1, <3>3
    <3> QED
        BY <3>2, <3>3
  <2>4. CursorAnswered'
    <3>1. SUFFICES ASSUME marker # None, marker.start < marker.cursor,
                          NEW t \in Slot, marker.cursor <= t, NEW c \in csv', t <= c
                   PROVE  t \in answered'
        BY <1>2 DEF CursorAnswered
    <3>2. CASE t <= Max(csv)
        BY <1>1, <1>2, <1>8, <3>1, <3>2 DEF CursorAnswered
    <3>3. CASE ~(t <= Max(csv))
        BY <1>2, <2>2, <3>1, <3>3
    <3> QED
        BY <3>2, <3>3
  <2>5. OwedIsMarked'
    <3>1. SUFFICES ASSUME owed # None
                   PROVE  ~ReachesDown(csv', owed)
        BY <1>2, <1>8, <2>1 DEF OwedIsMarked
    <3>2. owed \in Slot /\ ~ReachesDown(csv, owed)
        BY <3>1 DEF OwedIsMarked, TypeOK
    <3>3. \A r \in rows : ~(r <= owed)
        BY <1>1, <1>3, <1>4, <1>8, <3>2 DEF ReachesDown, Slot
    <3> QED
        BY <1>2, <3>2, <3>3 DEF ReachesDown
  <2> QED
      BY <1>5, <1>6, <2>3, <2>4, <2>5
<1> QED
    BY <1>7, <1>8

\* Keeping a contiguous part of the rows (truncateAfter, an archive, a
\* restored copy) keeps the same three facts, with the history cut alike.
LEMMA TrimKeepsRows ==
    ASSUME IInv, NEW lo \in Slot, NEW hi \in Slot,
           csv' = {t \in csv : lo <= t /\ t <= hi}, Forget(csv', hi), marker' = marker
    PROVE  /\ csv' \subseteq Slot /\ answered' \subseteq Slot
           /\ owed' \in Slot \cup {None}
           /\ OwedIsMarked' /\ HullAnswered' /\ CursorAnswered'
<1> USE HorizonAssumption DEF IInv
<1>1. /\ csv \in SUBSET Slot /\ answered \in SUBSET Slot /\ owed \in Slot \cup {None}
    BY DEF TypeOK
<1>2. CASE csv' = {}
    BY <1>2 DEF Forget, OwedIsMarked, HullAnswered, CursorAnswered
<1>3. CASE csv' # {}
  <2>1. owed' = owed /\ answered' = {t \in answered : t <= hi}
      BY <1>3 DEF Forget
  <2>2. \A t \in Slot : (\E c \in csv' : t <= c) => t <= hi
      BY <1>1 DEF Slot
  <2>3. HullAnswered'
      BY <2>1, <2>2 DEF HullAnswered
  <2>4. CursorAnswered'
      BY <2>1, <2>2 DEF CursorAnswered
  <2>5. OwedIsMarked'
      BY <1>3, <2>1 DEF OwedIsMarked, ReachesDown
  <2> QED
      BY <1>1, <2>1, <2>3, <2>4, <2>5
<1> QED
    BY <1>2, <1>3

\* Merging a page of older candles keeps them too: between the page and the
\* first row lies only what earlier empty pages answered.
LEMMA MergeKeepsRows ==
    ASSUME IInv, MergePage
    PROVE  /\ csv' \subseteq Slot /\ answered' \subseteq Slot
           /\ owed' \in Slot \cup {None}
           /\ OwedIsMarked' /\ HullAnswered' /\ CursorAnswered' /\ OnlyClosedCandles'
<1> USE HorizonAssumption DEF IInv
<1>1. /\ pc = "mergePage" /\ csv' = csv \cup page.rows
      /\ marker' = marker /\ run' = run
      /\ answered' = answered \cup (page.start .. page.end - 1)
      /\ owed' = IF page.start = marker.start THEN None ELSE owed
    BY DEF MergePage, Goto
<1>2. /\ page \in Page /\ run \in Run /\ marker \in Marker /\ marker # None
      /\ csv \in SUBSET Slot /\ csv # {} /\ answered \in SUBSET Slot
    BY <1>1 DEF TypeOK, MemoryFits, PageFits, Working, Paging
<1>3. page.rows \in SUBSET Slot /\ page.start \in Slot /\ page.end \in Slot /\ marker.start \in Slot
    BY <1>2 DEF Page, Marker
<1>4. /\ marker.start <= page.start
      /\ \A r \in page.rows : page.start <= r /\ r < page.end
      /\ \A c \in csv : page.end <= c
      /\ page.end \in csv \/ (marker.start < marker.cursor /\ marker.cursor = page.end)
    BY <1>1 DEF PageFits
<1>5. csv' \subseteq Slot /\ answered' \subseteq Slot
  <2>1. page.start .. page.end - 1 \subseteq Slot
      BY <1>3 DEF Slot
  <2> QED
      BY <1>1, <1>2, <1>3, <2>1
<1>6. \A t \in Slot : page.end <= t /\ (\E c \in csv : t <= c) => t \in answered
    BY <1>2, <1>4 DEF HullAnswered, CursorAnswered
<1>7. \A t \in Slot : (\E c \in csv' : t <= c) /\ page.end <= t => \E c \in csv : t <= c
    BY <1>1, <1>3, <1>4 DEF Slot
<1>8. HullAnswered'
  <2>1. SUFFICES ASSUME NEW t \in Slot, NEW a \in csv', NEW c \in csv', a <= t, t <= c
                 PROVE  t \in answered'
      BY DEF HullAnswered
  <2>2. CASE page.end <= t
      BY <1>1, <1>6, <1>7, <2>1, <2>2
  <2>3. CASE ~(page.end <= t)
    <3>1. page.start <= t
        BY <1>1, <1>2, <1>3, <1>4, <2>1, <2>3 DEF Slot
    <3> QED
        BY <1>1, <1>3, <2>3, <3>1 DEF Slot
  <2> QED
      BY <2>2, <2>3
<1>9. CursorAnswered'
  <2>1. SUFFICES ASSUME marker.start < marker.cursor,
                        NEW t \in Slot, marker.cursor <= t, NEW c \in csv', t <= c
                 PROVE  t \in answered'
      BY <1>1 DEF CursorAnswered
  <2>2. CASE c \in csv
      BY <1>1, <1>2, <2>1, <2>2 DEF CursorAnswered
  <2>3. CASE c \in page.rows
    <3>1. PICK d \in csv : TRUE
        BY <1>2
    <3>2. t <= d
        BY <1>2, <1>3, <1>4, <2>1, <2>3, <3>1 DEF Slot
    <3> QED
        BY <1>1, <1>2, <2>1, <3>1, <3>2 DEF CursorAnswered
  <2> QED
      BY <1>1, <2>2, <2>3
<1>10. owed' \in Slot \cup {None} /\ OwedIsMarked'
  <2>1. CASE page.start = marker.start
      BY <1>1, <2>1 DEF OwedIsMarked
  <2>2. CASE page.start # marker.start
    <3>1. owed' = owed /\ marker.start < page.start
        BY <1>1, <1>3, <1>4, <2>2 DEF Slot
    <3>2. owed # None => ~ReachesDown(csv', owed)
        BY <1>1, <1>3, <1>4, <3>1 DEF OwedIsMarked, ReachesDown, Slot
    <3> QED
        BY <1>1, <1>2, <3>1, <3>2 DEF OwedIsMarked, TypeOK
  <2> QED
      BY <2>1, <2>2
<1>11. OnlyClosedCandles'
  <2>1. run.last \in Slot /\ \A c \in csv : c <= run.last
      BY <1>1, <1>2 DEF OnlyClosedCandles, Working, Run
  <2>2. PICK d \in csv : TRUE
      BY <1>2
  <2>3. \A r \in page.rows : r <= run.last
      BY <1>2, <1>3, <1>4, <2>1, <2>2 DEF Slot
  <2> QED
      BY <1>1, <2>1, <2>3 DEF OnlyClosedCandles
<1> QED
    BY <1>5, <1>8, <1>9, <1>10, <1>11

\* An empty page moves the cursor down over slots it has just answered.
LEMMA ProbeEmptyKeepsAnswers ==
    ASSUME IInv, ProbeEmpty
    PROVE  /\ marker' \in Marker /\ marker # None
           /\ marker'.start = marker.start
           /\ answered' \subseteq Slot
           /\ HullAnswered' /\ CursorAnswered'
<1> USE HorizonAssumption DEF IInv
<1> DEFINE window == ProbeWindow(marker, csv)
<1>1. /\ marker \in Marker /\ marker # None /\ csv \in SUBSET Slot /\ csv # {}
      /\ ~ReachesDown(csv, marker.start) /\ answered \in SUBSET Slot
    BY DEF ProbeEmpty, Unresolved, TypeOK
<1>2. /\ window.start \in Slot /\ window.end \in Slot
      /\ marker.start <= window.start /\ window.start < window.end
      /\ \A c \in csv : window.end <= c
      /\ window.end \in csv \/ (marker.start < marker.cursor /\ marker.cursor = window.end)
    BY <1>1, ProbeWindowFits
<1>3. /\ marker' = [marker EXCEPT !.cursor = window.start]
      /\ answered' = answered \cup (window.start .. window.end - 1)
      /\ csv' = csv
    BY DEF ProbeEmpty, AdvanceProbe
<1> HIDE DEF window
<1>4. marker' \in Marker /\ marker'.start = marker.start /\ marker'.cursor = window.start
    BY <1>1, <1>2, <1>3 DEF Marker
<1>5. answered' \subseteq Slot
    BY <1>1, <1>2, <1>3 DEF Slot
<1>6. HullAnswered'
    BY <1>3 DEF HullAnswered
<1>7. CursorAnswered'
  <2>1. SUFFICES ASSUME NEW t \in Slot, window.start <= t, NEW c \in csv, t <= c
                 PROVE  t \in answered'
      BY <1>3, <1>4 DEF CursorAnswered
  <2>2. CASE t < window.end
      BY <1>2, <1>3, <2>1, <2>2 DEF Slot
  <2>3. CASE ~(t < window.end)
      BY <1>1, <1>2, <1>3, <2>1, <2>3 DEF HullAnswered, CursorAnswered, Slot
  <2> QED
      BY <2>2, <2>3
<1> QED
    BY <1>1, <1>4, <1>5, <1>6, <1>7

\* What the venue returns lies in the window it was asked for.
LEMMA AnswersFit ==
    ASSUME NEW lo, NEW hi, NEW rows \in Answers(lo, hi)
    PROVE  rows \in SUBSET Slot /\ \A r \in rows : lo <= r /\ r < hi
<1>1. rows \subseteq {t \in Traded : lo <= t /\ t < hi /\ t <= clock}
    BY DEF Answers
<1> QED
    BY <1>1, TradedAssumption

\* A download starts right above the tail, or at the start of an empty file.
LEMMA FromFits ==
    ASSUME IInv, pc = "range", From <= run.last
    PROVE  /\ From \in Slot
           /\ csv # {} => From = Max(csv) + 1
           /\ csv = {} => run.floor <= From
           /\ csv = {} /\ marker # None => marker.start = From
<1> USE HorizonAssumption DEF IInv
<1>1. /\ run \in Run /\ csv \in SUBSET Slot
      /\ marker # None => marker \in Marker
    BY DEF TypeOK, MemoryFits, Working
<1>2. csv # {} => Max(csv) \in Slot
    BY <1>1, LastSlot
<1>3. run.floor \in Slot /\ run.last \in Slot
    BY <1>1 DEF Run
<1>4. marker # None => marker.start \in Slot /\ run.floor <= marker.start
    BY <1>1 DEF MarkerAboveFloor, Reconciled, Marker
<1>5. CASE csv # {}
    BY <1>2, <1>3, <1>5 DEF From, Slot
<1>6. CASE csv = {}
    BY <1>3, <1>4, <1>6 DEF From, Slot
<1> QED
    BY <1>5, <1>6

-----------------------------------------------------------------------------
(* The invariant is inductive *)

\* The initial states satisfy the invariant.
LEMMA InitInvariant == Init => IInv
<1> SUFFICES ASSUME Init PROVE IInv
    OBVIOUS
<1> USE HorizonAssumption, NoneAssumption DEF Init
<1>1. csv \in SUBSET Slot
    BY TradedAssumption
<1>2. csv # {} => /\ Min(csv) \in csv /\ Max(csv) \in csv
                  /\ \A c \in csv : Min(csv) <= c /\ c <= Max(csv)
    BY <1>1, FirstSlot, LastSlot
<1>3. /\ marker = None /\ staging = None /\ pc = "idle"
      /\ run = None /\ page = None /\ walk = None
      /\ clock = FirstClock /\ healed = FALSE /\ faults = 0 /\ edits = 0
      /\ owed = None /\ openEnded = FALSE
      /\ answered = IF csv = {} THEN {} ELSE Min(csv) .. Max(csv)
    OBVIOUS
<1> HIDE DEF Init
<1>4. answered \subseteq Slot /\ HullAnswered
  <2>1. CASE csv = {}
      BY <1>3, <2>1 DEF HullAnswered
  <2>2. CASE csv # {}
    <3>1. Min(csv) \in Slot /\ Max(csv) \in Slot /\ answered = Min(csv) .. Max(csv)
        BY <1>1, <1>2, <1>3, <2>2
    <3>2. answered \subseteq Slot
        BY <3>1 DEF Slot
    <3>3. HullAnswered
        BY <1>1, <1>2, <2>2, <3>1 DEF HullAnswered, Slot
    <3> QED
        BY <3>2, <3>3
  <2> QED
      BY <2>1, <2>2
<1>5. faults \in 0 .. MaxFaults /\ edits \in 0 .. MaxEdits
    BY <1>3, BoundAssumption
<1>6. TypeOK
    BY <1>1, <1>3, <1>4, <1>5, ClockAssumption DEF TypeOK
<1> QED
    BY <1>3, <1>4, <1>6 DEF IInv, MemoryFits, NoStaging, StagedFirstFits, MarkerAboveFloor, PageFits,
        WalkFits, OwedIsMarked, OnlyClosedCandles, CursorAnswered,
        Paging, Downloading, Repaired, Reconciled, Working, Deleting

\* Every step preserves the invariant: one step per action.
LEMMA NextInvariant == IInv /\ [Next]_vars => IInv'
<1> SUFFICES ASSUME IInv, [Next]_vars PROVE IInv'
    OBVIOUS
<1> USE HorizonAssumption, NoneAssumption
    DEF IInv, TypeOK, MemoryFits, NoStaging, StagedFirstFits, MarkerAboveFloor, PageFits,
        WalkFits, OwedIsMarked, OnlyClosedCandles, HullAnswered, CursorAnswered,
        Paging, Downloading, Repaired, Reconciled, Working, Deleting,
        disk, memory, world, history, Goto, Finish, Discard
<1>1. CASE StartRun
  <2>1. run' \in Run /\ (~run'.explicit => run'.floor = 0)
      BY <1>1, FloorsAssumption DEF StartRun, Run, Slot
  <2> QED
      BY <1>1, <2>1 DEF StartRun
<1>2. CASE RecoverNothing
    BY <1>2 DEF RecoverNothing
<1>3. CASE RecoverDiscard
    BY <1>3 DEF RecoverDiscard
<1>4. CASE RecoverCommit
  <2>1. /\ csv' \subseteq Slot /\ answered' \subseteq Slot
        /\ owed' \in Slot \cup {None}
        /\ OwedIsMarked' /\ HullAnswered' /\ CursorAnswered'
    <3> HIDE DEF IInv, OwedIsMarked, HullAnswered, CursorAnswered
    <3> QED
        BY <1>4, PublishKeepsRows DEF RecoverCommit
  <2> HIDE DEF OwedIsMarked, HullAnswered, CursorAnswered
  <2> QED
      BY <1>4, <2>1 DEF RecoverCommit, Publish
<1>5. CASE RecoverRefused
    BY <1>5 DEF RecoverRefused
<1>6. CASE TidyRecovered
    BY <1>6 DEF TidyRecovered
<1>7. CASE RepairTail
  <2>1. run.last \in Slot /\ csv' = {t \in csv : 0 <= t /\ t <= run.last} /\ 0 \in Slot
      BY <1>7 DEF RepairTail, Run, Slot
  <2>2. /\ csv' \subseteq Slot /\ answered' \subseteq Slot
        /\ owed' \in Slot \cup {None}
        /\ OwedIsMarked' /\ HullAnswered' /\ CursorAnswered'
    <3> HIDE DEF IInv, OwedIsMarked, HullAnswered, CursorAnswered
    <3> QED
        BY <1>7, <2>1, TrimKeepsRows DEF RepairTail
  <2> HIDE DEF OwedIsMarked, HullAnswered, CursorAnswered
  <2> QED
      BY <1>7, <2>1, <2>2 DEF RepairTail
<1>8. CASE ReconcileFloor
  <2>1. /\ pc = "floor" /\ pc' = "prefix" /\ run' = run /\ csv' = csv
        /\ UNCHANGED <<staging, page, walk, world, answered, openEnded>>
      BY <1>8 DEF ReconcileFloor
  <2>2. CASE ~(run.explicit /\ marker # None)
      BY <1>8, <2>1, <2>2 DEF ReconcileFloor, Marker, Slot
  <2>3. CASE run.explicit /\ marker # None
    <3>1. marker' = IF csv = {} \/ ReachesDown(csv, run.floor) THEN None
                    ELSE IF marker.start = run.floor THEN marker
                         ELSE [start |-> run.floor, cursor |-> 0]
        BY <1>8, <2>3 DEF ReconcileFloor, ReconciledMarker
    <3>2. owed' = IF owed = None \/ marker' = None THEN None ELSE marker'.start
        BY <1>8, <2>3 DEF ReconcileFloor
    <3>3. marker' \in Marker \cup {None}
        BY <2>1, <3>1 DEF Run, Marker, Slot
    <3>4. marker' # None => /\ marker'.start = run.floor /\ csv # {}
                            /\ ~ReachesDown(csv, run.floor)
                            /\ marker' = marker \/ marker'.cursor = 0
        BY <3>1
    <3>5. CursorAnswered'
        BY <2>1, <3>3, <3>4 DEF Marker, Slot
    <3>6. OwedIsMarked'
        BY <2>1, <3>2, <3>4
    <3>7. owed' \in Slot \cup {None}
        BY <3>2, <3>3 DEF Marker
    <3>8. MarkerAboveFloor'
        BY <2>1, <3>4 DEF Run, Slot
    <3> QED
        BY <2>1, <3>3, <3>5, <3>6, <3>7, <3>8
  <2> QED
      BY <2>2, <2>3
<1>9. CASE NoPrefix
    BY <1>9 DEF NoPrefix
<1>10. CASE PrefixReached
    BY <1>10 DEF PrefixReached
<1>11. CASE ProbeEmpty
  <2>1. /\ marker' \in Marker /\ marker # None
        /\ marker'.start = marker.start
        /\ answered' \subseteq Slot
        /\ HullAnswered' /\ CursorAnswered'
    <3> HIDE DEF IInv, HullAnswered, CursorAnswered
    <3> QED
        BY <1>11, ProbeEmptyKeepsAnswers
  <2>2. marker' # None
      BY <2>1
  <2> HIDE DEF HullAnswered, CursorAnswered
  <2> QED
      BY <1>11, <2>1, <2>2 DEF ProbeEmpty, Unresolved
<1>12. CASE ProbePage
  <2> DEFINE window == ProbeWindow(marker, csv)
  <2>1. /\ pc = "prefix" /\ marker \in Marker /\ marker # None /\ csv # {}
        /\ ~ReachesDown(csv, marker.start)
      BY <1>12 DEF ProbePage, Unresolved
  <2>2. /\ window.start \in Slot /\ window.end \in Slot
        /\ marker.start <= window.start /\ window.start < window.end
        /\ \A c \in csv : window.end <= c
        /\ window.end \in csv \/ (marker.start < marker.cursor /\ marker.cursor = window.end)
      BY <2>1, ProbeWindowFits
  <2>3. PICK rows \in Answers(window.start, window.end) \ {{}} :
               page' = [start |-> window.start, end |-> window.end, rows |-> rows]
      BY <1>12 DEF ProbePage
  <2> HIDE DEF window
  <2>4. rows \in SUBSET Slot /\ \A r \in rows : window.start <= r /\ r < window.end
      BY <2>3, AnswersFit
  <2>5. page' \in Page
      BY <2>2, <2>3, <2>4 DEF Page
  <2>6. PageFits'
      BY <1>12, <2>1, <2>2, <2>3, <2>4 DEF ProbePage
  <2> HIDE DEF PageFits
  <2> QED
      BY <1>12, <2>5, <2>6 DEF ProbePage
<1>13. CASE StagePage
    BY <1>13 DEF StagePage, Staging, Page
<1>14. CASE MergePage
  <2>1. /\ csv' \subseteq Slot /\ answered' \subseteq Slot
        /\ owed' \in Slot \cup {None}
        /\ OwedIsMarked' /\ HullAnswered' /\ CursorAnswered' /\ OnlyClosedCandles'
    <3> HIDE DEF IInv, OwedIsMarked, HullAnswered, CursorAnswered, OnlyClosedCandles
    <3> QED
        BY <1>14, MergeKeepsRows
  <2> HIDE DEF OwedIsMarked, HullAnswered, CursorAnswered, OnlyClosedCandles
  <2>2. csv' # {}
      BY <1>14 DEF MergePage
  <2> QED
      BY <1>14, <2>1, <2>2 DEF MergePage
<1>15. CASE TidyPage
    BY <1>15 DEF TidyPage
<1>16. CASE ResolvePrefix
  <2>1. marker \in Marker /\ marker # None
      BY <1>16 DEF ResolvePrefix
  <2>2. \/ marker' = None /\ owed = None
        \/ marker' = [marker EXCEPT !.cursor = 0]
      BY <1>16 DEF ResolvePrefix
  <2>3. CASE marker' = None /\ owed = None
      BY <1>16, <2>3 DEF ResolvePrefix
  <2>4. CASE marker' = [marker EXCEPT !.cursor = 0]
    <3>1. marker' \in Marker /\ marker'.start = marker.start /\ marker'.cursor = 0
        BY <2>1, <2>4 DEF Marker, Slot
    <3>2. marker' # None /\ ~(marker'.start < marker'.cursor)
        BY <3>1 DEF Marker, Slot
    <3> QED
        BY <1>16, <2>1, <3>1, <3>2 DEF ResolvePrefix
  <2> QED
      BY <2>2, <2>3, <2>4
<1>17. CASE NothingToFetch
    BY <1>17 DEF NothingToFetch
<1>18. CASE Fetch
  <2>1. PICK last \in AuthoritativeLasts :
           \E rows \in Answers(From, last + 1 + Overshoot), scanned \in BOOLEAN :
             /\ Acceptable(rows, last)
             /\ walk' = [start |-> From, rows |-> rows, scanned |-> scanned, fresh |-> csv = {}]
      BY <1>18 DEF Fetch
  <2>2. PICK rows \in Answers(From, last + 1 + Overshoot), scanned \in BOOLEAN :
           /\ Acceptable(rows, last)
           /\ walk' = [start |-> From, rows |-> rows, scanned |-> scanned, fresh |-> csv = {}]
      BY <2>1
  <2>3. rows \in SUBSET Slot /\ \A r \in rows : From <= r
      BY AnswersFit
  <2>4. /\ From \in Slot
        /\ csv # {} => From = Max(csv) + 1
        /\ csv = {} => run.floor <= From
        /\ csv = {} /\ marker # None => marker.start = From
    <3> HIDE DEF IInv
    <3> QED
        BY <1>18, FromFits DEF Fetch
  <2>5. rows # {} /\ Max(rows) \in rows /\ \A r \in rows : r <= Max(rows)
      BY <2>2, <2>3, LastSlot DEF Acceptable
  <2>6. run.last \in Slot /\ Max(rows) <= run.last
      BY <1>18, <2>2 DEF Fetch, Acceptable, Run
  <2>7. \A r \in rows : r <= run.last
      BY <2>3, <2>5, <2>6, LastWithin
  <2>8. walk' \in Walk
      BY <2>2, <2>3, <2>4 DEF Walk
  <2>9. /\ pc = "range" /\ pc' = "stage" /\ UNCHANGED <<run, disk, page, world, history>>
      BY <1>18 DEF Fetch
  <2>10. WalkFits'
      BY <2>2, <2>3, <2>4, <2>5, <2>7, <2>9
  <2> HIDE DEF WalkFits
  <2> QED
      BY <2>8, <2>9, <2>10
<1>19. CASE FetchRefused
    BY <1>19 DEF FetchRefused
<1>20. CASE StageWalk
    BY <1>20 DEF StageWalk, Staging, Walk
<1>21. CASE MarkProvisional
  <2>1. walk.start \in Slot /\ 0 \in Slot
      BY <1>21 DEF MarkProvisional, Walk, Slot
  <2>2. CASE marker = None /\ walk.fresh /\ ~walk.scanned
    <3>1. /\ marker' \in Marker /\ marker' # None
          /\ marker'.start = walk.start /\ ~(marker'.start < marker'.cursor)
        BY <1>21, <2>1, <2>2 DEF MarkProvisional, Marker, Slot
    <3> QED
        BY <1>21, <2>2, <3>1 DEF MarkProvisional
  <2>3. CASE ~(marker = None /\ walk.fresh /\ ~walk.scanned)
      BY <1>21, <2>3 DEF MarkProvisional
  <2> QED
      BY <2>2, <2>3
<1>22. CASE WriteManifest
  <2> DEFINE man == [hasBase |-> ~walk.fresh, base |-> TailStamp(csv, run.floor),
                     start |-> walk.start,
                     first |-> Min(walk.rows), last |-> Max(walk.rows)]
  <2>1. /\ pc = "manifest" /\ walk \in Walk /\ run \in Run
        /\ staging = [man |-> None, rows |-> walk.rows, whole |-> TRUE]
      BY <1>22 DEF WriteManifest
  <2>2. /\ staging' = [man |-> man, rows |-> walk.rows, whole |-> TRUE]
        /\ openEnded' = ~walk.scanned
      BY <1>22, <2>1 DEF WriteManifest
  <2>3. Min(walk.rows) \in Slot /\ Max(walk.rows) \in Slot
      BY <2>1, FirstSlot, LastSlot DEF Walk
  <2>4. TailStamp(csv, run.floor) \in Slot
      BY <2>1, LastSlot DEF TailStamp, Run
  <2>5. man \in Manifest
      BY <2>1, <2>3, <2>4 DEF Manifest, Walk
  <2>6. ~man.hasBase => /\ man.base <= man.start
                        /\ marker # None => marker.start = man.start
      BY <2>1 DEF TailStamp
  <2>7. man.hasBase = ~walk.fresh /\ man.start = walk.start
      OBVIOUS
  <2> HIDE DEF man
  <2>8. staging' \in Staging
      BY <2>1, <2>2, <2>5 DEF Staging, Walk
  <2>9. staging' # None /\ man # None
      BY <2>5, <2>8
  <2>10. /\ pc' = "commit" /\ UNCHANGED <<run, csv, marker, page, walk, world, owed, answered>>
      BY <1>22 DEF WriteManifest
  <2>11. StagedFirstFits' /\ WalkFits'
      BY <2>1, <2>2, <2>6, <2>7, <2>9, <2>10
  <2> HIDE DEF StagedFirstFits, WalkFits
  <2> QED
      BY <2>1, <2>2, <2>8, <2>10, <2>11 DEF Walk
<1>23. CASE Commit
  <2>1. /\ csv' \subseteq Slot /\ answered' \subseteq Slot
        /\ owed' \in Slot \cup {None}
        /\ OwedIsMarked' /\ HullAnswered' /\ CursorAnswered'
    <3> HIDE DEF IInv, OwedIsMarked, HullAnswered, CursorAnswered
    <3> QED
        BY <1>23, PublishKeepsRows DEF Commit
  <2>2. OnlyClosedCandles'
      BY <1>23 DEF Commit, Publish
  <2>3. WalkFits'
      BY <1>23 DEF Commit, Publish, Walk
  <2> HIDE DEF OwedIsMarked, HullAnswered, CursorAnswered, OnlyClosedCandles, WalkFits
  <2> QED
      BY <1>23, <2>1, <2>2, <2>3 DEF Commit, Publish
<1>24. CASE CommitRefused
    BY <1>24 DEF CommitRefused
<1>25. CASE Tidy
    BY <1>25 DEF Tidy
<1>26. CASE RetireMarker
    BY <1>26 DEF RetireMarker
<1>27. CASE DeleteCsv
    BY <1>27, BoundAssumption DEF DeleteCsv
<1>28. CASE DeleteMarker
    BY <1>28 DEF DeleteMarker
<1>29. CASE DeleteStaging
    BY <1>29 DEF DeleteStaging
<1>30. CASE Crash
    BY <1>30, BoundAssumption DEF Crash
<1>31. CASE CrashInStaging
  <2>1. PICK man \in {None} \cup (IF staging = None THEN {} ELSE {staging.man}) :
               staging' = [man |-> man, rows |-> {}, whole |-> FALSE]
      BY <1>31 DEF CrashInStaging
  <2>2. man \in Manifest \cup {None}
      BY <2>1 DEF Staging
  <2>3. staging' \in Staging /\ staging'.man = man
      BY <2>1, <2>2 DEF Staging
  <2>4. StagedFirstFits'
      BY <1>31, <2>1, <2>3 DEF CrashInStaging
  <2>5. faults' \in 0 .. MaxFaults
      BY <1>31, BoundAssumption DEF CrashInStaging
  <2> HIDE DEF StagedFirstFits
  <2> QED
      BY <1>31, <2>3, <2>4, <2>5 DEF CrashInStaging
<1>32. CASE OperatorEdit
  <2>1. PICK lo, hi \in Slot : csv' = {t \in csv : lo <= t /\ t <= hi} /\ Forget(csv', hi)
      BY <1>32 DEF OperatorEdit
  <2>2. /\ csv' \subseteq Slot /\ answered' \subseteq Slot
        /\ owed' \in Slot \cup {None}
        /\ OwedIsMarked' /\ HullAnswered' /\ CursorAnswered'
    <3> HIDE DEF IInv, OwedIsMarked, HullAnswered, CursorAnswered
    <3> QED
        BY <1>32, <2>1, TrimKeepsRows DEF OperatorEdit
  <2>3. edits' \in 0 .. MaxEdits
      BY <1>32, BoundAssumption DEF OperatorEdit
  <2> HIDE DEF OwedIsMarked, HullAnswered, CursorAnswered
  <2> QED
      BY <1>32, <2>1, <2>2, <2>3 DEF OperatorEdit
<1>33. CASE Tick
  <2>1. clock' \in Slot \ {0}
      BY <1>33 DEF Tick, Slot
  <2> QED
      BY <1>33, <2>1 DEF Tick
<1>34. CASE Heal
    BY <1>34 DEF Heal
<1>35. CASE UNCHANGED vars
    BY <1>35 DEF vars
<1> QED
    BY <1>1, <1>2, <1>3, <1>4, <1>5, <1>6, <1>7, <1>8, <1>9, <1>10, <1>11, <1>12,
       <1>13, <1>14, <1>15, <1>16, <1>17, <1>18, <1>19, <1>20, <1>21, <1>22, <1>23, <1>24,
       <1>25, <1>26, <1>27, <1>28, <1>29, <1>30, <1>31, <1>32, <1>33, <1>34, <1>35
    DEF Next, Worker

\* The invariant holds in every reachable state.
THEOREM Invariance == Spec => []IInv
<1> QED
    BY InitInvariant, NextInvariant, PTL DEF Spec

-----------------------------------------------------------------------------
(* Safety *)

\* Type correctness: every variable keeps its type through every step, crash
\* and restart of the worker.
THEOREM TypeCorrectness == Spec => []TypeOK
<1>1. IInv => TypeOK
    BY DEF IInv
<1> QED
    BY <1>1, Invariance, PTL

\* The marker of a published suffix with an owed prefix is on disk, wherever
\* the worker was killed (mexc_staging.h requirePrefixMarkerForPublication).
THEOREM SuffixMarked == Spec => []SuffixKeepsMarker
<1>1. IInv => SuffixKeepsMarker
    BY DEF IInv, OwedIsMarked, SuffixKeepsMarker
<1> QED
    BY <1>1, Invariance, PTL

\* No step leaves a hole in the stored rows that no venue answer covered.
THEOREM HolesAnswered == Spec => []NoUnansweredHole
<1>1. IInv => NoUnansweredHole
  <2>1. SUFFICES ASSUME IInv, NEW t \in Slot, NEW a \in csv, NEW c \in csv, a < t, t < c
                 PROVE  t \in answered
      BY DEF NoUnansweredHole
  <2>2. a <= t /\ t <= c
      BY <2>1, HorizonAssumption DEF IInv, TypeOK, Slot
  <2> QED
      BY <2>1, <2>2 DEF IInv, HullAnswered
<1> QED
    BY <1>1, Invariance, PTL

\* After its tail repair a run's file holds closed candles only.
THEOREM ClosedOnly == Spec => []OnlyClosedCandles
<1>1. IInv => OnlyClosedCandles
    BY DEF IInv
<1> QED
    BY <1>1, Invariance, PTL

\* Three steps add rows to the CSV; every other step keeps a part of it.
LEMMA ThreeStepsAdd ==
    [Next]_vars => csv' \subseteq csv \/ RecoverCommit \/ Commit \/ MergePage
<1> USE DEF disk, memory, world, history, Discard
<1> QED
    BY DEF Next, Worker, vars,
        StartRun, RecoverNothing, RecoverDiscard, RecoverRefused, TidyRecovered, RepairTail,
        ReconcileFloor, NoPrefix, PrefixReached, ProbeEmpty, ProbePage, StagePage, TidyPage,
        ResolvePrefix, NothingToFetch, Fetch, FetchRefused, StageWalk, MarkProvisional,
        WriteManifest, CommitRefused, Tidy, RetireMarker, DeleteCsv, DeleteMarker,
        DeleteStaging, Crash, CrashInStaging, OperatorEdit, Tick, Heal

\* A run given --since adds no row below its floor unless an older row is
\* stored already: not by recovery, not by the backward scan, not by a walk.
THEOREM FloorRespected == Spec => NothingRestoredBelowFloor
<1> DEFINE AboveFloor ==
             run # None /\ run.explicit =>
               \A new \in csv' \ csv : new >= run.floor \/ \E old \in csv : old < new
<1>1. IInv /\ [Next]_vars => AboveFloor
  <2> SUFFICES ASSUME IInv, [Next]_vars, run \in Run, NEW new \in csv' \ csv
               PROVE  new >= run.floor \/ \E old \in csv : old < new
      BY DEF IInv, TypeOK
  <2> USE HorizonAssumption
  <2>1. TypeOK /\ run.floor \in Slot
      BY DEF IInv, Run
  <2>2. ASSUME Committable(staging, csv, marker), csv' = csv \cup staging.rows,
               csv = {} => run.floor <= staging.man.start
        PROVE  new >= run.floor \/ \E old \in csv : old < new
    <3>1. /\ staging.man \in Manifest /\ staging.rows \in SUBSET Slot
          /\ staging.man.start <= new
          /\ csv # {} => Max(csv) \in csv /\ staging.man.start = Max(csv) + 1
        BY <2>1, <2>2, CommittableContinues
    <3>2. new \in Slot /\ staging.man.start \in Slot
        BY <2>2, <3>1 DEF Manifest
    <3>3. CASE csv = {}
        BY <2>1, <2>2, <3>1, <3>2, <3>3 DEF Slot
    <3>4. CASE csv # {}
      <4>1. Max(csv) \in Slot /\ Max(csv) + 1 <= new
          BY <2>1, <3>1, <3>4 DEF TypeOK
      <4>2. Max(csv) < new
          BY <3>2, <4>1 DEF Slot
      <4> QED
          BY <3>1, <3>4, <4>2
    <3> QED
        BY <3>3, <3>4
  <2>3. CASE RecoverCommit
    <3>1. /\ Committable(staging, csv, marker) /\ csv' = csv \cup staging.rows
          /\ ~Discardable(staging, csv, run.floor)
        BY <2>3 DEF RecoverCommit, Publish
    <3>2. staging.man.hasBase <=> csv # {}
        BY <2>1, <3>1, CommittableContinues
    <3>3. csv = {} => staging.man.base = run.floor
        BY <3>1 DEF Discardable, Stale, TailStamp
    <3>4. csv = {} => staging.man.base <= staging.man.start
        BY <3>1, <3>2 DEF IInv, StagedFirstFits, Committable
    <3> QED
        BY <2>2, <3>1, <3>3, <3>4
  <2>4. CASE Commit
    <3>1. Committable(staging, csv, marker) /\ csv' = csv \cup staging.rows
        BY <2>4 DEF Commit, Publish
    <3>2. csv = {} => run.floor <= staging.man.start
        BY <2>4 DEF Commit, IInv, WalkFits
    <3> QED
        BY <2>2, <3>1, <3>2
  <2>5. CASE MergePage
    <3>1. /\ pc = "mergePage" /\ page \in Page /\ new \in page.rows
          /\ marker # None /\ marker \in Marker
        BY <2>5 DEF MergePage, IInv, TypeOK, MemoryFits, PageFits, Paging
    <3>2. run.floor <= marker.start /\ marker.start <= page.start /\ page.start <= new
        BY <3>1 DEF IInv, MarkerAboveFloor, PageFits, Reconciled, Paging
    <3>3. new \in Slot /\ marker.start \in Slot /\ page.start \in Slot
        BY <3>1 DEF Page, Marker
    <3> QED
        BY <2>1, <3>2, <3>3 DEF Slot
  <2> QED
      BY <2>3, <2>4, <2>5, ThreeStepsAdd
<1>2. IInv /\ [Next]_vars => [AboveFloor]_vars
    BY <1>1
<1> QED
    BY <1>2, Invariance, PTL DEF Spec, NothingRestoredBelowFloor

-----------------------------------------------------------------------------
(* The file and its marker implement CandleHistory *)

\* The steps that change the CSV or its marker; the others are invisible to a
\* reader of the data directory.
LEMMA VisibleSteps ==
    [Next]_vars =>
      \/ UNCHANGED <<csv, marker>>
      \/ RecoverCommit \/ RepairTail \/ ReconcileFloor \/ PrefixReached \/ ProbeEmpty
      \/ MergePage \/ ResolvePrefix \/ MarkProvisional \/ Commit \/ RetireMarker
      \/ DeleteCsv \/ DeleteMarker \/ OperatorEdit
<1> USE DEF disk, memory, world, history, Discard
<1> QED
    BY DEF Next, Worker, vars,
        StartRun, RecoverNothing, RecoverDiscard, RecoverRefused, TidyRecovered,
        NoPrefix, ProbePage, StagePage, TidyPage, NothingToFetch, Fetch, FetchRefused,
        StageWalk, WriteManifest, CommitRefused, Tidy, DeleteStaging,
        Crash, CrashInStaging, Tick, Heal

\* A published transaction is the first content of a file or an append to it.
LEMMA PublishIsHistory ==
    ASSUME IInv, Committable(staging, csv, marker), Publish
    PROVE  History!Publish \/ History!Append
<1>1. /\ staging.rows # {} /\ staging.rows \in SUBSET Slot
      /\ staging.man.start \in Slot
      /\ \A r \in staging.rows : staging.man.start <= r
      /\ csv # {} => /\ Max(csv) \in csv /\ \A c \in csv : c <= Max(csv)
                     /\ staging.man.start = Max(csv) + 1
    BY CommittableContinues DEF IInv, Manifest
<1>2. csv' = csv \cup staging.rows /\ marker' = marker /\ csv \in SUBSET Slot
    BY DEF Publish, IInv, TypeOK
<1>3. CASE csv = {}
    BY <1>1, <1>2, <1>3 DEF History!Publish
<1>4. CASE csv # {}
  <2>1. \A new \in csv' \ csv, old \in csv : old < new
    <3>1. SUFFICES ASSUME NEW new \in staging.rows, NEW old \in csv
                   PROVE  old < new
        BY <1>2
    <3>2. old <= Max(csv) /\ Max(csv) + 1 <= new
        BY <1>1, <1>4
    <3>3. new \in Slot /\ old \in Slot /\ Max(csv) \in Slot
        BY <1>1, <1>2, <1>4
    <3> QED
        BY <3>2, <3>3, HorizonAssumption DEF Slot
  <2>2. (csv' # {} /\ marker' # None) = (csv # {} /\ marker # None)
      BY <1>2, <1>4
  <2> QED
      BY <1>2, <1>4, <2>1, <2>2 DEF History!Append
<1> QED
    BY <1>3, <1>4

\* Keeping a contiguous part of the rows is a trim of the history.
LEMMA TrimIsHistory ==
    ASSUME IInv, NEW lo \in Slot, NEW hi \in Slot,
           csv' = {t \in csv : lo <= t /\ t <= hi}, marker' = marker
    PROVE  History!Trim
<1>1. csv \in SUBSET Slot
    BY DEF IInv, TypeOK
<1>2. \A a, c \in csv', b \in csv : a <= b /\ b <= c => b \in csv'
    BY <1>1, HorizonAssumption DEF Slot
<1>3. (csv' # {} /\ marker' # None) = ((csv # {} /\ marker # None) /\ csv' # {})
    OBVIOUS
<1> QED
    BY <1>2, <1>3 DEF History!Trim

\* Every step of the worker, of -d, of a crash and of an operator is a step of
\* the abstract history or invisible to it.
THEOREM HistoryImplemented == Spec => ImplementsHistory
<1>1. Init => History!Init
    BY TradedAssumption DEF Init, History!Init
<1>2. IInv /\ [Next]_vars => [History!Next]_(History!hvars)
  <2> SUFFICES ASSUME IInv, [Next]_vars
               PROVE  History!Next \/ UNCHANGED History!hvars
      OBVIOUS
  <2> USE DEF History!Next, History!hvars
  <2>1. CASE UNCHANGED <<csv, marker>>
      BY <2>1
  <2>2. CASE RecoverCommit \/ Commit
      BY <2>2, PublishIsHistory DEF RecoverCommit, Commit
  <2>3. CASE RepairTail
    <3>1. run.last \in Slot /\ 0 \in Slot /\ csv' = {t \in csv : 0 <= t /\ t <= run.last}
      <4>1. run \in Run /\ csv \in SUBSET Slot /\ csv' = {t \in csv : t <= run.last}
          BY <2>3 DEF RepairTail, IInv, TypeOK, MemoryFits, Working
      <4>2. run.last \in Slot /\ 0 \in Slot /\ \A t \in csv : 0 <= t
          BY <4>1, HorizonAssumption DEF Run, Slot
      <4> QED
          BY <4>1, <4>2
    <3> QED
        BY <2>3, <3>1, TrimIsHistory DEF RepairTail
  <2>4. CASE OperatorEdit
      BY <2>4, TrimIsHistory DEF OperatorEdit
  <2>5. CASE DeleteCsv
      BY <2>5 DEF DeleteCsv, History!Trim
  <2>6. CASE DeleteMarker
      BY <2>6 DEF DeleteMarker, IInv, MemoryFits, Deleting, disk
  <2>7. CASE MergePage
    <3>1. /\ csv' = csv \cup page.rows /\ marker' = marker
          /\ csv # {} /\ marker # None /\ page.rows \in SUBSET Slot /\ csv \in SUBSET Slot
          /\ page.end \in Slot
          /\ \A r \in page.rows : r < page.end
          /\ \A c \in csv : page.end <= c
        BY <2>7 DEF MergePage, IInv, TypeOK, MemoryFits, PageFits, Paging, Page
    <3>2. \A new \in csv' \ csv, old \in csv : new < old
        BY <3>1, HorizonAssumption DEF Slot
    <3>3. (csv' # {} /\ marker' # None) = (csv # {} /\ marker # None)
        BY <3>1
    <3> QED
        BY <3>1, <3>2, <3>3 DEF History!Prepend
  <2>8. CASE ReconcileFloor
    <3>1. csv' = csv
        BY <2>8 DEF ReconcileFloor
    <3>2. marker = None => marker' = None
        BY <2>8 DEF ReconcileFloor
    <3>3. CASE (csv' # {} /\ marker' # None) = (csv # {} /\ marker # None)
        BY <3>1, <3>3
    <3>4. CASE (csv' # {} /\ marker' # None) # (csv # {} /\ marker # None)
      <4>1. csv # {} /\ marker # None /\ (csv' # {} /\ marker' # None) = FALSE
          BY <3>1, <3>2, <3>4
      <4> QED
          BY <3>1, <4>1 DEF History!Resolve
    <3> QED
        BY <3>3, <3>4
  <2>9. CASE PrefixReached
      BY <2>9 DEF PrefixReached, History!Resolve
  <2>10. CASE ProbeEmpty
    <3>1. marker # None /\ marker' # None /\ csv' = csv
      <4>1. marker' \in Marker /\ marker # None
          BY <2>10, ProbeEmptyKeepsAnswers
      <4> QED
          BY <2>10, <4>1, NoneAssumption DEF ProbeEmpty
    <3>2. (csv' # {} /\ marker' # None) = (csv # {} /\ marker # None)
        BY <3>1
    <3> QED
        BY <3>1, <3>2
  <2>11. CASE ResolvePrefix
    <3>1. /\ csv # {} /\ csv' = csv /\ marker \in Marker /\ marker # None
          /\ marker' = None \/ marker' = [marker EXCEPT !.cursor = 0]
        BY <2>11 DEF ResolvePrefix, IInv, TypeOK, PageFits, Paging
    <3>2. CASE marker' = None
        BY <3>1, <3>2 DEF History!Resolve
    <3>3. CASE marker' = [marker EXCEPT !.cursor = 0]
      <4>1. marker' \in Marker
          BY <3>1, <3>3, HorizonAssumption DEF Marker, Slot
      <4>2. (csv' # {} /\ marker' # None) = (csv # {} /\ marker # None)
          BY <3>1, <4>1, NoneAssumption
      <4> QED
          BY <3>1, <4>2
    <3> QED
        BY <3>1, <3>2, <3>3
  <2>12. CASE MarkProvisional
    <3>1. csv' = csv /\ (marker' # marker => csv = {})
        BY <2>12 DEF MarkProvisional, IInv, WalkFits
    <3>2. (csv' # {} /\ marker' # None) = (csv # {} /\ marker # None)
        BY <3>1
    <3> QED
        BY <3>1, <3>2
  <2>13. CASE RetireMarker
    <3>1. csv' = csv /\ (marker' = marker \/ (marker # None /\ marker' = None))
        BY <2>13 DEF RetireMarker
    <3>2. CASE csv # {} /\ marker # None /\ marker' = None
        BY <3>1, <3>2 DEF History!Resolve
    <3>3. CASE ~(csv # {} /\ marker # None /\ marker' = None)
      <4>1. (csv' # {} /\ marker' # None) = (csv # {} /\ marker # None)
          BY <3>1, <3>3
      <4> QED
          BY <3>1, <4>1
    <3> QED
        BY <3>2, <3>3
  <2> QED
      BY <2>1, <2>2, <2>3, <2>4, <2>5, <2>6, <2>7, <2>8, <2>9, <2>10, <2>11, <2>12, <2>13,
         VisibleSteps
<1> QED
    BY <1>1, <1>2, Invariance, PTL DEF Spec, ImplementsHistory, History!Spec

=============================================================================
